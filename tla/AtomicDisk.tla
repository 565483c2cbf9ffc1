----------------------------- MODULE AtomicDisk -----------------------------
(***************************************************************************)
(* What the log promises its callers: a disk on which a transaction takes  *)
(* effect all at once or, when the machine crashes before the commit, not  *)
(* at all.  "view" is what system calls read, the writes of the            *)
(* transaction in progress included.                                       *)
(***************************************************************************)
CONSTANTS Block, Val

VARIABLES committed, view, active

vars == <<committed, view, active>>

Init == /\ committed \in [Block -> Val]
        /\ view = committed
        /\ active = FALSE

Begin == /\ ~active
         /\ active' = TRUE
         /\ UNCHANGED <<committed, view>>

Write(b, v) == /\ active
               /\ view' = [view EXCEPT ![b] = v]
               /\ UNCHANGED <<committed, active>>

Commit == /\ active
          /\ committed' = view
          /\ active' = FALSE
          /\ UNCHANGED view

Crash == /\ view' = committed
         /\ active' = FALSE
         /\ UNCHANGED committed

Next == \/ Begin \/ Commit \/ Crash
        \/ \E b \in Block, v \in Val : Write(b, v)

Spec == Init /\ [][Next]_vars
=============================================================================
