------------------------------ MODULE MCLocks -------------------------------
(* Bcache, and beside it Spinlock: the locks that processors spin on, and  *)
(* the busy flags that processes sleep on.  The components are independent *)
(* here: a behaviour runs the one that comp names.                         *)
EXTENDS Bcache, Spinlock, TLC

VARIABLE comp

MCInit ==
  /\ comp \in {"bcache", "spinlock"}
  /\ Init /\ SpinInit
  /\ comp = "bcache" \/ \E v \in Val : disk = [s \in Sector |-> v]

MCNext ==
  /\ UNCHANGED comp
  /\ \/ comp = "bcache" /\ Next /\ UNCHANGED spinvars
     \/ comp = "spinlock" /\ SpinNext /\ UNCHANGED vars

MCSpec == MCInit /\ [][MCNext]_<<comp, vars, spinvars>>

Symmetry == Permutations(Proc) \cup Permutations(Sector) \cup Permutations(Val)
=============================================================================
