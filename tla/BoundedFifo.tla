---------------------------- MODULE BoundedFifo ----------------------------
(***************************************************************************)
(* What a pipe promises: a queue of at most Size bytes.  "last" is the     *)
(* byte most recently handed to a reader.                                  *)
(***************************************************************************)
EXTENDS Naturals, Sequences

CONSTANTS Byte, Size, NoByte

VARIABLES q, last

Init == q = <<>> /\ last = NoByte

Put(x) == /\ Len(q) < Size
          /\ q' = Append(q, x)
          /\ UNCHANGED last

Get == /\ q # <<>>
       /\ last' = Head(q)
       /\ q' = Tail(q)

Next == Get \/ \E x \in Byte : Put(x)

Spec == Init /\ [][Next]_<<q, last>>
=============================================================================
