------------------------------- MODULE MCPipe -------------------------------
(* Instances of Pipe for TLC. *)
EXTENDS Pipe, TLC

CONSTANTS b1, b2

(* The two byte values are interchangeable. *)
Symmetry == Permutations({b1, b2})
=============================================================================
