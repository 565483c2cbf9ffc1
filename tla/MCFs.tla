-------------------------------- MODULE MCFs --------------------------------
(* Model checking of Fs: a root directory, up to two other inodes.         *)
EXTENDS Fs

CONSTANTS a, b

Abs(s) == [abs |-> TRUE, elems |-> s]
Rel(s) == [abs |-> FALSE, elems |-> s]
MCPath == {Abs(<<a>>), Rel(<<b>>), Abs(<<a, b>>), Rel(<<"..">>)}
MCNewPath == {Rel(<<b>>)}
Root(n, x, y) == [type |-> "dir", nlink |-> n, lost |-> 0,
                  ents |-> [NoEnts EXCEPT !["."] = 1, ![".."] = 1, ![a] = x, ![b] = y]]
Dir(i, n, up) == [type |-> "dir", nlink |-> n, lost |-> 0,
                  ents |-> [NoEnts EXCEPT !["."] = i, ![".."] = up]]
File == [FreeInode EXCEPT !.type = "file", !.nlink = 1]
(* A file, an empty directory, one that is removed but in use, and one that *)
(* is removed but in use and was in a directory that is still there.       *)
MCDisks == { <<Root(1, 2, 0), File, FreeInode>>,
             <<Root(2, 2, 0), Dir(2, 1, 1), FreeInode>>,
             <<Root(1, 0, 0), Dir(2, 0, 1), FreeInode>>,
             <<Root(2, 3, 0), Dir(2, 0, 3), Dir(3, 1, 1)>> }
MCEmptyDisk == {<<Root(1, 0, 0), FreeInode, FreeInode>>}
Symmetry == Permutations(Proc)
=============================================================================
