------------------------------ MODULE MCEditor ------------------------------
(***************************************************************************)
(* A small instance of Editor for TLC: a file with an indented line and    *)
(* more lines than rows, and beside it nothing, a directory, or a file     *)
(* larger than the buffer.                                                 *)
(***************************************************************************)
EXTENDS Editor

Dir == [kind |-> "dir", data |-> <<>>]
Doc == File(<<Tab, "x", NL, NL, "x">>)
Big == File(<<"x", "x", NL, NL, NL, NL>>)

MCInitFiles == {[p \in Paths |-> IF p = "p" THEN Doc ELSE f] : f \in {Absent, Dir, Big}}

MCSymmetry == Permutations(Terminals)
=============================================================================
