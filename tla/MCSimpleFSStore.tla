--------------------------- MODULE MCSimpleFSStore ---------------------------
(***************************************************************************)
(* A small instance of SimpleFSStore for TLC.                              *)
(***************************************************************************)
EXTENDS SimpleFSStore, TLC

MCFlatPaths == {[abs |-> TRUE, comps |-> <<c>>, slash |-> FALSE] : c \in Comps}
MCBufs      == {<<>>, <<"y", "x">>}

\* Names are only compared with one another, and contents do not mention them.
MCSymmetry  == Permutations(Comps)
=============================================================================
