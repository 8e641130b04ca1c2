----------------------------- MODULE MCSimpleFS -----------------------------
(***************************************************************************)
(* A small instance of SimpleFSCrash for TLC.                              *)
(***************************************************************************)
EXTENDS SimpleFSCrash

P(abs, comps, slash) == [abs |-> abs, comps |-> comps, slash |-> slash]

\* Two names of the root and one below the first, which may be a directory.
MCPaths ==
  {P(TRUE, <<"a">>, FALSE), P(FALSE, <<"b">>, FALSE), P(FALSE, <<"a", "b">>, FALSE)}

MCBufs == {<<"x">>}
=============================================================================
