------------------------------- MODULE MCShell -------------------------------
(***************************************************************************)
(* Small instances of Shell for TLC.                                       *)
(***************************************************************************)
EXTENDS Shell

P(abs, comps, slash) == [abs |-> abs, comps |-> comps, slash |-> slash]

\* Two names in any directory, one also with a trailing slash, and the way up.
MCPaths ==
  {P(FALSE, <<"a">>, FALSE), P(FALSE, <<"b">>, FALSE), P(FALSE, <<"b">>, TRUE),
   P(FALSE, <<"..">>, FALSE)}

\* One chunk and a half.
MCTexts == {<<"x", "y", "x">>}
=============================================================================
