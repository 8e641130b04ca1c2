-------------------------------- MODULE MCNet --------------------------------
(***************************************************************************)
(* A small instance of Net for TLC.                                        *)
(***************************************************************************)
EXTENDS Net

\* The first host's answer fits the header buffer and overflows the body
\* buffer; the second's header is too long; neither is a multiple of the other.
MCHeaderLen == [h1 |-> 2, h2 |-> 4]
MCBodyLen   == [h1 |-> 3, h2 |-> 1]
=============================================================================
