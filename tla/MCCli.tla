-------------------------------- MODULE MCCli --------------------------------
(* An instance of Cli for TLC. *)
EXTENDS Cli

MCNames   == {<<"a">>, <<"a", "b">>, <<"b", "b">>}
MCOutputs == {"clear", <<"o">>, <<>>}
MCSizes   == {<<2, 6>>, <<3, 3>>}

=============================================================================
