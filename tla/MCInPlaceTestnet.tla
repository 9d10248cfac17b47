-------------------------- MODULE MCInPlaceTestnet --------------------------
(***************************************************************************)
(* Small instances of InPlaceTestnet.                                      *)
(***************************************************************************)
EXTENDS InPlaceTestnet

\* Lists with a repeated account and with entries that are none.
SomeFlags == {<<>>, <<"alice">>, <<"alice", "bob", "alice">>, <<"bob", "mint">>}

NoFlag == {<<>>}
=============================================================================
