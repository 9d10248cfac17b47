------------------------- MODULE MCMultiNodeTestnet -------------------------
(***************************************************************************)
(* Small instances of MultiNodeTestnet, with the ports of the code.        *)
(***************************************************************************)
EXTENDS MultiNodeTestnet

CodePorts == [p2p |-> 26656, rpc |-> 26657, proxy |-> 26658, prometheus |-> 26660,
              grpc |-> 9090, api |-> 1317, pprof |-> 6060]

\* No entry, an entry the balance covers, and one it does not.
SomeStakes == {<<>>, <<3>>, <<1, 9>>}

\* The first of two entries is no integer.
InvalidFirst == {<<Invalid, 3>>}

DefaultAndShortPorts == {<<>>, <<47222>>}

DefaultPortsOnly == {<<>>}
=============================================================================
