-------------------------- MODULE MultiNodeTestnet --------------------------
(***************************************************************************)
(* The multi-node command (cmd/bpsd/cmd/testnet_multi_node.go) and the     *)
(* output directory it fills: invocations follow each other on the same    *)
(* directory, each may fail at any file it writes, and only some of the    *)
(* failures remove what is there.                                          *)
(***************************************************************************)
EXTENDS Integers, Sequences, FiniteSets

CONSTANTS
    MaxValidators,  \* bound: value of --v
    MaxInvocations, \* bound: invocations on one output directory
    StakeFlags,     \* values of --validators-stake-amount, entries Invalid or a Nat
    PortFlags,      \* values of --list-ports; <<>> is the empty text
    DefaultStake,   \* TokensFromConsensusPower(100)
    Balance,        \* of each genesis account: TokensFromConsensusPower(500)
    DefaultPorts    \* the first P2P, RPC, proxy, prometheus, gRPC and API port, and
                    \* the pprof port of the shared config, which no node changes

Invalid == -1

ASSUME TestnetFilesAssumption ==
    /\ MaxValidators \in Nat \ {0}
    /\ MaxInvocations \in Nat
    /\ StakeFlags \subseteq Seq(Nat \cup {Invalid})
    /\ PortFlags \subseteq Seq(Nat)
    /\ DefaultStake \in Nat /\ Balance \in Nat
    /\ DefaultPorts \in
         [{"p2p", "rpc", "proxy", "prometheus", "grpc", "api", "pprof"} -> Nat]

Nodes == 0..MaxValidators - 1

VARIABLES
    pc,            \* the step of initTestnetFiles, or how the invocation ended
    node,          \* i, the node of the loop
    invocation,    \* number of the invocation
    numValidators, \* args.numValidators
    stakeFlag,     \* the value of the stake flag
    portFlag,      \* the value of the port flag
    nodeConfig,    \* the one config all nodes share
    genAccounts,   \* accounts of the genesis, by node
    gentxsFiles,   \* gentx files of this invocation, by node
    disk,          \* per node of the output directory what its files hold
    largest        \* history: largest --v since the directory was removed

flagVars == <<invocation, numValidators, stakeFlag, portFlag>>
vars == <<pc, node, flagVars, nodeConfig, genAccounts, gentxsFiles, disk, largest>>

None == 0

(***************************************************************************)
(* Files.  An address is the number of the invocation that generated its   *)
(* key.  gentx maps the node that wrote a gentx to what the file holds.    *)
(***************************************************************************)
NoFiles == [key |-> None, seed |-> None, gentx |-> <<>>, genesis |-> <<>>,
            config |-> <<>>, app |-> <<>>]

EmptyDir == [i \in Nodes |-> NoFiles]

\* The flag's entries that are no integers are skipped, and the others numbered
\* without them.
StakeAmounts(flag) == SelectSeq(flag, LAMBDA a : a # Invalid)

Stake(i) ==
    IF i + 1 \in DOMAIN StakeAmounts(stakeFlag)
    THEN StakeAmounts(stakeFlag)[i + 1] ELSE DefaultStake

\* Mutant: the prometheus port too is left as it is in the shared config.
PortsOneLeft(i) ==
    [p2p |-> DefaultPorts["p2p"] - 3 * i, rpc |-> DefaultPorts["rpc"] - 3 * i,
     proxy |-> DefaultPorts["proxy"] - 3 * i, prometheus |-> DefaultPorts["prometheus"],
     pprof |-> DefaultPorts["pprof"]]

\* The ports of a node's config.toml; a list that is too short gives no port.
\* Nothing sets the pprof port, so that all nodes have the one of the shared config.
Ports(i) ==
    [p2p |-> DefaultPorts["p2p"] - 3 * i,
     rpc |-> IF portFlag = <<>> THEN DefaultPorts["rpc"] - 3 * i
             ELSE IF i + 1 \in DOMAIN portFlag THEN portFlag[i + 1] ELSE None,
     proxy |-> DefaultPorts["proxy"] - 3 * i,
     prometheus |-> DefaultPorts["prometheus"] + i,
     pprof |-> DefaultPorts["pprof"]]

AppPorts(i) == [grpc |-> DefaultPorts["grpc"] - 2 * i, api |-> DefaultPorts["api"] - i]

\* The memos of the nodes are the persistent peers.
PersistentPeers == [i \in 0..numValidators - 1 |-> DefaultPorts["p2p"] - 3 * i]

Init ==
    /\ pc = "idle"
    /\ node = 0
    /\ invocation = 0
    /\ numValidators = 1
    /\ stakeFlag = <<>>
    /\ portFlag = <<>>
    /\ nodeConfig = <<>>
    /\ genAccounts = <<>>
    /\ gentxsFiles = <<>>
    /\ disk = EmptyDir
    /\ largest = 0

\* The command reads its flags; genAccounts and gentxsFiles start out empty.
Invoke ==
    /\ pc \in {"idle", "done", "failed", "staleGentx", "underfunded"}
    /\ invocation < MaxInvocations
    /\ invocation' = invocation + 1
    /\ numValidators' \in 1..MaxValidators
    /\ stakeFlag' \in StakeFlags
    /\ portFlag' \in PortFlags
    /\ pc' = "files"
    /\ node' = 0
    /\ genAccounts' = <<>>
    /\ gentxsFiles' = <<>>
    /\ largest' = IF numValidators' > largest THEN numValidators' ELSE largest
    /\ UNCHANGED <<nodeConfig, disk>>

Put(f, i, x) == [j \in DOMAIN f \cup {i} |-> IF j = i THEN x ELSE f[j]]

\* os.RemoveAll(args.outputDir), after MkdirAll, InitializeNodeValidatorFiles or
\* GenerateSaveCoinKey failed.
FailAndRemove ==
    /\ pc \in {"files", "key"}
    /\ pc' = "failed"
    /\ disk' = EmptyDir
    /\ largest' = 0
    /\ UNCHANGED <<node, flagVars, nodeConfig, genAccounts, gentxsFiles>>

\* Every other error, and an interrupt: what is written stays.
FailAndKeep ==
    /\ pc \in {"files", "key", "seed", "gentx", "app", "genesis", "copy", "collect"}
    /\ pc' = "failed"
    /\ UNCHANGED <<node, flagVars, nodeConfig, genAccounts, gentxsFiles, disk, largest>>

Step(from, to) ==
    /\ pc = from
    /\ pc' = to
    /\ UNCHANGED <<flagVars, largest>>

\* The node's directory and key files; existing key files are kept.
InitializeNode ==
    /\ Step("files", "key")
    /\ nodeConfig' = [root |-> node]
    /\ UNCHANGED <<node, genAccounts, gentxsFiles, disk>>

\* GenerateSaveCoinKey replaces the key in the node's keyring.
GenerateKey ==
    /\ Step("key", "seed")
    /\ disk' = [disk EXCEPT ![node].key = invocation]
    /\ UNCHANGED <<node, nodeConfig, genAccounts, gentxsFiles>>

\* Mutant: a seed file that is there is kept.
KeepSeed ==
    /\ Step("seed", "gentx")
    /\ disk' = [disk EXCEPT ![node].seed = IF @ = None THEN invocation ELSE @]
    /\ genAccounts' = Put(genAccounts, node, invocation)
    /\ UNCHANGED <<node, nodeConfig, gentxsFiles>>

WriteSeed ==
    /\ Step("seed", "gentx")
    /\ disk' = [disk EXCEPT ![node].seed = invocation]
    /\ genAccounts' = Put(genAccounts, node, invocation)
    /\ UNCHANGED <<node, nodeConfig, gentxsFiles>>

\* The signed MsgCreateValidator, in a file named after the node's ID.
WriteGentx ==
    /\ Step("gentx", "app")
    /\ LET gentx == [addr |-> disk[node].key, stake |-> Stake(node)]
       IN  /\ disk' = [disk EXCEPT ![node].gentx = Put(@, node, gentx)]
           /\ gentxsFiles' = Put(gentxsFiles, node, gentx)
    /\ UNCHANGED <<node, nodeConfig, genAccounts>>

WriteAppConfig ==
    /\ \/ Step("app", "files") /\ node + 1 < numValidators /\ node' = node + 1
       \/ Step("app", "genesis") /\ node + 1 = numValidators /\ node' = 0
    /\ disk' = [disk EXCEPT ![node].app = AppPorts(node)]
    /\ UNCHANGED <<nodeConfig, genAccounts, gentxsFiles>>

\* initGenFiles: a genesis with the accounts and no gentx for every node; a
\* SaveAs that fails leaves the nodes after it without.
InitGenFiles ==
    /\ \/ Step("genesis", "genesis") /\ node + 1 < numValidators /\ node' = node + 1
       \/ Step("genesis", "copy") /\ node + 1 = numValidators /\ node' = 0
    /\ disk' = [disk EXCEPT ![node].genesis = [accounts |-> genAccounts, gentxs |-> <<>>]]
    /\ UNCHANGED <<nodeConfig, genAccounts, gentxsFiles>>

\* Mutant: a gentx that is there already is not copied over.
CopyMissingGentxs ==
    /\ \/ Step("copy", "copy") /\ node + 1 < numValidators /\ node' = node + 1
       \/ Step("copy", "collect") /\ node + 1 = numValidators /\ node' = 0
    /\ disk' = [disk EXCEPT ![node].gentx =
                    [j \in DOMAIN @ \cup DOMAIN gentxsFiles |->
                        IF j \in DOMAIN @ THEN @[j] ELSE gentxsFiles[j]]]
    /\ UNCHANGED <<nodeConfig, genAccounts, gentxsFiles>>

\* The gentxs of the other nodes are copied into the node's directory, over the
\* files of the same name; files of other names stay.
CopyGentxs ==
    /\ \/ Step("copy", "copy") /\ node + 1 < numValidators /\ node' = node + 1
       \/ Step("copy", "collect") /\ node + 1 = numValidators /\ node' = 0
    /\ disk' = [disk EXCEPT ![node].gentx =
                    [j \in DOMAIN @ \cup DOMAIN gentxsFiles |->
                        IF j \in DOMAIN gentxsFiles THEN gentxsFiles[j] ELSE @[j]]]
    /\ UNCHANGED <<nodeConfig, genAccounts, gentxsFiles>>

\* GenAppStateFromConfig (external) refuses a gentx whose account is not in the
\* genesis, or has less than the stake.
Known(gentxs, accounts) ==
    \A j \in DOMAIN gentxs : j \in DOMAIN accounts /\ accounts[j] = gentxs[j].addr

Funded(gentxs) == \A j \in DOMAIN gentxs : gentxs[j].stake <= Balance

\* The app state of the first node is the canonical one of all.
CanonicalState == IF node = 0 THEN disk[0].gentx ELSE disk[0].genesis.gentxs

\* collectGenFiles for one node, on the config the nodes before it have used.
CollectGenFiles ==
    LET gentxs   == disk[node].gentx
        accounts == disk[node].genesis.accounts
        config   == [root |-> node, peers |-> PersistentPeers, ports |-> Ports(node)]
    IN
    /\ pc = "collect"
    /\ Known(gentxs, accounts)
    /\ Funded(gentxs)
    /\ \/ Step("collect", "collect") /\ node + 1 < numValidators /\ node' = node + 1
       \/ Step("collect", "done") /\ node + 1 = numValidators /\ node' = 0
    /\ nodeConfig' = config
    /\ disk' = [disk EXCEPT ![node].config = config,
                            ![node].genesis = [accounts |-> accounts,
                                               gentxs |-> CanonicalState]]
    /\ UNCHANGED <<genAccounts, gentxsFiles>>

CollectGenFilesFails ==
    LET gentxs   == disk[node].gentx
        accounts == disk[node].genesis.accounts
    IN
    /\ \/ Step("collect", "staleGentx") /\ ~Known(gentxs, accounts)
       \/ Step("collect", "underfunded") /\ Known(gentxs, accounts) /\ ~Funded(gentxs)
    /\ UNCHANGED <<node, nodeConfig, genAccounts, gentxsFiles, disk>>

Next ==
    \/ Invoke
    \/ FailAndRemove
    \/ FailAndKeep
    \/ InitializeNode
    \/ GenerateKey
    \/ WriteSeed
    \/ WriteGentx
    \/ WriteAppConfig
    \/ InitGenFiles
    \/ CopyGentxs
    \/ CollectGenFiles
    \/ CollectGenFilesFails

Spec == Init /\ [][Next]_vars

-----------------------------------------------------------------------------

Network == 0..numValidators - 1

\* However many invocations failed before on the same directory, and wherever,
\* one that succeeds leaves nodes with one genesis, whose accounts are the keys
\* of their keyrings and seed files and whose gentxs are signed by them.
NetworkConsistent ==
    pc = "done" =>
        \A i \in Network :
            /\ disk[i].seed = disk[i].key
            /\ disk[i].genesis.accounts = [j \in Network |-> disk[j].key]
            /\ disk[i].genesis.gentxs =
                 [j \in Network |-> [addr |-> disk[j].key, stake |-> Stake(j)]]

\* A directory an earlier invocation left refuses a later one only when it was
\* made for more validators: failures alone never do, and an amount that is too
\* large for its account is one of this invocation, not one that was left.
RetryNotRefused ==
    /\ pc = "staleGentx" => largest > numValidators
    /\ pc = "underfunded" => \E i \in Network : Stake(i) \notin 0..Balance

ListensOn(i) ==
    {disk[i].config.ports[k] : k \in {"p2p", "rpc", "proxy", "prometheus", "pprof"}}
        \cup {disk[i].app[k] : k \in {"grpc", "api"}}

\* With the default ports a node listens on seven different ports, the peers dial
\* the ones listened on, and two nodes have one port in common: that of pprof,
\* the one address the loop over the shared config does not set.
PortsApart ==
    pc = "done" /\ portFlag = <<>> =>
        \A i, j \in Network :
            /\ Cardinality(ListensOn(i)) = 7
            /\ \A port \in ListensOn(i) : 0 < port /\ port < 65536
            /\ i # j => ListensOn(i) \cap ListensOn(j) = {DefaultPorts["pprof"]}
            /\ disk[i].config.peers[j] = disk[j].config.ports.p2p

\* "If the flag string is invalid, the amount will default to 100000000."
InvalidStakeIsDefault ==
    \A j \in DOMAIN gentxsFiles :
        j + 1 \in DOMAIN stakeFlag /\ stakeFlag[j + 1] = Invalid
            => gentxsFiles[j].stake = DefaultStake
=============================================================================
