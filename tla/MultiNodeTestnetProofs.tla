------------------------ MODULE MultiNodeTestnetProofs ------------------------
(***************************************************************************)
(* Proofs, for every number of validators and invocations, every flag and  *)
(* every amount, of the safety properties of MultiNodeTestnet.             *)
(***************************************************************************)
EXTENDS MultiNodeTestnet, FiniteSetTheorems, TLAPS

-----------------------------------------------------------------------------
(* The inductive invariant.  In the loops of an invocation the nodes before *)
(* the current one have what the step of the loop writes.                   *)

FirstLoop == {"files", "key", "seed", "gentx", "app"}
Loops     == FirstLoop \cup {"genesis", "copy", "collect"}
Active    == Loops \cup {"done"}
Steps     == Active \cup {"idle", "failed", "staleGentx", "underfunded"}

Before  == 0..node - 1
Through == 0..node

Keyed ==
    IF pc \in {"files", "key"} THEN Before ELSE IF pc \in FirstLoop THEN Through ELSE Network

Seeded ==
    IF pc \in {"files", "key", "seed"} THEN Before
    ELSE IF pc \in FirstLoop THEN Through ELSE Network

Signed ==
    IF pc \in FirstLoop \ {"app"} THEN Before ELSE IF pc = "app" THEN Through ELSE Network

Configured == IF pc \in FirstLoop THEN Before ELSE Network

WithGenesis ==
    IF pc \in FirstLoop THEN {} ELSE IF pc = "genesis" THEN Before ELSE Network

Copied ==
    IF pc \in FirstLoop \cup {"genesis"} THEN {} ELSE IF pc = "copy" THEN Before ELSE Network

Collected ==
    IF pc \in FirstLoop \cup {"genesis", "copy"} THEN {}
    ELSE IF pc = "collect" THEN Before ELSE Network

IsFunction(f) == f = [x \in DOMAIN f |-> f[x]]

IsFiles(r) ==
    /\ r = [key |-> r.key, seed |-> r.seed, gentx |-> r.gentx, genesis |-> r.genesis,
            config |-> r.config, app |-> r.app]
    /\ IsFunction(r.gentx)

Disk == disk = [i \in Nodes |-> disk[i]] /\ \A i \in Nodes : IsFiles(disk[i])

Types ==
    /\ pc \in Steps
    /\ Disk
    /\ numValidators \in 1..MaxValidators
    /\ largest \in 0..MaxValidators
    /\ pc \in Loops => node \in Network

\* The gentx the invocation writes for node j.
Gentx(j) == [addr |-> invocation, stake |-> Stake(j)]

Generated ==
    pc \in Active =>
        /\ \A j \in Keyed : disk[j].key = invocation
        /\ \A j \in Seeded : disk[j].seed = invocation
        /\ genAccounts = [j \in Seeded |-> invocation]
        /\ gentxsFiles = [j \in Signed |-> Gentx(j)]
        /\ \A j \in Configured : disk[j].app = AppPorts(j)

\* Files of the invocation's nodes hold its gentxs; those of other nodes may be old.
Exchanged ==
    pc \in Active =>
        /\ \A j \in WithGenesis : disk[j].genesis.accounts = [m \in Network |-> invocation]
        /\ \A j \in Copied : \A m \in Network : /\ m \in DOMAIN disk[j].gentx
                                                /\ disk[j].gentx[m] = Gentx(m)
        /\ \A j \in Collected :
              /\ disk[j].genesis.gentxs = [m \in Network |-> Gentx(m)]
              /\ disk[j].config = [root |-> j, peers |-> PersistentPeers, ports |-> Ports(j)]

\* No directory holds a gentx of a node that no invocation since the last
\* removal had.
Leftovers ==
    /\ \A i \in Nodes : DOMAIN disk[i].gentx \subseteq 0..largest - 1
    /\ pc \in Active => numValidators <= largest
    /\ pc = "staleGentx" => largest > numValidators
    /\ pc = "underfunded" => \E i \in Network : Stake(i) \notin 0..Balance

IInv == Types /\ Generated /\ Exchanged /\ Leftovers

-----------------------------------------------------------------------------
(* Files and functions.                                                     *)

\* One node's files are replaced.
LEMMA FilesReplaced ==
    ASSUME Disk, NEW r, IsFiles(r), NEW i \in Nodes, disk' = [disk EXCEPT ![i] = r]
    PROVE  Disk' /\ \A j \in Nodes : disk'[j] = IF j = i THEN r ELSE disk[j]
<1>1. DOMAIN disk = Nodes /\ \A j \in Nodes : IsFiles(disk[j])
  BY DEF Disk
<1>2. \A j \in Nodes : disk'[j] = IF j = i THEN r ELSE disk[j]
  BY <1>1
<1>3. disk' = [j \in Nodes |-> disk'[j]]
  BY <1>1
<1>4. \A j \in Nodes : IsFiles(disk'[j])
  BY <1>1, <1>2
<1> QED
  BY <1>2, <1>3, <1>4 DEF Disk

LEMMA IntervalGrows ==
    ASSUME NEW a \in Int, NEW b \in Int, a <= b
    PROVE  0..a - 1 \subseteq 0..b - 1
<1> SUFFICES ASSUME NEW x \in 0..a - 1
             PROVE  x \in 0..b - 1
  OBVIOUS
<1>1. x \in Int /\ 0 <= x /\ x <= a - 1
  OBVIOUS
<1> QED
  BY <1>1

LEMMA IntervalSteps ==
    ASSUME NEW k \in Nat
    PROVE  0..k = (0..k - 1) \cup {k} /\ k \notin 0..k - 1 /\ k \in 0..k
OBVIOUS

LEMMA PutProperties ==
    ASSUME NEW f, NEW i, NEW x
    PROVE  /\ IsFunction(Put(f, i, x))
           /\ DOMAIN Put(f, i, x) = DOMAIN f \cup {i}
           /\ \A j \in DOMAIN f \cup {i} : Put(f, i, x)[j] = IF j = i THEN x ELSE f[j]
BY DEF Put, IsFunction

LEMMA NetworkInNodes ==
    ASSUME Types
    PROVE  /\ Network \subseteq Nodes
           /\ numValidators \in Nat \ {0} /\ MaxValidators \in Nat /\ largest \in Nat
           /\ pc \in Loops => node \in Nat /\ node \in Nodes /\ node < numValidators
BY TestnetFilesAssumption DEF Types, Network, Nodes

\* The nodes a loop has passed, and those it has reached.
LEMMA NodesOfLoop ==
    ASSUME Types, pc \in Loops
    PROVE  /\ Through = Before \cup {node} /\ node \notin Before
           /\ Before \subseteq Nodes /\ Before \subseteq Network
           /\ node + 1 < numValidators => Through = 0..node + 1 - 1
           /\ node + 1 = numValidators => Through = Network
<1>1. /\ node \in Nat /\ numValidators \in Nat /\ node < numValidators
      /\ Network \subseteq Nodes
  BY NetworkInNodes
<1>2. Through = Before \cup {node} /\ node \notin Before
  BY <1>1, IntervalSteps DEF Before, Through
<1>3. Before \subseteq Network
  <2>1. node \in Int /\ numValidators \in Int /\ node <= numValidators
    BY <1>1
  <2> QED
    BY <2>1, IntervalGrows DEF Before, Network
<1>4. node + 1 - 1 = node
  BY <1>1
<1>5. node + 1 = numValidators => numValidators - 1 = node
  BY <1>1
<1> QED
  BY <1>1, <1>2, <1>3, <1>4, <1>5 DEF Through, Network

\* What an invocation writes depends on its flags alone.
LEMMA SameFlags ==
    ASSUME UNCHANGED flagVars
    PROVE  /\ invocation' = invocation /\ numValidators' = numValidators
           /\ Network' = Network /\ PersistentPeers' = PersistentPeers
           /\ \A j : Gentx(j)' = Gentx(j) /\ Ports(j)' = Ports(j) /\ Stake(j)' = Stake(j)
BY DEF flagVars, Network, PersistentPeers, Gentx, Ports, Stake

-----------------------------------------------------------------------------
(* The invariant is inductive.                                              *)

LEMMA NoFilesAreFiles == IsFiles(NoFiles) /\ DOMAIN NoFiles.gentx = {}
BY DEF IsFiles, IsFunction, NoFiles

LEMMA EmptyDirIsDisk ==
    ASSUME disk' = EmptyDir
    PROVE  Disk' /\ \A i \in Nodes : DOMAIN disk'[i].gentx = {}
BY NoFilesAreFiles DEF Disk, EmptyDir

LEMMA InitInv == Init => IInv
<1> SUFFICES ASSUME Init
             PROVE  IInv
  OBVIOUS
<1>1. pc = "idle" /\ disk = EmptyDir
  BY DEF Init
<1>2. Disk /\ \A i \in Nodes : DOMAIN disk[i].gentx = {}
  BY <1>1, NoFilesAreFiles DEF Disk, EmptyDir
<1>3. numValidators \in 1..MaxValidators /\ largest \in 0..MaxValidators
  BY TestnetFilesAssumption DEF Init
<1>4. Types
  BY <1>1, <1>2, <1>3 DEF Types, Steps, Loops, FirstLoop
<1>5. Generated /\ Exchanged
  BY <1>1 DEF Generated, Exchanged, Active, Loops, FirstLoop
<1>6. Leftovers
  BY <1>1, <1>2 DEF Leftovers, Active, Loops, FirstLoop
<1> QED
  BY <1>4, <1>5, <1>6 DEF IInv

LEMMA InvokeInv == IInv /\ Invoke => IInv'
<1> SUFFICES ASSUME IInv, Invoke
             PROVE  IInv'
  OBVIOUS
<1>1. /\ pc' = "files" /\ node' = 0 /\ disk' = disk
      /\ genAccounts' = <<>> /\ gentxsFiles' = <<>>
      /\ numValidators' \in 1..MaxValidators
      /\ largest' = IF numValidators' > largest THEN numValidators' ELSE largest
  BY DEF Invoke
<1>2. Types /\ MaxValidators \in Nat /\ largest \in 0..MaxValidators
  BY TestnetFilesAssumption DEF IInv, Types
<1>3. Types'
  <2>1. node' \in Network'
    <3> DEFINE n == numValidators'
    <3>1. n \in Nat /\ 1 <= n
      BY <1>1
    <3>2. Network' = 0..n - 1
      BY DEF Network
    <3> HIDE DEF n
    <3>3. 0 \in 0..n - 1
      BY <3>1
    <3> QED
      BY <1>1, <3>2, <3>3
  <2>2. largest' \in 0..MaxValidators
    BY <1>1, <1>2
  <2>3. Disk'
    BY <1>1, <1>2 DEF Types, Disk
  <2> QED
    BY <1>1, <2>1, <2>2, <2>3 DEF Types, Steps, Active, Loops, FirstLoop
<1>4. /\ Keyed' = {} /\ Seeded' = {} /\ Signed' = {} /\ Configured' = {}
      /\ WithGenesis' = {} /\ Copied' = {} /\ Collected' = {}
  BY <1>1 DEF Keyed, Seeded, Signed, Configured, WithGenesis, Copied, Collected, FirstLoop,
              Before
<1>5. \A e : <<>> = [j \in {} |-> e]
  OBVIOUS
<1>6. Generated'
  <2>1. genAccounts' = [j \in Seeded' |-> invocation']
    BY <1>1, <1>4
  <2>2. gentxsFiles' = [j \in Signed' |-> Gentx(j)']
    BY <1>1, <1>4
  <2> QED
    BY <1>4, <2>1, <2>2 DEF Generated
<1>7. Exchanged'
  BY <1>4 DEF Exchanged
<1>8. Leftovers'
  <2>1. largest \in Nat /\ numValidators' \in Nat /\ largest <= largest' /\ numValidators' <= largest'
    BY <1>1, <1>2
  <2>2. 0..largest - 1 \subseteq 0..largest' - 1
    <3> DEFINE more == largest'
    <3>1. largest \in Int /\ more \in Int /\ largest <= more
      BY <1>1, <2>1
    <3> HIDE DEF more
    <3>2. 0..largest - 1 \subseteq 0..more - 1
      BY <3>1, IntervalGrows
    <3> QED
      BY <3>2 DEF more
  <2> QED
    BY <1>1, <2>1, <2>2 DEF IInv, Leftovers
<1> QED
  BY <1>3, <1>6, <1>7, <1>8 DEF IInv

\* An invocation that fails leaves what is on the disk, or nothing.
LEMMA FailureInv == IInv /\ (FailAndRemove \/ FailAndKeep) => IInv'
<1> SUFFICES ASSUME IInv, FailAndRemove \/ FailAndKeep
             PROVE  IInv'
  OBVIOUS
<1>1. pc' = "failed" /\ numValidators' = numValidators
  BY DEF FailAndRemove, FailAndKeep, flagVars
<1>2. \/ disk' = disk /\ largest' = largest
      \/ disk' = EmptyDir /\ largest' = 0
  BY DEF FailAndRemove, FailAndKeep
<1>3. Disk' /\ \A i \in Nodes : DOMAIN disk'[i].gentx \subseteq 0..largest' - 1
  BY <1>2, EmptyDirIsDisk DEF IInv, Types, Leftovers, Disk
<1>4. Types'
  BY <1>1, <1>2, <1>3, TestnetFilesAssumption DEF IInv, Types, Steps, Loops, FirstLoop
<1> QED
  BY <1>1, <1>3, <1>4 DEF IInv, Generated, Exchanged, Leftovers, Active, Loops, FirstLoop

\* A step of an invocation writes files of the current node.
LEMMA DiskStep ==
    ASSUME IInv, pc \in Loops, NEW r, IsFiles(r),
           disk' = [disk EXCEPT ![node] = r],
           DOMAIN r.gentx \subseteq DOMAIN disk[node].gentx \cup Network,
           largest' = largest
    PROVE  /\ Disk'
           /\ \A j \in Nodes : disk'[j] = IF j = node THEN r ELSE disk[j]
           /\ \A j \in Nodes : DOMAIN disk'[j].gentx \subseteq 0..largest' - 1
<1>1. Types /\ Disk /\ node \in Nodes
  BY NetworkInNodes DEF IInv, Types
<1>2. Disk' /\ \A j \in Nodes : disk'[j] = IF j = node THEN r ELSE disk[j]
  BY <1>1, FilesReplaced
<1>3. Network \subseteq 0..largest - 1
  <2>1. numValidators <= largest /\ numValidators \in Nat /\ largest \in Nat
    BY <1>1, NetworkInNodes DEF IInv, Leftovers, Active
  <2> QED
    BY <2>1 DEF Network
<1>4. \A j \in Nodes : DOMAIN disk[j].gentx \subseteq 0..largest - 1
  BY DEF IInv, Leftovers
<1> QED
  BY <1>1, <1>2, <1>3, <1>4

LEMMA InitializeNodeInv == IInv /\ InitializeNode => IInv'
<1> SUFFICES ASSUME IInv, InitializeNode
             PROVE  IInv'
  OBVIOUS
<1>1. /\ pc = "files" /\ pc' = "key" /\ UNCHANGED flagVars /\ largest' = largest
      /\ node' = node /\ disk' = disk /\ genAccounts' = genAccounts
      /\ gentxsFiles' = gentxsFiles
  BY DEF InitializeNode, Step
<1>2. /\ Keyed' = Keyed /\ Seeded' = Seeded /\ Signed' = Signed /\ Configured' = Configured
      /\ WithGenesis' = {} /\ Copied' = {} /\ Collected' = {}
  BY <1>1 DEF Keyed, Seeded, Signed, Configured, WithGenesis, Copied, Collected, FirstLoop,
              Before
<1>3. Types'
  BY <1>1, SameFlags DEF IInv, Types, Disk, Steps, Active, Loops, FirstLoop
<1>4. Generated'
  BY <1>1, <1>2, SameFlags DEF IInv, Generated, Active, Loops, FirstLoop
<1>5. Exchanged'
  BY <1>2 DEF Exchanged
<1>6. Leftovers'
  BY <1>1, SameFlags DEF IInv, Leftovers, Active, Loops, FirstLoop
<1> QED
  BY <1>3, <1>4, <1>5, <1>6 DEF IInv

LEMMA GenerateKeyInv == IInv /\ GenerateKey => IInv'
<1> SUFFICES ASSUME IInv, GenerateKey
             PROVE  IInv'
  OBVIOUS
<1> DEFINE old == disk[node]
           r == [old EXCEPT !.key = invocation]
<1>1. /\ pc = "key" /\ pc' = "seed" /\ UNCHANGED flagVars /\ largest' = largest
      /\ node' = node /\ disk' = [disk EXCEPT ![node] = r]
      /\ genAccounts' = genAccounts /\ gentxsFiles' = gentxsFiles
  BY DEF GenerateKey, Step
<1>2. /\ Types /\ node \in Nodes /\ node \in Nat /\ Network \subseteq Nodes /\ node \in Network
      /\ pc \in Loops /\ pc \in Active
  BY <1>1, NetworkInNodes DEF IInv, Types, Active, Loops, FirstLoop
<1>3. IsFiles(r) /\ r.key = invocation /\ r.seed = old.seed /\ r.gentx = old.gentx
      /\ r.app = old.app
  BY <1>2 DEF Types, Disk, IsFiles
<1> HIDE DEF r
<1>4. /\ Disk'
      /\ \A j \in Nodes : disk'[j] = IF j = node THEN r ELSE disk[j]
      /\ \A j \in Nodes : DOMAIN disk'[j].gentx \subseteq 0..largest' - 1
  BY <1>1, <1>2, <1>3, DiskStep
<1>5. /\ Keyed = Before /\ Keyed' = Through
      /\ Seeded = Before /\ Seeded' = Before
      /\ Signed = Before /\ Signed' = Before
      /\ Configured = Before /\ Configured' = Before
      /\ WithGenesis' = {} /\ Copied' = {} /\ Collected' = {}
  BY <1>1 DEF Keyed, Seeded, Signed, Configured, WithGenesis, Copied, Collected, FirstLoop,
              Before, Through
<1>6. Through = Before \cup {node} /\ node \notin Before /\ Before \subseteq Nodes
  BY <1>2, NodesOfLoop
<1>7. Types'
  BY <1>1, <1>2, <1>4, SameFlags DEF Types, Steps, Active, Loops, FirstLoop
<1>8. Generated'
  BY <1>1, <1>2, <1>3, <1>4, <1>5, <1>6, SameFlags DEF IInv, Generated
<1>9. Exchanged'
  BY <1>5 DEF Exchanged
<1>10. Leftovers'
  BY <1>1, <1>2, <1>4, SameFlags DEF IInv, Leftovers, Active, Loops, FirstLoop
<1> QED
  BY <1>7, <1>8, <1>9, <1>10 DEF IInv

LEMMA WriteSeedInv == IInv /\ WriteSeed => IInv'
<1> SUFFICES ASSUME IInv, WriteSeed
             PROVE  IInv'
  OBVIOUS
<1> DEFINE old == disk[node]
           r == [old EXCEPT !.seed = invocation]
<1>1. /\ pc = "seed" /\ pc' = "gentx" /\ UNCHANGED flagVars /\ largest' = largest
      /\ node' = node /\ disk' = [disk EXCEPT ![node] = r]
      /\ genAccounts' = Put(genAccounts, node, invocation) /\ gentxsFiles' = gentxsFiles
  BY DEF WriteSeed, Step
<1>2. /\ Types /\ node \in Nodes /\ node \in Nat /\ Network \subseteq Nodes /\ node \in Network
      /\ pc \in Loops /\ pc \in Active
  BY <1>1, NetworkInNodes DEF IInv, Types, Active, Loops, FirstLoop
<1>3. IsFiles(r) /\ r.key = old.key /\ r.seed = invocation /\ r.gentx = old.gentx
      /\ r.app = old.app
  BY <1>2 DEF Types, Disk, IsFiles
<1> HIDE DEF r
<1>4. /\ Disk'
      /\ \A j \in Nodes : disk'[j] = IF j = node THEN r ELSE disk[j]
      /\ \A j \in Nodes : DOMAIN disk'[j].gentx \subseteq 0..largest' - 1
  BY <1>1, <1>2, <1>3, DiskStep
<1>5. /\ Keyed = Through /\ Keyed' = Through
      /\ Seeded = Before /\ Seeded' = Through
      /\ Signed = Before /\ Signed' = Before
      /\ Configured = Before /\ Configured' = Before
      /\ WithGenesis' = {} /\ Copied' = {} /\ Collected' = {}
  BY <1>1 DEF Keyed, Seeded, Signed, Configured, WithGenesis, Copied, Collected, FirstLoop,
              Before, Through
<1>6. Through = Before \cup {node} /\ node \notin Before /\ Before \subseteq Nodes
  BY <1>2, NodesOfLoop
<1>7. Types'
  BY <1>1, <1>2, <1>4, SameFlags DEF Types, Steps, Active, Loops, FirstLoop
<1>8. Generated'
  <2>1. genAccounts' = [j \in Through |-> invocation]
    <3>1. genAccounts = [j \in Before |-> invocation]
      BY <1>2, <1>5 DEF IInv, Generated
    <3> QED
      BY <1>1, <1>6, <3>1 DEF Put
  <2> QED
    BY <1>1, <1>2, <1>3, <1>4, <1>5, <1>6, <2>1, SameFlags DEF IInv, Generated
<1>9. Exchanged'
  BY <1>5 DEF Exchanged
<1>10. Leftovers'
  BY <1>1, <1>2, <1>4, SameFlags DEF IInv, Leftovers, Active, Loops, FirstLoop
<1> QED
  BY <1>7, <1>8, <1>9, <1>10 DEF IInv

LEMMA WriteGentxInv == IInv /\ WriteGentx => IInv'
<1> SUFFICES ASSUME IInv, WriteGentx
             PROVE  IInv'
  OBVIOUS
<1> DEFINE old == disk[node]
           gentx == [addr |-> old.key, stake |-> Stake(node)]
           r == [old EXCEPT !.gentx = Put(old.gentx, node, gentx)]
<1>1. /\ pc = "gentx" /\ pc' = "app" /\ UNCHANGED flagVars /\ largest' = largest
      /\ node' = node /\ disk' = [disk EXCEPT ![node] = r]
      /\ genAccounts' = genAccounts /\ gentxsFiles' = Put(gentxsFiles, node, gentx)
  BY DEF WriteGentx, Step
<1>2. /\ Types /\ node \in Nodes /\ node \in Nat /\ Network \subseteq Nodes /\ node \in Network
      /\ pc \in Loops /\ pc \in Active
  BY <1>1, NetworkInNodes DEF IInv, Types, Active, Loops, FirstLoop
<1>3. /\ IsFiles(r) /\ r.key = old.key /\ r.seed = old.seed /\ r.app = old.app
      /\ DOMAIN r.gentx = DOMAIN old.gentx \cup {node}
  <2>1. /\ IsFunction(Put(old.gentx, node, gentx))
        /\ DOMAIN Put(old.gentx, node, gentx) = DOMAIN old.gentx \cup {node}
    BY PutProperties
  <2> QED
    BY <1>2, <2>1 DEF Types, Disk, IsFiles
<1> HIDE DEF r
<1>4. /\ Disk'
      /\ \A j \in Nodes : disk'[j] = IF j = node THEN r ELSE disk[j]
      /\ \A j \in Nodes : DOMAIN disk'[j].gentx \subseteq 0..largest' - 1
  BY <1>1, <1>2, <1>3, DiskStep
<1>5. /\ Keyed = Through /\ Keyed' = Through
      /\ Seeded = Through /\ Seeded' = Through
      /\ Signed = Before /\ Signed' = Through
      /\ Configured = Before /\ Configured' = Before
      /\ WithGenesis' = {} /\ Copied' = {} /\ Collected' = {}
  BY <1>1 DEF Keyed, Seeded, Signed, Configured, WithGenesis, Copied, Collected, FirstLoop,
              Before, Through
<1>6. Through = Before \cup {node} /\ node \notin Before /\ Before \subseteq Nodes
  BY <1>2, NodesOfLoop
<1>7. Types'
  BY <1>1, <1>2, <1>4, SameFlags DEF Types, Steps, Active, Loops, FirstLoop
<1>8. Generated'
  <2>1. gentx = Gentx(node)
    BY <1>2, <1>5, <1>6 DEF IInv, Generated, Gentx
  <2> HIDE DEF gentx
  <2>2. gentxsFiles' = [j \in Through |-> Gentx(j)]
    <3>1. gentxsFiles = [j \in Before |-> Gentx(j)]
      BY <1>2, <1>5 DEF IInv, Generated
    <3> QED
      BY <1>1, <1>6, <2>1, <3>1 DEF Put
  <2> QED
    BY <1>1, <1>2, <1>3, <1>4, <1>5, <1>6, <2>2, SameFlags DEF IInv, Generated
<1>9. Exchanged'
  BY <1>5 DEF Exchanged
<1>10. Leftovers'
  BY <1>1, <1>2, <1>4, SameFlags DEF IInv, Leftovers, Active, Loops, FirstLoop
<1> QED
  BY <1>7, <1>8, <1>9, <1>10 DEF IInv

\* A loop goes on to the next node, or its last node is done.
LEMMA LoopGoesOn ==
    ASSUME Types, pc \in Loops, UNCHANGED flagVars,
           \/ node + 1 < numValidators /\ node' = node + 1
           \/ node + 1 = numValidators /\ node' = 0
    PROVE  /\ node' \in Network'
           /\ node + 1 < numValidators => Before' = Through
           /\ node + 1 = numValidators => Before' = {} /\ Through = Network
<1>1. /\ node \in Nat /\ numValidators \in Nat /\ node < numValidators
      /\ Network' = 0..numValidators - 1
  BY NetworkInNodes, SameFlags DEF Network
<1>2. CASE node + 1 < numValidators /\ node' = node + 1
  <2>1. Before' = 0..node + 1 - 1
    <3> DEFINE next == node'
    <3>1. Before' = 0..next - 1
      BY DEF Before
    <3>2. next = node + 1
      BY <1>2
    <3> HIDE DEF next
    <3> QED
      BY <1>1, <3>1, <3>2
  <2>2. node + 1 \in 0..numValidators - 1 /\ node + 1 # numValidators
    BY <1>1, <1>2
  <2> QED
    BY <1>1, <1>2, <2>1, <2>2, NodesOfLoop
<1>3. CASE node + 1 = numValidators /\ node' = 0
  <2>1. Before' = 0..0 - 1
    BY <1>3 DEF Before
  <2>2. 0..0 - 1 = {} /\ 0 \in 0..numValidators - 1 /\ ~(node + 1 < numValidators)
    BY <1>1, <1>3
  <2> QED
    BY <1>1, <1>3, <2>1, <2>2, NodesOfLoop
<1> QED
  BY <1>2, <1>3

LEMMA WriteAppConfigInv == IInv /\ WriteAppConfig => IInv'
<1> SUFFICES ASSUME IInv, WriteAppConfig
             PROVE  IInv'
  OBVIOUS
<1> DEFINE old == disk[node]
           r == [old EXCEPT !.app = AppPorts(node)]
<1>1. /\ pc = "app" /\ UNCHANGED flagVars /\ largest' = largest
      /\ \/ pc' = "files" /\ node + 1 < numValidators /\ node' = node + 1
         \/ pc' = "genesis" /\ node + 1 = numValidators /\ node' = 0
      /\ disk' = [disk EXCEPT ![node] = r]
      /\ genAccounts' = genAccounts /\ gentxsFiles' = gentxsFiles
  BY DEF WriteAppConfig, Step
<1>2. /\ Types /\ node \in Nodes /\ node \in Nat /\ Network \subseteq Nodes /\ node \in Network
      /\ pc \in Loops /\ pc \in Active
  BY <1>1, NetworkInNodes DEF IInv, Types, Active, Loops, FirstLoop
<1>3. IsFiles(r) /\ r.key = old.key /\ r.seed = old.seed /\ r.gentx = old.gentx
      /\ r.app = AppPorts(node)
  BY <1>2 DEF Types, Disk, IsFiles
<1> HIDE DEF r
<1>4. /\ Disk'
      /\ \A j \in Nodes : disk'[j] = IF j = node THEN r ELSE disk[j]
      /\ \A j \in Nodes : DOMAIN disk'[j].gentx \subseteq 0..largest' - 1
  BY <1>1, <1>2, <1>3, DiskStep
<1>5. /\ node' \in Network' /\ Network' = Network
      /\ pc' = "files" => Before' = Through
      /\ pc' = "genesis" => Before' = {} /\ Network = Through
  BY <1>1, <1>2, LoopGoesOn, SameFlags
<1>6. /\ Keyed = Through /\ Keyed' = Through
      /\ Seeded = Through /\ Seeded' = Through
      /\ Signed = Through /\ Signed' = Through
      /\ Configured = Before /\ Configured' = Through
      /\ WithGenesis' = {} /\ Copied' = {} /\ Collected' = {}
  BY <1>1, <1>5 DEF Keyed, Seeded, Signed, Configured, WithGenesis, Copied, Collected,
                    FirstLoop
<1>7. Through = Before \cup {node} /\ node \notin Before /\ Before \subseteq Nodes
  BY <1>2, NodesOfLoop
<1>8. Types'
  BY <1>1, <1>2, <1>4, <1>5, SameFlags DEF Types, Steps, Active, Loops, FirstLoop
<1>9. Generated'
  <2>1. \A j : AppPorts(j)' = AppPorts(j)
    BY DEF AppPorts
  <2> QED
    BY <1>1, <1>2, <1>3, <1>4, <1>6, <1>7, <2>1, SameFlags DEF IInv, Generated
<1>10. Exchanged'
  BY <1>6 DEF Exchanged
<1>11. Leftovers'
  BY <1>1, <1>2, <1>4, SameFlags DEF IInv, Leftovers, Active, Loops, FirstLoop
<1> QED
  BY <1>8, <1>9, <1>10, <1>11 DEF IInv

LEMMA InitGenFilesInv == IInv /\ InitGenFiles => IInv'
<1> SUFFICES ASSUME IInv, InitGenFiles
             PROVE  IInv'
  OBVIOUS
<1> DEFINE old == disk[node]
           genesis == [accounts |-> genAccounts, gentxs |-> <<>>]
           r == [old EXCEPT !.genesis = genesis]
<1>1. /\ pc = "genesis" /\ UNCHANGED flagVars /\ largest' = largest
      /\ \/ pc' = "genesis" /\ node + 1 < numValidators /\ node' = node + 1
         \/ pc' = "copy" /\ node + 1 = numValidators /\ node' = 0
      /\ disk' = [disk EXCEPT ![node] = r]
      /\ genAccounts' = genAccounts /\ gentxsFiles' = gentxsFiles
  BY DEF InitGenFiles, Step
<1>2. /\ Types /\ node \in Nodes /\ node \in Nat /\ Network \subseteq Nodes /\ node \in Network
      /\ pc \in Loops /\ pc \in Active
  BY <1>1, NetworkInNodes DEF IInv, Types, Active, Loops, FirstLoop
<1>3. IsFiles(r) /\ r.key = old.key /\ r.seed = old.seed /\ r.gentx = old.gentx
      /\ r.app = old.app /\ r.genesis.accounts = genAccounts
  <2> HIDE DEF genesis
  <2>1. IsFiles(r) /\ r.key = old.key /\ r.seed = old.seed /\ r.gentx = old.gentx
        /\ r.app = old.app /\ r.genesis = genesis
    BY <1>2 DEF Types, Disk, IsFiles
  <2>2. genesis.accounts = genAccounts
    BY DEF genesis
  <2> QED
    BY <2>1, <2>2
<1> HIDE DEF r
<1>4. /\ Disk'
      /\ \A j \in Nodes : disk'[j] = IF j = node THEN r ELSE disk[j]
      /\ \A j \in Nodes : DOMAIN disk'[j].gentx \subseteq 0..largest' - 1
  BY <1>1, <1>2, <1>3, DiskStep
<1>5. /\ node' \in Network' /\ Network' = Network
      /\ pc' = "genesis" => Before' = Through
      /\ pc' = "copy" => Before' = {} /\ Network = Through
  BY <1>1, <1>2, LoopGoesOn, SameFlags
<1>6. /\ Keyed = Network /\ Keyed' = Network
      /\ Seeded = Network /\ Seeded' = Network
      /\ Signed = Network /\ Signed' = Network
      /\ Configured = Network /\ Configured' = Network
      /\ WithGenesis = Before /\ WithGenesis' = Through
      /\ Copied' = {} /\ Collected' = {}
  BY <1>1, <1>5 DEF Keyed, Seeded, Signed, Configured, WithGenesis, Copied, Collected,
                    FirstLoop
<1>7. Through = Before \cup {node} /\ node \notin Before /\ Before \subseteq Nodes
  BY <1>2, NodesOfLoop
<1>8. Types'
  BY <1>1, <1>2, <1>4, <1>5, SameFlags DEF Types, Steps, Active, Loops, FirstLoop
<1>9. Generated'
  <2>1. \A j : AppPorts(j)' = AppPorts(j)
    BY DEF AppPorts
  <2>2. /\ \A j \in Network : /\ disk[j].key = invocation /\ disk[j].seed = invocation
                              /\ disk[j].app = AppPorts(j)
        /\ genAccounts = [j \in Network |-> invocation]
        /\ gentxsFiles = [j \in Network |-> Gentx(j)]
    BY <1>2, <1>6 DEF IInv, Generated
  <2>3. \A j \in Network : /\ disk'[j].key = invocation /\ disk'[j].seed = invocation
                           /\ disk'[j].app = AppPorts(j)
    BY <1>2, <1>3, <1>4, <2>2
  <2> QED
    BY <1>1, <1>6, <2>1, <2>2, <2>3, SameFlags DEF Generated
<1>10. Exchanged'
  <2>1. genAccounts = [m \in Network |-> invocation]
    BY <1>2, <1>6 DEF IInv, Generated
  <2>2. \A j \in Before : disk[j].genesis.accounts = [m \in Network |-> invocation]
    BY <1>2, <1>6 DEF IInv, Exchanged
  <2>3. \A j \in Through : disk'[j].genesis.accounts = [m \in Network |-> invocation]
    BY <1>2, <1>3, <1>4, <1>7, <2>1, <2>2
  <2> QED
    BY <1>1, <1>5, <1>6, <2>3, SameFlags DEF Exchanged
<1>11. Leftovers'
  BY <1>1, <1>2, <1>4, SameFlags DEF IInv, Leftovers, Active, Loops, FirstLoop
<1> QED
  BY <1>8, <1>9, <1>10, <1>11 DEF IInv

LEMMA CopyGentxsInv == IInv /\ CopyGentxs => IInv'
<1> SUFFICES ASSUME IInv, CopyGentxs
             PROVE  IInv'
  OBVIOUS
<1> DEFINE old == disk[node]
           all == [j \in DOMAIN old.gentx \cup DOMAIN gentxsFiles |->
                      IF j \in DOMAIN gentxsFiles THEN gentxsFiles[j] ELSE old.gentx[j]]
           r == [old EXCEPT !.gentx = all]
<1>1. /\ pc = "copy" /\ UNCHANGED flagVars /\ largest' = largest
      /\ \/ pc' = "copy" /\ node + 1 < numValidators /\ node' = node + 1
         \/ pc' = "collect" /\ node + 1 = numValidators /\ node' = 0
      /\ disk' = [disk EXCEPT ![node] = r]
      /\ genAccounts' = genAccounts /\ gentxsFiles' = gentxsFiles
  BY DEF CopyGentxs, Step
<1>2. /\ Types /\ node \in Nodes /\ node \in Nat /\ Network \subseteq Nodes /\ node \in Network
      /\ pc \in Loops /\ pc \in Active
  BY <1>1, NetworkInNodes DEF IInv, Types, Active, Loops, FirstLoop
<1>3. /\ node' \in Network' /\ Network' = Network
      /\ pc' = "copy" => Before' = Through
      /\ pc' = "collect" => Before' = {} /\ Network = Through
  BY <1>1, <1>2, LoopGoesOn, SameFlags
<1>4. /\ Keyed = Network /\ Keyed' = Network
      /\ Seeded = Network /\ Seeded' = Network
      /\ Signed = Network /\ Signed' = Network
      /\ Configured = Network /\ Configured' = Network
      /\ WithGenesis = Network /\ WithGenesis' = Network
      /\ Copied = Before /\ Copied' = Through
      /\ Collected' = {}
  BY <1>1, <1>3 DEF Keyed, Seeded, Signed, Configured, WithGenesis, Copied, Collected,
                    FirstLoop
<1>5. /\ \A j \in Network : /\ disk[j].key = invocation /\ disk[j].seed = invocation
                            /\ disk[j].app = AppPorts(j)
      /\ genAccounts = [j \in Network |-> invocation]
      /\ gentxsFiles = [j \in Network |-> Gentx(j)]
  BY <1>2, <1>4 DEF IInv, Generated
<1>6. /\ IsFunction(all)
      /\ DOMAIN all = DOMAIN old.gentx \cup Network
      /\ \A m \in Network : m \in DOMAIN all /\ all[m] = Gentx(m)
  BY <1>5 DEF IsFunction
<1> HIDE DEF all
<1>7. /\ IsFiles(r) /\ r.key = old.key /\ r.seed = old.seed /\ r.gentx = all
      /\ r.app = old.app /\ r.genesis = old.genesis
  BY <1>2, <1>6 DEF Types, Disk, IsFiles
<1> HIDE DEF r
<1>8. /\ Disk'
      /\ \A j \in Nodes : disk'[j] = IF j = node THEN r ELSE disk[j]
      /\ \A j \in Nodes : DOMAIN disk'[j].gentx \subseteq 0..largest' - 1
  BY <1>1, <1>2, <1>6, <1>7, DiskStep
<1>9. Through = Before \cup {node} /\ node \notin Before /\ Before \subseteq Nodes
  BY <1>2, NodesOfLoop
<1>10. Types'
  BY <1>1, <1>2, <1>3, <1>8, SameFlags DEF Types, Steps, Active, Loops, FirstLoop
<1>11. Generated'
  <2>1. \A j : AppPorts(j)' = AppPorts(j)
    BY DEF AppPorts
  <2>2. \A j \in Network : /\ disk'[j].key = invocation /\ disk'[j].seed = invocation
                           /\ disk'[j].app = AppPorts(j)
    BY <1>2, <1>5, <1>7, <1>8
  <2> QED
    BY <1>1, <1>4, <1>5, <2>1, <2>2, SameFlags DEF Generated
<1>12. Exchanged'
  <2>1. \A j \in Network : disk'[j].genesis.accounts = [m \in Network |-> invocation]
    <3>1. \A j \in Network : disk[j].genesis.accounts = [m \in Network |-> invocation]
      BY <1>2, <1>4 DEF IInv, Exchanged
    <3>2. r.genesis = disk[node].genesis /\ Network \subseteq Nodes
      BY <1>2, <1>7, NetworkInNodes
    <3> QED
      BY <1>8, <3>1, <3>2, Zenon
  <2>2. \A j \in Through : \A m \in Network : /\ m \in DOMAIN disk'[j].gentx
                                              /\ disk'[j].gentx[m] = Gentx(m)
    <3>1. \A j \in Before : \A m \in Network : /\ m \in DOMAIN disk[j].gentx
                                               /\ disk[j].gentx[m] = Gentx(m)
      BY <1>2, <1>4 DEF IInv, Exchanged
    <3> QED
      BY <1>2, <1>6, <1>7, <1>8, <1>9, <3>1
  <2> QED
    BY <1>1, <1>3, <1>4, <2>1, <2>2, SameFlags DEF Exchanged
<1>13. Leftovers'
  BY <1>1, <1>2, <1>8, SameFlags DEF IInv, Leftovers, Active, Loops, FirstLoop
<1> QED
  BY <1>10, <1>11, <1>12, <1>13 DEF IInv

\* A node whose gentxs are all known has those of the invocation and no other.
LEMMA KnownMeansFresh ==
    ASSUME IInv, pc = "collect", Known(disk[node].gentx, disk[node].genesis.accounts)
    PROVE  /\ disk[node].genesis.accounts = [m \in Network |-> invocation]
           /\ CanonicalState = [m \in Network |-> Gentx(m)]
<1>1. /\ Types /\ node \in Nodes /\ node \in Nat /\ node \in Network /\ pc \in Active
      /\ numValidators \in Nat
  BY NetworkInNodes DEF IInv, Types, Active, Loops, FirstLoop
<1>2. WithGenesis = Network /\ Copied = Network /\ Collected = Before
  BY DEF WithGenesis, Copied, Collected, FirstLoop
<1>3. disk[node].genesis.accounts = [m \in Network |-> invocation]
  BY <1>1, <1>2 DEF IInv, Exchanged
<1>4. CASE node = 0
  <2> DEFINE g == disk[0].gentx
  <2>1. DOMAIN g \subseteq Network
    BY <1>3, <1>4 DEF Known
  <2>2. \A m \in Network : m \in DOMAIN g /\ g[m] = Gentx(m)
    BY <1>1, <1>2, <1>4 DEF IInv, Exchanged
  <2>3. g = [m \in DOMAIN g |-> g[m]]
    BY <1>1, <1>4 DEF Types, Disk, IsFiles, IsFunction
  <2> HIDE DEF g
  <2>4. DOMAIN g = Network
    BY <2>1, <2>2
  <2>5. g = [m \in Network |-> Gentx(m)]
    BY <2>2, <2>3, <2>4
  <2> QED
    BY <1>3, <1>4, <2>5 DEF CanonicalState, g
<1>5. CASE node # 0
  <2>1. 0 \in Before
    BY <1>1, <1>5 DEF Before
  <2>2. disk[0].genesis.gentxs = [m \in Network |-> Gentx(m)]
    BY <1>1, <1>2, <2>1 DEF IInv, Exchanged
  <2> QED
    BY <1>3, <1>5, <2>2 DEF CanonicalState
<1> QED
  BY <1>4, <1>5

LEMMA CollectGenFilesInv == IInv /\ CollectGenFiles => IInv'
<1> SUFFICES ASSUME IInv, CollectGenFiles
             PROVE  IInv'
  OBVIOUS
<1> DEFINE old == disk[node]
           config == [root |-> node, peers |-> PersistentPeers, ports |-> Ports(node)]
           genesis == [accounts |-> old.genesis.accounts, gentxs |-> CanonicalState]
           r == [old EXCEPT !.config = config, !.genesis = genesis]
<1>1. /\ pc = "collect" /\ UNCHANGED flagVars /\ largest' = largest
      /\ \/ pc' = "collect" /\ node + 1 < numValidators /\ node' = node + 1
         \/ pc' = "done" /\ node + 1 = numValidators /\ node' = 0
      /\ genAccounts' = genAccounts /\ gentxsFiles' = gentxsFiles
      /\ Known(old.gentx, old.genesis.accounts)
  BY DEF CollectGenFiles, Step
<1>2. /\ Types /\ node \in Nodes /\ node \in Nat /\ Network \subseteq Nodes /\ node \in Network
      /\ pc \in Loops /\ pc \in Active
  BY <1>1, NetworkInNodes DEF IInv, Types, Active, Loops, FirstLoop
<1>3. disk' = [disk EXCEPT ![node] = r]
  <2>1. disk' = [disk EXCEPT ![node].config = config, ![node].genesis = genesis]
    BY DEF CollectGenFiles
  <2>2. DOMAIN disk = Nodes
    BY <1>2 DEF Types, Disk
  <2> QED
    BY <1>2, <2>1, <2>2
<1>4. /\ old.genesis.accounts = [m \in Network |-> invocation]
      /\ CanonicalState = [m \in Network |-> Gentx(m)]
  BY <1>1, KnownMeansFresh
<1>5. /\ node' \in Network' /\ Network' = Network
      /\ pc' = "collect" => Before' = Through
      /\ pc' = "done" => Network = Through
  BY <1>1, <1>2, LoopGoesOn, SameFlags
<1>6. /\ Keyed = Network /\ Keyed' = Network
      /\ Seeded = Network /\ Seeded' = Network
      /\ Signed = Network /\ Signed' = Network
      /\ Configured = Network /\ Configured' = Network
      /\ WithGenesis = Network /\ WithGenesis' = Network
      /\ Copied = Network /\ Copied' = Network
      /\ Collected = Before /\ Collected' = Through
  BY <1>1, <1>5 DEF Keyed, Seeded, Signed, Configured, WithGenesis, Copied, Collected,
                    FirstLoop
<1>7. /\ \A j \in Network : /\ disk[j].key = invocation /\ disk[j].seed = invocation
                            /\ disk[j].app = AppPorts(j)
      /\ genAccounts = [j \in Network |-> invocation]
      /\ gentxsFiles = [j \in Network |-> Gentx(j)]
  BY <1>2, <1>6 DEF IInv, Generated
<1>8. /\ genesis.accounts = [m \in Network |-> invocation]
      /\ genesis.gentxs = [m \in Network |-> Gentx(m)]
  BY <1>4
<1> HIDE DEF genesis, config
<1>9. /\ IsFiles(r) /\ r.key = old.key /\ r.seed = old.seed /\ r.gentx = old.gentx
      /\ r.app = old.app /\ r.genesis = genesis /\ r.config = config
  <2>1. IsFiles(old)
    BY <1>2 DEF Types, Disk
  <2> HIDE DEF old
  <2>2. r = [key |-> old.key, seed |-> old.seed, gentx |-> old.gentx, genesis |-> genesis,
             config |-> config, app |-> old.app]
    <3> DEFINE mid == [old EXCEPT !.config = config]
    <3>1. mid = [key |-> old.key, seed |-> old.seed, gentx |-> old.gentx,
                 genesis |-> old.genesis, config |-> config, app |-> old.app]
      BY <2>1 DEF IsFiles
    <3>2. r = [mid EXCEPT !.genesis = genesis]
      BY DEF r
    <3> HIDE DEF mid
    <3> QED
      BY <3>1, <3>2
  <2> QED
    BY <2>1, <2>2 DEF IsFiles
<1> HIDE DEF r
<1>10. /\ Disk'
       /\ \A j \in Nodes : disk'[j] = IF j = node THEN r ELSE disk[j]
       /\ \A j \in Nodes : DOMAIN disk'[j].gentx \subseteq 0..largest' - 1
  BY <1>2, <1>3, <1>1, <1>9, DiskStep
<1>11. Through = Before \cup {node} /\ node \notin Before /\ Before \subseteq Nodes
  BY <1>2, NodesOfLoop
<1>12. Types'
  BY <1>1, <1>2, <1>5, <1>10, SameFlags DEF Types, Steps, Active, Loops, FirstLoop
<1>13. Generated'
  <2>1. \A j : AppPorts(j)' = AppPorts(j)
    BY DEF AppPorts
  <2>2. \A j \in Network : /\ disk'[j].key = invocation /\ disk'[j].seed = invocation
                           /\ disk'[j].app = AppPorts(j)
    BY <1>2, <1>7, <1>9, <1>10
  <2> QED
    BY <1>1, <1>6, <1>7, <2>1, <2>2, SameFlags DEF Generated
<1>14. Exchanged'
  <2>1. \A j \in Network : disk'[j].genesis.accounts = [m \in Network |-> invocation]
    <3>1. \A j \in Network : disk[j].genesis.accounts = [m \in Network |-> invocation]
      BY <1>2, <1>6 DEF IInv, Exchanged
    <3> QED
      BY <1>2, <1>8, <1>9, <1>10, <3>1
  <2>2. \A j \in Network : \A m \in Network : /\ m \in DOMAIN disk'[j].gentx
                                              /\ disk'[j].gentx[m] = Gentx(m)
    <3>1. \A j \in Network : \A m \in Network : /\ m \in DOMAIN disk[j].gentx
                                                /\ disk[j].gentx[m] = Gentx(m)
      BY <1>2, <1>6 DEF IInv, Exchanged
    <3>2. r.gentx = disk[node].gentx /\ Network \subseteq Nodes
      BY <1>2, <1>9, NetworkInNodes
    <3> QED
      BY <1>10, <3>1, <3>2, Zenon
  <2>3. \A j \in Through :
          /\ disk'[j].genesis.gentxs = [m \in Network |-> Gentx(m)]
          /\ disk'[j].config = [root |-> j, peers |-> PersistentPeers, ports |-> Ports(j)]
    <3>1. \A j \in Before :
            /\ disk[j].genesis.gentxs = [m \in Network |-> Gentx(m)]
            /\ disk[j].config = [root |-> j, peers |-> PersistentPeers, ports |-> Ports(j)]
      BY <1>2, <1>6 DEF IInv, Exchanged
    <3> QED
      BY <1>2, <1>8, <1>9, <1>10, <1>11, <3>1 DEF config
  <2> QED
    BY <1>1, <1>5, <1>6, <2>1, <2>2, <2>3, SameFlags DEF Exchanged
<1>15. Leftovers'
  BY <1>1, <1>2, <1>10, SameFlags DEF IInv, Leftovers, Active, Loops, FirstLoop
<1> QED
  BY <1>12, <1>13, <1>14, <1>15 DEF IInv

\* A refused gentx is one of a node this invocation does not have, left by an
\* invocation that had it; one that is known is of this invocation.
LEMMA CollectGenFilesFailsInv == IInv /\ CollectGenFilesFails => IInv'
<1> SUFFICES ASSUME IInv, CollectGenFilesFails
             PROVE  IInv'
  OBVIOUS
<1>1. /\ pc = "collect" /\ UNCHANGED flagVars /\ largest' = largest /\ disk' = disk
      /\ \/ pc' = "staleGentx" /\ ~Known(disk[node].gentx, disk[node].genesis.accounts)
         \/ /\ pc' = "underfunded"
            /\ Known(disk[node].gentx, disk[node].genesis.accounts)
            /\ ~Funded(disk[node].gentx)
  BY DEF CollectGenFilesFails, Step
<1>2. /\ Types /\ node \in Nodes /\ node \in Network /\ pc \in Active
      /\ numValidators \in Nat /\ largest \in Nat
  BY <1>1, NetworkInNodes DEF IInv, Types, Active, Loops, FirstLoop
<1>3. pc' = "staleGentx" => largest > numValidators
  <2> SUFFICES ASSUME ~Known(disk[node].gentx, disk[node].genesis.accounts)
               PROVE  largest > numValidators
    BY <1>1
  <2>1. PICK j \in DOMAIN disk[node].gentx :
          ~(/\ j \in DOMAIN disk[node].genesis.accounts
            /\ disk[node].genesis.accounts[j] = disk[node].gentx[j].addr)
    BY DEF Known
  <2>2. WithGenesis = Network /\ Copied = Network
    BY <1>1 DEF WithGenesis, Copied, FirstLoop
  <2>3. disk[node].genesis.accounts = [m \in Network |-> invocation]
    BY <1>2, <2>2 DEF IInv, Exchanged
  <2>4. j \notin Network
    <3> SUFFICES ASSUME j \in Network
                 PROVE  FALSE
      OBVIOUS
    <3>1. disk[node].gentx[j] = Gentx(j)
      BY <1>2, <2>2 DEF IInv, Exchanged
    <3>2. Gentx(j).addr = invocation
      BY DEF Gentx
    <3> QED
      BY <2>1, <2>3, <3>1, <3>2
  <2>5. j \in 0..largest - 1
    BY <1>2 DEF IInv, Leftovers
  <2> QED
    BY <1>2, <2>4, <2>5 DEF Network
<1>4. pc' = "underfunded" => \E j \in Network : Stake(j) \notin 0..Balance
  <2> SUFFICES ASSUME Known(disk[node].gentx, disk[node].genesis.accounts),
                      ~Funded(disk[node].gentx)
               PROVE  \E j \in Network : Stake(j) \notin 0..Balance
    BY <1>1
  <2>1. PICK j \in DOMAIN disk[node].gentx : ~(disk[node].gentx[j].stake <= Balance)
    BY DEF Funded
  <2>2. WithGenesis = Network /\ Copied = Network
    BY <1>1 DEF WithGenesis, Copied, FirstLoop
  <2>3. disk[node].genesis.accounts = [m \in Network |-> invocation]
    BY <1>2, <2>2 DEF IInv, Exchanged
  <2>4. j \in Network
    BY <2>1, <2>3 DEF Known
  <2>5. disk[node].gentx[j].stake = Stake(j)
    <3>1. disk[node].gentx[j] = Gentx(j)
      BY <1>2, <2>2, <2>4 DEF IInv, Exchanged
    <3>2. Gentx(j).stake = Stake(j)
      BY DEF Gentx
    <3> QED
      BY <3>1, <3>2
  <2>6. ASSUME NEW s, ~(s <= Balance)
        PROVE  s \notin 0..Balance
    BY <2>6, TestnetFilesAssumption
  <2> QED
    BY <2>1, <2>4, <2>5, <2>6
<1>5. Types'
  BY <1>1, <1>2, SameFlags DEF Types, Disk, Steps, Active, Loops, FirstLoop
<1>6. Generated' /\ Exchanged'
  BY <1>1 DEF Generated, Exchanged, Active, Loops, FirstLoop
<1>7. Leftovers'
  BY <1>1, <1>2, <1>3, <1>4, SameFlags DEF IInv, Leftovers, Active, Loops, FirstLoop
<1> QED
  BY <1>5, <1>6, <1>7 DEF IInv

LEMMA NextInv == IInv /\ [Next]_vars => IInv'
<1> SUFFICES ASSUME IInv, [Next]_vars
             PROVE  IInv'
  OBVIOUS
<1>1. CASE UNCHANGED vars
  <2>1. /\ pc' = pc /\ node' = node /\ UNCHANGED flagVars /\ genAccounts' = genAccounts
        /\ gentxsFiles' = gentxsFiles /\ disk' = disk /\ largest' = largest
    BY <1>1 DEF vars
  <2>2. /\ Keyed' = Keyed /\ Seeded' = Seeded /\ Signed' = Signed /\ Configured' = Configured
        /\ WithGenesis' = WithGenesis /\ Copied' = Copied /\ Collected' = Collected
    BY <2>1, SameFlags DEF Keyed, Seeded, Signed, Configured, WithGenesis, Copied, Collected,
                           Before, Through
  <2>3. Types'
    BY <2>1, SameFlags DEF IInv, Types, Disk
  <2>4. Generated'
    <3>1. \A j : AppPorts(j)' = AppPorts(j)
      BY DEF AppPorts
    <3> QED
      BY <2>1, <2>2, <3>1, SameFlags DEF IInv, Generated
  <2>5. Exchanged'
    BY <2>1, <2>2, SameFlags DEF IInv, Exchanged
  <2>6. Leftovers'
    BY <2>1, SameFlags DEF IInv, Leftovers
  <2> QED
    BY <2>3, <2>4, <2>5, <2>6 DEF IInv
<1>2. CASE Next
  BY <1>2, InvokeInv, FailureInv, InitializeNodeInv, GenerateKeyInv, WriteSeedInv,
     WriteGentxInv, WriteAppConfigInv, InitGenFilesInv, CopyGentxsInv, CollectGenFilesInv,
     CollectGenFilesFailsInv DEF Next
<1> QED
  BY <1>1, <1>2

\* In every reachable state the nodes a loop has passed hold what it writes, and
\* the files of other nodes come from invocations that had them.
THEOREM Invariance == Spec => []IInv
BY InitInv, NextInv, PTL DEF Spec

-----------------------------------------------------------------------------
(* What follows for the networks.                                           *)

\* What a finished invocation leaves in the directories of its nodes.
LEMMA DoneMeansAll ==
    ASSUME IInv, pc = "done", NEW j \in Network
    PROVE  /\ disk[j].key = invocation /\ disk[j].seed = invocation
           /\ disk[j].app = AppPorts(j)
           /\ disk[j].genesis.accounts = [m \in Network |-> invocation]
           /\ disk[j].genesis.gentxs = [m \in Network |-> Gentx(m)]
           /\ disk[j].config = [root |-> j, peers |-> PersistentPeers, ports |-> Ports(j)]
<1>1. /\ Keyed = Network /\ Seeded = Network /\ Configured = Network
      /\ WithGenesis = Network /\ Collected = Network /\ pc \in Active
  BY DEF Keyed, Seeded, Configured, WithGenesis, Collected, FirstLoop, Active
<1>2. /\ disk[j].key = invocation /\ disk[j].seed = invocation /\ disk[j].app = AppPorts(j)
  BY <1>1 DEF IInv, Generated
<1>3. /\ disk[j].genesis.accounts = [m \in Network |-> invocation]
      /\ disk[j].genesis.gentxs = [m \in Network |-> Gentx(m)]
      /\ disk[j].config = [root |-> j, peers |-> PersistentPeers, ports |-> Ports(j)]
  BY <1>1 DEF IInv, Exchanged
<1> QED
  BY <1>2, <1>3

\* An invocation that succeeds leaves one consistent network, whatever earlier
\* ones left in the directory.
THEOREM Consistent == Spec => []NetworkConsistent
<1>1. IInv => NetworkConsistent
  <2> SUFFICES ASSUME IInv, pc = "done", NEW i \in Network
               PROVE  /\ disk[i].seed = disk[i].key
                      /\ disk[i].genesis.accounts = [j \in Network |-> disk[j].key]
                      /\ disk[i].genesis.gentxs =
                           [j \in Network |-> [addr |-> disk[j].key, stake |-> Stake(j)]]
    BY DEF NetworkConsistent
  <2>1. \A j \in Network : disk[j].key = invocation
    BY DoneMeansAll
  <2>2. [j \in Network |-> disk[j].key] = [j \in Network |-> invocation]
    BY <2>1
  <2>3. [j \in Network |-> [addr |-> disk[j].key, stake |-> Stake(j)]]
          = [j \in Network |-> Gentx(j)]
    BY <2>1 DEF Gentx
  <2> QED
    BY <2>2, <2>3, DoneMeansAll
<1> QED
  BY <1>1, Invariance, PTL

\* Only a directory made for more validators refuses an invocation, or amounts
\* of its own that the accounts do not cover.
THEOREM RetriesWork == Spec => []RetryNotRefused
<1>1. IInv => RetryNotRefused
  BY DEF IInv, Leftovers, RetryNotRefused
<1> QED
  BY <1>1, Invariance, PTL

-----------------------------------------------------------------------------
(* Ports.                                                                   *)

\* The ports the code starts from.
CodePorts == [p2p |-> 26656, rpc |-> 26657, proxy |-> 26658, prometheus |-> 26660,
              grpc |-> 9090, api |-> 1317, pprof |-> 6060]

\* The ports of a node but the pprof port.
PortSet(i) ==
    {26656 - 3 * i, 26657 - 3 * i, 26658 - 3 * i, 26660 + i, 9090 - 2 * i, 1317 - i}

LEMMA SixOfSix ==
    ASSUME NEW a, NEW b, NEW c, NEW d, NEW e, NEW f,
           b \notin {a}, c \notin {a, b}, d \notin {a, b, c}, e \notin {a, b, c, d},
           f \notin {a, b, c, d, e}
    PROVE  /\ IsFiniteSet({a, b, c, d, e, f})
           /\ Cardinality({a, b, c, d, e, f}) = 6
<1>1. IsFiniteSet({a}) /\ Cardinality({a}) = 1
  BY FS_Singleton
<1>2. IsFiniteSet({a, b}) /\ Cardinality({a, b}) = 2
  <2>1. {a} \cup {b} = {a, b}
    OBVIOUS
  <2> QED
    BY <1>1, <2>1, FS_AddElement
<1>3. IsFiniteSet({a, b, c}) /\ Cardinality({a, b, c}) = 3
  <2>1. {a, b} \cup {c} = {a, b, c}
    OBVIOUS
  <2> QED
    BY <1>2, <2>1, FS_AddElement
<1>4. IsFiniteSet({a, b, c, d}) /\ Cardinality({a, b, c, d}) = 4
  <2>1. {a, b, c} \cup {d} = {a, b, c, d}
    OBVIOUS
  <2> QED
    BY <1>3, <2>1, FS_AddElement
<1>5. IsFiniteSet({a, b, c, d, e}) /\ Cardinality({a, b, c, d, e}) = 5
  <2>1. {a, b, c, d} \cup {e} = {a, b, c, d, e}
    OBVIOUS
  <2> QED
    BY <1>4, <2>1, FS_AddElement
<1>6. {a, b, c, d, e} \cup {f} = {a, b, c, d, e, f}
  OBVIOUS
<1> QED
  BY <1>5, <1>6, FS_AddElement

\* The nodes of the largest network all of whose ports are positive.
PortNodes == 0..1316

IsPort(port) == port \in Int /\ 0 < port /\ port < 65536

LEMMA PortSetsApart ==
    ASSUME NEW i \in PortNodes, NEW j \in PortNodes
    PROVE  /\ IsFiniteSet(PortSet(i)) /\ Cardinality(PortSet(i)) = 6
           /\ \A port \in PortSet(i) : IsPort(port)
           /\ 6060 \notin PortSet(i)
           /\ i # j => PortSet(i) \cap PortSet(j) = {}
<1> DEFINE a == 26656 - 3 * i
           b == 26657 - 3 * i
           c == 26658 - 3 * i
           d == 26660 + i
           e == 9090 - 2 * i
           f == 1317 - i
<1>0. i \in Int /\ 0 <= i /\ i <= 1316
  BY DEF PortNodes
<1>1. /\ b \notin {a} /\ c \notin {a, b} /\ d \notin {a, b, c} /\ e \notin {a, b, c, d}
      /\ f \notin {a, b, c, d, e}
  <2>2. b \notin {a} /\ c \notin {a, b}
    BY <1>0
  <2>3. d \notin {a, b, c}
    BY <1>0
  <2>4. e \notin {a, b, c, d}
    BY <1>0
  <2>5. f \notin {a, b, c, d, e}
    BY <1>0
  <2> QED
    BY <2>2, <2>3, <2>4, <2>5
<1>2. i # j => /\ a \notin PortSet(j) /\ b \notin PortSet(j) /\ c \notin PortSet(j)
               /\ d \notin PortSet(j) /\ e \notin PortSet(j) /\ f \notin PortSet(j)
  BY DEF PortSet, PortNodes
<1>3. PortSet(i) = {a, b, c, d, e, f}
  BY DEF PortSet
<1>6. /\ IsPort(a) /\ IsPort(b) /\ IsPort(c) /\ IsPort(d) /\ IsPort(e) /\ IsPort(f)
  BY <1>0 DEF IsPort
<1>7. /\ a # 6060 /\ b # 6060 /\ c # 6060 /\ d # 6060 /\ e # 6060 /\ f # 6060
  BY <1>0
<1> HIDE DEF a, b, c, d, e, f
<1>4. IsFiniteSet(PortSet(i)) /\ Cardinality(PortSet(i)) = 6
  <2>1. Cardinality({a, b, c, d, e, f}) = 6 /\ IsFiniteSet({a, b, c, d, e, f})
    BY <1>1, SixOfSix
  <2> QED
    BY <1>3, <2>1
<1>5. i # j => PortSet(i) \cap PortSet(j) = {}
  BY <1>2, <1>3
<1>8. \A port \in PortSet(i) : IsPort(port)
  BY <1>3, <1>6
<1>9. 6060 \notin PortSet(i)
  BY <1>3, <1>7
<1> QED
  BY <1>4, <1>5, <1>8, <1>9

LEMMA DonePorts ==
    ASSUME DefaultPorts = CodePorts, IInv, pc = "done", portFlag = <<>>, NEW i \in Network
    PROVE  /\ ListensOn(i) = PortSet(i) \cup {6060}
           /\ disk[i].config.ports.p2p = 26656 - 3 * i
           /\ disk[i].config.peers = PersistentPeers
<1>1. disk[i].app = AppPorts(i)
  BY DoneMeansAll
<1>2. disk[i].config = [root |-> i, peers |-> PersistentPeers, ports |-> Ports(i)]
  BY DoneMeansAll
<1>3. disk[i].config.ports = Ports(i) /\ disk[i].config.peers = PersistentPeers
  BY <1>2
<1>4. /\ Ports(i).p2p = 26656 - 3 * i /\ Ports(i).rpc = 26657 - 3 * i
      /\ Ports(i).proxy = 26658 - 3 * i /\ Ports(i).prometheus = 26660 + i
      /\ Ports(i).pprof = 6060
  BY DEF Ports, CodePorts
<1>5. AppPorts(i).grpc = 9090 - 2 * i /\ AppPorts(i).api = 1317 - i
  BY DEF AppPorts, CodePorts
<1> DEFINE p == disk[i].config.ports
           q == disk[i].app
<1>6. ListensOn(i) = {p["p2p"], p["rpc"], p["proxy"], p["prometheus"], p["pprof"]}
                        \cup {q["grpc"], q["api"]}
  BY DEF ListensOn
<1> HIDE DEF p, q
<1>7. p = Ports(i) /\ q = AppPorts(i)
  BY <1>1, <1>3 DEF p, q
<1>8. ListensOn(i) = PortSet(i) \cup {6060}
  BY <1>4, <1>5, <1>6, <1>7 DEF PortSet
<1> QED
  BY <1>3, <1>4, <1>8

\* With the default ports, the nodes of a network of up to 1317 validators find
\* each other, and the pprof port is all that two of them have in common.  One
\* validator more is one too many: the API port of node 1317 is 0.
THEOREM OnlyPprofIsShared ==
    ASSUME DefaultPorts = CodePorts, MaxValidators <= 1317
    PROVE  Spec => []PortsApart
<1>1. IInv => PortsApart
  <2> SUFFICES ASSUME IInv, pc = "done", portFlag = <<>>, NEW i \in Network, NEW j \in Network
               PROVE  /\ Cardinality(ListensOn(i)) = 7
                      /\ \A port \in ListensOn(i) : 0 < port /\ port < 65536
                      /\ i # j => ListensOn(i) \cap ListensOn(j) = {DefaultPorts["pprof"]}
                      /\ disk[i].config.peers[j] = disk[j].config.ports.p2p
    BY DEF PortsApart
  <2>1. i \in PortNodes /\ j \in PortNodes
    <3>1. numValidators \in Nat /\ numValidators <= MaxValidators /\ MaxValidators \in Nat
      BY TestnetFilesAssumption DEF IInv, Types
    <3> QED
      BY <3>1 DEF Network, PortNodes
  <2>2. /\ IsFiniteSet(PortSet(i)) /\ Cardinality(PortSet(i)) = 6
        /\ \A port \in PortSet(i) : IsPort(port)
        /\ 6060 \notin PortSet(i)
        /\ i # j => PortSet(i) \cap PortSet(j) = {}
    BY <2>1, PortSetsApart
  <2>3. ListensOn(i) = PortSet(i) \cup {6060} /\ ListensOn(j) = PortSet(j) \cup {6060}
    BY DonePorts
  <2>4. disk[i].config.peers[j] = 26656 - 3 * j
    <3>1. disk[i].config.peers = PersistentPeers
      BY DonePorts
    <3>2. DefaultPorts["p2p"] = 26656
      BY DEF CodePorts
    <3>3. PersistentPeers[j] = DefaultPorts["p2p"] - 3 * j
      BY DEF PersistentPeers, Network
    <3> QED
      BY <3>1, <3>2, <3>3
  <2>5. disk[j].config.ports.p2p = 26656 - 3 * j
    BY DonePorts
  <2>6. DefaultPorts["pprof"] = 6060
    BY DEF CodePorts
  <2>7. Cardinality(ListensOn(i)) = 7
    <3>1. Cardinality(PortSet(i) \cup {6060}) = Cardinality(PortSet(i)) + 1
      BY <2>2, FS_AddElement
    <3> QED
      BY <2>2, <2>3, <3>1
  <2>8. \A port \in ListensOn(i) : 0 < port /\ port < 65536
    <3>1. IsPort(6060)
      BY DEF IsPort
    <3>2. \A port \in ListensOn(i) : IsPort(port)
      BY <2>2, <2>3, <3>1
    <3> QED
      BY <3>2 DEF IsPort
  <2>9. i # j => ListensOn(i) \cap ListensOn(j) = {6060}
    BY <2>2, <2>3
  <2> QED
    BY <2>4, <2>5, <2>6, <2>7, <2>8, <2>9
<1> QED
  BY <1>1, Invariance, PTL
=============================================================================
