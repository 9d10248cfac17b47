# Verification of the Base Protocol System

TLA+ models of the parts of this repository that carry logic of their own, the
TLC configurations that check them on small instances, and TLAPS proofs of what
matters most for every value of the parameters. Paths are relative to the
repository's root.

    tlc -workers 2 -config MCHardCapMint.cfg MCHardCapMint    # one run
    tlapm HardCapMintProofs.tla                               # one module's proofs

`PROJECT.json` lists components, runs, mutants, the lines each definition
stands for, findings, hazards and theorems.

## 1. The system

The repository holds a Cosmos SDK chain (`bpsd`), its commands, and a Flutter
desktop program that shows a validator what its node does. Most of what the
chain does is in the SDK's modules; what is written here is what wraps them.

| Component | State it keeps | Operations | Hard parts |
|---|---|---|---|
| Hard-capped mint (`app/mint_hardcap.go`) | through keepers: minter, mint params, supply, balances | `NewHardCapMintFn`, once a block; `clampMintToHardCap` | the last provision below the cap; a genesis above it; an error between two keeper calls; a block executed twice |
| Application wiring (`app/app.go`, `app/ibc.go`, `app/app_config.go`) | stores, modules, keepers, routes, orders, permissions, blocked accounts, the version map in the upgrade store | `New`, `registerIBCModules`, `InitChainer`, `Load` | half of it wired by depinject, half by hand, in an order the compiler does not see; a process killed between `InitChain` and its first block |
| Zero-height export (`app/export.go`) | the state of one context: staking, distribution and slashing records | `ExportAppStateAndValidators`, `prepForZeroHeightGenesis` | errors that are ignored; reference counts; two stores that must agree on who is jailed |
| In-place testnet (`cmd/bpsd/cmd/testnet.go`) | the state of a stopped node | `newTestnetApp`, `initAppForTestnet`, `getCommandArgs` | stores replaced one by one; an exit in the middle; the first end blocker reads what is left |
| Multi-node testnet (`cmd/bpsd/cmd/testnet_multi_node.go`) | an output directory | `initTestnetFiles`, `initGenFiles`, `collectGenFiles`, `writeFile` | failures that leave files; one config object shared by all nodes; ports |
| Terminal: controller (`apps/bps_validator_terminal/.../dashboard_controller.dart`) | `_state`, `_activeMenuId`, `_started`, `_disposed`, timer | `start`, `refresh`, `selectMenu`, `dispose` | refreshes overlap; state is read after an await; dispose in the middle |
| Terminal: remote layer (`.../remote/*.dart`, `core/network/comet_bft_rpc_client.dart`) | none between calls | `fetchDashboard`, `getJson`, bpsd queries | chains of awaits with time limits; optional and mandatory calls |
| Terminal: parsers and view factories (`.../domain/*.dart`) | none | answers to rows | missing and malformed fields; percentages; address conversion |
| `x/bps` (`x/bps/keeper`, `x/bps/module`) | one `Params` item, with no fields | `UpdateParams`, `InitGenesis`, `ExportGenesis`, `Params` | an item that is empty is not an item that is missing; a store that has another name than its module |
| Protobuf codec of `x/bps` (`x/bps/types/*.pb.go`) | none between calls | `Marshal`, `Size`, `Unmarshal` of seven messages, five skip functions | lengths and sums at the edge of `int`; unknown fields and groups; bytes that are cut short |
| Command tree (`cmd/bpsd/cmd/commands.go`, `root.go`) | none between commands | `newApp`, `appExport`, registration of the IBC modules with `init` | a height that must not be loaded with the latest state |
| Query gateway, genesis account, widgets, docs, scripts | none that changes | registration | none |

How they interact:

- The mint module's begin blocker calls the mint function with the block's
  context. It hands coins to the fee collector; distribution's begin blocker,
  next in `BeginBlockers`, allocates them. Transactions and slashes change the
  same supply and balances between one mint and the next. A failing begin
  blocker, or an optimistic execution of a proposal that is not decided,
  discards the block's context.
- The export and the in-place testnet command both run on the state of the last
  committed block and drive the staking, distribution, slashing, bank and mint
  keepers directly, past the message handlers. What they leave behind is read
  by `InitGenesis` and by the first end blocker.
- The multi-node command talks to itself through files: what one node of its
  loop, or one earlier invocation, wrote is read by the next.
- Every command builds the application anew and loads the state an earlier
  process committed, whose stores must be those it has just wired. `InitChain`
  writes state of all modules and commits nothing; the first block does. An
  exported genesis, with all sections or some, starts another home.
- What one node's encoder writes to a transaction or to the store, the decoder
  of another node, or a later process, reads.
- The terminal reaches the chain by HTTP (CometBFT RPC) and by running `bpsd`.
  The controller's timer and the answers meet in one state object.

What makes each correct:

- **Mint.** Supply equals balances; nothing grows past the cap, however the
  supply got where it is; the cap is reached if nothing is burnt; one provision
  a block, however often the block is executed; nothing stays in the mint
  account; the provision is allocated in its own block.
- **Export.** The distribution account matches its records, but for the one error
  that can part them; reference counts are what the SDK's own invariant wants; no
  height of the old chain survives; only allowed validators are left.
- **In-place testnet.** The first block replaces the validators by the new one
  and does not halt; the listed accounts hold what they were promised.
- **Multi-node testnet.** A success after failures is as good as a first
  success; a retry is not refused; the nodes' ports are apart, but for the one
  that no node sets.
- **Node.** A home with a usable genesis starts, whatever killed it before, and
  commits its blocks; `x/bps` never loses its section; every running module is
  in the version map; an export is of the height that was asked for, and 0 is none;
  only the authority changes params.
- **Codec.** A decoder accepts exactly the messages of the wire format and takes
  from them what they say; no index leaves its data; it ends on all bytes; it
  reads back what the encoder wrote.
- **Terminal.** The refreshes that wait are bounded, silence is bounded, `loading`
  always ends, one failure does not blank a live page, dispose is final, an outage
  ends in live data.

## 2. Modules

Each of the modules `HardCapMint`, `NodeLifecycle`, `ZeroHeightExport`,
`InPlaceTestnet`, `MultiNodeTestnet`, `DashboardController` and `ProtoCodec` has a
companion, its name followed by `Proofs` (section 5). `ProtoFormatProofs` goes on
where `ProtoCodecProofs` ends. The `MC` modules hold the values of constants that
a configuration file cannot express.

### HardCapMint, CappedSupply

`HardCapMint` is block execution around the mint function. The state is the four
items the function reads or writes (`supply`, `bal`, `minter`, `mintParams`), the
position in the block (`pc`, `txs`), and the copy of the last committed block.

| Definition | Code |
|---|---|
| `ClampMintToHardCap` | `clampMintToHardCap`, its four early returns and the minimum |
| `MintedCoin`, `MintCoins`, `AddCollectedFees`, `MintBeginBlock` | the body of `NewHardCapMintFn` |
| `MintBeginBlockFails` | each `return err` of it, with what was written before |
| `NextMinter`, `NextInflationRate`, `BondedRatio`, `DecMul`, `DecQuo`, ... | `Minter.NextInflationRate`, `NextAnnualProvisions`, `BlockProvision` and `LegacyDec` (external), with truncation and banker's rounding |
| `BeginBlockers`, `BlockedAccounts`, `Burners` | the lists in `app_config.go` |
| `Discard` | optimistic execution (`app.go`) and a failed or interrupted block |
| `Send` ... `UpdateMintParams` | messages of SDK modules (external) that move the same balances |

The accounts are the four module accounts that matter and `holders`, which
stands for everyone else. One height is told from the next only as far as the
code does: distribution allocates from height 2 on, so `committed.height` is 0
or 1. The order of the begin blockers and the accounts' permissions are those of
`app_config.go`.

`CappedSupply` is the promise: seen block by block, the supply goes anywhere up
to the cap, and when it is above it, only down. `HardCapMint` implements it
with `total <- committed.supply[MintHardCapDenom]`.

### DashboardController

The controller and the chain of calls it awaits. `refreshes` is the sequence of
refreshes that wait, each with the call it awaits, how long it has awaited it,
how old it is, and the heights it has read. `Start`, `TimerFires`, `SelectMenu`
and `Dispose` are the controller's methods; `CallAnswered` and `CallFails` are
the continuation of one await up to the next, Dart running one at a time.
`FetchCalls` is the order in `DashboardRepository.fetchDashboard`,
`BpsNodeRpcService` and `BpsCliQueryService`; `Following` says which calls are
left out (no address in `/status`, no operator found); `Limit` is what the
client's time limits allow. `Tick`, `NewBlock` and `ChangeHealth` are the
environment. Time does not pass while a timer or a time limit is due.

After a dispose the HTTP client is closed, so that an RPC request fails; a bpsd
command that runs still ends.

### ZeroHeightExport

`prepForZeroHeightGenesis` loop by loop. `pc` names the loop, `todo` what is left
of its iteration. Records are kept as far as the loops touch them: outstanding
rewards, commissions, the community pool and the distribution account as
amounts; the periods and reference counts of historical rewards in full; heights
as the set of records that still hold an old one. How much a withdrawal of rewards
pays is any amount the validator has outstanding beyond its commission, which
includes nothing at all. Both withdrawals can fail, and the export drops the error
(lines 82 and 106). The keepers run on the export's own context, so that nothing
takes back what they wrote before: a commission is taken off the records first and
paid then (`CommissionPaymentFails`), rewards are paid first, when the period has
ended (`RewardsPaymentFails`). `unpaid` is what the first of these has taken off
and not paid.

The validator-set update goes through the power index up to the first validator
without voting power or the one that fills the set, and fails at a jailed one
before it asks for its power: `Reached` is what it looks at, `Top` what it bonds.
A validator without voting power is one whose delegations (`Dust`) make no unit of
it. An allow list holds validators, an address that decodes and is
none (a list of nothing else jails everyone), or a text that does not decode. The two panics, the logged error of `iter.Close` with its early
return, and the export without preparation are outcomes of their own.

### InPlaceTestnet

`getCommandArgs`, then `initAppForTestnet` store by store (power index, last
validators, validators and queue), the new validator, its distribution and
signing records, the funding of each listed account (mint, decode, send), and
the first end blocker. An exit by `handleErr` is a final state.

### MultiNodeTestnet

Up to `MaxInvocations` runs of `initTestnetFiles` on one output directory. Every
file is a step; `FailAndRemove` are the failures after which the code removes
the directory, `FailAndKeep` all others and an interrupt. An address is the
number of the invocation that generated its key, which is all the properties
need to tell a fresh file from a stale one. The ports of a node are those the loop
over the shared config sets and the one of pprof, which it leaves as it is: all
nodes have the one of the shared config, `localhost:6060` as the SDK makes it.
Entries of the stake flag below one are left out: the SDK refuses them.

### NodeLifecycle

One home directory, and the processes that run on it one after the other. `pc` is
the call of `app.New` that is next (`Wiring`, one action a call), or what the
process does once it is loaded.

| Definition | Code |
|---|---|
| `InjectedModules`, `StoreKey`, `InitGenesis` | `app_config.go`: modules, `OverrideStoreKeys`, the genesis order |
| `Inject`, `Build`, `SetInitChainer`, `Load` | `New`, and `ProvideModule` of `x/bps` |
| `RegisterStores` ... `RegisterModules` | `registerIBCModules`, call by call; a keeper is usable when its store and its key table are there before it is made |
| `RegisterIBC` | the modules that `init` and the client commands know |
| `InitChain`, `VersionMap` | the `InitChainer` of `New`, `InitGenesis` of `x/bps`; what the runtime and the upgrade module add is external |
| `UpdateParams`, `Authorized` | `MsgUpdateParams`: the handler's decoding and the keeper's comparison of addresses |
| `Start`, `StartExport`, `ExportResult` | `newApp`, `appExport`, `ExportAppStateAndValidators`, `ExportGenesis` |
| `Kill` | the end of a process before any of its steps |
| `StartOver` | a new home from an exported genesis (external: an operator's copy) |

A start loads the latest version. An export with a height of its own loads it
behind `New`, which therefore loads nothing. `appExport` compares the height with
-1 and hands every other one to `LoadHeight`, 0 among them, which the stores take
for no height in particular: they load their latest version, while the last height
of the application is 0 (`LoadedVersion`, `LastBlockHeight`). Of the state of a version the model
keeps `params` (missing, or the encoding of `Params`, which is no byte), the
stores it was written with and the version map. `LegacyState` is what a chain
has written whose binary still called the module by the name of its store,
`semar`.

### ProtoCodec, ProtoWire

`ProtoCodec` is the generated code. A call of `Unmarshal` is a behaviour: one
step is one iteration of a loop, `stack` the calls in progress. `ReadVarint`,
`Content`, `IndexAfter`, `CannotSkip` and `ReturnSkipped` hold the code's checks
in its order, on integers that wrap at `WordBits`. `Size`, `encodeVarint` and
`Marshal` fill a buffer from its end. The seven messages are seven actions over
one operator, as are the five skip functions, for the generator has given them
one body each.

`ProtoWire` is the format, written without looking at the code: which sequences
of bytes are varints, tokens and messages, and what is in a field. Its lengths
and sums do not wrap.

Two checks of the code cannot fail: a skip function that starts at the end of a
group (its caller has refused that tag) and the comparison of the index with the
length behind the loop of `Unmarshal`. The model keeps both, as branches that no
input takes.

## 3. Runs

| Run | Properties | Instance | Question |
|---|---|---|---|
| `hard_capped_mint` | `TypeOK` `SupplyBacked` `NoStrandedMint` `ProvisionAllocatedAtOnce` `SupplyCap` `OneProvisionPerBlock` `ImplementsCappedSupply` `GrowthWithinCap` `CapIsReached` | cap 4, genesis 3 and 5, two denominations, two params | is a block safe, with failures and discards anywhere, below the cap and above it, and does the supply get there |
| `node_lifecycle` | `ValidHomeStarts` `SectionSurvives` `VersionsComplete` `ExportsAskedHeight` `ParamsNeedAuthority` `CommitsInTheEnd` | three blocks, two kills, two exports | does a home survive its processes |
| `proto_codec` | `TypeOK` `IndexInData` `ReadsWireFormat` `RoundTrip` `MovesOn` | all decoders, joined pieces of messages | do the decoders read the format |
| `dashboard_refresh` | `TypeOK` `OverlapBounded` `NeverSilent` `LoadingMeansFetching` `ModulesNotBehindStatus` `OfflineAfterTwoFailures` `NothingAfterDispose` `RecoversFromOutage` | one call of each optional kind, limits of 1 tick, period 6 | overlapping refreshes, failures, dispose, the end of an outage |
| `export_zero_height` | `HoldingsMatch` `ReferencesExact` `NoOldHeights` | two validators, three delegations, two past periods, failing withdrawals | is the exported state consistent |
| `export_validators` | `OnlyAllowedValidate` `PanicsOnlyIfLeftOut` | three validators, one without voting power, a set of two, all allow lists | who validates behind the export, and which lists give none |
| `testnet_in_place` | `NewValidatorTakesOver` `FundedAsListed` | two mainnet validators, new or old operator, four account lists | does the first block work |
| `testnet_multi_node` | `NetworkConsistent` `RetryNotRefused` `PortsApart` | three nodes, three invocations | retries on one directory |
| `export_allow_list` | `PreparesFreshStart` (violated) | two bonded validators | finding 1 |
| `export_order` | `ByPowerDescending` (violated) | two validators | finding 2 |
| `testnet_no_accounts` | `StartsWithoutAccounts` (violated) | the empty flag | finding 3 |
| `testnet_stake_flag` | `InvalidStakeIsDefault` (violated) | an invalid entry before a valid one | finding 4 |

Why the bounds are enough:

- *Mint.* The clamp compares three numbers, so what counts is their order: with
  a cap of 4 and an inflation of up to 200 % in a year of two blocks a provision
  is nothing, less than, equal to and more than what is left; genesis supplies of
  3 and 5 are on either side of the cap. Two denominations are needed for a
  change of the mint denomination, and one of them has vouchers. `MaxTransfer`
  and `MaxTxs` are 1, for every step of several coins or transactions is a
  sequence of blocks with one. `MaxUncapped` bounds the supply of the voucher at
  the start of a block: an uncapped supply grows for ever.
- *Node.* Three versions are an oldest, a middle and a latest one; exports ask
  for each, for the latest, for heights before and behind them (a home started
  from an export begins at a later height) and for 0. A second kill can follow the
  restart of the first, so that `InitChain` runs three times, and two exports
  give a home from an export of a home from an export.
- *Codec.* Words of 15 bits and field numbers of 8: a varint of three bytes has
  one bit in its last byte, as the tenth byte of a 64-bit one has, and a tag can
  hold more than a field number takes, as in the code (64 bits and 32).
  `MCProtoCodec` joins up to three pieces: whole fields, known and unknown, of
  every wire type; broken ones; and numbers at the edges, among them the largest
  length, one whose sum wraps and a negative one. Every buffer goes to every
  decoder. What is encoded has authorities of 0, 1, 127, 128 and 200 bytes, on
  both sides of a length that needs a second byte.
- *Dashboard.* The chain has one call of every kind that is treated
  differently. A longest fetch of 10 ticks (`MaxFetch`) against a period of 6
  lets two refreshes wait at once; in the code it is 100 s against 5 s, which
  bounds them by 21. One height stands for what `/status` and the bpsd queries
  see; for an instant the first can be one ahead of the second. Two heights tell an older answer from a newer one.
  `failures` and `quiet` are history and counted only up to where the properties
  look.
- *Export.* Two delegators share a validator and one of them has two, so that
  reference counts above 2 and periods that end twice occur. Two past periods
  allow for a slash event between delegations. `Scale` 2 gives change on a
  payment: rewards of 4 and a commission of 3 pay two coins and one, and leave
  change or none. `export_validators` has no rewards, since no step lets them
  decide who validates, and instead a third validator, without voting power: with
  two places in the set the update looks at it when one of the others was jailed
  before, and does not when they fill the set.
- *In-place testnet.* The old validators may be in any status, in the power
  index, last store and queue that go with it.
- *Multi-node.* Three invocations allow a larger network, a failure and a
  success in this order; three nodes a first, a middle and a last one.

`CHECK_DEADLOCK FALSE` is set where the system stops: an export or a command
ends, an unstarted terminal may stay so, a home stops at its last block, and the
mint model stops when a bound on an uncapped denomination is met. `proto_codec`
checks for deadlock: no call is stuck, and with `MovesOn` none goes on for ever.

Every property of a passing run has a mutant in `PROJECT.json`, an operator in
the module with the comment *Mutant*, that a plausible slip in the code would
give; the run finds the property violated with it.

## 4. Fairness

- `HardCapMint`: `[]<><<Commit>>_vars`. CometBFT goes on deciding blocks while
  two thirds of the power are up; how often an execution is abandoned before is
  left open, weak fairness of the parts of a block would not do, since `Discard`
  can return to its start for ever. No fairness is given to transactions,
  errors or burns.
- `DashboardController`: weak fairness of `Tick`, `TimerFires` and of the next
  continuation (`CallAnswered \/ CallFails`). Time passes, `Timer.periodic`
  fires, and every await ends by an answer or by its time limit. Nothing makes
  the node healthy: `RecoversFromOutage` assumes it (`<>[]healthy`), and then a
  refresh cannot fail, only succeed.
- `NodeLifecycle`: weak fairness of `System`, a process's own steps and the start
  of a node that is down: a process that is not killed runs on, and an operator
  starts the node again. Kills, exports, messages and the move to a new home have
  none; the first two are bounded, as a node that is killed before every first
  block would never have one.

## 5. Proofs

Each component's theorems are in a module of their own that extends it. They hold
for every value of the constants that its assumptions allow, and state the
properties of section 3, so that the runs show on a small instance what the
theorems say of all.

| Module | Theorem | Establishes |
|---|---|---|
| `HardCapMintProofs` | `TypeCorrect` | `TypeOK` |
| | `SupplyIsBacked` | `SupplyBacked` |
| | `CapHolds` | `SupplyCap` |
| | `NothingStranded` | `NoStrandedMint` |
| | `AllocatedAtOnce` | `ProvisionAllocatedAtOnce` |
| | `GrowthIsCapped` | `GrowthWithinCap` |
| | `MintsOncePerBlock` | `OneProvisionPerBlock` |
| | `RefinesCappedSupply` | `ImplementsCappedSupply` |
| `NodeLifecycleProofs` | `HomesStart` | `ValidHomeStarts` |
| | `ParamsReachDisk` | `SectionSurvives` |
| | `VersionsRecorded` | `VersionsComplete` |
| | `ExportIsOfItsHeight` | `ExportsAskedHeight` |
| | `OnlyGovernanceChangesParams` | `ParamsNeedAuthority` |
| `ZeroHeightExportProofs` | `HoldingsAlwaysMatch` | `HoldingsMatch` |
| | `NoDanglingPeriods` | `ReferencesExact` |
| | `HeightsAreReset` | `NoOldHeights` |
| | `AllowListHolds` | `OnlyAllowedValidate` |
| | `OnlyListsPanic` | `PanicsOnlyIfLeftOut` |
| `InPlaceTestnetProofs` | `TakesOver` | `NewValidatorTakesOver` |
| | `Funded` | `FundedAsListed` |
| | `ExcessIsFunding` | a list of n accounts takes the supply above the cap by n amounts at most |
| `MultiNodeTestnetProofs` | `Consistent` | `NetworkConsistent` |
| | `RetriesWork` | `RetryNotRefused` |
| | `OnlyPprofIsShared` | `PortsApart`, with the code's ports and up to 1317 nodes |
| `DashboardControllerProofs` | `TypeCorrect` | `TypeOK` |
| | `BoundedOverlap` | `OverlapBounded` |
| | `Speaks` | `NeverSilent` |
| | `LoadingEnds` | `LoadingMeansFetching` |
| | `ModulesUpToDate` | `ModulesNotBehindStatus` |
| | `OneFailureKeepsView` | `OfflineAfterTwoFailures` |
| | `ClosedIsFinal` | `NothingAfterDispose` |
| `ProtoCodecProofs` | `TypeCorrect` | `TypeOK` |
| | `IndicesStayInData` | `IndexInData` |
| | `EveryCallMovesOn` | `MovesOn` |
| | `SizeIsExact` | `Marshal` fills exactly the bytes that `Size` asked for |
| `ProtoFormatProofs` | `TakesTheWireFormat` | `ReadsWireFormat` |
| | `MarshalSaysWhatIsMeant` | what `Marshal` writes is a message of the format, with the authority that was meant |
| | `MarshalIsReadBack` | `RoundTrip` |

### Mint

Assumptions (`DenomAssumption`, `AmountAssumption`, `ParamsAssumption`): the
capped and the bond denomination exist, no denomination is the empty text, the
capped one is no voucher; the cap, the scale and the bounds are natural numbers,
the first two positive; the mint params are what `Params.Validate` accepts
(`inflationMin <= inflationMax`, a positive goal and blocks per year). TLC
evaluates all of them in `hard_capped_mint`.

The argument has three layers.

1. `CoreInv == TypeOK /\ SupplyBacked`. Types alone are not inductive: that a
   slash or a transfer leaves no negative supply needs that the supply is the
   sum of the balances. The committed copy is part of both, because `Discard`
   brings it back. `InflationInBand`, `ProvisionType` and `ClampBounds` carry the
   decimal arithmetic: the clamp to the params' band is what keeps a provision
   from being negative.
2. `BlockInv`. The cap is not inductive over a block either: the block starts
   with the committed state (`StartsFromCommitted`), the supply stays below the
   ceiling of the committed one (`BelowCeiling`) and within one provision of it
   (`OneProvision`), and the mint account is empty but in a failed block
   (`MintAccountEmpty`). `MintGrowth` is the one step that can raise the supply.
   `CommitEffect` carries the ceiling to the next block. `CapHolds` is of the same
   layer: once supply and committed supply are within the cap, every step leaves
   them there, from whatever genesis, and also after burns brought them back
   below it.
3. `AllocInv`, the fee collector between distribution's begin blocker and the
   first transaction.

In the other modules one invariant, `IInv`, is proved inductive (`Invariance`),
one lemma for each action, and the theorems follow from it. It is the
strengthening that TLC checked on small instances, where it ranges over numbers
with bounds for them.

### Node

`LifecycleAssumption`: the bounds on blocks, kills and exports are numbers. Any
number of each is covered.

That a home starts is a statement about states in the middle of `New`, and what
makes it true is what the calls before have wired. `Stages` says that for each
of the twelve calls: which stores are mounted, tables registered, keepers made,
modules added. `WiringOrder`, `GenesisOrder`, `GenesisComplete` and
`StoresComplete` are the facts about the lists of `app_config.go` that it rests
on; a module moved or dropped in one of them makes a lemma fail. `Blocks` relates
the state a node serves to the last version: missing before `InitChain`, with all
stores and params behind it, and different from the last version only in params
that an executed message changed. `LoadSucceeds` and `UsableInitialises` then
exclude the panics one by one.

### Export

`ExportAssumption`: finitely many delegations, each to one of the validators, any of
them too small for a unit of voting power; a positive scale; rewards that are not
negative.

`HoldingsMatch` says what the ignored errors cost: the account of the distribution
module is what is outstanding and pooled, and beyond that nothing but commissions
whose payment failed. Distribution's `InitGenesis` refuses an account that differs
from its records, so that an export after such a failure does not start a chain;
no error of a reward withdrawal has that effect, and no other step. The property
is inductive by itself, but its steps are about a sum over all validators: a
withdrawal changes one term of it and the change has to go where the sum keeps it
(`PaysWholeCoins`, `DonationMatches`). `Periods` describes the reference counts:
while delegations are set up, each count is the number of its users among those
that are set up already (`Counted`), every period in use is below the current one,
and a delegation is in the loop's list once. Counts are exact whenever none is
pending. `Met` says what the jailing loop has reset and jailed so far, and that the
last validators hold no jailed one.

`OnlyListsPanic` draws the line around finding 1. Its invariant, `SameSet`, is
that nothing but the jailing loop jails a validator of the power index, for not
being listed, and that neither the index nor the last validators ever change: the
update of the validator set finds the validators that were there before, or one
it cannot have. A list therefore never changes who validates: a preparation that
finishes has the validators it began with. It is not enough, though, for a list to
name all of them. Unless they fill the set, the update looks at one validator more,
the first of the index that has no voting power, and panics when the list leaves
out that one.

### In-place testnet

`TestnetAssumption`: a fund amount above 0, a supply within the cap, no account
named by the empty text, lists of texts. `Replacing` follows the staking stores
from one loop to the next; `Funding` says that the entries behind the loop's
position have their coins, as often as they were listed; `Minted` bounds the
supply by the cap and what those entries got: the funding mints outside the clamp,
and nothing else takes a testnet over the cap.

### Multi-node testnet

`TestnetFilesAssumption`: one validator at least, flags that are lists of numbers
(or entries that do not parse). `Generated` and `Exchanged` say for each loop
which nodes have which file of *this* invocation; the sets `Keyed`, `Seeded`,
`Signed`, ... are the nodes behind the loop's position. `Leftovers` bounds whose
files an earlier invocation can have left, which is what `RetryNotRefused` needs
of the past: a gentx of a node outside the network is of a larger one, and one
inside it was written again, with this invocation's key and amount, so that a
stake above the balance is its own too.

`OnlyPprofIsShared` has two hypotheses of its own, that the default ports are the
ones of the code (`CodePorts`) and that there are at most 1317 validators. The
second is exact: the API port of node 1317 is 0. Up to there no two services of a
network meet. The pprof port is no part of that, and on one host only one of the
nodes gets it.

### Terminal

`FetchAssumption`, `TimeAssumption`, `EnvironmentAssumption`: one chain query at
least, positive limits and period, a dashboard among the menu entries. Any number
of calls of each kind and any limits are covered, among them those of the code.

The timer never looks at the refreshes it has started, so that nothing in the
code bounds them directly; the invariant finds the bound in their ages. A refresh
is younger than the limits of the calls it is through and the time it waits for
the present one (`InTime`), hence than a whole fetch. The refreshes that wait are
a period apart (`Spaced`), and the timer's rest is at most what the youngest lacks
to a period (`TimerRuns`). The oldest of n refreshes has an age of n - 1 periods
and less than a fetch: `OverlapBounded`. `QuietSince` counts the silence by the
oldest refresh: `NeverSilent`. `ReadInOrder` and `ViewKept` are about what a view
was made of.

### Codec

`WireAssumption` (a field number has 3 bits at least and, with the wire type, fits
a word), `CodecAssumption` (inputs and authorities are bytes, whose number is an
`int`, as that of every slice and string is) and `PowersOfTwo`, a law of
arithmetic that the provers do not know and TLC evaluates.

A frame of the stack has data whose length and an index that an `int` holds; the
index of an `Unmarshal` is in its data, that of a skip function may be behind it,
where its next iteration fails; and the outermost call is an `Unmarshal`. The
lemmas are the code's checks: `PlusProperties` says that the sum of two `int`s
that are not negative is their sum or is negative, which is why the code's
comparison with 0 behind each addition is enough; `ContentProperties` and
`TokenProperties` apply it to a field and to a token that is skipped. That every
step moves on excludes calls that go round for ever: the bytes are finite.

`ReadVarintProperties` needs that the fold which puts the seven bits together is a
number. The library's induction theorems and those about recursive functions take
an operator as a parameter, which the provers cannot instantiate. The module
therefore proves induction for a *set* of numbers (`NatSetInduction`, from the
least element of its complement), and with it that the recursive function which
the fold chooses exists (`ValueExists`) and is a number (`ValueIsNat`).
`ZeroHeightExportProofs` does the same for the sum over a finite set
(`TotalUnfolds`, `TotalTakesOut`, `TotalReplaces`).

`ProtoFormatProofs` compares the decoders with `ProtoWire`. Its lemmas are of four
kinds.

1. The reference does not care where bytes are cut out: a varint, a token or a
   payload of a part is the one at that place of the whole (`IsVarintOfPart`,
   `TokenOfPart`, `PartOfPart`). A decoder works on slices, the reference on all.
2. `Tokens` cuts the bytes in one way (`EndsAreOne`, `TokensAreCut`) and a decoder
   that stands behind the first tokens is at the end (`AtEnd`), before rubbish
   (`AtRubbish`) or before one more whole token (`AtWhole`). Groups are counted
   (`DepthIsCounted`): the depth of a skip function is how many starts the tokens
   it has read have more than ends.
3. Each check of the code says the same as one of the reference's: `ReadVarint`
   finds what `IsVarint` describes, `Content` and `IndexAfter` refuse exactly the
   lengths that lead out of the data (`ContentIsToken`, `IndexAfterIsEnd`), and
   what the skip function passes is a token (`SkippedToken`).
4. The invariant `Agrees`: while a call reads, the first tokens of its data are
   read and none of them makes the message malformed, the authority is the one
   they say, an `Unmarshal` inside another one reads the content of the token its
   caller is at, and a skip function is inside the groups of its caller's data
   (`Midway`); when it has ended, `ReadsWireFormat`. Each action has a lemma, and
   each refusal shows which requirement of the reference fails.

The encoders fill their buffer from its end, and what they write is proved from
there: the groups of a number add up to it and are as many as `sov` says, by
induction over a set of numbers (`ProtoCodecProofs`); the buffer is full when the
first field is written (`SizeIsExact`); and the reference, which reads from the
start, meets the one or two fields that were written last (`EncodedIsToken`,
`ToldField`, `ParamsAreWritten`). `RoundTrip` then is no statement about a
decoder any more, but follows from the reference both sides agree with.

### Model-checked only

- Liveness under fairness, which the installed provers do not reach:
  `CapIsReached`, `RecoversFromOutage`, `CommitsInTheEnd`.
- The properties that the code violates.

## 6. Findings

1. `app/export.go:224`: with an allow list that leaves out a validator of the
   power index, the loop sets `Jailed` and writes the record, the index keeps
   the validator, and `ApplyAndReturnValidatorSetUpdates` fails when it gets there.
   The comment at line 52 promises a fresh start. `OnlyListsPanic` (section 5) says
   which validators it gets to: those who sign and, unless they fill the set, the
   first of the others. Nothing else makes a preparation panic, but a text that is
   no address.
2. `app/export.go:208`: the loop that "iterates through validators by power
   descending" (line 205) iterates over `ValidatorsKey`, which is ordered by
   operator address. Nothing in the loop depends on the order.
3. `cmd/bpsd/cmd/testnet.go:224`: the accounts to fund are optional (line 56),
   but `strings.Split("", ",")` gives one empty entry; the command mints for it,
   fails to decode it and exits.
4. `cmd/bpsd/cmd/testnet_multi_node.go:108`: an invalid stake amount is skipped
   without being counted, so that its validator gets its successor's amount;
   line 104 says it gets the default.

## 7. Not modelled

- SDK modules beyond the effects named above: they are external. IBC timeouts,
  governance voting and staking's unbonding queue enter as the messages and
  burns they end in.
- The `Params` query of `x/bps` and its HTTP gateway: they read one item that
  has one value. Getters, registration and client stubs of generated code.
- Dart parsing and view building. They are functions from an answer to rows of
  text and change nothing; views are told apart by their kind and by the heights
  they were read at. Widgets, layout and generated platform code.
- The search for the `bpsd` executable, and the processes of hung `bpsd` commands:
  the time limit abandons the future of `Process.run` and kills nothing, so that
  `OverlapBounded` bounds the refreshes that wait and not the processes.
- `bpsd` commands that the SDK provides, and configuration, which is defaults.
- What the first upgrade of a home makes of its version map: there is no upgrade
  handler in the repository. With one, the module of a home from before the
  renaming would count as new; `VersionsComplete` sets such homes aside by name.

## 8. Plan

Done, in this order: `HardCapMint` with `CappedSupply` and its proofs,
`DashboardController`, `ZeroHeightExport`, `InPlaceTestnet`, `MultiNodeTestnet`,
`ProtoCodec` with `ProtoWire`, `NodeLifecycle`; then the proofs, by now of every
safety property that a passing run checks.

Next, proofs:

1. Export: that the loops end, as a bound on the iterations left.
2. In-place testnet and mint together: from a supply above the cap, growth by
   nothing but funding.
3. Codec: that every call ends, as a number of steps; `MovesOn` gives the measure.

Next, modules:

1. The pure functions of the terminal's `domain/` as operators, checked against
   reference definitions over small answers: delegation totals, power shares
   against a validator set that is cut at 100, fallbacks of missing fields.
2. `bpsd` processes that outlive their time limit, in `DashboardController`.
3. Delegations, distribution records and consensus address index of removed
   validators in `InPlaceTestnet`, and the messages that meet them later.
4. A composition of the in-place testnet with block execution: a chain that
   starts above the cap, minting on.
