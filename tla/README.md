# A verification of rollup-e2e-testing

`rollup-e2e-testing` is a Go library for end-to-end tests of rollapps: a test
declares hubs, rollapps, relayers and links, `Setup.Build` turns them into a
network of docker containers, and helpers submit transactions, move tokens over
IBC, wait for heights and record blocks. This directory models that library in
TLA+, checks the models with TLC on small instances and proves the most
important facts with TLAPS for instances of every size.

All paths below are relative to the root of the repository (`src/` of the
`source` fields in `PROJECT.json`).

- [1. Inventory](#1-inventory)
- [2. Modules and how they correspond to the code](#2-modules-and-how-they-correspond-to-the-code)
- [3. Runs](#3-runs)
- [4. Fairness](#4-fairness)
- [5. What is proved](#5-what-is-proved)
- [6. What the checks found](#6-what-the-checks-found)
- [7. What is not modelled, and the plan](#7-what-is-not-modelled-and-the-plan)

## 1. Inventory

| part | code | state | operations | what is hard |
|---|---|---|---|---|
| Bringing up the testnet | `setup.go`, `chainset.go`, `cosmos/hub/*`, `cosmos/rollapp/*`, `cosmos/node.go` | the chains' home directories (genesis, gentxs, keys), containers, what the hub knows of its rollapps, relayer keys, paths, links | `Build`, and in it `Initialize`, `CreateCommonAccount`, `Configuration`, `Start`, `TrackBlocks`, `configureRelayerKeys`, `GeneratePath`, `LinkPath` | genesis files are written by several owners in an order spread over five files; every one of dozens of docker calls can fail half way; Build can be repeated, tolerate failures, or find a hub that already runs |
| Host ports and containers | `dockerutil/ports.go`, `container_lifecycle.go` | listeners, the mutex, the bindings of each container | `CreateContainer`, `StartContainer`, `StopContainer`, `RemoveContainer` | a port is nobody's between closing the listener and docker's bind, with a goroutine per container; a creation that fails has dropped the listeners of the container it met |
| The relayer | `relayer/docker.go`, `ibc/relayer.go` | the container lifecycle | `StartRelayer`, `StopRelayer` | calls that fail half way, a process that exits, a container removed from outside |
| Relayer commands, channel selection | `relayer/docker.go`, `relayer/rly/*`, `ibc/relayer.go` | rly's home directory (chains, keys, paths), the wallets, the chain's clients, connections and channels | `NewDockerRelayer`, `AddKey`, `RestoreKey`, `GeneratePath`, `LinkPath`, `GetChannels`, ..., `GetTransferChannel` | a command goes on after its caller was told of an error; three queries answer one question while others link; a pointer to a loop variable |
| IBC transfer | `cosmos/cosmos_chain.go` `IBCTransfer` | balances, packets in flight | send, start, wait, compare, stop | asynchronous delivery; early returns leave the relayer running |
| Nodes of a running chain | `cosmos/cosmos_chain.go`, `node.go`, `sidecar.go` | nodes, containers, rpc clients, `findTxMu` | `Start`, `StopAllNodes`, `StartAllNodes`, `AddFullNodes`, `StopAllSidecars`, `StartAllSidecars`, `FindTxs` | errgroups that fail in part; block collectors query while containers and clients are replaced |
| Transactions | `cosmos/node.go`, `cosmos/broadcaster.go`, `cosmos_chain.go` | `node.lock`, the mempool, sequences, the response buffer | `ExecTx` and all built on it, `BroadcastTx` | stale sequences, lost answers, one query of a transaction that may not be in a block yet |
| Block tracking | `chainset.go` `TrackBlocks`/`Close`, `blockdb/*` | the sqlite tables, collectors, singleflight | `Collect`, `SaveBlock`, `Close` | repeats after failures, two callers for one block, cascading deletes, cancellation |
| Waiting | `testutil/*`, `dym_hub.go` waiters | none that outlives a call | `PollFor*`, `WaitForBlocks`, `WaitForInSync`, `WaitUntil*` | the chain moves between any two reads; failed queries count as "not found" |
| Test report | `testreporter/*` | a channel, its writer, the report | `Track*`, `Close` | sends after `Close`; two of them at once; a full channel; what is still in it when it is closed |
| Docker environment, jobs, files | `dockerutil/setup.go`, `image.go`, `volumeowner.go`, `busybox.go`, `file*.go` | labelled containers, volumes and networks, which outlive the process; the busybox mutex | `DockerSetup`, `dockerCleanup`, `Image.Run`, `WriteFile`, `SingleFileContent`, `SetVolumeOwner` | leaks when a context ends or a call fails; name collisions with jobs under way; docker's own removal; a test that is interrupted and run again |
| Specifications, types, queries, text interface | `chainspec.go`, `chainfactory.go`, `dymension/*`, `blockdb/query.go`, `blockdb/tui/*` | little or none | pure or pure I/O | nothing that several steps could break |

How they interact. `Build` calls everything in one goroutine, with errgroups
per chain or per node inside a phase. Hubs call back into their rollapps (a
`DymHub` rewrites the genesis files of its rollapps before it runs and
registers them when it does). Nodes, sidecars and relayers share
`ContainerLifecycle` and with it one package-level port mutex. Collectors run
beside the test for its whole life and call `FindTxs` of each chain, which
competes with restarts for `findTxMu`. Tests that run in parallel share a
chain's node and hence `node.lock`. `IBCTransfer` composes transactions, the
relayer and waiting. Every relayer command and every file goes through a job in
a container of its own, and every command is reported.

What makes the parts correct:

- Build: nodes of one chain run one genesis file, nobody rewrites it afterwards,
  a rollapp runs only when its hub knows it, money is only asked of faucets
  that can pay, links are only made where their prerequisites are.
- Ports: containers that run, or that the caller who created them is about to start,
  never share a host port, and no start fails because the library itself took the
  port.
- Relayer: one worker per start, gone after stop, always reported.
- Commands: the wallet the library knows is the key the relayer signs with; a
  transfer channel that is found is one.
- Transfer: success means that this packet was delivered.
- Nodes: queries never meet a restart; a restart that succeeded is complete.
- Transactions: sequences are fresh where the lock promises it; answers are
  about the caller's own transaction.
- Tracking: no block lost, doubled or skipped; collectors end.
- Waiting: a result is true in spite of the chain's moving; calls end.
- Jobs: a result says what the command did; what a run leaves behind the next one
  removes.
- Report: complete, in order, and closed in the end.

`PROJECT.json` lists the hazards one by one, each with the line where it bites and the
properties that would notice.

## 2. Modules and how they correspond to the code

```
RelayerPromise <--refined by-- DockerRelayer <--extended by-- IBCTransfer
Bootstrap   ContainerPorts   ChainNodes   Transactions   BlockCollector   Waiters
RelayerCommands   DockerJobs   Reporter
```

A module `MCx` instantiates `x` for TLC (`Waiters` needs none), a module
`xProofs` holds the theorems about it. Those about `ContainerPorts` and
`DockerJobs`, the two modules of `dockerutil`, are in `DockerutilProofs`, those
about `Waiters` and `Reporter` in `TestSupportProofs`, which is why these two pairs
have no name in common. Every module abstracts data to what its properties distinguish
and keeps the control flow of the code, its early returns and its failing calls.

**Bootstrap** (`setup.go`, `chainset.go`, `Start` and `Configuration` of the
four chain implementations). `pc` is the phase of `Build`; `left` what the
phase's loop has not visited, in any order because the code ranges over maps.
A chain under work has a `plan`, the stages of its `Start` or `Configuration`
written down as a sequence per implementation (`DymHubStart`,
`DymConfiguration`, ...), and `todo`, the items of the current stage's loop or errgroup.
In an errgroup all items run to their end before the error is seen; a loop
stops at the first. Items made of several calls can fail after any of them
(`p` counts the calls that succeeded). A genesis file is the set of entries
that matter: accounts, gentxs, the faucet, the hub's account, rollkit's
consensus key, a forked state. `GenesisAgreement` and `GenesisFrozen` look at
the per-node copies of these sets. Outside: peers, TOML, amounts, images.

**ContainerPorts** (`ports.go`, `container_lifecycle.go`). One goroutine per
container; `writer` and `readers` are `sync.RWMutex` with Go's rule that a
waiting writer keeps new readers out. Creation (`Create` to `CreateInDocker`) opens listeners one by one under
the write lock, starting closes them and lets docker bind under the read lock.
A container may be created again in whatever state it is: after a preStart sidecar failed,
`StartAllNodes` finds the node's container created and not started
(`node.go:1531`). Then `KeepListeners` has dropped the listeners of the first creation
(`container_lifecycle.go:59`), docker refuses the name, and the container's
ports are reserved no longer (`:92`). What the code relies on then is that all its
callers start a container only when their own `CreateContainer` returned no error
(`Start`, from "ready").
Dropped listeners become `orphans` until the garbage collector's finalizer closes them. Ports other
processes take are outside, and so is `PublishAllPorts`
(`container_lifecycle.go:78`), which lets docker choose ports of its own.

**RelayerPromise, DockerRelayer, IBCTransfer.** `RelayerPromise` is what
`ibc.Relayer` promises: started means one worker, which works at most once and never after
a release. `DockerRelayer` has one action per docker call of `StartRelayer` and
`StopRelayer`; a call may fail without effect or work and lose its
answer. `Exit` and `Purge` are the process that ends and the container that
another test's cleanup removes. `IBCTransfer` adds the statements of
`CosmosChain.IBCTransfer`, the two reads of its comparison each on its own, the
packets and what the relayer does with them, and lets the test start and stop the relayer in between.
`KeepsPromise` is the refinement: a claim is a lifecycle that is not nil, the
worker is its container.

**ChainNodes** (`cosmos_chain.go`, `node.go`, `sidecar.go`). An operation
starts a goroutine per node, each with the list of docker calls it has yet to
make; the list is dropped at the first failure, and the operation returns when
all goroutines have. `box`, `run`, `client`, `cmd` tell which container a node
has, which one its rpc client talks to and whether it has the command `Start`
gave it. `PickNode`, `LockQuery`, `FindTxs` are the three steps of `FindTxs`:
`getFullNode` takes `findTxMu` for a moment, then `FindTxs` takes it again. Names
of sidecar containers are built from the index alone, hence `DockerName`. A
preStart sidecar that runs may be taken for one that does not, when docker fails to
inspect it (`node.go:1529`): its creation then fails (`EnsureRunning`).

**Transactions** (`node.go`, `broadcaster.go`). Callers share a node. `Lock`,
`ReadAccount`, `ExecTx`, `WaitDone` are `ExecTx` under `node.lock`, with
`WaitForBlocks(ctx, 5, ...)` (its comment says two); `AfterExecTx` is what each of the
operations does next. `GetFactory`, `GetClientContext`, `Broadcast`, `QueryTx`
are `BroadcastTx`. Mempool and blocks are the environment: `txs` has all
transactions that were accepted, in their order, of which the first `committed`
are in blocks; an accepted transaction is in a block at most `MaxLag` blocks
later. On a chain of type
`rollapp-dym`, `ExecTx` returns without waiting.

**BlockCollector** (`chainset.go`, `blockdb/collect.go`, `blockdb/chain.go`).
Two callers of `SaveBlock` per chain: the collector and anybody else. The flight, the
single connection, the transaction's uncommitted tables, every statement
that may fail, and the cascade of `INSERT OR REPLACE` are there. `TrackBlocks`
leaves `fields` alone, because its receiver is a value.

**Waiters** (`testutil/wait.go`, `poll_for_state.go`, `cosmos/poll.go`,
`dym_hub.go`). One call of one of seven kinds; every read of a height or a
state is a step, and chains make blocks between any two of them, from a height
of zero, which `WaitForBlocks` passes over. Nodes may be ahead of the chain,
whose height is that of one node.

**RelayerCommands** (`relayer/docker.go`, `rly/cosmos_relayer.go`,
`ibc/relayer.go`). `NewDockerRelayer` makes the relayer and takes the state a
`Build` left it in, at any point of its progress (`Progress`). A call has a
command, the stages of what rly does (`StagesOf`), and `rly` and `net` are what
the home directory and the source chain have. `Work` is a stage in the
container; `ExecEnds` is the caller's view, which may be an error while the
command joins `late` and goes on. `Listed` is the step `GetTransferChannel`
takes after each of its three queries; lines that do not parse are dropped
(`Parsed`), as the parsers of `cosmos_relayer.go` do silently. The lists are in
the order things were made. `AddWallet` is left out, and keys have the one name
that is configured: an `AddKey` under a second name would replace the wallet
while rly went on signing with the configured key.

**DockerJobs** (`dockerutil/setup.go`, `image.go`, `busybox.go`, `filewriter.go`, `fileretriever.go`,
`volumeowner.go`). A job is a sequence of docker calls (`StepsOf`), each
of which fails with or without effect; a file job leaves through its deferred
removal (`Leave`), an image job does not. `Exit` and `RemoveExited` are the
command's end and docker's `AutoRemove`. `CleanList` to `CleanedUp` are
`dockerCleanup`, which `DockerSetup` calls at once (`eager`) and registers for
the end. `RunAgain` is the process that dies, at any point, and starts once more
with docker as it is.

**Reporter** (`testreporter/reporter.go`, `messages.go`). The channel `in` with
its capacity, the writer's goroutine, `Close` in its steps for each of those who
call it, also while another call is under way, and each `Track`
function with what the test did before it. A send on the closed channel, or
closing it again, ends `alive`, which stops everything as a panic does. `tracked` records what was sent, `written` what is in the
report.

## 3. Runs

Ten runs pass, two refute a statement of the code. Each finishes in about a minute or less with two workers.

| run | config | what it shows | bounds, and why they are enough |
|---|---|---|---|
| bootstrap | `Bootstrap.cfg` | Genesis files agree and stay; rollapps are known to their hub; what a phase needs is there; nothing is redone | two stacks (Dymension, Celestia + rollkit), so all four implementations; two validators of the Celestia hub, where one would hide a difference, a full node of each other chain, where nodes and validators part; a failure at any call; four argument records (from scratch, forked without paths, failures expected with an existing Celestia hub, an existing Dymension hub); two Builds, which is what "more than once" needs |
| ports | `ContainerPorts.cfg` | No container that runs or is about to be started loses a port to another, nobody waits for ever | three containers want four ports of two: a creation, a start and a running container can all be in conflict, and a container that wants both ports can be refused between them; no bound on creations, so that a container is created again in every state, its own first creation given up or failed |
| transfer | `IBCTransfer.cfg` | Meaning of success, the relayer's promise | two transfers of two amounts: an older packet beside a newer, equal or not; two containers: a restart |
| relayer_stuck | `RelayerStuck.cfg` | refutes `StopReleases` | one transfer |
| commands | `RelayerCommands.cfg` | Stored wallets sign; a channel that is found is one | one goroutine makes two calls (a key that is added twice, or a search), another links; two chains, three clients, connections and channels: a left-over and two matching ones. Two calls of both (six million states) were checked once |
| transfer_channel | `TransferChannel.cfg` | refutes `TransferChannelReturned` | the same |
| jobs | `DockerJobs.cfg` | Results of jobs, a clean slate, the busybox mutex | two containers, all in the first run, because what is left behind is what matters to the next ones; one name, so that every name collides; three runs: one that leaves things behind, one with `KEEP_CONTAINERS`, one that cleans up; volumes of failed tests are kept |
| report | `Reporter.cfg` | The report is complete, `Close` returns | two tests and all kinds of messages; a channel of two, so that it is full at times; two who close |
| nodes | `ChainNodes.cfg` | Queries and restarts exclude each other, starts are complete and in order | four operations: start, stop, restart and one more; five configurations, each the smallest with one of sidecar, name clash, added full nodes, no full node at first, rollkit |
| collector | `BlockCollector.cfg` | Rows neither lost nor doubled nor skipped; collectors get on and end | three heights with 2, 0 and 1 transactions; one failing statement besides those a done context fails; two callers, so that one joins the other |
| transactions | `Transactions.cfg` | Sequences, answers, the lock | two callers with one key, one of whom calls twice; a lag of two blocks, two queries, one failure |
| waiters | `Waiters.cfg` | Results are true, calls end | a chain and one node or further chain, delta two, five heights, batches of two, a target in the second batch, two polls, one failure |

`CHECK_DEADLOCK FALSE` is in every configuration because each of these systems
may really stop: Build returns, calls are used up, bounds are reached. That
nobody is stuck is checked by the liveness properties instead.

What the properties say beyond their names:

- `GenesisAgreement` holds although a `DymRollApp` adds the faucet to validator
  0's file only after it was copied to all nodes (`dym_rollapp.go:343`): the
  hub's `Start` copies validator 0's file again (`dym_hub.go:233`). It has two
  exceptions. Where no hub that `Build` started copied the file (the hub already
  runs, was left out, or is none of the rollapp's), nodes differ in the faucet.
  And every node of a `GmRollApp` makes itself the only validator of its own
  file (`gm_rollapp.go:242-251`, `node.go:1834`), so that a rollkit rollapp of
  several nodes has as many genesis files.
- `RollAppKnownToHub`: a hub that runs has registered the rollapp. Hubs that do
  not run are left out by an existing hub only: `chainSet.Start` leaves its loop
  over the hubs with `break` when it meets it (`chainset.go:133`).
- `PhasesReady` joins three statements: the faucet can pay where it is drawn on,
  a rollapp is registered from the directory that holds its sequencer's key,
  and links have their prerequisites. The first is about chains whose nodes all
  know the faucet (`FaucetEverywhere`): money is asked of the first full node,
  which has it only if a hub copied the genesis. The second is about rollapps
  with one validator, as in the repository's tests; with several it is false,
  because the loop's last validator sets the key directory and the key comes
  from the first (`dym_rollapp.go:124`).
- `PortsSafe` is about containers with a claim on their ports (`Claims`): those
  that run, and those from the creation that made them to the start by the same
  caller. A container that was given up between the two, or met by a later creation, has none:
  its bindings may name ports that were given to another meanwhile, and docker
  would refuse to start it. No caller does.
- `NothingRedone`: nobody rewrites the genesis of a node that runs, and a Build
  after one that succeeded gets no further than the relayer wallets.
- `WalletSigns` also holds after a key command that timed out and whose retry
  fails because the key exists: then there is no wallet, and it signs nothing else.
- `TransferChannelFound` is about the channel that is found. The one that is
  returned may be another (section 6).
- `JobOutcome` says what may remain: an image job that failed to start, or whose wait,
  logs or context failed, leaves its container, although `image.go:102` says
  that "The container resources are removed after exit".
- `CleanSlate` is conditional on the cleanup's docker calls, whose errors are only logged.
- `SuccessIsDelivery` needs `clean`: an older packet in flight or an
  earlier voucher balance can make the two balances right without this packet.
- `SequenceFresh` names what `node.lock` does not cover: `BroadcastTx`, a rollapp, and calls that
  failed half way (`cut`).
- `AnswersTruthful` promises the caller's own code of `StoreContract` only if
  nobody else stores contracts: it takes the newest code of the chain
  (`node.go:1081`).
- `NodesStart` says that a preStart sidecar runs before its node and that a start
  that was reported is complete. It excepts the command of a rollkit
  rollapp's containers, which `StartAllNodes` recreates without it
  (`node.go:1516`). It does not say that a start succeeds: the sidecars of a validator
  and of a full node with the same index share a name (`sidecar.go:82`), and a start
  of both fails.
- `CollectorsProgress` is about the context. `Close` stops no collector, because
  `TrackBlocks` has a value receiver and stores them in a copy (`chainset.go:158`).
- `PollComplete` says for which heights "not found" can be false: those whose
  query failed, because errors count as not found.
- `WaitTruthful` is about positive answers. A time-out of
  `WaitUntilRollappHeightIsFinalized` says nothing: only the latest finalized
  batch is searched (`dym_hub.go:695`), so that a height that has long been final is
  not found any more. `WaitForInSync` is not promised to end: a node may be
  behind in every round.
- `QueryHasClient` holds for chains that began with a full node. On a chain
  that began with validators only, `AddFullNodes` publishes the new node
  before it has a client, `getFullNode` prefers it at once, and the query of a
  block collector then reaches for a nil client and panics
  (`cosmos_chain.go:984`). The model has this panic (`Alive`), and the fourth
  configuration of the run reaches it.

Every property of a passing run has a mutant in `PROJECT.json`: an operator,
defined before the one it stands for and commented as a mutant, with a
plausible mistake in that code, under which TLC finds the property violated.

## 4. Fairness

Safety is checked and proved without any. Liveness assumes of

- *docker, rpc and sqlite calls*: they return, with or without error. All are
  made with a context or a retry that is bounded. Success is owed to nobody
  except where named here.
- *goroutines*: those that can go on do.
- *mutexes*: strong fairness for a goroutine that keeps asking for a
  `sync.Mutex` (`LockPorts`, `LockQuery`, `Lock` of `DockerJobs`): Go hands a mutex over in order when
  somebody has waited a millisecond. Readers of an `RWMutex` get in after the
  writer that made them wait, which `Unlock` models outright. For `node.lock`
  weak fairness is enough, as each caller calls a bounded number of times.
- *the collector*: a tick that keeps being due succeeds in the end (strongly
  needed for `EventuallySaved`: a database that fails for ever saves nothing;
  `MaxFaults` bounds failures without a done context); its `select` does not
  prefer the ticker to a done context for ever; `database/sql` serves waiters
  for its one connection in order.
- *chains*: they make blocks (`Transactions`, `Waiters`). `WaitersReturn` owes
  neither failures nor the end of the context.

- *commands in jobs*: they come to an end (`Exit` in `DockerJobs`); otherwise a job ends with its
  context, which is owed to nobody.
- *the report*: the writer and every `Close` that was begun go on; a test need not.

`Bootstrap` and `RelayerCommands` state safety only. `IBCTransfer` needs only that its own
statements and docker calls are taken; the process may run for ever and packets
may never be relayed.

## 5. What is proved

Each proof module extends its component, defines an inductive invariant as a
conjunction of named parts, and has lemmas for the initial states, for the
steps of each group of actions and for the temporal conclusion. The
assumptions are those on the constants only; TLC evaluates them in every run.

| module | theorem | argument |
|---|---|---|
| `BootstrapProofs` | `TypeCorrect`, `NeverRedone`, `OneGenesis`, `KnownToHub`, `PhasesFollow` | Every property of the run. The plan of the chain under work is a suffix of the stages of its `Start` or `Configuration` (`PlanHolds`), so that a stage that is over is one whose effect is there. The invariants are layers (`Layers`), each kept with the help of those below: what exists (`ExistInv`, `WalletInv`), who waits while hubs start (`WaitInv`), what runs after its start stage (`UpInv`), where keys are (`KeyInv`, `SeqInv`), the genesis file of each node stage by stage (`FileInv`, `ConfInv`), which hubs are done or left out (`HubsInv`), what is settled once a phase is over (`SettledInv`, `AgreedInv`, `LinkInv`). That a second Build ends at the wallets is a proof inside a proof: `Once` is inductive from "built" on. |
| `DockerutilProofs` | of `ContainerPorts`: `PortsTypeCorrect`, `ReservationHolds`, `NoConflict`, `Disjointness`, `Safety` | `NoPortConflict` alone is not inductive: that docker can bind at "start" needs that nobody else holds the port, for all holders at once. `HeldInv` says each port has at most one holder among dropped listeners and containers; `LockInv` that readers and a working writer exclude each other; `PlaceInv` that a caller on its way to start a container has created it itself and that its listeners keep its ports until they are closed, which no other creation, repeated or failed, takes from it. |
| | of `DockerJobs`: `TypeCorrect`, `OutcomeTrue`, `SlateClean` | `Has` is what a job needs of its container at each place, `Elsewhere` what may become of a container without its job: it may exit, be removed, or be killed by another job of the same name, a cleanup or docker itself. None of this takes from `Has` or from what a result says (`ElsewhereKeeps`), hence each step has to be looked at for its own job only (`Leads`). `CleanInv` is what a cleanup that misses nothing has removed after each phase; `QuietInv`, that no job runs meanwhile, so that nothing new appears. |
| `IBCTransferProofs` | `RelayerTypeCorrect`, `RunningOwned`, `ReleasedReported`, `PromiseKept` | `PlaceInv` says what the lifecycle is at each docker call, `RanInv` that a container runs at most once and never before its start. With these every step of `DockerRelayer` is a step of `RelayerPromise` or none: the refinement TLC checks as `KeepsPromise`. |
| | `TypeCorrect`, `Delivered` | The balances are sums over packets. `OwnInv`: when a call began clean, all packets but its own last one are refunded for good, so that the sums can only be right if that one was received. Facts about such sums, for sequences of any length, come from `NatInduct`: a least counterexample, which `WFMin` gives, has a predecessor that is none. |
| `ChainNodesProofs` | `TypeCorrect`, `QueryExclusion`, `FirstHasClient`, `StartsComplete` | `LockInv`: a query holds `findTxMu`, a restart too; docker calls of whatever goroutine move neither. `ListsOK` says which calls a goroutine may have left in each operation, `SidesOK` and `Achieved` what one that is so far has done: when all have returned without error, every node has what the operation owes it. `ClientOK`: queries of a chain that began with a full node go to its first one, which has a client once `Start` is over. |
| `TransactionsProofs` | `TypeCorrect`, `OwnResponses`, `FreshSequences`, `TruthfulAnswers` | The invariant has two parts. `Safe` needs nothing of the chain's speed: the lock and its holder (`LockInv`), no transaction twice and each caller's in the order of its calls (`OrderInv`, `OwnTxs`), the buffer with the call's own response or none (`BufferOK`). `Timely` rests on the hypothesis `MaxLag < WaitBlocks`, that the chain takes a transaction into a block while `ExecTx` waits: a transaction in the mempool was cut or its command waits for it and has counted no more blocks than passed (`WaitOK`); since a waiting command holds `node.lock`, no command reads a sequence that such a transaction is about to use (`FreshOK`). `MovesKeep` says what a step of one caller leaves of all others. |
| `BlockCollectorProofs` | `TypeCorrect`, `GapFree`, `NothingLost`, `Idempotent` | `WantInv`: a saver is at a height its collector has come to. `ConnInv`: an open transaction adds exactly its own height to the committed ones. Lemmas on `Replace` and `Insert` say which heights they keep. `TablesInv`: a height has one row with an id of its own, and the tables have all its transactions but those an open transaction has yet to insert. |
| `TestSupportProofs` | of `Waiters`: `TypeCorrect`, `PollsComplete`, `WaitsTruthful` | `PollInv`: a height is polled only when the chain has it, hence a packet that was not there when its height was polled will not be there later. `ReadInv`: what a call has read lies between the heights its round began with and the present ones. |
| | of `Reporter`: `ReportTypeCorrect`, `Complete` | What is sent is a message, and is sent while there is room. `Linked`: what the report has of a test, or of the suite, is the beginning of what was sent of it, and the rest stands in the channel in its order, between the messages of others; the proof gives the positions after each step. The writer ends with the channel closed and empty, and whoever is in `Close` returns after that or panics (`SuiteTruthful` is what they have sent). |
| `RelayerCommandsProofs` | `TypeCorrect`, `WalletsSign`, `ChannelFound` | `Monotone`: no stage of rly, of whatever command and caller, takes a key or an entry of the chain's lists away, so that what a caller knows (`CallerInv`) stays true through the steps of all others. `KeyInv`: a key command without stages left has its key in rly; `LinesInv` and `FoundInv` say which entry a search has found after each query. |

Every invariant and action property of the passing runs is stated by one of
these theorems. `FreshSequences` and `TruthfulAnswers` have the hypothesis
`MaxLag < WaitBlocks`: on a chain that is slower than the five blocks of `ExecTx`
both are false, and so they are with a wait of one block (the mutant
`DeltaReachedAtOne`). The run has a lag of two.

Only model-checked: all liveness, which is out of the prover's reach, as is
`ENABLED`.

## 6. What the checks found

Two runs refute what the code or its comments say (details and lines under
`findings` in `PROJECT.json`):

1. `relayer_stuck`: a `StartRelayer` that fails to create its container leaves
   a lifecycle that can be neither stopped nor started; the same after the
   container was removed from outside.
2. `transfer_channel`: with several channels on the source chain,
   `GetTransferChannel` returns the last one of the list, because it keeps the
   address of the loop's variable (go 1.21).

Deviations that the properties of passing runs name as exceptions (section 3):
hubs left out after an existing one, full nodes without the faucet, rollkit
restarted without its command, the newest code of `StoreContract`, `Close`
without collectors, the nil client after `AddFullNodes`, the finalized batch
that is only found while it is the latest, the key directory of rollapps with
several validators, the nodes of a rollkit rollapp that each have a validator of
their own, the sidecars that share a name, the created container whose ports nobody
reserves after its creation was repeated. The last one, and the faucet of rollapps that none of the started
hubs serves, came up only when the properties were proved for every topology.

Seen while modelling the jobs and commands, and part of the models where they
have an effect on state:

- `ensureBusybox` remembers the image as pulled even if the stream of the pull
  broke off (`busybox.go:46-55`); later jobs then fail until the process ends.
- A file job's container, which docker removes by itself, may be gone before
  `ContainerWait` asks for it: an error is returned although the file is there.
- `Start` fails when a container of the same name is removed by docker between
  the list and its own removal; and it removes one of a job under way.
- The cleanup that `DockerSetup` runs at once removes the volumes that
  `KeepVolumesOnFailure` had kept of the run before.
- Directories of the relayer are bind mounts outside docker's volumes and are
  never cleaned, although `dockerutil/setup.go:82` speaks of "the other various
  config files generated in testing": `rly config init` of a later run may meet
  an old configuration, and `NewCosmosRelayer` panics.
- After an `AddKey` that timed out its key is there but no wallet, and a retry
  is refused.
- A message that is tracked after `Close`, or a second `Close`, at once or later, is a panic
  (`reporter.go:64-68`); with two at once the report may finish the suite twice before it.
- `ibc/relayer.go:190-193` says that a non-zero exit code leaves `Err` nil; the
  code returns an error. `CreateClients` ignores the trusting period it is given.
  `GetTransferChannel` ignores the state of the channel it finds.

## 7. What is not modelled, and the plan

Not modelled: queries and text interface of the block database, TOML and codec
formatting, the contents of files, types and event parsing of `dymension/`,
merging of chain specifications, streams of image pulls: input and output, or
sequential conversions of data without state. Of containers, `Pause` and
`Unpause` are left out; of the relayer, `AddWallet` and `ModifyTomlConfigFile`.
`r.wallets` is a map without a lock; tests add keys from one goroutine, and its
data races are outside. See `components` in `PROJECT.json`.

The order was: Build first, as everything rests on it; ports and
relayer, where failures and interleavings meet; the running chain (nodes,
transactions, collectors, waiters); what lies under all of it (jobs, commands,
report); theorems about those whose safety rests on a lock or on an order of
steps. What is next:

1. **Abstract specifications.** A map from heights to blocks that only grows,
   implemented by `BlockCollector`; a lease of ports, implemented by
   `ContainerPorts`.
2. **Composition.** `ChainNodes` with `BlockCollector`: what a restart does to
   a tick. `DockerJobs` with `IBCTransfer`: the cleanup as the source of `Purge`.
