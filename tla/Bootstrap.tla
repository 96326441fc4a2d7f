------------------------------ MODULE Bootstrap ------------------------------
(***************************************************************************)
(* Setup.Build: the single pass that turns declared hubs, rollapps,        *)
(* relayers and links into a running testnet.                              *)
(*                                                                         *)
(* One goroutine runs Build; inside a chain the per-node work of an        *)
(* errgroup is concurrent.  A chain under work is described by its plan,   *)
(* the stages its Start or Configuration still has to go through, and by   *)
(* todo, what is left of the current stage's loop or errgroup.             *)
(*                                                                         *)
(* Genesis files are sets of entries, one file per node, because every     *)
(* node has its own home directory.  Amounts, denoms, TOML and peers are   *)
(* abstracted.  Every docker or CLI call may fail.                         *)
(***************************************************************************)
EXTENDS Naturals, Sequences, FiniteSets

CONSTANTS
  DymHubs, CelesHubs,     \* hubs by implementation of ibc.Hub
  DymRollApps, GmRollApps,\* rollapps by implementation of ibc.RollApp
  NumVals, NumFull,       \* [Chains -> Nat]: validators and full nodes
  RollUps,                \* <<hub, rollapp>> pairs given to AddRollUp
  Links,                  \* records given to AddLink
  BuildArgs,              \* the argument records Build may be called with
  MaxBuilds,              \* how many times Build is called on this Setup
  None

Hubs     == DymHubs \cup CelesHubs
RollApps == DymRollApps \cup GmRollApps
Chains   == Hubs \cup RollApps

\* The nodes of a chain: its validators first, then its full nodes.
NodesOf(c)    == {c} \X (1 .. NumVals[c] + NumFull[c])
ValsOf(c)     == {c} \X (1 .. NumVals[c])
Validator0(c) == <<c, 1>>
GetNode(c)    == IF NumFull[c] = 0 THEN <<c, 1>> ELSE <<c, NumVals[c] + 1>>
Nodes         == UNION {NodesOf(c) : c \in Chains}
RollAppsOf(h) == {r \in RollApps : <<h, r>> \in RollUps}

\* The (relayer, chain) pairs the links need, each once.
RelayerChains == UNION {{<<l.relayer, l.a>>, <<l.relayer, l.b>>} : l \in Links}

ASSUME ChainsAssumption ==
  /\ DymHubs \cap CelesHubs = {} /\ DymRollApps \cap GmRollApps = {}
  /\ Hubs \cap RollApps = {}
  /\ NumVals \in [Chains -> Nat \ {0}] /\ NumFull \in [Chains -> Nat]
  /\ RollUps \subseteq Hubs \X RollApps
  /\ \A l \in Links : l.a \in Chains /\ l.b \in Chains /\ l.a # l.b
  /\ None \notin Chains
  /\ BuildArgs \subseteq [redundant : Hubs \cup {None},  \* the hub that already runs
                          forked : BOOLEAN,  \* a genesis to fork the rollapps from
                          failExpected : BOOLEAN, skipPathCreation : BOOLEAN]
  /\ MaxBuilds \in Nat \ {0}

\* What a genesis file may contain.  "of" is the node an entry comes from;
\* entries that belong to a chain use its validator 0.
Entry(k, n)       == [kind |-> k, of |-> n]
Account(n)        == Entry("account", n)       \* a validator's genesis account
GenTx(n)          == Entry("gentx", n)         \* its collected genesis transaction
Faucet(c)         == Entry("faucet", <<c, 1>>) \* walletAmounts[c], the faucet
HubAccount(h)     == Entry("hub", <<h, 1>>)    \* hubgenesis.genesis_accounts
Consensus(n)      == Entry("consensus", n)     \* consensus.validators of rollkit
ForkedState(c)    == Entry("forked", <<c, 1>>) \* the content of a forked genesis
EntryKinds        == {"account", "gentx", "faucet", "hub", "consensus", "forked"}
Entries           == [kind : EntryKinds, of : Nodes]

Phases   == {"initialize", "wallets", "faucet", "configure", "hubs", "rollapps",
             "track", "keys", "codecs", "paths", "links"}
Returned == {"built", "failed", "panicked", "exited"}

VARIABLES
  pc,        \* where Build is, or how it returned
  builds,    \* calls of Build so far
  args,      \* the arguments of the call
  left,      \* what the current loop of Build still has to visit
  cur, plan, todo, err, \* the chain under work, its stages, the stage's items, an item failed
  genbz,     \* the genesis content Start or Configuration holds in memory
  genesis, gentx, keys, files, \* per node: genesis.json, config/gentx, keyring, metadata files
  box,       \* per node: its container
  seqKey, seqDir,       \* per rollapp: node of the sequencer key, node of the key directory
  registry,  \* <<hub, rollapp>> pairs registered on the hub
  walletsMade,          \* s.relayerWallets # nil
  configured, funded,   \* (relayer, chain) pairs: added with a key, given funds
  paths, linked         \* links whose path was generated, links created

chainVars == <<genbz, genesis, gentx, keys, files, box, seqKey, seqDir, registry>>
relayVars == <<walletsMade, configured, funded, paths, linked>>
workVars  == <<cur, plan, todo, err>>
vars      == <<pc, builds, args, left, workVars, chainVars, relayVars>>

\* How a hub of an earlier Build looks: same final genesis everywhere, running.
ExistingGenesis(c) ==
  (UNION {{Account(n), GenTx(n)} : n \in ValsOf(c)}) \cup {Faucet(c)}

IsExisting(n) == n[1] = args.redundant

Init ==
  /\ pc = "initialize" /\ builds = 1 /\ args \in BuildArgs /\ left = {}
  /\ cur = None /\ plan = <<>> /\ todo = Chains /\ err = FALSE
  /\ genbz = {}
  /\ genesis = [n \in Nodes |-> IF IsExisting(n) THEN ExistingGenesis(n[1]) ELSE {}]
  /\ gentx = [n \in Nodes |-> {}]
  /\ keys = [n \in Nodes |->
               (IF IsExisting(n) /\ n \in ValsOf(n[1]) THEN {"validator"} ELSE {})
               \cup (IF IsExisting(n) /\ n = GetNode(n[1]) THEN {"faucet"} ELSE {})]
  /\ files = {}
  /\ box = [n \in Nodes |-> IF IsExisting(n) THEN "running" ELSE "none"]
  /\ seqKey = [r \in RollApps |-> None] /\ seqDir = [r \in RollApps |-> None]
  /\ registry = {}
  /\ walletsMade = FALSE /\ configured = {} /\ funded = {} /\ paths = {} /\ linked = {}

-----------------------------------------------------------------------------
(* What a chain goes through. *)

\* How a Start gets to the genesis files of its nodes.
GenesisStages == <<"init", "collect", "wallets", "gentxs", "read", "write">>

\* CelesHub.Start is the Start of CosmosChain.
CelesHubStart == GenesisStages \o <<"create", "start", "wait">>

\* A mutant of DymHubStart: the hub's account in no rollapp.
DymHubStartNoAccounts == GenesisStages \o <<"create", "start", "register">>

\* DymHub.Start.  Its wait for blocks ignores the error, so it is no stage.
DymHubStart == GenesisStages \o <<"hubaccounts", "create", "start", "register">>

\* SetupRollAppWithExistHub, which only a DymHub implements.
SetupRollAppWithExistHub(h) == IF h \in DymHubs THEN <<"register">> ELSE <<"unimplemented">>

HubStages(h) ==
  CASE h = args.redundant -> SetupRollAppWithExistHub(h)
    [] h # args.redundant -> IF h \in DymHubs THEN DymHubStart ELSE CelesHubStart

\* Configuration.  A DymRollApp adds the wallets after the genesis was
\* written to every node, a GmRollApp before.
DymConfiguration == <<"init", "collect", "gentxs", "read", "write", "wallets", "sequencer">>
GmConfiguration  == <<"init", "collect", "wallets", "gentxs", "read", "write">>

\* Start of a rollapp.
DymRollAppStart == <<"create", "start">>
GmRollAppStart  == <<"create", "start", "wait">>

\* A mutant of Work: full nodes keep the genesis file they were made with.
WorkValidatorsOnly(c, stage) ==
  CASE stage \in {"init", "create", "start"} -> NodesOf(c)
    [] stage = "write" -> ValsOf(c)
    [] stage = "collect" -> ValsOf(c) \ {Validator0(c)}
    [] stage \in {"hubaccounts", "register"} -> RollAppsOf(c)
    [] OTHER -> {Validator0(c)}

\* The items of a stage's loop or errgroup.
Work(c, stage) ==
  CASE stage \in {"init", "write", "create", "start"} -> NodesOf(c)
    [] stage = "collect" -> ValsOf(c) \ {Validator0(c)}
    [] stage \in {"hubaccounts", "register"} -> RollAppsOf(c)
    [] OTHER -> {Validator0(c)}

Stage == IF cur = None THEN "none" ELSE plan[1]

\* Stages that are an errgroup: every goroutine runs to its end before Wait
\* reports an error.  The others are loops that return at the first error.
Concurrent == {"init", "create", "start"}

\* Item i of stage s is done, and it failed if ~ok.
Item(s, i, ok) ==
  /\ Stage = s /\ i \in todo
  /\ s \notin Concurrent => ~err
  /\ todo' = todo \ {i}
  /\ err' = (err \/ ~ok)
  /\ UNCHANGED <<pc, builds, args, left, cur, plan, relayVars>>

Add(f, n, S) == [f EXCEPT ![n] = @ \cup S]

-----------------------------------------------------------------------------
(* The stages.  Where several calls make one item, p counts those that      *)
(* succeeded.                                                               *)

\* Each validator of the loop in turn sets the rollapp's key directory to its
\* home.  The mutant has full nodes do so too.
LastNode(c)   == <<c, NumVals[c] + NumFull[c]>>
KeyDirNode(c) == <<c, NumVals[c]>>

\* InitFullNodeFiles, then on a validator key, genesis account and gentx.
InitNode(n) ==
  \E p \in 0 .. 4 :
    /\ Item("init", n, p = 4)
    /\ IF n \in ValsOf(cur)
       THEN /\ keys' = Add(keys, n, IF p > 1 THEN {"validator"} ELSE {})
            /\ genesis' = Add(genesis, n, IF p > 2 THEN {Account(n)} ELSE {})
            /\ gentx' = Add(gentx, n, IF p > 3 THEN {n} ELSE {})
       ELSE UNCHANGED <<keys, genesis, gentx>>
    /\ seqDir' = IF cur \in DymRollApps
                 THEN [seqDir EXCEPT ![cur] = KeyDirNode(cur)]
                 ELSE seqDir
    /\ UNCHANGED <<genbz, files, box, seqKey, registry>>

\* Account and gentx of validator n are brought to validator 0.
Collect(n) ==
  \E p \in 0 .. 2 :
    /\ p > 0 => "validator" \in keys[n]
    /\ Item("collect", n, p = 2)
    /\ genesis' = Add(genesis, Validator0(cur), IF p > 0 THEN {Account(n)} ELSE {})
    /\ gentx' = Add(gentx, Validator0(cur), IF p > 1 THEN {n} ELSE {})
    /\ UNCHANGED <<genbz, keys, files, box, seqKey, seqDir, registry>>

\* The faucet, and like it every additional wallet, goes to validator 0.
AddWallets(n) ==
  \E ok \in BOOLEAN :
    /\ Item("wallets", n, ok)
    /\ genesis' = Add(genesis, n, IF ok THEN {Faucet(cur)} ELSE {})
    /\ UNCHANGED <<genbz, gentx, keys, files, box, seqKey, seqDir, registry>>

CollectGentxs(n) ==
  \E ok \in BOOLEAN :
    /\ Item("gentxs", n, ok)
    /\ genesis' = Add(genesis, n, IF ok THEN {GenTx(m) : m \in gentx[n]} ELSE {})
    /\ UNCHANGED <<genbz, gentx, keys, files, box, seqKey, seqDir, registry>>

\* Validator 0's file, or the content to fork from, becomes the chain's genesis.
ReadGenesis(n) ==
  \E ok \in BOOLEAN :
    /\ Item("read", n, ok)
    /\ genbz' = IF args.forked /\ cur \in DymRollApps THEN {ForkedState(cur)} ELSE genesis[n]
    /\ UNCHANGED <<genesis, gentx, keys, files, box, seqKey, seqDir, registry>>

\* OverwriteGenesisFile; a GmRollApp's ModifyConsensusGenesis then names the
\* node's own key the only validator.
WriteGenesis(n) ==
  \E p \in 0 .. 2 :
    /\ p = 2 => cur \in GmRollApps
    /\ Item("write", n, p = (IF cur \in GmRollApps THEN 2 ELSE 1))
    /\ genesis' = IF p = 0 THEN genesis
                  ELSE [genesis EXCEPT ![n] = genbz \cup (IF p = 2 THEN {Consensus(n)} ELSE {})]
    /\ UNCHANGED <<genbz, gentx, keys, files, box, seqKey, seqDir, registry>>

\* show-sequencer on validator 0, then the metadata files into its home.
SetSequencer(n) ==
  \E p \in 0 .. 2 :
    /\ Item("sequencer", n, p = 2)
    /\ seqKey' = IF p > 0 THEN [seqKey EXCEPT ![cur] = n] ELSE seqKey
    /\ files' = IF p > 1 THEN files \cup {n} ELSE files
    /\ UNCHANGED <<genbz, genesis, gentx, keys, box, seqDir, registry>>

\* The hub has each of its rollapps put the hub's account in its genesis and
\* write validator 0's file to all its nodes, k of which succeed.  A GmRollApp
\* does nothing.
SetGenesisAccount(r) ==
  \E k \in 0 .. Cardinality(NodesOf(r)) :
    /\ Item("hubaccounts", r, r \in GmRollApps \/ NodesOf(r) = {r} \X (1 .. k))
    /\ genesis' = IF r \in DymRollApps
                  THEN [n \in Nodes |-> IF n \in {r} \X (1 .. k)
                                        THEN genesis[Validator0(r)] \cup {HubAccount(cur)}
                                        ELSE genesis[n]]
                  ELSE genesis
    /\ UNCHANGED <<genbz, gentx, keys, files, box, seqKey, seqDir, registry>>

CreateNodeContainer(n) ==
  \E ok \in BOOLEAN :
    /\ Item("create", n, ok)
    /\ box' = IF ok THEN [box EXCEPT ![n] = "created"] ELSE box
    /\ UNCHANGED <<genbz, genesis, gentx, keys, files, seqKey, seqDir, registry>>

\* SetPeers and StartContainer: the container may run and the node still
\* not answer its Status retries.
StartNode(n) ==
  \E p \in 0 .. 2 :
    /\ Item("start", n, p = 2)
    /\ box' = IF p > 0 THEN [box EXCEPT ![n] = "running"] ELSE box
    /\ UNCHANGED <<genbz, genesis, gentx, keys, files, seqKey, seqDir, registry>>

\* WaitForBlocks, and the stage that is not implemented.
Wait(n) == /\ \E ok \in BOOLEAN : Item("wait", n, ok)
           /\ UNCHANGED chainVars

Unimplemented(n) == Item("unimplemented", n, FALSE) /\ UNCHANGED chainVars

Running(c) == \A n \in NodesOf(c) : box[n] = "running"

\* The faucet can pay on chain c: its key is where SendFunds looks for it and
\* every node started with its account.
FaucetReady(c) ==
  /\ Running(c)
  /\ "faucet" \in keys[GetNode(c)]
  /\ \A n \in NodesOf(c) : Faucet(c) \in genesis[n]

\* CreateKeyWithKeyDir, SendFunds to the sequencer, RegisterRollAppToHub,
\* which reads the metadata from the key directory, RegisterSequencerToHub.
RegisterRollApp(r) ==
  \E p \in 0 .. 4 :
    /\ Item("register", r, p = 4)
    /\ p > 0 => seqDir[r] # None /\ "sequencer" \notin keys[seqDir[r]]
    /\ p > 1 => FaucetReady(cur)
    /\ p > 2 => seqDir[r] \in files
    /\ keys' = IF p > 0 THEN Add(keys, seqDir[r], {"sequencer"}) ELSE keys
    /\ registry' = IF p > 3 THEN registry \cup {<<cur, r>>} ELSE registry
    /\ UNCHANGED <<genbz, genesis, gentx, files, box, seqKey, seqDir>>

-----------------------------------------------------------------------------
(* Build's own steps. *)

\* Build goes on to phase p over the collection S.
Enter(p, S) == pc' = p /\ left' = S

\* An error of cs.Start is tolerated when it is expected.
StartFails(p) == args.failExpected /\ p \in {"hubs", "rollapps"}

\* The next stage of the chain under work, or its return to Build.  The hub
\* loop breaks after the redundant hub.
FinishStage ==
  /\ cur # None
  /\ todo = {} \/ (err /\ Stage \notin Concurrent)
  /\ err' = FALSE
  /\ IF ~err /\ Len(plan) > 1
     THEN /\ plan' = Tail(plan)
          /\ todo' = Work(cur, plan[2])
          /\ UNCHANGED <<pc, left, cur>>
     ELSE /\ cur' = None /\ plan' = <<>> /\ todo' = {}
          /\ IF ~err THEN Enter(pc, IF cur = args.redundant THEN {} ELSE left \ {cur})
             ELSE Enter(IF StartFails(pc) THEN "track" ELSE "failed", {})
  /\ UNCHANGED <<builds, args, chainVars, relayVars>>

\* Initialize of every chain, concurrently.
Initialize(c) ==
  /\ pc = "initialize" /\ c \in todo
  /\ todo' = todo \ {c}
  /\ \E ok \in BOOLEAN : err' = (err \/ ~ok)
  /\ UNCHANGED <<pc, builds, args, left, cur, plan, chainVars, relayVars>>

\* The faucet key of every chain but the redundant one, concurrently.
CreateFaucet(c) ==
  /\ pc = "faucet" /\ c \in todo
  /\ todo' = todo \ {c}
  /\ \E ok \in BOOLEAN : /\ keys' = Add(keys, GetNode(c), IF ok THEN {"faucet"} ELSE {})
                         /\ err' = (err \/ ~ok)
  /\ UNCHANGED <<pc, builds, args, left, cur, plan, relayVars>>
  /\ UNCHANGED <<genbz, genesis, gentx, files, box, seqKey, seqDir, registry>>

\* Wait of these two errgroups.
FinishGroup ==
  /\ pc \in {"initialize", "faucet"} /\ todo = {}
  /\ err' = FALSE
  /\ IF err THEN Enter("failed", {})
     ELSE IF pc = "initialize" THEN Enter("wallets", {}) ELSE Enter("configure", RollApps)
  /\ UNCHANGED <<builds, args, cur, plan, todo, chainVars, relayVars>>

\* A mutant: no panic.
GenerateRelayerWalletsAgain ==
  /\ pc = "wallets" /\ walletsMade' = TRUE
  /\ Enter("faucet", {}) /\ todo' = Chains \ {args.redundant}
  /\ UNCHANGED <<builds, args, cur, plan, err, chainVars, configured, funded, paths, linked>>

\* generateRelayerWallets.  The wallets stay in a keyring in memory.
GenerateRelayerWallets ==
  /\ pc = "wallets"
  /\ IF walletsMade THEN Enter("panicked", {}) /\ UNCHANGED <<todo, walletsMade>>
     ELSE /\ walletsMade' = TRUE
          /\ \/ Enter("faucet", {}) /\ todo' = Chains \ {args.redundant}
             \/ Enter("failed", {}) /\ UNCHANGED todo
  /\ UNCHANGED <<builds, args, cur, plan, err, chainVars, configured, funded, paths, linked>>

\* A chain is taken up by Configuration or by Start.
Begin(c) ==
  LET stages == CASE pc = "hubs" -> HubStages(c)
                  [] pc = "configure" -> IF c \in DymRollApps THEN DymConfiguration ELSE GmConfiguration
                  [] pc = "rollapps"  -> IF c \in DymRollApps THEN DymRollAppStart ELSE GmRollAppStart
  IN /\ pc \in {"configure", "hubs", "rollapps"} /\ cur = None /\ c \in left
     /\ cur' = c /\ plan' = stages /\ todo' = Work(c, stages[1])
     /\ UNCHANGED <<pc, builds, args, left, err, chainVars, relayVars>>

\* The phase that comes after a loop, and what it visits.
After ==
  [configure |-> <<"hubs", Hubs>>, hubs |-> <<"rollapps", RollApps>>, rollapps |-> <<"track", {}>>,
   keys |-> <<"codecs", {}>>, paths |-> <<"links", Links>>, links |-> <<"built", {}>>]

\* A loop over left is through.
FinishLoop ==
  /\ cur = None /\ left = {}
  /\ pc \in DOMAIN After /\ Enter(After[pc][1], After[pc][2])
  /\ UNCHANGED <<builds, args, workVars, chainVars, relayVars>>

TrackBlocks ==
  /\ pc = "track"
  /\ Enter("keys", RelayerChains) \/ Enter("failed", {})
  /\ UNCHANGED <<builds, args, workVars, chainVars, relayVars>>

\* A mutant: funds are sent before the chain is added.
FundFirst(rc) ==
  \E p \in 0 .. 3 :
    /\ pc = "keys" /\ rc \in left
    /\ configured' = IF p = 3 THEN configured \cup {rc} ELSE configured
    /\ funded' = IF p > 0 /\ FaucetReady(rc[2]) THEN funded \cup {rc} ELSE funded
    /\ IF p = 3 THEN Enter(pc, left \ {rc}) ELSE Enter("failed", {})
    /\ UNCHANGED <<builds, args, workVars, chainVars, walletsMade, paths, linked>>

\* configureRelayerKeys for one pair: AddChainConfiguration, AddKey, SendFunds.
ConfigureRelayer(rc) ==
  \E p \in 0 .. 3 :
    /\ pc = "keys" /\ rc \in left
    /\ p = 3 /\ ~args.failExpected => FaucetReady(rc[2])
    /\ configured' = IF p > 1 THEN configured \cup {rc} ELSE configured
    /\ funded' = IF p = 3 /\ ~args.failExpected THEN funded \cup {rc} ELSE funded
    /\ IF p = 3 THEN Enter(pc, left \ {rc}) ELSE Enter("failed", {})
    /\ UNCHANGED <<builds, args, workVars, chainVars, walletsMade, paths, linked>>

\* Each relayer's config.yaml is rewritten; log.Fatalf ends the process.
RewriteConfig ==
  /\ pc = "codecs"
  /\ \/ IF args.skipPathCreation THEN Enter("built", {}) ELSE Enter("paths", Links)
     \/ Enter("exited", {})
  /\ UNCHANGED <<builds, args, workVars, chainVars, relayVars>>

GeneratePath(l) ==
  /\ pc = "paths" /\ l \in left
  /\ \/ Enter(pc, left \ {l}) /\ paths' = paths \cup {l}
     \/ Enter("failed", {}) /\ UNCHANGED paths
  /\ UNCHANGED <<builds, args, workVars, chainVars, walletsMade, configured, funded, linked>>

\* Options are validated and the link is made, one link after the other.
LinkPath(l) ==
  /\ pc = "links" /\ l \in left
  /\ \/ /\ l \in paths /\ Running(l.a) /\ Running(l.b)
        /\ Enter(pc, left \ {l}) /\ linked' = linked \cup {l}
     \/ Enter("failed", {}) /\ UNCHANGED linked
  /\ UNCHANGED <<builds, args, workVars, chainVars, walletsMade, configured, funded, paths>>

\* The test calls Build once more on the same Setup.
BuildAgain ==
  /\ pc \in {"built", "failed"} /\ builds < MaxBuilds
  /\ builds' = builds + 1
  /\ Enter("initialize", {}) /\ todo' = Chains /\ err' = FALSE
  /\ UNCHANGED <<args, cur, plan, chainVars, relayVars>>

NodeStep(n) ==
  \/ InitNode(n) \/ Collect(n) \/ AddWallets(n) \/ CollectGentxs(n)
  \/ ReadGenesis(n) \/ WriteGenesis(n) \/ SetSequencer(n)
  \/ CreateNodeContainer(n) \/ StartNode(n) \/ Wait(n) \/ Unimplemented(n)

Next ==
  \/ \E n \in Nodes : NodeStep(n)
  \/ \E r \in RollApps : SetGenesisAccount(r) \/ RegisterRollApp(r)
  \/ FinishStage \/ FinishGroup \/ FinishLoop
  \/ \E c \in Chains : Initialize(c) \/ CreateFaucet(c) \/ Begin(c)
  \/ GenerateRelayerWallets \/ TrackBlocks \/ RewriteConfig
  \/ \E rc \in RelayerChains : ConfigureRelayer(rc)
  \/ \E l \in Links : GeneratePath(l) \/ LinkPath(l)
  \/ BuildAgain

Spec == Init /\ [][Next]_vars
-----------------------------------------------------------------------------
(* Properties. *)

\* Every variable stays in its domain; genesis entries, keyrings and
\* containers are those of declared nodes.
TypeOK ==
  /\ pc \in Phases \cup Returned
  /\ builds \in 1 .. MaxBuilds /\ args \in BuildArgs
  /\ cur \in Chains \cup {None}
  /\ err \in BOOLEAN
  /\ genbz \subseteq Entries
  /\ genesis \in [Nodes -> SUBSET Entries]
  /\ gentx \in [Nodes -> SUBSET Nodes]
  /\ keys \in [Nodes -> SUBSET {"validator", "faucet", "sequencer"}]
  /\ files \subseteq Nodes
  /\ box \in [Nodes -> {"none", "created", "running"}]
  /\ seqKey \in [RollApps -> Nodes \cup {None}]
  /\ seqDir \in [RollApps -> Nodes \cup {None}]
  /\ registry \subseteq RollUps
  /\ walletsMade \in BOOLEAN
  /\ configured \subseteq RelayerChains /\ funded \subseteq configured
  /\ paths \subseteq Links /\ linked \subseteq paths

\* The nodes of a chain that run were all started from one genesis file,
\* whichever of Configuration, Start and the hub's Start wrote it last.  What a
\* DymRollApp adds last, the faucet, is in validator 0's file only if no hub
\* started by Build copied that file to the other nodes; and every node of a
\* GmRollApp is its own only validator.
CopiedByHub(c) == \E h \in DymHubs \ {args.redundant} : c \in RollAppsOf(h) /\ Running(h)

GenesisAgreement ==
  \A c \in Chains : \A n, m \in NodesOf(c) :
    box[n] = "running" /\ box[m] = "running" =>
      \A e \in genesis[n] \ genesis[m] :
        \/ c \in DymRollApps /\ ~CopiedByHub(c) /\ e = Faucet(c)
        \/ c \in GmRollApps /\ e = Consensus(n)

\* Nobody rewrites the genesis file of a node that already runs: a hub that
\* adds its account to a rollapp's genesis does so before that rollapp starts.
GenesisFrozen ==
  [][\A n \in Nodes : box[n] = "running" => genesis'[n] = genesis[n]]_vars

\* A rollapp only runs after the hubs ("After Hub chain started, we could start
\* other chain"), and it and its sequencer are registered on those of its hubs
\* that are DymHubs, whose account is in the genesis of its nodes if it is a
\* DymRollApp.  An existing hub is none of Start's, and ends its loop over the
\* hubs: then other hubs may be left out.
RollAppKnownToHub ==
  \A r \in RollApps : \A n \in NodesOf(r) : box[n] = "running" =>
    \A h \in Hubs :
      /\ Running(h) \/ args.redundant \notin {None, h}
      /\ h \in DymHubs /\ r \in RollAppsOf(h) /\ Running(h) =>
           /\ <<h, r>> \in registry
           /\ r \in DymRollApps /\ h # args.redundant => HubAccount(h) \in genesis[n]

\* The faucet can pay wherever Build is about to draw on it: on a hub that
\* registers rollapps and on the chains whose relayer keys still need funds.  An
\* existing hub upsets the latter, as Start may leave another hub out; and the
\* other nodes of a DymRollApp know the faucet only if a hub copied the genesis.
FaucetEverywhere(c) == c \in DymRollApps => CopiedByHub(c) \/ NodesOf(c) = {Validator0(c)}

FaucetReadyWhenUsed ==
  /\ Stage = "register" => FaucetReady(cur)
  /\ pc = "keys" /\ ~args.failExpected /\ args.redundant = None =>
       \A rc \in left : FaucetEverywhere(rc[2]) => FaucetReady(rc[2])

\* The key directory a hub is about to register a DymRollApp from is the home
\* of the node whose key is the rollapp's sequencer, and holds the metadata, if
\* the rollapp has one validator.
SequencerLocation ==
  Stage = "register" =>
    \A r \in todo \cap DymRollApps : NumVals[r] = 1 => seqDir[r] = seqKey[r] /\ seqDir[r] \in files

\* When links are made, every link still to be made has its path and joins
\* two running chains whose keys on the link's relayer have funds.
LinkPrerequisites ==
  pc = "links" /\ ~args.failExpected =>
    \A l \in left : /\ l \in paths
                    /\ Running(l.a) /\ Running(l.b)
                    /\ {<<l.relayer, l.a>>, <<l.relayer, l.b>>} \subseteq funded

\* What the later phases of Build take for granted of the earlier ones holds,
\* whatever failed or was skipped on the way.
PhasesReady == FaucetReadyWhenUsed /\ SequencerLocation /\ LinkPrerequisites

\* "Calling Build more than once will cause a panic": after a Build that
\* succeeded, a further call gets no further than the relayer wallets.
BuiltOnce ==
  [](pc = "built" => [](pc \in {"built", "initialize", "wallets", "failed", "panicked"}))

\* Neither a later phase nor a second Build redoes what already is in use.
NothingRedone == GenesisFrozen /\ BuiltOnce

=============================================================================
