----------------------------- MODULE ChainNodes -----------------------------
(***************************************************************************)
(* The long-running containers of one CosmosChain, its nodes and their     *)
(* sidecars, while a test starts, stops, restarts and extends the chain    *)
(* and other goroutines query it.                                          *)
(*                                                                         *)
(* An operation runs one goroutine per node (or sidecar); each has a list  *)
(* of docker calls still to make and gives up at the first that fails.     *)
(* FindTxs holds findTxMu while it queries, StartAllNodes while it works.  *)
(***************************************************************************)
EXTENDS Naturals, Sequences, FiniteSets

CONSTANTS
  Configs,  \* the chain configurations to consider
  MaxOps,   \* bound on the operations of the test
  Clients,  \* goroutines that query the chain
  None

\* A configuration: validators and full nodes, whether every node has a
\* preStart sidecar, chain-level sidecars, full nodes the test may add, and
\* whether it is a "rollapp-gm" chain.
ConfigType == [vals : Nat \ {0}, full : Nat, side : BOOLEAN, sides : Nat,
               adds : Nat, gm : BOOLEAN]

ASSUME NodesAssumption ==
  /\ Configs \subseteq ConfigType /\ MaxOps \in Nat
  /\ None \notin Clients \cup {"test"} /\ "test" \notin Clients

VARIABLES
  cfg,
  wanted, full,  \* numFullNodes, Len(c.FullNodes)
  box,           \* the container of every process
  run, client,   \* per node: its latest container, the one node.Client talks to
  cmd,           \* per node: the container has the command Start gives it
  op, ops,       \* the test's operation in progress, operations so far
  todo,          \* docker calls each goroutine of the operation still makes
  err, last,     \* a goroutine failed; the last operation and how it ended
  started,       \* Start has returned without error
  lock,          \* holder of findTxMu
  at, node       \* per client: where its query is, and the node it picked

opVars     == <<op, ops, todo, err, last, started>>
clientVars == <<at, node>>
vars       == <<cfg, wanted, full, box, run, client, cmd, opVars, lock, clientVars>>

\* Processes are pairs of a kind and an index.
Val(i)    == <<"val", i>>
Full(i)   == <<"fn", i>>
SideOf(n) == <<IF n[1] = "val" THEN "val-side" ELSE "fn-side", n[2]>>
AllNodes  == UNION {{Val(i) : i \in 0 .. c.vals - 1}
                    \cup {Full(i) : i \in 0 .. c.full + c.adds - 1} : c \in Configs}
ChainSides == UNION {{<<"side", i>> : i \in 0 .. c.sides - 1} : c \in Configs}
Processes == AllNodes \cup {SideOf(n) : n \in AllNodes} \cup ChainSides

\* Docker's name for a process: the sidecar of a node is named after the
\* node's index alone, be it a validator or a full node.
DockerName(p) == IF p[1] = "fn-side" THEN <<"val-side", p[2]>> ELSE p

Nodes == {Val(i) : i \in 0 .. cfg.vals - 1} \cup {Full(i) : i \in 0 .. full - 1}
Sides(n) == IF cfg.side THEN {SideOf(n)} ELSE {}
\* A mutant of GetNode: the full node added last.
GetLastNode == IF full > 0 THEN Full(full - 1) ELSE Val(0)
GetNode == IF full > 0 THEN Full(0) ELSE Val(0)

Init ==
  /\ cfg \in Configs
  /\ wanted = cfg.full /\ full = cfg.full
  /\ box = [p \in Processes |-> "none"]
  /\ run = [n \in AllNodes |-> 0] /\ client = [n \in AllNodes |-> 0]
  /\ cmd = [n \in AllNodes |-> FALSE]
  /\ op = "none" /\ ops = 0 /\ todo = [p \in Processes |-> <<>>]
  /\ err = FALSE /\ last = <<"none", FALSE>> /\ started = FALSE
  /\ lock = None
  /\ at = [k \in Clients |-> "idle"] /\ node = [k \in Clients |-> None]

\* Nothing happens any more after a panic.
Alive == \A k \in Clients : at[k] # "panicked"

-----------------------------------------------------------------------------
(* What the goroutines of an operation do. *)

Do(what, p) == <<what, p>>
With(n, what) == IF cfg.side THEN <<Do(what, SideOf(n))>> ELSE <<>>

(* A mutant: the sidecars started last.                                     *)
StartNodeFirst(n)   == <<Do("start", n)>> \o With(n, "ensure")

\* Node.StartContainer: preStart sidecars that do not run, then the node.
StartNode(n)  == With(n, "ensure") \o <<Do("start", n)>>
\* Node.StopContainer, RemoveContainer: sidecars first.
StopNode(n)   == With(n, "stop") \o <<Do("stop", n)>>
RemoveNode(n) == With(n, "remove") \o <<Do("remove", n)>>

Calls(o, p) ==
  CASE o = "Create"          -> <<Do("create", p)>>
    [] o = "Start"           -> StartNode(p)
    [] o = "StopAllNodes"    -> StopNode(p) \o RemoveNode(p)
    [] o \in {"StartAllNodes", "AddFullNodes"} -> <<Do("create", p)>> \o StartNode(p)
    [] o = "StopAllSidecars" -> <<Do("stop", p), Do("remove", p)>>
    [] o = "StartAllSidecars" -> <<Do("ensure", p)>>

Goroutines(o, S) == [p \in Processes |-> IF p \in S THEN Calls(o, p) ELSE <<>>]

\* The goroutine of p has made its first call; on an error it returns.
Made(p, ok) ==
  /\ todo' = [todo EXCEPT ![p] = IF ok THEN Tail(@) ELSE <<>>]
  /\ err' = (err \/ ~ok)
  /\ UNCHANGED <<cfg, wanted, full, op, ops, last, started, lock, clientVars>>

NameFree(p) == \A q \in Processes : DockerName(q) = DockerName(p) => box[q] = "none"

First(p, what) == Alive /\ todo[p] # <<>> /\ todo[p][1][1] = what
Target(p) == todo[p][1][2]

\* CreateNodeContainer gives a rollapp-gm node the command it is passed, and
\* only Start passes one.
CreateContainer(p) ==
  /\ First(p, "create")
  /\ LET q == Target(p) IN
       \/ /\ NameFree(q)
          /\ box' = [box EXCEPT ![q] = "created"]
          /\ IF q \in AllNodes
             THEN /\ run' = [run EXCEPT ![q] = @ + 1]
                  /\ cmd' = [cmd EXCEPT ![q] = op = "Create" \/ ~cfg.gm]
             ELSE UNCHANGED <<run, cmd>>
          /\ Made(p, TRUE)
       \/ Made(p, FALSE) /\ UNCHANGED <<box, run, cmd>>
  /\ UNCHANGED client

\* A mutant: a node that has a client keeps it.
StartKeepsClient(p) ==
  /\ First(p, "start") /\ box[Target(p)] # "none"
  /\ LET q == Target(p) IN
       /\ box' = [box EXCEPT ![q] = "running"]
       /\ client' = IF q \in AllNodes /\ client[q] = 0 THEN [client EXCEPT ![q] = run[q]] ELSE client
  /\ Made(p, TRUE)
  /\ UNCHANGED <<run, cmd>>

\* A node gets its client once the container runs; then its Status calls may
\* still fail.
StartContainer(p) ==
  /\ First(p, "start")
  /\ LET q == Target(p) IN
       \/ /\ box[q] # "none"
          /\ box' = [box EXCEPT ![q] = "running"]
          /\ \/ /\ client' = IF q \in AllNodes THEN [client EXCEPT ![q] = run[q]] ELSE client
                /\ \E ok \in BOOLEAN : Made(p, ok)
             \/ Made(p, FALSE) /\ UNCHANGED client
       \/ Made(p, FALSE) /\ UNCHANGED <<box, client>>
  /\ UNCHANGED <<run, cmd>>

\* Docker does not know a container that was never created or is removed.
StopContainer(p) ==
  /\ First(p, "stop")
  /\ LET q == Target(p) IN
       \/ /\ box[q] # "none"
          /\ box' = [box EXCEPT ![q] = IF @ = "running" THEN "stopped" ELSE @]
          /\ Made(p, TRUE)
       \/ Made(p, FALSE) /\ UNCHANGED box
  /\ UNCHANGED <<run, client, cmd>>

RemoveContainer(p) ==
  /\ First(p, "remove")
  /\ LET q == Target(p) IN
       \/ box' = [box EXCEPT ![q] = "none"] /\ Made(p, TRUE)
       \/ Made(p, FALSE) /\ UNCHANGED box
  /\ UNCHANGED <<run, client, cmd>>

\* Running is asked first; a process that does not run, or of which docker does
\* not answer, is created and started.
EnsureRunning(p) ==
  /\ First(p, "ensure")
  /\ LET q == Target(p) IN
       \/ /\ box[q] = "running"
          /\ todo' = [todo EXCEPT ![p] = Tail(@)]
       \/ todo' = [todo EXCEPT ![p] = <<Do("create", q), Do("start", q)>> \o Tail(@)]
  /\ UNCHANGED <<cfg, wanted, full, box, run, client, cmd, op, ops, err, last, started, lock, clientVars>>

DockerCall(p) ==
  \/ CreateContainer(p) \/ StartContainer(p) \/ StopContainer(p)
  \/ RemoveContainer(p) \/ EnsureRunning(p)

-----------------------------------------------------------------------------
(* The operations. *)

\* The test calls operation o, which works on the processes S.  All but Start
\* "should only be used if the chain has previously been started with .Start".
Call(o, S) ==
  /\ Alive /\ op = "none" /\ ops < MaxOps
  /\ op' = o /\ ops' = ops + 1 /\ err' = FALSE /\ UNCHANGED <<last, started>>
  /\ todo' = Goroutines(o, S)
  /\ UNCHANGED <<cfg, box, run, client, cmd, clientVars>>

\* Start creates all containers before it starts the first.
CallStart == /\ ops = 0 /\ Call("Create", Nodes)
             /\ UNCHANGED <<wanted, full, lock>>
ThenStart ==
  /\ Alive /\ op = "Create" /\ \A p \in Processes : todo[p] = <<>>
  /\ ~err
  /\ op' = "Start" /\ todo' = Goroutines("Start", Nodes)
  /\ UNCHANGED <<cfg, wanted, full, box, run, client, cmd, ops, err, last, started, lock, clientVars>>

StopAllNodes    == /\ started /\ Call("StopAllNodes", Nodes)
                   /\ UNCHANGED <<wanted, full, lock>>
StopAllSidecars == /\ started /\ Call("StopAllSidecars", {s \in ChainSides : s[2] < cfg.sides})
                   /\ UNCHANGED <<wanted, full, lock>>

\* A mutant: findTxMu is not taken.
StartAllNodesUnlocked ==
  /\ started /\ Call("StartAllNodes", Nodes) /\ UNCHANGED <<wanted, full, lock>>

\* "prevent client calls during this time": findTxMu is held throughout.
StartAllNodes ==
  /\ started /\ lock = None /\ lock' = "test"
  /\ Call("StartAllNodes", Nodes) /\ UNCHANGED <<wanted, full>>
StartAllSidecars ==
  /\ started /\ lock = None /\ lock' = "test"
  /\ Call("StartAllSidecars", {s \in ChainSides : s[2] < cfg.sides})
  /\ UNCHANGED <<wanted, full>>

\* A mutant: numFullNodes is not updated.
AddFullNodesUncounted ==
  /\ started /\ wanted < cfg.full + cfg.adds /\ lock = None
  /\ full' = wanted + 1 /\ Call("AddFullNodes", {Full(wanted)})
  /\ UNCHANGED <<wanted, lock>>

\* numFullNodes grows first; initializeNodes may fail.  The new nodes are
\* published before their containers exist.
AddFullNodes ==
  /\ started /\ wanted < cfg.full + cfg.adds /\ lock = None
  /\ wanted' = wanted + 1
  /\ \/ full' = wanted' /\ Call("AddFullNodes", {Full(wanted)})
     \/ /\ Alive /\ op = "none" /\ ops < MaxOps /\ ops' = ops + 1
        /\ last' = <<"AddFullNodes", FALSE>>
        /\ UNCHANGED <<cfg, full, box, run, client, cmd, op, todo, err, started, clientVars>>
  /\ UNCHANGED lock

\* A mutant: findTxMu is not given back.
ReturnLocked ==
  /\ Alive /\ op # "none" /\ \A p \in Processes : todo[p] = <<>>
  /\ op = "Create" => err
  /\ op' = "none" /\ last' = <<op, ~err>>
  /\ started' = (started \/ (op = "Start" /\ ~err))
  /\ UNCHANGED <<cfg, wanted, full, box, run, client, cmd, ops, todo, err, lock, clientVars>>

\* All goroutines have returned, and the operation does.
Return ==
  /\ Alive /\ op # "none" /\ \A p \in Processes : todo[p] = <<>>
  /\ op = "Create" => err
  /\ op' = "none" /\ last' = <<op, ~err>>
  /\ started' = (started \/ (op = "Start" /\ ~err))
  /\ lock' = IF lock = "test" THEN None ELSE lock
  /\ UNCHANGED <<cfg, wanted, full, box, run, client, cmd, ops, todo, err, clientVars>>

-----------------------------------------------------------------------------
(* The other goroutines.  They begin when Start has returned without error, *)
(* as the ones of TrackBlocks do.                                           *)

Unchanged == UNCHANGED <<cfg, wanted, full, box, run, client, cmd, opVars>>

\* getFullNode, which takes findTxMu for a moment.
PickNode(k) ==
  /\ Alive /\ at[k] = "idle" /\ lock = None
  /\ started
  /\ node' = [node EXCEPT ![k] = GetNode]
  /\ at' = [at EXCEPT ![k] = "picked"]
  /\ Unchanged /\ UNCHANGED lock

\* FindTxs goes on to take findTxMu again, and queries.
LockQuery(k) ==
  /\ Alive /\ at[k] = "picked" /\ lock = None /\ lock' = k
  /\ at' = [at EXCEPT ![k] = "query"]
  /\ Unchanged /\ UNCHANGED node

\* The two requests are made in goroutines of their own: without a client their
\* panic ends the process.
FindTxs(k) ==
  /\ Alive /\ at[k] = "query" /\ lock = k
  /\ IF client[node[k]] > 0
     THEN lock' = None /\ at' = [at EXCEPT ![k] = "idle"]
     ELSE at' = [at EXCEPT ![k] = "panicked"] /\ UNCHANGED lock
  /\ Unchanged /\ UNCHANGED node

OpStep == (\E p \in Processes : DockerCall(p)) \/ ThenStart \/ Return
ClientStep(k) == PickNode(k) \/ LockQuery(k) \/ FindTxs(k)

Next ==
  \/ \E p \in Processes : DockerCall(p)
  \/ CallStart \/ ThenStart \/ Return
  \/ StopAllNodes \/ StartAllNodes \/ AddFullNodes \/ StopAllSidecars \/ StartAllSidecars
  \/ \E k \in Clients : ClientStep(k)

Spec == Init /\ [][Next]_vars

\* Docker calls and queries take finite time; findTxMu is not handed past a
\* goroutine for ever.
FairSpec ==
  /\ Spec /\ WF_vars(OpStep)
  /\ \A k \in Clients : WF_vars(FindTxs(k)) /\ SF_vars(LockQuery(k))
-----------------------------------------------------------------------------
(* Properties. *)

\* Every variable stays in its domain.
TypeOK ==
  /\ cfg \in Configs /\ full <= wanted /\ wanted <= cfg.full + cfg.adds
  /\ box \in [Processes -> {"none", "created", "running", "stopped"}]
  /\ \A n \in AllNodes : client[n] <= run[n] /\ run[n] <= MaxOps
  /\ cmd \in [AllNodes -> BOOLEAN]
  /\ op \in {"none", "Create", "Start", "StopAllNodes", "StartAllNodes", "AddFullNodes",
             "StopAllSidecars", "StartAllSidecars"}
  /\ ops \in 0 .. MaxOps /\ err \in BOOLEAN /\ started \in BOOLEAN
  /\ lock \in Clients \cup {None, "test"}
  /\ at \in [Clients -> {"idle", "picked", "query", "panicked"}]
  /\ node \in [Clients -> AllNodes \cup {None}]

\* "prevent client calls during this time": while StartAllNodes replaces the
\* containers, no FindTxs query is under way.
NoQueryDuringRestart ==
  op \in {"StartAllNodes", "StartAllSidecars"} => \A k \in Clients : at[k] # "query"

\* FindTxs never reaches for the client of a node that has none, although
\* nodes are published by AddFullNodes before they are started.  This takes a
\* full node from the beginning: one added first is queried without a client.
QueryHasClient ==
  cfg.full > 0 => \A k \in Clients : at[k] = "query" => client[node[k]] > 0

\* A node's container only starts when the node's preStart sidecars run.
PreStartFirst ==
  \A n \in AllNodes : box[n] # "running" /\ box'[n] = "running"
    => \A s \in Sides(n) : box[s] = "running"

\* After a start or restart that returned no error all nodes run what Start
\* runs, except that a restart of a rollapp-gm chain gives none of its nodes a
\* command, and every client talks to the container that runs, not to a removed
\* one.
RestartComplete ==
  op = "none" /\ last \in {<<"Start", TRUE>>, <<"StartAllNodes", TRUE>>} =>
    \A n \in Nodes : /\ box[n] = "running" /\ client[n] = run[n]
                     /\ cmd[n] <=> ~(cfg.gm /\ last[1] = "StartAllNodes")

\* Starts happen in order, and one that is reported as done is.
NodesStart == [][PreStartFirst /\ RestartComplete']_vars

\* Every operation that has begun returns, whatever fails, and every FindTxs that
\* has picked its node: it does not wait for findTxMu for ever, unless a query
\* without a client ends the process.
AllReturn ==
  /\ op # "none" ~> (op = "none" \/ ~Alive)
  /\ \A k \in Clients : at[k] = "picked" ~> (at[k] = "idle" \/ ~Alive)
=============================================================================
