--------------------------- MODULE RelayerCommands ---------------------------
(***************************************************************************)
(* relayer, relayer/rly and ibc: the commands of a DockerRelayer, each run *)
(* in a container of its own (module DockerJobs) and reported (module      *)
(* Reporter), and GetTransferChannel, which puts three of them together.   *)
(*                                                                         *)
(* All commands work on the relayer's home directory, which outlives a     *)
(* test, and on the source chain, whose clients, connections and channels  *)
(* are listed in the order they were made.  When docker fails or time is   *)
(* up, the container runs on, and the command may take effect after its    *)
(* caller has been told of an error.                                       *)
(***************************************************************************)
EXTENDS Naturals, Sequences, FiniteSets

CONSTANTS
  Callers,   \* goroutines that use the relayer
  Dsts,      \* chains the source chain may be linked with
  CallsOf,   \* [Callers -> the <<operation, chain>> it may call]
  MaxCalls,  \* [Callers -> bound on its calls]
  MaxMade,   \* bound on clients, connections and channels, each
  None

ASSUME CommandsAssumption ==
  /\ IsFiniteSet(Dsts) /\ None \notin Dsts /\ MaxCalls \in [Callers -> Nat] /\ MaxMade \in Nat

\* The stages of what each operation has rly do.
AddChainConfiguration == <<"chain">>
AddKey                == <<"key">>
RestoreKey            == <<"key">>
GeneratePath          == <<"path">>
UpdatePath            == <<"filter">>
UpdateClients         == <<"update">>
Flush                 == <<"flush">>
CreateClients         == <<"client">>
CreateConnections     == <<"connection">>
CreateConnectionsWithNumberOfRetries == <<"connection">>
CreateChannel         == <<"channel">>
LinkPath              == <<"client", "connection", "channel">>
GetClients            == <<"clients">>
GetConnections        == <<"connections">>
GetChannels           == <<"channels">>

StagesOf ==
  [AddChainConfiguration |-> AddChainConfiguration, AddKey |-> AddKey, RestoreKey |-> RestoreKey,
   GeneratePath |-> GeneratePath, UpdatePath |-> UpdatePath, UpdateClients |-> UpdateClients,
   Flush |-> Flush, CreateClients |-> CreateClients, CreateConnections |-> CreateConnections,
   CreateConnectionsWithNumberOfRetries |-> CreateConnectionsWithNumberOfRetries,
   CreateChannel |-> CreateChannel, LinkPath |-> LinkPath,
   GetClients |-> GetClients, GetConnections |-> GetConnections, GetChannels |-> GetChannels]

Operations == DOMAIN StagesOf \cup {"GetTransferChannel"}

ASSUME CallsAssumption == CallsOf \in [Callers -> SUBSET (Operations \X Dsts)]

VARIABLES
  made,     \* NewCosmosRelayer: "no", "yes", or it panicked
  config,   \* the home directory has a configuration
  rly,      \* what it has: chains, the key of each, the paths
  net,      \* the source chain's clients, connections and channels
  wallets,  \* r.wallets
  call,     \* [Callers -> the call under way, or the last one]
  calls,    \* [Callers -> number of its calls]
  late      \* commands that run on without a caller

vars == <<made, config, rly, net, wallets, call, calls, late>>

NoCommand == [op |-> "none", dst |-> None, key |-> None, todo |-> <<>>, failed |-> FALSE, lines |-> 0]
NoCall    == [op |-> "none", pc |-> "idle", cmd |-> NoCommand, res |-> "none", found |-> 0, answer |-> 0]
NoPath    == [client |-> 0, connection |-> 0]

Init ==
  /\ made = "no" /\ config \in BOOLEAN
  /\ rly = [chains |-> {}, keys |-> [d \in Dsts |-> None], paths |-> [d \in {} |-> NoPath]]
  /\ net = [clients |-> <<>>, connections |-> <<>>, channels |-> <<>>]
  /\ wallets = [d \in Dsts |-> None]
  /\ call = [c \in Callers |-> NoCall] /\ calls = [c \in Callers |-> 0]
  /\ late = {}

\* What a Build has given the relayer when it ended or failed: chains with
\* their keys one after the other, then the paths, then the links.
Injective(s) == \A i, j \in DOMAIN s : s[i] = s[j] => i = j
Linkings == {s \in UNION {[1 .. n -> Dsts] : n \in 0 .. Cardinality(Dsts)} : Injective(s)}

\* A mutant: the paths are taught before the chains.
ProgressPathsFirst ==
  {p \in [chains : SUBSET Dsts, keys : SUBSET Dsts, paths : SUBSET Dsts, linked : Linkings] :
     /\ p.keys \subseteq p.chains /\ p.linked # <<>> => p.keys = Dsts /\ p.paths = Dsts}

Progress ==
  {p \in [chains : SUBSET Dsts, keys : SUBSET Dsts, paths : SUBSET Dsts, linked : Linkings] :
     /\ p.keys \subseteq p.chains /\ Cardinality(p.chains \ p.keys) <= 1
     /\ p.paths # {} => p.keys = Dsts
     /\ p.linked # <<>> => p.paths = Dsts}

\* NewDockerRelayer: the image, the volume and its owner, and rly config init,
\* which refuses a home that has a configuration.  NewCosmosRelayer panics with
\* its error.  Then Setup.Build (module Bootstrap) configures the relayer.
NewDockerRelayer ==
  /\ made = "no"
  /\ \/ /\ ~config /\ made' = "yes" /\ config' = TRUE
        /\ \E p \in Progress :
             LET n == DOMAIN p.linked
                 Link(d) == IF \E i \in n : p.linked[i] = d THEN CHOOSE i \in n : p.linked[i] = d ELSE 0
                 Keys == [d \in Dsts |-> IF d \in p.keys THEN "setup" ELSE None]
             IN /\ net' = [clients |-> p.linked, connections |-> [i \in n |-> i],
                           channels |-> [i \in n |-> [connection |-> i, port |-> "transfer"]]]
                /\ rly' = [chains |-> p.chains, keys |-> Keys,
                           paths |-> [d \in p.paths |-> [client |-> Link(d), connection |-> Link(d)]]]
                /\ wallets' = Keys
     \/ made' = "panicked" /\ config' \in {config, TRUE} /\ UNCHANGED <<rly, net, wallets>>
  /\ UNCHANGED <<call, calls, late>>

-----------------------------------------------------------------------------
(* rly, in its container. *)

AddsChain(d) ==
  /\ d \notin rly.chains /\ rly' = [rly EXCEPT !.chains = @ \cup {d}] /\ UNCHANGED net

AddsKey(d, k) ==
  /\ d \in rly.chains /\ rly.keys[d] = None
  /\ rly' = [rly EXCEPT !.keys[d] = k] /\ UNCHANGED net

AddsPath(d) ==
  /\ d \in rly.chains \ DOMAIN rly.paths
  /\ rly' = [rly EXCEPT !.paths = [e \in DOMAIN @ \cup {d} |-> IF e = d THEN NoPath ELSE @[e]]]
  /\ UNCHANGED net

\* A client, a connection, a channel is made, or the path's own is used.
MakesClient(d) ==
  /\ d \in DOMAIN rly.paths
  /\ \/ rly.paths[d].client # 0 /\ UNCHANGED <<rly, net>>
     \/ /\ rly.paths[d].client = 0 /\ Len(net.clients) < MaxMade
        /\ net' = [net EXCEPT !.clients = Append(@, d)]
        /\ rly' = [rly EXCEPT !.paths[d].client = Len(net.clients) + 1]

MakesConnection(d) ==
  /\ d \in DOMAIN rly.paths /\ rly.paths[d].client # 0
  /\ \/ rly.paths[d].connection # 0 /\ UNCHANGED <<rly, net>>
     \/ /\ rly.paths[d].connection = 0 /\ Len(net.connections) < MaxMade
        /\ net' = [net EXCEPT !.connections = Append(@, rly.paths[d].client)]
        /\ rly' = [rly EXCEPT !.paths[d].connection = Len(net.connections) + 1]

MakesChannel(d) ==
  /\ d \in DOMAIN rly.paths /\ rly.paths[d].connection # 0 /\ UNCHANGED rly
  /\ \E p \in {"transfer", "other"} :
       LET c == [connection |-> rly.paths[d].connection, port |-> p]
       IN \/ \E i \in DOMAIN net.channels : net.channels[i] = c /\ UNCHANGED net
          \/ /\ \A i \in DOMAIN net.channels : net.channels[i] # c
             /\ Len(net.channels) < MaxMade /\ net' = [net EXCEPT !.channels = Append(@, c)]

\* A handshake that fails may leave on the chain what the path does not know of.
LeavesClient(d) ==
  /\ d \in DOMAIN rly.paths /\ Len(net.clients) < MaxMade
  /\ net' = [net EXCEPT !.clients = Append(@, d)] /\ UNCHANGED rly

LeavesConnection(d) ==
  /\ d \in DOMAIN rly.paths /\ rly.paths[d].client # 0 /\ Len(net.connections) < MaxMade
  /\ net' = [net EXCEPT !.connections = Append(@, rly.paths[d].client)] /\ UNCHANGED rly

Lines(s) == CASE s = "clients" -> Len(net.clients) [] s = "connections" -> Len(net.connections)
              [] s = "channels" -> Len(net.channels) [] OTHER -> 0

Stage(m) ==
  LET s == Head(m.todo) IN
  CASE s = "chain"      -> AddsChain(m.dst)
    [] s = "key"        -> AddsKey(m.dst, m.key)
    [] s = "path"       -> AddsPath(m.dst)
    [] s = "client"     -> MakesClient(m.dst)
    [] s = "connection" -> MakesConnection(m.dst)
    [] s = "channel"    -> MakesChannel(m.dst)
    [] OTHER            -> UNCHANGED <<rly, net>>

StageFails(m) ==
  \/ UNCHANGED <<rly, net>>
  \/ Head(m.todo) = "client" /\ LeavesClient(m.dst)
  \/ Head(m.todo) = "connection" /\ LeavesConnection(m.dst)

Busy(m) == m.todo # <<>> /\ ~m.failed
Changes(m) == Head(m.todo) \in {"chain", "key", "path", "client", "connection", "channel"}
Onward(m)  == [m EXCEPT !.todo = Tail(@), !.lines = Lines(Head(m.todo))]
Stopped(m) == [m EXCEPT !.failed = TRUE]

Outside == UNCHANGED <<made, config, wallets, calls>>

Work(c) ==
  /\ call[c].pc = "exec" /\ Busy(call[c].cmd)
  /\ \/ Stage(call[c].cmd) /\ call' = [call EXCEPT ![c].cmd = Onward(@)]
     \/ StageFails(call[c].cmd) /\ call' = [call EXCEPT ![c].cmd = Stopped(@)]
  /\ Outside /\ UNCHANGED late

WorkLate(m) ==
  /\ m \in late
  /\ \/ Stage(m) /\ late' = (late \ {m}) \cup (IF Busy(Onward(m)) THEN {Onward(m)} ELSE {})
     \/ StageFails(m) /\ late' = late \ {m}
  /\ Outside /\ UNCHANGED call

-----------------------------------------------------------------------------
(* The calls of a caller. *)

Idle(c) == call[c].pc = "idle"

\* A generated key is a new one; a restored one is the mnemonic's.
KeyOf(op, c) == IF op = "RestoreKey" THEN "mnemonic" ELSE <<c, calls[c]>>

CommandOf(op, d, k) == [NoCommand EXCEPT !.op = op, !.dst = d, !.key = k, !.todo = StagesOf[op]]

Call(c, op, d) ==
  /\ made = "yes" /\ Idle(c) /\ calls[c] < MaxCalls[c]
  /\ calls' = [calls EXCEPT ![c] = @ + 1]
  /\ call' = [call EXCEPT ![c] =
       [NoCall EXCEPT !.op = op, !.pc = IF op = "AddChainConfiguration" THEN "write" ELSE "exec",
                      !.cmd = CommandOf(IF op = "GetTransferChannel" THEN "GetClients" ELSE op,
                                        d, KeyOf(op, c))]]
  /\ UNCHANGED <<made, config, rly, net, wallets, late>>

CallVars == UNCHANGED <<made, config, rly, net, calls>>

\* RelayerWriteFile; an error is returned before anything is run.
WriteConfig(c) ==
  /\ call[c].pc = "write"
  /\ call' \in {[call EXCEPT ![c].pc = "exec"], [call EXCEPT ![c].pc = "idle", ![c].res = "docker"]}
  /\ CallVars /\ UNCHANGED <<wallets, late>>

\* Exec: Image.Run comes back with the command's end, or with an error of
\* docker's or of the context, whatever the command does; one that changes
\* nothing is then forgotten.
ExecEnds(c) ==
  /\ call[c].pc = "exec"
  /\ LET m == call[c].cmd
         Ends(r) == call' = [call EXCEPT ![c].pc = "returned", ![c].res = r]
     IN \/ ~Busy(m) /\ Ends(IF m.failed THEN "exit" ELSE "ok") /\ UNCHANGED late
        \/ Ends("docker") /\ late' = IF Busy(m) /\ Changes(m) THEN late \cup {m} ELSE late
  /\ CallVars /\ UNCHANGED wallets

\* Exec returns.
ExecReturns(c) == call[c].pc = "returned" /\ UNCHANGED late /\ CallVars

Ret(c) == call' = [call EXCEPT ![c].pc = "idle"]
RetError(c) == call' = [call EXCEPT ![c].pc = "idle", ![c].res = "error"]

KeyOps == {"AddKey", "RestoreKey"}

CommandReturns(c) ==
  /\ ExecReturns(c) /\ Ret(c) /\ UNCHANGED wallets
  /\ call[c].res # "ok" \/ call[c].op \notin KeyOps \cup {"GetTransferChannel"}

\* A mutant: the wallet is stored whatever the result is.
KeyReturnsEarly(c) ==
  /\ ExecReturns(c) /\ call[c].op \in KeyOps
  /\ wallets' = [wallets EXCEPT ![call[c].cmd.dst] = call[c].cmd.key] /\ Ret(c)

\* The output of AddKey may not parse; of RestoreKey's any is taken.
KeyReturns(c) ==
  /\ ExecReturns(c) /\ call[c].res = "ok" /\ call[c].op \in KeyOps
  /\ \/ wallets' = [wallets EXCEPT ![call[c].cmd.dst] = call[c].cmd.key] /\ Ret(c)
     \/ call[c].op = "AddKey" /\ RetError(c) /\ UNCHANGED wallets

(* GetTransferChannel: one matching line must be in each of three lists.  A
   line that does not parse is skipped. *)

\* The query of c has listed what is kept, and c goes on with the
\* next one if just one of it matches, or answers with the last.
Listed(c, query, kept, matching, next) ==
  /\ ExecReturns(c) /\ UNCHANGED wallets
  /\ call[c].res = "ok" /\ call[c].op = "GetTransferChannel" /\ call[c].cmd.op = query
  /\ \/ Cardinality(matching) # 1 /\ RetError(c)
     \/ \E i \in matching, last \in kept :
          /\ matching = {i} /\ \A k \in kept : k <= last
          /\ call' = [call EXCEPT ![c] =
               IF next # "none"
               THEN [@ EXCEPT !.pc = "exec", !.found = i, !.cmd = CommandOf(next, call[c].cmd.dst, None)]
               ELSE [@ EXCEPT !.pc = "idle", !.found = i, !.answer = last]]

Parsed(c) == SUBSET (1 .. call[c].cmd.lines)

ClientsListed(c) ==
  \E kept \in Parsed(c) :
    Listed(c, "GetClients", kept, {i \in kept : net.clients[i] = call[c].cmd.dst}, "GetConnections")

ConnectionsListed(c) ==
  \E kept \in Parsed(c) :
    Listed(c, "GetConnections", kept, {i \in kept : net.connections[i] = call[c].found}, "GetChannels")

\* A mutant: a channel of any connection will do.
TransferPort(c) == {i \in DOMAIN net.channels : net.channels[i].port = "transfer"}

TransferChannels(c) ==
  {i \in DOMAIN net.channels : net.channels[i] = [connection |-> call[c].found, port |-> "transfer"]}

\* The address of the loop's variable is kept, which ends as the last channel.
ChannelsListed(c) ==
  \E kept \in Parsed(c) :
    Listed(c, "GetChannels", kept, kept \cap TransferChannels(c), "none")

Returns(c) ==
  \/ CommandReturns(c) \/ KeyReturns(c)
  \/ ClientsListed(c) \/ ConnectionsListed(c) \/ ChannelsListed(c)

Next ==
  \/ NewDockerRelayer
  \/ \E c \in Callers :
       \/ \E o \in CallsOf[c] : Call(c, o[1], o[2])
       \/ WriteConfig(c) \/ Work(c) \/ ExecEnds(c) \/ Returns(c)
  \/ \E m \in late : WorkLate(m)

Spec == Init /\ [][Next]_vars

-----------------------------------------------------------------------------
(* Properties. *)

\* Every variable stays in its domain, and what the relayer's paths and the
\* chain's channels refer to is there.
TypeOK ==
  /\ made \in {"no", "yes", "panicked"} /\ config \in BOOLEAN
  /\ rly.chains \subseteq Dsts /\ DOMAIN rly.keys = Dsts /\ DOMAIN rly.paths \subseteq rly.chains
  /\ \A d \in DOMAIN rly.paths :
       LET p == rly.paths[d] IN
       /\ p.client # 0 => net.clients[p.client] = d
       /\ p.connection # 0 => p.client # 0 /\ net.connections[p.connection] = p.client
  /\ net.clients \in Seq(Dsts)
  /\ \A i \in DOMAIN net.connections : net.connections[i] \in DOMAIN net.clients
  /\ \A i \in DOMAIN net.channels : net.channels[i].connection \in DOMAIN net.connections
  /\ DOMAIN wallets = Dsts /\ \A c \in Callers : calls[c] <= MaxCalls[c]
  /\ \A c \in Callers : call[c].pc \in {"idle", "write", "exec", "returned"} /\ call[c].op \in Operations \cup {"none"}
  /\ \A m \in late : Busy(m)

\* The wallet that GetWallet gives, and that is funded, is the key with which
\* rly signs for the chain: also after an AddKey that failed or timed out, and
\* whose command still takes effect before or after its retry.
WalletSigns == \A d \in Dsts : wallets[d] # None => rly.keys[d] = wallets[d]

Answered(c) == Idle(c) /\ call[c].op = "GetTransferChannel" /\ call[c].res = "ok"

\* When GetTransferChannel answers, it has found a transfer channel to the
\* destination, although clients, connections and channels were made between
\* its three queries and lines of their output were lost.  What it answers is
\* that channel, or one that is listed after it.
TransferChannelFound ==
  \A c \in Callers : Answered(c) =>
    LET channel == net.channels[call[c].found] IN
    /\ channel.port = "transfer"
    /\ net.clients[net.connections[channel.connection]] = call[c].cmd.dst
    /\ call[c].answer >= call[c].found

\* What GetTransferChannel says it does: the channel it returns is the transfer
\* channel between the two chains.
TransferChannelReturned ==
  \A c \in Callers : Answered(c) => call[c].answer = call[c].found

=============================================================================
