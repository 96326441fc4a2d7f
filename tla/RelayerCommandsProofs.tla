------------------------ MODULE RelayerCommandsProofs ------------------------
(***************************************************************************)
(* Proofs about RelayerCommands, for any number of callers and chains and  *)
(* whatever they call.                                                     *)
(***************************************************************************)
EXTENDS RelayerCommands, FiniteSetTheorems, TLAPS

Stages == {"chain", "key", "path", "filter", "update", "flush", "client", "connection",
           "channel", "clients", "connections", "channels"}
Keys == {None, "setup", "mnemonic"} \cup (Callers \X Nat)
Path == [client : Nat, connection : Nat]
Paths == UNION {[S -> Path] : S \in SUBSET Dsts}
Rly  == [chains : SUBSET Dsts, keys : [Dsts -> Keys], paths : Paths]
Net  == [clients : Seq(Dsts), connections : Seq(Nat),
         channels : Seq([connection : Nat, port : {"transfer", "other"}])]
Command == [op : Operations \cup {"none"}, dst : Dsts \cup {None}, key : Keys,
            todo : Seq(Stages), failed : BOOLEAN, lines : Nat]
CallRecord == [op : Operations \cup {"none"}, pc : {"idle", "write", "exec", "returned"},
               cmd : Command, res : {"none", "ok", "exit", "docker", "error"},
               found : Nat, answer : Nat]

Late == {m \in Command : m.dst \in Dsts /\ m.todo # <<>>}

TypeInv ==
  /\ made \in {"no", "yes", "panicked"}
  /\ rly \in Rly /\ net \in Net /\ wallets \in [Dsts -> Keys]
  /\ call \in [Callers -> CallRecord] /\ calls \in [Callers -> Nat]
  /\ late \subseteq Late

\* Nobody uses a relayer that is not made.
MadeInv == made # "yes" => late = {} /\ \A c \in Callers : call[c] = NoCall

At(c)  == call[c].pc \in {"exec", "returned"}
Cmd(c) == call[c].cmd
Dst(c) == call[c].cmd.dst

\* A call has the command of its operation, and the result is the command's.
CommandInv(c) ==
  /\ call[c].pc # "idle" => Dst(c) \in Dsts
  /\ call[c].pc = "write" => call[c].op = "AddChainConfiguration" /\ Cmd(c).op = call[c].op
  /\ At(c) /\ call[c].op \in KeyOps => Cmd(c).todo \in {<<"key">>, <<>>}
  /\ call[c].pc = "returned" /\ call[c].res = "ok" => Cmd(c).todo = <<>>

\* A key command that came to its end has added its key, unless it failed.
KeyInv(c) ==
  At(c) /\ call[c].op \in KeyOps /\ Cmd(c).todo = <<>> /\ Cmd(c).key # None =>
    rly.keys[Dst(c)] = Cmd(c).key

\* What a listing has lines for is on the chain.
LinesInv(c) ==
  /\ At(c) /\ Cmd(c).op = "GetClients" =>
       Cmd(c).todo \in {<<"clients">>, <<>>} /\ Cmd(c).lines <= Len(net.clients)
  /\ At(c) /\ Cmd(c).op = "GetConnections" =>
       Cmd(c).todo \in {<<"connections">>, <<>>} /\ Cmd(c).lines <= Len(net.connections)

\* i is on the chain a client of d, a connection on such a client, a channel on such a
\* connection.
IsClient(n, i, d)     == i \in 1 .. Len(n.clients) /\ n.clients[i] = d
IsConnection(n, i, d) == i \in 1 .. Len(n.connections) /\ IsClient(n, n.connections[i], d)
IsChannel(n, i, d)    == i \in 1 .. Len(n.channels) /\ n.channels[i].port = "transfer"
                         /\ IsConnection(n, n.channels[i].connection, d)

\* What GetTransferChannel has found on its way.
FoundInv(c) ==
  call[c].op = "GetTransferChannel" =>
    /\ At(c) /\ Cmd(c).op = "GetConnections" => IsClient(net, call[c].found, Dst(c))
    /\ At(c) /\ Cmd(c).op = "GetChannels" => IsConnection(net, call[c].found, Dst(c))
    /\ Answered(c) => IsChannel(net, call[c].found, Dst(c)) /\ call[c].answer >= call[c].found

CallerInv(c) == CommandInv(c) /\ KeyInv(c) /\ LinesInv(c) /\ FoundInv(c)

IInv == TypeInv /\ MadeInv /\ WalletSigns /\ \A c \in Callers : CallerInv(c)

-----------------------------------------------------------------------------
(* The commands. *)

\* The commands that matter here, and the types of all.
LEMMA StagesFacts ==
  /\ KeyOps \cup {"GetClients", "GetConnections", "GetChannels", "AddChainConfiguration"}
       \subseteq DOMAIN StagesOf
  /\ \A o \in DOMAIN StagesOf : StagesOf[o] \in Seq(Stages)
  /\ \A o \in KeyOps : StagesOf[o] = <<"key">>
  /\ StagesOf["GetClients"] = <<"clients">> /\ StagesOf["GetConnections"] = <<"connections">>
  /\ "none" \notin DOMAIN StagesOf /\ "GetTransferChannel" \notin DOMAIN StagesOf
<1> USE DEF AddChainConfiguration, AddKey, RestoreKey, GeneratePath, UpdatePath,
           UpdateClients, Flush, CreateClients, CreateConnections,
           CreateConnectionsWithNumberOfRetries, CreateChannel, LinkPath, GetClients,
           GetConnections, GetChannels
<1>1. DOMAIN StagesOf =
        {"AddChainConfiguration", "AddKey", "RestoreKey", "GeneratePath", "UpdatePath",
         "UpdateClients", "Flush", "CreateClients", "CreateConnections",
         "CreateConnectionsWithNumberOfRetries", "CreateChannel", "LinkPath",
         "GetClients", "GetConnections", "GetChannels"}
  BY DEF StagesOf
<1>2. /\ StagesOf["AddKey"] = <<"key">> /\ StagesOf["RestoreKey"] = <<"key">>
      /\ StagesOf["GetClients"] = <<"clients">> /\ StagesOf["GetConnections"] = <<"connections">>
  BY DEF StagesOf
<1>3. \A o \in DOMAIN StagesOf : StagesOf[o] \in Seq(Stages)
  <2>1. /\ \A s \in Stages : <<s>> \in Seq(Stages)
        /\ <<"client", "connection", "channel">> \in Seq(Stages)
    <3> DEFINE S == Stages
    <3>1. \A s, t, u \in S : <<s>> \in Seq(S) /\ <<s, t, u>> \in Seq(S)
      <4> HIDE DEF S
      <4> QED
        OBVIOUS
    <3>2. {"client", "connection", "channel"} \subseteq S
      BY DEF Stages
    <3> QED
      BY <3>1, <3>2, Zenon
  <2>2. ASSUME NEW o \in {"AddChainConfiguration", "AddKey", "RestoreKey", "GeneratePath",
                          "UpdatePath", "UpdateClients", "Flush"}
        PROVE  StagesOf[o] \in Seq(Stages)
    <3>1. \E s \in Stages : StagesOf[o] = <<s>>
      BY DEF StagesOf, Stages
    <3> QED
      BY <2>1, <3>1
  <2>3. ASSUME NEW o \in {"CreateClients", "CreateConnections",
                          "CreateConnectionsWithNumberOfRetries", "CreateChannel"}
        PROVE  StagesOf[o] \in Seq(Stages)
    <3>1. \E s \in Stages : StagesOf[o] = <<s>>
      BY DEF StagesOf, Stages
    <3> QED
      BY <2>1, <3>1
  <2>4. ASSUME NEW o \in {"GetClients", "GetConnections", "GetChannels"}
        PROVE  StagesOf[o] \in Seq(Stages)
    <3>1. \E s \in Stages : StagesOf[o] = <<s>>
      BY DEF StagesOf, Stages
    <3> QED
      BY <2>1, <3>1
  <2>5. StagesOf["LinkPath"] = <<"client", "connection", "channel">>
    BY DEF StagesOf
  <2> QED
    BY <1>1, <2>1, <2>2, <2>3, <2>4, <2>5
<1> QED
  BY <1>1, <1>2, <1>3 DEF KeyOps

\* A command has its operation's stages before it.
LEMMA CommandOfType ==
  ASSUME NEW op \in DOMAIN StagesOf, NEW d \in Dsts, NEW k \in Keys
  PROVE  /\ CommandOf(op, d, k) \in Command
         /\ CommandOf(op, d, k).op = op /\ CommandOf(op, d, k).dst = d
         /\ CommandOf(op, d, k).key = k /\ CommandOf(op, d, k).todo = StagesOf[op]
         /\ CommandOf(op, d, k).lines = 0
  BY StagesFacts DEF CommandOf, NoCommand, Command, Operations, Keys

\* What was on a list of the chain stays there.
Kept(s, t) == Len(s) <= Len(t) /\ \A i \in 1 .. Len(s) : t[i] = s[i]

\* What a step of rly never undoes: the keys it has, and what is on the chain.
Monotone ==
  /\ rly' \in Rly /\ net' \in Net
  /\ \A d \in Dsts : rly.keys[d] # None => rly'.keys[d] = rly.keys[d]
  /\ Kept(net.clients, net'.clients) /\ Kept(net.connections, net'.connections)
  /\ Kept(net.channels, net'.channels)

\* Nothing is undone where nothing is done.
LEMMA UnchangedMonotone ==
  ASSUME rly \in Rly, net \in Net, UNCHANGED <<rly, net>> PROVE Monotone
  BY DEF Monotone, Kept, Rly, Net

LEMMA AppendKept ==
  ASSUME NEW S, NEW s \in Seq(S), NEW e \in S
  PROVE  Append(s, e) \in Seq(S) /\ Kept(s, Append(s, e)) /\ Len(Append(s, e)) = Len(s) + 1
  BY DEF Kept

\* A path that is there is set, and one that is not is added.
LEMMA PathsType ==
  ASSUME rly \in Rly, NEW d \in Dsts, NEW p \in Path
  PROVE  /\ d \in DOMAIN rly.paths => [rly.paths EXCEPT ![d] = p] \in Paths
         /\ [e \in DOMAIN rly.paths \cup {d} |-> IF e = d THEN p ELSE rly.paths[e]] \in Paths
         /\ d \in DOMAIN rly.paths => rly.paths[d] \in Path
<1>1. PICK S \in SUBSET Dsts : rly.paths \in [S -> Path]
  BY DEF Rly, Paths
<1>2. d \in S => [rly.paths EXCEPT ![d] = p] \in [S -> Path]
  BY <1>1
<1>3. [e \in S \cup {d} |-> IF e = d THEN p ELSE rly.paths[e]] \in [S \cup {d} -> Path]
  BY <1>1
<1>4. S \cup {d} \in SUBSET Dsts
  OBVIOUS
<1> QED
  BY <1>1, <1>2, <1>3, <1>4 DEF Paths

LEMMA AddsMonotone ==
  ASSUME rly \in Rly, net \in Net, NEW d \in Dsts, NEW k \in Keys,
         AddsChain(d) \/ AddsKey(d, k) \/ AddsPath(d)
  PROVE  Monotone
<1>1. net' = net /\ Kept(net.clients, net.clients)
      /\ Kept(net.connections, net.connections) /\ Kept(net.channels, net.channels)
  BY DEF AddsChain, AddsKey, AddsPath, Kept, Net
<1>2. CASE AddsChain(d)
  BY <1>1, <1>2 DEF AddsChain, Monotone, Rly
<1>3. CASE AddsKey(d, k)
  BY <1>1, <1>3 DEF AddsKey, Monotone, Rly
<1>4. CASE AddsPath(d)
  <2>1. NoPath \in Path
    BY DEF NoPath, Path
  <2>2. rly' \in Rly /\ rly'.keys = rly.keys
    BY <1>4, <2>1, PathsType DEF AddsPath, Rly
  <2> QED
    BY <1>1, <2>2 DEF Monotone
<1> QED
  BY <1>2, <1>3, <1>4

LEMMA MakesMonotone ==
  ASSUME rly \in Rly, net \in Net, NEW d \in Dsts,
         \/ MakesClient(d) \/ MakesConnection(d) \/ MakesChannel(d)
         \/ LeavesClient(d) \/ LeavesConnection(d)
  PROVE  Monotone
<1> DEFINE p == rly.paths[d]
           n == net.clients
<1>1. d \in DOMAIN rly.paths /\ p \in Path
  <2>1. d \in DOMAIN rly.paths
    BY DEF MakesClient, MakesConnection, MakesChannel, LeavesClient, LeavesConnection
  <2>2. NoPath \in Path
    BY DEF NoPath, Path
  <2> QED
    BY <2>1, <2>2, PathsType
<1>2. /\ Append(net.clients, d) \in Seq(Dsts) /\ Kept(net.clients, Append(net.clients, d))
      /\ Append(net.connections, p.client) \in Seq(Nat)
      /\ Kept(net.connections, Append(net.connections, p.client))
      /\ Kept(net.clients, net.clients) /\ Kept(net.connections, net.connections)
      /\ Kept(net.channels, net.channels)
  BY <1>1, AppendKept DEF Net, Path, Kept
<1>3. \/ net' = net
      \/ net' = [net EXCEPT !.clients = Append(@, d)]
      \/ net' = [net EXCEPT !.connections = Append(@, p.client)]
      \/ \E port \in {"transfer", "other"} :
           net' = [net EXCEPT !.channels = Append(@, [connection |-> p.connection, port |-> port])]
  BY DEF MakesClient, MakesConnection, MakesChannel, LeavesClient, LeavesConnection
<1>4. \/ rly' = rly
      \/ rly' = [rly EXCEPT !.paths[d].client = Len(net.clients) + 1]
      \/ rly' = [rly EXCEPT !.paths[d].connection = Len(net.connections) + 1]
  BY DEF MakesClient, MakesConnection, MakesChannel, LeavesClient, LeavesConnection
<1>5. rly' \in Rly /\ rly'.keys = rly.keys
  <2>1. /\ [p EXCEPT !.client = Len(net.clients) + 1] \in Path
        /\ [p EXCEPT !.connection = Len(net.connections) + 1] \in Path
    <3>1. Len(net.clients) + 1 \in Nat /\ Len(net.connections) + 1 \in Nat
      BY DEF Net
    <3> QED
      BY <1>1, <3>1 DEF Path
  <2>2. \A q \in Path : [rly EXCEPT !.paths = [rly.paths EXCEPT ![d] = q]] \in Rly
    BY <1>1, PathsType DEF Rly
  <2> QED
    BY <1>4, <2>1, <2>2 DEF Rly
<1>6. /\ net' \in Net
      /\ Kept(net.clients, net'.clients) /\ Kept(net.connections, net'.connections)
      /\ Kept(net.channels, net'.channels)
  <2>1. ASSUME NEW port \in {"transfer", "other"},
               net' = [net EXCEPT !.channels = Append(@, [connection |-> p.connection, port |-> port])]
        PROVE  net' \in Net /\ Kept(net.channels, net'.channels)
               /\ net'.clients = net.clients /\ net'.connections = net.connections
    <3> DEFINE c == [connection |-> p.connection, port |-> port]
               C == [connection : Nat, port : {"transfer", "other"}]
    <3>1. c \in C
      BY <1>1 DEF Path
    <3>2. Append(net.channels, c) \in Seq(C) /\ Kept(net.channels, Append(net.channels, c))
      <4> HIDE DEF c, C
      <4> QED
        BY <3>1, AppendKept DEF Net, C
    <3> QED
      BY <2>1, <3>2 DEF Net
  <2> QED
    BY <1>2, <1>3, <2>1 DEF Net
<1> QED
  BY <1>5, <1>6 DEF Monotone

\* Whatever a command does, or leaves behind when it fails, undoes nothing; and
\* a key is added as the command has it.
LEMMA StageMonotone ==
  ASSUME rly \in Rly, net \in Net, NEW m \in Command, m.dst \in Dsts,
         Stage(m) \/ StageFails(m)
  PROVE  /\ Monotone
         /\ Stage(m) /\ Head(m.todo) = "key" => rly'.keys[m.dst] = m.key
<1>1. m.key \in Keys
  BY DEF Command
<1>2. Monotone
  <2>1. CASE Stage(m)
    BY <1>1, <2>1, AddsMonotone, MakesMonotone, UnchangedMonotone, Zenon DEF Stage
  <2>2. CASE StageFails(m)
    BY <2>2, MakesMonotone, UnchangedMonotone, Zenon DEF StageFails
  <2> QED
    BY <2>1, <2>2
<1>3. ASSUME Stage(m), Head(m.todo) = "key" PROVE rly'.keys[m.dst] = m.key
  <2>1. AddsKey(m.dst, m.key)
    BY <1>3 DEF Stage
  <2> QED
    BY <2>1 DEF AddsKey, Rly
<1> QED
  BY <1>2, <1>3

LEMMA LinesType ==
  ASSUME net \in Net
  PROVE  /\ \A s \in Stages : Lines(s) \in Nat
         /\ Lines("clients") = Len(net.clients) /\ Lines("connections") = Len(net.connections)
  BY DEF Lines, Net

\* A command that goes on, or stops, stays one.
LEMMA OnwardType ==
  ASSUME net \in Net, NEW m \in Command, m.todo # <<>>
  PROVE  /\ Onward(m) \in Command /\ Stopped(m) \in Command
         /\ Onward(m).dst = m.dst /\ Onward(m).op = m.op /\ Onward(m).key = m.key
         /\ Onward(m).todo = Tail(m.todo) /\ Onward(m).lines = Lines(Head(m.todo))
         /\ Stopped(m).dst = m.dst /\ Stopped(m).op = m.op /\ Stopped(m).key = m.key
         /\ Stopped(m).todo = m.todo /\ Stopped(m).lines = m.lines
<1>1. Head(m.todo) \in Stages /\ Tail(m.todo) \in Seq(Stages)
  <2> DEFINE S == Stages
  <2>1. m.todo \in Seq(S)
    BY DEF Command
  <2> HIDE DEF S
  <2>2. Head(m.todo) \in S /\ Tail(m.todo) \in Seq(S)
    BY <2>1
  <2> QED
    BY <2>2 DEF S
<1>2. Lines(Head(m.todo)) \in Nat
  BY <1>1, LinesType
<1> QED
  BY <1>1, <1>2 DEF Onward, Stopped, Command

\* What GetTransferChannel has found stays what it is.
LEMMA FoundKept ==
  ASSUME TypeInv, Monotone
  PROVE  \A i, d : /\ IsClient(net, i, d) => IsClient(net', i, d)
                   /\ IsConnection(net, i, d) => IsConnection(net', i, d)
                   /\ IsChannel(net, i, d) => IsChannel(net', i, d)
<1> TAKE i, d
<1>0. /\ Len(net.clients) \in Nat /\ Len(net'.clients) \in Nat
      /\ Len(net.connections) \in Nat /\ Len(net'.connections) \in Nat
      /\ Len(net.channels) \in Nat /\ Len(net'.channels) \in Nat
  BY DEF TypeInv, Monotone, Net
<1>1. \A j : IsClient(net, j, d) => IsClient(net', j, d)
  BY <1>0 DEF IsClient, Monotone, Kept
<1>2. \A j : IsConnection(net, j, d) => IsConnection(net', j, d)
  BY <1>0, <1>1 DEF IsConnection, Monotone, Kept
<1>3. IsChannel(net, i, d) => IsChannel(net', i, d)
  BY <1>0, <1>2 DEF IsChannel, Monotone, Kept
<1> QED
  BY <1>1, <1>2, <1>3

\* What one caller relies on, no step of rly and no other caller takes away.
LEMMA CallerFrame ==
  ASSUME TypeInv, Monotone, NEW c \in Callers, CallerInv(c), call'[c] = call[c]
  PROVE  CallerInv(c)'
<1>1. CommandInv(c)'
  BY DEF CallerInv, CommandInv, At, Cmd, Dst
<1>2. KeyInv(c)'
  <2> SUFFICES ASSUME At(c)', call'[c].op \in KeyOps, Cmd(c)'.todo = <<>>,
                        Cmd(c)'.key # None
               PROVE  rly'.keys[Dst(c)'] = Cmd(c)'.key
    BY DEF KeyInv
  <2>1. rly.keys[Dst(c)] = Cmd(c).key /\ Dst(c) \in Dsts
    BY DEF CallerInv, CommandInv, KeyInv, At, Cmd, Dst
  <2> QED
    BY <2>1, Zenon DEF Cmd, Dst, Monotone
<1>3. LinesInv(c)'
  <2>1. /\ Len(net.clients) \in Nat /\ Len(net'.clients) \in Nat
        /\ Len(net.connections) \in Nat /\ Len(net'.connections) \in Nat
    BY DEF TypeInv, Monotone, Net
  <2>2. Len(net.clients) <= Len(net'.clients) /\ Len(net.connections) <= Len(net'.connections)
    BY DEF Monotone, Kept
  <2>3. Cmd(c).lines \in Nat
    BY DEF TypeInv, CallRecord, Command, Cmd
  <2>4. At(c) /\ Cmd(c).op = "GetClients" =>
          Cmd(c).todo \in {<<"clients">>, <<>>} /\ Cmd(c).lines <= Len(net'.clients)
    <3>1. At(c) /\ Cmd(c).op = "GetClients" =>
            Cmd(c).todo \in {<<"clients">>, <<>>} /\ Cmd(c).lines <= Len(net.clients)
      BY Zenon DEF CallerInv, LinesInv
    <3> QED
      BY <2>1, <2>2, <2>3, <3>1
  <2>5. At(c) /\ Cmd(c).op = "GetConnections" =>
          Cmd(c).todo \in {<<"connections">>, <<>>} /\ Cmd(c).lines <= Len(net'.connections)
    <3>1. At(c) /\ Cmd(c).op = "GetConnections" =>
            Cmd(c).todo \in {<<"connections">>, <<>>} /\ Cmd(c).lines <= Len(net.connections)
      BY Zenon DEF CallerInv, LinesInv
    <3> QED
      BY <2>1, <2>2, <2>3, <3>1
  <2> QED
    BY <2>4, <2>5 DEF LinesInv, At, Cmd
<1>4. FoundInv(c)'
  BY FoundKept DEF CallerInv, FoundInv, At, Cmd, Dst, Answered, Idle
<1> QED
  BY <1>1, <1>2, <1>3, <1>4 DEF CallerInv

-----------------------------------------------------------------------------
(* The steps. *)

LEMMA InitInv == Init => IInv
<1> SUFFICES ASSUME Init PROVE IInv
  OBVIOUS
<1>1. NoCommand \in Command /\ NoCall \in CallRecord
  <2>1. <<>> \in Seq(Stages)
    OBVIOUS
  <2>2. NoCommand \in Command
    BY <2>1 DEF NoCommand, Command, Keys
  <2> QED
    BY <2>2 DEF NoCall, CallRecord
<1>2. rly \in Rly /\ net \in Net
  <2>1. [d \in {} |-> NoPath] \in [{} -> Path]
    OBVIOUS
  <2>2. rly.paths \in Paths
    BY <2>1 DEF Init, Paths
  <2>3. /\ <<>> \in Seq(Dsts) /\ <<>> \in Seq(Nat)
        /\ <<>> \in Seq([connection : Nat, port : {"transfer", "other"}])
    OBVIOUS
  <2> QED
    BY <2>2, <2>3 DEF Init, Rly, Net, Keys
<1>3. TypeInv /\ MadeInv /\ WalletSigns
  BY <1>1, <1>2 DEF Init, TypeInv, MadeInv, WalletSigns, Keys
<1>4. \A c \in Callers : CallerInv(c)
  BY DEF Init, NoCall, CallerInv, CommandInv, KeyInv, LinesInv, FoundInv, At, Answered
<1> QED
  BY <1>3, <1>4 DEF IInv

\* Of a step of one caller, its own part is left to show.
LEMMA CallStep ==
  ASSUME IInv, Monotone, NEW c \in Callers, NEW r \in CallRecord,
         call' = [call EXCEPT ![c] = r], made = "yes", made' = made,
         calls' \in [Callers -> Nat], wallets' \in [Dsts -> Keys], late' \subseteq Late,
         CallerInv(c)', WalletSigns'
  PROVE  IInv'
<1>1. TypeInv'
  BY DEF IInv, TypeInv, Monotone
<1>2. MadeInv'
  BY DEF MadeInv
<1>3. ASSUME NEW d \in Callers, d # c PROVE CallerInv(d)'
  <2>1. call'[d] = call[d]
    BY <1>3 DEF IInv, TypeInv
  <2> QED
    BY <2>1, CallerFrame DEF IInv
<1> QED
  BY <1>1, <1>2, <1>3 DEF IInv

\* Keys are never taken away, so that wallets that stay keep signing.
LEMMA WalletsKept ==
  ASSUME TypeInv, Monotone, WalletSigns, wallets' = wallets
  PROVE  WalletSigns'
<1> SUFFICES ASSUME NEW d \in Dsts, wallets[d] # None PROVE rly'.keys[d] = wallets[d]
  BY DEF WalletSigns
<1> QED
  BY Zenon DEF WalletSigns, Monotone

\* Who has called uses a relayer that is made.
LEMMA CallerMade ==
  ASSUME IInv, NEW c \in Callers, call[c].pc # "idle"
  PROVE  made = "yes"
  BY DEF IInv, MadeInv, NoCall

LEMMA Singles == \A s : Head(<<s>>) = s /\ Tail(<<s>>) = <<>> /\ <<s>> # <<>>
  OBVIOUS

LEMMA WorkInv ==
  ASSUME IInv, NEW c \in Callers, Work(c)
  PROVE  IInv'
<1> DEFINE m == call[c].cmd
<1>1. /\ call[c] \in CallRecord /\ m \in Command /\ m.dst \in Dsts /\ m.todo # <<>>
      /\ call[c].pc = "exec" /\ made = "yes" /\ rly \in Rly /\ net \in Net /\ CallerInv(c)
  BY CallerMade DEF IInv, TypeInv, CallRecord, CallerInv, CommandInv, Work, Busy, Dst
<1>2. Monotone /\ (Stage(m) /\ Head(m.todo) = "key" => rly'.keys[m.dst] = m.key)
  BY <1>1, StageMonotone DEF Work
<1>3. WalletSigns'
  BY <1>2, WalletsKept DEF IInv, Work, Outside
<1>4. /\ made' = made /\ calls' \in [Callers -> Nat] /\ wallets' \in [Dsts -> Keys] /\ late' \subseteq Late
  BY DEF IInv, TypeInv, Work, Outside
<1>5. CASE Stage(m) /\ call' = [call EXCEPT ![c].cmd = Onward(@)]
  <2> DEFINE r == [call[c] EXCEPT !.cmd = Onward(m)]
  <2>1. r \in CallRecord /\ call' = [call EXCEPT ![c] = r] /\ call'[c] = r
    BY <1>1, <1>5, OnwardType DEF CallRecord, IInv, TypeInv
  <2>2. CommandInv(c)'
    <3>1. /\ call'[c].pc = "exec" /\ call'[c].op = call[c].op /\ Dst(c)' = m.dst
          /\ Cmd(c)'.todo = Tail(m.todo)
      BY <1>1, <2>1, OnwardType DEF Cmd, Dst, CallRecord
    <3>2. call[c].op \in KeyOps => m.todo = <<"key">>
      BY <1>1 DEF CallerInv, CommandInv, At, Cmd
    <3> QED
      BY <1>1, <3>1, <3>2, Singles DEF CommandInv
  <2>3. KeyInv(c)'
    BY <1>1, <1>2, <1>5, <2>1, OnwardType DEF CallerInv, CommandInv, KeyInv, At, Cmd, Dst, CallRecord
  <2>4. LinesInv(c)'
    <3>1. /\ Cmd(c)'.op = m.op /\ Cmd(c)'.todo = Tail(m.todo)
          /\ Cmd(c)'.lines = Lines(Head(m.todo)) /\ At(c)
      BY <1>1, <2>1, OnwardType DEF Cmd, At, CallRecord
    <3>2. /\ Len(net.clients) <= Len(net'.clients)
          /\ Len(net.connections) <= Len(net'.connections)
      BY <1>2 DEF Monotone, Kept
    <3>3. CASE m.op = "GetClients"
      <4>1. m.todo = <<"clients">>
        BY <1>1, <3>1, <3>3 DEF CallerInv, LinesInv, Cmd
      <4> QED
        BY <1>1, <3>1, <3>2, <3>3, <4>1, Singles, LinesType DEF LinesInv
    <3>4. CASE m.op = "GetConnections"
      <4>1. m.todo = <<"connections">>
        BY <1>1, <3>1, <3>4 DEF CallerInv, LinesInv, Cmd
      <4> QED
        BY <1>1, <3>1, <3>2, <3>4, <4>1, Singles, LinesType DEF LinesInv
    <3> QED
      BY <3>1, <3>3, <3>4 DEF LinesInv
  <2>5. FoundInv(c)'
    BY <1>1, <1>2, <2>1, OnwardType, FoundKept
       DEF IInv, CallerInv, FoundInv, At, Cmd, Dst, CallRecord, Answered, Idle
  <2> QED
    BY <1>1, <1>2, <1>3, <1>4, <2>1, <2>2, <2>3, <2>4, <2>5, CallStep DEF CallerInv
<1>6. CASE StageFails(m) /\ call' = [call EXCEPT ![c].cmd = Stopped(@)]
  <2> DEFINE r == [call[c] EXCEPT !.cmd = Stopped(m)]
  <2>1. r \in CallRecord /\ call' = [call EXCEPT ![c] = r] /\ call'[c] = r
    BY <1>1, <1>6, OnwardType DEF CallRecord, IInv, TypeInv
  <2>2. CommandInv(c)'
    BY <1>1, <2>1, OnwardType DEF CallerInv, CommandInv, At, Cmd, Dst, CallRecord
  <2>3. KeyInv(c)'
    BY <1>1, <2>1, OnwardType DEF CallerInv, KeyInv, At, Cmd, Dst, CallRecord
  <2>4. LinesInv(c)'
    <3>1. /\ Cmd(c)'.op = m.op /\ Cmd(c)'.todo = m.todo
          /\ Cmd(c)'.lines = m.lines /\ At(c)
      BY <1>1, <2>1, OnwardType DEF Cmd, At, CallRecord
    <3>2. /\ Len(net.clients) <= Len(net'.clients)
          /\ Len(net.connections) <= Len(net'.connections)
          /\ {Len(net.clients), Len(net'.clients)} \subseteq Nat
          /\ {Len(net.connections), Len(net'.connections), m.lines} \subseteq Nat
      BY <1>1, <1>2 DEF Monotone, Kept, Net, Command
    <3> QED
      BY <1>1, <3>1, <3>2 DEF CallerInv, LinesInv, Cmd
  <2>5. FoundInv(c)'
    BY <1>1, <1>2, <2>1, OnwardType, FoundKept
       DEF IInv, CallerInv, FoundInv, At, Cmd, Dst, CallRecord, Answered, Idle
  <2> QED
    BY <1>1, <1>2, <1>3, <1>4, <2>1, <2>2, <2>3, <2>4, <2>5, CallStep DEF CallerInv
<1> QED
  BY <1>5, <1>6 DEF Work

\* A command whose caller has gone.
LEMMA WorkLateInv ==
  ASSUME IInv, NEW m \in late, WorkLate(m)
  PROVE  IInv'
<1>1. /\ m \in Command /\ m.dst \in Dsts /\ m.todo # <<>> /\ made = "yes"
      /\ rly \in Rly /\ net \in Net
  BY DEF IInv, TypeInv, Late, MadeInv
<1>2. Monotone
  BY <1>1, StageMonotone DEF WorkLate
<1>3. late' \subseteq Late
  <2>1. CASE late' = (late \ {m}) \cup (IF Busy(Onward(m)) THEN {Onward(m)} ELSE {})
    BY <1>1, <2>1, OnwardType DEF IInv, TypeInv, Late, Busy
  <2> QED
    BY <2>1 DEF WorkLate, IInv, TypeInv
<1>4. TypeInv' /\ MadeInv' /\ WalletSigns'
  BY <1>1, <1>2, <1>3, WalletsKept DEF IInv, TypeInv, MadeInv, WorkLate, Outside, Monotone
<1>5. \A c \in Callers : CallerInv(c)'
  BY <1>2, CallerFrame DEF IInv, WorkLate
<1> QED
  BY <1>4, <1>5 DEF IInv

LEMMA CallInv ==
  ASSUME IInv, NEW c \in Callers, NEW op \in Operations, NEW d \in Dsts, Call(c, op, d)
  PROVE  IInv'
<1> DEFINE o == IF op = "GetTransferChannel" THEN "GetClients" ELSE op
           k == KeyOf(op, c)
           m == CommandOf(o, d, k)
           r == [NoCall EXCEPT !.op = op, !.pc = IF op = "AddChainConfiguration" THEN "write" ELSE "exec",
                               !.cmd = m]
<1>1. /\ o \in DOMAIN StagesOf /\ k \in Keys
      /\ (op = "GetTransferChannel" => o = "GetClients") /\ (op # "GetTransferChannel" => o = op)
  BY StagesFacts DEF Operations, KeyOf, Keys, IInv, TypeInv
<1>2. /\ m \in Command /\ m.op = o /\ m.dst = d /\ m.todo = StagesOf[o] /\ m.lines = 0
  <2> HIDE DEF o, k
  <2>1. o \in DOMAIN StagesOf /\ k \in Keys
    BY <1>1
  <2> QED
    BY <2>1, CommandOfType
<1>3. /\ r \in CallRecord /\ call' = [call EXCEPT ![c] = r] /\ call'[c] = r
      /\ r.op = op /\ r.cmd = m /\ r.res = "none"
      /\ r.pc = (IF op = "AddChainConfiguration" THEN "write" ELSE "exec")
  <2>1. NoCall.op = "none" /\ NoCall.res = "none" /\ r \in CallRecord
    BY <1>2 DEF NoCall, CallRecord
  <2>2. call' = [call EXCEPT ![c] = r]
    BY DEF Call
  <2> QED
    BY <2>1, <2>2 DEF IInv, TypeInv, NoCall
<1>4. Monotone
  BY UnchangedMonotone DEF IInv, TypeInv, Call
<1>5. WalletSigns'
  BY <1>4, WalletsKept DEF IInv, Call
<1>6. CallerInv(c)'
  <2> HIDE DEF m, r, o
  <2>1. op \in KeyOps => m.todo = <<"key">>
    BY <1>1, <1>2, StagesFacts DEF KeyOps
  <2>2. CommandInv(c)'
    BY <1>1, <1>2, <1>3, <2>1 DEF CommandInv, At, Cmd, Dst
  <2>3. KeyInv(c)'
    BY <1>3, <2>1, Singles DEF KeyInv, At, Cmd
  <2>4. LinesInv(c)'
    <3>1. Len(net'.clients) \in Nat /\ Len(net'.connections) \in Nat
      BY DEF IInv, TypeInv, Net, Call
    <3>2. /\ o = "GetClients" => m.todo = <<"clients">>
          /\ o = "GetConnections" => m.todo = <<"connections">>
      BY <1>2, StagesFacts
    <3>3. Cmd(c)'.op = o /\ Cmd(c)'.todo = m.todo /\ Cmd(c)'.lines = 0
      BY <1>2, <1>3 DEF Cmd
    <3>4. 0 <= Len(net'.clients) /\ 0 <= Len(net'.connections)
      BY <3>1
    <3> QED
      BY <3>2, <3>3, <3>4 DEF LinesInv
  <2>5. FoundInv(c)'
    BY <1>1, <1>2, <1>3 DEF FoundInv, Cmd, Answered
  <2> QED
    BY <2>2, <2>3, <2>4, <2>5 DEF CallerInv
<1>7. /\ made = "yes" /\ made' = made /\ calls' \in [Callers -> Nat]
      /\ wallets' \in [Dsts -> Keys] /\ late' \subseteq Late
  BY DEF Call, IInv, TypeInv
<1> QED
  BY <1>3, <1>4, <1>5, <1>6, <1>7, CallStep

LEMMA WriteConfigInv ==
  ASSUME IInv, NEW c \in Callers, WriteConfig(c)
  PROVE  IInv'
<1>1. /\ call[c] \in CallRecord /\ call[c].pc = "write" /\ made = "yes"
      /\ call[c].op = "AddChainConfiguration" /\ Cmd(c).op = call[c].op /\ Dst(c) \in Dsts
  BY CallerMade DEF IInv, TypeInv, WriteConfig, CallerInv, CommandInv
<1>2. Monotone
  BY UnchangedMonotone DEF IInv, TypeInv, WriteConfig, CallVars
<1>3. PICK r \in CallRecord :
        /\ call' = [call EXCEPT ![c] = r] /\ call'[c] = r
        /\ r.op = call[c].op /\ r.cmd = call[c].cmd /\ r.pc \in {"exec", "idle"}
  <2> DEFINE r1 == [call[c] EXCEPT !.pc = "exec"]
             r2 == [call[c] EXCEPT !.pc = "idle", !.res = "docker"]
  <2>1. \A r \in {r1, r2} : r \in CallRecord /\ r.op = call[c].op /\ r.cmd = call[c].cmd
                            /\ r.pc \in {"exec", "idle"}
    BY <1>1 DEF CallRecord
  <2>2. \E r \in {r1, r2} : call' = [call EXCEPT ![c] = r]
    BY DEF WriteConfig
  <2> QED
    BY <2>1, <2>2 DEF IInv, TypeInv
<1>4. CallerInv(c)'
  BY <1>1, <1>3 DEF CallerInv, CommandInv, KeyInv, LinesInv, FoundInv, At, Cmd, Dst, Answered, KeyOps
<1> QED
  BY <1>1, <1>2, <1>3, <1>4, WalletsKept, CallStep DEF WriteConfig, CallVars, IInv, TypeInv

LEMMA ExecEndsInv ==
  ASSUME IInv, NEW c \in Callers, ExecEnds(c)
  PROVE  IInv'
<1>1. /\ call[c] \in CallRecord /\ call[c].pc = "exec" /\ made = "yes"
      /\ Dst(c) \in Dsts /\ CallerInv(c) /\ Cmd(c) \in Command
  BY CallerMade DEF IInv, TypeInv, ExecEnds, CallerInv, CommandInv, CallRecord, Cmd
<1>2. Monotone
  BY UnchangedMonotone DEF IInv, TypeInv, ExecEnds, CallVars
<1>3. PICK res \in {"ok", "exit", "docker"} :
        /\ call' = [call EXCEPT ![c].pc = "returned", ![c].res = res]
        /\ res = "ok" => Cmd(c).todo = <<>>
  BY DEF ExecEnds, Busy, Cmd
<1> DEFINE r == [call[c] EXCEPT !.pc = "returned", !.res = res]
<1>4. /\ r \in CallRecord /\ call' = [call EXCEPT ![c] = r] /\ call'[c] = r
      /\ r.op = call[c].op /\ r.cmd = call[c].cmd /\ r.pc = "returned" /\ r.res = res
      /\ r.found = call[c].found
  BY <1>1, <1>3 DEF CallRecord, IInv, TypeInv
<1>5. CallerInv(c)'
  <2> HIDE DEF r
  <2>1. CommandInv(c)' /\ KeyInv(c)'
    BY <1>1, <1>3, <1>4 DEF CallerInv, CommandInv, KeyInv, At, Cmd, Dst, ExecEnds, CallVars
  <2>2. LinesInv(c)' /\ FoundInv(c)'
    BY <1>1, <1>4 DEF CallerInv, LinesInv, FoundInv, At, Cmd, Dst, Answered, Idle, ExecEnds, CallVars
  <2> QED
    BY <2>1, <2>2 DEF CallerInv
<1>6. late' \subseteq Late
  BY <1>1 DEF ExecEnds, IInv, TypeInv, Late, Cmd, Dst, Busy
<1> QED
  BY <1>1, <1>2, <1>4, <1>5, <1>6, WalletsKept, CallStep DEF ExecEnds, CallVars, IInv, TypeInv

\* A call that has returned, and whose step leaves rly and the chain alone.
LEMMA ReturnedFacts ==
  ASSUME IInv, NEW c \in Callers, call[c].pc = "returned", CallVars, UNCHANGED late
  PROVE  /\ call[c] \in CallRecord /\ Cmd(c) \in Command /\ CallerInv(c) /\ Dst(c) \in Dsts
         /\ made = "yes" /\ made' = made /\ Monotone
         /\ calls' \in [Callers -> Nat] /\ late' \subseteq Late
<1>1. Monotone
  BY UnchangedMonotone DEF IInv, TypeInv, CallVars
<1>2. call[c] \in CallRecord /\ CallerInv(c) /\ made = "yes"
  BY CallerMade DEF IInv, TypeInv
<1> QED
  BY <1>1, <1>2 DEF CallRecord, Cmd, CallerInv, CommandInv, IInv, TypeInv, CallVars

\* A call that is idle again, and has not answered, relies on nothing.
LEMMA IdleInv ==
  ASSUME NEW c \in Callers, call'[c].pc = "idle",
         call'[c].op # "GetTransferChannel" \/ call'[c].res # "ok"
  PROVE  CallerInv(c)'
  BY DEF CallerInv, CommandInv, KeyInv, LinesInv, FoundInv, At, Answered

LEMMA CommandReturnsInv ==
  ASSUME IInv, NEW c \in Callers, CommandReturns(c)
  PROVE  IInv'
<1> DEFINE r == [call[c] EXCEPT !.pc = "idle"]
<1>1. call[c].pc = "returned" /\ CallVars /\ UNCHANGED <<late, wallets>>
  BY DEF CommandReturns, ExecReturns
<1>2. /\ r \in CallRecord /\ call' = [call EXCEPT ![c] = r] /\ call'[c] = r
      /\ r.pc = "idle" /\ r.op = call[c].op /\ r.res = call[c].res
  BY <1>1, ReturnedFacts DEF CommandReturns, Ret, CallRecord, IInv, TypeInv
<1>3. CallerInv(c)'
  <2> HIDE DEF r
  <2> QED
    BY <1>2, IdleInv DEF CommandReturns
<1>4. WalletSigns' /\ wallets' \in [Dsts -> Keys]
  BY <1>1, ReturnedFacts, WalletsKept DEF IInv, TypeInv
<1> QED
  BY <1>1, <1>2, <1>3, <1>4, ReturnedFacts, CallStep

\* The wallet that is stored is the key that was added.
LEMMA KeyReturnsInv ==
  ASSUME IInv, NEW c \in Callers, KeyReturns(c)
  PROVE  IInv'
<1>1. /\ call[c].pc = "returned" /\ CallVars /\ UNCHANGED late
      /\ call[c].res = "ok" /\ call[c].op \in KeyOps
  BY DEF KeyReturns, ExecReturns
<1>2. Cmd(c).key # None => rly.keys[Dst(c)] = Cmd(c).key
  BY <1>1, ReturnedFacts DEF CallerInv, CommandInv, KeyInv, At
<1>3. PICK r \in CallRecord :
        /\ call' = [call EXCEPT ![c] = r] /\ call'[c] = r /\ r.pc = "idle" /\ r.op = call[c].op
  <2> DEFINE r1 == [call[c] EXCEPT !.pc = "idle"]
             r2 == [call[c] EXCEPT !.pc = "idle", !.res = "error"]
  <2>1. \A r \in {r1, r2} : r \in CallRecord /\ r.pc = "idle" /\ r.op = call[c].op
    BY <1>1, ReturnedFacts DEF CallRecord
  <2>2. \E r \in {r1, r2} : call' = [call EXCEPT ![c] = r]
    BY DEF KeyReturns, Ret, RetError
  <2> QED
    BY <2>1, <2>2 DEF IInv, TypeInv
<1>4. CallerInv(c)'
  BY <1>1, <1>3, IdleInv DEF KeyOps
<1>5. WalletSigns' /\ wallets' \in [Dsts -> Keys]
  <2>1. CASE wallets' = wallets
    BY <1>1, <2>1, ReturnedFacts, WalletsKept DEF IInv, TypeInv
  <2>2. CASE wallets' = [wallets EXCEPT ![Dst(c)] = Cmd(c).key]
    <3>1. wallets' \in [Dsts -> Keys]
      BY <1>1, <2>2, ReturnedFacts DEF IInv, TypeInv, Command
    <3>2. ASSUME NEW d \in Dsts, wallets'[d] # None PROVE rly'.keys[d] = wallets'[d]
      <4>1. CASE d = Dst(c)
        BY <1>1, <1>2, <2>2, <3>2, <4>1, ReturnedFacts DEF IInv, TypeInv, CallVars
      <4>2. CASE d # Dst(c)
        BY <1>1, <2>2, <3>2, <4>2 DEF IInv, TypeInv, WalletSigns, CallVars
      <4> QED
        BY <4>1, <4>2
    <3> QED
      BY <3>1, <3>2 DEF WalletSigns
  <2> QED
    BY <2>1, <2>2 DEF KeyReturns, Cmd, Dst
<1> QED
  BY <1>1, <1>3, <1>4, <1>5, ReturnedFacts, CallStep

\* Each query of GetTransferChannel goes on with what it found, if that is what
\* was looked for.
LEMMA ListedInv ==
  ASSUME IInv, NEW c \in Callers,
         NEW query, NEW kept \in SUBSET Nat, NEW matching \in SUBSET kept,
         NEW next \in {"GetConnections", "GetChannels", "none"},
         Listed(c, query, kept, matching, next),
         \A i \in matching :
           /\ next = "GetConnections" => IsClient(net, i, Dst(c))
           /\ next = "GetChannels" => IsConnection(net, i, Dst(c))
           /\ next = "none" => IsChannel(net, i, Dst(c))
  PROVE  IInv'
<1>1. /\ call[c].pc = "returned" /\ CallVars /\ UNCHANGED <<late, wallets>>
      /\ call[c].res = "ok" /\ call[c].op = "GetTransferChannel"
  BY DEF Listed, ExecReturns
<1>2. WalletSigns' /\ wallets' \in [Dsts -> Keys]
  BY <1>1, ReturnedFacts, WalletsKept DEF IInv, TypeInv
<1>3. CASE call' = [call EXCEPT ![c].pc = "idle", ![c].res = "error"]
  <2> DEFINE r == [call[c] EXCEPT !.pc = "idle", !.res = "error"]
  <2>1. /\ r \in CallRecord /\ call' = [call EXCEPT ![c] = r] /\ call'[c] = r
        /\ r.pc = "idle" /\ r.res = "error"
    BY <1>1, <1>3, ReturnedFacts DEF CallRecord, IInv, TypeInv
  <2>2. CallerInv(c)'
    <3> HIDE DEF r
    <3> QED
      BY <2>1, IdleInv
  <2> QED
    BY <1>1, <1>2, <2>1, <2>2, ReturnedFacts, CallStep
<1>4. ASSUME NEW i \in matching, NEW last \in kept, \A k \in kept : k <= last,
             next = "none",
             call' = [call EXCEPT ![c] = [@ EXCEPT !.pc = "idle", !.found = i, !.answer = last]]
      PROVE  IInv'
  <2> DEFINE r == [call[c] EXCEPT !.pc = "idle", !.found = i, !.answer = last]
  <2>1. /\ r \in CallRecord /\ call' = [call EXCEPT ![c] = r] /\ call'[c] = r
        /\ r.pc = "idle" /\ r.cmd = call[c].cmd /\ r.found = i /\ r.answer = last
    BY <1>1, <1>4, ReturnedFacts DEF CallRecord, IInv, TypeInv
  <2>2. CallerInv(c)'
    <3> HIDE DEF r
    <3>1. IsChannel(net', i, Dst(c)) /\ last >= i
      BY <1>1, <1>4 DEF CallVars
    <3> QED
      BY <2>1, <3>1 DEF CallerInv, CommandInv, KeyInv, LinesInv, FoundInv, At, Cmd, Dst
  <2> QED
    BY <1>1, <1>2, <2>1, <2>2, ReturnedFacts, CallStep
<1>5. ASSUME NEW i \in matching, next # "none",
             call' = [call EXCEPT ![c] =
               [@ EXCEPT !.pc = "exec", !.found = i, !.cmd = CommandOf(next, Dst(c), None)]]
      PROVE  IInv'
  <2> DEFINE m == CommandOf(next, Dst(c), None)
             r == [call[c] EXCEPT !.pc = "exec", !.found = i, !.cmd = m]
  <2>1. /\ m \in Command /\ m.op = next /\ m.dst = Dst(c) /\ m.todo = StagesOf[next] /\ m.lines = 0
    <3>1. next \in DOMAIN StagesOf /\ None \in Keys /\ Dst(c) \in Dsts
      BY <1>1, <1>5, StagesFacts, ReturnedFacts DEF Keys
    <3> QED
      BY <3>1, CommandOfType
  <2>2. call' = [call EXCEPT ![c] = r]
    BY <1>5, Zenon DEF Dst
  <2>3. /\ r \in CallRecord /\ call'[c] = r /\ r.op = "GetTransferChannel"
        /\ r.pc = "exec" /\ r.cmd = m /\ r.found = i
    <3> HIDE DEF m
    <3> QED
      BY <1>1, <2>1, <2>2, ReturnedFacts DEF CallRecord, IInv, TypeInv
  <2>4. CallerInv(c)'
    <3> HIDE DEF r, m
    <3>1. /\ Cmd(c)'.op = next /\ Cmd(c)'.lines = 0 /\ Cmd(c)'.todo = StagesOf[next]
          /\ Dst(c)' = Dst(c) /\ call'[c].op \notin KeyOps /\ Dst(c) \in Dsts
      BY <1>1, <2>1, <2>3, ReturnedFacts DEF Cmd, Dst, KeyOps
    <3>2. CommandInv(c)' /\ KeyInv(c)'
      BY <2>3, <3>1 DEF CommandInv, KeyInv
    <3>3. LinesInv(c)'
      <4>1. Len(net'.connections) \in Nat /\ 0 <= Len(net'.connections)
        BY <1>1 DEF IInv, TypeInv, Net, CallVars
      <4> QED
        BY <3>1, <4>1, StagesFacts DEF LinesInv
    <3>4. FoundInv(c)'
      BY <1>1, <2>3, <3>1 DEF FoundInv, Answered, Idle, CallVars
    <3> QED
      BY <3>2, <3>3, <3>4 DEF CallerInv
  <2> QED
    BY <1>1, <1>2, <2>2, <2>3, <2>4, ReturnedFacts, CallStep
<1> QED
  <2>1. CASE RetError(c)
    BY <1>3, <2>1 DEF RetError
  <2>2. CASE ~RetError(c)
    <3>1. PICK i \in matching, last \in kept :
            /\ \A k \in kept : k <= last
            /\ call' = [call EXCEPT ![c] =
                 IF next # "none"
                 THEN [@ EXCEPT !.pc = "exec", !.found = i, !.cmd = CommandOf(next, Dst(c), None)]
                 ELSE [@ EXCEPT !.pc = "idle", !.found = i, !.answer = last]]
      BY <2>2, Zenon DEF Listed, Dst
    <3> QED
      BY <1>4, <1>5, <3>1, Zenon
  <2> QED
    BY <2>1, <2>2

LEMMA QueriesInv ==
  ASSUME IInv, NEW c \in Callers, ClientsListed(c) \/ ConnectionsListed(c) \/ ChannelsListed(c)
  PROVE  IInv'
<1>1. /\ call[c].pc = "returned" /\ CallVars /\ UNCHANGED late
      /\ call[c].res = "ok" /\ call[c].op = "GetTransferChannel"
  BY DEF ClientsListed, ConnectionsListed, ChannelsListed, Listed, ExecReturns
<1>2. At(c) /\ CallerInv(c) /\ Cmd(c).lines \in Nat /\ net \in Net
  BY <1>1, ReturnedFacts DEF At, Command, IInv, TypeInv
<1>3. \A kept \in Parsed(c) : kept \in SUBSET Nat
  BY <1>2 DEF Parsed, Cmd
<1>4. CASE ClientsListed(c)
  <2>1. PICK kept \in Parsed(c) :
          Listed(c, "GetClients", kept, {i \in kept : net.clients[i] = call[c].cmd.dst}, "GetConnections")
    BY <1>4 DEF ClientsListed
  <2> DEFINE matching == {i \in kept : net.clients[i] = call[c].cmd.dst}
  <2>2. Cmd(c).op = "GetClients"
    BY <2>1 DEF Listed, Cmd
  <2>3. Cmd(c).lines <= Len(net.clients) /\ Len(net.clients) \in Nat
    BY <1>2, <2>2 DEF CallerInv, LinesInv, Net
  <2>4. \A i \in matching : IsClient(net, i, Dst(c))
    BY <1>2, <2>3 DEF Parsed, IsClient, Cmd, Dst
  <2> QED
    BY <1>3, <2>1, <2>4, ListedInv
<1>5. CASE ConnectionsListed(c)
  <2>1. PICK kept \in Parsed(c) :
          Listed(c, "GetConnections", kept, {i \in kept : net.connections[i] = call[c].found}, "GetChannels")
    BY <1>5 DEF ConnectionsListed
  <2> DEFINE matching == {i \in kept : net.connections[i] = call[c].found}
  <2>2. Cmd(c).op = "GetConnections"
    BY <2>1 DEF Listed, Cmd
  <2>3. /\ Cmd(c).lines <= Len(net.connections) /\ Len(net.connections) \in Nat
        /\ IsClient(net, call[c].found, Dst(c))
    BY <1>1, <1>2, <2>2 DEF CallerInv, LinesInv, FoundInv, Net
  <2>4. \A i \in matching : IsConnection(net, i, Dst(c))
    BY <1>2, <2>3 DEF Parsed, IsConnection, Cmd
  <2> QED
    BY <1>3, <2>1, <2>4, ListedInv
<1>6. CASE ChannelsListed(c)
  <2>1. PICK kept \in Parsed(c) :
          Listed(c, "GetChannels", kept, kept \cap TransferChannels(c), "none")
    BY <1>6 DEF ChannelsListed
  <2> DEFINE matching == kept \cap TransferChannels(c)
  <2>2. Cmd(c).op = "GetChannels"
    BY <2>1 DEF Listed, Cmd
  <2>3. IsConnection(net, call[c].found, Dst(c))
    BY <1>1, <1>2, <2>2 DEF CallerInv, FoundInv
  <2>4. \A i \in matching : IsChannel(net, i, Dst(c))
    BY <1>2, <2>3 DEF TransferChannels, IsChannel, Net
  <2> QED
    BY <1>3, <2>1, <2>4, ListedInv
<1> QED
  BY <1>4, <1>5, <1>6

\* What a Build has left: as many links as chains at most, each once.
LEMMA LinkingsType ==
  ASSUME NEW l \in Linkings
  PROVE  /\ l \in Seq(Dsts) /\ DOMAIN l = 1 .. Len(l)
<1>1. Cardinality(Dsts) \in Nat
  BY CommandsAssumption, FS_CardinalityType
<1>2. PICK n \in Nat : l \in [1 .. n -> Dsts]
  BY <1>1 DEF Linkings
<1> QED
  BY <1>2

LEMMA NewDockerRelayerInv ==
  ASSUME IInv, NewDockerRelayer
  PROVE  IInv'
<1>1. /\ made = "no" /\ late' = {} /\ \A c \in Callers : call'[c] = NoCall
  BY DEF NewDockerRelayer, IInv, MadeInv
<1>2. \A c \in Callers : CallerInv(c)'
  BY <1>1 DEF NoCall, CallerInv, CommandInv, KeyInv, LinesInv, FoundInv, At, Answered
<1>3. /\ made' \in {"yes", "panicked"} /\ UNCHANGED <<call, calls, late>>
  BY DEF NewDockerRelayer
<1>4. CASE UNCHANGED <<rly, net, wallets>>
  BY <1>1, <1>2, <1>3, <1>4 DEF IInv, TypeInv, MadeInv, WalletSigns
<1>5. CASE ~UNCHANGED <<rly, net, wallets>>
  <2> DEFINE Link(p, d) == IF \E i \in DOMAIN p.linked : p.linked[i] = d
                           THEN CHOOSE i \in DOMAIN p.linked : p.linked[i] = d ELSE 0
             Given(p) == [d \in Dsts |-> IF d \in p.keys THEN "setup" ELSE None]
  <2>1. PICK p \in Progress :
          /\ net' = [clients |-> p.linked, connections |-> [i \in DOMAIN p.linked |-> i],
                     channels |-> [i \in DOMAIN p.linked |-> [connection |-> i, port |-> "transfer"]]]
          /\ rly' = [chains |-> p.chains, keys |-> Given(p),
                     paths |-> [d \in p.paths |-> [client |-> Link(p, d), connection |-> Link(p, d)]]]
          /\ wallets' = Given(p)
    BY <1>5 DEF NewDockerRelayer
  <2>2. /\ p.chains \subseteq Dsts /\ p.paths \subseteq Dsts /\ p.linked \in Linkings
    BY DEF Progress
  <2>3. p.linked \in Seq(Dsts) /\ DOMAIN p.linked = 1 .. Len(p.linked) /\ Len(p.linked) \in Nat
    BY <2>2, LinkingsType
  <2>4. Given(p) \in [Dsts -> Keys]
    BY DEF Keys
  <2>5. \A d \in Dsts : Link(p, d) \in Nat
    BY <2>3
  <2>6. rly' \in Rly
    <3>1. [d \in p.paths |-> [client |-> Link(p, d), connection |-> Link(p, d)]] \in [p.paths -> Path]
      BY <2>2, <2>5 DEF Path
    <3>2. rly'.paths \in Paths
      BY <2>1, <2>2, <3>1 DEF Paths
    <3> QED
      BY <2>1, <2>2, <2>4, <3>2 DEF Rly
  <2>7. net' \in Net
    <3> DEFINE C == [connection : Nat, port : {"transfer", "other"}]
    <3>1. \A i \in Nat : [connection |-> i, port |-> "transfer"] \in C
      OBVIOUS
    <3>2. [i \in DOMAIN p.linked |-> i] \in Seq(Nat)
      BY <2>3
    <3>3. [i \in DOMAIN p.linked |-> [connection |-> i, port |-> "transfer"]] \in Seq(C)
      <4>1. [i \in DOMAIN p.linked |-> [connection |-> i, port |-> "transfer"]] \in [1 .. Len(p.linked) -> C]
        BY <2>3, <3>1
      <4> HIDE DEF C
      <4> QED
        BY <2>3, <4>1
    <3> QED
      BY <2>1, <2>3, <3>2, <3>3 DEF Net
  <2>8. WalletSigns'
    BY <2>1 DEF WalletSigns
  <2> QED
    BY <1>1, <1>2, <1>3, <2>1, <2>4, <2>6, <2>7, <2>8 DEF IInv, TypeInv, MadeInv
<1> QED
  BY <1>4, <1>5

-----------------------------------------------------------------------------
(* The theorems. *)

LEMMA NextInv == IInv /\ [Next]_vars => IInv'
<1> SUFFICES ASSUME IInv, [Next]_vars PROVE IInv'
  OBVIOUS
<1>1. CASE NewDockerRelayer
  BY <1>1, NewDockerRelayerInv
<1>2. ASSUME NEW c \in Callers, NEW o \in CallsOf[c], Call(c, o[1], o[2]) PROVE IInv'
  <2>1. o[1] \in Operations /\ o[2] \in Dsts
    BY CallsAssumption
  <2> QED
    BY <1>2, <2>1, CallInv
<1>3. ASSUME NEW c \in Callers, WriteConfig(c) \/ Work(c) \/ ExecEnds(c) \/ Returns(c) PROVE IInv'
  BY <1>3, WriteConfigInv, WorkInv, ExecEndsInv, CommandReturnsInv, KeyReturnsInv, QueriesInv
     DEF Returns
<1>4. ASSUME NEW m \in late, WorkLate(m) PROVE IInv'
  BY <1>4, WorkLateInv
<1>5. CASE UNCHANGED vars
  <2>1. TypeInv' /\ MadeInv' /\ WalletSigns'
    BY <1>5 DEF vars, IInv, TypeInv, MadeInv, WalletSigns
  <2>2. Monotone
    BY <1>5, UnchangedMonotone DEF vars, IInv, TypeInv
  <2>3. \A c \in Callers : CallerInv(c)'
    BY <1>5, <2>2, CallerFrame DEF vars, IInv
  <2> QED
    BY <2>1, <2>3 DEF IInv
<1> QED
  BY <1>1, <1>2, <1>3, <1>4, <1>5 DEF Next

\* The wallet that is stored for a chain is the key that signs there, whatever
\* command fails, is retried or takes effect late.
THEOREM WalletsSign == Spec => []WalletSigns
<1>1. IInv => WalletSigns
  BY DEF IInv
<1> QED
  BY InitInv, NextInv, <1>1, PTL DEF Spec

\* Whenever GetTransferChannel answers it has found a transfer channel to the
\* destination, whatever is made between its queries.
THEOREM ChannelFound == Spec => []TransferChannelFound
<1>1. IInv => TransferChannelFound
  <2> SUFFICES ASSUME IInv, NEW c \in Callers, Answered(c)
               PROVE  LET channel == net.channels[call[c].found] IN
                      /\ channel.port = "transfer"
                      /\ net.clients[net.connections[channel.connection]] = call[c].cmd.dst
                      /\ call[c].answer >= call[c].found
    BY DEF TransferChannelFound
  <2>1. IsChannel(net, call[c].found, Dst(c)) /\ call[c].answer >= call[c].found
    BY DEF IInv, CallerInv, FoundInv, Answered
  <2> QED
    BY <2>1 DEF IsChannel, IsConnection, IsClient, Dst
<1> QED
  BY InitInv, NextInv, <1>1, PTL DEF Spec
-----------------------------------------------------------------------------
(* What the paths of rly and the lists of the chain refer to.                *)

ConnectedOK(n) ==
  /\ \A i \in 1 .. Len(n.connections) : n.connections[i] \in 1 .. Len(n.clients)
  /\ \A i \in 1 .. Len(n.channels) : n.channels[i].connection \in 1 .. Len(n.connections)

\* A path's client is one of its chain, and its connection one on that client.
PathOK(n, d, p) ==
  /\ p.client # 0 => p.client \in 1 .. Len(n.clients) /\ n.clients[p.client] = d
  /\ p.connection # 0 => /\ p.client # 0 /\ p.connection \in 1 .. Len(n.connections)
                         /\ n.connections[p.connection] = p.client

LinksOK(r, n) ==
  /\ DOMAIN r.paths \subseteq r.chains /\ ConnectedOK(n)
  /\ \A d \in DOMAIN r.paths : PathOK(n, d, r.paths[d])

BoundsInv ==
  /\ config \in BOOLEAN /\ \A c \in Callers : calls[c] <= MaxCalls[c]
  /\ \A m \in late : Busy(m)

RInv == IInv /\ BoundsInv /\ LinksOK(rly, net)

\* A path that is not changed stays good where the chain only grows.
LEMMA PathKept ==
  ASSUME net \in Net, net' \in Net, NEW d, NEW p \in Path, PathOK(net, d, p),
         Kept(net.clients, net'.clients), Kept(net.connections, net'.connections)
  PROVE  PathOK(net', d, p)
<1>1. /\ Len(net.clients) \in Nat /\ Len(net'.clients) \in Nat
      /\ Len(net.connections) \in Nat /\ Len(net'.connections) \in Nat
  BY DEF Net
<1> QED
  BY <1>1 DEF PathOK, Kept

LEMMA AppendIs ==
  ASSUME NEW S, NEW s \in Seq(S), NEW e \in S
  PROVE  /\ Len(Append(s, e)) = Len(s) + 1 /\ Append(s, e)[Len(s) + 1] = e /\ Len(s) \in Nat
         /\ \A i \in 1 .. Len(s) : Append(s, e)[i] = s[i]
OBVIOUS

\* Whatever a command does, or leaves behind when it fails, no path or list
\* refers to what is not there.
LEMMA StageLinks ==
  ASSUME rly \in Rly, net \in Net, LinksOK(rly, net), NEW m \in Command, m.dst \in Dsts,
         Stage(m) \/ StageFails(m)
  PROVE  LinksOK(rly', net')
<1> DEFINE d == m.dst  p == rly.paths[d]
<1>1. Monotone
  BY StageMonotone
<1>2. /\ rly' \in Rly /\ net' \in Net
      /\ Kept(net.clients, net'.clients) /\ Kept(net.connections, net'.connections)
  BY <1>1 DEF Monotone
<1>3. \A e \in DOMAIN rly.paths : rly.paths[e] \in Path /\ e \in Dsts /\ PathOK(net, e, rly.paths[e])
  <2>1. \A e \in DOMAIN rly.paths : e \in Dsts
    BY DEF Rly, Paths
  <2>2. NoPath \in Path
    BY DEF NoPath, Path
  <2> QED
    BY <2>1, <2>2, PathsType DEF LinksOK
<1>4. \A e \in DOMAIN rly.paths : PathOK(net', e, rly.paths[e])
  BY <1>2, <1>3, PathKept
<1>5. \/ UNCHANGED <<rly, net>>
      \/ AddsChain(d) \/ AddsKey(d, m.key) \/ AddsPath(d)
      \/ MakesClient(d) \/ MakesConnection(d) \/ MakesChannel(d)
      \/ LeavesClient(d) \/ LeavesConnection(d)
  <2>1. CASE Stage(m)
    BY <2>1, Zenon DEF Stage
  <2>2. CASE StageFails(m)
    BY <2>2, Zenon DEF StageFails
  <2> QED
    BY <2>1, <2>2
<1>6. CASE UNCHANGED <<rly, net>> \/ AddsChain(d) \/ AddsKey(d, m.key)
  <2>1. net' = net /\ rly'.paths = rly.paths /\ rly.chains \subseteq rly'.chains
    BY <1>6 DEF AddsChain, AddsKey, Rly
  <2> QED
    BY <2>1 DEF LinksOK
<1>7. CASE AddsPath(d)
  <2>1. /\ net' = net /\ rly'.chains = rly.chains /\ d \in rly.chains
        /\ rly'.paths = [e \in DOMAIN rly.paths \cup {d} |-> IF e = d THEN NoPath ELSE rly.paths[e]]
    BY <1>7 DEF AddsPath, Rly
  <2>2. PathOK(net, d, NoPath)
    BY DEF PathOK, NoPath
  <2>3. DOMAIN rly'.paths = DOMAIN rly.paths \cup {d}
        /\ \A e \in DOMAIN rly'.paths : rly'.paths[e] = IF e = d THEN NoPath ELSE rly.paths[e]
    BY <2>1
  <2>4. \A e \in DOMAIN rly'.paths : PathOK(net, e, rly'.paths[e])
    BY <2>2, <2>3, <1>3
  <2> QED
    BY <2>1, <2>3, <2>4 DEF LinksOK
\* a path that is set to q, on a chain that has grown
<1>8. ASSUME d \in DOMAIN rly.paths, NEW q, rly' = [rly EXCEPT !.paths = [@ EXCEPT ![d] = q]] \/ (rly' = rly /\ q = p),
             ConnectedOK(net'), PathOK(net', d, q)
      PROVE  LinksOK(rly', net')
  <2>1. /\ rly'.chains = rly.chains /\ DOMAIN rly'.paths = DOMAIN rly.paths /\ rly'.paths[d] = q
        /\ \A e \in DOMAIN rly.paths : e # d => rly'.paths[e] = rly.paths[e]
    BY <1>8 DEF Rly
  <2> QED
    BY <1>4, <1>8, <2>1 DEF LinksOK
<1>9. /\ ConnectedOK(net) /\ Len(net.clients) \in Nat /\ Len(net.connections) \in Nat
      /\ Len(net.channels) \in Nat
  BY DEF LinksOK, Net
<1>10. CASE MakesClient(d) \/ LeavesClient(d)
  <2>1. d \in DOMAIN rly.paths /\ p \in Path /\ PathOK(net, d, p)
    BY <1>3, <1>10 DEF MakesClient, LeavesClient
  <2>2. CASE UNCHANGED <<rly, net>>
    BY <2>2
  <2>3. CASE net' = [net EXCEPT !.clients = Append(@, d)]
    <3>1. net'.clients = Append(net.clients, d) /\ net'.connections = net.connections /\ net'.channels = net.channels
      BY <2>3 DEF Net
    <3>2. Len(net'.clients) = Len(net.clients) + 1 /\ net'.clients[Len(net.clients) + 1] = d
      BY <3>1, AppendIs DEF Net
    <3>3. ConnectedOK(net')
      BY <3>1, <3>2, <1>9 DEF ConnectedOK
    <3>4. CASE rly' = rly
      BY <3>3, <3>4, <2>1, <1>4, <1>8
    <3>5. CASE p.client = 0 /\ rly' = [rly EXCEPT !.paths[d].client = Len(net.clients) + 1]
      <4> DEFINE q == [p EXCEPT !.client = Len(net.clients) + 1]
      <4>1. q.client = Len(net.clients) + 1 /\ q.connection = 0
        BY <3>5, <2>1 DEF PathOK, Path
      <4>2. PathOK(net', d, q)
        BY <4>1, <3>2, <1>9 DEF PathOK
      <4>3. rly' = [rly EXCEPT !.paths = [@ EXCEPT ![d] = q]]
        BY <3>5
      <4> HIDE DEF q
      <4> QED
        BY <4>2, <4>3, <3>3, <2>1, <1>8
    <3> QED
      BY <1>10, <2>3, <3>4, <3>5, <2>1 DEF MakesClient, LeavesClient, Path
  <2> QED
    BY <1>10, <2>2, <2>3 DEF MakesClient, LeavesClient
<1>11. CASE MakesConnection(d) \/ LeavesConnection(d)
  <2>1. d \in DOMAIN rly.paths /\ p \in Path /\ PathOK(net, d, p) /\ p.client # 0
    BY <1>3, <1>11 DEF MakesConnection, LeavesConnection
  <2>2. CASE UNCHANGED <<rly, net>>
    BY <2>2
  <2>3. CASE net' = [net EXCEPT !.connections = Append(@, p.client)]
    <3>1. /\ net'.connections = Append(net.connections, p.client)
          /\ net'.clients = net.clients /\ net'.channels = net.channels
      BY <2>3 DEF Net
    <3>2. /\ Len(net'.connections) = Len(net.connections) + 1
          /\ net'.connections[Len(net.connections) + 1] = p.client
          /\ \A i \in 1 .. Len(net.connections) : net'.connections[i] = net.connections[i]
      BY <3>1, <2>1, AppendIs DEF Net, Path
    <3>3. p.client \in 1 .. Len(net.clients)
      BY <2>1 DEF PathOK
    <3>4. ConnectedOK(net')
      BY <3>1, <3>2, <3>3, <1>9 DEF ConnectedOK
    <3>5. CASE rly' = rly
      BY <3>4, <3>5, <2>1, <1>4, <1>8
    <3>6. CASE rly' = [rly EXCEPT !.paths[d].connection = Len(net.connections) + 1]
      <4> DEFINE q == [p EXCEPT !.connection = Len(net.connections) + 1]
      <4>1. q.connection = Len(net.connections) + 1 /\ q.client = p.client
        BY <2>1 DEF Path
      <4>2. PathOK(net', d, q)
        BY <4>1, <3>1, <3>2, <2>1, <1>9 DEF PathOK
      <4>3. rly' = [rly EXCEPT !.paths = [@ EXCEPT ![d] = q]]
        BY <3>6
      <4> HIDE DEF q
      <4> QED
        BY <4>2, <4>3, <3>4, <2>1, <1>8
    <3> QED
      BY <1>11, <2>3, <3>5, <3>6, <2>1 DEF MakesConnection, LeavesConnection, Path
  <2> QED
    BY <1>11, <2>2, <2>3 DEF MakesConnection, LeavesConnection
<1>12. CASE MakesChannel(d)
  <2>1. d \in DOMAIN rly.paths /\ p \in Path /\ PathOK(net, d, p) /\ p.connection # 0 /\ rly' = rly
    BY <1>3, <1>12 DEF MakesChannel
  <2>2. CASE net' = net
    BY <2>1, <2>2
  <2>3. ASSUME NEW port \in {"transfer", "other"},
               net' = [net EXCEPT !.channels = Append(@, [connection |-> p.connection, port |-> port])]
        PROVE  LinksOK(rly', net')
    <3> DEFINE C == [connection : Nat, port : {"transfer", "other"}]
               c == [connection |-> p.connection, port |-> port]
    <3>1. /\ net'.channels = Append(net.channels, c)
          /\ net'.clients = net.clients /\ net'.connections = net.connections
      BY <2>3 DEF Net
    <3>2. c \in C /\ net.channels \in Seq(C) /\ c.connection = p.connection
      BY <2>1 DEF Path, Net
    <3>3. /\ Len(net'.channels) = Len(net.channels) + 1 /\ net'.channels[Len(net.channels) + 1] = c
          /\ \A i \in 1 .. Len(net.channels) : net'.channels[i] = net.channels[i]
      <4> HIDE DEF c, C
      <4> QED
        BY <3>1, <3>2, AppendIs
    <3>4. p.connection \in 1 .. Len(net.connections)
      BY <2>1 DEF PathOK
    <3> HIDE DEF c
    <3>5. ConnectedOK(net')
      BY <3>1, <3>2, <3>3, <3>4, <1>9 DEF ConnectedOK
    <3> QED
      BY <3>5, <2>1, <1>4, <1>8
  <2> QED
    BY <1>12, <2>2, <2>3 DEF MakesChannel
<1> QED
  BY <1>5, <1>6, <1>7, <1>10, <1>11, <1>12

\* What a Build has left: every path with its link, and every link with its path.
LEMMA BuildLinks ==
  ASSUME RInv, NewDockerRelayer
  PROVE  LinksOK(rly', net')
<1>1. CASE UNCHANGED <<rly, net>>
  BY <1>1 DEF RInv
<1>2. CASE ~UNCHANGED <<rly, net>>
  <2> DEFINE Link(p, d) == IF \E i \in DOMAIN p.linked : p.linked[i] = d
                           THEN CHOOSE i \in DOMAIN p.linked : p.linked[i] = d ELSE 0
             Given(p) == [d \in Dsts |-> IF d \in p.keys THEN "setup" ELSE None]
  <2>1. PICK p \in Progress :
          /\ net' = [clients |-> p.linked, connections |-> [i \in DOMAIN p.linked |-> i],
                     channels |-> [i \in DOMAIN p.linked |-> [connection |-> i, port |-> "transfer"]]]
          /\ rly' = [chains |-> p.chains, keys |-> Given(p),
                     paths |-> [d \in p.paths |-> [client |-> Link(p, d), connection |-> Link(p, d)]]]
    BY <1>2 DEF NewDockerRelayer
  <2>2. /\ p.chains \subseteq Dsts /\ p.paths \subseteq Dsts /\ p.linked \in Linkings
        /\ p.paths # {} => p.chains = Dsts
    BY DEF Progress
  <2> DEFINE l == p.linked  n == Len(l)
             Id == [i \in DOMAIN l |-> i]  Ch == [i \in DOMAIN l |-> [connection |-> i, port |-> "transfer"]]
             Ps == [d \in p.paths |-> [client |-> Link(p, d), connection |-> Link(p, d)]]
  <2>3. l \in Seq(Dsts) /\ DOMAIN l = 1 .. n /\ n \in Nat
    BY <2>2, LinkingsType
  <2>4. \A d \in p.paths : Link(p, d) # 0 => Link(p, d) \in 1 .. n /\ l[Link(p, d)] = d
    BY <2>3
  <2>5. /\ Len(Id) = n /\ \A i \in 1 .. n : Id[i] = i
        /\ Len(Ch) = n /\ \A i \in 1 .. n : Ch[i].connection = i
    BY <2>3
  <2>6. /\ net'.clients = l /\ net'.connections = Id /\ net'.channels = Ch
        /\ rly'.chains = p.chains /\ rly'.paths = Ps
    BY <2>1
  <2>7. DOMAIN Ps = p.paths /\ \A d \in p.paths : Ps[d].client = Link(p, d) /\ Ps[d].connection = Link(p, d)
    OBVIOUS
  <2> HIDE DEF l, n, Id, Ch, Ps, Link
  <2>8. Len(l) = n
    BY DEF n
  <2>9. ConnectedOK(net')
    BY <2>3, <2>5, <2>6, <2>8 DEF ConnectedOK
  <2>10. \A d \in p.paths : PathOK(net', d, Ps[d])
    BY <2>3, <2>4, <2>5, <2>6, <2>7, <2>8 DEF PathOK
  <2> QED
    BY <2>2, <2>6, <2>7, <2>9, <2>10 DEF LinksOK
<1> QED
  BY <1>1, <1>2

LEMMA NextRInv == RInv /\ [Next]_vars => RInv'
<1> SUFFICES ASSUME RInv, [Next]_vars PROVE RInv'
  OBVIOUS
<1>0. IInv' /\ IInv /\ BoundsInv /\ LinksOK(rly, net) /\ TypeInv
  BY NextInv DEF RInv, IInv
<1>1. CASE NewDockerRelayer
  <2>1. config' \in BOOLEAN /\ UNCHANGED <<calls, late>>
    BY <1>0, <1>1 DEF NewDockerRelayer, BoundsInv
  <2> QED
    BY <1>0, <1>1, <2>1, BuildLinks DEF RInv, BoundsInv
<1>2. ASSUME UNCHANGED <<config, rly, net>>, \A c \in Callers : calls'[c] <= MaxCalls[c],
             \A m \in late' : Busy(m)
      PROVE  RInv'
  BY <1>0, <1>2 DEF RInv, BoundsInv, LinksOK, ConnectedOK, PathOK
<1>3. ASSUME NEW c \in Callers, NEW o \in CallsOf[c], Call(c, o[1], o[2]) PROVE RInv'
  <2>1. UNCHANGED <<config, rly, net, late>> /\ calls' = [calls EXCEPT ![c] = @ + 1] /\ calls[c] < MaxCalls[c]
    BY <1>3 DEF Call
  <2>2. calls[c] \in Nat /\ MaxCalls[c] \in Nat
    BY <1>0, CommandsAssumption DEF TypeInv
  <2>3. \A e \in Callers : calls'[e] <= MaxCalls[e]
    BY <1>0, <2>1, <2>2 DEF TypeInv, BoundsInv
  <2> QED
    BY <1>0, <1>2, <2>1, <2>3 DEF BoundsInv
<1>4. ASSUME NEW c \in Callers, WriteConfig(c) \/ ExecEnds(c) \/ Returns(c) PROVE RInv'
  <2>1. UNCHANGED <<config, rly, net, calls>>
    BY <1>4 DEF WriteConfig, ExecEnds, Returns, CommandReturns, KeyReturns, ClientsListed,
       ConnectionsListed, ChannelsListed, Listed, ExecReturns, CallVars
  <2>2. late' = late \/ \E m : Busy(m) /\ late' = late \cup {m}
    BY <1>4 DEF WriteConfig, ExecEnds, Returns, CommandReturns, KeyReturns, ClientsListed,
       ConnectionsListed, ChannelsListed, Listed, ExecReturns
  <2>3. \A m \in late' : Busy(m)
    BY <1>0, <2>2 DEF BoundsInv
  <2> QED
    BY <1>0, <1>2, <2>1, <2>3 DEF BoundsInv
<1>5. ASSUME NEW c \in Callers, Work(c) PROVE RInv'
  <2>1. Cmd(c) \in Command /\ Dst(c) \in Dsts /\ (Stage(Cmd(c)) \/ StageFails(Cmd(c)))
    BY <1>0, <1>5 DEF IInv, TypeInv, CallRecord, CallerInv, CommandInv, Work, Cmd, Dst
  <2>2. LinksOK(rly', net')
    BY <1>0, <2>1, StageLinks DEF TypeInv, Cmd, Dst
  <2>3. UNCHANGED <<config, calls, late>>
    BY <1>5 DEF Work, Outside
  <2> QED
    BY <1>0, <2>2, <2>3 DEF RInv, BoundsInv
<1>6. ASSUME NEW m \in late, WorkLate(m) PROVE RInv'
  <2>1. m \in Command /\ m.dst \in Dsts /\ (Stage(m) \/ StageFails(m))
    BY <1>0, <1>6 DEF TypeInv, Late, WorkLate
  <2>2. LinksOK(rly', net')
    BY <1>0, <2>1, StageLinks DEF TypeInv
  <2>3. UNCHANGED <<config, calls>> /\ \A k \in late' : k \in late \/ Busy(k)
    BY <1>6 DEF WorkLate, Outside
  <2> QED
    BY <1>0, <2>2, <2>3 DEF RInv, BoundsInv
<1>7. CASE UNCHANGED vars
  BY <1>0, <1>2, <1>7 DEF vars, BoundsInv
<1> QED
  BY <1>1, <1>3, <1>4, <1>5, <1>6, <1>7 DEF Next

\* Every variable stays in its domain, and what the relayer's paths and the
\* chain's channels refer to is there, whatever command fails half-way or takes
\* effect late.
THEOREM TypeCorrect == Spec => []TypeOK
<1>1. Init => RInv
  <2> SUFFICES ASSUME Init PROVE RInv
    OBVIOUS
  <2>1. BoundsInv
    BY CommandsAssumption DEF Init, BoundsInv
  <2>2. LinksOK(rly, net)
    BY DEF Init, LinksOK, ConnectedOK
  <2> QED
    BY <2>1, <2>2, InitInv DEF RInv
<1>2. RInv => TypeOK
  <2> SUFFICES ASSUME RInv PROVE TypeOK
    OBVIOUS
  <2>1. TypeInv /\ BoundsInv /\ LinksOK(rly, net)
    BY DEF RInv, IInv
  <2>2. /\ net.clients \in Seq(Dsts) /\ DOMAIN net.clients = 1 .. Len(net.clients)
        /\ DOMAIN net.connections = 1 .. Len(net.connections) /\ DOMAIN net.channels = 1 .. Len(net.channels)
    BY <2>1 DEF TypeInv, Net
  <2>3. rly.chains \subseteq Dsts /\ DOMAIN rly.keys = Dsts /\ DOMAIN wallets = Dsts
    BY <2>1 DEF TypeInv, Rly
  <2>4. \A c \in Callers : /\ call[c].pc \in {"idle", "write", "exec", "returned"}
                           /\ call[c].op \in Operations \cup {"none"}
    BY <2>1 DEF TypeInv, CallRecord
  <2>5. \A d \in DOMAIN rly.paths :
          /\ rly.paths[d].client # 0 => net.clients[rly.paths[d].client] = d
          /\ rly.paths[d].connection # 0 =>
               rly.paths[d].client # 0 /\ net.connections[rly.paths[d].connection] = rly.paths[d].client
    BY <2>1 DEF LinksOK, PathOK
  <2> QED
    BY <2>1, <2>2, <2>3, <2>4, <2>5 DEF TypeOK, TypeInv, BoundsInv, LinksOK, ConnectedOK
<1> QED
  BY <1>1, <1>2, NextRInv, PTL DEF Spec
=============================================================================
