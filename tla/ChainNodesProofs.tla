-------------------------- MODULE ChainNodesProofs --------------------------
(***************************************************************************)
(* Proofs about ChainNodes, for any configurations, any number of queries  *)
(* and of operations.                                                      *)
(***************************************************************************)
EXTENDS ChainNodes, SequenceTheorems, TLAPS

Restart == {"StartAllNodes", "StartAllSidecars"}

\* Who is in a critical section of findTxMu holds it.
LockInv ==
  /\ lock \in Clients \cup {None, "test"}
  /\ \A k \in Clients : at[k] = "query" => lock = k
  /\ op \in Restart => lock = "test"

PlacesOK == at \in [Clients -> {"idle", "picked", "query", "panicked"}]

IInv == PlacesOK /\ LockInv

\* A docker call, of whichever goroutine, moves neither the lock, nor the
\* operation, nor a query.
LEMMA DockerCallKeeps ==
  ASSUME NEW p \in Processes, DockerCall(p)
  PROVE  UNCHANGED <<lock, op, at>>
<1>1. CASE EnsureRunning(p)
  BY <1>1 DEF EnsureRunning, clientVars
<1>2. (\E ok \in BOOLEAN : Made(p, ok)) => UNCHANGED <<lock, op, at>>
  BY DEF Made, clientVars
<1>3. CASE CreateContainer(p)
  BY <1>2, <1>3 DEF CreateContainer
<1>4. CASE StartContainer(p)
  BY <1>2, <1>4 DEF StartContainer
<1>5. CASE StopContainer(p)
  BY <1>2, <1>5 DEF StopContainer
<1>6. CASE RemoveContainer(p)
  BY <1>2, <1>6 DEF RemoveContainer
<1> QED
  BY <1>1, <1>3, <1>4, <1>5, <1>6 DEF DockerCall

\* Every operation of the test keeps the invariant: those that restart have
\* taken findTxMu when it was free, and give it back when they return.
LEMMA OperationIInv ==
  ASSUME IInv,
         \/ CallStart \/ ThenStart \/ Return \/ StopAllNodes \/ StartAllNodes
         \/ AddFullNodes \/ StopAllSidecars \/ StartAllSidecars
  PROVE  IInv'
<1> USE NodesAssumption
<1> USE DEF IInv, PlacesOK, LockInv, Restart, Call, clientVars
<1>1. CASE CallStart \/ StopAllNodes \/ StopAllSidecars
  BY <1>1 DEF CallStart, StopAllNodes, StopAllSidecars
<1>2. CASE ThenStart
  BY <1>2 DEF ThenStart
<1>3. CASE Return
  BY <1>3 DEF Return
<1>4. CASE StartAllNodes \/ StartAllSidecars
  BY <1>4 DEF StartAllNodes, StartAllSidecars
<1>5. CASE AddFullNodes
  BY <1>5 DEF AddFullNodes
<1> QED
  BY <1>1, <1>2, <1>3, <1>4, <1>5

\* So do the queries of the other goroutines.
LEMMA ClientIInv ==
  ASSUME IInv, NEW k \in Clients, ClientStep(k)
  PROVE  IInv'
<1> USE NodesAssumption
<1> USE DEF IInv, PlacesOK, LockInv, Restart, Unchanged, opVars
<1>1. CASE PickNode(k)
  BY <1>1 DEF PickNode
<1>2. CASE LockQuery(k)
  BY <1>2 DEF LockQuery
<1>3. CASE FindTxs(k)
  BY <1>3 DEF FindTxs
<1> QED
  BY <1>1, <1>2, <1>3 DEF ClientStep

\* No query is under way while StartAllNodes or StartAllSidecars replaces the
\* containers, for any number of querying goroutines.
THEOREM QueryExclusion == Spec => []NoQueryDuringRestart
<1>1. Init => IInv
  BY NodesAssumption DEF Init, IInv, PlacesOK, LockInv, Restart
<1>2. IInv /\ [Next]_vars => IInv'
  <2> SUFFICES ASSUME IInv, [Next]_vars PROVE IInv'
    OBVIOUS
  <2>1. CASE UNCHANGED <<lock, op, at>>
    BY <2>1 DEF IInv, PlacesOK, LockInv
  <2>2. UNCHANGED vars => UNCHANGED <<lock, op, at>>
    BY DEF vars, opVars, clientVars
  <2> QED
    BY <2>1, <2>2, DockerCallKeeps, OperationIInv, ClientIInv DEF Next
<1>3. IInv => NoQueryDuringRestart
  BY NodesAssumption DEF IInv, LockInv, Restart, NoQueryDuringRestart
<1> QED
  BY <1>1, <1>2, <1>3, PTL DEF Spec
-----------------------------------------------------------------------------
(* What the goroutines of an operation have still to do, and what they have  *)
(* done.                                                                     *)

StartOps == {"Start", "StartAllNodes", "AddFullNodes"}

\* The calls the goroutine of p may have left in operation o.
Listed(o, p, l) ==
  \/ l = <<>>
  \/ p \in Nodes /\ o = "Create" /\ l = <<Do("create", p)>>
  \/ p \in Nodes /\ o \in StartOps /\ l = <<Do("start", p)>>
  \/ p \in Nodes /\ o \in StartOps /\ cfg.side /\ l = <<Do("start", SideOf(p)), Do("start", p)>>
  \/ p \in Nodes /\ o \in StartOps /\ cfg.side
     /\ l = <<Do("create", SideOf(p)), Do("start", SideOf(p)), Do("start", p)>>
  \/ p \in Nodes /\ o \in StartOps /\ cfg.side /\ l = <<Do("ensure", SideOf(p)), Do("start", p)>>
  \/ p \in Nodes /\ o \in StartOps \ {"Start"} /\ ~cfg.side /\ l = <<Do("create", p), Do("start", p)>>
  \/ p \in Nodes /\ o \in StartOps \ {"Start"} /\ cfg.side
     /\ l = <<Do("create", p), Do("ensure", SideOf(p)), Do("start", p)>>
  \/ p \in Nodes /\ o = "StopAllNodes" /\ l = <<Do("remove", p)>>
  \/ p \in Nodes /\ o = "StopAllNodes" /\ ~cfg.side /\ l = <<Do("stop", p), Do("remove", p)>>
  \/ p \in Nodes /\ o = "StopAllNodes" /\ cfg.side /\ l = <<Do("remove", SideOf(p)), Do("remove", p)>>
  \/ p \in Nodes /\ o = "StopAllNodes" /\ cfg.side
     /\ l = <<Do("stop", p), Do("remove", SideOf(p)), Do("remove", p)>>
  \/ p \in Nodes /\ o = "StopAllNodes" /\ cfg.side
     /\ l = <<Do("stop", SideOf(p)), Do("stop", p), Do("remove", SideOf(p)), Do("remove", p)>>
  \/ p \in ChainSides /\ o = "StopAllSidecars" /\ l = <<Do("stop", p), Do("remove", p)>>
  \/ p \in ChainSides /\ o = "StopAllSidecars" /\ l = <<Do("remove", p)>>
  \/ p \in ChainSides /\ o = "StartAllSidecars" /\ l = <<Do("ensure", p)>>
  \/ p \in ChainSides /\ o = "StartAllSidecars" /\ l = <<Do("create", p), Do("start", p)>>
  \/ p \in ChainSides /\ o = "StartAllSidecars" /\ l = <<Do("start", p)>>

Faces(p, c) == todo[p] # <<>> /\ todo[p][1] = c

Ops == {"none", "Create", "Start", "StopAllNodes", "StartAllNodes", "AddFullNodes",
        "StopAllSidecars", "StartAllSidecars"}

\* The variables a step may use as functions are functions.
Typed ==
  /\ cfg \in Configs /\ full \in Nat /\ wanted \in Nat
  /\ cfg.full <= full /\ full <= wanted /\ wanted <= cfg.full + cfg.adds
  /\ box \in [Processes -> {"none", "created", "running", "stopped"}]
  /\ run \in [AllNodes -> Nat] /\ client \in [AllNodes -> Nat] /\ cmd \in [AllNodes -> BOOLEAN]
  /\ op \in Ops /\ ops \in 0 .. MaxOps /\ err \in BOOLEAN /\ started \in BOOLEAN
  /\ DOMAIN todo = Processes

ListsOK == \A p \in Processes : Listed(op, p, todo[p])

\* A container is created once in an operation, and a client comes from one.
RunsOK ==
  \A n \in AllNodes : /\ client[n] <= run[n] /\ run[n] <= ops
                      /\ Faces(n, Do("create", n)) => run[n] < ops

\* A goroutine that comes to start its node has the node's sidecar running.
SidesOK ==
  op \in StartOps /\ cfg.side =>
    \A n \in Nodes : Faces(n, Do("start", n)) => box[SideOf(n)] = "running"

\* What a goroutine that has not failed has achieved.
Achieved(n) ==
  /\ op = "Create" /\ ~err /\ todo[n] = <<>> => run[n] > 0 /\ cmd[n]
  /\ op = "Start" => run[n] > 0 /\ cmd[n]
  /\ op = "StartAllNodes" /\ ~err /\ ~Faces(n, Do("create", n)) => (cmd[n] <=> ~cfg.gm)
  /\ op \in {"Start", "StartAllNodes"} /\ ~err /\ todo[n] = <<>> =>
       box[n] = "running" /\ client[n] = run[n]

\* Queries go to the first full node, which has a client once Start is done.
ClientOK ==
  /\ node \in [Clients -> AllNodes \cup {None}]
  /\ cfg.full > 0 =>
       /\ started => client[Full(0)] > 0
       /\ \A k \in Clients : at[k] \in {"picked", "query"} => started /\ node[k] = Full(0)

NInv ==
  /\ IInv /\ Typed /\ ListsOK /\ RunsOK /\ SidesOK /\ \A n \in Nodes : Achieved(n)
  /\ RestartComplete /\ ClientOK


\* Lists of up to four calls: their first one, the rest, and how they are joined.
LEMMA Lists ==
  \A a, b, c, d :
    /\ <<a>> # <<>> /\ <<a>>[1] = a /\ Tail(<<a>>) = <<>>
    /\ <<a, b>> # <<>> /\ <<a, b>>[1] = a /\ Tail(<<a, b>>) = <<b>>
    /\ <<a, b, c>> # <<>> /\ <<a, b, c>>[1] = a /\ Tail(<<a, b, c>>) = <<b, c>>
    /\ <<a, b, c, d>> # <<>> /\ <<a, b, c, d>>[1] = a /\ Tail(<<a, b, c, d>>) = <<b, c, d>>
OBVIOUS

LEMMA ConcatIs ==
  ASSUME NEW S, NEW s \in Seq(S), NEW t \in Seq(S), NEW u \in Seq(S), Len(u) = Len(s) + Len(t),
         \A i \in 1 .. Len(s) : u[i] = s[i], \A i \in 1 .. Len(t) : u[Len(s) + i] = t[i]
  PROVE  s \o t = u
<1> DEFINE v == s \o t
<1>1. v \in Seq(S) /\ Len(v) = Len(u) /\ \A i \in 1 .. Len(s) + Len(t) : v[i] = IF i <= Len(s) THEN s[i] ELSE t[i - Len(s)]
  BY ConcatProperties
<1>2. Len(s) \in Nat /\ Len(t) \in Nat
  OBVIOUS
<1> HIDE DEF v
<1>3. ASSUME NEW i \in 1 .. Len(v) PROVE v[i] = u[i]
  <2>1. CASE i <= Len(s)
    BY <1>1, <1>2, <2>1
  <2>2. CASE ~(i <= Len(s))
    <3> DEFINE j == i - Len(s)
    <3>1. j \in 1 .. Len(t) /\ i = Len(s) + j
      BY <1>1, <1>2, <2>2
    <3> HIDE DEF j
    <3>2. u[i] = t[j]
      BY <3>1
    <3>3. v[i] = t[i - Len(s)]
      BY <1>1, <1>2, <2>2
    <3> QED
      BY <3>2, <3>3 DEF j
  <2> QED
    BY <2>1, <2>2
<1>4. v = u
  BY <1>1, <1>3, SeqEqual
<1> QED
  BY <1>4 DEF v

LEMMA Joins ==
  /\ \A a : <<>> \o <<a>> = <<a>>
  /\ <<>> \o <<>> = <<>> /\ \A a, b : <<a, b>> \o <<>> = <<a, b>>
  /\ \A a, b : <<a>> \o <<b>> = <<a, b>>
  /\ \A a, b, c : <<a>> \o <<b, c>> = <<a, b, c>>
  /\ \A a, b, c : <<a, b>> \o <<c>> = <<a, b, c>>
  /\ \A a, b, c, d : <<a, b>> \o <<c, d>> = <<a, b, c, d>>
<1>1. ASSUME NEW a PROVE <<>> \o <<a>> = <<a>>
  <2> DEFINE S == {a}
  <2>1. <<a>> \in Seq(S)
    OBVIOUS
  <2> QED
    BY <2>1, ConcatEmptySeq
<1>2. ASSUME NEW a, NEW b PROVE <<a>> \o <<b>> = <<a, b>>
  <2> DEFINE S == {a, b}  l == <<a>>  r == <<b>>  k == <<a, b>>
  <2>0. a \in S /\ b \in S
    OBVIOUS
  <2> HIDE DEF S
  <2>1. /\ l \in Seq(S) /\ r \in Seq(S) /\ k \in Seq(S)
        /\ Len(l) = 1 /\ Len(r) = 1 /\ Len(k) = 2
        /\ l[1] = a /\ r[1] = b
        /\ k[1] = a /\ k[2] = b
    BY <2>0
  <2> HIDE DEF l, r, k
  <2>2. \A i \in 1 .. Len(l) : k[i] = l[i]
    BY <2>1
  <2>3. \A i \in 1 .. Len(r) : k[Len(l) + i] = r[i]
    BY <2>1
  <2>4. l \in Seq(S) /\ r \in Seq(S) /\ k \in Seq(S) /\ Len(k) = Len(l) + Len(r)
    BY <2>1
  <2>5. l \o r = k
    BY <2>2, <2>3, <2>4, ConcatIs, Zenon
  <2> QED
    BY <2>5 DEF l, r, k
<1>3. ASSUME NEW a, NEW b, NEW c PROVE <<a>> \o <<b, c>> = <<a, b, c>>
  <2> DEFINE S == {a, b, c}  l == <<a>>  r == <<b, c>>  k == <<a, b, c>>
  <2>0. a \in S /\ b \in S /\ c \in S
    OBVIOUS
  <2> HIDE DEF S
  <2>1. /\ l \in Seq(S) /\ r \in Seq(S) /\ k \in Seq(S)
        /\ Len(l) = 1 /\ Len(r) = 2 /\ Len(k) = 3
        /\ l[1] = a /\ r[1] = b /\ r[2] = c
        /\ k[1] = a /\ k[2] = b /\ k[3] = c
    BY <2>0
  <2> HIDE DEF l, r, k
  <2>2. \A i \in 1 .. Len(l) : k[i] = l[i]
    BY <2>1
  <2>3. \A i \in 1 .. Len(r) : k[Len(l) + i] = r[i]
    BY <2>1
  <2>4. l \in Seq(S) /\ r \in Seq(S) /\ k \in Seq(S) /\ Len(k) = Len(l) + Len(r)
    BY <2>1
  <2>5. l \o r = k
    BY <2>2, <2>3, <2>4, ConcatIs, Zenon
  <2> QED
    BY <2>5 DEF l, r, k
<1>4. ASSUME NEW a, NEW b, NEW c PROVE <<a, b>> \o <<c>> = <<a, b, c>>
  <2> DEFINE S == {a, b, c}  l == <<a, b>>  r == <<c>>  k == <<a, b, c>>
  <2>0. a \in S /\ b \in S /\ c \in S
    OBVIOUS
  <2> HIDE DEF S
  <2>1. /\ l \in Seq(S) /\ r \in Seq(S) /\ k \in Seq(S)
        /\ Len(l) = 2 /\ Len(r) = 1 /\ Len(k) = 3
        /\ l[1] = a /\ l[2] = b /\ r[1] = c
        /\ k[1] = a /\ k[2] = b /\ k[3] = c
    BY <2>0
  <2> HIDE DEF l, r, k
  <2>2. \A i \in 1 .. Len(l) : k[i] = l[i]
    BY <2>1
  <2>3. \A i \in 1 .. Len(r) : k[Len(l) + i] = r[i]
    BY <2>1
  <2>4. l \in Seq(S) /\ r \in Seq(S) /\ k \in Seq(S) /\ Len(k) = Len(l) + Len(r)
    BY <2>1
  <2>5. l \o r = k
    BY <2>2, <2>3, <2>4, ConcatIs, Zenon
  <2> QED
    BY <2>5 DEF l, r, k
<1>5. ASSUME NEW a, NEW b, NEW c, NEW d PROVE <<a, b>> \o <<c, d>> = <<a, b, c, d>>
  <2> DEFINE S == {a, b, c, d}  l == <<a, b>>  r == <<c, d>>  k == <<a, b, c, d>>
  <2>0. a \in S /\ b \in S /\ c \in S /\ d \in S
    OBVIOUS
  <2> HIDE DEF S
  <2>1. /\ l \in Seq(S) /\ r \in Seq(S) /\ k \in Seq(S)
        /\ Len(l) = 2 /\ Len(r) = 2 /\ Len(k) = 4
        /\ l[1] = a /\ l[2] = b /\ r[1] = c /\ r[2] = d
        /\ k[1] = a /\ k[2] = b /\ k[3] = c /\ k[4] = d
    BY <2>0
  <2> HIDE DEF l, r, k
  <2>2. \A i \in 1 .. Len(l) : k[i] = l[i]
    BY <2>1
  <2>3. \A i \in 1 .. Len(r) : k[Len(l) + i] = r[i]
    BY <2>1
  <2>4. l \in Seq(S) /\ r \in Seq(S) /\ k \in Seq(S) /\ Len(k) = Len(l) + Len(r)
    BY <2>1
  <2>5. l \o r = k
    BY <2>2, <2>3, <2>4, ConcatIs, Zenon
  <2> QED
    BY <2>5 DEF l, r, k
<1>6. ASSUME NEW a, NEW b PROVE <<>> \o <<>> = <<>> /\ <<a, b>> \o <<>> = <<a, b>>
  <2> DEFINE S == {a, b}
  <2>1. <<a, b>> \in Seq(S) /\ <<>> \in Seq(S)
    OBVIOUS
  <2> QED
    BY <2>1, ConcatEmptySeq
<1> QED
  BY <1>1, <1>2, <1>3, <1>4, <1>5, <1>6, Zenon

\* Nodes, their sidecars and the chain's are told apart by their kinds.
LEMMA Kinds ==
  /\ \A n \in AllNodes : SideOf(n) \notin AllNodes /\ SideOf(n) \in Processes /\ n \in Processes
                         /\ SideOf(n) # n
  /\ \A n, m \in AllNodes : SideOf(n) = SideOf(m) => n = m
  /\ \A s \in ChainSides : s \notin AllNodes /\ s \in Processes
<1>1. \A n \in AllNodes : \E i \in Nat : n = <<"val", i>> \/ n = <<"fn", i>>
  BY NodesAssumption DEF AllNodes, ConfigType, Val, Full
<1>2. \A s \in ChainSides : s[1] = "side"
  BY DEF ChainSides
<1>3. \A n \in AllNodes : n[1] \in {"val", "fn"} /\ SideOf(n)[1] \in {"val-side", "fn-side"}
  BY <1>1 DEF SideOf
<1>4. \A n, m \in AllNodes : SideOf(n) = SideOf(m) => n = m
  BY <1>1 DEF SideOf
<1> QED
  BY <1>2, <1>3, <1>4 DEF Processes

\* The nodes of the chain are among those that may ever be, with the first full
\* node once there is one.
LEMMA NodesKnown ==
  ASSUME Typed
  PROVE  /\ Nodes \subseteq AllNodes /\ GetNode \in Nodes
         /\ cfg.full > 0 => Full(0) \in Nodes /\ GetNode = Full(0)
         /\ cfg \in ConfigType
         /\ wanted < cfg.full + cfg.adds => Full(wanted) \in AllNodes
<1>1. cfg \in Configs /\ cfg \in ConfigType
  BY NodesAssumption DEF Typed
<1>2. cfg.vals \in Nat \ {0} /\ cfg.full \in Nat /\ cfg.adds \in Nat
  BY <1>1 DEF ConfigType
<1>3. full \in Nat /\ wanted \in Nat /\ cfg.full <= full /\ full <= wanted /\ wanted <= cfg.full + cfg.adds
  BY DEF Typed
<1>4. \A i \in 0 .. cfg.vals - 1 : Val(i) \in AllNodes
  BY <1>1 DEF AllNodes
<1>5. \A i \in 0 .. cfg.full + cfg.adds - 1 : Full(i) \in AllNodes
  BY <1>1 DEF AllNodes
<1>6. Nodes \subseteq AllNodes
  <2>1. \A i \in 0 .. full - 1 : Full(i) \in AllNodes
    BY <1>2, <1>3, <1>5
  <2> QED
    BY <2>1, <1>4 DEF Nodes
<1>7. GetNode \in Nodes /\ (full > 0 => Full(0) \in Nodes)
  BY <1>2, <1>3 DEF GetNode, Nodes
<1>8. wanted < cfg.full + cfg.adds => Full(wanted) \in AllNodes
  BY <1>2, <1>3, <1>5
<1>9. cfg.full > 0 => full > 0
  BY <1>2, <1>3
<1> QED
  BY <1>1, <1>6, <1>7, <1>8, <1>9 DEF GetNode

\* The same of the nodes after a step.
LEMMA NodesIn ==
  ASSUME Typed'
  PROVE  Nodes' \subseteq AllNodes
<1>1. cfg' \in Configs /\ cfg' \in ConfigType
  BY NodesAssumption DEF Typed
<1>2. cfg'.vals \in Nat \ {0} /\ cfg'.full \in Nat /\ cfg'.adds \in Nat
  BY <1>1 DEF ConfigType
<1>3. full' \in Nat /\ wanted' \in Nat /\ full' <= wanted' /\ wanted' <= cfg'.full + cfg'.adds
  BY DEF Typed
<1>4. \A i \in 0 .. cfg'.vals - 1 : Val(i) \in AllNodes
  BY <1>1 DEF AllNodes
<1>5. \A i \in 0 .. cfg'.full + cfg'.adds - 1 : Full(i) \in AllNodes
  BY <1>1 DEF AllNodes
<1>6. \A i \in 0 .. full' - 1 : Full(i) \in AllNodes
  <2> DEFINE f == full'  b == cfg'.full + cfg'.adds
  <2>1. f \in Nat /\ b \in Nat /\ f <= b /\ \A i \in 0 .. b - 1 : Full(i) \in AllNodes
    BY <1>2, <1>3, <1>5
  <2> HIDE DEF f, b
  <2>2. \A i \in 0 .. f - 1 : Full(i) \in AllNodes
    BY <2>1
  <2> QED
    BY <2>2 DEF f
<1> QED
  BY <1>4, <1>6 DEF Nodes

\* The first of the calls left, and what is left after it.
LEMMA Heads ==
  ASSUME NEW p \in Processes, NEW l, Listed(op, p, l), l # <<>>
  PROVE  LET call == l[1]  rest == Tail(l) IN
         /\ Listed(op, p, rest)
         /\ \/ p \in Nodes /\ op = "Create" /\ call = Do("create", p) /\ rest = <<>>
            \/ p \in Nodes /\ op \in StartOps /\ call = Do("start", p) /\ rest = <<>>
            \/ p \in Nodes /\ op \in StartOps /\ cfg.side /\ call = Do("start", SideOf(p))
               /\ rest = <<Do("start", p)>>
            \/ p \in Nodes /\ op \in StartOps /\ cfg.side /\ call = Do("create", SideOf(p))
               /\ rest = <<Do("start", SideOf(p)), Do("start", p)>>
            \/ p \in Nodes /\ op \in StartOps /\ cfg.side /\ call = Do("ensure", SideOf(p))
               /\ rest = <<Do("start", p)>>
            \/ p \in Nodes /\ op \in StartOps \ {"Start"} /\ ~cfg.side /\ call = Do("create", p)
               /\ rest = <<Do("start", p)>>
            \/ p \in Nodes /\ op \in StartOps \ {"Start"} /\ cfg.side /\ call = Do("create", p)
               /\ rest = <<Do("ensure", SideOf(p)), Do("start", p)>>
            \/ /\ op \in {"StopAllNodes", "StopAllSidecars"} /\ p \in Nodes \cup ChainSides
               /\ \E what \in {"stop", "remove"} :
                    call = Do(what, p) \/ (p \in Nodes /\ call = Do(what, SideOf(p)))
            \/ p \in ChainSides /\ op = "StartAllSidecars" /\ call = Do("ensure", p) /\ rest = <<>>
            \/ p \in ChainSides /\ op = "StartAllSidecars" /\ call = Do("create", p)
               /\ rest = <<Do("start", p)>>
            \/ p \in ChainSides /\ op = "StartAllSidecars" /\ call = Do("start", p) /\ rest = <<>>
<1> USE Lists
<1>1. CASE p \in Nodes /\ op = "Create" /\ l = <<Do("create", p)>>
  BY <1>1 DEF Listed
<1>2. CASE p \in Nodes /\ op \in StartOps /\ l = <<Do("start", p)>>
  BY <1>2 DEF Listed
<1>3. CASE p \in Nodes /\ op \in StartOps /\ cfg.side /\ l = <<Do("start", SideOf(p)), Do("start", p)>>
  BY <1>3 DEF Listed
<1>4. CASE p \in Nodes /\ op \in StartOps /\ cfg.side
           /\ l = <<Do("create", SideOf(p)), Do("start", SideOf(p)), Do("start", p)>>
  BY <1>4 DEF Listed
<1>5. CASE p \in Nodes /\ op \in StartOps /\ cfg.side /\ l = <<Do("ensure", SideOf(p)), Do("start", p)>>
  BY <1>5 DEF Listed
<1>6. CASE p \in Nodes /\ op \in StartOps \ {"Start"} /\ ~cfg.side /\ l = <<Do("create", p), Do("start", p)>>
  BY <1>6 DEF Listed
<1>7. CASE p \in Nodes /\ op \in StartOps \ {"Start"} /\ cfg.side
           /\ l = <<Do("create", p), Do("ensure", SideOf(p)), Do("start", p)>>
  BY <1>7 DEF Listed
<1>8. CASE p \in Nodes /\ op = "StopAllNodes" /\ l = <<Do("remove", p)>>
  BY <1>8 DEF Listed
<1>9. CASE p \in Nodes /\ op = "StopAllNodes" /\ ~cfg.side /\ l = <<Do("stop", p), Do("remove", p)>>
  BY <1>9 DEF Listed
<1>10. CASE p \in Nodes /\ op = "StopAllNodes" /\ cfg.side /\ l = <<Do("remove", SideOf(p)), Do("remove", p)>>
  BY <1>10 DEF Listed
<1>11. CASE p \in Nodes /\ op = "StopAllNodes" /\ cfg.side
            /\ l = <<Do("stop", p), Do("remove", SideOf(p)), Do("remove", p)>>
  BY <1>11 DEF Listed
<1>12. CASE p \in Nodes /\ op = "StopAllNodes" /\ cfg.side
            /\ l = <<Do("stop", SideOf(p)), Do("stop", p), Do("remove", SideOf(p)), Do("remove", p)>>
  BY <1>12 DEF Listed
<1>13. CASE p \in ChainSides /\ op = "StopAllSidecars" /\ l = <<Do("stop", p), Do("remove", p)>>
  BY <1>13 DEF Listed
<1>14. CASE p \in ChainSides /\ op = "StopAllSidecars" /\ l = <<Do("remove", p)>>
  BY <1>14 DEF Listed
<1>15. CASE p \in ChainSides /\ op = "StartAllSidecars" /\ l = <<Do("ensure", p)>>
  BY <1>15 DEF Listed
<1>16. CASE p \in ChainSides /\ op = "StartAllSidecars" /\ l = <<Do("create", p), Do("start", p)>>
  BY <1>16 DEF Listed
<1>17. CASE p \in ChainSides /\ op = "StartAllSidecars" /\ l = <<Do("start", p)>>
  BY <1>17 DEF Listed
<1> QED
  BY <1>1, <1>2, <1>3, <1>4, <1>5, <1>6, <1>7, <1>8, <1>9, <1>10, <1>11, <1>12, <1>13, <1>14,
     <1>15, <1>16, <1>17 DEF Listed


\* The calls that the goroutines of an operation begin with.
LEMMA Begun ==
  ASSUME NEW o \in Ops \ {"none"}, NEW S,
         o \in {"StopAllSidecars", "StartAllSidecars"} => S \subseteq ChainSides,
         o \in {"Create", "Start", "StopAllNodes", "StartAllNodes"} => S \subseteq Nodes
  PROVE  /\ o # "AddFullNodes" => \A p \in Processes : Listed(o, p, Goroutines(o, S)[p])
         /\ DOMAIN Goroutines(o, S) = Processes
         /\ \A p \in S \cap Processes : Goroutines(o, S)[p] # <<>>
         /\ o = "Start" => \A p \in S \cap Processes :
              /\ Goroutines(o, S)[p][1] # Do("create", p)
              /\ cfg.side => Goroutines(o, S)[p][1] = Do("ensure", SideOf(p))
         /\ o \in {"Create", "StartAllNodes", "AddFullNodes"} => \A p \in S \cap Processes :
              Goroutines(o, S)[p][1] = Do("create", p)
         /\ o = "AddFullNodes" => \A p \in S \cap Processes :
              Goroutines(o, S)[p] = IF cfg.side THEN <<Do("create", p), Do("ensure", SideOf(p)), Do("start", p)>>
                                    ELSE <<Do("create", p), Do("start", p)>>
         /\ \A p \in Processes \ S : Goroutines(o, S)[p] = <<>>
<1> DEFINE G == Goroutines(o, S)
<1>1. /\ DOMAIN G = Processes
      /\ \A p \in S \cap Processes : G[p] = Calls(o, p)
      /\ \A p \in Processes \ S : G[p] = <<>>
  BY DEF Goroutines
<1> HIDE DEF G
<1>2. ASSUME NEW p
      PROVE  /\ Calls("Create", p) = <<Do("create", p)>>
             /\ Calls("Start", p) = IF cfg.side THEN <<Do("ensure", SideOf(p)), Do("start", p)>>
                                    ELSE <<Do("start", p)>>
             /\ \A c \in {"StartAllNodes", "AddFullNodes"} :
                  Calls(c, p) = IF cfg.side THEN <<Do("create", p), Do("ensure", SideOf(p)), Do("start", p)>>
                                ELSE <<Do("create", p), Do("start", p)>>
             /\ Calls("StopAllNodes", p) =
                  IF cfg.side THEN <<Do("stop", SideOf(p)), Do("stop", p), Do("remove", SideOf(p)), Do("remove", p)>>
                  ELSE <<Do("stop", p), Do("remove", p)>>
             /\ Calls("StopAllSidecars", p) = <<Do("stop", p), Do("remove", p)>>
             /\ Calls("StartAllSidecars", p) = <<Do("ensure", p)>>
  <2>1. StartNode(p) = IF cfg.side THEN <<Do("ensure", SideOf(p)), Do("start", p)>> ELSE <<Do("start", p)>>
    BY Joins DEF StartNode, With
  <2>2. StopNode(p) = IF cfg.side THEN <<Do("stop", SideOf(p)), Do("stop", p)>> ELSE <<Do("stop", p)>>
    BY Joins DEF StopNode, With
  <2>3. RemoveNode(p) = IF cfg.side THEN <<Do("remove", SideOf(p)), Do("remove", p)>> ELSE <<Do("remove", p)>>
    BY Joins DEF RemoveNode, With
  <2>4. StopNode(p) \o RemoveNode(p) =
          IF cfg.side THEN <<Do("stop", SideOf(p)), Do("stop", p), Do("remove", SideOf(p)), Do("remove", p)>>
          ELSE <<Do("stop", p), Do("remove", p)>>
    <3>1. CASE cfg.side
      BY <2>2, <2>3, <3>1, Joins
    <3>2. CASE ~cfg.side
      BY <2>2, <2>3, <3>2, Joins
    <3> QED
      BY <3>1, <3>2
  <2>5. <<Do("create", p)>> \o StartNode(p) =
          IF cfg.side THEN <<Do("create", p), Do("ensure", SideOf(p)), Do("start", p)>>
          ELSE <<Do("create", p), Do("start", p)>>
    <3>1. CASE cfg.side
      BY <2>1, <3>1, Joins
    <3>2. CASE ~cfg.side
      BY <2>1, <3>2, Joins
    <3> QED
      BY <3>1, <3>2
  <2>6. /\ Calls("Create", p) = <<Do("create", p)>> /\ Calls("Start", p) = StartNode(p)
        /\ Calls("StopAllNodes", p) = StopNode(p) \o RemoveNode(p)
        /\ \A c \in {"StartAllNodes", "AddFullNodes"} : Calls(c, p) = <<Do("create", p)>> \o StartNode(p)
        /\ Calls("StopAllSidecars", p) = <<Do("stop", p), Do("remove", p)>>
        /\ Calls("StartAllSidecars", p) = <<Do("ensure", p)>>
    BY DEF Calls
  <2> QED
    BY <2>1, <2>4, <2>5, <2>6
<1>3. o # "AddFullNodes" => \A p \in Processes : Listed(o, p, G[p])
  <2> SUFFICES ASSUME o # "AddFullNodes", NEW p \in Processes PROVE Listed(o, p, G[p])
    OBVIOUS
  <2>1. CASE p \notin S
    BY <2>1, <1>1 DEF Listed
  <2>2. CASE p \in S
    <3>1. G[p] = Calls(o, p)
      BY <2>2, <1>1
    <3>2. CASE o = "Create"
      BY <2>2, <3>1, <3>2, <1>2 DEF Listed
    <3>3. CASE o = "Start"
      BY <2>2, <3>1, <3>3, <1>2 DEF Listed, StartOps
    <3>4. CASE o = "StartAllNodes"
      BY <2>2, <3>1, <3>4, <1>2 DEF Listed, StartOps
    <3>5. CASE o = "StopAllNodes"
      BY <2>2, <3>1, <3>5, <1>2 DEF Listed
    <3>6. CASE o \in {"StopAllSidecars", "StartAllSidecars"}
      BY <2>2, <3>1, <3>6, <1>2 DEF Listed
    <3> QED
      BY <3>2, <3>3, <3>4, <3>5, <3>6 DEF Ops
  <2> QED
    BY <2>1, <2>2
<1>4. \A p : Do("create", p) # Do("ensure", SideOf(p)) /\ Do("create", p) # Do("start", p)
  BY DEF Do
<1>5. ASSUME NEW p \in S \cap Processes
      PROVE  /\ G[p] # <<>>
             /\ o = "Start" => /\ G[p][1] # Do("create", p)
                               /\ cfg.side => G[p][1] = Do("ensure", SideOf(p))
             /\ o \in {"Create", "StartAllNodes", "AddFullNodes"} => G[p][1] = Do("create", p)
             /\ o = "AddFullNodes" =>
                  G[p] = IF cfg.side THEN <<Do("create", p), Do("ensure", SideOf(p)), Do("start", p)>>
                         ELSE <<Do("create", p), Do("start", p)>>
  <2>1. G[p] = Calls(o, p)
    BY <1>1
  <2> QED
    BY <2>1, <1>2, <1>4, Lists DEF Ops
<1> QED
  BY <1>1, <1>3, <1>5 DEF G

\* What a docker call of p, the call what on the container q, changes: nothing
\* but p's own list, which goes on or, on an error, is given up,
Kept(p) ==
  /\ UNCHANGED <<cfg, wanted, full, op, ops, last, started, node>>
  /\ DOMAIN todo' = Processes /\ \A r \in Processes \ {p} : todo'[r] = todo[r]
  /\ err' \in BOOLEAN

GoesOn(p, what, q) ==
  \/ err' = TRUE /\ todo'[p] = <<>>
  \/ /\ err' = err /\ what # "ensure" /\ todo'[p] = Tail(todo[p])
     /\ what = "start" => box'[q] = "running" /\ (q \in AllNodes => client'[q] = run[q])
     /\ what = "create" /\ q \in AllNodes =>
          run'[q] = run[q] + 1 /\ (cmd'[q] <=> op = "Create" \/ ~cfg.gm)
  \/ err' = err /\ what = "ensure" /\ box[q] = "running" /\ todo'[p] = Tail(todo[p])
  \/ /\ err' = err /\ what = "ensure"
     /\ todo'[p] = <<Do("create", q), Do("start", q)>> \o Tail(todo[p])

\* and the state of q,
BoxEffect(what, q) ==
  /\ box' \in [Processes -> {"none", "created", "running", "stopped"}]
  /\ \A r \in Processes : r # q => box'[r] = box[r]
  /\ box'[q] # box[q] => \/ what = "create" /\ box[q] = "none" /\ box'[q] = "created"
                         \/ what = "start" /\ box'[q] = "running"
                         \/ what \in {"stop", "remove"} /\ box'[q] # "running"

\* with its container or its client.
NodeEffect(what, q) ==
  /\ run' \in [AllNodes -> Nat] /\ client' \in [AllNodes -> Nat] /\ cmd' \in [AllNodes -> BOOLEAN]
  /\ \A n \in AllNodes : n # q => run'[n] = run[n] /\ client'[n] = client[n] /\ cmd'[n] = cmd[n]
  /\ q \in AllNodes =>
       /\ (run'[q] = run[q] /\ cmd'[q] = cmd[q]) \/ (what = "create" /\ run'[q] = run[q] + 1)
       /\ client'[q] = client[q] \/ (what = "start" /\ client'[q] = run[q])

LEMMA MadeFacts ==
  ASSUME Typed, NEW p \in Processes, NEW ok \in BOOLEAN, Made(p, ok)
  PROVE  /\ Kept(p)
         /\ ok => err' = err /\ todo'[p] = Tail(todo[p])
         /\ ~ok => err' = TRUE /\ todo'[p] = <<>>
<1> USE DEF Typed
<1>1. todo' = [todo EXCEPT ![p] = IF ok THEN Tail(todo[p]) ELSE <<>>]
  BY DEF Made
<1>2. err' = (err \/ ~ok) /\ UNCHANGED <<cfg, wanted, full, op, ops, last, started, node>>
  BY DEF Made, clientVars
<1>3. DOMAIN todo' = Processes /\ \A r \in Processes \ {p} : todo'[r] = todo[r]
  BY <1>1
<1>4. CASE ok
  BY <1>1, <1>2, <1>3, <1>4 DEF Kept
<1>5. CASE ~ok
  BY <1>1, <1>2, <1>3, <1>5 DEF Kept
<1> QED
  BY <1>4, <1>5

LEMMA Effects ==
  ASSUME Typed, NEW p \in Processes, DockerCall(p), NEW what, NEW q \in Processes,
         todo[p][1] = Do(what, q)
  PROVE  /\ todo[p] # <<>>
         /\ Kept(p) /\ GoesOn(p, what, q) /\ BoxEffect(what, q) /\ NodeEffect(what, q)
<1> USE DEF Typed, Do
<1>0. \A ok \in BOOLEAN : Made(p, ok) =>
        /\ Kept(p)
        /\ ok => err' = err /\ todo'[p] = Tail(todo[p])
        /\ ~ok => err' = TRUE /\ todo'[p] = <<>>
  BY MadeFacts
<1>1. CASE CreateContainer(p)
  <2>1. what = "create" /\ Target(p) = q /\ todo[p] # <<>> /\ UNCHANGED client
    BY <1>1 DEF CreateContainer, First, Target
  <2>2. CASE /\ NameFree(q) /\ box' = [box EXCEPT ![q] = "created"] /\ Made(p, TRUE)
             /\ IF q \in AllNodes
                THEN /\ run' = [run EXCEPT ![q] = @ + 1]
                     /\ cmd' = [cmd EXCEPT ![q] = op = "Create" \/ ~cfg.gm]
                ELSE UNCHANGED <<run, cmd>>
    <3>1. BoxEffect(what, q)
      BY <2>1, <2>2 DEF NameFree, BoxEffect
    <3>2. Kept(p) /\ err' = err /\ todo'[p] = Tail(todo[p])
      BY <2>2, <1>0
    <3>3. CASE q \in AllNodes
      <4>1. run' = [run EXCEPT ![q] = run[q] + 1]
        BY <2>2, <3>3
      <4>2. cmd' = [cmd EXCEPT ![q] = op = "Create" \/ ~cfg.gm]
        BY <2>2, <3>3
      <4>3. /\ run' \in [AllNodes -> Nat] /\ run'[q] = run[q] + 1
            /\ \A n \in AllNodes : n # q => run'[n] = run[n]
        BY <4>1, <3>3
      <4>4. /\ cmd' \in [AllNodes -> BOOLEAN] /\ (cmd'[q] <=> op = "Create" \/ ~cfg.gm)
            /\ \A n \in AllNodes : n # q => cmd'[n] = cmd[n]
        BY <4>2, <3>3
      <4>5. GoesOn(p, what, q)
        BY <2>1, <3>2, <4>3, <4>4 DEF GoesOn
      <4>6. NodeEffect(what, q)
        BY <2>1, <4>3, <4>4 DEF NodeEffect
      <4> QED
        BY <2>1, <3>1, <3>2, <4>5, <4>6
    <3>4. CASE q \notin AllNodes
      <4>1. UNCHANGED <<run, cmd, client>>
        BY <2>1, <2>2, <3>4
      <4>2. GoesOn(p, what, q) /\ NodeEffect(what, q)
        BY <2>1, <3>2, <3>4, <4>1 DEF GoesOn, NodeEffect
      <4> QED
        BY <2>1, <3>1, <3>2, <4>2
    <3> QED
      BY <3>3, <3>4
  <2>3. CASE Made(p, FALSE) /\ UNCHANGED <<box, run, cmd>>
    <3>1. Kept(p) /\ GoesOn(p, what, q)
      BY <2>3, <1>0 DEF GoesOn
    <3> QED
      BY <2>1, <2>3, <3>1 DEF BoxEffect, NodeEffect
  <2> QED
    BY <1>1, <2>1, <2>2, <2>3 DEF CreateContainer
<1>2. CASE StartContainer(p)
  <2>1. what = "start" /\ Target(p) = q /\ todo[p] # <<>> /\ UNCHANGED <<run, cmd>>
    BY <1>2 DEF StartContainer, First, Target
  <2>2. CASE /\ box' = [box EXCEPT ![q] = "running"]
             /\ client' = IF q \in AllNodes THEN [client EXCEPT ![q] = run[q]] ELSE client
             /\ \E ok \in BOOLEAN : Made(p, ok)
    <3>1. /\ client' \in [AllNodes -> Nat]
          /\ q \in AllNodes => client'[q] = run[q]
          /\ \A n \in AllNodes : n # q => client'[n] = client[n]
      BY <2>2
    <3>2. box'[q] = "running" /\ BoxEffect(what, q)
      BY <2>1, <2>2 DEF BoxEffect
    <3>3. NodeEffect(what, q)
      BY <2>1, <3>1 DEF NodeEffect
    <3>4. Kept(p) /\ \/ err' = err /\ todo'[p] = Tail(todo[p])
                     \/ err' = TRUE /\ todo'[p] = <<>>
      BY <2>2, <1>0
    <3>5. GoesOn(p, what, q)
      BY <2>1, <3>1, <3>2, <3>4 DEF GoesOn
    <3> QED
      BY <2>1, <3>2, <3>3, <3>4, <3>5
  <2>3. CASE box' = [box EXCEPT ![q] = "running"] /\ Made(p, FALSE) /\ UNCHANGED client
    <3>1. Kept(p) /\ GoesOn(p, what, q)
      BY <2>3, <1>0 DEF GoesOn
    <3> QED
      BY <2>1, <2>3, <3>1 DEF BoxEffect, NodeEffect
  <2>4. CASE Made(p, FALSE) /\ UNCHANGED <<box, client>>
    <3>1. Kept(p) /\ GoesOn(p, what, q)
      BY <2>4, <1>0 DEF GoesOn
    <3> QED
      BY <2>1, <2>4, <3>1 DEF BoxEffect, NodeEffect
  <2> QED
    BY <1>2, <2>1, <2>2, <2>3, <2>4 DEF StartContainer
<1>3. CASE StopContainer(p) \/ RemoveContainer(p)
  <2>1. what \in {"stop", "remove"} /\ Target(p) = q /\ todo[p] # <<>> /\ UNCHANGED <<run, client, cmd>>
    <3>1. CASE StopContainer(p)
      BY <3>1 DEF StopContainer, First, Target
    <3>2. CASE RemoveContainer(p)
      BY <3>2 DEF RemoveContainer, First, Target
    <3> QED
      BY <1>3, <3>1, <3>2
  <2>2. CASE Made(p, TRUE) /\ \/ box' = [box EXCEPT ![q] = IF @ = "running" THEN "stopped" ELSE @]
                              \/ box' = [box EXCEPT ![q] = "none"]
    <3>1. Kept(p) /\ GoesOn(p, what, q)
      BY <2>1, <2>2, <1>0 DEF GoesOn
    <3>2. BoxEffect(what, q)
      BY <2>1, <2>2 DEF BoxEffect
    <3> QED
      BY <2>1, <3>1, <3>2 DEF NodeEffect
  <2>3. CASE Made(p, FALSE) /\ UNCHANGED box
    <3>1. Kept(p) /\ GoesOn(p, what, q)
      BY <2>3, <1>0 DEF GoesOn
    <3> QED
      BY <2>1, <2>3, <3>1 DEF BoxEffect, NodeEffect
  <2> QED
    BY <1>3, <2>1, <2>2, <2>3 DEF StopContainer, RemoveContainer
<1>4. CASE EnsureRunning(p)
  <2>1. what = "ensure" /\ Target(p) = q /\ todo[p] # <<>>
    BY <1>4 DEF EnsureRunning, First, Target
  <2>2. \/ box[q] = "running" /\ todo' = [todo EXCEPT ![p] = Tail(todo[p])]
        \/ todo' = [todo EXCEPT ![p] = <<Do("create", q), Do("start", q)>> \o Tail(todo[p])]
    BY <1>4, <2>1 DEF EnsureRunning
  <2>3. UNCHANGED <<cfg, wanted, full, box, run, client, cmd, op, ops, err, last, started, node>>
    BY <1>4 DEF EnsureRunning, clientVars
  <2>4. DOMAIN todo' = Processes /\ \A r \in Processes \ {p} : todo'[r] = todo[r]
    BY <2>2
  <2>5. \/ box[q] = "running" /\ todo'[p] = Tail(todo[p])
        \/ todo'[p] = <<Do("create", q), Do("start", q)>> \o Tail(todo[p])
    BY <2>2
  <2>6. Kept(p)
    BY <2>3, <2>4 DEF Kept
  <2>7. GoesOn(p, what, q)
    BY <2>1, <2>3, <2>5 DEF GoesOn
  <2> QED
    BY <2>1, <2>3, <2>6, <2>7 DEF BoxEffect, NodeEffect
<1> QED
  BY <1>1, <1>2, <1>3, <1>4 DEF DockerCall

\* What p does next in the operation, and what is left then.
Turn(p, what, q, rest) ==
  \/ p \in Nodes /\ op = "Create" /\ what = "create" /\ q = p /\ rest = <<>>
  \/ p \in Nodes /\ op \in StartOps /\ what = "start" /\ q = p /\ rest = <<>>
  \/ p \in Nodes /\ op \in StartOps /\ cfg.side /\ what = "start" /\ q = SideOf(p)
     /\ rest = <<Do("start", p)>>
  \/ p \in Nodes /\ op \in StartOps /\ cfg.side /\ what = "create" /\ q = SideOf(p)
     /\ rest = <<Do("start", SideOf(p)), Do("start", p)>>
  \/ p \in Nodes /\ op \in StartOps /\ cfg.side /\ what = "ensure" /\ q = SideOf(p)
     /\ rest = <<Do("start", p)>>
  \/ p \in Nodes /\ op \in StartOps \ {"Start"} /\ ~cfg.side /\ what = "create" /\ q = p
     /\ rest = <<Do("start", p)>>
  \/ p \in Nodes /\ op \in StartOps \ {"Start"} /\ cfg.side /\ what = "create" /\ q = p
     /\ rest = <<Do("ensure", SideOf(p)), Do("start", p)>>
  \/ p \in Nodes \cup ChainSides /\ op \in {"StopAllNodes", "StopAllSidecars"}
     /\ what \in {"stop", "remove"} /\ (q = p \/ (p \in Nodes /\ q = SideOf(p)))
     /\ (rest = <<>> \/ rest[1] # Do("create", p))
  \/ p \in ChainSides /\ op = "StartAllSidecars" /\ what \in {"create", "start"} /\ q = p
  \/ p \in ChainSides /\ op = "StartAllSidecars" /\ what = "ensure" /\ q = p /\ rest = <<>>

LEMMA Turns ==
  ASSUME Typed, ListsOK, NEW p \in Processes, todo[p] # <<>>
  PROVE  /\ Listed(op, p, Tail(todo[p]))
         /\ \E what, q : todo[p][1] = Do(what, q) /\ Turn(p, what, q, Tail(todo[p]))
<1> DEFINE l == todo[p]  call == l[1]  rest == Tail(l)
<1>1. Listed(op, p, l) /\ Listed(op, p, rest)
  BY Heads DEF ListsOK
<1>2. \/ p \in Nodes /\ op = "Create" /\ call = Do("create", p) /\ rest = <<>>
      \/ p \in Nodes /\ op \in StartOps /\ call = Do("start", p) /\ rest = <<>>
      \/ p \in Nodes /\ op \in StartOps /\ cfg.side /\ call = Do("start", SideOf(p))
         /\ rest = <<Do("start", p)>>
      \/ p \in Nodes /\ op \in StartOps /\ cfg.side /\ call = Do("create", SideOf(p))
         /\ rest = <<Do("start", SideOf(p)), Do("start", p)>>
      \/ p \in Nodes /\ op \in StartOps /\ cfg.side /\ call = Do("ensure", SideOf(p))
         /\ rest = <<Do("start", p)>>
      \/ p \in Nodes /\ op \in StartOps \ {"Start"} /\ ~cfg.side /\ call = Do("create", p)
         /\ rest = <<Do("start", p)>>
      \/ p \in Nodes /\ op \in StartOps \ {"Start"} /\ cfg.side /\ call = Do("create", p)
         /\ rest = <<Do("ensure", SideOf(p)), Do("start", p)>>
      \/ /\ op \in {"StopAllNodes", "StopAllSidecars"} /\ p \in Nodes \cup ChainSides
         /\ \E what \in {"stop", "remove"} : call = Do(what, p) \/ (p \in Nodes /\ call = Do(what, SideOf(p)))
      \/ p \in ChainSides /\ op = "StartAllSidecars" /\ call = Do("ensure", p) /\ rest = <<>>
      \/ p \in ChainSides /\ op = "StartAllSidecars" /\ call = Do("create", p)
         /\ rest = <<Do("start", p)>>
      \/ p \in ChainSides /\ op = "StartAllSidecars" /\ call = Do("start", p) /\ rest = <<>>
  BY <1>1, Heads
<1>3. op \in {"StopAllNodes", "StopAllSidecars"} /\ rest # <<>> =>
        \E what \in {"stop", "remove"} : rest[1] = Do(what, p) \/ (p \in Nodes /\ rest[1] = Do(what, SideOf(p)))
  BY <1>1, Heads DEF StartOps
<1>4. \A what \in {"stop", "remove"} : \A q : Do(what, q) # Do("create", p)
  BY DEF Do
<1>5. op \in {"StopAllNodes", "StopAllSidecars"} => rest = <<>> \/ rest[1] # Do("create", p)
  BY <1>3, <1>4
<1> HIDE DEF l, call, rest
<1>6. \E what, q : call = Do(what, q) /\ Turn(p, what, q, rest)
  <2>1. CASE p \in Nodes /\ op = "Create" /\ call = Do("create", p) /\ rest = <<>>
    BY <2>1 DEF Turn
  <2>2. CASE p \in Nodes /\ op \in StartOps /\ call = Do("start", p) /\ rest = <<>>
    BY <2>2 DEF Turn
  <2>3. CASE p \in Nodes /\ op \in StartOps /\ cfg.side /\ call = Do("start", SideOf(p))
             /\ rest = <<Do("start", p)>>
    BY <2>3 DEF Turn
  <2>4. CASE p \in Nodes /\ op \in StartOps /\ cfg.side /\ call = Do("create", SideOf(p))
             /\ rest = <<Do("start", SideOf(p)), Do("start", p)>>
    BY <2>4 DEF Turn
  <2>5. CASE p \in Nodes /\ op \in StartOps /\ cfg.side /\ call = Do("ensure", SideOf(p))
             /\ rest = <<Do("start", p)>>
    BY <2>5 DEF Turn
  <2>6. CASE p \in Nodes /\ op \in StartOps \ {"Start"} /\ ~cfg.side /\ call = Do("create", p)
             /\ rest = <<Do("start", p)>>
    BY <2>6 DEF Turn
  <2>7. CASE p \in Nodes /\ op \in StartOps \ {"Start"} /\ cfg.side /\ call = Do("create", p)
             /\ rest = <<Do("ensure", SideOf(p)), Do("start", p)>>
    BY <2>7 DEF Turn
  <2>8. CASE /\ op \in {"StopAllNodes", "StopAllSidecars"} /\ p \in Nodes \cup ChainSides
             /\ \E what \in {"stop", "remove"} : call = Do(what, p) \/ (p \in Nodes /\ call = Do(what, SideOf(p)))
    BY <2>8, <1>5 DEF Turn
  <2>9. CASE p \in ChainSides /\ op = "StartAllSidecars" /\ call = Do("ensure", p) /\ rest = <<>>
    BY <2>9 DEF Turn
  <2>10. CASE p \in ChainSides /\ op = "StartAllSidecars" /\ call = Do("create", p)
    BY <2>10 DEF Turn
  <2>11. CASE p \in ChainSides /\ op = "StartAllSidecars" /\ call = Do("start", p)
    BY <2>11 DEF Turn
  <2> QED
    BY <1>2, <2>1, <2>2, <2>3, <2>4, <2>5, <2>6, <2>7, <2>8, <2>9, <2>10, <2>11
<1> QED
  BY <1>1, <1>6 DEF l, call, rest

\* The whole of a docker call, and that the list stays one of the operation's.
LEMMA CallMade ==
  ASSUME Typed, ListsOK, NEW p \in Processes, DockerCall(p)
  PROVE  /\ Typed' /\ ListsOK' /\ Kept(p) /\ Nodes' = Nodes
         /\ \E what, q : /\ todo[p] # <<>> /\ todo[p][1] = Do(what, q)
                         /\ q \in Processes /\ Turn(p, what, q, Tail(todo[p]))
                         /\ GoesOn(p, what, q) /\ BoxEffect(what, q) /\ NodeEffect(what, q)
<1>1. todo[p] # <<>>
  BY DEF DockerCall, CreateContainer, StartContainer, StopContainer, RemoveContainer, EnsureRunning, First
<1>2. Listed(op, p, Tail(todo[p]))
  BY <1>1, Turns
<1>3. PICK what, q : todo[p][1] = Do(what, q) /\ Turn(p, what, q, Tail(todo[p]))
  BY <1>1, Turns
<1>4. q \in Processes
  <2>1. p \in Nodes => SideOf(p) \in Processes
    BY NodesKnown, Kinds
  <2> QED
    BY <2>1, <1>3 DEF Turn
<1>5. Kept(p) /\ GoesOn(p, what, q) /\ BoxEffect(what, q) /\ NodeEffect(what, q)
  BY <1>3, <1>4, Effects
<1>6. Nodes' = Nodes /\ UNCHANGED <<cfg, full, op>>
  BY <1>5 DEF Kept, Nodes
<1>7. Typed'
  BY <1>5 DEF Typed, Kept, BoxEffect, NodeEffect
<1>8. Listed(op, p, todo'[p])
  <2> DEFINE rest == Tail(todo[p])
  <2>1. CASE todo'[p] \in {<<>>, rest}
    <3>1. CASE todo'[p] = <<>>
      BY <3>1 DEF Listed
    <3>2. CASE todo'[p] = rest
      BY <3>2, <1>2
    <3> QED
      BY <2>1, <3>1, <3>2
  <2>2. CASE what = "ensure" /\ todo'[p] = <<Do("create", q), Do("start", q)>> \o rest
    <3>1. CASE p \in Nodes /\ op \in StartOps /\ cfg.side /\ q = SideOf(p) /\ rest = <<Do("start", p)>>
      <4>1. <<Do("create", SideOf(p)), Do("start", SideOf(p))>> \o <<Do("start", p)>>
              = <<Do("create", SideOf(p)), Do("start", SideOf(p)), Do("start", p)>>
        BY Joins, Zenon
      <4>2. todo'[p] = <<Do("create", SideOf(p)), Do("start", SideOf(p)), Do("start", p)>>
        BY <2>2, <3>1, <4>1
      <4> QED
        BY <3>1, <4>2 DEF Listed
    <3>2. CASE p \in ChainSides /\ op = "StartAllSidecars" /\ q = p /\ rest = <<>>
      <4>1. todo'[p] = <<Do("create", p), Do("start", p)>>
        BY <2>2, <3>2, Joins
      <4> QED
        BY <3>2, <4>1 DEF Listed
    <3> QED
      BY <2>2, <3>1, <3>2, <1>3 DEF Turn
  <2> QED
    BY <2>1, <2>2, <1>5 DEF GoesOn
<1>9. ListsOK'
  <2> SUFFICES ASSUME NEW r \in Processes PROVE Listed(op, r, todo[r])'
    BY DEF ListsOK
  <2>1. Listed(op, r, todo'[r])
    BY <1>5, <1>8 DEF Kept, ListsOK
  <2> QED
    BY <2>1, <1>6 DEF Listed
<1> QED
  BY <1>1, <1>3, <1>4, <1>5, <1>6, <1>7, <1>9

\* After a call of p its list does not begin with the creation of p; it begins
\* with the start of p only when p's sidecar runs, and it has come to its end
\* without an error only when the call did what the operation is for.
LEMMA AfterCall ==
  ASSUME Typed, ListsOK, NEW p \in AllNodes, NEW what, NEW q,
         Turn(p, what, q, Tail(todo[p])), GoesOn(p, what, q), BoxEffect(what, q), q \in Processes
  PROVE  /\ ~(todo'[p] # <<>> /\ todo'[p][1] = Do("create", p))
         /\ op \in StartOps /\ cfg.side /\ todo'[p] # <<>> /\ todo'[p][1] = Do("start", p) =>
              box'[SideOf(p)] = "running"
         /\ op \in StartOps /\ ~err' /\ todo'[p] = <<>> =>
              what = "start" /\ q = p /\ box'[p] = "running" /\ client'[p] = run[p]
         /\ op = "Create" /\ ~err' => what = "create" /\ q = p
<1> DEFINE rest == Tail(todo[p])  s == SideOf(p)
<1>1. s # p /\ s \notin AllNodes /\ p \notin ChainSides /\ s \in Processes /\ p \in Processes
  BY Kinds
<1>2. \A x, y : /\ Do("start", x) # Do("create", y) /\ Do("ensure", x) # Do("create", y)
                /\ Do("ensure", x) # Do("start", y)
                /\ x # y => Do("start", x) # Do("start", y) /\ Do("create", x) # Do("create", y)
  BY DEF Do
<1>3. Turn(p, what, q, rest) /\ GoesOn(p, what, q)
  OBVIOUS
<1> HIDE DEF rest, s
<1>4. CASE p \in Nodes /\ op = "Create" /\ what = "create" /\ q = p /\ rest = <<>>
  BY <1>3, <1>4 DEF GoesOn, StartOps, rest
<1>5. CASE p \in Nodes /\ op \in StartOps /\ what = "start" /\ q = p /\ rest = <<>>
  BY <1>3, <1>5 DEF GoesOn, StartOps, rest
<1>6. CASE p \in Nodes /\ op \in StartOps /\ cfg.side /\ what = "start" /\ q = s /\ rest = <<Do("start", p)>>
  <2>1. rest # <<>> /\ rest[1] = Do("start", p) /\ op # "Create"
    BY <1>6, Lists DEF StartOps
  <2>2. (todo'[p] = <<>> /\ err' = TRUE) \/ (todo'[p] = rest /\ box'[s] = "running")
    BY <1>3, <1>6 DEF GoesOn, rest
  <2> QED
    BY <1>2, <2>1, <2>2 DEF s
<1>7. CASE p \in Nodes /\ op \in StartOps /\ cfg.side /\ what = "create" /\ q = s
           /\ rest = <<Do("start", s), Do("start", p)>>
  <2>1. rest # <<>> /\ rest[1] = Do("start", s) /\ op # "Create"
    BY <1>7, Lists DEF StartOps
  <2>2. (todo'[p] = <<>> /\ err' = TRUE) \/ todo'[p] = rest
    BY <1>3, <1>7 DEF GoesOn, rest
  <2> QED
    BY <1>1, <1>2, <2>1, <2>2
<1>8. CASE p \in Nodes /\ op \in StartOps /\ cfg.side /\ what = "ensure" /\ q = s /\ rest = <<Do("start", p)>>
  <2>1. op # "Create"
    BY <1>8 DEF StartOps
  <2>2. <<Do("create", s), Do("start", s)>> \o <<Do("start", p)>> = <<Do("create", s), Do("start", s), Do("start", p)>>
    BY Joins, Zenon
  <2>3. \/ todo'[p] = <<>> /\ err' = TRUE
        \/ todo'[p] = <<Do("start", p)>> /\ box[s] = "running"
        \/ todo'[p] = <<Do("create", s), Do("start", s), Do("start", p)>>
    BY <1>3, <1>8, <2>2 DEF GoesOn, rest
  <2>4. box'[s] = box[s]
    BY <1>8 DEF BoxEffect
  <2>5. CASE todo'[p] = <<>> /\ err' = TRUE
    BY <2>1, <2>5
  <2>6. CASE todo'[p] = <<Do("start", p)>> /\ box[s] = "running"
    <3>1. todo'[p] # <<>> /\ todo'[p][1] = Do("start", p)
      BY <2>6, Lists
    <3> QED
      BY <2>1, <2>4, <2>6, <3>1, <1>2 DEF s
  <2>7. CASE todo'[p] = <<Do("create", s), Do("start", s), Do("start", p)>>
    <3>1. todo'[p] # <<>> /\ todo'[p][1] = Do("create", s)
      BY <2>7, Lists
    <3> QED
      BY <2>1, <3>1, <1>1, <1>2
  <2> QED
    BY <2>3, <2>5, <2>6, <2>7
<1>9. CASE p \in Nodes /\ op \in StartOps \ {"Start"} /\ ~cfg.side /\ what = "create" /\ q = p
           /\ rest = <<Do("start", p)>>
  <2>1. rest # <<>> /\ rest[1] = Do("start", p) /\ op # "Create"
    BY <1>9, Lists DEF StartOps
  <2>2. (todo'[p] = <<>> /\ err' = TRUE) \/ todo'[p] = rest
    BY <1>3, <1>9 DEF GoesOn, rest
  <2> QED
    BY <1>2, <1>9, <2>1, <2>2
<1>10. CASE p \in Nodes /\ op \in StartOps \ {"Start"} /\ cfg.side /\ what = "create" /\ q = p
            /\ rest = <<Do("ensure", s), Do("start", p)>>
  <2>1. rest # <<>> /\ rest[1] = Do("ensure", s) /\ op # "Create"
    BY <1>10, Lists DEF StartOps
  <2>2. (todo'[p] = <<>> /\ err' = TRUE) \/ todo'[p] = rest
    BY <1>3, <1>10 DEF GoesOn, rest
  <2> QED
    BY <1>2, <1>10, <2>1, <2>2
<1>11. CASE op \in {"StopAllNodes", "StopAllSidecars"} /\ what \in {"stop", "remove"}
            /\ (rest = <<>> \/ rest[1] # Do("create", p))
  <2>1. op # "Create" /\ op \notin StartOps
    BY <1>11 DEF StartOps
  <2>2. todo'[p] = <<>> \/ todo'[p] = rest
    BY <1>3, <1>11 DEF GoesOn, rest
  <2> QED
    BY <1>11, <2>1, <2>2
<1> QED
  BY <1>1, <1>3, <1>4, <1>5, <1>6, <1>7, <1>8, <1>9, <1>10, <1>11 DEF Turn, s

\* A docker call keeps the invariant, and starts a node's container only with
\* the node's sidecar running.
LEMMA DockerNInv ==
  ASSUME NInv, NEW p \in Processes, DockerCall(p)
  PROVE  NInv' /\ PreStartFirst
<1>1. /\ Typed /\ ListsOK /\ RunsOK /\ SidesOK /\ ClientOK
      /\ \A n \in Nodes : Achieved(n)
  BY DEF NInv
<1>2. Typed' /\ ListsOK' /\ Kept(p) /\ Nodes' = Nodes
  BY <1>1, CallMade
<1>3. PICK what, q :
         /\ todo[p] # <<>> /\ todo[p][1] = Do(what, q)
         /\ q \in Processes /\ Turn(p, what, q, Tail(todo[p]))
         /\ GoesOn(p, what, q) /\ BoxEffect(what, q) /\ NodeEffect(what, q)
  BY <1>1, CallMade
<1>4. /\ Nodes \subseteq AllNodes
      /\ \A n \in Nodes : SideOf(n) \notin AllNodes /\ SideOf(n) \in Processes /\ n \in Processes
      /\ \A s \in ChainSides : s \notin AllNodes
      /\ AllNodes \subseteq Processes
  BY <1>1, NodesKnown, Kinds
<1>5. /\ q \in AllNodes => q = p
      /\ q \in AllNodes /\ what = "create" => op # "Start"
      /\ what = "start" /\ q \in AllNodes => op \in StartOps /\ p \in Nodes
  BY <1>3, <1>4 DEF Turn, StartOps
<1>6. /\ UNCHANGED <<cfg, full, op, ops, last, started, node>>
      /\ \A r \in Processes \ {p} : todo'[r] = todo[r]
      /\ \A r \in Processes \ {q} : box'[r] = box[r]
      /\ \A n \in AllNodes \ {q} : run'[n] = run[n] /\ client'[n] = client[n] /\ cmd'[n] = cmd[n]
      /\ ~err' => ~err
  BY <1>2, <1>3 DEF Kept, BoxEffect, NodeEffect, GoesOn
<1>7. p \in AllNodes =>
        /\ ~Faces(p, Do("create", p))'
        /\ op \in StartOps /\ cfg.side /\ Faces(p, Do("start", p))' => box'[SideOf(p)] = "running"
        /\ op \in StartOps /\ ~err' /\ todo'[p] = <<>> =>
             what = "start" /\ q = p /\ box'[p] = "running" /\ client'[p] = run[p]
        /\ op = "Create" /\ ~err' => what = "create" /\ q = p
  BY <1>1, <1>3, AfterCall DEF Faces
<1>8. op # "none"
  BY <1>3 DEF Turn, StartOps
<1>9. \A n \in AllNodes : run[n] \in Nat /\ client[n] \in Nat /\ run'[n] \in Nat /\ client'[n] \in Nat
  BY <1>1, <1>2 DEF Typed
<1>10. ops \in Nat
  BY <1>1, NodesAssumption DEF Typed
<1>11. RunsOK'
  <2> SUFFICES ASSUME NEW n \in AllNodes
               PROVE  /\ client'[n] <= run'[n] /\ run'[n] <= ops
                      /\ Faces(n, Do("create", n))' => run'[n] < ops
    BY <1>6 DEF RunsOK
  <2>1. /\ client[n] <= run[n] /\ run[n] <= ops
        /\ Faces(n, Do("create", n)) => run[n] < ops
    BY <1>1 DEF RunsOK
  <2>2. CASE n # q
    <3>1. run'[n] = run[n] /\ client'[n] = client[n]
      BY <2>2, <1>6
    <3>2. Faces(n, Do("create", n))' => Faces(n, Do("create", n))
      BY <1>4, <1>6, <1>7 DEF Faces
    <3> QED
      BY <2>1, <3>1, <3>2
  <2>3. CASE n = q
    <3>1. n = p /\ ~Faces(n, Do("create", n))'
      BY <2>3, <1>5, <1>7
    <3>2. CASE what = "create"
      <4>1. Faces(n, Do("create", n)) /\ run[n] < ops
        BY <3>1, <3>2, <2>1, <2>3, <1>3 DEF Faces
      <4>2. client'[n] = client[n] /\ (run'[n] = run[n] \/ run'[n] = run[n] + 1)
        BY <3>2, <2>3, <1>3 DEF NodeEffect
      <4> QED
        BY <3>1, <4>1, <4>2, <2>1, <1>9, <1>10
    <3>3. CASE what # "create"
      <4>1. run'[n] = run[n] /\ client'[n] \in {client[n], run[n]}
        BY <3>3, <2>3, <1>3 DEF NodeEffect
      <4> QED
        BY <3>1, <4>1, <2>1, <1>9
    <3> QED
      BY <3>2, <3>3
  <2> QED
    BY <2>2, <2>3
<1>12. SidesOK'
  <2> SUFFICES ASSUME op \in StartOps, cfg.side, NEW n \in Nodes, Faces(n, Do("start", n))'
               PROVE  box'[SideOf(n)] = "running"
    BY <1>2, <1>6 DEF SidesOK
  <2>1. CASE n = p
    BY <2>1, <1>4, <1>7
  <2>2. CASE n # p
    <3>1. Faces(n, Do("start", n))
      BY <2>2, <1>4, <1>6 DEF Faces
    <3>2. box[SideOf(n)] = "running"
      BY <3>1, <1>1 DEF SidesOK
    <3>3. what \notin {"stop", "remove"}
      BY <1>3 DEF Turn, StartOps
    <3> QED
      BY <3>2, <3>3, <1>3, <1>4 DEF BoxEffect
  <2> QED
    BY <2>1, <2>2
<1>13. ASSUME NEW n \in Nodes PROVE Achieved(n)'
  <2>1. n \in AllNodes /\ Achieved(n) /\ n \in Processes
    BY <1>1, <1>4
  <2>2. CASE n # p
    <3>1. run'[n] = run[n] /\ client'[n] = client[n] /\ cmd'[n] = cmd[n] /\ box'[n] = box[n]
      BY <2>1, <2>2, <1>5, <1>6
    <3>2. todo'[n] = todo[n]
      BY <2>1, <2>2, <1>6
    <3> QED
      BY <2>1, <3>1, <3>2, <1>6 DEF Achieved, Faces
  <2>3. CASE n = p
    <3>1. CASE op = "Create"
      <4>1. ~err' => run'[p] = run[p] + 1 /\ cmd'[p]
        BY <2>1, <2>3, <3>1, <1>3, <1>7 DEF GoesOn
      <4> QED
        BY <2>1, <2>3, <3>1, <4>1, <1>6, <1>9 DEF Achieved
    <3>2. CASE op = "Start"
      <4>1. run'[p] = run[p] /\ cmd'[p] = cmd[p]
        BY <2>1, <2>3, <3>2, <1>3, <1>5, <1>6 DEF NodeEffect
      <4>2. ~err' /\ todo'[p] = <<>> => box'[p] = "running" /\ client'[p] = run[p]
        BY <2>1, <2>3, <3>2, <1>7 DEF StartOps
      <4> QED
        BY <2>1, <2>3, <3>2, <4>1, <4>2, <1>6 DEF Achieved
    <3>3. CASE op = "StartAllNodes"
      <4>1. ~err' /\ todo'[p] = <<>> => box'[p] = "running" /\ client'[p] = run'[p]
        BY <2>1, <2>3, <3>3, <1>3, <1>7 DEF StartOps, NodeEffect
      <4>2. ~err' => (cmd'[p] <=> ~cfg.gm)
        <5>1. CASE what = "create" /\ q = p
          BY <2>1, <2>3, <3>3, <5>1, <1>3 DEF GoesOn
        <5>2. CASE ~(what = "create" /\ q = p)
          <6>1. ~Faces(p, Do("create", p))
            BY <5>2, <1>3 DEF Faces, Do
          <6>2. cmd'[p] = cmd[p]
            BY <2>1, <2>3, <5>2, <1>3, <1>6 DEF NodeEffect
          <6> QED
            BY <2>1, <2>3, <3>3, <6>1, <6>2, <1>6 DEF Achieved
        <5> QED
          BY <5>1, <5>2
      <4> QED
        BY <2>3, <3>3, <4>1, <4>2, <1>6 DEF Achieved
    <3>4. CASE op \notin {"Create", "Start", "StartAllNodes"}
      BY <3>4, <1>6 DEF Achieved
    <3> QED
      BY <3>1, <3>2, <3>3, <3>4
  <2> QED
    BY <2>2, <2>3
<1>14. RestartComplete'
  BY <1>6, <1>8 DEF RestartComplete
<1>15. ClientOK'
  <2>1. UNCHANGED at
    BY DockerCallKeeps
  <2>2. cfg.full > 0 /\ started => client'[Full(0)] > 0
    <3> SUFFICES ASSUME cfg.full > 0, started PROVE client'[Full(0)] > 0
      OBVIOUS
    <3>1. Full(0) \in AllNodes /\ client[Full(0)] > 0
      BY <1>1, <1>4, NodesKnown DEF ClientOK
    <3>2. client'[Full(0)] \in {client[Full(0)], run[Full(0)]}
      BY <3>1, <1>3 DEF NodeEffect
    <3>3. client[Full(0)] <= run[Full(0)]
      BY <3>1, <1>1 DEF RunsOK
    <3> QED
      BY <3>1, <3>2, <3>3, <1>9
  <2> QED
    BY <2>1, <2>2, <1>1, <1>6 DEF ClientOK
<1>16. IInv'
  BY DockerCallKeeps DEF NInv, IInv, PlacesOK, LockInv
<1>17. PreStartFirst
  <2> SUFFICES ASSUME NEW n \in AllNodes, box[n] # "running", box'[n] = "running", NEW s \in Sides(n)
               PROVE  box[s] = "running"
    BY DEF PreStartFirst
  <2>0. n \in Processes
    BY <1>4
  <2>1. n = q /\ what = "start"
    BY <1>3, <2>0 DEF BoxEffect
  <2>2. n = p /\ op \in StartOps /\ p \in Nodes /\ Faces(n, Do("start", n))
    BY <2>1, <1>3, <1>5 DEF Faces
  <2> QED
    BY <2>2, <1>1 DEF SidesOK, Sides
<1> QED
  BY <1>2, <1>11, <1>12, <1>13, <1>14, <1>15, <1>16, <1>17 DEF NInv

\* An operation begins with lists of its own, and the creation of a container
\* that it makes is the next one of that node.
LEMMA CallNInv ==
  ASSUME NInv, IInv', Typed', NEW o \in Ops \ {"none", "Start"}, NEW S, Call(o, S),
         o \in {"StopAllSidecars", "StartAllSidecars"} => S \subseteq ChainSides,
         o \in {"Create", "StopAllNodes", "StartAllNodes"} => S = Nodes /\ Nodes' = Nodes,
         o = "AddFullNodes" => S \subseteq Nodes',
         o # "AddFullNodes" => Nodes' = Nodes
  PROVE  NInv'
<1>1. Typed /\ ListsOK /\ RunsOK /\ ClientOK /\ Nodes \subseteq AllNodes /\ AllNodes \subseteq Processes
  <2>1. Typed /\ ListsOK /\ RunsOK /\ ClientOK
    BY DEF NInv
  <2> QED
    BY <2>1, NodesKnown, Kinds
<1>2. /\ op' = o /\ ops' = ops + 1 /\ err' = FALSE /\ todo' = Goroutines(o, S)
      /\ UNCHANGED <<last, started, cfg, box, run, client, cmd, at, node>>
  BY DEF Call, clientVars
<1>3. /\ o # "AddFullNodes" => \A p \in Processes : Listed(o, p, todo'[p])
      /\ DOMAIN todo' = Processes
      /\ \A p \in S \cap Processes : todo'[p] # <<>>
      /\ o \in {"Create", "StartAllNodes", "AddFullNodes"} => \A p \in S \cap Processes :
           todo'[p][1] = Do("create", p)
      /\ o = "AddFullNodes" => \A p \in S \cap Processes :
           todo'[p] = IF cfg.side THEN <<Do("create", p), Do("ensure", SideOf(p)), Do("start", p)>>
                      ELSE <<Do("create", p), Do("start", p)>>
      /\ \A p \in Processes \ S : todo'[p] = <<>>
  BY <1>2, Begun
<1>4. ListsOK'
  <2> SUFFICES ASSUME NEW p \in Processes PROVE Listed(op, p, todo[p])'
    BY DEF ListsOK
  <2>1. CASE o # "AddFullNodes"
    <3>1. Listed(o, p, todo'[p])
      BY <2>1, <1>3
    <3> QED
      BY <3>1, <2>1, <1>2 DEF Listed
  <2>2. CASE o = "AddFullNodes"
    <3>1. CASE p \in S
      BY <2>2, <3>1, <1>2, <1>3 DEF Listed, StartOps
    <3>2. CASE p \notin S
      BY <3>2, <1>3 DEF Listed
    <3> QED
      BY <3>1, <3>2
  <2> QED
    BY <2>1, <2>2
<1>5. RunsOK'
  <2>1. \A n \in AllNodes : run[n] \in Nat /\ client[n] <= run[n] /\ run[n] <= ops
    BY <1>1 DEF Typed, RunsOK
  <2>2. ops \in Nat
    BY <1>1, NodesAssumption DEF Typed
  <2> QED
    BY <1>2, <2>1, <2>2 DEF RunsOK
<1>6. SidesOK'
  <2> SUFFICES ASSUME o \in StartOps, NEW n \in Nodes', Faces(n, Do("start", n))' PROVE FALSE
    BY <1>2 DEF SidesOK
  <2>1. n \in S /\ n \in Processes
    <3>1. n \in AllNodes
      <4>1. ASSUME Typed' PROVE Nodes' \subseteq AllNodes
        BY <4>1, NodesIn
      <4> QED
        BY <4>1
    <3>2. n \in Processes
      BY <3>1, <1>1
    <3> QED
      BY <3>2, <1>3 DEF Faces
  <2>2. todo'[n][1] = Do("create", n)
    BY <2>1, <1>3 DEF StartOps
  <2> QED
    BY <2>2 DEF Faces, Do
<1>7. ASSUME NEW n \in Nodes' PROVE Achieved(n)'
  <2>1. CASE o \in {"Create", "StartAllNodes"}
    <3>1. n \in S \cap Processes
      BY <2>1, <1>1
    <3>2. todo'[n] # <<>> /\ todo'[n][1] = Do("create", n)
      BY <2>1, <3>1, <1>3
    <3> QED
      BY <2>1, <3>2, <1>2 DEF Achieved, Faces
  <2>2. CASE o \notin {"Create", "Start", "StartAllNodes"}
    BY <2>2, <1>2 DEF Achieved
  <2> QED
    BY <2>1, <2>2
<1>8. RestartComplete' /\ ClientOK'
  BY <1>1, <1>2 DEF RestartComplete, ClientOK
<1> QED
  BY <1>4, <1>5, <1>6, <1>7, <1>8 DEF NInv

\* Start goes on to start the containers when all were created.
LEMMA ThenStartNInv ==
  ASSUME NInv, IInv', ThenStart
  PROVE  NInv'
<1>1. Typed /\ ListsOK /\ RunsOK /\ ClientOK /\ Nodes \subseteq AllNodes /\ AllNodes \subseteq Processes
      /\ \A n \in Nodes : Achieved(n)
  <2>1. Typed /\ ListsOK /\ RunsOK /\ ClientOK /\ \A n \in Nodes : Achieved(n)
    BY DEF NInv
  <2> QED
    BY <2>1, NodesKnown, Kinds
<1>2. /\ op = "Create" /\ ~err /\ op' = "Start" /\ todo' = Goroutines("Start", Nodes)
      /\ \A p \in Processes : todo[p] = <<>>
      /\ UNCHANGED <<cfg, wanted, full, box, run, client, cmd, ops, err, last, started, at, node>>
  BY DEF ThenStart, clientVars
<1>3. /\ \A p \in Processes : Listed("Start", p, todo'[p])
      /\ DOMAIN todo' = Processes
      /\ \A p \in Nodes \cap Processes : todo'[p] # <<>>
      /\ \A p \in Nodes \cap Processes :
           /\ todo'[p][1] # Do("create", p)
           /\ cfg.side => todo'[p][1] = Do("ensure", SideOf(p))
      /\ \A p \in Processes \ Nodes : todo'[p] = <<>>
  <2> DEFINE o == "Start"
  <2>1. o \in Ops \ {"none"}
    BY DEF Ops
  <2> QED
    BY <1>2, <2>1, Begun
<1>4. Nodes' = Nodes
  BY <1>2 DEF Nodes
<1>5. Typed'
  BY <1>1, <1>2, <1>3 DEF Typed, Ops
<1>6. ListsOK'
  BY <1>2, <1>3 DEF ListsOK, Listed, Nodes
<1>7. RunsOK'
  <2>1. \A n \in AllNodes : ~Faces(n, Do("create", n))'
    BY <1>1, <1>3 DEF Faces
  <2> QED
    BY <2>1, <1>1, <1>2 DEF RunsOK
<1>8. SidesOK'
  <2> SUFFICES ASSUME cfg.side, NEW n \in Nodes, Faces(n, Do("start", n))' PROVE FALSE
    BY <1>2, <1>4 DEF SidesOK
  <2>1. todo'[n][1] = Do("ensure", SideOf(n))
    BY <1>1, <1>3
  <2> QED
    BY <2>1 DEF Faces, Do
<1>9. ASSUME NEW n \in Nodes' PROVE Achieved(n)'
  <2>1. run[n] > 0 /\ cmd[n] /\ todo'[n] # <<>>
    BY <1>1, <1>2, <1>3, <1>4 DEF Achieved
  <2> QED
    BY <2>1, <1>2 DEF Achieved
<1>10. RestartComplete' /\ ClientOK'
  BY <1>1, <1>2 DEF RestartComplete, ClientOK
<1> QED
  BY <1>4, <1>5, <1>6, <1>7, <1>8, <1>9, <1>10 DEF NInv

\* When all goroutines have returned without an error they have done what the
\* operation promises.
LEMMA ReturnNInv ==
  ASSUME NInv, IInv', Return
  PROVE  NInv'
<1>1. Typed /\ ListsOK /\ RunsOK /\ ClientOK /\ Nodes \subseteq AllNodes /\ AllNodes \subseteq Processes
      /\ \A n \in Nodes : Achieved(n)
  <2>1. Typed /\ ListsOK /\ RunsOK /\ ClientOK /\ \A n \in Nodes : Achieved(n)
    BY DEF NInv
  <2> QED
    BY <2>1, NodesKnown, Kinds
<1>2. /\ op' = "none" /\ last' = <<op, ~err>> /\ \A p \in Processes : todo[p] = <<>>
      /\ started' = (started \/ (op = "Start" /\ ~err))
      /\ UNCHANGED <<cfg, wanted, full, box, run, client, cmd, ops, todo, err, at, node>>
  BY DEF Return, clientVars
<1>3. Nodes' = Nodes
  BY <1>2 DEF Nodes
<1>4. Typed'
  BY <1>1, <1>2 DEF Typed, Ops
<1>5. ListsOK' /\ RunsOK' /\ SidesOK'
  <2>1. ListsOK'
    BY <1>2 DEF ListsOK, Listed
  <2>2. RunsOK'
    BY <1>1, <1>2 DEF RunsOK, Faces
  <2> QED
    BY <2>1, <2>2, <1>2 DEF SidesOK, StartOps
<1>6. \A n \in Nodes' : Achieved(n)'
  BY <1>2 DEF Achieved
<1>7. RestartComplete'
  <2> SUFFICES ASSUME op \in {"Start", "StartAllNodes"}, ~err, NEW n \in Nodes
               PROVE  /\ box[n] = "running" /\ client[n] = run[n]
                      /\ cmd[n] <=> ~(cfg.gm /\ op = "StartAllNodes")
    BY <1>2, <1>3 DEF RestartComplete
  <2>1. Achieved(n) /\ todo[n] = <<>>
    BY <1>1, <1>2
  <2> QED
    BY <2>1 DEF Achieved, Faces
<1>8. ClientOK'
  <2>1. cfg.full > 0 /\ op = "Start" /\ ~err => client[Full(0)] > 0
    <3> SUFFICES ASSUME cfg.full > 0, op = "Start", ~err PROVE client[Full(0)] > 0
      OBVIOUS
    <3>1. Full(0) \in Nodes
      BY <1>1, NodesKnown
    <3>2. Achieved(Full(0)) /\ todo[Full(0)] = <<>>
      BY <3>1, <1>1, <1>2
    <3> QED
      BY <3>2 DEF Achieved
  <2> QED
    BY <2>1, <1>1, <1>2 DEF ClientOK
<1> QED
  BY <1>3, <1>4, <1>5, <1>6, <1>7, <1>8 DEF NInv

\* Every operation of the test keeps the invariant and moves no container.
LEMMA OperationNInv ==
  ASSUME NInv,
         \/ CallStart \/ ThenStart \/ Return \/ StopAllNodes \/ StartAllNodes
         \/ AddFullNodes \/ StopAllSidecars \/ StartAllSidecars
  PROVE  NInv' /\ UNCHANGED box
<1>1. IInv' /\ Typed /\ ListsOK /\ RunsOK /\ ClientOK
  BY OperationIInv DEF NInv
<1>2. \A o, S : Call(o, S) =>
        /\ op' = o /\ ops < MaxOps /\ ops' = ops + 1 /\ err' = FALSE /\ todo' = Goroutines(o, S)
        /\ UNCHANGED <<cfg, box, run, client, cmd, started>>
  BY DEF Call
<1>3. \A o, S : DOMAIN Goroutines(o, S) = Processes
  BY DEF Goroutines
<1>4. ops \in Nat /\ ops < MaxOps => ops + 1 \in 0 .. MaxOps
  BY NodesAssumption
<1>5. ASSUME NEW o \in Ops, NEW S, Call(o, S), UNCHANGED <<wanted, full>>
      PROVE  Typed' /\ Nodes' = Nodes /\ UNCHANGED box
  <2>1. /\ op' = o /\ ops < MaxOps /\ ops' = ops + 1 /\ err' = FALSE /\ DOMAIN todo' = Processes
        /\ UNCHANGED <<cfg, wanted, full, box, run, client, cmd, started>>
    BY <1>2, <1>3, <1>5
  <2>2. ops' \in 0 .. MaxOps
    BY <2>1, <1>1, <1>4, NodesAssumption DEF Typed
  <2>3. Typed'
    BY <2>1, <2>2, <1>1 DEF Typed
  <2> QED
    BY <2>1, <2>3 DEF Nodes
<1>6. {s \in ChainSides : s[2] < cfg.sides} \subseteq ChainSides
  OBVIOUS
<1>7. ASSUME NEW o \in {"Create", "StopAllNodes", "StartAllNodes"}, Call(o, Nodes), UNCHANGED <<wanted, full>>
      PROVE  NInv' /\ UNCHANGED box
  <2>1. o \in Ops \ {"none", "Start"}
    BY DEF Ops
  <2>2. Typed' /\ Nodes' = Nodes /\ UNCHANGED box
    BY <1>5, <1>7, <2>1
  <2> QED
    BY <1>1, <1>7, <2>1, <2>2, CallNInv
<1>8. ASSUME NEW o \in {"StopAllSidecars", "StartAllSidecars"}, UNCHANGED <<wanted, full>>,
             Call(o, {s \in ChainSides : s[2] < cfg.sides})
      PROVE  NInv' /\ UNCHANGED box
  <2> DEFINE S == {s \in ChainSides : s[2] < cfg.sides}
  <2>1. o \in Ops \ {"none", "Start"} /\ S \subseteq ChainSides /\ Call(o, S)
    BY <1>8 DEF Ops
  <2> HIDE DEF S
  <2>2. Typed' /\ Nodes' = Nodes /\ UNCHANGED box
    BY <1>5, <1>8, <2>1
  <2> QED
    BY <1>1, <1>8, <2>1, <2>2, CallNInv
<1>9. CASE CallStart
  BY <1>7, <1>9 DEF CallStart
<1>10. CASE StopAllNodes
  BY <1>7, <1>10 DEF StopAllNodes
<1>11. CASE StartAllNodes
  BY <1>7, <1>11 DEF StartAllNodes
<1>12. CASE StopAllSidecars
  BY <1>8, <1>12 DEF StopAllSidecars
<1>13. CASE StartAllSidecars
  BY <1>8, <1>13 DEF StartAllSidecars
<1>14. CASE ThenStart
  <2>1. UNCHANGED box
    BY <1>14 DEF ThenStart
  <2> QED
    BY <1>1, <1>14, <2>1, ThenStartNInv
<1>15. CASE Return
  <2>1. UNCHANGED box
    BY <1>15 DEF Return
  <2> QED
    BY <1>1, <1>15, <2>1, ReturnNInv
<1>16. CASE AddFullNodes
  <2> DEFINE o == "AddFullNodes"  S == {Full(wanted)}
  <2>1. wanted < cfg.full + cfg.adds /\ wanted' = wanted + 1
    BY <1>16 DEF AddFullNodes
  <2>2. cfg.full \in Nat /\ cfg.adds \in Nat
    BY <1>1, NodesKnown DEF ConfigType
  <2>3. wanted' \in Nat /\ wanted' <= cfg.full + cfg.adds /\ wanted <= wanted'
    BY <1>1, <2>1, <2>2 DEF Typed
  <2>4. CASE full' = wanted' /\ Call(o, S)
    <3>1. Typed'
      <4>1. UNCHANGED <<cfg, box, run, client, cmd, started>> /\ op' = o /\ err' = FALSE
            /\ ops' = ops + 1 /\ ops < MaxOps /\ DOMAIN todo' = Processes
        BY <2>4, <1>2, <1>3
      <4>2. ops' \in 0 .. MaxOps
        BY <4>1, <1>1, <1>4, NodesAssumption DEF Typed
      <4>3. full' \in Nat /\ cfg.full <= full' /\ full' <= wanted'
        BY <2>2, <2>3, <2>4, <1>1 DEF Typed
      <4> QED
        BY <1>1, <2>3, <4>1, <4>2, <4>3 DEF Typed, Ops
    <3>2. S \subseteq Nodes'
      <4>1. wanted \in Nat /\ full' = wanted + 1
        BY <2>1, <2>4, <1>1 DEF Typed
      <4>2. wanted \in 0 .. full' - 1
        BY <4>1
      <4> QED
        BY <4>2 DEF Nodes
    <3>3. o \in Ops \ {"none", "Start"}
      BY DEF Ops
    <3>4. UNCHANGED box
      BY <2>4, <1>2
    <3> QED
      BY <1>1, <2>4, <3>1, <3>2, <3>3, <3>4, CallNInv
  <2>5. CASE /\ op = "none" /\ ops < MaxOps /\ ops' = ops + 1 /\ last' = <<"AddFullNodes", FALSE>>
             /\ UNCHANGED <<cfg, full, box, run, client, cmd, op, todo, err, started, clientVars>>
    <3>1. ops \in Nat /\ ops' \in 0 .. MaxOps /\ ops <= ops'
      BY <2>5, <1>1, NodesAssumption DEF Typed
    <3>2. Typed'
      <4>1. full' \in Nat /\ cfg.full <= full' /\ full' <= wanted'
        BY <2>1, <2>2, <2>5, <1>1 DEF Typed
      <4> QED
        BY <1>1, <2>3, <2>5, <3>1, <4>1 DEF Typed
    <3>3. Nodes' = Nodes
      BY <2>5 DEF Nodes
    <3>4. ListsOK'
      BY <1>1, <2>5, <3>3 DEF ListsOK, Listed
    <3>5. RunsOK'
      <4>1. \A n \in AllNodes : run[n] \in Nat
        BY <1>1 DEF Typed
      <4> QED
        BY <1>1, <2>5, <3>1, <4>1 DEF RunsOK, Faces
    <3>6. SidesOK' /\ \A n \in Nodes' : Achieved(n)'
      BY <2>5 DEF SidesOK, StartOps, Achieved
    <3>7. RestartComplete' /\ ClientOK'
      BY <1>1, <2>5 DEF RestartComplete, ClientOK, clientVars
    <3> QED
      BY <1>1, <2>5, <3>2, <3>4, <3>5, <3>6, <3>7 DEF NInv
  <2> QED
    BY <1>16, <2>4, <2>5 DEF AddFullNodes
<1> QED
  BY <1>9, <1>10, <1>11, <1>12, <1>13, <1>14, <1>15, <1>16

\* So does a step of another goroutine: it queries the first full node.
LEMMA ClientNInv ==
  ASSUME NInv, NEW k \in Clients, ClientStep(k)
  PROVE  NInv' /\ UNCHANGED box
<1>1. IInv' /\ IInv /\ Typed /\ ClientOK
  BY ClientIInv DEF NInv
<1>2. Unchanged
  BY DEF ClientStep, PickNode, LockQuery, FindTxs
<1>3. UNCHANGED <<cfg, wanted, full, box, run, client, cmd, op, ops, todo, err, last, started>>
  BY <1>2 DEF Unchanged, opVars
<1>4. Nodes' = Nodes
  BY <1>3 DEF Nodes
<1>5. Typed' /\ RunsOK' /\ RestartComplete' /\ SidesOK'
  BY <1>3, <1>4 DEF NInv, Typed, RunsOK, RestartComplete, SidesOK, Faces
<1>6. ListsOK'
  BY <1>3, <1>4 DEF NInv, ListsOK, Listed
<1>7. \A n \in Nodes' : Achieved(n)'
  BY <1>3, <1>4 DEF NInv, Achieved, Faces
<1>8. ClientOK'
  <2>1. GetNode \in AllNodes /\ (cfg.full > 0 => GetNode = Full(0))
    BY <1>1, NodesKnown
  <2>2. at \in [Clients -> {"idle", "picked", "query", "panicked"}]
    BY <1>1 DEF IInv, PlacesOK
  <2>3. CASE PickNode(k)
    BY <1>1, <1>3, <2>1, <2>2, <2>3 DEF PickNode, ClientOK
  <2>4. CASE LockQuery(k)
    BY <1>1, <1>3, <2>2, <2>4 DEF LockQuery, ClientOK
  <2>5. CASE FindTxs(k)
    BY <1>1, <1>3, <2>2, <2>5 DEF FindTxs, ClientOK
  <2> QED
    BY <2>3, <2>4, <2>5 DEF ClientStep
<1> QED
  BY <1>1, <1>3, <1>5, <1>6, <1>7, <1>8 DEF NInv

LEMMA InitNInv == Init => NInv
<1> SUFFICES ASSUME Init PROVE NInv
  OBVIOUS
<1>1. IInv
  BY NodesAssumption DEF Init, IInv, PlacesOK, LockInv, Restart
<1>2. cfg.full \in Nat /\ cfg.adds \in Nat
  BY NodesAssumption DEF Init, ConfigType
<1>3. Typed
  <2>1. full \in Nat /\ wanted \in Nat /\ cfg.full <= full /\ full <= wanted /\ wanted <= cfg.full + cfg.adds
    BY <1>2 DEF Init
  <2>2. ops \in 0 .. MaxOps
    BY NodesAssumption DEF Init
  <2>3. /\ run \in [AllNodes -> Nat] /\ client \in [AllNodes -> Nat] /\ cmd \in [AllNodes -> BOOLEAN]
        /\ box \in [Processes -> {"none", "created", "running", "stopped"}] /\ DOMAIN todo = Processes
    BY DEF Init
  <2>4. cfg \in Configs /\ op \in Ops /\ err \in BOOLEAN /\ started \in BOOLEAN
    BY DEF Init, Ops
  <2> QED
    BY <2>1, <2>2, <2>3, <2>4 DEF Typed
<1>4. ListsOK /\ RunsOK
  BY Kinds DEF Init, ListsOK, Listed, RunsOK, Faces
<1>5. SidesOK /\ RestartComplete /\ \A n \in Nodes : Achieved(n)
  BY DEF Init, SidesOK, StartOps, RestartComplete, Achieved
<1>6. ClientOK
  BY DEF Init, ClientOK
<1> QED
  BY <1>1, <1>3, <1>4, <1>5, <1>6 DEF NInv

LEMMA NextNInv == NInv /\ [Next]_vars => NInv' /\ (PreStartFirst \/ UNCHANGED vars)
<1> SUFFICES ASSUME NInv, [Next]_vars PROVE NInv' /\ (PreStartFirst \/ UNCHANGED vars)
  OBVIOUS
<1>1. CASE UNCHANGED vars
  <2>1. Nodes' = Nodes
    BY <1>1 DEF vars, Nodes
  <2>2. IInv' /\ Typed' /\ RunsOK' /\ RestartComplete' /\ SidesOK' /\ ClientOK'
    BY <1>1, <2>1 DEF vars, opVars, clientVars, NInv, IInv, PlacesOK, LockInv, Typed, RunsOK,
       RestartComplete, SidesOK, Faces, ClientOK
  <2>3. ListsOK'
    BY <1>1, <2>1 DEF vars, opVars, NInv, ListsOK, Listed
  <2>4. \A n \in Nodes' : Achieved(n)'
    BY <1>1, <2>1 DEF vars, opVars, NInv, Achieved, Faces
  <2> QED
    BY <1>1, <2>2, <2>3, <2>4 DEF NInv
<1>2. UNCHANGED box => PreStartFirst
  BY DEF PreStartFirst
<1>3. CASE Next
  BY <1>2, <1>3, DockerNInv, OperationNInv, ClientNInv DEF Next
<1> QED
  BY <1>1, <1>3

\* Every variable stays in its domain, for any configurations and any number of
\* operations: no node has more containers than there were operations.
THEOREM TypeCorrect == Spec => []TypeOK
<1>1. NInv => TypeOK
  <2> SUFFICES ASSUME NInv PROVE TypeOK
    OBVIOUS
  <2>1. IInv /\ Typed /\ RunsOK /\ ClientOK
    BY DEF NInv
  <2>2. \A n \in AllNodes : client[n] <= run[n] /\ run[n] <= MaxOps
    <3>1. \A n \in AllNodes : run[n] \in Nat /\ client[n] <= run[n] /\ run[n] <= ops
      BY <2>1 DEF RunsOK, Typed
    <3>2. ops \in Nat /\ MaxOps \in Nat /\ ops <= MaxOps
      BY <2>1, NodesAssumption DEF Typed
    <3> QED
      BY <3>1, <3>2
  <2> QED
    BY <2>1, <2>2 DEF TypeOK, Typed, Ops, IInv, PlacesOK, LockInv, ClientOK
<1> QED
  BY <1>1, InitNInv, NextNInv, PTL DEF Spec

\* With a full node from the beginning FindTxs never reaches for the client of a
\* node that has none: it queries the first full node, whose client Start has
\* made and no later operation takes away.
THEOREM FirstHasClient == Spec => []QueryHasClient
<1>1. NInv => QueryHasClient
  BY DEF NInv, ClientOK, QueryHasClient
<1> QED
  BY <1>1, InitNInv, NextNInv, PTL DEF Spec

\* A node's container starts only when its preStart sidecars run, and after a
\* start or restart that returned no error all nodes run what they should.
THEOREM StartsComplete == Spec => NodesStart
<1>1. NInv /\ [Next]_vars => [PreStartFirst /\ RestartComplete']_vars
  BY NextNInv DEF NInv
<1> QED
  BY <1>1, InitNInv, NextNInv, PTL DEF Spec, NodesStart
=============================================================================
