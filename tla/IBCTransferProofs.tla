-------------------------- MODULE IBCTransferProofs --------------------------
(***************************************************************************)
(* Proofs about the relayer that IBCTransfer and its test start and stop,  *)
(* for any number of containers, transfers and amounts.                    *)
(***************************************************************************)
EXTENDS IBCTransfer, WellFoundedInduction, TLAPS

\* The lifecycle is what the statement of StartRelayer or StopRelayer needs.
\* From ContainerLogs on its process is over, and at RemoveContainer reported.
PlaceInv ==
  /\ pc = "create" => lifecycle = 0
  /\ pc = "start" => lifecycle \in Ids
  /\ pc = "stop" => lifecycle # NoLifecycle
  /\ pc \in {"logs", "inspect", "remove"} => lifecycle \in Ids \ Running
  /\ pc = "remove" => lifecycle \in reported

\* A process runs once: never before its container is started, and the
\* container StartContainer is about to start has not run.
RanInv ==
  /\ \A i \in ran : docker[i] \notin {"unused", "created"}
  /\ \A i \in Running : i \in ran
  /\ pc = "start" => lifecycle \notin ran /\ docker[lifecycle] # "exited"
  /\ lifecycle \in Ids => docker[lifecycle] # "unused"

IInv == RelayerTypeOK /\ RunningIsOwned /\ ReleasedIsReported /\ PlaceInv /\ RanInv

\* 0 and NoLifecycle are no containers.
LEMMA IdsFacts == 0 \notin Ids /\ NoLifecycle \notin Ids /\ 0 # NoLifecycle
                  /\ Ids \subseteq 0 .. NoLifecycle /\ {0, NoLifecycle} \subseteq 0 .. NoLifecycle
  BY ContainersAssumption DEF Ids, NoLifecycle

\* The invariant holds at first.
LEMMA InitIInv == Init => IInv
  BY IdsFacts
  DEF Init, RelayerInit, IInv, RelayerTypeOK, RunningIsOwned, ReleasedIsReported,
      PlaceInv, RanInv, Running

\* What a step leaves alone keeps the invariant.
LEMMA StutterIInv == IInv /\ UNCHANGED relayerVars => IInv'
  BY DEF relayerVars, IInv, RelayerTypeOK, RunningIsOwned, ReleasedIsReported,
         PlaceInv, RanInv, Running

\* Every statement of StartRelayer keeps the invariant.
LEMMA StartIInv ==
  ASSUME IInv, StartRelayer \/ CreateContainer \/ StartContainer
  PROVE  IInv'
<1> USE IdsFacts
<1> USE DEF IInv, RelayerTypeOK, RunningIsOwned, ReleasedIsReported, PlaceInv, RanInv,
            Running, Return
<1>1. CASE StartRelayer
  BY <1>1 DEF StartRelayer
<1>2. CASE CreateContainer
  BY <1>2 DEF CreateContainer, Unused
<1>3. CASE StartContainer
  BY <1>3 DEF StartContainer, Missing, Existing
<1> QED
  BY <1>1, <1>2, <1>3

\* Every statement of StopRelayer keeps the invariant.
LEMMA StopIInv ==
  ASSUME IInv,
         StopRelayer \/ StopContainer \/ ContainerLogs \/ InspectContainer \/ RemoveContainer
  PROVE  IInv'
<1> USE IdsFacts
<1> USE DEF IInv, RelayerTypeOK, RunningIsOwned, ReleasedIsReported, PlaceInv, RanInv,
            Running, Return, Missing, Existing
<1>1. CASE StopRelayer
  BY <1>1 DEF StopRelayer
<1>2. CASE StopContainer
  BY <1>2 DEF StopContainer
<1>3. CASE ContainerLogs
  BY <1>3 DEF ContainerLogs
<1>4. CASE InspectContainer
  BY <1>4 DEF InspectContainer
<1>5. CASE RemoveContainer
  BY <1>5 DEF RemoveContainer
<1> QED
  BY <1>1, <1>2, <1>3, <1>4, <1>5

\* So do an exit of the process and a removal from outside.
LEMMA EnvironmentIInv ==
  ASSUME IInv, Environment
  PROVE  IInv'
<1> USE IdsFacts
<1> USE DEF IInv, RelayerTypeOK, RunningIsOwned, ReleasedIsReported, PlaceInv, RanInv, Running
<1>1. PICK i \in Ids : Exit(i) \/ Purge(i)
  BY DEF Environment
<1>2. CASE Exit(i)
  BY <1>2 DEF Exit
<1>3. CASE Purge(i)
  BY <1>3 DEF Purge, Existing
<1> QED
  BY <1>1, <1>2, <1>3

\* A step of the specification is a step of the relayer, of its environment,
\* or one that leaves the relayer alone.
LEMMA NextSteps ==
  ASSUME [Next]_vars
  PROVE  \/ StartRelayer \/ CreateContainer \/ StartContainer
         \/ StopRelayer \/ StopContainer \/ ContainerLogs \/ InspectContainer \/ RemoveContainer
         \/ Environment
         \/ UNCHANGED relayerVars
<1>1. CASE Transfer
  BY <1>1 DEF Transfer, SendIBCTransfer, CallStartRelayer, RelayerReturned, WaitForBlocks,
              ReadBalanceOfA, CheckBalances, CallStopRelayer
<1>2. CASE RelayerStep
  BY <1>2 DEF RelayerStep
<1>3. CASE \E a \in Amounts : Call(a)
  BY <1>3 DEF Call
<1>4. CASE TestStartsOrStops
  BY <1>4 DEF TestStartsOrStops
<1>5. CASE \E i \in 1 .. MaxTransfers : Relay(i)
  BY <1>5 DEF Relay
<1>6. CASE UNCHANGED vars
  BY <1>6 DEF vars
<1> QED
  BY <1>1, <1>2, <1>3, <1>4, <1>5, <1>6 DEF Next

\* Every step of the specification keeps the invariant.
LEMMA NextIInv == IInv /\ [Next]_vars => IInv'
  BY NextSteps, StutterIInv, StartIInv, StopIInv, EnvironmentIInv

\* The invariant always holds.
LEMMA Invariance == Spec => []IInv
  BY InitIInv, NextIInv, PTL DEF Spec

\* The relayer's variables stay in their domains.
THEOREM RelayerTypeCorrect == Spec => []RelayerTypeOK
<1>1. IInv => RelayerTypeOK
  BY DEF IInv
<1> QED
  BY <1>1, Invariance, PTL

\* Whatever docker calls fail, and however IBCTransfer returns, no relayer
\* process runs outside the current lifecycle.
THEOREM RunningOwned == Spec => []RunningIsOwned
<1>1. IInv => RunningIsOwned
  BY DEF IInv
<1> QED
  BY <1>1, Invariance, PTL

\* StopRelayer never lets go of a container that ran and was not reported.
THEOREM ReleasedReported == Spec => []ReleasedIsReported
<1>1. IInv => ReleasedIsReported
  BY DEF IInv
<1> QED
  BY <1>1, Invariance, PTL

-----------------------------------------------------------------------------
(* The relayer implements its promise. *)

\* Every statement of StartRelayer is a claim, the start of the work, or
\* nothing the caller sees.
LEMMA StartStep ==
  ASSUME IInv, StartRelayer \/ CreateContainer \/ StartContainer
  PROVE  [Promise!Next]_<<lifecycle # NoLifecycle, Worker(lifecycle)>>
<1> USE IdsFacts
<1> USE DEF IInv, RelayerTypeOK, RunningIsOwned, PlaceInv, RanInv, Running, Return, Worker
<1>1. CASE StartRelayer
  BY <1>1 DEF StartRelayer, Promise!Next, Promise!Claim
<1>2. CASE CreateContainer
  <2>1. UNCHANGED <<lifecycle # NoLifecycle, Worker(lifecycle)>>
    BY <1>2 DEF CreateContainer, Unused
  <2> QED
    BY <2>1
<1>3. CASE StartContainer
  BY <1>3 DEF StartContainer, Missing, Existing, Promise!Next, Promise!Work
<1> QED
  BY <1>1, <1>2, <1>3

\* Every statement of StopRelayer ends the work, gives the claim back, or is
\* nothing the caller sees; it gives back no claim whose work goes on.
LEMMA StopStep ==
  ASSUME IInv,
         StopRelayer \/ StopContainer \/ ContainerLogs \/ InspectContainer \/ RemoveContainer
  PROVE  [Promise!Next]_<<lifecycle # NoLifecycle, Worker(lifecycle)>>
<1> USE IdsFacts
<1> USE DEF IInv, RelayerTypeOK, RunningIsOwned, PlaceInv, RanInv, Running, Return, Worker
<1>1. CASE StopContainer
  BY <1>1 DEF StopContainer, Missing, Existing, Promise!Next, Promise!End
<1>2. CASE RemoveContainer
  BY <1>2 DEF RemoveContainer, Missing, Existing, Promise!Next, Promise!Release, Promise!GiveUp
<1>3. CASE StopRelayer \/ ContainerLogs \/ InspectContainer
  <2>1. UNCHANGED <<lifecycle, docker, ran>>
    BY <1>3 DEF StopRelayer, ContainerLogs, InspectContainer
  <2> QED
    BY <2>1
<1> QED
  BY <1>1, <1>2, <1>3

\* An exit or a removal from outside ends the work, if there was any.
LEMMA EnvironmentStep ==
  ASSUME IInv, Environment
  PROVE  [Promise!Next]_<<lifecycle # NoLifecycle, Worker(lifecycle)>>
<1> USE IdsFacts
<1> USE DEF IInv, RelayerTypeOK, RunningIsOwned, PlaceInv, RanInv, Running, Worker
<1>1. PICK i \in Ids : Exit(i) \/ Purge(i)
  BY DEF Environment
<1>2. CASE Exit(i)
  BY <1>2 DEF Exit, Promise!Next, Promise!End
<1>3. CASE Purge(i)
  BY <1>3 DEF Purge, Existing, Promise!Next, Promise!End
<1> QED
  BY <1>1, <1>2, <1>3

\* StartRelayer and StopRelayer, with docker calls that fail at any point, are
\* one worker that works at most once and never after its release.
THEOREM PromiseKept == Spec => KeepsPromise
<1>1. Init => Promise!Init
  BY IdsFacts DEF Init, RelayerInit, Promise!Init, Worker
<1>2. IInv /\ [Next]_vars => [Promise!Next]_<<lifecycle # NoLifecycle, Worker(lifecycle)>>
  <2> SUFFICES ASSUME IInv, [Next]_vars
               PROVE  [Promise!Next]_<<lifecycle # NoLifecycle, Worker(lifecycle)>>
    OBVIOUS
  <2>1. CASE UNCHANGED relayerVars
    BY <2>1 DEF relayerVars, Worker, Running
  <2> QED
    BY <2>1, NextSteps, StartStep, StopStep, EnvironmentStep
<1> QED
  BY <1>1, <1>2, Invariance, PTL DEF Spec, KeepsPromise, Promise!Spec

-----------------------------------------------------------------------------
(* Balances are sums over the packets.  What a recursive sum over 0 .. n is *)
(* follows from the least counterexample.                                   *)

\* A set of natural numbers that has an element has a least one.
LEMMA NatMin ==
  ASSUME NEW T \in SUBSET Nat, NEW t \in T
  PROVE  \E m \in T : \A y \in T : m <= y
<1> DEFINE R == {ss \in Nat \X Nat : ss[1] < ss[2]}
<1>1. IsWellFoundedOn(R, Nat)
  BY NatLessThanWellFounded DEF OpToRel
<1>2. PICK m \in T : \A y \in T : ~(<<y, m>> \in R)
  <2> HIDE DEF R
  <2> QED
  BY <1>1, WFMin
<1>3. ASSUME NEW y \in T PROVE m <= y
  <2>1. y \in Nat /\ m \in Nat
    OBVIOUS
  <2>2. ~(y < m)
    <3> SUFFICES ASSUME y < m PROVE FALSE
      OBVIOUS
    <3>1. <<y, m>> \in Nat \X Nat
      BY <2>1
    <3>2. <<y, m>> \in R
      BY <3>1
    <3> QED
      BY <3>2, <1>2
  <2> QED
    BY <2>1, <2>2
<1> QED
  BY <1>3
\* Induction, for a set in place of a predicate.
LEMMA NatInduct ==
  ASSUME NEW G, 0 \in G, \A n \in Nat : n \in G => n + 1 \in G
  PROVE  \A n \in Nat : n \in G
<1> SUFFICES ASSUME NEW k \in Nat, k \notin G PROVE FALSE
  OBVIOUS
<1> DEFINE T == {n \in Nat : n \notin G}
<1>1. PICK m \in T : \A y \in T : m <= y
  <2>1. T \in SUBSET Nat /\ k \in T
    OBVIOUS
  <2> HIDE DEF T
  <2> QED
    BY <2>1, NatMin
<1>2. m \in Nat /\ m # 0 /\ m - 1 \in Nat
  OBVIOUS
<1>3. m - 1 \notin T
  <2>1. ~(m <= m - 1)
    BY <1>2
  <2> QED
    BY <1>1, <2>1
<1>4. m - 1 \in G
  BY <1>2, <1>3
<1>5. m - 1 + 1 = m
  BY <1>2
<1>6. m \in G
  BY <1>2, <1>4, <1>5
<1> QED
  BY <1>6

\* The recursive sum of g over 0 .. n exists.
LEMMA SumExists ==
  ASSUME NEW n \in Nat, NEW g
  PROVE  \E f : f = [i \in 0 .. n |-> IF i = 0 THEN 0 ELSE f[i - 1] + g[i]]
<1> DEFINE G == {k \in Nat : \E f : f = [i \in 0 .. k |-> IF i = 0 THEN 0 ELSE f[i - 1] + g[i]]}
<1>1. 0 \in G
  <2> DEFINE f == [i \in 0 .. 0 |-> 0]
  <2>1. f = [i \in 0 .. 0 |-> IF i = 0 THEN 0 ELSE f[i - 1] + g[i]]
    OBVIOUS
  <2> QED
    BY <2>1
<1>2. ASSUME NEW k \in Nat, k \in G PROVE k + 1 \in G
  <2>1. PICK f : f = [i \in 0 .. k |-> IF i = 0 THEN 0 ELSE f[i - 1] + g[i]]
    BY <1>2
  <2> DEFINE h == [i \in 0 .. k + 1 |-> IF i = k + 1 THEN f[k] + g[k + 1] ELSE f[i]]
  <2>2. ASSUME NEW i \in 0 .. k + 1
        PROVE  h[i] = IF i = 0 THEN 0 ELSE h[i - 1] + g[i]
    <3>1. CASE i = k + 1
      <4>1. i # 0 /\ i - 1 = k /\ k \in 0 .. k + 1 /\ k # k + 1
        BY <3>1
      <4>2. h[i - 1] = f[k]
        BY <4>1
      <4> QED
        BY <3>1, <4>1, <4>2
    <3>2. CASE i \in 0 .. k
      <4>1. h[i] = f[i] /\ (i # 0 => h[i - 1] = f[i - 1])
        BY <3>2
      <4>2. f[i] = IF i = 0 THEN 0 ELSE f[i - 1] + g[i]
        BY <2>1, <3>2
      <4> QED
        BY <4>1, <4>2
    <3> QED
      BY <3>1, <3>2
  <2>3. h = [i \in 0 .. k + 1 |-> IF i = 0 THEN 0 ELSE h[i - 1] + g[i]]
    <3>1. h = [i \in 0 .. k + 1 |-> h[i]]
      OBVIOUS
    <3> HIDE DEF h
    <3> QED
      BY <3>1, <2>2
  <2>4. \E e : e = [i \in 0 .. k + 1 |-> IF i = 0 THEN 0 ELSE e[i - 1] + g[i]]
    <3> HIDE DEF h
    <3> QED
      BY <2>3
  <2> QED
    BY <2>4
<1>3. n \in G
  <2> HIDE DEF G
  <2> QED
    BY <1>1, <1>2, NatInduct
<1> QED
  BY <1>3

\* The packets that count for a total.
Counted(S, i) == IF packets[i].state \in S THEN packets[i].amount ELSE 0

\* A total is the last of the partial sums f.
LEMMA TotalIs ==
  ASSUME NEW S, Len(packets) \in Nat
  PROVE  \E f : /\ Total(S) = f[Len(packets)] /\ f[0] = 0
                /\ \A i \in 1 .. Len(packets) : f[i] = f[i - 1] + Counted(S, i)
<1> DEFINE n == Len(packets)
           g == [i \in 1 .. n |-> Counted(S, i)]
           IsSum(f) == f = [i \in 0 .. n |-> IF i = 0 THEN 0 ELSE f[i - 1] + Counted(S, i)]
           s == CHOOSE f : IsSum(f)
<1>1. \E f : IsSum(f)
  <2>1. PICK f : f = [i \in 0 .. n |-> IF i = 0 THEN 0 ELSE f[i - 1] + g[i]]
    BY SumExists
  <2>2. \A i \in 0 .. n : i # 0 => g[i] = Counted(S, i)
    OBVIOUS
  <2>3. \A i \in 0 .. n : (IF i = 0 THEN 0 ELSE f[i - 1] + g[i])
                         = (IF i = 0 THEN 0 ELSE f[i - 1] + Counted(S, i))
    <3> HIDE DEF g
    <3> QED
      BY <2>2
  <2>4. IsSum(f)
    <3> HIDE DEF g
    <3> QED
      BY <2>1, <2>3
  <2> QED
    BY <2>4
<1>2. IsSum(s)
  <2> HIDE DEF IsSum
  <2> QED
    BY <1>1
<1>3. Total(S) = s[n]
  BY DEF Total, Counted
<1>4. s[0] = 0 /\ \A i \in 1 .. n : s[i] = s[i - 1] + Counted(S, i)
  <2> HIDE DEF s
  <2>1. \A i \in 0 .. n : s[i] = IF i = 0 THEN 0 ELSE s[i - 1] + Counted(S, i)
    BY <1>2
  <2>2. 0 \in 0 .. n /\ \A i \in 1 .. n : i \in 0 .. n /\ i # 0
    OBVIOUS
  <2> QED
    BY <2>1, <2>2
<1> HIDE DEF s
<1> QED
  BY <1>3, <1>4

\* A total of natural numbers is one.
LEMMA TotalNat ==
  ASSUME NEW S, Len(packets) \in Nat, \A i \in 1 .. Len(packets) : packets[i].amount \in Nat
  PROVE  Total(S) \in Nat
<1> DEFINE n == Len(packets)
<1>1. PICK f : /\ Total(S) = f[n] /\ f[0] = 0
               /\ \A i \in 1 .. n : f[i] = f[i - 1] + Counted(S, i)
  BY TotalIs
<1> DEFINE G == {k \in Nat : k <= n => f[k] \in Nat}
<1>2. 0 \in G
  BY <1>1
<1>3. ASSUME NEW k \in Nat, k \in G PROVE k + 1 \in G
  <2> SUFFICES ASSUME k + 1 <= n PROVE f[k + 1] \in Nat
    OBVIOUS
  <2>1. f[k] \in Nat /\ k + 1 \in 1 .. n /\ (k + 1) - 1 = k
    BY <1>3
  <2>2. Counted(S, k + 1) \in Nat
    BY <2>1 DEF Counted
  <2>3. f[k + 1] = f[k] + Counted(S, k + 1)
    BY <1>1, <2>1
  <2> QED
    BY <2>1, <2>2, <2>3
<1>4. \A k \in Nat : k \in G
  <2> HIDE DEF G
  <2> QED
    BY <1>2, <1>3, NatInduct
<1> QED
  BY <1>1, <1>4

\* A total that is not zero counts some packet.
LEMMA TotalCounts ==
  ASSUME NEW S, Len(packets) \in Nat, Total(S) # 0
  PROVE  \E i \in 1 .. Len(packets) : packets[i].state \in S
<1> SUFFICES ASSUME \A i \in 1 .. Len(packets) : packets[i].state \notin S
             PROVE  FALSE
  OBVIOUS
<1> DEFINE n == Len(packets)
<1>1. PICK f : /\ Total(S) = f[n] /\ f[0] = 0
               /\ \A i \in 1 .. n : f[i] = f[i - 1] + Counted(S, i)
  BY TotalIs
<1> DEFINE G == {k \in Nat : k <= n => f[k] = 0}
<1>2. 0 \in G
  BY <1>1
<1>3. ASSUME NEW k \in Nat, k \in G PROVE k + 1 \in G
  <2> SUFFICES ASSUME k + 1 <= n PROVE f[k + 1] = 0
    OBVIOUS
  <2>1. f[k] = 0 /\ k + 1 \in 1 .. n /\ (k + 1) - 1 = k
    BY <1>3
  <2>2. Counted(S, k + 1) = 0
    BY <2>1 DEF Counted
  <2>3. f[k + 1] = f[k] + Counted(S, k + 1)
    BY <1>1, <2>1
  <2> QED
    BY <2>1, <2>2, <2>3
<1>4. \A k \in Nat : k \in G
  <2> HIDE DEF G
  <2> QED
    BY <1>2, <1>3, NatInduct
<1> QED
  BY <1>1, <1>4

-----------------------------------------------------------------------------
(* The test's side. *)

\* A packet is sent of an amount asked for, and one per call at most.
SendInv ==
  /\ at # "test" => amount \in Amounts
  /\ at = "send" => Len(packets) < calls

\* Of a call that began clean all packets but its own, the last, are refunded.
OwnInv ==
  clean =>
    /\ at = "send" => \A i \in 1 .. Len(packets) : packets[i].state = "refunded"
    /\ at \notin {"test", "send"} =>
         Len(packets) > 0 /\ \A i \in 1 .. Len(packets) - 1 : packets[i].state = "refunded"

TInv == TypeOK /\ SendInv /\ OwnInv /\ SuccessIsDelivery

Packet == [amount : Amounts, state : {"flight", "received", "refunded"}]

\* Packets of natural amounts are numbered from 1, and their total is natural.
LEMMA PacketFacts ==
  ASSUME packets \in Seq(Packet)
  PROVE  /\ Len(packets) \in Nat /\ DOMAIN packets = 1 .. Len(packets)
         /\ \A i \in 1 .. Len(packets) : packets[i] \in Packet
         /\ \A S : Total(S) \in Nat
<1>1. Len(packets) \in Nat /\ DOMAIN packets = 1 .. Len(packets)
      /\ \A i \in 1 .. Len(packets) : packets[i] \in Packet
  <2> HIDE DEF Packet
  <2> QED
    OBVIOUS
<1>2. \A i \in 1 .. Len(packets) : packets[i].amount \in Nat
  BY <1>1, TransferAssumption DEF Packet
<1> QED
  BY <1>1, <1>2, TotalNat

\* The invariant holds at first.
LEMMA InitTInv == Init => TInv
<1> SUFFICES ASSUME Init PROVE TInv
  OBVIOUS
<1>1. RelayerTypeOK
  BY InitIInv DEF IInv
<1>2. packets = <<>> /\ calls = 0 /\ calls \in 0 .. MaxTransfers /\ origBal \in Nat /\ updateBal \in Nat
  BY TransferAssumption DEF Init
<1>3. packets \in Seq(Packet) /\ Len(packets) = 0
  <2> HIDE DEF Packet
  <2> QED
    BY <1>2
<1>4. Len(packets) <= calls
  BY <1>2, <1>3
<1>5. at = "test" /\ amount = 0 /\ clean = FALSE /\ outcome = "none"
  BY DEF Init
<1>6. TypeOK
  BY <1>1, <1>2, <1>3, <1>4, <1>5 DEF TypeOK, Statements, Packet
<1> QED
  BY <1>5, <1>6 DEF TInv, SendInv, OwnInv, SuccessIsDelivery

\* What a step that leaves packets, the amount and the calls alone has to show.
LEMMA SameInv ==
  ASSUME TInv, RelayerTypeOK', UNCHANGED <<calls, amount, origBal, packets, clean>>,
         updateBal' \in Nat, at' \in Statements, outcome' \in {"none", "ok", "error"},
         at' # "test" => at # "test", at' = "send" => at = "send",
         at' \notin {"test", "send"} => at # "send",
         clean /\ at' \in {"stop", "stopping", "last"} => packets[Len(packets)].state = "received"
  PROVE  TInv'
<1>1. TypeOK'
  BY DEF TInv, TypeOK
<1>2. SendInv'
  BY DEF TInv, SendInv
<1>3. OwnInv'
  BY DEF TInv, OwnInv
<1>4. SuccessIsDelivery'
  BY DEF SuccessIsDelivery
<1> QED
  BY <1>1, <1>2, <1>3, <1>4 DEF TInv

\* Call begins clean only if every packet is refunded.
LEMMA CallTInv ==
  ASSUME TInv, IInv', NEW a \in Amounts, Call(a)
  PROVE  TInv'
<1>1. packets \in Seq(Packet) /\ packets' = packets
  BY DEF TInv, TypeOK, Packet, Call
<1>2. SpentOnA \in Nat
  BY <1>1, PacketFacts DEF SpentOnA
<1>3. calls' \in 0 .. MaxTransfers /\ Len(packets) < calls' /\ calls' \in Nat
  <2>1. calls \in Nat /\ calls < MaxTransfers /\ Len(packets) <= calls /\ calls' = calls + 1
    BY DEF TInv, TypeOK, Call
  <2> QED
    BY <1>1, <2>1, PacketFacts, TransferAssumption
<1>4. at' \in {"test", "send"} /\ outcome' \in {"none", "ok", "error"}
      /\ origBal' \in Nat /\ updateBal' \in Nat /\ amount' \in Amounts
      /\ clean' \in BOOLEAN
      /\ (clean' => \A i \in DOMAIN packets : packets[i].state = "refunded")
  BY <1>2 DEF TInv, TypeOK, Call, Leave
<1>5. TypeOK'
  BY <1>1, <1>3, <1>4, PacketFacts DEF TypeOK, IInv, Packet, Statements
<1>6. SendInv'
  BY <1>1, <1>3, <1>4 DEF SendInv
<1>7. OwnInv'
  BY <1>1, <1>4, PacketFacts DEF OwnInv
<1>8. SuccessIsDelivery'
  BY <1>4 DEF SuccessIsDelivery
<1> QED
  BY <1>5, <1>6, <1>7, <1>8 DEF TInv

\* SendIBCTransfer adds the call's own packet, behind all others.
LEMMA SendTInv ==
  ASSUME TInv, IInv', SendIBCTransfer
  PROVE  TInv'
<1>1. CASE UNCHANGED packets
  <2>1. at' = "test" /\ outcome' = "error" /\ UNCHANGED <<calls, amount, origBal, updateBal, clean>>
    <3>1. packets # Append(packets, [amount |-> amount, state |-> "flight"])
      <4> DEFINE e == [amount |-> amount, state |-> "flight"]
      <4>1. packets \in Seq(Packet) /\ e \in Packet
        BY DEF TInv, TypeOK, SendInv, SendIBCTransfer, Packet
      <4> HIDE DEF e, Packet
      <4>2. Len(Append(packets, e)) = Len(packets) + 1 /\ Len(packets) \in Nat
        BY <4>1
      <4>3. packets # Append(packets, e)
        BY <4>2
      <4> QED
        BY <4>3 DEF e
    <3> QED
      BY <1>1, <3>1 DEF SendIBCTransfer, Leave
  <2> QED
    BY <1>1, <2>1, SameInv DEF IInv, Statements, TInv, TypeOK
<1>2. CASE packets' = Append(packets, [amount |-> amount, state |-> "flight"])
  <2> DEFINE e == [amount |-> amount, state |-> "flight"]
  <2>1. packets \in Seq(Packet) /\ e \in Packet /\ Len(packets) < calls
    BY DEF TInv, TypeOK, SendInv, SendIBCTransfer, Packet
  <2>2. packets' \in Seq(Packet) /\ Len(packets') = Len(packets) + 1 /\ Len(packets) \in Nat
        /\ \A i \in 1 .. Len(packets) : packets'[i] = packets[i]
    <3> HIDE DEF Packet
    <3>1. packets' = Append(packets, e)
      BY <1>2
    <3> HIDE DEF e
    <3> QED
      BY <2>1, <3>1
  <2>3. at' \in {"start", "test"} /\ outcome' \in {"none", "ok", "error"} /\ at = "send"
        /\ UNCHANGED <<calls, amount, origBal, updateBal, clean>>
    BY DEF TInv, TypeOK, SendIBCTransfer, Leave
  <2>4. calls \in Nat /\ Len(packets') <= calls
    BY <2>1, <2>2 DEF TInv, TypeOK
  <2>5. TypeOK'
    BY <2>2, <2>3, <2>4 DEF TInv, TypeOK, IInv, Packet, Statements
  <2>6. SendInv'
    BY <2>3 DEF TInv, SendInv
  <2>7. OwnInv'
    <3>1. Len(packets') - 1 = Len(packets) /\ Len(packets') > 0
      BY <2>2
    <3> QED
      BY <2>2, <2>3, <3>1 DEF TInv, OwnInv
  <2>8. SuccessIsDelivery'
    BY <2>3 DEF SuccessIsDelivery
  <2> QED
    BY <2>5, <2>6, <2>7, <2>8 DEF TInv
<1> QED
  BY <1>1, <1>2 DEF SendIBCTransfer

\* A check that passes has found the amount on chain B: some packet arrived,
\* and all but the call's own are refunded.
LEMMA CheckTInv ==
  ASSUME TInv, IInv', CheckBalances
  PROVE  TInv'
<1>1. packets \in Seq(Packet)
  BY DEF TInv, TypeOK, Packet
<1>2. ASSUME clean, HeldOnB = amount
      PROVE  packets[Len(packets)].state = "received"
  <2>1. Total({"received"}) # 0
    BY <1>2, TransferAssumption DEF TInv, SendInv, CheckBalances, HeldOnB
  <2>2. PICK i \in 1 .. Len(packets) : packets[i].state \in {"received"}
    BY <1>1, <2>1, TotalCounts, PacketFacts
  <2>3. i \notin 1 .. Len(packets) - 1
    BY <1>2, <2>2 DEF TInv, OwnInv, CheckBalances
  <2>4. i = Len(packets)
    <3>1. Len(packets) \in Nat
      BY <1>1, PacketFacts
    <3> QED
      BY <2>3, <3>1
  <2> QED
    BY <2>2, <2>4
<1>3. at' \in {"stop", "test"} /\ (at' = "stop" => HeldOnB = amount)
      /\ outcome' \in {"none", "ok", "error"}
      /\ UNCHANGED <<calls, amount, origBal, updateBal, packets, clean>> /\ at = "compare"
      /\ updateBal \in Nat
  BY DEF TInv, TypeOK, CheckBalances, Leave
<1> QED
  BY <1>2, <1>3, SameInv DEF IInv, Statements

\* Relay changes a packet in flight, which no packet received is.
LEMMA RelayTInv ==
  ASSUME TInv, IInv', NEW i \in 1 .. MaxTransfers, Relay(i)
  PROVE  TInv'
<1>1. packets \in Seq(Packet) /\ i \in 1 .. Len(packets) /\ packets[i].state = "flight"
  BY PacketFacts DEF TInv, TypeOK, Packet, Relay
<1>2. PICK s \in {"received", "refunded"} : packets' = [packets EXCEPT ![i].state = s]
  BY DEF Relay
<1> DEFINE e == [packets[i] EXCEPT !.state = s]
<1>3. e \in Packet /\ packets' = [packets EXCEPT ![i] = e]
  BY <1>1, <1>2, PacketFacts DEF Packet
<1>4. packets' \in Seq(Packet) /\ Len(packets') = Len(packets)
      /\ \A k \in 1 .. Len(packets) : k # i => packets'[k] = packets[k]
  <2> HIDE DEF e, Packet
  <2> QED
    BY <1>1, <1>3
<1>5. UNCHANGED <<at, calls, amount, origBal, updateBal, clean, outcome>>
  BY DEF Relay
<1>6. TypeOK'
  BY <1>4, <1>5 DEF TInv, TypeOK, IInv, Packet
<1>7. SendInv'
  BY <1>4, <1>5 DEF TInv, SendInv
<1>8. \A k \in 1 .. Len(packets) : packets[k].state \in {"received", "refunded"} => k # i
  BY <1>1
<1>9. Len(packets) \in Nat
  BY <1>1, PacketFacts
<1>10. OwnInv'
  BY <1>4, <1>5, <1>8, <1>9 DEF TInv, OwnInv
<1>11. SuccessIsDelivery'
  <2> SUFFICES ASSUME at \in {"stop", "stopping", "last"}, clean
               PROVE  packets'[Len(packets)].state = "received"
    BY <1>4, <1>5 DEF SuccessIsDelivery
  <2>1. packets[Len(packets)].state = "received" /\ Len(packets) > 0
    BY DEF TInv, SuccessIsDelivery, OwnInv
  <2>2. Len(packets) \in 1 .. Len(packets)
    BY <1>9, <2>1
  <2> QED
    BY <1>4, <1>8, <2>1, <2>2
<1> QED
  BY <1>6, <1>7, <1>10, <1>11 DEF TInv

\* Every step of the specification keeps the invariant.
LEMMA NextTInv == TInv /\ IInv' /\ [Next]_vars => TInv'
<1> SUFFICES ASSUME TInv, IInv', [Next]_vars PROVE TInv'
  OBVIOUS
<1>1. RelayerTypeOK'
  BY DEF IInv
<1>2. CASE Transfer
  <2>1. CASE CallStartRelayer \/ RelayerReturned \/ WaitForBlocks \/ CallStopRelayer
    <3>1. /\ UNCHANGED <<calls, amount, origBal, packets, clean>>
          /\ updateBal' \in Nat
          /\ at' \in Statements \ {"send"} /\ at \notin {"test", "send"}
          /\ outcome' \in {"none", "ok", "error"}
          /\ at' \in {"stop", "stopping", "last"} => at \in {"stop", "stopping", "last"}
      BY <2>1
      DEF CallStartRelayer, RelayerReturned, WaitForBlocks, CallStopRelayer, Leave,
          TInv, TypeOK, Statements
    <3>2. clean /\ at' \in {"stop", "stopping", "last"} => packets[Len(packets)].state = "received"
      BY <3>1 DEF TInv, SuccessIsDelivery
    <3> QED
      BY <1>1, <3>1, <3>2, SameInv
  <2>2. CASE ReadBalanceOfA
    <3>1. SpentOnA \in Nat
      <4>1. packets \in Seq(Packet)
        BY DEF TInv, TypeOK, Packet
      <4> QED
        BY <4>1, PacketFacts DEF SpentOnA
    <3>2. /\ UNCHANGED <<calls, amount, origBal, packets, clean>> /\ updateBal' \in Nat
          /\ at = "check" /\ at' \in {"test", "compare"} /\ outcome' \in {"none", "ok", "error"}
      BY <2>2, <3>1 DEF ReadBalanceOfA, Leave, TInv, TypeOK
    <3> QED
      BY <1>1, <3>2, SameInv DEF Statements
  <2> QED
    BY <1>2, <2>1, <2>2, SendTInv, CheckTInv DEF Transfer
<1>3. CASE UNCHANGED testVars
  BY <1>1, <1>3, SameInv DEF testVars, TInv, TypeOK, SuccessIsDelivery
<1>4. CASE TestStartsOrStops
  BY <1>3, <1>4 DEF TestStartsOrStops
<1>5. CASE UNCHANGED vars
  BY <1>3, <1>5 DEF vars
<1> QED
  BY <1>2, <1>3, <1>4, <1>5, CallTInv, RelayTInv DEF Next

\* The invariant always holds.
LEMMA TestInvariance == Spec => []TInv
  BY InitTInv, NextTInv, Invariance, PTL DEF Spec

\* Every variable stays in its domain, for any amounts and number of transfers.
THEOREM TypeCorrect == Spec => []TypeOK
<1>1. TInv => TypeOK
  BY DEF TInv
<1> QED
  BY <1>1, TestInvariance, PTL

\* An IBCTransfer whose balances pass the check moved exactly its own packet,
\* provided nothing older was received or in flight when it began.
THEOREM Delivered == Spec => []SuccessIsDelivery
<1>1. TInv => SuccessIsDelivery
  BY DEF TInv
<1> QED
  BY <1>1, TestInvariance, PTL
=============================================================================
