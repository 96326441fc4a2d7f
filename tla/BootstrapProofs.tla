--------------------------- MODULE BootstrapProofs ---------------------------
(***************************************************************************)
(* Proofs about Build, for any hubs, rollapps, relayers and links, any     *)
(* numbers of validators and full nodes and any arguments of Build.        *)
(***************************************************************************)
EXTENDS Bootstrap, SequenceTheorems, TLAPS

red == args.redundant

-----------------------------------------------------------------------------
(* Chains and nodes. *)

\* Hubs and rollapps are chains, and none is both; an argument names a hub.
LEMMA ChainFacts ==
  /\ Hubs \subseteq Chains /\ RollApps \subseteq Chains /\ Hubs \cap RollApps = {}
  /\ DymHubs \subseteq Hubs /\ CelesHubs \subseteq Hubs /\ DymHubs \cap CelesHubs = {}
  /\ DymRollApps \subseteq RollApps /\ GmRollApps \subseteq RollApps
  /\ DymRollApps \cap GmRollApps = {} /\ None \notin Chains
  /\ \A r \in RollApps : r \notin DymRollApps <=> r \in GmRollApps
  /\ \A h \in Hubs : h \notin DymHubs <=> h \in CelesHubs
  /\ \A c \in Chains : c \in Hubs \/ c \in RollApps
  BY ChainsAssumption DEF Hubs, RollApps, Chains

LEMMA RedFacts == args \in BuildArgs => red \in Hubs \cup {None} /\ red \notin RollApps
  BY ChainsAssumption, ChainFacts DEF red

\* A node is of one chain, and every chain has its validator 0.
LEMMA NodeFacts ==
  /\ \A c \in Chains : NumVals[c] \in Nat \ {0} /\ NumFull[c] \in Nat
  /\ \A c \in Chains : /\ NodesOf(c) \subseteq Nodes /\ ValsOf(c) \subseteq NodesOf(c)
                       /\ Validator0(c) \in ValsOf(c) /\ GetNode(c) \in NodesOf(c)
                       /\ KeyDirNode(c) \in ValsOf(c)
  /\ \A c : \A n \in NodesOf(c) : n[1] = c
  /\ \A n \in Nodes : n[1] \in Chains /\ n \in NodesOf(n[1])
<1>1. \A c \in Chains : NumVals[c] \in Nat \ {0} /\ NumFull[c] \in Nat
  BY ChainsAssumption
<1>2. \A c \in Chains : NodesOf(c) \subseteq Nodes
  BY DEF Nodes
<1>3. ASSUME NEW c \in Chains
      PROVE  /\ ValsOf(c) \subseteq NodesOf(c)
             /\ Validator0(c) \in ValsOf(c) /\ GetNode(c) \in NodesOf(c)
             /\ KeyDirNode(c) \in ValsOf(c)
  <2> DEFINE v == NumVals[c]
             f == NumFull[c]
  <2>1. v \in Nat /\ v # 0 /\ f \in Nat
    BY <1>1
  <2> HIDE DEF v, f
  <2>2. 1 .. v \subseteq 1 .. v + f /\ 1 \in 1 .. v /\ v \in 1 .. v /\ (f # 0 => v + 1 \in 1 .. v + f)
    BY <2>1
  <2>3. NodesOf(c) = {c} \X (1 .. v + f) /\ ValsOf(c) = {c} \X (1 .. v)
        /\ KeyDirNode(c) = <<c, v>> /\ GetNode(c) = IF f = 0 THEN <<c, 1>> ELSE <<c, v + 1>>
    BY DEF v, f, NodesOf, ValsOf, KeyDirNode, GetNode
  <2> QED
    BY <2>2, <2>3 DEF Validator0
<1>4. \A c : \A n \in NodesOf(c) : n[1] = c
  BY DEF NodesOf
<1>5. \A n \in Nodes : n[1] \in Chains /\ n \in NodesOf(n[1])
  BY <1>4 DEF Nodes
<1> QED
  BY <1>1, <1>2, <1>3, <1>4, <1>5

-----------------------------------------------------------------------------
(* Plans. *)

Stages == {"init", "collect", "wallets", "gentxs", "read", "write", "hubaccounts", "create",
           "start", "register", "wait", "sequencer", "unimplemented"}
Loops  == {"configure", "hubs", "rollapps"}

\* What the loops of Build go over, and the stages of a chain in each.
Loop(p) == IF p = "hubs" THEN Hubs ELSE RollApps
PlanOf(p, c) ==
  CASE p = "hubs" -> HubStages(c)
    [] p = "configure" -> IF c \in DymRollApps THEN DymConfiguration ELSE GmConfiguration
    [] p = "rollapps"  -> IF c \in DymRollApps THEN DymRollAppStart ELSE GmRollAppStart

\* The rest of s from k on.
Suffix(s, k) == [i \in 1 .. Len(s) - k + 1 |-> s[i + k - 1]]

LEMMA SuffixFacts ==
  ASSUME NEW S, NEW s \in Seq(S), NEW k \in 1 .. Len(s)
  PROVE  /\ Len(Suffix(s, k)) = Len(s) - k + 1
         /\ Suffix(s, k)[1] = s[k]
         /\ k < Len(s) => /\ Suffix(s, k)[2] = s[k + 1]
                          /\ Tail(Suffix(s, k)) = Suffix(s, k + 1)
<1>1. Len(s) \in Nat /\ k \in Nat /\ 1 <= k /\ k <= Len(s) /\ \A i \in 1 .. Len(s) : s[i] \in S
  OBVIOUS
<1> DEFINE n == Len(s) - k + 1
<1>2. n \in Nat /\ n >= 1 /\ (k < Len(s) => n >= 2)
  BY <1>1
<1>3. \A i \in 1 .. n : i + k - 1 \in 1 .. Len(s)
  BY <1>1
<1>4. Suffix(s, k) = [i \in 1 .. n |-> s[i + k - 1]]
  BY DEF Suffix
<1>5. Suffix(s, k) \in Seq(S) /\ Len(Suffix(s, k)) = n
  <2> HIDE DEF n
  <2> QED
    BY <1>1, <1>2, <1>3, <1>4
<1>6. Suffix(s, k)[1] = s[k]
  BY <1>1, <1>2, <1>4
<1>7. ASSUME k < Len(s)
      PROVE  Suffix(s, k)[2] = s[k + 1] /\ Tail(Suffix(s, k)) = Suffix(s, k + 1)
  <2>1. Suffix(s, k)[2] = s[k + 1]
    BY <1>1, <1>2, <1>4, <1>7
  <2>2. Tail(Suffix(s, k)) = [i \in 1 .. n - 1 |-> Suffix(s, k)[i + 1]]
    <3> DEFINE q == Suffix(s, k)
               t == Tail(q)
    <3>1. n - 1 \in Nat /\ q \in Seq(S) /\ Len(q) = n /\ q # <<>>
      BY <1>2, <1>5, <1>7
    <3> HIDE DEF q
    <3>2. t \in Seq(S) /\ Len(t) = n - 1 /\ \A i \in 1 .. n - 1 : t[i] = q[i + 1]
      BY <3>1, HeadTailProperties
    <3> HIDE DEF t
    <3>3. t = [i \in 1 .. Len(t) |-> t[i]]
      BY <3>2
    <3>4. t = [i \in 1 .. n - 1 |-> q[i + 1]]
      BY <3>2, <3>3
    <3> QED
      BY <3>4 DEF q, t
  <2>3. Len(s) - (k + 1) + 1 = n - 1
    BY <1>1
  <2>4. \A i \in 1 .. n - 1 : Suffix(s, k)[i + 1] = s[i + (k + 1) - 1]
    <3> TAKE i \in 1 .. n - 1
    <3>1. i + 1 \in 1 .. n /\ (i + 1) + k - 1 = i + (k + 1) - 1
      BY <1>1, <1>2
    <3> QED
      BY <1>4, <3>1
  <2>5. Suffix(s, k + 1) = [i \in 1 .. n - 1 |-> s[i + (k + 1) - 1]]
    BY <2>3 DEF Suffix
  <2> QED
    BY <2>1, <2>2, <2>4, <2>5
<1> QED
  BY <1>5, <1>6, <1>7

\* The stages of a chain c in phase p, the first and the last of them, and
\* the one before each.
GenesisNames == {"init", "collect", "wallets", "gentxs", "read", "write"}
StagesOf(p, c) ==
  CASE p = "configure" /\ c \in DymRollApps -> GenesisNames \cup {"sequencer"}
    [] p = "configure" /\ c \notin DymRollApps -> GenesisNames
    [] p = "hubs" /\ c = red -> IF c \in DymHubs THEN {"register"} ELSE {"unimplemented"}
    [] p = "hubs" /\ c # red -> GenesisNames \cup IF c \in DymHubs
                                                  THEN {"hubaccounts", "create", "start", "register"}
                                                  ELSE {"create", "start", "wait"}
    [] p = "rollapps" -> IF c \in DymRollApps THEN {"create", "start"} ELSE {"create", "start", "wait"}
FirstOf(p, c) ==
  IF p = "rollapps" THEN "create"
  ELSE IF p = "hubs" /\ c = red THEN IF c \in DymHubs THEN "register" ELSE "unimplemented"
  ELSE "init"
LastOf(p, c) ==
  CASE p = "configure" -> IF c \in DymRollApps THEN "sequencer" ELSE "write"
    [] p = "hubs" -> IF c \in DymHubs THEN "register" ELSE IF c = red THEN "unimplemented" ELSE "wait"
    [] p = "rollapps" -> IF c \in DymRollApps THEN "start" ELSE "wait"
WalletsLate(p, c) == p = "configure" /\ c \in DymRollApps
Before(p, c, t) ==
  CASE t = "collect" -> "init"
    [] t = "wallets" -> IF WalletsLate(p, c) THEN "write" ELSE "collect"
    [] t = "gentxs"  -> IF WalletsLate(p, c) THEN "collect" ELSE "wallets"
    [] t = "read"    -> "gentxs"
    [] t = "write"   -> "read"
    [] t = "sequencer"   -> "wallets"
    [] t = "hubaccounts" -> "write"
    [] t = "create"  -> IF c \in DymHubs THEN "hubaccounts" ELSE "write"
    [] t \in {"register", "wait"} -> "start"
    [] t = "start"   -> "create"
    [] OTHER -> "none"

\* s has these stages, in this order.
Goes(s, p, c) ==
  /\ s \in Seq(Stages) /\ Len(s) > 0
  /\ s[1] = FirstOf(p, c) /\ s[Len(s)] = LastOf(p, c)
  /\ \A k \in 1 .. Len(s) : s[k] \in StagesOf(p, c)
  /\ \A k \in 1 .. Len(s) - 1 : s[k] = Before(p, c, s[k + 1]) /\ s[k + 1] \notin {"init", "unimplemented"}

LEMMA DymHubGoes ==
  ASSUME NEW c, c \in DymHubs, c # red
  PROVE  Goes(DymHubStart, "hubs", c)
<1> DEFINE s == DymHubStart
<1>1. Len(s) = 10 /\ s \in Seq(Stages)
  BY DEF DymHubStart, GenesisStages, Stages
<1>2. /\ s[1] = "init" /\ s[2] = "collect" /\ s[3] = "wallets" /\ s[4] = "gentxs"
      /\ s[5] = "read" /\ s[6] = "write" /\ s[7] = "hubaccounts" /\ s[8] = "create"
      /\ s[9] = "start" /\ s[10] = "register"
  BY DEF DymHubStart, GenesisStages
<1> HIDE DEF s
<1> USE ChainFacts
<1>3. \A k \in 1 .. 10 : s[k] \in StagesOf("hubs", c)
  BY <1>2 DEF StagesOf, GenesisNames
<1>4. \A k \in 1 .. 9 : s[k] = Before("hubs", c, s[k + 1]) /\ s[k + 1] \notin {"init", "unimplemented"}
  BY <1>2 DEF Before, WalletsLate
<1>5. s[1] = FirstOf("hubs", c) /\ s[10] = LastOf("hubs", c)
  BY <1>2 DEF FirstOf, LastOf
<1>6. Goes(s, "hubs", c)
  BY <1>1, <1>3, <1>4, <1>5 DEF Goes
<1> QED
  BY <1>6 DEF s

LEMMA CelesHubGoes ==
  ASSUME NEW c, c \in CelesHubs, c # red
  PROVE  Goes(CelesHubStart, "hubs", c)
<1> DEFINE s == CelesHubStart
<1>1. Len(s) = 9 /\ s \in Seq(Stages)
  BY DEF CelesHubStart, GenesisStages, Stages
<1>2. /\ s[1] = "init" /\ s[2] = "collect" /\ s[3] = "wallets" /\ s[4] = "gentxs"
      /\ s[5] = "read" /\ s[6] = "write" /\ s[7] = "create" /\ s[8] = "start"
      /\ s[9] = "wait"
  BY DEF CelesHubStart, GenesisStages
<1> HIDE DEF s
<1> USE ChainFacts
<1>3. \A k \in 1 .. 9 : s[k] \in StagesOf("hubs", c)
  BY <1>2 DEF StagesOf, GenesisNames
<1>4. \A k \in 1 .. 8 : s[k] = Before("hubs", c, s[k + 1]) /\ s[k + 1] \notin {"init", "unimplemented"}
  BY <1>2 DEF Before, WalletsLate
<1>5. s[1] = FirstOf("hubs", c) /\ s[9] = LastOf("hubs", c)
  BY <1>2 DEF FirstOf, LastOf
<1>6. Goes(s, "hubs", c)
  BY <1>1, <1>3, <1>4, <1>5 DEF Goes
<1> QED
  BY <1>6 DEF s

LEMMA DymConfigurationGoes ==
  ASSUME NEW c, c \in DymRollApps
  PROVE  Goes(DymConfiguration, "configure", c)
<1> DEFINE s == DymConfiguration
<1>1. Len(s) = 7 /\ s \in Seq(Stages)
  BY DEF DymConfiguration, Stages
<1>2. /\ s[1] = "init" /\ s[2] = "collect" /\ s[3] = "gentxs" /\ s[4] = "read"
      /\ s[5] = "write" /\ s[6] = "wallets" /\ s[7] = "sequencer"
  BY DEF DymConfiguration
<1> HIDE DEF s
<1> USE ChainFacts
<1>3. \A k \in 1 .. 7 : s[k] \in StagesOf("configure", c)
  BY <1>2 DEF StagesOf, GenesisNames
<1>4. \A k \in 1 .. 6 : s[k] = Before("configure", c, s[k + 1]) /\ s[k + 1] \notin {"init", "unimplemented"}
  BY <1>2 DEF Before, WalletsLate
<1>5. s[1] = FirstOf("configure", c) /\ s[7] = LastOf("configure", c)
  BY <1>2 DEF FirstOf, LastOf
<1>6. Goes(s, "configure", c)
  BY <1>1, <1>3, <1>4, <1>5 DEF Goes
<1> QED
  BY <1>6 DEF s

LEMMA GmConfigurationGoes ==
  ASSUME NEW c, c \in GmRollApps
  PROVE  Goes(GmConfiguration, "configure", c)
<1> DEFINE s == GmConfiguration
<1>1. Len(s) = 6 /\ s \in Seq(Stages)
  BY DEF GmConfiguration, Stages
<1>2. /\ s[1] = "init" /\ s[2] = "collect" /\ s[3] = "wallets" /\ s[4] = "gentxs"
      /\ s[5] = "read" /\ s[6] = "write"
  BY DEF GmConfiguration
<1> HIDE DEF s
<1> USE ChainFacts
<1>3. \A k \in 1 .. 6 : s[k] \in StagesOf("configure", c)
  BY <1>2 DEF StagesOf, GenesisNames
<1>4. \A k \in 1 .. 5 : s[k] = Before("configure", c, s[k + 1]) /\ s[k + 1] \notin {"init", "unimplemented"}
  BY <1>2 DEF Before, WalletsLate
<1>5. s[1] = FirstOf("configure", c) /\ s[6] = LastOf("configure", c)
  BY <1>2 DEF FirstOf, LastOf
<1>6. Goes(s, "configure", c)
  BY <1>1, <1>3, <1>4, <1>5 DEF Goes
<1> QED
  BY <1>6 DEF s

LEMMA DymRollAppGoes ==
  ASSUME NEW c, c \in DymRollApps
  PROVE  Goes(DymRollAppStart, "rollapps", c)
<1> DEFINE s == DymRollAppStart
<1>1. Len(s) = 2 /\ s \in Seq(Stages)
  BY DEF DymRollAppStart, Stages
<1>2. /\ s[1] = "create" /\ s[2] = "start"
  BY DEF DymRollAppStart
<1> HIDE DEF s
<1> USE ChainFacts
<1>3. \A k \in 1 .. 2 : s[k] \in StagesOf("rollapps", c)
  BY <1>2 DEF StagesOf, GenesisNames
<1>4. \A k \in 1 .. 1 : s[k] = Before("rollapps", c, s[k + 1]) /\ s[k + 1] \notin {"init", "unimplemented"}
  BY <1>2 DEF Before, WalletsLate
<1>5. s[1] = FirstOf("rollapps", c) /\ s[2] = LastOf("rollapps", c)
  BY <1>2 DEF FirstOf, LastOf
<1>6. Goes(s, "rollapps", c)
  BY <1>1, <1>3, <1>4, <1>5 DEF Goes
<1> QED
  BY <1>6 DEF s

LEMMA GmRollAppGoes ==
  ASSUME NEW c, c \in GmRollApps
  PROVE  Goes(GmRollAppStart, "rollapps", c)
<1> DEFINE s == GmRollAppStart
<1>1. Len(s) = 3 /\ s \in Seq(Stages)
  BY DEF GmRollAppStart, Stages
<1>2. /\ s[1] = "create" /\ s[2] = "start" /\ s[3] = "wait"
  BY DEF GmRollAppStart
<1> HIDE DEF s
<1> USE ChainFacts
<1>3. \A k \in 1 .. 3 : s[k] \in StagesOf("rollapps", c)
  BY <1>2 DEF StagesOf, GenesisNames
<1>4. \A k \in 1 .. 2 : s[k] = Before("rollapps", c, s[k + 1]) /\ s[k + 1] \notin {"init", "unimplemented"}
  BY <1>2 DEF Before, WalletsLate
<1>5. s[1] = FirstOf("rollapps", c) /\ s[3] = LastOf("rollapps", c)
  BY <1>2 DEF FirstOf, LastOf
<1>6. Goes(s, "rollapps", c)
  BY <1>1, <1>3, <1>4, <1>5 DEF Goes
<1> QED
  BY <1>6 DEF s

LEMMA ExistingHubGoes ==
  ASSUME NEW c \in Hubs, c = red
  PROVE  Goes(SetupRollAppWithExistHub(c), "hubs", c)
<1> DEFINE s == SetupRollAppWithExistHub(c)
<1>1. s = IF c \in DymHubs THEN <<"register">> ELSE <<"unimplemented">>
  BY DEF SetupRollAppWithExistHub
<1>2. Len(s) = 1 /\ s \in Seq(Stages) /\ s[1] = IF c \in DymHubs THEN "register" ELSE "unimplemented"
  <2>1. CASE c \in DymHubs
    BY <1>1, <2>1 DEF Stages
  <2>2. CASE c \notin DymHubs
    BY <1>1, <2>2 DEF Stages
  <2> QED
    BY <2>1, <2>2
<1> HIDE DEF s
<1>3. \A k \in 1 .. 1 : s[k] \in StagesOf("hubs", c)
  BY <1>2 DEF StagesOf
<1>4. s[1] = FirstOf("hubs", c) /\ s[1] = LastOf("hubs", c)
  BY <1>2 DEF FirstOf, LastOf
<1>5. Goes(s, "hubs", c)
  BY <1>2, <1>3, <1>4 DEF Goes
<1> QED
  BY <1>5 DEF s

\* So does the plan of every chain in every loop.
LEMMA PlanGoes ==
  ASSUME NEW p \in Loops, NEW c \in Loop(p)
  PROVE  Goes(PlanOf(p, c), p, c)
<1> USE ChainFacts
<1>1. CASE p = "hubs"
  <2>1. c \in Hubs /\ PlanOf(p, c) = HubStages(c)
    BY <1>1 DEF PlanOf, Loop
  <2>2. HubStages(c) = IF c = red THEN SetupRollAppWithExistHub(c)
                       ELSE IF c \in DymHubs THEN DymHubStart ELSE CelesHubStart
    BY DEF HubStages, red
  <2> QED
    BY <1>1, <2>1, <2>2, ExistingHubGoes, DymHubGoes, CelesHubGoes
<1>2. CASE p = "configure"
  <2>1. c \in RollApps /\ PlanOf(p, c) = IF c \in DymRollApps THEN DymConfiguration ELSE GmConfiguration
    BY <1>2 DEF PlanOf, Loop
  <2> QED
    BY <1>2, <2>1, DymConfigurationGoes, GmConfigurationGoes
<1>3. CASE p = "rollapps"
  <2>1. c \in RollApps /\ PlanOf(p, c) = IF c \in DymRollApps THEN DymRollAppStart ELSE GmRollAppStart
    BY <1>3 DEF PlanOf, Loop
  <2> QED
    BY <1>3, <2>1, DymRollAppGoes, GmRollAppGoes
<1> QED
  BY <1>1, <1>2, <1>3 DEF Loops

-----------------------------------------------------------------------------
(* Control: the plan of the chain under work, and what Build visits.  An    *)
(* error is pending only while a stage or a group is under way.             *)

PlanHolds == \E k \in 1 .. Len(PlanOf(pc, cur)) : plan = Suffix(PlanOf(pc, cur), k)

WorkInv ==
  cur # None =>
    pc \in Loops /\ cur \in left /\ todo \subseteq Work(cur, plan[1]) /\ PlanHolds

Ctl ==
  /\ pc \in Phases \cup Returned /\ builds \in 1 .. MaxBuilds /\ args \in BuildArgs
  /\ cur \in Chains \cup {None} /\ err \in BOOLEAN
  /\ WorkInv
  /\ pc \in Loops => left \subseteq Loop(pc)
  /\ cur = None /\ pc \notin {"initialize", "faucet"} => ~err

\* The stage of a chain is one of its plan's.
LEMMA StageFacts ==
  ASSUME Ctl, cur # None
  PROVE  /\ pc \in Loops /\ cur \in Loop(pc) /\ cur \in Chains /\ cur \in left
         /\ Stage = plan[1] /\ Stage \in StagesOf(pc, cur) /\ Stage \in Stages
         /\ todo \subseteq Work(cur, Stage)
<1>1. pc \in Loops /\ cur \in Loop(pc) /\ cur \in Chains /\ cur \in left
  BY DEF Ctl, WorkInv
<1>2. Goes(PlanOf(pc, cur), pc, cur)
  BY <1>1, PlanGoes
<1>3. PICK k \in 1 .. Len(PlanOf(pc, cur)) : plan = Suffix(PlanOf(pc, cur), k)
  BY DEF Ctl, WorkInv, PlanHolds
<1>4. plan[1] = PlanOf(pc, cur)[k]
  BY <1>2, <1>3, SuffixFacts DEF Goes
<1>5. PlanOf(pc, cur)[k] \in StagesOf(pc, cur) /\ PlanOf(pc, cur)[k] \in Stages
  BY <1>2, <1>3 DEF Goes
<1> QED
  BY <1>1, <1>4, <1>5 DEF Stage, Ctl, WorkInv

\* What FinishStage does: the chain goes on to its next stage, is through, or
\* has failed.
Advances ==
  /\ cur # None /\ UNCHANGED <<cur, pc, left>> /\ ~err /\ err' = FALSE /\ todo = {}
  /\ Stage = Before(pc, cur, Stage') /\ Stage' \notin {"init", "unimplemented"}
  /\ todo' = Work(cur, Stage')
Completes ==
  /\ cur # None /\ cur' = None /\ pc' = pc /\ left' = (IF cur = red THEN {} ELSE left \ {cur})
  /\ ~err /\ err' = FALSE /\ todo = {} /\ Stage = LastOf(pc, cur)
Fails ==
  /\ cur # None /\ cur' = None /\ left' = {} /\ err /\ err' = FALSE
  /\ pc' \in {"track", "failed"}
  /\ pc' = "track" => args.failExpected /\ pc \in {"hubs", "rollapps"}

LEMMA FinishSteps ==
  ASSUME Ctl, FinishStage
  PROVE  /\ UNCHANGED <<builds, args, chainVars, relayVars>>
         /\ (Advances /\ PlanHolds') \/ Completes \/ Fails
<1> DEFINE F == PlanOf(pc, cur)
<1>1. cur # None /\ cur \in Loop(pc) /\ pc \in Loops
  BY StageFacts DEF FinishStage
<1>2. Goes(F, pc, cur)
  BY <1>1, PlanGoes
<1>3. PICK k \in 1 .. Len(F) : plan = Suffix(F, k)
  BY <1>1 DEF Ctl, WorkInv, PlanHolds
<1>4. F \in Seq(Stages) /\ Len(F) \in Nat
  BY <1>2 DEF Goes
<1>5. Stage = plan[1]
  BY <1>1 DEF Stage
<1>6. UNCHANGED <<builds, args, chainVars, relayVars>> /\ err' = FALSE /\ err \in BOOLEAN
  BY DEF FinishStage, Ctl
<1>7. CASE ~err /\ Len(plan) > 1
  <2>1. plan' = Tail(plan) /\ todo' = Work(cur, plan[2]) /\ UNCHANGED <<pc, left, cur>> /\ todo = {}
    BY <1>7 DEF FinishStage
  <2>2. Len(plan) = Len(F) - k + 1
    BY <1>3, <1>4, SuffixFacts
  <2>3. k < Len(F) /\ k + 1 \in 1 .. Len(F) /\ k \in 1 .. Len(F) - 1
    BY <1>4, <1>7, <2>2
  <2>4. plan[1] = F[k] /\ plan[2] = F[k + 1] /\ plan' = Suffix(F, k + 1)
    BY <1>3, <1>4, <2>1, <2>3, SuffixFacts
  <2>5. plan'[1] = F[k + 1]
    BY <1>4, <2>3, <2>4, SuffixFacts
  <2>6. F[k] = Before(pc, cur, F[k + 1]) /\ F[k + 1] \notin {"init", "unimplemented"}
    BY <1>2, <2>3 DEF Goes
  <2>7. Stage' = plan'[1]
    BY <1>1, <2>1 DEF Stage
  <2>8. PlanOf(pc, cur)' = F
    BY <1>6, <2>1 DEF PlanOf, HubStages
  <2>9. PlanHolds'
    BY <2>3, <2>4, <2>8 DEF PlanHolds
  <2>10. Advances
    BY <1>1, <1>5, <1>6, <1>7, <2>1, <2>4, <2>5, <2>6, <2>7 DEF Advances
  <2> QED
    BY <1>6, <2>9, <2>10
<1>8. CASE ~err /\ ~(Len(plan) > 1)
  <2>1. cur' = None /\ pc' = pc /\ left' = (IF cur = red THEN {} ELSE left \ {cur}) /\ todo = {}
    BY <1>8 DEF FinishStage, Enter, red
  <2>2. Len(plan) = Len(F) - k + 1
    BY <1>3, <1>4, SuffixFacts
  <2>3. k = Len(F)
    BY <1>4, <1>8, <2>2
  <2>4. plan[1] = F[Len(F)]
    BY <1>3, <1>4, <2>3, SuffixFacts
  <2>5. Completes
    BY <1>1, <1>2, <1>5, <1>6, <1>8, <2>1, <2>4 DEF Completes, Goes
  <2> QED
    BY <1>6, <2>5
<1>9. CASE err
  <2>1. Fails
    BY <1>1, <1>6, <1>9 DEF FinishStage, Enter, StartFails, Fails
  <2> QED
    BY <1>6, <2>1
<1> QED
  BY <1>6, <1>7, <1>8, <1>9

\* What Begin does.
Begins(c) ==
  /\ pc \in Loops /\ cur = None /\ c \in left /\ c \in Loop(pc) /\ ~err /\ err' = FALSE
  /\ cur' = c /\ UNCHANGED <<pc, left>>
  /\ Stage' = FirstOf(pc, c) /\ todo' = Work(c, Stage')

LEMMA BeginSteps ==
  ASSUME Ctl, NEW c \in Chains, Begin(c)
  PROVE  /\ UNCHANGED <<builds, args, chainVars, relayVars>>
         /\ Begins(c) /\ PlanHolds'
<1> DEFINE F == PlanOf(pc, c)
<1>1. pc \in Loops /\ c \in Loop(pc) /\ cur = None /\ cur' = c /\ c \in left /\ c # None
      /\ UNCHANGED <<builds, args, chainVars, relayVars, pc, left, err>>
  BY ChainFacts DEF Begin, Loops, Ctl
<1>2. plan' = F /\ todo' = Work(c, F[1])
  BY DEF Begin, PlanOf
<1>3. Goes(F, pc, c)
  BY <1>1, PlanGoes
<1>4. F \in Seq(Stages) /\ Len(F) \in Nat /\ Len(F) > 0 /\ F[1] = FirstOf(pc, c)
  BY <1>3 DEF Goes
<1>5. Suffix(F, 1) = F
  <2> HIDE DEF F
  <2>1. F = [i \in 1 .. Len(F) |-> F[i]]
    BY <1>4
  <2>2. Len(F) - 1 + 1 = Len(F) /\ \A i \in 1 .. Len(F) : i + 1 - 1 = i
    BY <1>4
  <2>3. Suffix(F, 1) = [i \in 1 .. Len(F) |-> F[i]]
    BY <2>2 DEF Suffix
  <2> QED
    BY <2>1, <2>3
<1>6. PlanOf(pc, cur)' = F
  BY <1>1 DEF PlanOf, HubStages
<1>7. 1 \in 1 .. Len(F)
  BY <1>4
<1>8. PlanHolds'
  BY <1>2, <1>5, <1>6, <1>7 DEF PlanHolds
<1>9. Stage' = F[1]
  BY <1>1, <1>2 DEF Stage
<1>10. ~err /\ err' = FALSE
  BY <1>1 DEF Ctl, Loops
<1> QED
  BY <1>1, <1>2, <1>4, <1>8, <1>9, <1>10 DEF Begins

\* An item of a stage is done.
ItemNext ==
  \/ \E n \in Nodes : NodeStep(n)
  \/ \E r \in RollApps : SetGenesisAccount(r) \/ RegisterRollApp(r)

Works ==
  /\ cur # None /\ UNCHANGED <<pc, builds, args, left, cur, plan, relayVars>>
  /\ todo' \subseteq todo /\ err' \in BOOLEAN /\ (err => err')

LEMMA ItemSteps ==
  ASSUME Ctl, ItemNext
  PROVE  Works /\ Stage' = Stage
<1>1. ASSUME NEW s \in Stages, NEW i, NEW ok, Item(s, i, ok)
      PROVE  Works /\ Stage' = Stage
  BY <1>1 DEF Item, Works, Stage, Stages, Ctl
<1>2. ASSUME NEW n \in Nodes, NodeStep(n)
      PROVE  \E s \in Stages : \E ok : Item(s, n, ok)
  <2>1. CASE InitNode(n)
    BY <2>1 DEF InitNode, Stages
  <2>2. CASE Collect(n)
    BY <2>2 DEF Collect, Stages
  <2>3. CASE AddWallets(n)
    BY <2>3 DEF AddWallets, Stages
  <2>4. CASE CollectGentxs(n)
    BY <2>4 DEF CollectGentxs, Stages
  <2>5. CASE ReadGenesis(n)
    BY <2>5 DEF ReadGenesis, Stages
  <2>6. CASE WriteGenesis(n)
    BY <2>6 DEF WriteGenesis, Stages
  <2>7. CASE SetSequencer(n)
    BY <2>7 DEF SetSequencer, Stages
  <2>8. CASE CreateNodeContainer(n)
    BY <2>8 DEF CreateNodeContainer, Stages
  <2>9. CASE StartNode(n)
    BY <2>9 DEF StartNode, Stages
  <2>10. CASE Wait(n)
    BY <2>10 DEF Wait, Stages
  <2>11. CASE Unimplemented(n)
    BY <2>11 DEF Unimplemented, Stages
  <2> QED
    BY <1>2, <2>1, <2>2, <2>3, <2>4, <2>5, <2>6, <2>7, <2>8, <2>9, <2>10, <2>11 DEF NodeStep
<1>3. ASSUME NEW r \in RollApps, SetGenesisAccount(r) \/ RegisterRollApp(r)
      PROVE  \E s \in Stages : \E ok : Item(s, r, ok)
  BY <1>3 DEF SetGenesisAccount, RegisterRollApp, Stages
<1> QED
  BY <1>1, <1>2, <1>3 DEF ItemNext

\* The steps of Build itself: no chain is under work, and nothing of a chain
\* changes but a faucet key that is made.
BuildNext ==
  \/ FinishGroup \/ FinishLoop
  \/ \E c \in Chains : Initialize(c) \/ CreateFaucet(c)
  \/ GenerateRelayerWallets \/ TrackBlocks \/ RewriteConfig
  \/ \E rc \in RelayerChains : ConfigureRelayer(rc)
  \/ \E l \in Links : GeneratePath(l) \/ LinkPath(l)
  \/ BuildAgain

\* Where they lead.
Moves ==
  /\ cur = None /\ UNCHANGED <<cur, plan, args>>
  /\ UNCHANGED <<genbz, genesis, gentx, files, box, seqKey, seqDir, registry>>
  /\ err' \in BOOLEAN /\ (pc' \notin {"initialize", "faucet"} => ~err')
  /\ pc' \in Phases \cup Returned /\ builds' \in 1 .. MaxBuilds
  /\ pc' = "initialize" => pc \in {"initialize", "built", "failed"}
  /\ pc' = "wallets" => pc = "initialize"
  /\ pc' = "faucet" =>
       \/ pc = "faucet" /\ todo' \subseteq todo /\ (err => err')
       \/ pc = "wallets" /\ ~walletsMade /\ walletsMade' /\ todo' = Chains \ {red}
  /\ pc' = "configure" => pc = "faucet" /\ todo = {} /\ ~err /\ left' = RollApps
  /\ pc' = "hubs" => pc = "configure" /\ left = {} /\ left' = Hubs
  /\ pc' = "rollapps" => pc = "hubs" /\ left = {} /\ left' = RollApps
  /\ pc' = "track" => pc = "rollapps" /\ left = {}
  /\ pc' = "keys" =>
       \/ pc = "track" /\ left' = RelayerChains
       \/ pc = "keys" /\ left' \subseteq left
  /\ pc' = "codecs" => pc = "keys" /\ left = {}
  /\ pc' = "paths" =>
       \/ pc = "codecs" /\ left' = Links
       \/ pc = "paths" /\ left' \subseteq left
  /\ pc' = "links" =>
       \/ pc = "paths" /\ left = {} /\ left' = Links
       \/ pc = "links" /\ left' \subseteq left
  /\ pc' \in {"built", "exited"} => pc \in {"codecs", "links"}
  /\ pc' = "failed" => pc \in Phases
  /\ pc' = "panicked" => pc = "wallets"
  /\ pc # "wallets" => walletsMade' = walletsMade
  /\ pc = "wallets" => walletsMade' /\ pc' \in {"faucet", "failed", "panicked"}
                       /\ (walletsMade => pc' = "panicked")

LEMMA BuildMoves ==
  ASSUME Ctl, BuildNext
  PROVE  Moves
<1>0. /\ pc \in Phases \cup Returned /\ builds \in 1 .. MaxBuilds /\ err \in BOOLEAN
      /\ pc \notin {"configure", "hubs", "rollapps"} => cur = None
      /\ cur = None /\ pc \notin {"initialize", "faucet"} => ~err
  BY DEF Ctl, WorkInv, Loops
<1> USE DEF Moves, Enter, chainVars, relayVars, workVars, Phases, Returned, red
<1>1. CASE FinishGroup
  BY <1>0, <1>1 DEF FinishGroup
<1>2. CASE FinishLoop
  <2>1. \/ pc = "configure" /\ pc' = "hubs" /\ left' = Hubs
        \/ pc = "hubs" /\ pc' = "rollapps" /\ left' = RollApps
        \/ pc = "rollapps" /\ pc' = "track" /\ left' = {}
        \/ pc = "keys" /\ pc' = "codecs" /\ left' = {}
        \/ pc = "paths" /\ pc' = "links" /\ left' = Links
        \/ pc = "links" /\ pc' = "built" /\ left' = {}
    BY <1>2 DEF FinishLoop, After
  <2>2. cur = None /\ left = {} /\ UNCHANGED <<builds, args, cur, plan, err, chainVars, relayVars>>
    BY <1>2 DEF FinishLoop
  <2> QED
    BY <1>0, <2>1, <2>2
<1>3. ASSUME NEW c \in Chains, Initialize(c) PROVE Moves
  BY <1>0, <1>3 DEF Initialize
<1>4. ASSUME NEW c \in Chains, CreateFaucet(c) PROVE Moves
  BY <1>0, <1>4 DEF CreateFaucet, Add
<1>5. CASE GenerateRelayerWallets
  BY <1>0, <1>5 DEF GenerateRelayerWallets
<1>6. CASE TrackBlocks
  BY <1>0, <1>6 DEF TrackBlocks
<1>7. CASE RewriteConfig
  BY <1>0, <1>7 DEF RewriteConfig
<1>8. ASSUME NEW rc \in RelayerChains, ConfigureRelayer(rc) PROVE Moves
  BY <1>0, <1>8 DEF ConfigureRelayer
<1>9. ASSUME NEW l \in Links, GeneratePath(l) PROVE Moves
  BY <1>0, <1>9 DEF GeneratePath
<1>10. ASSUME NEW l \in Links, LinkPath(l) PROVE Moves
  BY <1>0, <1>10 DEF LinkPath
<1>11. CASE BuildAgain
  <2>1. builds' \in 1 .. MaxBuilds
    BY <1>0, <1>11, ChainsAssumption DEF BuildAgain
  <2> QED
    BY <1>0, <1>11, <2>1 DEF BuildAgain
<1> QED
  BY <1>1, <1>2, <1>3, <1>4, <1>5, <1>6, <1>7, <1>8, <1>9, <1>10, <1>11 DEF BuildNext

\* Every step is one of these.
LEMMA NextKinds ==
  ASSUME [Next]_vars
  PROVE  ItemNext \/ FinishStage \/ (\E c \in Chains : Begin(c)) \/ BuildNext \/ UNCHANGED vars
  BY DEF Next, ItemNext, BuildNext

\* The control invariant holds at first and is kept.
LEMMA InitCtl == Init => Ctl
<1> SUFFICES ASSUME Init PROVE Ctl
  OBVIOUS
<1>1. pc = "initialize" /\ builds = 1 /\ args \in BuildArgs /\ cur = None /\ err = FALSE
  BY DEF Init
<1>2. builds \in 1 .. MaxBuilds
  BY <1>1, ChainsAssumption
<1> QED
  BY <1>1, <1>2 DEF Ctl, WorkInv, Phases, Loops

LEMMA NextCtl ==
  ASSUME Ctl, [Next]_vars
  PROVE  Ctl'
<1> USE DEF Ctl
<1>1. CASE ItemNext
  <2>1. Works /\ Stage' = Stage
    BY <1>1, ItemSteps
  <2>2. PlanHolds' = PlanHolds
    BY <2>1 DEF Works, PlanHolds, PlanOf, HubStages
  <2>3. WorkInv'
    BY <2>1, <2>2 DEF WorkInv, Works
  <2> QED
    BY <2>1, <2>3 DEF Works
<1>2. CASE FinishStage
  <2>1. UNCHANGED <<builds, args>> /\ ((Advances /\ PlanHolds') \/ Completes \/ Fails)
    BY <1>2, FinishSteps
  <2>2. cur # None => pc \in Loops /\ cur \in left
    BY DEF WorkInv
  <2>3. CASE Advances /\ PlanHolds'
    <3>1. Stage' = plan'[1]
      BY <2>3 DEF Advances, Stage
    <3> QED
      BY <2>1, <2>2, <2>3, <3>1 DEF Advances, WorkInv
  <2>4. CASE Completes
    BY <2>1, <2>2, <2>4 DEF Completes, WorkInv
  <2>5. CASE Fails
    BY <2>1, <2>2, <2>5 DEF Fails, WorkInv, Phases, Returned, Loops
  <2> QED
    BY <2>1, <2>3, <2>4, <2>5
<1>3. ASSUME NEW c \in Chains, Begin(c)
      PROVE  Ctl'
  <2>1. UNCHANGED <<builds, args>> /\ Begins(c) /\ PlanHolds'
    BY <1>3, BeginSteps
  <2>2. Stage' = plan'[1]
    BY <2>1, ChainFacts DEF Begins, Stage
  <2> QED
    BY <2>1, <2>2 DEF Begins, WorkInv
<1>4. CASE BuildNext
  <2>1. Moves
    BY <1>4, BuildMoves
  <2>2. pc' \in Loops => left' \subseteq Loop(pc')
    BY <2>1 DEF Moves, Loops, Loop
  <2> QED
    BY <2>1, <2>2 DEF Moves, WorkInv
<1>5. CASE UNCHANGED vars
  <2>1. PlanHolds' = PlanHolds
    BY <1>5 DEF vars, workVars, PlanHolds, PlanOf, HubStages
  <2> QED
    BY <1>5, <2>1 DEF vars, workVars, WorkInv
<1> QED
  BY <1>1, <1>2, <1>3, <1>4, <1>5, NextKinds

LEMMA CtlInvariance == Spec => []Ctl
  BY InitCtl, NextCtl, PTL DEF Spec

-----------------------------------------------------------------------------
(* Types. *)

LEMMA EntryFacts ==
  /\ \A n \in Nodes : Account(n) \in Entries /\ GenTx(n) \in Entries /\ Consensus(n) \in Entries
  /\ \A c \in Chains : /\ Faucet(c) \in Entries /\ HubAccount(c) \in Entries
                       /\ ForkedState(c) \in Entries /\ ExistingGenesis(c) \subseteq Entries
<1>1. \A n \in Nodes : Account(n) \in Entries /\ GenTx(n) \in Entries /\ Consensus(n) \in Entries
  BY DEF Account, GenTx, Consensus, Entry, Entries, EntryKinds
<1>2. ASSUME NEW c \in Chains
      PROVE  /\ Faucet(c) \in Entries /\ HubAccount(c) \in Entries
             /\ ForkedState(c) \in Entries /\ ExistingGenesis(c) \subseteq Entries
  <2>1. <<c, 1>> \in Nodes /\ ValsOf(c) \subseteq Nodes
    BY NodeFacts DEF Validator0
  <2>2. Faucet(c) \in Entries /\ HubAccount(c) \in Entries /\ ForkedState(c) \in Entries
    BY <2>1 DEF Faucet, HubAccount, ForkedState, Entry, Entries, EntryKinds
  <2>3. ExistingGenesis(c) \subseteq Entries
    <3>1. \A n \in ValsOf(c) : {Account(n), GenTx(n)} \subseteq Entries
      BY <1>1, <2>1
    <3> SUFFICES ASSUME NEW e \in ExistingGenesis(c) PROVE e \in Entries
      OBVIOUS
    <3> DEFINE G == {{Account(n), GenTx(n)} : n \in ValsOf(c)}
    <3>2. e = Faucet(c) \/ e \in UNION G
      BY DEF ExistingGenesis
    <3>3. ASSUME NEW X \in G PROVE X \subseteq Entries
      BY <3>1
    <3>4. \A x : x \in UNION G => \E X \in G : x \in X
      <4> HIDE DEF G
      <4> QED
        OBVIOUS
    <3> HIDE DEF G
    <3> QED
      BY <2>2, <3>2, <3>3, <3>4, Zenon
  <2> QED
    BY <2>2, <2>3
<1> QED
  BY <1>1, <1>2

FilesTyped ==
  /\ genbz \subseteq Entries
  /\ genesis \in [Nodes -> SUBSET Entries]
  /\ gentx \in [Nodes -> SUBSET Nodes]
  /\ keys \in [Nodes -> SUBSET {"validator", "faucet", "sequencer"}]
  /\ files \subseteq Nodes
  /\ box \in [Nodes -> {"none", "created", "running"}]
  /\ seqKey \in [RollApps -> Nodes \cup {None}]
  /\ seqDir \in [RollApps -> Nodes \cup {None}]
  /\ registry \subseteq RollUps
RelayTyped ==
  /\ walletsMade \in BOOLEAN
  /\ configured \subseteq RelayerChains /\ funded \subseteq configured
  /\ paths \subseteq Links /\ linked \subseteq paths

\* What a file may gain is of the file's type.
LEMMA AddTyped ==
  ASSUME NEW T, NEW f \in [Nodes -> SUBSET T], NEW n, NEW S \in SUBSET T
  PROVE  Add(f, n, S) \in [Nodes -> SUBSET T]
  BY DEF Add

LEMMA InitTyped == Init => FilesTyped /\ RelayTyped
<1> SUFFICES ASSUME Init PROVE FilesTyped /\ RelayTyped
  OBVIOUS
<1>1. \A n \in Nodes : ExistingGenesis(n[1]) \subseteq Entries
  BY NodeFacts, EntryFacts
<1> QED
  BY <1>1 DEF Init, FilesTyped, RelayTyped

\* The items of a stage on a node keep the types.
LEMMA NodeStepTyped ==
  ASSUME Ctl, FilesTyped, NEW n \in Nodes, NodeStep(n)
  PROVE  FilesTyped'
<1>1. cur \in Chains /\ Validator0(cur) \in Nodes /\ KeyDirNode(cur) \in Nodes
  <2>1. Works
    BY ItemSteps DEF ItemNext
  <2>2. cur \in Chains
    BY <2>1 DEF Works, Ctl
  <2> QED
    BY <2>2, NodeFacts
<1> USE DEF FilesTyped
<1>2. CASE InitNode(n)
  <2>1. PICK p \in 0 .. 4 : InitNode(n)!(p)
    BY <1>2 DEF InitNode
  <2>2. UNCHANGED <<genbz, files, box, seqKey, registry>>
    BY <2>1
  <2>3. seqDir' \in [RollApps -> Nodes \cup {None}]
    BY <1>1, <2>1
  <2>4. CASE n \in ValsOf(cur)
    <3>1. keys' = Add(keys, n, IF p > 1 THEN {"validator"} ELSE {})
          /\ genesis' = Add(genesis, n, IF p > 2 THEN {Account(n)} ELSE {})
          /\ gentx' = Add(gentx, n, IF p > 3 THEN {n} ELSE {})
      BY <2>1, <2>4
    <3>2. (IF p > 1 THEN {"validator"} ELSE {}) \in SUBSET {"validator", "faucet", "sequencer"}
          /\ (IF p > 2 THEN {Account(n)} ELSE {}) \in SUBSET Entries
          /\ (IF p > 3 THEN {n} ELSE {}) \in SUBSET Nodes
      BY EntryFacts
    <3>3. keys' \in [Nodes -> SUBSET {"validator", "faucet", "sequencer"}]
      BY <3>1, <3>2, AddTyped, Zenon
    <3>4. genesis' \in [Nodes -> SUBSET Entries] /\ gentx' \in [Nodes -> SUBSET Nodes]
      BY <3>1, <3>2, AddTyped, Zenon
    <3> QED
      BY <2>2, <2>3, <3>3, <3>4
  <2>5. CASE n \notin ValsOf(cur)
    BY <2>1, <2>2, <2>3, <2>5
  <2> QED
    BY <2>4, <2>5
<1>3. CASE Collect(n)
  <2>1. PICK p \in 0 .. 2 : Collect(n)!(p)
    BY <1>3 DEF Collect
  <2>2. (IF p > 0 THEN {Account(n)} ELSE {}) \in SUBSET Entries
        /\ (IF p > 1 THEN {n} ELSE {}) \in SUBSET Nodes
    BY EntryFacts
  <2>3. genesis' \in [Nodes -> SUBSET Entries] /\ gentx' \in [Nodes -> SUBSET Nodes]
    BY <2>1, <2>2, AddTyped, Zenon
  <2> QED
    BY <2>1, <2>3
<1>4. CASE AddWallets(n)
  <2>1. \A ok \in BOOLEAN : (IF ok THEN {Faucet(cur)} ELSE {}) \in SUBSET Entries
    BY <1>1, EntryFacts
  <2>2. PICK ok \in BOOLEAN : genesis' = Add(genesis, n, IF ok THEN {Faucet(cur)} ELSE {})
    BY <1>4 DEF AddWallets
  <2>3. genesis' \in [Nodes -> SUBSET Entries]
    BY <2>1, <2>2, AddTyped, Zenon
  <2> QED
    BY <1>4, <2>3 DEF AddWallets
<1>5. CASE CollectGentxs(n)
  <2>1. \A ok \in BOOLEAN : (IF ok THEN {GenTx(m) : m \in gentx[n]} ELSE {}) \in SUBSET Entries
    BY EntryFacts
  <2>2. PICK ok \in BOOLEAN :
          genesis' = Add(genesis, n, IF ok THEN {GenTx(m) : m \in gentx[n]} ELSE {})
    BY <1>5 DEF CollectGentxs
  <2>3. genesis' \in [Nodes -> SUBSET Entries]
    BY <2>1, <2>2, AddTyped, Zenon
  <2> QED
    BY <1>5, <2>3 DEF CollectGentxs
<1>6. CASE ReadGenesis(n)
  BY <1>1, <1>6, EntryFacts DEF ReadGenesis
<1>7. CASE WriteGenesis(n)
  <2>1. PICK p \in 0 .. 2 : WriteGenesis(n)!(p)
    BY <1>7 DEF WriteGenesis
  <2>2. genesis' \in [Nodes -> SUBSET Entries]
    BY <2>1, EntryFacts
  <2> QED
    BY <2>1, <2>2
<1>8. CASE SetSequencer(n)
  BY <1>8 DEF SetSequencer
<1>9. CASE CreateNodeContainer(n)
  BY <1>9 DEF CreateNodeContainer
<1>10. CASE StartNode(n)
  BY <1>10 DEF StartNode
<1>11. CASE Wait(n) \/ Unimplemented(n)
  BY <1>11 DEF Wait, Unimplemented, chainVars
<1> QED
  BY <1>2, <1>3, <1>4, <1>5, <1>6, <1>7, <1>8, <1>9, <1>10, <1>11 DEF NodeStep

\* Nothing else but a hub's calls for its rollapps changes what docker has.
LEMMA RollAppStepTyped ==
  ASSUME Ctl, FilesTyped, NEW r \in RollApps, SetGenesisAccount(r) \/ RegisterRollApp(r)
  PROVE  FilesTyped'
<1>1. cur # None /\ Stage \in {"hubaccounts", "register"} /\ r \in todo
  BY DEF SetGenesisAccount, RegisterRollApp, Item, Stage
<1>2. cur \in Chains /\ pc = "hubs" /\ r \in RollAppsOf(cur) /\ cur \in Hubs
  <2>1. pc \in Loops /\ cur \in Loop(pc) /\ cur \in Chains /\ Stage \in StagesOf(pc, cur)
        /\ todo \subseteq Work(cur, Stage)
    BY <1>1, StageFacts
  <2>2. pc = "hubs"
    BY <1>1, <2>1 DEF StagesOf, GenesisNames, Loops
  <2> QED
    BY <1>1, <2>1, <2>2 DEF Work, Loop
<1> USE DEF FilesTyped
<1>3. CASE SetGenesisAccount(r)
  <2>1. HubAccount(cur) \in Entries /\ Validator0(r) \in Nodes
    BY <1>2, EntryFacts, NodeFacts, ChainFacts
  <2>2. UNCHANGED <<genbz, gentx, keys, files, box, seqKey, seqDir, registry>>
    BY <1>3 DEF SetGenesisAccount
  <2>3. PICK k \in 0 .. Cardinality(NodesOf(r)) :
          genesis' = IF r \in DymRollApps
                     THEN [n \in Nodes |-> IF n \in {r} \X (1 .. k)
                                           THEN genesis[Validator0(r)] \cup {HubAccount(cur)}
                                           ELSE genesis[n]]
                     ELSE genesis
    BY <1>3 DEF SetGenesisAccount
  <2>4. genesis' \in [Nodes -> SUBSET Entries]
    BY <2>1, <2>3
  <2> QED
    BY <2>2, <2>4
<1>4. CASE RegisterRollApp(r)
  <2>1. PICK p \in 0 .. 4 : RegisterRollApp(r)!(p)
    BY <1>4 DEF RegisterRollApp
  <2>2. {"sequencer"} \in SUBSET {"validator", "faucet", "sequencer"}
    OBVIOUS
  <2>3. keys' \in [Nodes -> SUBSET {"validator", "faucet", "sequencer"}]
    BY <2>1, <2>2, AddTyped, Zenon
  <2>4. <<cur, r>> \in RollUps
    BY <1>2 DEF RollAppsOf
  <2>5. registry' \subseteq RollUps
    BY <2>1, <2>4
  <2> QED
    BY <2>1, <2>3, <2>5
<1> QED
  BY <1>3, <1>4

LEMMA BuildTyped ==
  ASSUME FilesTyped, RelayTyped, BuildNext
  PROVE  FilesTyped' /\ RelayTyped'
<1> USE DEF FilesTyped, RelayTyped
<1>1. CASE \/ FinishGroup \/ FinishLoop \/ (\E c \in Chains : Initialize(c))
           \/ TrackBlocks \/ RewriteConfig \/ BuildAgain
  BY <1>1 DEF FinishGroup, FinishLoop, Initialize, TrackBlocks, RewriteConfig, BuildAgain,
              chainVars, relayVars
<1>2. ASSUME NEW c \in Chains, CreateFaucet(c)
      PROVE  FilesTyped' /\ RelayTyped'
  <2>1. PICK ok \in BOOLEAN : keys' = Add(keys, GetNode(c), IF ok THEN {"faucet"} ELSE {})
    BY <1>2 DEF CreateFaucet
  <2>2. (IF ok THEN {"faucet"} ELSE {}) \in SUBSET {"validator", "faucet", "sequencer"}
    OBVIOUS
  <2>3. keys' \in [Nodes -> SUBSET {"validator", "faucet", "sequencer"}]
    BY <2>1, <2>2, AddTyped, Zenon
  <2> QED
    BY <1>2, <2>3 DEF CreateFaucet, relayVars
<1>3. CASE GenerateRelayerWallets
  BY <1>3 DEF GenerateRelayerWallets, chainVars
<1>4. ASSUME NEW rc \in RelayerChains, ConfigureRelayer(rc)
      PROVE  FilesTyped' /\ RelayTyped'
  BY <1>4 DEF ConfigureRelayer, chainVars
<1>5. ASSUME NEW l \in Links, GeneratePath(l) \/ LinkPath(l)
      PROVE  FilesTyped' /\ RelayTyped'
  BY <1>5 DEF GeneratePath, LinkPath, chainVars
<1> QED
  BY <1>1, <1>2, <1>3, <1>4, <1>5 DEF BuildNext

LEMMA NextTyped ==
  ASSUME Ctl, FilesTyped, RelayTyped, [Next]_vars
  PROVE  FilesTyped' /\ RelayTyped'
<1>1. CASE ItemNext
  <2>1. RelayTyped'
    BY <1>1, ItemSteps DEF Works, relayVars, RelayTyped
  <2> QED
    BY <1>1, <2>1, NodeStepTyped, RollAppStepTyped DEF ItemNext
<1>2. CASE UNCHANGED <<chainVars, relayVars>>
  BY <1>2 DEF chainVars, relayVars, FilesTyped, RelayTyped
<1>3. CASE UNCHANGED vars
  BY <1>2, <1>3 DEF vars
<1> QED
  BY <1>1, <1>2, <1>3, NextKinds, FinishSteps, BeginSteps, BuildTyped

\* Every variable stays in its domain; genesis entries, keyrings and containers
\* are those of declared nodes.
THEOREM TypeCorrect == Spec => []TypeOK
<1>1. Init => Ctl /\ FilesTyped /\ RelayTyped
  BY InitCtl, InitTyped
<1>2. Ctl /\ FilesTyped /\ RelayTyped /\ [Next]_vars => (Ctl /\ FilesTyped /\ RelayTyped)'
  BY NextCtl, NextTyped
<1>3. Ctl /\ FilesTyped /\ RelayTyped => TypeOK
  BY DEF Ctl, FilesTyped, RelayTyped, TypeOK
<1> QED
  BY <1>1, <1>2, <1>3, PTL DEF Spec

-----------------------------------------------------------------------------
(* What a step may change. *)

\* The stages of a loop.
LEMMA StagePhases ==
  ASSUME Ctl, cur # None
  PROVE  /\ Stage \in GenesisNames => pc \in {"configure", "hubs"}
         /\ Stage \in {"hubaccounts", "register"} => pc = "hubs" /\ cur \in DymHubs
         /\ Stage \in {"create", "start", "wait"} => pc \in {"hubs", "rollapps"}
         /\ Stage = "sequencer" => pc = "configure" /\ cur \in DymRollApps
         /\ pc = "hubs" /\ cur = red => Stage \in {"register", "unimplemented"}
         /\ pc = "hubs" /\ cur # red => Stage # "unimplemented"
         /\ pc = "hubs" => cur \in Hubs
         /\ pc \in {"configure", "rollapps"} => cur \in RollApps
         /\ pc = "configure" => Stage \in GenesisNames \cup {"sequencer"}
         /\ pc = "rollapps" => Stage \in {"create", "start", "wait"}
         /\ pc \in Loops
<1>1. pc \in Loops /\ cur \in Loop(pc) /\ Stage \in StagesOf(pc, cur)
  BY StageFacts
<1>2. CASE pc = "hubs"
  BY <1>1, <1>2, ChainFacts DEF StagesOf, GenesisNames, Loop
<1>3. CASE pc = "configure"
  BY <1>1, <1>3, ChainFacts DEF StagesOf, GenesisNames, Loop
<1>4. CASE pc = "rollapps"
  BY <1>1, <1>4, ChainFacts DEF StagesOf, GenesisNames, Loop
<1> QED
  BY <1>1, <1>2, <1>3, <1>4 DEF Loops

\* The items of a stage that works on nodes are nodes of the chain.
LEMMA ItemNodes ==
  ASSUME Ctl, cur # None, Stage \in GenesisNames \cup {"create", "start", "sequencer"}
  PROVE  todo \subseteq NodesOf(cur)
<1>1. todo \subseteq Work(cur, Stage) /\ cur \in Chains
  BY StageFacts
<1>2. ValsOf(cur) \subseteq NodesOf(cur) /\ Validator0(cur) \in ValsOf(cur)
  BY <1>1, NodeFacts
<1> QED
  BY <1>1, <1>2 DEF Work, GenesisNames

\* Only an item changes more of the chains' state than the faucets' keys.
LEMMA OnlyItems ==
  ASSUME Ctl, [Next]_vars
  PROVE  ItemNext \/ UNCHANGED <<genbz, genesis, gentx, files, box, seqKey, seqDir, registry>>
<1>1. CASE FinishStage
  BY <1>1, FinishSteps DEF chainVars
<1>2. ASSUME NEW c \in Chains, Begin(c)
      PROVE  UNCHANGED chainVars
  BY <1>2, BeginSteps
<1>3. CASE BuildNext
  BY <1>3, BuildMoves DEF Moves
<1> QED
  BY <1>1, <1>2, <1>3, NextKinds DEF chainVars, vars

LEMMA SameArgs == ASSUME Ctl, [Next]_vars PROVE args' = args /\ red' = red
<1>1. args' = args
  BY NextKinds, ItemSteps, FinishSteps, BeginSteps, BuildMoves DEF Works, Moves, vars
<1> QED
  BY <1>1 DEF red

\* A genesis file changes while its chain gets its genesis, or when a hub
\* adds its account to its rollapps' files.
GenesisMay(n) ==
  cur # None /\ ItemNext /\
    \/ n \in NodesOf(cur) /\ Stage \in GenesisNames
    \/ Stage = "hubaccounts" /\ \E r \in RollAppsOf(cur) \cap DymRollApps : n \in NodesOf(r)

LEMMA GenesisEffect ==
  ASSUME Ctl, FilesTyped, [Next]_vars, NEW n \in Nodes
  PROVE  genesis'[n] = genesis[n] \/ GenesisMay(n)
<1> USE DEF FilesTyped
<1>1. ASSUME NEW m \in Nodes, NodeStep(m)
      PROVE  genesis'[n] = genesis[n] \/ GenesisMay(n)
  <2>0. ItemNext /\ cur # None
    BY <1>1, ItemSteps DEF ItemNext, Works
  <2>1. cur \in Chains /\ Validator0(cur) \in NodesOf(cur)
    BY <2>0, StageFacts, NodeFacts
  <2>2. CASE InitNode(m)
    <3>1. Stage = "init" /\ m \in todo
      BY <2>2 DEF InitNode, Item
    <3>2. m \in NodesOf(cur)
      BY <2>0, <3>1, ItemNodes DEF GenesisNames
    <3>3. n # m => genesis'[n] = genesis[n]
      BY <2>2 DEF InitNode, Add
    <3> QED
      BY <2>0, <3>1, <3>2, <3>3 DEF GenesisMay, GenesisNames
  <2>3. CASE Collect(m)
    <3>1. Stage = "collect"
      BY <2>3 DEF Collect, Item
    <3>2. n # Validator0(cur) => genesis'[n] = genesis[n]
      BY <2>3 DEF Collect, Add
    <3> QED
      BY <2>0, <2>1, <3>1, <3>2 DEF GenesisMay, GenesisNames
  <2>4. CASE AddWallets(m) \/ CollectGentxs(m) \/ WriteGenesis(m)
    <3>1. Stage \in {"wallets", "gentxs", "write"} /\ m \in todo
      BY <2>4 DEF AddWallets, CollectGentxs, WriteGenesis, Item
    <3>2. m \in NodesOf(cur)
      BY <2>0, <3>1, ItemNodes DEF GenesisNames
    <3>3. n # m => genesis'[n] = genesis[n]
      BY <2>4 DEF AddWallets, CollectGentxs, WriteGenesis, Add
    <3> QED
      BY <2>0, <3>1, <3>2, <3>3 DEF GenesisMay, GenesisNames
  <2>5. CASE ReadGenesis(m) \/ SetSequencer(m) \/ CreateNodeContainer(m) \/ StartNode(m)
             \/ Wait(m) \/ Unimplemented(m)
    BY <2>5 DEF ReadGenesis, SetSequencer, CreateNodeContainer, StartNode, Wait, Unimplemented, chainVars
  <2> QED
    BY <1>1, <2>2, <2>3, <2>4, <2>5 DEF NodeStep
<1>2. ASSUME NEW r \in RollApps, SetGenesisAccount(r)
      PROVE  genesis'[n] = genesis[n] \/ GenesisMay(n)
  <2>0. ItemNext /\ cur # None
    BY <1>2, ItemSteps DEF ItemNext, Works
  <2>1. PICK k \in 0 .. Cardinality(NodesOf(r)) : SetGenesisAccount(r)!(k)
    BY <1>2 DEF SetGenesisAccount
  <2>2. Stage = "hubaccounts" /\ r \in todo
    BY <2>1 DEF Item
  <2>3. r \in RollAppsOf(cur)
    BY <2>0, <2>2, StageFacts DEF Work
  <2>4. genesis'[n] = genesis[n] \/ (r \in DymRollApps /\ n \in {r} \X (1 .. k))
    BY <2>1
  <2>5. n \in {r} \X (1 .. k) => n \in NodesOf(r)
    BY NodeFacts
  <2> QED
    BY <2>0, <2>2, <2>3, <2>4, <2>5 DEF GenesisMay
<1>3. ASSUME NEW r \in RollApps, RegisterRollApp(r)
      PROVE  genesis'[n] = genesis[n]
  BY <1>3 DEF RegisterRollApp
<1> QED
  BY <1>1, <1>2, <1>3, OnlyItems DEF ItemNext

\* A container changes when it is created and when it is started.
BoxMay(n) ==
  /\ cur # None /\ ItemNext /\ n \in NodesOf(cur) /\ cur # red
  /\ \/ Stage = "create" /\ box'[n] = "created"
     \/ Stage = "start" /\ box'[n] = "running"

LEMMA BoxEffect ==
  ASSUME Ctl, FilesTyped, [Next]_vars, NEW n \in Nodes
  PROVE  box'[n] = box[n] \/ BoxMay(n)
<1> USE DEF FilesTyped
<1>1. ASSUME NEW m \in Nodes, NodeStep(m)
      PROVE  box'[n] = box[n] \/ BoxMay(n)
  <2>0. ItemNext /\ cur # None
    BY <1>1, ItemSteps DEF ItemNext, Works
  <2>1. CASE CreateNodeContainer(m) \/ StartNode(m)
    <3>1. Stage \in {"create", "start"} /\ m \in todo
      BY <2>1 DEF CreateNodeContainer, StartNode, Item
    <3>2. m \in NodesOf(cur)
      BY <2>0, <3>1, ItemNodes
    <3>3. cur # red
      BY <2>0, <3>1, StagePhases, RedFacts DEF Ctl
    <3>4. \/ box'[n] = box[n]
          \/ n = m /\ Stage = "create" /\ box'[n] = "created"
          \/ n = m /\ Stage = "start" /\ box'[n] = "running"
      BY <2>1 DEF CreateNodeContainer, StartNode, Item
    <3> QED
      BY <2>0, <3>2, <3>3, <3>4 DEF BoxMay
  <2>2. CASE ~(CreateNodeContainer(m) \/ StartNode(m))
    BY <1>1, <2>2
    DEF NodeStep, InitNode, Collect, AddWallets, CollectGentxs, ReadGenesis, WriteGenesis,
        SetSequencer, Wait, Unimplemented, chainVars
  <2> QED
    BY <2>1, <2>2
<1>2. ASSUME NEW r \in RollApps, SetGenesisAccount(r) \/ RegisterRollApp(r)
      PROVE  box'[n] = box[n]
  BY <1>2 DEF SetGenesisAccount, RegisterRollApp
<1> QED
  BY <1>1, <1>2, OnlyItems DEF ItemNext

\* Keys, files and registrations stay.
LEMMA KeysGrow ==
  ASSUME FilesTyped, [Next]_vars
  PROVE  \A n \in Nodes : keys[n] \subseteq keys'[n]
<1> SUFFICES ASSUME NEW n \in Nodes PROVE keys[n] \subseteq keys'[n]
  OBVIOUS
<1>1. ASSUME NEW m, NEW S, keys' = Add(keys, m, S)
      PROVE  keys[n] \subseteq keys'[n]
  BY <1>1 DEF Add, FilesTyped
<1>2. ASSUME NEW m \in Nodes, NodeStep(m)
      PROVE  keys[n] \subseteq keys'[n]
  <2>1. CASE InitNode(m)
    BY <1>1, <2>1 DEF InitNode
  <2> QED
    BY <1>2, <2>1
    DEF NodeStep, Collect, AddWallets, CollectGentxs, ReadGenesis, WriteGenesis,
        SetSequencer, CreateNodeContainer, StartNode, Wait, Unimplemented, chainVars
<1>3. ASSUME NEW r \in RollApps, SetGenesisAccount(r) \/ RegisterRollApp(r)
      PROVE  keys[n] \subseteq keys'[n]
  BY <1>1, <1>3 DEF SetGenesisAccount, RegisterRollApp
<1>4. ASSUME NEW c \in Chains, CreateFaucet(c)
      PROVE  keys[n] \subseteq keys'[n]
  BY <1>1, <1>4 DEF CreateFaucet
<1>5. keys' = Add(keys, n, {}) \/ keys' = keys \/ ItemNext \/ \E c \in Chains : CreateFaucet(c)
  BY DEF Next, ItemNext, FinishGroup, FinishLoop, FinishStage, Begin, Initialize,
     GenerateRelayerWallets, TrackBlocks, RewriteConfig, ConfigureRelayer, GeneratePath,
     LinkPath, BuildAgain, chainVars, vars
<1> QED
  BY <1>1, <1>2, <1>3, <1>4, <1>5 DEF ItemNext

LEMMA RecordsGrow ==
  ASSUME Ctl, [Next]_vars
  PROVE  files \subseteq files' /\ registry \subseteq registry'
<1>1. ASSUME NEW m \in Nodes, NodeStep(m)
      PROVE  files \subseteq files' /\ registry \subseteq registry'
  BY <1>1
  DEF NodeStep, InitNode, Collect, AddWallets, CollectGentxs, ReadGenesis, WriteGenesis,
      SetSequencer, CreateNodeContainer, StartNode, Wait, Unimplemented, chainVars
<1>2. ASSUME NEW r \in RollApps, SetGenesisAccount(r) \/ RegisterRollApp(r)
      PROVE  files \subseteq files' /\ registry \subseteq registry'
  BY <1>2 DEF SetGenesisAccount, RegisterRollApp
<1> QED
  BY <1>1, <1>2, OnlyItems DEF ItemNext

-----------------------------------------------------------------------------
(* Containers: what runs, and what has none yet.                            *)

Typed == Ctl /\ FilesTyped

LEMMA InitIsTyped == Init => Typed
  BY InitCtl, InitTyped DEF Typed

LEMMA NextIsTyped == Typed /\ RelayTyped /\ [Next]_vars => Typed' /\ RelayTyped'
  BY NextCtl, NextTyped DEF Typed

Untouched(c) == \A n \in NodesOf(c) : box[n] = "none"

\* The hub that already ran keeps its genesis, its containers and its faucet.
ExistInv ==
  \A n \in Nodes : n[1] = red =>
    /\ genesis[n] = ExistingGenesis(red) /\ box[n] = "running"
    /\ n = GetNode(red) => "faucet" \in keys[n]

LEMMA InitExist == Init => ExistInv
  BY DEF Init, ExistInv, IsExisting, red

LEMMA NextExist ==
  ASSUME Typed, ExistInv, [Next]_vars
  PROVE  ExistInv'
<1>1. red' = red
  BY SameArgs DEF Typed
<1> SUFFICES ASSUME NEW n \in Nodes, n[1] = red
             PROVE  genesis'[n] = genesis[n] /\ box'[n] = box[n] /\ keys[n] \subseteq keys'[n]
  <2>1. ASSUME NEW c PROVE GetNode(c)' = GetNode(c) /\ ExistingGenesis(c)' = ExistingGenesis(c)
    BY DEF GetNode, ExistingGenesis
  <2> QED
    BY <1>1, <2>1 DEF ExistInv
<1>2. red \in Chains /\ red \notin RollApps
  BY NodeFacts, RedFacts DEF Typed, Ctl
<1>3. ~GenesisMay(n)
  <2> SUFFICES ASSUME GenesisMay(n) PROVE FALSE
    OBVIOUS
  <2>1. CASE n \in NodesOf(cur) /\ Stage \in GenesisNames
    <3>1. cur = red /\ cur # None
      BY <2>1, NodeFacts DEF GenesisMay
    <3> QED
      BY <1>2, <2>1, <3>1, StagePhases DEF Typed, GenesisNames
  <2>2. ASSUME NEW r \in RollAppsOf(cur) \cap DymRollApps, n \in NodesOf(r)
        PROVE  FALSE
    BY <1>2, <2>2, NodeFacts DEF RollAppsOf
  <2> QED
    BY <2>1, <2>2 DEF GenesisMay
<1>4. ~BoxMay(n)
  BY NodeFacts DEF BoxMay
<1> QED
  BY <1>3, <1>4, GenesisEffect, BoxEffect, KeysGrow DEF Typed

\* No chain of this test has a container before the relayer wallets were made,
\* nor before its hubs are started.
WalletInv ==
  /\ ~walletsMade => pc \in {"initialize", "wallets", "failed"}
  /\ ~walletsMade \/ pc \in {"faucet", "configure"} =>
       \A n \in Nodes : n[1] # red => box[n] = "none"

LEMMA InitWallet == Init => WalletInv
  BY DEF Init, WalletInv, IsExisting, red

LEMMA NextWallet ==
  ASSUME Typed, WalletInv, [Next]_vars
  PROVE  WalletInv'
<1> USE DEF WalletInv
<1>0. Ctl /\ red' = red
  BY SameArgs DEF Typed
<1>1. CASE ItemNext
  <2>1. Works
    BY <1>0, <1>1, ItemSteps
  <2>2. walletsMade' = walletsMade /\ pc' = pc
    BY <2>1 DEF Works, relayVars
  <2>3. pc \in Loops
    BY <1>0, <2>1, StageFacts DEF Works
  <2>4. walletsMade /\ pc # "faucet"
    BY <2>3 DEF Loops
  <2>5. pc = "configure" => \A n \in Nodes : box'[n] = box[n]
    BY <1>0, BoxEffect, StagePhases DEF BoxMay, Typed
  <2> QED
    BY <1>0, <2>2, <2>4, <2>5
<1>2. CASE FinishStage
  <2>1. box' = box /\ walletsMade' = walletsMade /\ cur # None
        /\ (pc' = pc \/ pc' \in {"track", "failed"})
    BY <1>0, <1>2, FinishSteps DEF chainVars, relayVars, Advances, Completes, Fails
  <2>2. walletsMade
    BY <1>0, <2>1, StageFacts DEF Loops
  <2> QED
    BY <1>0, <2>1, <2>2
<1>3. CASE \E c \in Chains : Begin(c)
  BY <1>0, <1>3, BeginSteps DEF chainVars, relayVars, Begins
<1>4. CASE BuildNext
  <2>1. Moves
    BY <1>0, <1>4, BuildMoves
  <2>2. box' = box /\ (pc' = "faucet" => pc = "faucet" \/ ~walletsMade)
        /\ (pc' = "configure" => pc = "faucet")
    BY <2>1 DEF Moves
  <2>3. ~walletsMade' => ~walletsMade /\ pc # "wallets"
    BY <2>1 DEF Moves
  <2>4. ~walletsMade' => pc' \in {"initialize", "wallets", "failed"}
    <3> SUFFICES ASSUME ~walletsMade' PROVE pc' \in {"initialize", "wallets", "failed"}
      OBVIOUS
    <3>1. pc \in {"initialize", "failed"}
      BY <2>3
    <3> QED
      BY <2>1, <3>1 DEF Moves, Phases, Returned
  <2> QED
    BY <1>0, <2>2, <2>3, <2>4
<1>5. CASE UNCHANGED vars
  BY <1>0, <1>5 DEF vars, chainVars, relayVars
<1> QED
  BY <1>1, <1>2, <1>3, <1>4, <1>5, NextKinds

\* The stages of a Start before containers.
Early == {"init", "collect", "wallets", "gentxs", "read", "write", "hubaccounts"}

\* While the hubs are started, neither the rollapps nor the hubs to come have
\* containers, nor the hub under work in its early stages.
WaitInv ==
  pc = "hubs" =>
    /\ \A r \in RollApps : Untouched(r)
    /\ \A h \in left : h # red /\ h # cur => Untouched(h)
    /\ Stage \in Early => Untouched(cur)

\* A chain is up once its start stage is through.
UpInv ==
  /\ Stage = "start" => \A n \in NodesOf(cur) : n \in todo \/ err \/ box[n] = "running"
  /\ Stage \in {"register", "wait"} => Running(cur)
  /\ pc = "rollapps" => \A r \in RollApps : r \in left \/ Running(r)
  /\ pc \in {"track", "keys"} /\ ~args.failExpected => \A r \in RollApps : Running(r)

BoxInv == ExistInv /\ WalletInv /\ WaitInv /\ UpInv

LEMMA InitBox == Init => BoxInv
<1>1. Init => pc = "initialize" /\ cur = None
  BY DEF Init
<1> QED
  BY <1>1, InitExist, InitWallet DEF BoxInv, WaitInv, UpInv, Stage

\* Containers of other chains than the one under work stay as they are.
LEMMA OthersStay ==
  ASSUME Typed, [Next]_vars, NEW c \in Chains, c # cur \/ ~ItemNext \/ Stage \notin {"create", "start"}
  PROVE  \A n \in NodesOf(c) : box'[n] = box[n]
<1> TAKE n \in NodesOf(c)
<1>1. n \in Nodes /\ n[1] = c
  BY NodeFacts
<1>2. ~BoxMay(n)
  BY <1>1, NodeFacts DEF BoxMay
<1> QED
  BY <1>1, <1>2, BoxEffect DEF Typed

LEMMA NextWait ==
  ASSUME Typed, BoxInv, [Next]_vars
  PROVE  WaitInv'
<1>0. Ctl /\ red' = red /\ WaitInv
  BY SameArgs DEF Typed, BoxInv
<1> SUFFICES ASSUME pc' = "hubs"
             PROVE  /\ \A r \in RollApps : Untouched(r)'
                    /\ \A h \in left' : h # red /\ h # cur' => Untouched(h)'
                    /\ Stage' \in Early => Untouched(cur)'
  BY <1>0 DEF WaitInv
<1>1. ASSUME NEW c \in Chains, Untouched(c), \A n \in NodesOf(c) : box'[n] = box[n]
      PROVE  Untouched(c)'
  BY <1>1 DEF Untouched, NodesOf
<1>2. CASE ItemNext
  <2>1. cur # None /\ pc = "hubs" /\ left' = left /\ cur' = cur /\ Stage' = Stage
    BY <1>0, <1>2, ItemSteps DEF Works
  <2>2. cur \in Hubs /\ cur \in Chains /\ left \subseteq Hubs
    BY <1>0, <2>1, StagePhases, ChainFacts DEF Ctl, Loops, Loop
  <2>3. Stage \in Early => Stage \notin {"create", "start"}
    BY DEF Early
  <2>4. \A r \in RollApps : Untouched(r)'
    BY <1>0, <1>1, <2>1, <2>2, OthersStay, ChainFacts DEF WaitInv
  <2>5. \A h \in left : h # red /\ h # cur => Untouched(h)'
    BY <1>0, <1>1, <2>1, <2>2, OthersStay, ChainFacts DEF WaitInv
  <2>6. Stage \in Early => Untouched(cur)'
    <3>1. Stage \in Early => \A n \in NodesOf(cur) : box'[n] = box[n]
      BY <2>2, <2>3, OthersStay
    <3>2. Stage \in Early => \A n \in NodesOf(cur) : box'[n] = "none"
      BY <1>0, <2>1, <3>1 DEF WaitInv, Untouched
    <3> QED
      BY <2>1, <3>2 DEF Untouched, NodesOf
  <2> QED
    BY <2>1, <2>4, <2>5, <2>6
<1>3. CASE ~ItemNext
  <2>1. \A c \in Chains : Untouched(c) => Untouched(c)'
    BY <1>1, <1>3, OthersStay
  <2>2. CASE FinishStage
    <3>1. box' = box /\ pc = "hubs" /\ cur # None /\ (Advances \/ Completes)
      BY <1>0, <2>2, FinishSteps DEF chainVars, Advances, Completes, Fails
    <3>2. cur \in Hubs /\ cur \in Chains /\ left \subseteq Hubs
      BY <1>0, <3>1, StagePhases, ChainFacts DEF Ctl, Loops, Loop
    <3>3. CASE Advances
      <4>1. Stage' \in Early => Stage \in Early
        BY <3>1, <3>3 DEF Advances, Before, WalletsLate, Early
      <4> QED
        BY <1>0, <2>1, <3>1, <3>2, <3>3, <4>1, ChainFacts DEF Advances, WaitInv, Untouched, NodesOf
    <3>4. CASE Completes
      <4>1. Stage' = "none" /\ left' \subseteq left /\ cur \notin left'
        BY <3>4 DEF Completes, Stage
      <4> QED
        BY <1>0, <2>1, <3>1, <3>2, <4>1, ChainFacts DEF WaitInv, Early
    <3> QED
      BY <3>1, <3>3, <3>4
  <2>3. ASSUME NEW c \in Chains, Begin(c)
        PROVE  /\ \A r \in RollApps : Untouched(r)'
               /\ \A h \in left' : h # red /\ h # cur' => Untouched(h)'
               /\ Stage' \in Early => Untouched(cur)'
    <3>1. pc = "hubs" /\ cur = None /\ cur' = c /\ left' = left /\ box' = box
          /\ c \in left /\ Stage' = FirstOf(pc, c) /\ left \subseteq Hubs
      BY <1>0, <2>3, BeginSteps DEF chainVars, Begins, Ctl, Loops, Loop
    <3>2. Stage' \in Early => c # red
      BY <3>1 DEF FirstOf, Early
    <3>3. c # red => Untouched(c)
      BY <1>0, <3>1, ChainFacts DEF WaitInv
    <3> QED
      BY <1>0, <2>1, <3>1, <3>2, <3>3, ChainFacts DEF WaitInv, Untouched, NodesOf
  <2>4. CASE BuildNext
    <3>1. pc = "configure" /\ box' = box /\ cur' = None /\ left' = Hubs
      BY <1>0, <2>4, BuildMoves DEF Moves
    <3>2. \A c \in Chains : c # red => Untouched(c)
      BY <3>1, NodeFacts DEF BoxInv, WalletInv, Untouched
    <3>3. Stage' \notin Early
      BY <3>1 DEF Stage, Early
    <3> QED
      BY <1>0, <2>1, <3>1, <3>2, <3>3, ChainFacts, RedFacts DEF Ctl
  <2>5. CASE UNCHANGED vars
    <3>1. pc = "hubs" /\ left' = left /\ cur' = cur /\ Stage' = Stage /\ box' = box
      BY <2>5 DEF vars, workVars, chainVars, Stage
    <3> QED
      BY <1>0, <3>1 DEF WaitInv, Untouched, NodesOf
  <2> QED
    BY <1>3, <2>2, <2>3, <2>4, <2>5, NextKinds
<1> QED
  BY <1>2, <1>3

\* In the start stage a node that is through runs, or an error is pending.
LEMMA StartEffect ==
  ASSUME Typed, ItemNext, Stage = "start"
  PROVE  \A n \in NodesOf(cur) :
           n \notin todo' /\ n \in todo => err' \/ box'[n] = "running"
<1>1. PICK m \in Nodes : StartNode(m)
  BY DEF ItemNext, NodeStep, InitNode, Collect, AddWallets, CollectGentxs, ReadGenesis, WriteGenesis,
     SetSequencer, CreateNodeContainer, Wait, Unimplemented, SetGenesisAccount, RegisterRollApp, Item
<1>2. PICK p \in 0 .. 2 : StartNode(m)!(p)
  BY <1>1 DEF StartNode
<1>3. todo' = todo \ {m} /\ err' = (err \/ ~(p = 2))
  BY <1>2 DEF Item
<1>4. p = 2 => box'[m] = "running"
  BY <1>2 DEF Typed, FilesTyped
<1> QED
  BY <1>3, <1>4

LEMMA NextUp ==
  ASSUME Typed, BoxInv, [Next]_vars
  PROVE  UpInv'
<1>0. Ctl /\ args' = args /\ red' = red /\ UpInv /\ ExistInv
  BY SameArgs DEF Typed, BoxInv
<1>1. ASSUME NEW c \in Chains, Running(c), \A n \in NodesOf(c) : box'[n] = box[n]
      PROVE  Running(c)'
  BY <1>1 DEF Running, NodesOf
<1>2. CASE ItemNext
  <2>1. Works /\ Stage' = Stage /\ pc \in Loops /\ cur \in Chains /\ cur \in left
    BY <1>0, <1>2, ItemSteps, StageFacts DEF Works
  <2>2. cur # None /\ pc' = pc /\ left' = left /\ cur' = cur /\ todo' \subseteq todo
        /\ (err => err')
    BY <2>1 DEF Works
  <2>3. Stage = "start" => \A n \in NodesOf(cur) : n \in todo' \/ err' \/ box'[n] = "running"
    <3> SUFFICES ASSUME Stage = "start", NEW n \in NodesOf(cur), n \notin todo', ~err'
                 PROVE  box'[n] = "running"
      OBVIOUS
    <3>1. CASE n \in todo
      BY <1>2, <3>1, StartEffect
    <3>2. CASE n \notin todo
      <4>1. box[n] = "running" /\ n \in Nodes
        BY <1>0, <2>1, <2>2, <3>2, NodeFacts DEF UpInv
      <4> QED
        BY <4>1, BoxEffect DEF Typed, BoxMay
    <3> QED
      BY <3>1, <3>2
  <2>4. Stage \in {"register", "wait"} => Running(cur)'
    BY <1>0, <1>1, <2>1, <2>2, OthersStay DEF UpInv
  <2>5. pc = "rollapps" => \A r \in RollApps : r \in left \/ Running(r)'
    BY <1>0, <1>1, <2>1, OthersStay, ChainFacts DEF UpInv
  <2>6. NodesOf(cur)' = NodesOf(cur) /\ Running(cur)' = (\A n \in NodesOf(cur) : box'[n] = "running")
    BY <2>2 DEF NodesOf, Running
  <2> QED
    BY <2>1, <2>2, <2>3, <2>4, <2>5, <2>6 DEF UpInv, Loops
<1>3. CASE ~ItemNext
  <2>0. \A c \in Chains : Running(c) => Running(c)'
    BY <1>1, <1>3, OthersStay
  <2>1. CASE FinishStage
    <3>1. box' = box /\ cur # None /\ (Advances \/ Completes \/ Fails)
      BY <1>0, <2>1, FinishSteps DEF chainVars, FinishStage
    <3>2. pc \in Loops /\ cur \in Chains /\ cur \in left
      BY <1>0, <3>1, StageFacts
    <3>3. Stage = "start" /\ todo = {} /\ ~err => Running(cur)
      BY <1>0 DEF UpInv, Running
    <3>4. CASE Advances
      <4>1. pc' = pc /\ cur' = cur /\ left' = left /\ ~err /\ todo = {} /\ todo' = Work(cur, Stage')
            /\ Stage = Before(pc, cur, Stage')
        BY <3>4 DEF Advances
      <4>2. Stage' = "start" => todo' = NodesOf(cur)
        BY <4>1 DEF Work
      <4>3. Stage' \in {"register", "wait"} => Stage = "start"
        BY <4>1 DEF Before
      <4>4. NodesOf(cur)' = NodesOf(cur) /\ Running(cur)' = Running(cur)
        BY <3>1, <4>1 DEF NodesOf, Running
      <4> QED
        BY <1>0, <2>0, <3>2, <3>3, <4>1, <4>2, <4>3, <4>4, ChainFacts DEF UpInv, Loops
    <3>5. CASE Completes
      <4>1. pc' = pc /\ Stage' = "none" /\ ~err /\ todo = {} /\ Stage = LastOf(pc, cur)
            /\ left' = (IF cur = red THEN {} ELSE left \ {cur})
        BY <3>5 DEF Completes, Stage
      <4>2. pc = "rollapps" => cur \in RollApps /\ cur # red /\ Running(cur)
        BY <1>0, <3>1, <3>3, <4>1, StagePhases, RedFacts DEF LastOf, Ctl, UpInv
      <4> QED
        BY <1>0, <2>0, <3>2, <4>1, <4>2, ChainFacts DEF UpInv, Loops
    <3>6. CASE Fails
      <4>1. Stage' = "none" /\ pc' \in {"track", "failed"} /\ (pc' = "track" => args.failExpected)
        BY <3>6 DEF Fails, Stage
      <4> QED
        BY <1>0, <4>1 DEF UpInv
    <3> QED
      BY <3>1, <3>4, <3>5, <3>6
  <2>2. ASSUME NEW c \in Chains, Begin(c)
        PROVE  UpInv'
    <3>1. pc' = pc /\ pc \in Loops /\ cur' = c /\ left' = left /\ box' = box
          /\ Stage' = FirstOf(pc, c)
      BY <1>0, <2>2, BeginSteps DEF chainVars, Begins
    <3>2. Stage' # "start" /\ Stage' # "wait" /\ (Stage' = "register" => c = red)
      BY <3>1 DEF FirstOf
    <3>3. c = red => Running(c)'
      BY <1>0, <3>1, NodeFacts DEF ExistInv, Running, NodesOf
    <3>4. Running(c)' => Running(cur)'
      BY <3>1 DEF Running, NodesOf
    <3> QED
      BY <1>0, <2>0, <3>1, <3>2, <3>3, <3>4, ChainFacts DEF UpInv, Loops
  <2>3. CASE BuildNext
    <3>1. Moves
      BY <1>0, <2>3, BuildMoves
    <3>2. cur' = None /\ (pc' = "rollapps" => left' = RollApps)
          /\ (pc' = "track" => pc = "rollapps" /\ left = {})
          /\ (pc' = "keys" => pc \in {"track", "keys"})
      BY <3>1 DEF Moves
    <3>3. Stage' = "none"
      BY <3>2 DEF Stage
    <3> QED
      BY <1>0, <2>0, <3>2, <3>3, ChainFacts DEF UpInv
  <2>4. CASE UNCHANGED vars
    <3>1. UNCHANGED <<pc, cur, left, todo, err, box, args>> /\ Stage' = Stage
      BY <2>4 DEF vars, workVars, chainVars, Stage
    <3> QED
      BY <1>0, <3>1 DEF UpInv, Running, NodesOf
  <2> QED
    BY <1>3, <2>1, <2>2, <2>3, <2>4, NextKinds
<1> QED
  BY <1>2, <1>3

LEMMA NextBox == Typed /\ BoxInv /\ [Next]_vars => BoxInv'
  BY NextExist, NextWallet, NextWait, NextUp DEF BoxInv

Base == Typed /\ RelayTyped /\ BoxInv

LEMMA BaseInvariance == (Init => Base) /\ (Base /\ [Next]_vars => Base')
  BY InitIsTyped, InitTyped, InitBox, NextIsTyped, NextBox DEF Base

-----------------------------------------------------------------------------
(* Nothing is redone. *)

\* The genesis file of a node that runs stays as it is.
LEMMA Frozen ==
  ASSUME Base, [Next]_vars
  PROVE  \A n \in Nodes : box[n] = "running" => genesis'[n] = genesis[n]
<1> SUFFICES ASSUME NEW n \in Nodes, box[n] = "running", GenesisMay(n)
             PROVE  FALSE
  BY GenesisEffect DEF Base, Typed
<1>1. Ctl /\ ExistInv /\ WalletInv /\ WaitInv /\ cur # None
  BY DEF Base, Typed, BoxInv, GenesisMay
<1>2. CASE n \in NodesOf(cur) /\ Stage \in GenesisNames
  <2>1. n[1] = cur /\ pc \in {"configure", "hubs"}
    BY <1>1, <1>2, NodeFacts, StagePhases
  <2>2. pc = "configure" => cur # red
    BY <1>1, StagePhases, RedFacts DEF Ctl
  <2>3. pc = "hubs" => box[n] = "none"
    BY <1>1, <1>2 DEF WaitInv, Untouched, Early, GenesisNames
  <2> QED
    BY <1>1, <2>1, <2>2, <2>3 DEF WalletInv
<1>3. ASSUME Stage = "hubaccounts", NEW r \in RollAppsOf(cur), n \in NodesOf(r)
      PROVE  FALSE
  <2>1. pc = "hubs" /\ r \in RollApps
    BY <1>1, <1>3, StagePhases DEF RollAppsOf
  <2> QED
    BY <1>1, <1>3, <2>1 DEF WaitInv, Untouched
<1> QED
  BY <1>2, <1>3 DEF GenesisMay

\* What is left of a Setup that was built once.
Once == walletsMade /\ pc \in {"built", "initialize", "wallets", "failed", "panicked"}

LEMMA OnceStays ==
  ASSUME Base, Once, [Next]_vars
  PROVE  Once'
<1>1. Ctl /\ cur = None
  BY DEF Base, Typed, Ctl, WorkInv, Once, Loops
<1>2. ~ItemNext /\ ~FinishStage
  BY <1>1, ItemSteps DEF Works, FinishStage
<1>3. \A c \in Chains : ~Begin(c)
  BY DEF Begin, Once
<1>4. CASE BuildNext
  BY <1>1, <1>4, BuildMoves DEF Moves, Once, Phases, Returned
<1>5. CASE UNCHANGED vars
  BY <1>5 DEF vars, relayVars, Once
<1> QED
  BY <1>2, <1>3, <1>4, <1>5, NextKinds

\* Neither a later phase nor a second Build redoes what already is in use: the
\* genesis file of a running node is never rewritten, and after a Build that
\* succeeded, a further call gets no further than the relayer wallets.
THEOREM NeverRedone == Spec => NothingRedone
<1>1. Init => Base
  BY BaseInvariance
<1>2. Base /\ [Next]_vars => Base'
  BY BaseInvariance
<1>3. Base /\ [Next]_vars => [\A n \in Nodes : box[n] = "running" => genesis'[n] = genesis[n]]_vars
  BY Frozen
<1>4. Base /\ pc = "built" => Once
  BY DEF Base, BoxInv, WalletInv, Once
<1>5. Base /\ Once /\ [Next]_vars => Once'
  BY OnceStays
<1>6. Once => pc \in {"built", "initialize", "wallets", "failed", "panicked"}
  BY DEF Once
<1>7. Spec => GenesisFrozen
  BY <1>1, <1>2, <1>3, PTL DEF Spec, GenesisFrozen
<1>8. Spec => BuiltOnce
  BY <1>1, <1>2, <1>4, <1>5, <1>6, PTL DEF Spec, BuiltOnce
<1> QED
  BY <1>7, <1>8 DEF NothingRedone

-----------------------------------------------------------------------------
(* The faucets' keys and the rollapps' sequencers.                          *)

\* The item that each stage has.
LEMMA ItemOfStage ==
  ASSUME ItemNext
  PROVE  /\ Stage = "init" => \E n \in todo \cap Nodes : InitNode(n)
         /\ Stage = "collect" => \E n \in todo \cap Nodes : Collect(n)
         /\ Stage = "wallets" => \E n \in todo \cap Nodes : AddWallets(n)
         /\ Stage = "gentxs" => \E n \in todo \cap Nodes : CollectGentxs(n)
         /\ Stage = "read" => \E n \in todo \cap Nodes : ReadGenesis(n)
         /\ Stage = "write" => \E n \in todo \cap Nodes : WriteGenesis(n)
         /\ Stage = "sequencer" => \E n \in todo \cap Nodes : SetSequencer(n)
         /\ Stage = "hubaccounts" => \E r \in todo \cap RollApps : SetGenesisAccount(r)
         /\ Stage = "register" => \E r \in todo \cap RollApps : RegisterRollApp(r)
<1>1. ASSUME NEW n \in Nodes, NodeStep(n)
      PROVE  /\ n \in todo
             /\ \/ Stage = "init" /\ InitNode(n)
                \/ Stage = "collect" /\ Collect(n)
                \/ Stage = "wallets" /\ AddWallets(n)
                \/ Stage = "gentxs" /\ CollectGentxs(n)
                \/ Stage = "read" /\ ReadGenesis(n)
                \/ Stage = "write" /\ WriteGenesis(n)
                \/ Stage = "sequencer" /\ SetSequencer(n)
                \/ Stage \in {"create", "start", "wait", "unimplemented"}
  BY <1>1 DEF NodeStep, InitNode, Collect, AddWallets, CollectGentxs, ReadGenesis, WriteGenesis,
     SetSequencer, CreateNodeContainer, StartNode, Wait, Unimplemented, Item
<1>2. ASSUME NEW r \in RollApps, SetGenesisAccount(r) \/ RegisterRollApp(r)
      PROVE  /\ r \in todo
             /\ \/ Stage = "hubaccounts" /\ SetGenesisAccount(r)
                \/ Stage = "register" /\ RegisterRollApp(r)
  BY <1>2 DEF SetGenesisAccount, RegisterRollApp, Item
<1> QED
  BY <1>1, <1>2 DEF ItemNext

\* After CreateFaucet every chain has the faucet's key, the existing hub from before.
KeyInv ==
  /\ pc = "faucet" => \A c \in Chains :
       c \in todo \/ c = red \/ err \/ "faucet" \in keys[GetNode(c)]
  /\ pc \in Loops \cup {"track", "keys"} => \A c \in Chains : "faucet" \in keys[GetNode(c)]

LEMMA NextKey ==
  ASSUME Base, KeyInv, [Next]_vars
  PROVE  KeyInv'
<1>0. Ctl /\ red' = red /\ ExistInv /\ FilesTyped
  BY SameArgs DEF Base, Typed, BoxInv
<1>1. ASSUME NEW c \in Chains
      PROVE  /\ GetNode(c) \in Nodes /\ GetNode(c)[1] = c /\ GetNode(c)' = GetNode(c)
             /\ "faucet" \in keys[GetNode(c)] => "faucet" \in keys'[GetNode(c)]
  BY <1>0, KeysGrow, NodeFacts DEF GetNode
<1>2. CASE ItemNext \/ FinishStage \/ \E c \in Chains : Begin(c)
  <2>1. pc \in Loops /\ (pc' = pc \/ pc' \in {"track", "failed"})
    BY <1>0, <1>2, ItemSteps, FinishSteps, BeginSteps, StageFacts
    DEF Works, FinishStage, Advances, Completes, Fails, Begins
  <2> QED
    BY <1>1, <2>1 DEF KeyInv, Loops
<1>3. CASE BuildNext
  <2>1. Moves
    BY <1>0, <1>3, BuildMoves
  <2>2. CASE pc = "faucet" /\ pc' = "faucet"
    <3>1. PICK c \in Chains : CreateFaucet(c)
      BY <1>0, <1>3, <2>2
      DEF BuildNext, FinishGroup, FinishLoop, After, Enter, Initialize, GenerateRelayerWallets,
          TrackBlocks, RewriteConfig, ConfigureRelayer, GeneratePath, LinkPath, BuildAgain
    <3>2. todo' = todo \ {c} /\ (err => err')
      BY <3>1 DEF CreateFaucet
    <3>3. err' \/ "faucet" \in keys'[GetNode(c)]
      <4>1. PICK ok \in BOOLEAN : /\ keys' = Add(keys, GetNode(c), IF ok THEN {"faucet"} ELSE {})
                                  /\ err' = (err \/ ~ok)
        BY <3>1 DEF CreateFaucet
      <4>2. ok => "faucet" \in keys'[GetNode(c)]
        BY <1>0, <1>1, <4>1 DEF Add, FilesTyped
      <4> QED
        BY <4>1, <4>2
    <3> QED
      BY <1>0, <1>1, <2>2, <3>2, <3>3 DEF KeyInv, Loops
  <2>3. CASE pc' = "faucet" /\ pc # "faucet"
    <3>1. todo' = Chains \ {red}
      BY <2>1, <2>3 DEF Moves
    <3> QED
      BY <1>0, <2>3, <3>1 DEF KeyInv, Loops
  <2>4. CASE pc' = "configure"
    <3>1. pc = "faucet" /\ todo = {} /\ ~err
      BY <2>1, <2>4 DEF Moves
    <3>2. \A c \in Chains : "faucet" \in keys[GetNode(c)]
      BY <1>0, <1>1, <3>1 DEF KeyInv, ExistInv
    <3> QED
      BY <1>1, <2>4, <3>2 DEF KeyInv
  <2>5. CASE pc' \in {"hubs", "rollapps", "track", "keys"}
    <3>1. pc \in Loops \cup {"track", "keys"}
      BY <2>1, <2>5 DEF Moves, Loops
    <3> QED
      BY <1>1, <2>5, <3>1 DEF KeyInv
  <2> QED
    BY <2>2, <2>3, <2>4, <2>5 DEF KeyInv, Loops
<1>4. CASE UNCHANGED vars
  <2>1. UNCHANGED <<pc, todo, err, keys>>
    BY <1>4 DEF vars, workVars, chainVars
  <2> QED
    BY <1>0, <1>1, <2>1 DEF KeyInv
<1> QED
  BY <1>2, <1>3, <1>4, NextKinds

\* Configuration leaves a DymRollApp with its sequencer on validator 0, and the
\* key directory at its last validator.
SeqOK(r) == seqKey[r] = Validator0(r) /\ Validator0(r) \in files /\ seqDir[r] = KeyDirNode(r)

SeqInv ==
  /\ pc = "configure" => \A r \in DymRollApps : r \in left \/ SeqOK(r)
  /\ pc = "configure" /\ cur \in DymRollApps =>
       /\ todo = NodesOf(cur) \/ seqDir[cur] = KeyDirNode(cur)
       /\ Stage = "init" \/ seqDir[cur] = KeyDirNode(cur)
       /\ Stage = "sequencer" => todo # {} \/ err \/ SeqOK(cur)
  /\ pc = "hubs" => \A r \in DymRollApps : SeqOK(r)

\* An item touches the sequencer of no other chain, and never moves a key
\* directory that is set.
LEMMA SeqEffect ==
  ASSUME Base, ItemNext
  PROVE  /\ \A r \in RollApps : \/ r = cur /\ pc = "configure"
                                \/ seqKey'[r] = seqKey[r] /\ seqDir'[r] = seqDir[r]
         /\ \A r \in RollApps : seqDir[r] = KeyDirNode(r) => seqDir'[r] = KeyDirNode(r)
<1>0. Ctl /\ FilesTyped /\ cur # None
  BY ItemSteps DEF Base, Typed, Works
<1>1. ASSUME NEW n \in Nodes, InitNode(n)
      PROVE  /\ seqKey' = seqKey /\ Stage = "init"
             /\ \A r \in RollApps : r = cur \/ seqDir'[r] = seqDir[r]
             /\ \A r \in RollApps : r = cur /\ cur \in DymRollApps => seqDir'[r] = KeyDirNode(r)
             /\ cur \notin DymRollApps => seqDir' = seqDir
  BY <1>0, <1>1 DEF InitNode, FilesTyped, Item
<1>2. ASSUME NEW n \in Nodes, SetSequencer(n)
      PROVE  seqDir' = seqDir /\ Stage = "sequencer" /\ \A r \in RollApps : r = cur \/ seqKey'[r] = seqKey[r]
  BY <1>0, <1>2 DEF SetSequencer, Item, FilesTyped
<1>3. \/ \E n \in Nodes : InitNode(n) \/ SetSequencer(n)
      \/ seqDir' = seqDir /\ seqKey' = seqKey
  BY DEF ItemNext, NodeStep, Collect, AddWallets, CollectGentxs, ReadGenesis, WriteGenesis,
     CreateNodeContainer, StartNode, Wait, Unimplemented, SetGenesisAccount, RegisterRollApp, chainVars
<1>4. Stage \in {"init", "sequencer"} => pc = "configure" \/ cur \notin RollApps
  BY <1>0, StagePhases, ChainFacts DEF GenesisNames
<1> QED
  BY <1>0, <1>1, <1>2, <1>3, <1>4, ChainFacts

LEMMA NextSeq ==
  ASSUME Base, SeqInv, [Next]_vars
  PROVE  SeqInv'
<1>0. Ctl /\ FilesTyped /\ red' = red /\ files \subseteq files'
  BY SameArgs, RecordsGrow DEF Base, Typed
<1>1. ASSUME NEW r
      PROVE  /\ KeyDirNode(r)' = KeyDirNode(r) /\ Validator0(r)' = Validator0(r) /\ NodesOf(r)' = NodesOf(r)
             /\ SeqOK(r) /\ seqKey'[r] = seqKey[r] /\ seqDir'[r] = seqDir[r] => SeqOK(r)'
  BY <1>0 DEF SeqOK, KeyDirNode, Validator0, NodesOf
<1>2. CASE ItemNext
  <2>1. Works /\ Stage' = Stage /\ pc \in Loops /\ cur \in Chains /\ cur \in left
    BY <1>0, <1>2, ItemSteps, StageFacts DEF Works
  <2>2. cur # None /\ pc' = pc /\ left' = left /\ cur' = cur /\ todo' \subseteq todo /\ (err => err')
    BY <2>1 DEF Works
  <2>3. pc = "configure" => \A r \in DymRollApps : r \in left \/ SeqOK(r)'
    BY <1>1, <1>2, <2>1, SeqEffect, ChainFacts DEF SeqInv
  <2>4. pc = "hubs" => \A r \in DymRollApps : SeqOK(r)'
    BY <1>1, <1>2, <2>1, SeqEffect, ChainFacts DEF SeqInv
  <2>5. ASSUME pc = "configure", cur \in DymRollApps
        PROVE  /\ todo' = NodesOf(cur) \/ seqDir'[cur] = KeyDirNode(cur)
               /\ Stage = "init" \/ seqDir'[cur] = KeyDirNode(cur)
               /\ Stage = "sequencer" => todo' # {} \/ err' \/ SeqOK(cur)'
    <3>1. seqDir[cur] = KeyDirNode(cur) => seqDir'[cur] = KeyDirNode(cur)
      BY <1>2, <2>5, SeqEffect, ChainFacts
    <3>2. Stage = "init" => seqDir'[cur] = KeyDirNode(cur)
      BY <1>0, <1>2, <2>5, ItemOfStage, ChainFacts DEF InitNode, FilesTyped
    <3>3. Stage = "sequencer" => todo' # {} \/ err' \/ SeqOK(cur)'
      <4> SUFFICES ASSUME Stage = "sequencer", ~err' PROVE SeqOK(cur)'
        OBVIOUS
      <4>1. PICK n \in todo : SetSequencer(n)
        BY <1>2, ItemOfStage
      <4>2. PICK p \in 0 .. 2 : SetSequencer(n)!(p)
        BY <4>1 DEF SetSequencer
      <4>3. n = Validator0(cur)
        BY <1>0, <2>2, <4>1, StageFacts DEF Work
      <4>4. p = 2
        BY <4>2 DEF Item
      <4>5. seqKey'[cur] = Validator0(cur) /\ Validator0(cur) \in files'
        BY <1>0, <2>5, <4>2, <4>3, <4>4, ChainFacts DEF FilesTyped
      <4>6. seqDir'[cur] = KeyDirNode(cur)
        BY <2>5, <3>1 DEF SeqInv
      <4> QED
        BY <2>2, <4>5, <4>6 DEF SeqOK, KeyDirNode, Validator0
    <3> QED
      BY <2>5, <3>1, <3>2, <3>3 DEF SeqInv
  <2>6. KeyDirNode(cur)' = KeyDirNode(cur) /\ NodesOf(cur)' = NodesOf(cur)
    BY <2>2 DEF KeyDirNode, NodesOf
  <2> QED
    BY <2>1, <2>2, <2>3, <2>4, <2>5, <2>6 DEF SeqInv
<1>3. CASE ~ItemNext
  <2>0. UNCHANGED <<files, seqKey, seqDir>>
    BY <1>0, <1>3, OnlyItems
  <2>1. \A r : SeqOK(r) => SeqOK(r)'
    BY <1>1, <2>0
  <2>2. CASE FinishStage
    <3>1. cur # None /\ (Advances \/ Completes \/ Fails)
      BY <1>0, <2>2, FinishSteps DEF FinishStage
    <3>2. CASE Advances
      <4>1. UNCHANGED <<cur, pc, left>> /\ todo = {} /\ todo' = Work(cur, Stage') /\ Stage' # "init"
        BY <3>2 DEF Advances
      <4>2. Stage' = "sequencer" => todo' # {}
        BY <4>1 DEF Work
      <4>3. cur \in DymRollApps => NodesOf(cur) # {}
        BY NodeFacts, ChainFacts
      <4>4. KeyDirNode(cur)' = KeyDirNode(cur)
        BY <4>1 DEF KeyDirNode
      <4> QED
        BY <2>0, <2>1, <4>1, <4>2, <4>3, <4>4 DEF SeqInv
    <3>3. CASE Completes
      <4>1. cur' = None /\ pc' = pc /\ left' = (IF cur = red THEN {} ELSE left \ {cur})
            /\ ~err /\ todo = {} /\ Stage = LastOf(pc, cur)
        BY <3>3 DEF Completes
      <4>2. pc = "configure" => cur # red
        BY <1>0, <3>1, StagePhases, RedFacts DEF Ctl
      <4>3. pc = "configure" /\ cur \in DymRollApps => SeqOK(cur)
        BY <4>1 DEF SeqInv, LastOf
      <4> QED
        BY <2>1, <4>1, <4>2, <4>3, ChainFacts DEF SeqInv
    <3>4. CASE Fails
      BY <3>4 DEF Fails, SeqInv
    <3> QED
      BY <3>1, <3>2, <3>3, <3>4
  <2>3. ASSUME NEW c \in Chains, Begin(c)
        PROVE  SeqInv'
    <3>1. Begins(c)
      BY <1>0, <2>3, BeginSteps
    <3>2. pc = "configure" => Stage' = "init" /\ todo' = NodesOf(cur')
      BY <3>1 DEF Begins, FirstOf, Work
    <3>3. todo' = NodesOf(cur') => todo' = NodesOf(cur)'
      BY DEF NodesOf
    <3> QED
      BY <2>1, <3>1, <3>2, <3>3 DEF SeqInv, Begins
  <2>4. CASE BuildNext
    <3>1. Moves
      BY <1>0, <2>4, BuildMoves
    <3>2. cur' = None /\ (pc' = "configure" => left' = RollApps)
          /\ (pc' = "hubs" => pc = "configure" /\ left = {})
      BY <3>1 DEF Moves
    <3> QED
      BY <2>1, <3>2, ChainFacts DEF SeqInv
  <2>5. CASE UNCHANGED vars
    BY <2>5 DEF vars, workVars, chainVars, SeqInv, SeqOK, Stage, KeyDirNode, Validator0, NodesOf
  <2> QED
    BY <1>3, <2>2, <2>3, <2>4, <2>5, NextKinds
<1> QED
  BY <1>2, <1>3

-----------------------------------------------------------------------------
(* Genesis files: what a chain's nodes start from.                          *)

\* What a node of chain c may have in its file that the others lack: a
\* GmRollApp's node is its own validator, a DymRollApp's faucet comes last.
Own(c, n) ==
  CASE c \in GmRollApps  -> {Consensus(n)}
    [] c \in DymRollApps -> {Faucet(c)}
    [] OTHER -> {}

Agreed(c)    == \A n, m \in NodesOf(c) : genesis[n] \subseteq genesis[m] \cup Own(c, n)
HasFaucet(c) == Faucet(c) \in genesis[Validator0(c)]
Ready(c) ==
  /\ Agreed(c) /\ HasFaucet(c)
  /\ c \notin DymRollApps => \A n \in NodesOf(c) : Faucet(c) \in genesis[n]

\* The node's file was written from the genesis in memory.
Written(n) == genesis[n] = genbz \cup (IF n[1] \in GmRollApps THEN {Consensus(n)} ELSE {})

\* What the files of the chain under work have, stage by stage.
FileInv ==
  /\ Stage = "write" => \A n \in NodesOf(cur) : n \in todo \/ err \/ Written(n)
  /\ WalletsLate(pc, cur) =>
       /\ Stage = "wallets" => Agreed(cur) /\ (todo # {} \/ err \/ HasFaucet(cur))
       /\ Stage = "sequencer" => Ready(cur)
  /\ ~WalletsLate(pc, cur) =>
       /\ Stage = "wallets" => todo # {} \/ err \/ HasFaucet(cur)
       /\ Stage \in {"gentxs", "read"} => HasFaucet(cur)
       /\ Stage = "read" => todo # {} \/ err \/ Faucet(cur) \in genbz
       /\ Stage = "write" => Faucet(cur) \in genbz
  /\ pc = "hubs" /\ Stage \in {"hubaccounts", "create", "start", "register", "wait"} =>
       cur = red \/ Ready(cur)

LEMMA WrittenAgreed ==
  ASSUME NEW c \in Chains, \A n \in NodesOf(c) : Written(n)
  PROVE  Agreed(c) /\ (Faucet(c) \in genbz => Ready(c))
<1>1. Validator0(c) \in NodesOf(c) /\ \A n \in NodesOf(c) : n[1] = c
  BY NodeFacts
<1>2. \A n \in NodesOf(c) : genbz \subseteq genesis[n] /\ genesis[n] \subseteq genbz \cup Own(c, n)
  <2> TAKE n \in NodesOf(c)
  <2>1. genesis[n] = genbz \cup (IF c \in GmRollApps THEN {Consensus(n)} ELSE {})
    BY <1>1 DEF Written
  <2>2. (IF c \in GmRollApps THEN {Consensus(n)} ELSE {}) \subseteq Own(c, n)
    BY ChainFacts DEF Own
  <2> QED
    BY <2>1, <2>2
<1>3. Agreed(c)
  BY <1>2 DEF Agreed
<1> QED
  BY <1>1, <1>2, <1>3 DEF Ready, HasFaucet

\* Files that stay leave a chain as ready as it was.
LEMMA SameFiles ==
  ASSUME NEW c \in Chains, \A n \in NodesOf(c) : genesis'[n] = genesis[n]
  PROVE  (Agreed(c) => Agreed(c)') /\ (Ready(c) => Ready(c)') /\ (HasFaucet(c) => HasFaucet(c)')
<1>1. NodesOf(c)' = NodesOf(c) /\ Faucet(c)' = Faucet(c) /\ Validator0(c)' = Validator0(c)
      /\ \A n : Own(c, n)' = Own(c, n)
  BY DEF NodesOf, Faucet, Entry, Validator0, Own, Consensus
<1>2. Validator0(c) \in NodesOf(c)
  BY NodeFacts
<1>3. Agreed(c) => Agreed(c)'
  BY <1>1 DEF Agreed
<1>4. HasFaucet(c) => HasFaucet(c)'
  BY <1>1, <1>2 DEF HasFaucet
<1> QED
  BY <1>1, <1>3, <1>4 DEF Ready

\* The files of the chain under work stay after its genesis was written, and
\* those of other chains always, but for a hub's account in its rollapps'.
LEMMA FilesStay ==
  ASSUME Typed, [Next]_vars, NEW c \in Chains,
         \/ ~ItemNext
         \/ c # cur /\ (Stage # "hubaccounts" \/ c \notin RollAppsOf(cur) \cap DymRollApps)
         \/ c = cur /\ Stage \notin GenesisNames
  PROVE  \A n \in NodesOf(c) : genesis'[n] = genesis[n]
<1> TAKE n \in NodesOf(c)
<1>1. n \in Nodes /\ n[1] = c
  BY NodeFacts
<1>2. ~GenesisMay(n)
  <2> SUFFICES ASSUME GenesisMay(n) PROVE FALSE
    OBVIOUS
  <2>1. CASE n \in NodesOf(cur) /\ Stage \in GenesisNames
    BY <1>1, <2>1, NodeFacts DEF GenesisMay, GenesisNames
  <2>2. ASSUME Stage = "hubaccounts", NEW r \in RollAppsOf(cur) \cap DymRollApps, n \in NodesOf(r)
        PROVE  FALSE
    <3>1. r = c
      BY <1>1, <2>2, NodeFacts
    <3>2. cur \in DymHubs
      BY <2>2, StagePhases DEF Typed, GenesisMay
    <3> QED
      BY <2>2, <3>1, <3>2, ChainFacts DEF GenesisMay
  <2> QED
    BY <2>1, <2>2 DEF GenesisMay
<1> QED
  BY <1>1, <1>2, GenesisEffect DEF Typed

\* The items of the stages in which a chain gets its genesis.
LEMMA FileItems ==
  ASSUME Base, FileInv, ItemNext, Stage \in GenesisNames
  PROVE  FileInv'
<1>0. Ctl /\ FilesTyped /\ Works /\ Stage' = Stage
  BY ItemSteps DEF Base, Typed
<1>1. cur # None /\ pc' = pc /\ cur' = cur /\ args' = args /\ todo' \subseteq todo /\ (err => err')
  BY <1>0 DEF Works
<1>2. cur \in Chains /\ todo \subseteq Work(cur, Stage) /\ Validator0(cur) \in NodesOf(cur)
      /\ NodesOf(cur) \subseteq Nodes
  BY <1>0, <1>1, StageFacts, NodeFacts
<1>3. /\ WalletsLate(pc, cur)' = WalletsLate(pc, cur) /\ NodesOf(cur)' = NodesOf(cur)
      /\ Faucet(cur)' = Faucet(cur) /\ Validator0(cur)' = Validator0(cur)
      /\ \A n : Own(cur, n)' = Own(cur, n)
  BY <1>1 DEF WalletsLate, NodesOf, Faucet, Entry, Validator0, Own, Consensus
<1>4. WalletsLate(pc, cur) => cur \in DymRollApps /\ cur \notin GmRollApps
  BY ChainFacts DEF WalletsLate
<1>5. cur \in DymRollApps => WalletsLate(pc, cur)
  BY <1>0, <1>1, StagePhases, ChainFacts DEF WalletsLate
<1>6. CASE Stage \in {"init", "collect"}
  BY <1>0, <1>6 DEF FileInv
<1>7. CASE Stage = "wallets"
  <2>1. PICK n \in todo \cap Nodes : AddWallets(n)
    BY <1>7, ItemOfStage
  <2>2. PICK ok \in BOOLEAN : AddWallets(n)!(ok)
    BY <2>1 DEF AddWallets
  <2>3. n = Validator0(cur)
    BY <1>2, <1>7, <2>1 DEF Work
  <2>4. err' \/ Faucet(cur) \in genesis'[Validator0(cur)]
    BY <1>0, <1>2, <2>2, <2>3 DEF Item, Add, FilesTyped
  <2>5. HasFaucet(cur)' = (Faucet(cur) \in genesis'[Validator0(cur)])
    BY <1>3 DEF HasFaucet
  <2>6. WalletsLate(pc, cur) => Agreed(cur)'
    <3> SUFFICES ASSUME WalletsLate(pc, cur), NEW i \in NodesOf(cur), NEW j \in NodesOf(cur)
                 PROVE  genesis'[i] \subseteq genesis'[j] \cup Own(cur, i)
      BY <1>3 DEF Agreed
    <3>1. Own(cur, i) = {Faucet(cur)}
      BY <1>4 DEF Own
    <3>2. genesis[i] \subseteq genesis[j] \cup Own(cur, i)
      BY <1>7 DEF FileInv, Agreed
    <3>3. genesis'[i] \subseteq genesis[i] \cup {Faucet(cur)} /\ genesis[j] \subseteq genesis'[j]
      BY <1>0, <1>2, <2>2 DEF Add, FilesTyped
    <3> QED
      BY <3>1, <3>2, <3>3
  <2> QED
    BY <1>0, <1>3, <1>7, <2>4, <2>5, <2>6 DEF FileInv
<1>8. CASE Stage = "gentxs"
  <2>1. PICK n \in todo \cap Nodes : CollectGentxs(n)
    BY <1>8, ItemOfStage
  <2>2. genesis[Validator0(cur)] \subseteq genesis'[Validator0(cur)]
    BY <1>0, <1>2, <2>1 DEF CollectGentxs, Add, FilesTyped
  <2>3. HasFaucet(cur) => HasFaucet(cur)'
    BY <1>3, <2>2 DEF HasFaucet
  <2> QED
    BY <1>0, <1>3, <1>8, <2>3 DEF FileInv
<1>9. CASE Stage = "read"
  <2>1. PICK n \in todo \cap Nodes : ReadGenesis(n)
    BY <1>9, ItemOfStage
  <2>2. n = Validator0(cur) /\ genesis' = genesis
    BY <1>2, <1>9, <2>1 DEF Work, ReadGenesis
  <2>3. ~WalletsLate(pc, cur) => genbz' = genesis[Validator0(cur)]
    BY <1>5, <2>1, <2>2 DEF ReadGenesis
  <2>4. HasFaucet(cur)' = HasFaucet(cur)
    BY <1>3, <2>2 DEF HasFaucet
  <2> QED
    BY <1>0, <1>3, <1>9, <2>3, <2>4 DEF FileInv, HasFaucet
<1>10. CASE Stage = "write"
  <2>1. PICK n \in todo \cap Nodes : WriteGenesis(n)
    BY <1>10, ItemOfStage
  <2>2. PICK p \in 0 .. 2 : WriteGenesis(n)!(p)
    BY <2>1 DEF WriteGenesis
  <2>3. todo' = todo \ {n} /\ genbz' = genbz /\ n[1] = cur /\ n \in NodesOf(cur)
    BY <1>0, <1>1, <1>10, <2>1, <2>2, ItemNodes, NodeFacts DEF Item, GenesisNames
  <2>4. ASSUME ~err' PROVE genesis'[n] = genbz \cup (IF n[1] \in GmRollApps THEN {Consensus(n)} ELSE {})
    <3>1. p = IF cur \in GmRollApps THEN 2 ELSE 1
      BY <2>2, <2>4 DEF Item
    <3>2. genesis' = [genesis EXCEPT ![n] = genbz \cup (IF p = 2 THEN {Consensus(n)} ELSE {})]
      BY <2>2, <3>1
    <3> QED
      BY <1>0, <2>1, <2>3, <3>1, <3>2 DEF FilesTyped
  <2>5. \A m \in NodesOf(cur) : m # n => genesis'[m] = genesis[m]
    BY <1>0, <2>2 DEF FilesTyped
  <2>6. \A m : Written(m)' = (genesis'[m] = genbz \cup (IF m[1] \in GmRollApps THEN {Consensus(m)} ELSE {}))
    BY <2>3 DEF Written, Consensus, Entry
  <2>7. \A m \in NodesOf(cur) : m \in todo' \/ err' \/ Written(m)'
    <3> TAKE m \in NodesOf(cur)
    <3>1. CASE m = n
      BY <2>4, <2>6, <3>1
    <3>2. CASE m # n
      <4>1. m \in todo \/ err \/ Written(m)
        BY <1>10 DEF FileInv
      <4> QED
        BY <1>1, <2>3, <2>5, <2>6, <3>2, <4>1 DEF Written
    <3> QED
      BY <3>1, <3>2
  <2> QED
    BY <1>0, <1>3, <1>10, <2>3, <2>7 DEF FileInv
<1> QED
  BY <1>6, <1>7, <1>8, <1>9, <1>10 DEF GenesisNames

LEMMA FileStages ==
  ASSUME Base, FileInv, Advances, UNCHANGED <<args, genesis, genbz>>
  PROVE  FileInv'
<1>0. Ctl
  BY DEF Base, Typed
<1>1. cur # None /\ UNCHANGED <<cur, pc, left>> /\ ~err /\ todo = {} /\ todo' = Work(cur, Stage')
      /\ Stage = Before(pc, cur, Stage')
  BY DEF Advances
<1>2. cur \in Chains /\ NodesOf(cur) # {}
  BY <1>0, <1>1, StageFacts, NodeFacts
<1>3. /\ WalletsLate(pc, cur)' = WalletsLate(pc, cur) /\ NodesOf(cur)' = NodesOf(cur)
      /\ Faucet(cur)' = Faucet(cur) /\ HasFaucet(cur)' = HasFaucet(cur) /\ red' = red
  BY <1>1 DEF WalletsLate, NodesOf, Faucet, Entry, HasFaucet, Validator0, red
<1>4. Agreed(cur)' = Agreed(cur) /\ Ready(cur)' = Ready(cur)
  BY <1>1 DEF Ready, Agreed, HasFaucet, NodesOf, Faucet, Entry, Validator0, Own, Consensus
<1>5. Stage = "write" => Agreed(cur) /\ (Faucet(cur) \in genbz => Ready(cur))
  BY <1>1, <1>2, WrittenAgreed DEF FileInv
<1>6. Stage' = "write" => todo' = NodesOf(cur)
  BY <1>1 DEF Work
<1>7. Stage' \in {"wallets", "read"} => todo' # {}
  BY <1>1 DEF Work
<1>8. WalletsLate(pc, cur) =>
        /\ Stage' = "wallets" => Stage = "write"
        /\ Stage' = "sequencer" => Stage = "wallets"
        /\ cur \in DymRollApps /\ pc # "hubs"
  BY <1>1 DEF Before, WalletsLate
<1>9. ~WalletsLate(pc, cur) =>
        /\ Stage' = "gentxs" => Stage = "wallets"
        /\ Stage' = "read" => Stage = "gentxs"
        /\ Stage' = "write" => Stage = "read"
  BY <1>1 DEF Before
<1>10. /\ Stage' = "hubaccounts" => Stage = "write"
       /\ Stage' = "create" => Stage \in {"hubaccounts", "write"}
       /\ Stage' = "start" => Stage = "create"
       /\ Stage' \in {"register", "wait"} => Stage = "start"
  BY <1>1 DEF Before
<1>11. pc = "hubs" => ~WalletsLate(pc, cur)
  BY DEF WalletsLate
<1>12. Stage' = "write" => \A n \in NodesOf(cur) : n \in todo'
  BY <1>6
<1>13. WalletsLate(pc, cur) =>
         /\ Stage' = "wallets" => Agreed(cur)
         /\ Stage' = "sequencer" => Ready(cur)
  BY <1>1, <1>5, <1>8 DEF FileInv, Ready
<1>14. ~WalletsLate(pc, cur) =>
         /\ Stage' \in {"gentxs", "read"} => HasFaucet(cur)
         /\ Stage' = "write" => Faucet(cur) \in genbz
  BY <1>1, <1>9 DEF FileInv
<1>15. pc = "hubs" /\ Stage' \in {"hubaccounts", "create", "start", "register", "wait"} =>
         cur = red \/ Ready(cur)
  BY <1>5, <1>10, <1>11 DEF FileInv
<1> QED
  BY <1>1, <1>3, <1>4, <1>7, <1>12, <1>13, <1>14, <1>15 DEF FileInv

LEMMA NextFile ==
  ASSUME Base, FileInv, [Next]_vars
  PROVE  FileInv'
<1>0. Typed /\ Ctl /\ red' = red /\ args' = args
  BY SameArgs DEF Base, Typed
<1>1. CASE ItemNext
  <2>1. Works /\ Stage' = Stage /\ cur # None
    BY <1>0, <1>1, ItemSteps DEF Works
  <2>2. CASE Stage \in GenesisNames
    BY <1>1, <2>2, FileItems
  <2>3. CASE Stage \notin GenesisNames
    <3>1. cur \in Chains /\ cur' = cur /\ pc' = pc
      BY <1>0, <2>1, StageFacts DEF Works
    <3>2. Ready(cur) => Ready(cur)'
      BY <1>0, <2>3, <3>1, FilesStay, SameFiles
    <3> QED
      BY <1>0, <2>1, <2>3, <3>1, <3>2 DEF FileInv, GenesisNames, WalletsLate
  <2> QED
    BY <2>2, <2>3
<1>2. CASE FinishStage
  <2>1. UNCHANGED <<genesis, genbz>> /\ cur # None /\ (Advances \/ Completes \/ Fails)
    BY <1>0, <1>2, FinishSteps DEF chainVars, FinishStage
  <2>2. CASE Advances
    BY <1>0, <2>1, <2>2, FileStages
  <2>3. CASE Completes \/ Fails
    <3>1. Stage' = "none"
      BY <2>3 DEF Completes, Fails, Stage
    <3> QED
      BY <3>1 DEF FileInv
  <2> QED
    BY <2>1, <2>2, <2>3
<1>3. ASSUME NEW c \in Chains, Begin(c)
      PROVE  FileInv'
  <2>1. Begins(c)
    BY <1>0, <1>3, BeginSteps
  <2>2. cur' = c /\ pc' = pc /\ Stage' = FirstOf(pc, c)
    BY <2>1 DEF Begins
  <2> QED
    BY <1>0, <2>2 DEF FileInv, FirstOf
<1>4. CASE BuildNext
  <2>1. Stage' = "none"
    BY <1>0, <1>4, BuildMoves DEF Moves, Stage
  <2> QED
    BY <2>1 DEF FileInv
<1>5. CASE UNCHANGED vars
  <2>1. UNCHANGED <<pc, cur, todo, err, genesis, genbz>> /\ Stage' = Stage
    BY <1>5 DEF vars, workVars, chainVars, Stage
  <2> QED
    BY <1>0, <2>1
    DEF FileInv, WalletsLate, Written, Agreed, Ready, HasFaucet, NodesOf, Faucet, Entry, Validator0,
        Own, Consensus
<1> QED
  BY <1>1, <1>2, <1>3, <1>4, <1>5, NextKinds

\* Once Configuration is through with a rollapp, it is ready.
ConfInv == pc = "configure" => \A r \in RollApps : r \in left \/ Ready(r)

LEMMA NextConf ==
  ASSUME Base, FileInv, ConfInv, [Next]_vars
  PROVE  ConfInv'
<1>0. Typed /\ Ctl
  BY DEF Base, Typed
<1>1. CASE ItemNext
  <2>1. pc' = pc /\ left' = left /\ cur # None
    BY <1>0, <1>1, ItemSteps DEF Works
  <2>2. cur \in left /\ (pc = "configure" => Stage # "hubaccounts")
    BY <1>0, <2>1, StageFacts, StagePhases
  <2>3. pc = "configure" => \A r \in RollApps : r = cur \/ (Ready(r) => Ready(r)')
    BY <1>0, <2>2, FilesStay, SameFiles, ChainFacts
  <2> QED
    BY <2>1, <2>2, <2>3 DEF ConfInv
<1>2. CASE ~ItemNext
  <2>0. \A r \in RollApps : Ready(r) => Ready(r)'
    BY <1>0, <1>2, FilesStay, SameFiles, ChainFacts
  <2>1. CASE FinishStage
    <3>1. cur # None /\ (Advances \/ Completes \/ Fails)
      BY <1>0, <2>1, FinishSteps DEF FinishStage
    <3>2. CASE Advances \/ Fails
      BY <2>0, <3>2 DEF Advances, Fails, ConfInv
    <3>3. CASE Completes
      <4>1. pc' = pc /\ left' = (IF cur = red THEN {} ELSE left \ {cur})
            /\ ~err /\ todo = {} /\ Stage = LastOf(pc, cur)
        BY <3>3 DEF Completes
      <4>2. pc = "configure" => cur # red /\ cur \in RollApps /\ cur \in Chains
        BY <1>0, <3>1, StagePhases, RedFacts, ChainFacts DEF Ctl
      <4>3. pc = "configure" /\ cur \in DymRollApps => Ready(cur)
        BY <4>1 DEF FileInv, LastOf, WalletsLate
      <4>4. pc = "configure" /\ cur \notin DymRollApps => Ready(cur)
        BY <4>1, <4>2, WrittenAgreed DEF FileInv, LastOf, WalletsLate
      <4> QED
        BY <2>0, <4>1, <4>2, <4>3, <4>4 DEF ConfInv
    <3> QED
      BY <3>1, <3>2, <3>3
  <2>2. CASE \E c \in Chains : Begin(c)
    BY <1>0, <2>0, <2>2, BeginSteps DEF Begins, ConfInv
  <2>3. CASE BuildNext
    BY <1>0, <2>3, BuildMoves DEF Moves, ConfInv
  <2>4. CASE UNCHANGED vars
    BY <2>0, <2>4 DEF vars, ConfInv
  <2> QED
    BY <1>2, <2>1, <2>2, <2>3, <2>4, NextKinds
<1> QED
  BY <1>1, <1>2

-----------------------------------------------------------------------------
(* Hubs and their rollapps.                                                 *)

\* What a hub that is through has done for its rollapps.
Registered(h) == h \in DymHubs => \A r \in RollAppsOf(h) : <<h, r>> \in registry
HasAccount(h, r) ==
  r \in DymRollApps =>
    \A n \in NodesOf(r) : HubAccount(h) \in genesis[n] /\ genesis[n] = genesis[Validator0(r)]
Accounts(h) == h \in DymHubs => \A r \in RollAppsOf(h) : HasAccount(h, r)
HubDone(h) == Running(h) /\ Registered(h) /\ (h = red \/ (Accounts(h) /\ Ready(h)))

\* A hub that the existing one ended the loop before.
LeftOut(h) == red # None /\ red # h /\ Untouched(h)

\* A hub failed half way through a rollapp's files.
Broken == Stage = "hubaccounts" /\ err

HubsInv ==
  pc = "hubs" /\ ~Broken =>
    /\ \A h \in Hubs \ left : HubDone(h) \/ (LeftOut(h) /\ red \notin left)
    /\ \A r \in RollApps : Ready(r)
    /\ Stage = "hubaccounts" => \A r \in RollAppsOf(cur) : r \in todo \/ HasAccount(cur, r)
    /\ Stage \in {"create", "start", "register"} => cur = red \/ Accounts(cur)
    /\ Stage = "register" => \A r \in RollAppsOf(cur) : r \in todo \/ err \/ <<cur, r>> \in registry

\* A rollapp whose files stay keeps a hub's account.
LEMMA SameAccount ==
  ASSUME NEW h, NEW r \in RollApps, \A n \in NodesOf(r) : genesis'[n] = genesis[n]
  PROVE  HasAccount(h, r) => HasAccount(h, r)'
<1>1. NodesOf(r)' = NodesOf(r) /\ HubAccount(h)' = HubAccount(h) /\ Validator0(r)' = Validator0(r)
  BY DEF NodesOf, HubAccount, Entry, Validator0
<1>2. Validator0(r) \in NodesOf(r)
  BY NodeFacts, ChainFacts
<1> QED
  BY <1>1, <1>2 DEF HasAccount

\* A hub that is through stays so while it runs, its files stay and its
\* rollapps keep its account.
LEMMA DoneStays ==
  ASSUME NEW h \in Hubs, HubDone(h), red' = red, registry \subseteq registry',
         \A n \in NodesOf(h) : box'[n] = box[n] /\ genesis'[n] = genesis[n],
         \A r \in RollApps : HasAccount(h, r) => HasAccount(h, r)'
  PROVE  HubDone(h)'
<1>1. Running(h)'
  BY DEF HubDone, Running, NodesOf
<1>2. Registered(h)'
  BY DEF HubDone, Registered, RollAppsOf
<1>3. Accounts(h) => Accounts(h)'
  BY DEF Accounts, RollAppsOf
<1>4. Ready(h) => Ready(h)'
  BY SameFiles, ChainFacts
<1> QED
  BY <1>1, <1>2, <1>3, <1>4 DEF HubDone

\* A hub puts its account into a rollapp's files: all of them are the same then.
LEMMA AccountStep ==
  ASSUME Base, NEW r \in todo \cap RollApps, SetGenesisAccount(r), ~err', Ready(r)
  PROVE  /\ \A c \in Chains : c # r => \A n \in NodesOf(c) : genesis'[n] = genesis[n]
         /\ Ready(r)' /\ HasAccount(cur, r)' /\ todo' = todo \ {r}
         /\ \A h \in Hubs : HasAccount(h, r) => HasAccount(h, r)'
<1>0. genesis \in [Nodes -> SUBSET Entries] /\ r \in Chains
  BY ChainFacts DEF Base, Typed, FilesTyped
<1>1. PICK k \in 0 .. Cardinality(NodesOf(r)) : SetGenesisAccount(r)!(k)
  BY DEF SetGenesisAccount
<1>2. todo' = todo \ {r} /\ cur' = cur /\ (r \in GmRollApps \/ NodesOf(r) = {r} \X (1 .. k))
  BY <1>1 DEF Item
<1>3. \A h : HubAccount(h)' = HubAccount(h) /\ Faucet(r)' = Faucet(r) /\ NodesOf(r)' = NodesOf(r)
             /\ Validator0(r)' = Validator0(r)
  BY DEF HubAccount, Faucet, Entry, NodesOf, Validator0
<1>4. CASE r \in GmRollApps
  <2>1. genesis' = genesis /\ r \notin DymRollApps
    BY <1>1, <1>4, ChainFacts
  <2>2. Ready(r)'
    BY <1>0, <2>1, SameFiles
  <2> QED
    BY <1>2, <2>1, <2>2 DEF HasAccount
<1>5. CASE r \notin GmRollApps
  <2>1. r \in DymRollApps /\ NodesOf(r) = {r} \X (1 .. k)
    BY <1>2, <1>5, ChainFacts
  <2>2. genesis' = [n \in Nodes |-> IF n \in NodesOf(r)
                                    THEN genesis[Validator0(r)] \cup {HubAccount(cur)}
                                    ELSE genesis[n]]
    BY <1>1, <2>1
  <2>3. \A n \in NodesOf(r) : n \in Nodes /\ genesis'[n] = genesis[Validator0(r)] \cup {HubAccount(cur)}
    BY <1>0, <2>2, NodeFacts
  <2>4. Validator0(r) \in NodesOf(r)
    BY <1>0, NodeFacts
  <2>5. \A c \in Chains : c # r => \A n \in NodesOf(c) : genesis'[n] = genesis[n]
    BY <2>2, NodeFacts
  <2>6. HasAccount(cur, r)'
    BY <1>2, <1>3, <2>3, <2>4 DEF HasAccount
  <2>7. \A h \in Hubs : HasAccount(h, r) => HasAccount(h, r)'
    BY <1>3, <2>1, <2>3, <2>4 DEF HasAccount
  <2>8. Agreed(r)'
    BY <1>3, <2>3 DEF Agreed
  <2>9. HasFaucet(r)'
    BY <1>3, <2>3, <2>4 DEF Ready, HasFaucet
  <2> QED
    BY <1>2, <2>1, <2>5, <2>6, <2>7, <2>8, <2>9 DEF Ready
<1> QED
  BY <1>4, <1>5

\* A step of a hub under work keeps what the others have.
LEMMA HubItems ==
  ASSUME Base, HubsInv, ItemNext, pc = "hubs", ~Broken'
  PROVE  HubsInv'
<1>0. Typed /\ Ctl /\ FilesTyped /\ Works /\ Stage' = Stage /\ [Next]_vars
  BY ItemSteps DEF Base, Typed, ItemNext, Next
<1>1. cur # None /\ pc' = pc /\ cur' = cur /\ left' = left /\ red' = red /\ todo' \subseteq todo
      /\ (err => err') /\ ~Broken
  BY <1>0 DEF Works, Broken, red
<1>2. cur \in left /\ left \subseteq Hubs /\ cur \in Hubs /\ cur \in Chains
      /\ registry \subseteq registry'
  BY <1>0, <1>1, StageFacts, StagePhases, ChainFacts, RecordsGrow DEF Ctl, Loops, Loop
<1>3. /\ \A h \in Hubs \ left : HubDone(h) \/ (LeftOut(h) /\ red \notin left)
      /\ \A r \in RollApps : Ready(r)
      /\ Stage = "hubaccounts" => \A r \in RollAppsOf(cur) : r \in todo \/ HasAccount(cur, r)
      /\ Stage \in {"create", "start", "register"} => cur = red \/ Accounts(cur)
      /\ Stage = "register" => \A r \in RollAppsOf(cur) : r \in todo \/ err \/ <<cur, r>> \in registry
  BY <1>1 DEF HubsInv
<1>4. \A h \in Hubs \ left : \A n \in NodesOf(h) : box'[n] = box[n] /\ genesis'[n] = genesis[n]
  <2> TAKE h \in Hubs \ left
  <2>1. h # cur /\ h \in Chains /\ h \notin DymRollApps
    BY <1>2, ChainFacts
  <2> QED
    BY <1>0, <2>1, OthersStay, FilesStay
<1>5. /\ \A r \in RollApps : Ready(r)'
      /\ \A h \in Hubs, r \in RollApps : HasAccount(h, r) => HasAccount(h, r)'
      /\ Stage = "hubaccounts" => \A r \in RollAppsOf(cur) : r \in todo' \/ HasAccount(cur, r)'
  <2>1. CASE Stage = "hubaccounts"
    <3>1. PICK q \in todo \cap RollApps : SetGenesisAccount(q)
      BY <2>1, ItemOfStage
    <3>2. ~err'
      BY <1>0, <2>1 DEF Broken
    <3>3. /\ \A c \in Chains : c # q => \A n \in NodesOf(c) : genesis'[n] = genesis[n]
          /\ Ready(q)' /\ HasAccount(cur, q)' /\ todo' = todo \ {q}
          /\ \A h \in Hubs : HasAccount(h, q) => HasAccount(h, q)'
      BY <1>3, <3>1, <3>2, AccountStep
    <3>4. \A r \in RollApps : r # q => Ready(r)' /\ \A h : HasAccount(h, r) => HasAccount(h, r)'
      BY <1>3, <3>3, SameFiles, SameAccount, ChainFacts
    <3>5. \A r \in RollAppsOf(cur) : r \in RollApps
      BY DEF RollAppsOf
    <3>6. \A r \in RollAppsOf(cur) : r \in todo' \/ HasAccount(cur, r)'
      <4> TAKE r \in RollAppsOf(cur)
      <4>1. CASE r = q
        BY <3>3, <4>1
      <4>2. CASE r # q
        <5>1. r \in todo \/ HasAccount(cur, r)
          BY <1>3, <2>1
        <5>2. HasAccount(cur, r) => HasAccount(cur, r)'
          BY <1>1, <3>4, <3>5, <4>2 DEF HasAccount
        <5> QED
          BY <3>3, <4>2, <5>1, <5>2
      <4> QED
        BY <4>1, <4>2
    <3> QED
      BY <3>3, <3>4, <3>6
  <2>2. CASE Stage # "hubaccounts"
    <3>1. \A r \in RollApps : \A n \in NodesOf(r) : genesis'[n] = genesis[n]
      BY <1>0, <1>2, <2>2, FilesStay, ChainFacts
    <3> QED
      BY <1>3, <2>2, <3>1, SameFiles, SameAccount, ChainFacts
  <2> QED
    BY <2>1, <2>2
<1>6. \A h \in Hubs \ left : HubDone(h)' \/ (LeftOut(h)' /\ red \notin left)
  <2> TAKE h \in Hubs \ left
  <2>1. HubDone(h) => HubDone(h)'
    BY <1>1, <1>2, <1>4, <1>5, DoneStays
  <2>2. LeftOut(h) => LeftOut(h)'
    BY <1>1, <1>4 DEF LeftOut, Untouched, NodesOf
  <2> QED
    BY <1>3, <2>1, <2>2
<1>7. Stage \in {"create", "start", "register"} => cur = red \/ Accounts(cur)'
  <2>1. Accounts(cur) => Accounts(cur)'
    BY <1>1, <1>2, <1>5 DEF Accounts, RollAppsOf, HasAccount
  <2> QED
    BY <1>3, <2>1
<1>8. Stage = "register" =>
        \A r \in RollAppsOf(cur) : r \in todo' \/ err' \/ <<cur, r>> \in registry'
  <2> SUFFICES ASSUME Stage = "register", NEW r \in RollAppsOf(cur), r \notin todo', ~err'
               PROVE  <<cur, r>> \in registry'
    OBVIOUS
  <2>1. PICK q \in todo \cap RollApps : RegisterRollApp(q)
    BY ItemOfStage
  <2>2. PICK p \in 0 .. 4 : RegisterRollApp(q)!(p)
    BY <2>1 DEF RegisterRollApp
  <2>3. todo' = todo \ {q} /\ p = 4
    BY <2>2 DEF Item
  <2>4. CASE r = q
    BY <2>2, <2>3, <2>4
  <2>5. CASE r # q
    BY <1>1, <1>2, <1>3, <2>3, <2>5
  <2> QED
    BY <2>4, <2>5
<1>9. RollAppsOf(cur)' = RollAppsOf(cur)
  BY <1>1 DEF RollAppsOf
<1> QED
  BY <1>0, <1>1, <1>5, <1>6, <1>7, <1>8, <1>9 DEF HubsInv

LEMMA NextHubs ==
  ASSUME Base, FileInv, ConfInv, HubsInv, [Next]_vars
  PROVE  HubsInv'
<1>0. Typed /\ Ctl /\ red' = red /\ args' = args /\ WaitInv /\ ExistInv /\ UpInv
  BY SameArgs DEF Base, Typed, BoxInv
<1> SUFFICES ASSUME pc' = "hubs", ~Broken' PROVE HubsInv'
  BY DEF HubsInv
<1>1. CASE ItemNext
  BY <1>0, <1>1, HubItems, ItemSteps DEF Works
<1>2. CASE ~ItemNext
  <2>0. UNCHANGED <<genesis, box, registry>>
    BY <1>0, <1>2, OnlyItems
  <2>1. \A c : /\ Ready(c)' = Ready(c) /\ LeftOut(c)' = LeftOut(c) /\ Accounts(c)' = Accounts(c)
               /\ RollAppsOf(c)' = RollAppsOf(c) /\ Registered(c)' = Registered(c) /\ Running(c)' = Running(c)
    BY <1>0, <2>0
    DEF Ready, Agreed, HasFaucet, Own, Consensus, Faucet, HubAccount, Entry, NodesOf, Validator0,
        LeftOut, Untouched, Accounts, HasAccount, RollAppsOf, Registered, Running
  <2>2. \A c : HubDone(c)' = HubDone(c)
    BY <1>0, <2>1 DEF HubDone
  <2>3. CASE FinishStage
    <3>1. pc = "hubs" /\ cur # None /\ (Advances \/ Completes) /\ ~Broken
      BY <1>0, <2>3, FinishSteps DEF Advances, Completes, Fails, Broken
    <3>2. cur \in left /\ left \subseteq Hubs /\ cur \in Hubs /\ cur \in Chains
      BY <1>0, <3>1, StageFacts, StagePhases, ChainFacts DEF Ctl, Loops, Loop
    <3>3. CASE Advances
      <4>1. UNCHANGED <<cur, pc, left>> /\ ~err /\ todo = {} /\ todo' = Work(cur, Stage')
            /\ Stage = Before(pc, cur, Stage')
        BY <3>3 DEF Advances
      <4>2. Stage' \in {"hubaccounts", "register"} => todo' = RollAppsOf(cur)
        BY <4>1 DEF Work
      <4>3. Stage' = "create" /\ cur \in DymHubs => Stage = "hubaccounts"
        BY <4>1 DEF Before
      <4>4. Stage' = "start" => Stage = "create"
        BY <4>1 DEF Before
      <4>5. Stage' = "register" => Stage = "start"
        BY <4>1 DEF Before
      <4>6. Stage' \in {"create", "start", "register"} => cur = red \/ Accounts(cur)
        BY <3>1, <4>1, <4>3, <4>4, <4>5 DEF HubsInv, Accounts
      <4>7. Accounts(cur)' = Accounts(cur) /\ RollAppsOf(cur)' = RollAppsOf(cur)
        BY <2>1, <4>1 DEF Accounts, RollAppsOf, HasAccount
      <4>8. (\A h \in Hubs \ left : HubDone(h) \/ (LeftOut(h) /\ red \notin left))
            /\ \A r \in RollApps : Ready(r)
        BY <3>1 DEF HubsInv
      <4> QED
        BY <1>0, <2>1, <2>2, <4>1, <4>2, <4>6, <4>7, <4>8 DEF HubsInv
    <3>4. CASE Completes
      <4>1. Stage' = "none" /\ left' = (IF cur = red THEN {} ELSE left \ {cur})
            /\ ~err /\ todo = {} /\ Stage = LastOf(pc, cur)
        BY <3>4 DEF Completes, Stage
      <4>2. HubDone(cur)
        <5>1. CASE cur = red
          <6>1. Running(cur)
            BY <1>0, <3>2, <5>1, NodeFacts DEF ExistInv, Running
          <6>2. Registered(cur)
            BY <3>1, <4>1 DEF HubsInv, Registered, LastOf
          <6> QED
            BY <5>1, <6>1, <6>2 DEF HubDone
        <5>2. CASE cur # red
          <6>1. Stage = IF cur \in DymHubs THEN "register" ELSE "wait"
            BY <3>1, <4>1, <5>2 DEF LastOf
          <6>2. Running(cur) /\ Ready(cur)
            BY <1>0, <3>1, <5>2, <6>1 DEF UpInv, FileInv
          <6>3. Registered(cur) /\ Accounts(cur)
            BY <3>1, <4>1, <5>2, <6>1 DEF HubsInv, Registered, Accounts
          <6> QED
            BY <6>2, <6>3 DEF HubDone
        <5> QED
          BY <5>1, <5>2
      <4>3. \A r \in RollApps : Ready(r)
        BY <3>1 DEF HubsInv
      <4>4. \A h \in Hubs \ left' : HubDone(h) \/ (LeftOut(h) /\ red \notin left')
        <5> TAKE h \in Hubs \ left'
        <5>1. CASE h = cur
          BY <4>2, <5>1
        <5>2. CASE h \notin left
          <6>1. HubDone(h) \/ (LeftOut(h) /\ red \notin left)
            BY <3>1, <5>2 DEF HubsInv
          <6> QED
            BY <4>1, <6>1
        <5>3. CASE h \in left /\ h # cur
          <6>1. cur = red /\ left' = {}
            BY <4>1, <5>3
          <6>2. Untouched(h)
            BY <1>0, <3>1, <5>3, <6>1 DEF WaitInv
          <6> QED
            BY <3>1, <5>3, <6>1, <6>2 DEF LeftOut
        <5> QED
          BY <5>1, <5>2, <5>3
      <4> QED
        BY <1>0, <2>1, <2>2, <4>1, <4>3, <4>4 DEF HubsInv
    <3> QED
      BY <3>1, <3>3, <3>4
  <2>4. ASSUME NEW c \in Chains, Begin(c)
        PROVE  HubsInv'
    <3>1. pc = "hubs" /\ cur = None /\ cur' = c /\ left' = left
          /\ Stage' = FirstOf(pc, c) /\ todo' = Work(c, Stage')
      BY <1>0, <2>4, BeginSteps DEF Begins
    <3>2. Stage' \in {"init", "register", "unimplemented"} /\ (Stage' = "register" => c = red)
      BY <3>1 DEF FirstOf
    <3>3. Stage' = "register" => todo' = RollAppsOf(c)
      BY <3>1 DEF Work
    <3>4. (\A h \in Hubs \ left : HubDone(h) \/ (LeftOut(h) /\ red \notin left))
          /\ \A r \in RollApps : Ready(r)
      BY <3>1 DEF HubsInv, Broken, Stage
    <3>5. RollAppsOf(cur)' = RollAppsOf(c)
      BY <3>1 DEF RollAppsOf
    <3> QED
      BY <1>0, <2>1, <2>2, <3>1, <3>2, <3>3, <3>4, <3>5 DEF HubsInv
  <2>5. CASE BuildNext
    <3>1. cur' = None /\ pc = "configure" /\ left = {} /\ left' = Hubs
      BY <1>0, <2>5, BuildMoves DEF Moves
    <3>2. Stage' = "none"
      BY <3>1 DEF Stage
    <3> QED
      BY <2>1, <3>1, <3>2 DEF HubsInv, ConfInv
  <2>6. CASE UNCHANGED vars
    <3>1. UNCHANGED <<pc, cur, left, todo, err, genesis, registry>> /\ Stage' = Stage
      BY <2>6 DEF vars, workVars, chainVars, Stage
    <3>2. Broken' = Broken
      BY <3>1 DEF Broken
    <3>3. \A r : HasAccount(cur, r)' = HasAccount(cur, r)
      BY <3>1 DEF HasAccount, HubAccount, Entry, NodesOf, Validator0
    <3>4. Accounts(cur)' = Accounts(cur) /\ RollAppsOf(cur)' = RollAppsOf(cur)
      BY <3>1, <3>3 DEF Accounts, RollAppsOf
    <3> QED
      BY <1>0, <2>1, <2>2, <3>1, <3>2, <3>3, <3>4 DEF HubsInv
  <2> QED
    BY <1>2, <2>3, <2>4, <2>5, <2>6, NextKinds
<1> QED
  BY <1>1, <1>2

\* The hubs have done what the rollapps rely on.
Settled ==
  /\ \A h \in Hubs : HubDone(h) \/ LeftOut(h)
  /\ \A r \in RollApps : Ready(r)

Started(c) == \E n \in NodesOf(c) : box[n] = "running"

SettledInv ==
  /\ pc = "rollapps" \/ (\E r \in RollApps : Started(r)) => Settled
  /\ pc \in {"track", "keys"} /\ ~args.failExpected => Settled

LEMMA SettledStays ==
  ASSUME Base, Settled, [Next]_vars, pc = "rollapps" \/ ~ItemNext
  PROVE  Settled'
<1>0. Typed /\ Ctl /\ red' = red /\ registry \subseteq registry'
  BY SameArgs, RecordsGrow DEF Base, Typed
<1>1. ItemNext => cur \in RollApps /\ Stage \notin GenesisNames /\ Stage # "hubaccounts"
  BY <1>0, ItemSteps, StagePhases DEF Works, GenesisNames
<1>2. \A c \in Chains : \A n \in NodesOf(c) : genesis'[n] = genesis[n]
  BY <1>0, <1>1, FilesStay
<1>3. \A h \in Hubs : \A n \in NodesOf(h) : box'[n] = box[n]
  BY <1>0, <1>1, OthersStay, ChainFacts
<1>4. \A r \in RollApps : Ready(r) => Ready(r)'
  BY <1>2, SameFiles, ChainFacts
<1>5. \A h \in Hubs, r \in RollApps : HasAccount(h, r) => HasAccount(h, r)'
  BY <1>2, SameAccount, ChainFacts
<1>6. \A h \in Hubs : HubDone(h) => HubDone(h)'
  BY <1>0, <1>2, <1>3, <1>5, DoneStays, ChainFacts
<1>7. \A h \in Hubs : LeftOut(h) => LeftOut(h)'
  BY <1>0, <1>3 DEF LeftOut, Untouched, NodesOf
<1> QED
  BY <1>4, <1>6, <1>7 DEF Settled

LEMMA NextSettled ==
  ASSUME Base, HubsInv, SettledInv, [Next]_vars
  PROVE  SettledInv'
<1>0. Typed /\ Ctl /\ args' = args /\ WaitInv /\ WalletInv /\ red \notin RollApps
  BY SameArgs, RedFacts DEF Base, Typed, BoxInv, Ctl
<1>1. \A r \in RollApps : r \in Chains /\ NodesOf(r) \subseteq Nodes
                          /\ (\A n \in NodesOf(r) : n[1] = r) /\ Started(r)' = \E n \in NodesOf(r) : box'[n] = "running"
  BY NodeFacts, ChainFacts DEF Started, NodesOf
<1>2. pc \in {"configure", "hubs"} => \A r \in RollApps : ~Started(r)
  BY <1>0, <1>1 DEF WaitInv, WalletInv, Untouched, Started
<1>3. CASE ItemNext
  <2>1. pc' = pc /\ pc \in Loops
    BY <1>0, <1>3, ItemSteps, StageFacts DEF Works
  <2>2. CASE pc = "rollapps"
    BY <1>0, <2>1, <2>2, SettledStays DEF SettledInv
  <2>3. CASE pc # "rollapps"
    <3>1. \A r \in RollApps : \A n \in NodesOf(r) : box'[n] = box[n]
      <4> TAKE r \in RollApps
      <4>1. r # cur \/ Stage \notin {"create", "start"}
        BY <1>0, <1>3, <2>3, ItemSteps, StagePhases, ChainFacts DEF Works
      <4> QED
        BY <1>0, <1>1, <4>1, OthersStay
    <3> QED
      BY <1>1, <1>2, <2>1, <2>3, <3>1 DEF SettledInv, Loops, Started
  <2> QED
    BY <2>2, <2>3
<1>4. CASE ~ItemNext
  <2>0. Settled => Settled'
    BY <1>4, SettledStays
  <2>1. box' = box
    BY <1>0, <1>4, OnlyItems
  <2>2. \A r \in RollApps : Started(r)' = Started(r)
    BY <2>1 DEF Started, NodesOf
  <2>3. pc' = "rollapps" => Settled
    <3>1. pc' = "rollapps" => \/ pc = "rollapps"
                              \/ pc = "hubs" /\ left = {} /\ cur = None
      BY <1>0, <1>4, NextKinds, FinishSteps, BeginSteps, BuildMoves
      DEF Advances, Completes, Fails, Begins, Moves, vars
    <3>2. pc = "hubs" /\ left = {} /\ cur = None => Settled
      BY DEF HubsInv, Broken, Stage, Settled
    <3> QED
      BY <3>1, <3>2 DEF SettledInv
  <2>4. pc' \in {"track", "keys"} /\ ~args.failExpected => pc \in {"rollapps", "track", "keys"}
    BY <1>0, <1>4, NextKinds, FinishSteps, BeginSteps, BuildMoves
    DEF Advances, Completes, Fails, Begins, Moves, vars, Loops
  <2> QED
    BY <1>0, <2>0, <2>2, <2>3, <2>4 DEF SettledInv
<1> QED
  BY <1>3, <1>4

\* The nodes of a chain one of whose nodes runs started from one genesis.
AgreedInv == \A c \in Chains : Started(c) => Agreed(c)

LEMMA StartedFrozen ==
  ASSUME Base, [Next]_vars, NEW c \in Chains, Started(c)
  PROVE  \A n \in NodesOf(c) : genesis'[n] = genesis[n]
<1> SUFFICES ASSUME NEW n \in NodesOf(c), GenesisMay(n)
             PROVE  FALSE
  BY GenesisEffect, NodeFacts DEF Base, Typed
<1>1. Ctl /\ ExistInv /\ WalletInv /\ WaitInv /\ cur # None
  BY DEF Base, Typed, BoxInv, GenesisMay
<1>2. PICK m \in NodesOf(c) : box[m] = "running"
  BY DEF Started
<1>3. n[1] = c /\ m[1] = c /\ m \in Nodes
  BY <1>2, NodeFacts
<1>4. CASE n \in NodesOf(cur) /\ Stage \in GenesisNames
  <2>1. c = cur /\ pc \in {"configure", "hubs"}
    BY <1>1, <1>3, <1>4, NodeFacts, StagePhases
  <2>2. pc = "configure" => cur # red
    BY <1>1, StagePhases, RedFacts DEF Ctl
  <2>3. pc = "hubs" => Untouched(cur)
    BY <1>1, <1>4 DEF WaitInv, Early, GenesisNames
  <2> QED
    BY <1>1, <1>2, <1>3, <2>1, <2>2, <2>3 DEF WalletInv, Untouched
<1>5. ASSUME Stage = "hubaccounts", NEW r \in RollAppsOf(cur), n \in NodesOf(r)
      PROVE  FALSE
  <2>1. pc = "hubs" /\ r \in RollApps /\ r = c
    BY <1>1, <1>3, <1>5, StagePhases, NodeFacts DEF RollAppsOf
  <2> QED
    BY <1>1, <1>2, <2>1 DEF WaitInv, Untouched
<1> QED
  BY <1>4, <1>5 DEF GenesisMay

LEMMA NextAgreed ==
  ASSUME Base, FileInv, SettledInv, AgreedInv, [Next]_vars
  PROVE  AgreedInv'
<1>0. Typed /\ Ctl
  BY DEF Base, Typed
<1> SUFFICES ASSUME NEW c \in Chains, Started(c)' PROVE Agreed(c)'
  BY DEF AgreedInv
<1>1. CASE Started(c)
  BY <1>1, StartedFrozen, SameFiles DEF AgreedInv
<1>2. CASE ~Started(c)
  <2>1. PICK n \in NodesOf(c) : box'[n] = "running" /\ box'[n] # box[n]
    BY <1>2 DEF Started, NodesOf
  <2>2. BoxMay(n) /\ n[1] = c
    BY <1>0, <2>1, BoxEffect, NodeFacts DEF Typed
  <2>3. c = cur /\ cur # red /\ cur # None /\ ItemNext /\ Stage = "start"
    BY <2>1, <2>2, NodeFacts DEF BoxMay
  <2>4. Agreed(c)
    <3>1. pc = "hubs" \/ (pc = "rollapps" /\ cur \in RollApps)
      BY <1>0, <2>3, StagePhases
    <3> QED
      BY <2>3, <3>1 DEF FileInv, SettledInv, Settled, Ready
  <2>5. \A m \in NodesOf(c) : genesis'[m] = genesis[m]
    BY <1>0, <2>3, FilesStay DEF GenesisNames
  <2> QED
    BY <2>4, <2>5, SameFiles
<1> QED
  BY <1>1, <1>2

Layers == Base /\ KeyInv /\ SeqInv /\ FileInv /\ ConfInv /\ HubsInv /\ SettledInv /\ AgreedInv

LEMMA LayersInvariance == (Init => Layers) /\ (Layers /\ [Next]_vars => Layers')
<1>1. ASSUME Init PROVE Layers
  <2>1. pc = "initialize" /\ cur = None /\ Base /\ ExistInv /\ Ctl
    BY <1>1, BaseInvariance DEF Init, Base, BoxInv, Typed
  <2>2. Stage = "none"
    BY <2>1 DEF Stage
  <2>3. \A c \in Chains : Started(c) => c = red
    BY <1>1, NodeFacts DEF Init, Started, IsExisting, red
  <2>4. SettledInv
    BY <2>1, <2>3, RedFacts, ChainFacts DEF SettledInv, Ctl
  <2>5. AgreedInv
    BY <2>1, <2>3, NodeFacts DEF AgreedInv, Agreed, ExistInv
  <2> QED
    BY <2>1, <2>2, <2>4, <2>5, ChainFacts
    DEF Layers, KeyInv, SeqInv, FileInv, ConfInv, HubsInv, Loops
<1>2. ASSUME Layers, [Next]_vars PROVE Layers'
  BY <1>2, BaseInvariance, NextKey, NextSeq, NextFile, NextConf, NextHubs, NextSettled, NextAgreed DEF Layers
<1> QED
  BY <1>1, <1>2

\* What holds of a hub that runs when a rollapp does.
LEMMA RunningHubDone ==
  ASSUME Settled, NEW h \in Hubs, Running(h)
  PROVE  HubDone(h)
<1>1. ~Untouched(h)
  BY NodeFacts, ChainFacts DEF Running, Untouched
<1> QED
  BY <1>1 DEF Settled, LeftOut

\* The nodes of a chain that run were all started from one genesis file, but for
\* the faucet of a DymRollApp no started hub copied the file of, and for the one
\* validator each node of a GmRollApp names.
THEOREM OneGenesis == Spec => []GenesisAgreement
<1>1. ASSUME Layers PROVE GenesisAgreement
  <2> SUFFICES ASSUME NEW c \in Chains, NEW n \in NodesOf(c), NEW m \in NodesOf(c),
                      box[n] = "running", box[m] = "running",
                      NEW e \in genesis[n] \ genesis[m]
               PROVE  \/ c \in DymRollApps /\ ~CopiedByHub(c) /\ e = Faucet(c)
                      \/ c \in GmRollApps /\ e = Consensus(n)
    BY DEF GenesisAgreement
  <2>1. Started(c)
    BY DEF Started
  <2>2. e \in Own(c, n)
    BY <1>1, <2>1 DEF Layers, AgreedInv, Agreed
  <2>3. CASE c \in GmRollApps
    BY <2>2, <2>3, ChainFacts DEF Own
  <2>4. CASE c \in DymRollApps
    <3>1. e = Faucet(c)
      BY <2>2, <2>4, ChainFacts DEF Own
    <3>2. Settled
      BY <1>1, <2>1, <2>4, ChainFacts DEF Layers, SettledInv
    <3>3. ASSUME CopiedByHub(c) PROVE FALSE
      <4>1. PICK h \in DymHubs : h # red /\ c \in RollAppsOf(h) /\ Running(h)
        BY <3>3 DEF CopiedByHub, red
      <4>2. HasAccount(h, c)
        BY <3>2, <4>1, RunningHubDone, ChainFacts DEF HubDone, Accounts
      <4> QED
        BY <2>4, <4>2 DEF HasAccount
    <3> QED
      BY <2>4, <3>1, <3>3
  <2>5. CASE c \notin GmRollApps /\ c \notin DymRollApps
    BY <2>2, <2>5 DEF Own
  <2> QED
    BY <2>3, <2>4, <2>5
<1> QED
  BY <1>1, LayersInvariance, PTL DEF Spec

\* A rollapp only runs after the hubs, but for those an existing hub left out;
\* it is registered on each of its hubs that is a DymHub and runs, and has that
\* hub's account in its nodes' genesis.
THEOREM KnownToHub == Spec => []RollAppKnownToHub
<1>1. ASSUME Layers PROVE RollAppKnownToHub
  <2> SUFFICES ASSUME NEW r \in RollApps, NEW n \in NodesOf(r), box[n] = "running", NEW h \in Hubs
               PROVE  /\ Running(h) \/ args.redundant \notin {None, h}
                      /\ h \in DymHubs /\ r \in RollAppsOf(h) /\ Running(h) =>
                           /\ <<h, r>> \in registry
                           /\ r \in DymRollApps /\ h # args.redundant => HubAccount(h) \in genesis[n]
    BY DEF RollAppKnownToHub
  <2>1. Settled
    BY <1>1 DEF Layers, SettledInv, Started
  <2>2. Running(h) \/ args.redundant \notin {None, h}
    BY <2>1 DEF Settled, HubDone, LeftOut, red
  <2>3. ASSUME h \in DymHubs, r \in RollAppsOf(h), Running(h)
        PROVE  /\ <<h, r>> \in registry
               /\ r \in DymRollApps /\ h # args.redundant => HubAccount(h) \in genesis[n]
    <3>1. HubDone(h)
      BY <2>1, <2>3, RunningHubDone
    <3>2. <<h, r>> \in registry
      BY <2>3, <3>1 DEF HubDone, Registered
    <3>3. h # red => HasAccount(h, r)
      BY <2>3, <3>1 DEF HubDone, Accounts
    <3> QED
      BY <3>2, <3>3 DEF HasAccount, red
  <2> QED
    BY <2>2, <2>3
<1> QED
  BY <1>1, LayersInvariance, PTL DEF Spec

-----------------------------------------------------------------------------
(* What later phases draw on. *)

\* The relayers' keys, funds and paths.
LinkInv ==
  /\ pc = "keys" => left \subseteq RelayerChains
  /\ pc \in {"keys", "codecs", "paths", "links"} /\ ~args.failExpected =>
       \A rc \in RelayerChains : (pc = "keys" /\ rc \in left) \/ (rc \in funded /\ Running(rc[2]))
  /\ pc = "paths" => left \subseteq Links /\ Links \ left \subseteq paths
  /\ pc = "links" => left \subseteq Links /\ Links \subseteq paths

\* What the phases after the loops do to it.
LEMMA LinkMoves ==
  ASSUME BuildNext, LinkInv, RelayTyped, pc \in {"keys", "paths"}, pc' = pc
  PROVE  /\ pc = "keys" /\ ~args.failExpected =>
              \A rc \in RelayerChains : rc \in left => rc \in left' \/ (rc \in funded' /\ Running(rc[2]))
         /\ funded \subseteq funded' /\ paths \subseteq paths'
         /\ pc = "paths" => \A l \in left : l \in left' \/ l \in paths'
<1>1. CASE pc = "keys"
  <2>1. (\E rc \in RelayerChains : ConfigureRelayer(rc)) \/ UNCHANGED <<left, funded, paths>>
    BY <1>1
    DEF BuildNext, FinishGroup, FinishLoop, After, Enter, Initialize, CreateFaucet, TrackBlocks,
        GenerateRelayerWallets, RewriteConfig, GeneratePath, LinkPath, BuildAgain
  <2>2. ASSUME NEW rc \in RelayerChains, ConfigureRelayer(rc)
        PROVE  /\ left' = left \ {rc} /\ paths' = paths /\ funded \subseteq funded'
               /\ ~args.failExpected => rc \in funded' /\ Running(rc[2])
    BY <1>1, <2>2 DEF ConfigureRelayer, Enter, FaucetReady
  <2> QED
    BY <1>1, <2>1, <2>2
<1>2. CASE pc = "paths"
  <2>1. (\E l \in Links : GeneratePath(l)) \/ UNCHANGED <<left, funded, paths>>
    BY <1>2
    DEF BuildNext, FinishGroup, FinishLoop, After, Enter, Initialize, CreateFaucet, TrackBlocks,
        GenerateRelayerWallets, RewriteConfig, ConfigureRelayer, LinkPath, BuildAgain
  <2>2. ASSUME NEW l \in Links, GeneratePath(l)
        PROVE  left' = left \ {l} /\ paths' = paths \cup {l} /\ funded' = funded
    BY <1>2, <2>2 DEF GeneratePath, Enter
  <2> QED
    BY <1>2, <2>1, <2>2
<1> QED
  BY <1>1, <1>2

LEMMA NextLink ==
  ASSUME Layers, RelayTyped, LinkInv, [Next]_vars
  PROVE  LinkInv'
<1>0. Ctl /\ args' = args
  BY SameArgs DEF Layers, Base, Typed
<1>1. CASE ItemNext \/ FinishStage \/ \E c \in Chains : Begin(c)
  <2>1. pc \in Loops /\ (pc' = pc \/ pc' \in {"track", "failed"})
    BY <1>0, <1>1, ItemSteps, FinishSteps, BeginSteps, StageFacts
    DEF Works, FinishStage, Advances, Completes, Fails, Begins
  <2> QED
    BY <2>1 DEF LinkInv, Loops
<1>2. CASE BuildNext
  <2>1. Moves
    BY <1>0, <1>2, BuildMoves
  <2>2. \A c : Running(c)' = Running(c)
    BY <2>1 DEF Moves, Running, NodesOf
  <2>3. CASE pc' = "keys"
    <3>1. CASE pc = "keys"
      BY <1>0, <1>2, <2>1, <2>2, <2>3, <3>1, LinkMoves DEF LinkInv, Moves
    <3>2. CASE pc # "keys"
      BY <2>1, <2>3, <3>2 DEF Moves, LinkInv
    <3> QED
      BY <3>1, <3>2
  <2>4. CASE pc' = "paths"
    <3>1. CASE pc = "paths"
      BY <1>0, <1>2, <2>1, <2>2, <2>4, <3>1, LinkMoves DEF LinkInv, Moves
    <3>2. CASE pc # "paths"
      <4>1. pc = "codecs" /\ left' = Links
        BY <2>1, <2>4, <3>2 DEF Moves
      <4>2. funded' = funded
        BY <1>2, <4>1
        DEF BuildNext, FinishGroup, FinishLoop, After, Enter, Initialize, CreateFaucet, TrackBlocks,
            GenerateRelayerWallets, RewriteConfig, ConfigureRelayer, GeneratePath, LinkPath, BuildAgain,
            relayVars
      <4> QED
        BY <1>0, <2>2, <2>4, <4>1, <4>2 DEF LinkInv
    <3> QED
      BY <3>1, <3>2
  <2>5. CASE pc' \in {"codecs", "links"}
    <3>1. /\ pc' = "codecs" => pc = "keys" /\ left = {}
          /\ pc' = "links" => \/ pc = "paths" /\ left = {} /\ left' = Links
                              \/ pc = "links" /\ left' \subseteq left
      BY <2>1, <2>5 DEF Moves
    <3>2. UNCHANGED <<funded, paths>>
      BY <1>2, <2>5, <3>1
      DEF BuildNext, FinishGroup, FinishLoop, After, Enter, Initialize, CreateFaucet, TrackBlocks,
          GenerateRelayerWallets, RewriteConfig, ConfigureRelayer, GeneratePath, LinkPath, BuildAgain,
          relayVars
    <3> QED
      BY <1>0, <2>2, <2>5, <3>1, <3>2 DEF LinkInv
  <2> QED
    BY <2>3, <2>4, <2>5 DEF LinkInv
<1>3. CASE UNCHANGED vars
  <2>1. UNCHANGED <<pc, left, funded, paths, box>>
    BY <1>3 DEF vars, chainVars, relayVars
  <2> QED
    BY <1>0, <2>1 DEF LinkInv, Running, NodesOf
<1> QED
  BY <1>1, <1>2, <1>3, NextKinds

\* The faucet of a chain that runs and is settled can pay.
LEMMA FaucetIsReady ==
  ASSUME Layers, Settled, NEW c \in Chains, Running(c), FaucetEverywhere(c), red = None,
         "faucet" \in keys[GetNode(c)]
  PROVE  FaucetReady(c)
<1>1. Ready(c)
  BY RunningHubDone, ChainFacts DEF Settled, HubDone
<1>2. \A n \in NodesOf(c) : Faucet(c) \in genesis[n]
  <2>1. CASE c \notin DymRollApps
    BY <1>1, <2>1 DEF Ready
  <2>2. CASE c \in DymRollApps /\ NodesOf(c) = {Validator0(c)}
    BY <1>1, <2>2 DEF Ready, HasFaucet
  <2>3. CASE c \in DymRollApps /\ CopiedByHub(c)
    <3>1. PICK h \in DymHubs : h # red /\ c \in RollAppsOf(h) /\ Running(h)
      BY <2>3 DEF CopiedByHub, red
    <3>2. HasAccount(h, c)
      BY <3>1, RunningHubDone, ChainFacts DEF HubDone, Accounts
    <3> QED
      BY <1>1, <2>3, <3>2 DEF HasAccount, Ready, HasFaucet
  <2> QED
    BY <2>1, <2>2, <2>3 DEF FaucetEverywhere
<1> QED
  BY <1>2 DEF FaucetReady

\* What the later phases of Build take for granted of the earlier ones holds,
\* whatever failed or was skipped on the way: the faucet can pay where it is
\* drawn on, a hub registers a rollapp from the sequencer's home, and links are
\* made between running chains with a path and funded keys.
THEOREM PhasesFollow == Spec => []PhasesReady
<1>1. Init => Layers /\ RelayTyped /\ LinkInv
  <2>1. Init => LinkInv
    BY DEF Init, LinkInv
  <2> QED
    BY <2>1, LayersInvariance, InitTyped
<1>2. Layers /\ RelayTyped /\ LinkInv /\ [Next]_vars => (Layers /\ RelayTyped /\ LinkInv)'
  BY LayersInvariance, NextLink, NextIsTyped DEF Layers, Base
<1>3. ASSUME Layers, RelayTyped, LinkInv PROVE PhasesReady
  <2>0. Ctl /\ ExistInv /\ UpInv /\ KeyInv /\ SeqInv /\ FileInv /\ SettledInv
    BY <1>3 DEF Layers, Base, Typed, BoxInv
  <2>1. ASSUME Stage = "register" PROVE FaucetReady(cur)
    <3>1. cur # None /\ pc = "hubs" /\ cur \in DymHubs /\ cur \in Chains /\ cur \notin DymRollApps
      BY <2>0, <2>1, StagePhases, ChainFacts DEF Stage
    <3>2. Running(cur) /\ "faucet" \in keys[GetNode(cur)]
      BY <2>0, <2>1, <3>1 DEF UpInv, KeyInv, Loops
    <3>3. \A n \in NodesOf(cur) : Faucet(cur) \in genesis[n]
      <4>1. CASE cur = red
        <5>1. \A n \in NodesOf(cur) : genesis[n] = ExistingGenesis(cur)
          BY <2>0, <3>1, <4>1, NodeFacts DEF ExistInv
        <5> QED
          BY <5>1 DEF ExistingGenesis
      <4>2. CASE cur # red
        BY <2>0, <2>1, <3>1, <4>2 DEF FileInv, Ready
      <4> QED
        BY <4>1, <4>2
    <3> QED
      BY <3>2, <3>3 DEF FaucetReady
  <2>2. ASSUME pc = "keys", ~args.failExpected, args.redundant = None, NEW rc \in left,
               FaucetEverywhere(rc[2])
        PROVE  FaucetReady(rc[2])
    <3>1. rc[2] \in Chains
      BY <1>3, <2>2, ChainsAssumption DEF LinkInv, RelayerChains
    <3>2. Settled /\ red = None /\ "faucet" \in keys[GetNode(rc[2])]
      BY <2>0, <2>2, <3>1 DEF SettledInv, KeyInv, red
    <3>3. Running(rc[2])
      BY <2>0, <2>2, <3>1, <3>2, ChainFacts DEF UpInv, Settled, HubDone, LeftOut
    <3> QED
      BY <1>3, <2>2, <3>1, <3>2, <3>3, FaucetIsReady
  <2>3. SequencerLocation
    <3> SUFFICES ASSUME Stage = "register", NEW r \in todo \cap DymRollApps, NumVals[r] = 1
                 PROVE  seqDir[r] = seqKey[r] /\ seqDir[r] \in files
      BY DEF SequencerLocation
    <3>1. pc = "hubs"
      BY <2>0, StagePhases DEF Stage
    <3>2. SeqOK(r)
      BY <2>0, <3>1 DEF SeqInv
    <3> QED
      BY <3>2 DEF SeqOK, KeyDirNode, Validator0
  <2>4. LinkPrerequisites
    <3> SUFFICES ASSUME pc = "links", ~args.failExpected, NEW l \in left
                 PROVE  /\ l \in paths /\ Running(l.a) /\ Running(l.b)
                        /\ {<<l.relayer, l.a>>, <<l.relayer, l.b>>} \subseteq funded
      BY DEF LinkPrerequisites
    <3>1. l \in Links /\ l \in paths
      BY <1>3 DEF LinkInv
    <3>2. {<<l.relayer, l.a>>, <<l.relayer, l.b>>} \subseteq RelayerChains
      BY <3>1 DEF RelayerChains
    <3>3. \A rc \in RelayerChains : rc \in funded /\ Running(rc[2])
      BY <1>3 DEF LinkInv
    <3> QED
      BY <3>1, <3>2, <3>3
  <2> QED
    BY <2>1, <2>2, <2>3, <2>4 DEF PhasesReady, FaucetReadyWhenUsed
<1> QED
  BY <1>1, <1>2, <1>3, PTL DEF Spec
=============================================================================
