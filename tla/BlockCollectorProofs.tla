------------------------ MODULE BlockCollectorProofs ------------------------
(***************************************************************************)
(* Proofs about BlockCollector, for any chains, any number of blocks and   *)
(* of transactions in them, and any number of failing statements.          *)
(***************************************************************************)
EXTENDS BlockCollector, FiniteSetTheorems, TLAPS

\* The heights of chain c that the tables t have.
HeightsIn(t, c) == {b[2] : b \in {r \in t.block : r[1] = c}}

Busy == {"found", "begin", "insert", "joined"}

\* The variables a step may use as functions are functions.
FunctionsOK ==
  /\ next \in [Chains -> Nat \ {0}]
  /\ want \in [Savers -> Nat]
  /\ at \in [Savers -> {"off", "add", "idle"} \cup Busy]
  /\ tracking = "no" => \A s \in Savers : at[s] = "off"

\* A caller of SaveBlock is at a height the collector of its chain has come
\* to, and the collector itself at the next one.
WantInv ==
  \A s \in Savers : at[s] \in Busy =>
    /\ want[s] \in 1 .. next[s[1]]
    /\ s = Collector(s[1]) => want[s] = next[s[1]]

\* Who is inserting has the connection, and will have added exactly its block.
ConnInv ==
  /\ conn \in Savers \cup {None}
  /\ \A s \in Savers : at[s] = "insert" <=> conn = s
  /\ conn # None => \A c \in Chains :
       HeightsIn(dirty, c) = HeightsIn(db, c) \cup (IF c = conn[1] THEN {want[conn]} ELSE {})

IInv == FunctionsOK /\ WantInv /\ ConnInv /\ NoGaps

\* Callers and the chains they save.
LEMMA SaverFacts ==
  /\ \A s \in Savers : s[1] \in Chains
  /\ \A c \in Chains : Collector(c) \in Savers /\ Collector(c)[1] = c
  /\ None \notin Savers
  BY CollectorAssumption DEF Savers, Collector

\* INSERT OR REPLACE adds the height and loses none.
LEMMA ReplaceHeights ==
  ASSUME NEW t, NEW c, NEW d, NEW h
  PROVE  HeightsIn(Replace(t, c, h), d) = HeightsIn(t, d) \cup (IF d = c THEN {h} ELSE {})
<1> DEFINE row == <<c, h, NewId(t)>>
<1> DEFINE B == Replace(t, c, h).block
<1>1. row[1] = c /\ row[2] = h
  OBVIOUS
<1>2. B = (t.block \ {b \in t.block : b[1] = c /\ b[2] = h}) \cup {row}
  BY DEF Replace
<1>3. \A b : b \in B <=> (b \in t.block /\ ~(b[1] = c /\ b[2] = h)) \/ b = row
  BY <1>2
<1>4. \A k : k \in HeightsIn(t, d) <=> \E b \in t.block : b[1] = d /\ b[2] = k
  BY DEF HeightsIn
<1>5. \A k : k \in HeightsIn(Replace(t, c, h), d) <=> \E b \in B : b[1] = d /\ b[2] = k
  BY DEF HeightsIn
<1> HIDE DEF B, row
<1>6. ASSUME NEW k, k \in HeightsIn(Replace(t, c, h), d)
      PROVE  k \in HeightsIn(t, d) \/ (d = c /\ k = h)
  BY <1>1, <1>3, <1>4, <1>5, <1>6
<1>7. ASSUME NEW k, k \in HeightsIn(t, d) \/ (d = c /\ k = h)
      PROVE  k \in HeightsIn(Replace(t, c, h), d)
  <2>1. CASE d = c /\ k = h
    BY <1>1, <1>3, <1>5, <2>1
  <2>2. CASE k \in HeightsIn(t, d) /\ ~(d = c /\ k = h)
    BY <1>3, <1>4, <1>5, <2>2
  <2> QED
    BY <1>7, <2>1, <2>2
<1> QED
  BY <1>6, <1>7

\* Inserting a transaction changes no block.
LEMMA InsertHeights ==
  ASSUME NEW t, NEW c, NEW d, NEW h, NEW i
  PROVE  HeightsIn(Insert(t, c, h, i), d) = HeightsIn(t, d)
<1>1. Insert(t, c, h, i).block = t.block
  BY DEF Insert
<1> QED
  BY <1>1 DEF HeightsIn

\* The invariant holds at first.
LEMMA InitIInv == Init => IInv
<1> SUFFICES ASSUME Init PROVE IInv
  OBVIOUS
<1>1. FunctionsOK /\ WantInv /\ ConnInv
  BY SaverFacts DEF Init, FunctionsOK, WantInv, ConnInv, Busy
<1>2. NoGaps
  BY DEF Init, NoGaps, SavedHeights, NoRows
<1> QED
  BY <1>1, <1>2 DEF IInv

\* Steps that touch neither callers nor tables keep the invariant.
LEMMA StutterIInv ==
  ASSUME IInv, UNCHANGED <<at, want, conn, dirty, db, next, tracking>>
  PROVE  IInv'
BY DEF IInv, FunctionsOK, WantInv, ConnInv, NoGaps, SavedHeights, HeightsIn

\* A caller may move on, but not into or out of its transaction, if it is at a
\* height it may be at.
LEMMA MoveIInv ==
  ASSUME IInv, NEW s \in Savers, NEW a \in {"off", "idle", "found", "begin", "joined"},
         UNCHANGED <<conn, dirty, db, next, tracking>>,
         at[s] \notin {"off", "insert"},
         at' = [at EXCEPT ![s] = a],
         \/ a \notin Busy /\ UNCHANGED want
         \/ at[s] \in Busy /\ UNCHANGED want
         \/ /\ \E h \in 1 .. next[s[1]] :
                want' = [want EXCEPT ![s] = h] /\ (s = Collector(s[1]) => h = next[s[1]])
            /\ at[s] = "idle"
  PROVE  IInv'
<1> USE SaverFacts
<1>1. NoGaps'
  BY DEF IInv, NoGaps, SavedHeights
<1>2. FunctionsOK'
  BY DEF IInv, FunctionsOK, Busy
<1>3. WantInv'
  BY DEF IInv, FunctionsOK, WantInv, Busy
<1>4. (conn \in Savers \cup {None} /\ \A r \in Savers : at[r] = "insert" <=> conn = r)'
  BY DEF IInv, FunctionsOK, ConnInv, Busy
<1>5. conn # None => want'[conn] = want[conn]
  BY DEF IInv, FunctionsOK, ConnInv, Busy
<1>6. ConnInv'
  BY <1>4, <1>5 DEF IInv, ConnInv, HeightsIn
<1> QED
  BY <1>1, <1>2, <1>3, <1>6 DEF IInv

\* So do the steps before and between the transactions.
LEMMA BetweenIInv ==
  ASSUME IInv,
         \/ TrackBlocks
         \/ \E c \in Chains : AddChain(c) \/ FindTxs(c) \/ Stopped(c)
         \/ \E c \in Chains, h \in Heights : Again(c, h)
         \/ \E s \in Savers : SaveBlock(s)
  PROVE  IInv'
<1> USE CollectorAssumption, SaverFacts
<1>1. CASE TrackBlocks
  <2>1. \A s \in Savers : at[s] = "off"
    BY <1>1 DEF TrackBlocks, IInv, FunctionsOK
  <2>2. conn = None /\ \A s \in Savers : at'[s] \in {"off", "add", "idle"}
    BY <1>1, <2>1 DEF TrackBlocks, IInv, FunctionsOK, ConnInv
  <2>3. at' \in [Savers -> {"off", "add", "idle"} \cup Busy] /\ tracking' # "no"
    BY <1>1 DEF TrackBlocks, IInv, FunctionsOK
  <2>4. UNCHANGED <<want, conn, dirty, db, next>>
    BY <1>1 DEF TrackBlocks
  <2>5. FunctionsOK'
    BY <2>3, <2>4 DEF IInv, FunctionsOK
  <2>6. WantInv'
    BY <2>2 DEF WantInv, Busy
  <2>7. ConnInv'
    <3>1. \A s \in Savers : at'[s] # "insert" /\ None # s
      BY <2>2
    <3> QED
      BY <2>2, <2>4, <3>1 DEF ConnInv
  <2>8. NoGaps'
    BY <2>4 DEF IInv, NoGaps, SavedHeights
  <2> QED
    BY <2>5, <2>6, <2>7, <2>8 DEF IInv
<1>2. ASSUME NEW c \in Chains, AddChain(c) PROVE IInv'
  BY <1>2, MoveIInv DEF AddChain, Busy
<1>3. ASSUME NEW c \in Chains, Stopped(c) PROVE IInv'
  BY <1>3, MoveIInv DEF Stopped, setVars, Busy
<1>4. ASSUME NEW c \in Chains, FindTxs(c) PROVE IInv'
  <2>1. next[c] \in 1 .. next[c]
    BY DEF IInv, FunctionsOK
  <2> QED
    BY <1>4, <2>1, MoveIInv DEF FindTxs, setVars
<1>5. ASSUME NEW c \in Chains, NEW h \in Heights, Again(c, h) PROVE IInv'
  <2> DEFINE s == <<c, "again">>
  <2>1. s \in Savers /\ s[1] = c /\ s # Collector(c)
    BY DEF Savers, Collector
  <2>2. h \in 1 .. next[c]
    BY <1>5 DEF Again, IInv, FunctionsOK
  <2> QED
    BY <1>5, <2>1, <2>2, MoveIInv DEF Again, setVars
<1>6. ASSUME NEW s \in Savers, SaveBlock(s) PROVE IInv'
  BY <1>6, MoveIInv DEF SaveBlock, setVars, Busy
<1> QED
  BY <1>1, <1>2, <1>3, <1>4, <1>5, <1>6

\* A transaction that begins has the connection for itself.
LEMMA BeginIInv ==
  ASSUME IInv, NEW s \in Savers, Begin(s)
  PROVE  IInv'
<1> USE SaverFacts
<1>1. NoGaps'
  BY DEF IInv, Begin, NoGaps, SavedHeights
<1>2. FunctionsOK' /\ WantInv'
  BY DEF IInv, Begin, setVars, FunctionsOK, WantInv, Busy
<1>3. (conn \in Savers \cup {None} /\ \A r \in Savers : at[r] = "insert" <=> conn = r)'
  BY DEF IInv, Begin, FunctionsOK, ConnInv
<1>4. \A c \in Chains : HeightsIn(dirty', c)
                        = HeightsIn(db, c) \cup (IF c = s[1] THEN {want[s]} ELSE {})
  BY ReplaceHeights DEF Begin
<1>5. ConnInv'
  BY <1>3, <1>4 DEF Begin, ConnInv
<1> QED
  BY <1>1, <1>2, <1>5 DEF IInv

\* An inserted transaction changes no height.
LEMMA InsertIInv ==
  ASSUME IInv, NEW s \in Savers, InsertTx(s)
  PROVE  IInv'
<1>1. NoGaps' /\ FunctionsOK' /\ WantInv'
  BY DEF IInv, InsertTx, setVars, NoGaps, SavedHeights, FunctionsOK, WantInv
<1>2. \A c \in Chains : HeightsIn(dirty', c) = HeightsIn(dirty, c)
  BY InsertHeights DEF InsertTx
<1>3. UNCHANGED <<at, conn, want, db>>
  BY DEF InsertTx
<1>4. ConnInv'
  BY <1>2, <1>3 DEF IInv, ConnInv
<1> QED
  BY <1>1, <1>4 DEF IInv

\* When SaveBlock returns, callers leave, none gets into a transaction, and
\* the collector only goes on from the height that was saved.
LEMMA FinishSteps ==
  ASSUME IInv, NEW l \in Savers, NEW ok \in BOOLEAN,
         at[l] \in {"begin", "insert"}, Finish(l, ok)
  PROVE  /\ FunctionsOK' /\ WantInv'
         /\ UNCHANGED want /\ at'[l] = "idle"
         /\ \A s \in Savers : at'[s] = at[s] \/ (at'[s] = "idle" /\ (s = l \/ at[s] = "joined"))
         /\ \A c \in Chains : \/ next'[c] = next[c]
                              \/ ok /\ c = l[1] /\ want[l] = next[c] /\ next'[c] = next[c] + 1
<1> DEFINE back == {s \in Savers : s = l \/ (at[s] = "joined" /\ Leads(l, s))}
<1> USE SaverFacts
<1>1. /\ at' = [s \in Savers |-> IF s \in back THEN "idle" ELSE at[s]]
      /\ next' = IF ok /\ Collector(l[1]) \in back THEN [next EXCEPT ![l[1]] = @ + 1] ELSE next
      /\ UNCHANGED <<want, tracking>>
  BY DEF Finish, setVars
<1>2. Collector(l[1]) \in back => want[l] = next[l[1]]
  BY DEF Leads, IInv, WantInv, Busy
<1>3. \A s \in Savers : s \in back => s = l \/ at[s] = "joined"
  OBVIOUS
<1> HIDE DEF back
<1>4. next' \in [Chains -> Nat \ {0}]
  BY <1>1 DEF IInv, FunctionsOK
<1>5. \A c \in Chains : \/ next'[c] = next[c]
                        \/ ok /\ c = l[1] /\ want[l] = next[c] /\ next'[c] = next[c] + 1
  BY <1>1, <1>2 DEF IInv, FunctionsOK
<1>6. \A s \in Savers : at'[s] = at[s] \/ (at'[s] = "idle" /\ (s = l \/ at[s] = "joined"))
  BY <1>1, <1>3
<1>7. at'[l] = "idle"
  BY <1>1 DEF back
<1>8. at' \in [Savers -> {"off", "add", "idle"} \cup Busy]
  BY <1>1 DEF IInv, FunctionsOK
<1>9. WantInv'
  <2> SUFFICES ASSUME NEW s \in Savers, at'[s] \in Busy
               PROVE  /\ want[s] \in 1 .. next'[s[1]]
                      /\ s = Collector(s[1]) => want[s] = next'[s[1]]
    BY <1>1 DEF WantInv
  <2>1. s \notin back /\ at[s] \in Busy
    BY <1>1 DEF Busy
  <2>2. want[s] \in 1 .. next[s[1]] /\ (s = Collector(s[1]) => want[s] = next[s[1]])
    BY <2>1 DEF IInv, WantInv
  <2>3. s = Collector(s[1]) => next'[s[1]] = next[s[1]]
    BY <1>1, <2>1 DEF IInv, FunctionsOK
  <2>4. next[s[1]] \in Nat /\ next'[s[1]] \in Nat /\ next[s[1]] <= next'[s[1]]
    BY <1>4, <1>5 DEF IInv, FunctionsOK
  <2> QED
    BY <2>2, <2>3, <2>4
<1>10. FunctionsOK'
  <2>1. tracking' # "no"
    BY <1>1 DEF IInv, FunctionsOK
  <2> QED
    BY <1>1, <1>4, <1>8, <2>1 DEF IInv, FunctionsOK
<1>11. UNCHANGED want
  BY <1>1
<1> QED
  BY <1>5, <1>6, <1>7, <1>9, <1>10, <1>11

\* A commit puts the saved block in the database, and a collector that waited
\* for it goes on by one.
LEMMA CommitIInv ==
  ASSUME IInv, NEW s \in Savers, Commit(s)
  PROVE  /\ IInv'
         /\ \A c \in Chains : SavedHeights(c) \subseteq SavedHeights(c)'
<1> USE SaverFacts
<1>1. /\ Finish(s, TRUE) /\ at[s] = "insert" /\ conn = s
      /\ db' = dirty /\ conn' = None
  BY DEF Commit, Release, IInv, ConnInv
<1>2. /\ FunctionsOK' /\ WantInv'
      /\ UNCHANGED want /\ at'[s] = "idle"
      /\ \A r \in Savers : at'[r] = at[r] \/ (at'[r] = "idle" /\ (r = s \/ at[r] = "joined"))
      /\ \A c \in Chains : \/ next'[c] = next[c]
                           \/ c = s[1] /\ want[s] = next[c] /\ next'[c] = next[c] + 1
  BY <1>1, FinishSteps
<1>3. ConnInv'
  BY <1>1, <1>2 DEF IInv, ConnInv
<1>4. \A c \in Chains :
        SavedHeights(c)' = SavedHeights(c) \cup (IF c = s[1] THEN {want[s]} ELSE {})
  <2>1. \A c : SavedHeights(c) = HeightsIn(db, c) /\ SavedHeights(c)' = HeightsIn(dirty, c)
    BY <1>1 DEF SavedHeights, HeightsIn
  <2> QED
    BY <1>1, <2>1 DEF IInv, ConnInv
<1>5. want[s] \in 1 .. next[s[1]]
  BY <1>1 DEF IInv, WantInv, Busy
<1>6. NoGaps'
  <2> SUFFICES ASSUME NEW c \in Chains
               PROVE  /\ 1 .. next'[c] - 1 \subseteq SavedHeights(c)'
                      /\ SavedHeights(c)' \subseteq 1 .. next'[c]
    BY DEF NoGaps
  <2>1. next[c] \in Nat \ {0} /\ next'[c] \in Nat \ {0}
    BY <1>2 DEF IInv, FunctionsOK
  <2>2. 1 .. next[c] - 1 \subseteq SavedHeights(c) /\ SavedHeights(c) \subseteq 1 .. next[c]
    BY DEF IInv, NoGaps
  <2>3. CASE next'[c] = next[c]
    BY <1>4, <1>5, <2>1, <2>2, <2>3
  <2>4. CASE c = s[1] /\ want[s] = next[c] /\ next'[c] = next[c] + 1
    BY <1>4, <1>5, <2>1, <2>2, <2>4
  <2> QED
    BY <1>2, <2>3, <2>4
<1> QED
  BY <1>2, <1>3, <1>4, <1>6 DEF IInv

\* A transaction that is rolled back, or did not begin, leaves the database
\* as it was, and the collector where it is.
LEMMA FailIInv ==
  ASSUME IInv, NEW s \in Savers, Rollback(s) \/ BeginFails(s)
  PROVE  IInv'
<1> USE SaverFacts
<1>1. Finish(s, FALSE) /\ at[s] \in {"begin", "insert"} /\ UNCHANGED db
  BY DEF Rollback, BeginFails
<1>2. /\ FunctionsOK' /\ WantInv'
      /\ UNCHANGED want /\ at'[s] = "idle"
      /\ \A r \in Savers : at'[r] = at[r] \/ (at'[r] = "idle" /\ (r = s \/ at[r] = "joined"))
      /\ \A c \in Chains : next'[c] = next[c]
  BY <1>1, FinishSteps
<1>3. NoGaps'
  BY <1>1, <1>2 DEF IInv, NoGaps, SavedHeights
<1>4. ConnInv'
  <2>1. CASE Rollback(s)
    <3>1. conn = s /\ conn' = None
      BY <2>1 DEF Rollback, Release, IInv, ConnInv
    <3>2. \A r \in Savers : at'[r] # "insert"
      BY <1>2, <3>1 DEF IInv, ConnInv
    <3> QED
      BY <3>1, <3>2 DEF ConnInv
  <2>2. CASE BeginFails(s)
    <3>1. UNCHANGED <<conn, dirty, db, want>> /\ conn # s /\ at[s] = "begin"
      BY <1>2, <2>2 DEF BeginFails, IInv, ConnInv
    <3>2. \A r \in Savers : at'[r] = "insert" <=> conn' = r
      BY <1>2, <3>1 DEF IInv, ConnInv
    <3>3. \A c : HeightsIn(dirty, c)' = HeightsIn(dirty, c) /\ HeightsIn(db, c)' = HeightsIn(db, c)
      BY <3>1 DEF HeightsIn
    <3> QED
      BY <3>1, <3>2, <3>3 DEF IInv, ConnInv
  <2> QED
    BY <2>1, <2>2
<1> QED
  BY <1>2, <1>3, <1>4 DEF IInv

\* Every step keeps the invariant and loses no saved block.
LEMMA NextIInv ==
  ASSUME IInv, [Next]_vars
  PROVE  IInv' /\ \A c \in Chains : SavedHeights(c) \subseteq SavedHeights(c)'
<1>1. UNCHANGED db => \A c \in Chains : SavedHeights(c) \subseteq SavedHeights(c)'
  BY DEF SavedHeights
<1>2. CASE UNCHANGED vars
  BY <1>1, <1>2, StutterIInv DEF vars, saveVars, setVars
<1>3. CASE Close \/ CloseReturns \/ Cancel \/ \E c \in Chains : NewBlock(c)
  BY <1>1, <1>3, StutterIInv DEF Close, CloseReturns, Cancel, NewBlock, saveVars, setVars
<1>4. CASE \/ TrackBlocks
           \/ \E c \in Chains : AddChain(c) \/ FindTxs(c) \/ Stopped(c)
           \/ \E c \in Chains, h \in Heights : Again(c, h)
           \/ \E s \in Savers : SaveBlock(s)
  <2>1. UNCHANGED db
    BY <1>4 DEF TrackBlocks, AddChain, FindTxs, Stopped, Again, SaveBlock
  <2> QED
    BY <1>1, <1>4, <2>1, BetweenIInv
<1>5. ASSUME NEW s \in Savers, Begin(s) \/ InsertTx(s) \/ Rollback(s) \/ BeginFails(s)
      PROVE  IInv' /\ UNCHANGED db
  <2>1. UNCHANGED db
    BY <1>5 DEF Begin, InsertTx, Rollback, BeginFails
  <2> QED
    BY <1>5, <2>1, BeginIInv, InsertIInv, FailIInv
<1> QED
  BY <1>1, <1>2, <1>3, <1>4, <1>5, CommitIInv DEF Next, Save

\* The invariant always holds.
LEMMA Invariance == Spec => []IInv
  BY InitIInv, NextIInv, PTL DEF Spec

\* The database has all blocks up to the collector's and none beyond it,
\* whatever statement fails and whoever else saves the same blocks.
THEOREM GapFree == Spec => []NoGaps
<1>1. IInv => NoGaps
  BY DEF IInv
<1> QED
  BY <1>1, Invariance, PTL

\* A block that was saved is never lost, not even while it is replaced.
THEOREM NothingLost == Spec => NeverLost
<1>1. IInv /\ [Next]_vars => [\A c \in Chains : SavedHeights(c) \subseteq SavedHeights(c)']_vars
  BY NextIInv
<1> QED
  BY <1>1, Invariance, PTL DEF Spec, NeverLost
-----------------------------------------------------------------------------
(* The rows of the tables.                                                   *)

BlockIds(t) == {b[3] : b \in t.block}

\* A height of a chain has one row, with an id of its own, and no transaction is
\* without its block.
Sound(t) ==
  /\ IsFiniteSet(Ids(t))
  /\ t.block \subseteq added \X Heights \X Nat
  /\ \A a, b \in t.block : a[3] = b[3] \/ (a[1] = b[1] /\ a[2] = b[2]) => a = b
  /\ \A x \in t.tx : x[1] \in BlockIds(t)

\* The transactions of the row b are those from number lo.
TxsFrom(t, b, lo) == {x \in t.tx : x[1] = b[3]} = {b[3]} \X (lo .. Txs[b[2]])

\* The tables t have all transactions, but only those after the first n of the
\* block of chain c at height h.
Rows(t, c, h, n) ==
  /\ Sound(t) /\ n <= Txs[h]
  /\ \A b \in t.block : TxsFrom(t, b, IF b[1] = c /\ b[2] = h THEN n + 1 ELSE 1)

\* A transaction inserts what its block is still without.
TablesInv ==
  /\ Sound(db) /\ \A b \in db.block : TxsFrom(db, b, 1)
  /\ conn # None => Rows(dirty, conn[1], want[conn], left)

\* Blocks are saved of chains in the database, up to the chain's height.
HeightInv ==
  /\ height \in [Chains -> Nat] /\ want \in [Savers -> Heights \cup {0}]
  /\ \A c \in Chains : 1 .. height[c] \subseteq Heights /\ next[c] <= height[c] + 1
  /\ \A s \in Savers : at[s] \in Busy =>
       s[1] \in added /\ want[s] \in Heights /\ want[s] <= height[s[1]]

DomainsInv ==
  /\ cancelled \in BOOLEAN /\ faults \in 0 .. MaxFaults
  /\ tracking \in {"no", "yes", "none"} /\ added \subseteq Chains /\ fields \subseteq Chains
  /\ stopped \subseteq fields /\ closing \in {"no", "waiting", "returned"}
  /\ flights \subseteq Savers /\ left \in Nat

SInv == IInv /\ HeightInv /\ DomainsInv /\ TablesInv

\* sqlite gives a new row an id that no row has.
LEMMA FreshId ==
  ASSUME NEW t, IsFiniteSet(Ids(t))
  PROVE  NewId(t) \in Nat /\ NewId(t) \notin Ids(t)
<1> DEFINE I == Ids(t)  n == Cardinality(I)
<1>1. n \in Nat
  BY FS_CardinalityType
<1>2. \E i \in 1 .. n + 1 : i \notin I
  <2> SUFFICES ASSUME 1 .. n + 1 \subseteq I PROVE FALSE
    OBVIOUS
  <2>1. Cardinality(1 .. n + 1) <= n
    BY FS_Subset
  <2>2. Cardinality(1 .. n + 1) = n + 1
    BY <1>1, FS_Interval
  <2> QED
    BY <1>1, <2>1, <2>2
<1>3. NewId(t) \in 1 .. n + 1 /\ NewId(t) \notin I
  BY <1>2 DEF NewId
<1> QED
  BY <1>1, <1>3

\* INSERT OR REPLACE leaves one row of the height, with none of its transactions
\* yet, and all other blocks with theirs.
LEMMA ReplaceRows ==
  ASSUME NEW t, Sound(t), \A b \in t.block : TxsFrom(t, b, 1),
         NEW c \in added, NEW h \in Heights
  PROVE  Rows(Replace(t, c, h), c, h, Txs[h])
<1> DEFINE i == NewId(t)  row == <<c, h, i>>
           old == {b \in t.block : b[1] = c /\ b[2] = h}
           B == (t.block \ old) \cup {row}  X == {x \in t.tx : \A b \in old : b[3] # x[1]}
           u == Replace(t, c, h)
<1>1. u.block = B /\ u.tx = X
  BY DEF Replace
<1>2. i \in Nat /\ i \notin Ids(t)
  BY FreshId DEF Sound
<1>3. row[1] = c /\ row[2] = h /\ row[3] = i /\ row \in added \X Heights \X Nat
  BY <1>2
<1>4. \A b \in t.block : b[3] # i
  BY <1>2 DEF Ids
<1>5. \A x \in t.tx : x[1] # i
  BY <1>2 DEF Ids
<1>6. Txs[h] \in Nat
  BY CollectorAssumption
<1>7. \A b \in B : b = row \/ (b \in t.block /\ ~(b[1] = c /\ b[2] = h) /\ b \notin old)
  OBVIOUS
<1>8. Sound(u)
  <2>1. IsFiniteSet(Ids(u))
    <3>1. Ids(u) \subseteq Ids(t) \cup {i}
      BY <1>1, <1>3 DEF Ids
    <3> QED
      BY <3>1, FS_AddElement, FS_Subset DEF Sound
  <2>2. u.block \subseteq added \X Heights \X Nat
    BY <1>1, <1>3 DEF Sound
  <2>3. \A a, b \in u.block : a[3] = b[3] \/ (a[1] = b[1] /\ a[2] = b[2]) => a = b
    BY <1>1, <1>3, <1>4, <1>7 DEF Sound
  <2>4. \A x \in u.tx : x[1] \in BlockIds(u)
    <3> SUFFICES ASSUME NEW x \in X PROVE x[1] \in BlockIds(u)
      BY <1>1
    <3>1. PICK b \in t.block : b[3] = x[1]
      BY DEF Sound, BlockIds
    <3>2. b \in B
      BY <3>1
    <3> QED
      BY <3>1, <3>2, <1>1 DEF BlockIds
  <2> QED
    BY <2>1, <2>2, <2>3, <2>4 DEF Sound
<1>9. ASSUME NEW b \in B
      PROVE  TxsFrom(u, b, IF b[1] = c /\ b[2] = h THEN Txs[h] + 1 ELSE 1)
  <2>1. CASE b = row
    <3>1. {x \in X : x[1] = i} = {}
      BY <1>5
    <3>2. (Txs[h] + 1) .. Txs[h] = {}
      BY <1>6
    <3>3. {x \in u.tx : x[1] = b[3]} = {} /\ b[2] = h /\ b[1] = c
      BY <2>1, <3>1, <1>1, <1>3
    <3>4. {b[3]} \X ((Txs[h] + 1) .. Txs[h]) = {}
      BY <3>2
    <3> QED
      BY <3>3, <3>4 DEF TxsFrom
  <2>2. CASE b \in t.block /\ ~(b[1] = c /\ b[2] = h)
    <3>1. \A a \in old : a[3] # b[3]
      BY <2>2 DEF Sound
    <3>2. {x \in X : x[1] = b[3]} = {x \in t.tx : x[1] = b[3]}
      BY <3>1
    <3>3. TxsFrom(t, b, 1)
      BY <2>2
    <3> QED
      BY <2>2, <3>2, <3>3, <1>1 DEF TxsFrom
  <2> QED
    BY <2>1, <2>2, <1>7
<1> QED
  BY <1>1, <1>6, <1>8, <1>9 DEF Rows

\* INSERT INTO tx adds the next transaction of the block, and to no other.
LEMMA InsertRows ==
  ASSUME NEW t, NEW c, NEW h \in Heights, NEW n \in Nat \ {0}, Rows(t, c, h, n)
  PROVE  Rows(Insert(t, c, h, n), c, h, n - 1)
<1> DEFINE u == Insert(t, c, h, n)  N == {<<b[3], n>> : b \in {r \in t.block : r[1] = c /\ r[2] = h}}
<1>1. u.block = t.block /\ u.tx = t.tx \cup N
  BY DEF Insert, Rows, Sound
<1>2. Sound(t)
  BY DEF Rows
<1>3. \A x \in N : \E b \in t.block : b[1] = c /\ b[2] = h /\ x = <<b[3], n>>
  OBVIOUS
<1>4. \A b \in t.block : b[1] = c /\ b[2] = h => <<b[3], n>> \in N
  OBVIOUS
<1> HIDE DEF N
<1>5. Sound(u)
  <2>1. Ids(u) \subseteq Ids(t) /\ \A x \in N : x[1] \in BlockIds(t)
    BY <1>1, <1>3 DEF Ids, BlockIds
  <2>2. IsFiniteSet(Ids(u)) /\ BlockIds(u) = BlockIds(t)
    BY <2>1, <1>1, <1>2, FS_Subset DEF Sound, BlockIds
  <2> QED
    BY <2>1, <2>2, <1>1, <1>2 DEF Sound
<1>6. ASSUME NEW b \in t.block
      PROVE  TxsFrom(u, b, IF b[1] = c /\ b[2] = h THEN (n - 1) + 1 ELSE 1)
  <2>1. TxsFrom(t, b, IF b[1] = c /\ b[2] = h THEN n + 1 ELSE 1)
    BY DEF Rows
  <2>2. CASE b[1] = c /\ b[2] = h
    <3>1. {x \in t.tx : x[1] = b[3]} = {b[3]} \X ((n + 1) .. Txs[h])
      BY <2>1, <2>2 DEF TxsFrom
    <3>2. \A x \in N : x[1] = b[3] <=> x = <<b[3], n>>
      BY <1>2, <1>3, <2>2 DEF Sound
    <3>3. {x \in u.tx : x[1] = b[3]} = ({b[3]} \X ((n + 1) .. Txs[h])) \cup {<<b[3], n>>}
      BY <1>1, <1>4, <2>2, <3>1, <3>2
    <3>0. Txs[h] \in Nat /\ n <= Txs[h]
      BY CollectorAssumption DEF Rows
    <3>4. Txs[h] \in Nat /\ n .. Txs[h] = ((n + 1) .. Txs[h]) \cup {n} /\ (n - 1) + 1 = n
      BY <3>0
    <3>5. {x \in u.tx : x[1] = b[3]} = {b[3]} \X (n .. Txs[h])
      BY <3>3, <3>4
    <3> QED
      BY <2>2, <3>4, <3>5 DEF TxsFrom
  <2>3. CASE ~(b[1] = c /\ b[2] = h)
    <3>1. \A x \in N : x[1] # b[3]
      <4> SUFFICES ASSUME NEW x \in N, x[1] = b[3] PROVE FALSE
        OBVIOUS
      <4>1. PICK a \in t.block : a[1] = c /\ a[2] = h /\ x = <<a[3], n>>
        BY <1>3
      <4>2. a[3] = b[3]
        BY <4>1
      <4>3. a = b
        BY <4>2, <1>2 DEF Sound
      <4> QED
        BY <2>3, <4>1, <4>3
    <3>2. {x \in u.tx : x[1] = b[3]} = {x \in t.tx : x[1] = b[3]}
      BY <1>1, <3>1
    <3> QED
      BY <2>1, <2>3, <3>2 DEF TxsFrom
  <2> QED
    BY <2>2, <2>3
<1>7. n - 1 <= Txs[h]
  BY CollectorAssumption DEF Rows
<1> QED
  BY <1>1, <1>5, <1>6, <1>7 DEF Rows

\* The tables are as sound when more chains are in the database.
LEMMA SoundGrows ==
  ASSUME NEW t, Sound(t), added \subseteq added'
  PROVE  /\ IsFiniteSet(Ids(t)) /\ t.block \subseteq added' \X Heights \X Nat
         /\ \A a, b \in t.block : a[3] = b[3] \/ (a[1] = b[1] /\ a[2] = b[2]) => a = b
         /\ \A x \in t.tx : x[1] \in BlockIds(t)
BY DEF Sound

\* A step that leaves the transaction alone leaves the tables as good as they were.
LEMMA TablesKept ==
  ASSUME TablesInv, UNCHANGED <<db, conn, dirty, left>>, added \subseteq added',
         conn # None => want'[conn] = want[conn]
  PROVE  TablesInv'
<1>1. Sound(db)'
  BY SoundGrows DEF TablesInv, Sound, Ids, BlockIds
<1>2. (\A b \in db.block : TxsFrom(db, b, 1))'
  BY DEF TablesInv, TxsFrom
<1>3. conn # None => Rows(dirty, conn[1], want[conn], left)'
  <2> SUFFICES ASSUME conn # None PROVE Rows(dirty, conn[1], want[conn], left)'
    OBVIOUS
  <2>1. Rows(dirty, conn[1], want[conn], left)
    BY DEF TablesInv
  <2>2. Sound(dirty)'
    BY <2>1, SoundGrows DEF Rows, Sound, Ids, BlockIds
  <2> QED
    BY <2>1, <2>2 DEF Rows, TxsFrom
<1> QED
  BY <1>1, <1>2, <1>3 DEF TablesInv

LEMMA InitSInv == Init => SInv
<1> SUFFICES ASSUME Init PROVE SInv
  OBVIOUS
<1> USE CollectorAssumption
<1>1. IInv
  BY InitIInv
<1>2. HeightInv
  BY DEF Init, HeightInv, Busy
<1>3. DomainsInv
  <2>1. faults \in 0 .. MaxFaults
    BY DEF Init
  <2> QED
    BY <2>1 DEF Init, DomainsInv
<1>4. TablesInv
  <2>1. Ids(NoRows) = {}
    BY DEF NoRows, Ids
  <2>2. Sound(db)
    BY <2>1, FS_EmptySet DEF Init, NoRows, Sound
  <2> QED
    BY <2>2 DEF Init, NoRows, TablesInv
<1> QED
  BY <1>1, <1>2, <1>3, <1>4 DEF SInv

\* The steps outside the transactions: they leave the tables alone, and take
\* only a caller that is not in a transaction on.
LEMMA OutsideSInv ==
  ASSUME SInv,
         \/ TrackBlocks \/ Close \/ CloseReturns \/ Cancel
         \/ \E c \in Chains : AddChain(c) \/ FindTxs(c) \/ Stopped(c) \/ NewBlock(c)
         \/ \E c \in Chains, h \in Heights : Again(c, h)
         \/ \E s \in Savers : SaveBlock(s)
  PROVE  HeightInv' /\ DomainsInv' /\ TablesInv'
<1> USE CollectorAssumption, SaverFacts
<1>0. /\ FunctionsOK /\ HeightInv /\ DomainsInv /\ TablesInv
      /\ \A s \in Savers : at[s] = "insert" <=> conn = s
      /\ conn \in Savers \cup {None}
  BY DEF SInv, IInv, ConnInv
<1>1. CASE TrackBlocks
  <2>1. /\ tracking' \in {"yes", "none"} /\ \A s \in Savers : at[s] = "off"
        /\ at' = at \/ at' = [s \in Savers |-> IF s[2] = "collector" THEN "add" ELSE "idle"]
        /\ UNCHANGED <<envVars, added, fields, stopped, closing, want, flights, conn, dirty, left, db, next>>
    BY <1>0, <1>1 DEF TrackBlocks, FunctionsOK
  <2>2. \A s \in Savers : at'[s] \notin Busy
    BY <2>1 DEF Busy
  <2> QED
    BY <1>0, <2>1, <2>2, TablesKept DEF HeightInv, DomainsInv, envVars
<1>2. CASE Close \/ CloseReturns \/ Cancel
  <2>1. UNCHANGED <<height, faults, tracking, added, fields, saveVars>> /\ cancelled' \in BOOLEAN
        /\ stopped' \in {stopped, fields} /\ closing' \in {closing, "waiting", "returned"}
    BY <1>0, <1>2 DEF Close, CloseReturns, Cancel, envVars, setVars, DomainsInv
  <2>2. UNCHANGED <<at, want, flights, conn, dirty, left, db, next>>
    BY <2>1 DEF saveVars
  <2> QED
    BY <1>0, <2>1, <2>2, TablesKept DEF HeightInv, DomainsInv
<1>3. ASSUME NEW c \in Chains, NewBlock(c) PROVE HeightInv' /\ DomainsInv' /\ TablesInv'
  <2>1. /\ height[c] + 1 \in Heights /\ height' = [height EXCEPT ![c] = height[c] + 1]
        /\ UNCHANGED <<cancelled, faults, tracking, added, fields, stopped, closing>>
        /\ UNCHANGED <<at, want, flights, conn, dirty, left, db, next>>
    BY <1>3 DEF NewBlock, setVars, saveVars
  <2>2. DomainsInv' /\ TablesInv'
    BY <1>0, <2>1, TablesKept DEF DomainsInv
  <2>3. \A d \in Chains : /\ height[d] \in Nat /\ height'[d] \in {height[d], height[d] + 1}
                          /\ height'[d] = height[d] + 1 => height'[d] \in Heights \/ height'[d] = height[d]
    BY <1>0, <2>1 DEF HeightInv
  <2>4. ASSUME NEW d \in Chains PROVE 1 .. height'[d] \subseteq Heights /\ next[d] <= height'[d] + 1
    <3>1. 1 .. height[d] \subseteq Heights /\ next[d] <= height[d] + 1 /\ next[d] \in Nat
      BY <1>0 DEF HeightInv, FunctionsOK
    <3> QED
      BY <2>3, <3>1
  <2>5. ASSUME NEW s \in Savers, at[s] \in Busy PROVE want[s] <= height'[s[1]]
    <3>1. want[s] <= height[s[1]] /\ want[s] \in Nat
      BY <1>0, <2>5 DEF HeightInv, FunctionsOK
    <3> QED
      BY <2>3, <3>1
  <2>6. height' \in [Chains -> Nat]
    BY <1>0, <2>1 DEF HeightInv
  <2> QED
    BY <1>0, <2>1, <2>2, <2>4, <2>5, <2>6 DEF HeightInv
<1>4. ASSUME NEW c \in Chains, AddChain(c) PROVE HeightInv' /\ DomainsInv' /\ TablesInv'
  <2>1. /\ added' \in {added, added \cup {c}} /\ added' \subseteq Chains /\ conn = None
        /\ \E a \in {"idle", "off"} : at' = [at EXCEPT ![Collector(c)] = a]
        /\ UNCHANGED <<height, cancelled, faults, tracking, fields, stopped, closing>>
        /\ UNCHANGED <<want, flights, conn, dirty, left, db, next>>
    BY <1>0, <1>4 DEF AddChain, envVars, DomainsInv
  <2>2. \A s \in Savers : at'[s] \in Busy => at[s] \in Busy
    BY <1>0, <2>1 DEF FunctionsOK, Busy
  <2> QED
    BY <1>0, <2>1, <2>2, TablesKept DEF HeightInv, DomainsInv
<1>5. ASSUME NEW s \in Savers, s[1] \in added, at[s] = "idle", NEW h \in 1 .. height[s[1]],
             at' = [at EXCEPT ![s] = "found"], want' = [want EXCEPT ![s] = h],
             UNCHANGED <<envVars, setVars, flights, conn, dirty, left, db, next>>
      PROVE  HeightInv' /\ DomainsInv' /\ TablesInv'
  <2>1. conn # s /\ UNCHANGED <<height, cancelled, faults, tracking, added, fields, stopped, closing>>
    BY <1>0, <1>5 DEF envVars, setVars
  <2>2. h \in Heights /\ h <= height[s[1]]
    BY <1>0, <1>5 DEF HeightInv
  <2>3. \A r \in Savers : r # s => at'[r] = at[r] /\ want'[r] = want[r]
    BY <1>0, <1>5 DEF HeightInv, FunctionsOK
  <2>4. want'[s] = h /\ want' \in [Savers -> Heights \cup {0}]
    BY <1>0, <1>5, <2>2 DEF HeightInv
  <2>5. TablesInv'
    BY <1>0, <1>5, <2>1, <2>3, TablesKept
  <2>6. HeightInv'
    BY <1>0, <1>5, <2>1, <2>2, <2>3, <2>4 DEF HeightInv
  <2> QED
    BY <1>0, <1>5, <2>1, <2>5, <2>6 DEF DomainsInv
<1>6. ASSUME NEW c \in Chains, FindTxs(c) PROVE HeightInv' /\ DomainsInv' /\ TablesInv'
  <2> DEFINE s == Collector(c)  h == next[c]
  <2>1. next[c] \in 1 .. height[c]
    BY <1>0, <1>6 DEF FindTxs, HeightInv, FunctionsOK
  <2>2. /\ s \in Savers /\ s[1] = c /\ c \in added /\ at[s] = "idle"
        /\ at' = [at EXCEPT ![s] = "found"] /\ want' = [want EXCEPT ![s] = h]
        /\ UNCHANGED <<envVars, setVars, flights, conn, dirty, left, db, next>>
    BY <1>6 DEF FindTxs
  <2> HIDE DEF s
  <2> QED
    BY <1>5, <2>1, <2>2
<1>7. ASSUME NEW c \in Chains, NEW h \in Heights, Again(c, h) PROVE HeightInv' /\ DomainsInv' /\ TablesInv'
  <2> DEFINE s == <<c, "again">>
  <2>1. h \in 1 .. height[c]
    BY <1>0, <1>7 DEF Again, HeightInv
  <2>2. /\ s \in Savers /\ s[1] = c /\ c \in added /\ at[s] = "idle"
        /\ at' = [at EXCEPT ![s] = "found"] /\ want' = [want EXCEPT ![s] = h]
        /\ UNCHANGED <<envVars, setVars, flights, conn, dirty, left, db, next>>
    BY <1>7 DEF Again, Savers
  <2> HIDE DEF s
  <2> QED
    BY <1>5, <2>1, <2>2
<1>8. ASSUME NEW s \in Savers, NEW a \in {"off", "joined", "begin"},
             at[s] \in Busy \/ a = "off",
             at' = [at EXCEPT ![s] = a], flights' \subseteq Savers,
             UNCHANGED <<envVars, setVars, want, conn, dirty, left, db, next>>
      PROVE  HeightInv' /\ DomainsInv' /\ TablesInv'
  <2>1. UNCHANGED <<height, cancelled, faults, tracking, added, fields, stopped, closing>>
    BY <1>8 DEF envVars, setVars
  <2>2. \A r \in Savers : at'[r] \in Busy => at[r] \in Busy
    BY <1>0, <1>8 DEF FunctionsOK, Busy
  <2> QED
    BY <1>0, <1>8, <2>1, <2>2, TablesKept DEF HeightInv, DomainsInv
<1>9. ASSUME NEW c \in Chains, Stopped(c) PROVE HeightInv' /\ DomainsInv' /\ TablesInv'
  <2>1. Collector(c) \in Savers /\ flights' \subseteq Savers
    BY <1>0, <1>9 DEF Stopped, DomainsInv
  <2> QED
    BY <1>8, <1>9, <2>1 DEF Stopped
<1>10. ASSUME NEW s \in Savers, SaveBlock(s) PROVE HeightInv' /\ DomainsInv' /\ TablesInv'
  <2>1. flights' \subseteq Savers /\ at[s] \in Busy
    BY <1>0, <1>10 DEF SaveBlock, DomainsInv, Busy
  <2> QED
    BY <1>8, <1>10, <2>1 DEF SaveBlock
<1> QED
  BY <1>1, <1>2, <1>3, <1>4, <1>6, <1>7, <1>9, <1>10

\* A caller that returns is busy no more; the collector that goes on stays at
\* most one above its chain.
LEMMA FinishHeights ==
  ASSUME SInv, NEW l \in Savers, NEW ok \in BOOLEAN, at[l] \in {"begin", "insert"}, Finish(l, ok),
         faults' \in 0 .. MaxFaults, left' \in Nat
  PROVE  HeightInv' /\ DomainsInv' /\ UNCHANGED <<added, want>>
<1> USE SaverFacts
<1>1. IInv /\ FunctionsOK /\ HeightInv /\ DomainsInv
  BY DEF SInv, IInv
<1>2. /\ FunctionsOK' /\ UNCHANGED want
      /\ \A s \in Savers : at'[s] = at[s] \/ (at'[s] = "idle" /\ (s = l \/ at[s] = "joined"))
      /\ \A c \in Chains : \/ next'[c] = next[c]
                           \/ ok /\ c = l[1] /\ want[l] = next[c] /\ next'[c] = next[c] + 1
  BY <1>1, FinishSteps
<1>3. /\ UNCHANGED <<height, cancelled, tracking, added, fields, stopped, closing>>
      /\ flights' \subseteq Savers
  BY <1>1 DEF Finish, setVars, DomainsInv
<1>4. \A s \in Savers : at'[s] \in Busy => at[s] \in Busy
  BY <1>2 DEF Busy
<1>5. want[l] <= height[l[1]]
  BY <1>1 DEF HeightInv, Busy
<1>6. \A c \in Chains : next'[c] <= height[c] + 1
  <2> SUFFICES ASSUME NEW c \in Chains PROVE next'[c] <= height[c] + 1
    OBVIOUS
  <2>1. next[c] \in Nat /\ height[c] \in Nat /\ next[c] <= height[c] + 1
    BY <1>1 DEF FunctionsOK, HeightInv
  <2> QED
    BY <2>1, <1>2, <1>5
<1>7. HeightInv'
  BY <1>1, <1>2, <1>3, <1>4, <1>6 DEF HeightInv
<1> QED
  BY <1>1, <1>2, <1>3, <1>7 DEF DomainsInv

\* The steps of a transaction.
LEMMA InsideSInv ==
  ASSUME SInv, NEW s \in Savers,
         Begin(s) \/ InsertTx(s) \/ Commit(s) \/ Rollback(s) \/ BeginFails(s)
  PROVE  HeightInv' /\ DomainsInv' /\ TablesInv'
<1> USE CollectorAssumption, SaverFacts
<1>0. /\ FunctionsOK /\ HeightInv /\ DomainsInv /\ TablesInv
      /\ \A r \in Savers : at[r] = "insert" <=> conn = r
      /\ conn \in Savers \cup {None}
  BY DEF SInv, IInv, ConnInv
<1>1. at[s] \in Busy => s[1] \in added /\ want[s] \in Heights /\ Txs[want[s]] \in Nat
  BY <1>0 DEF HeightInv
<1>2. Fault => faults' \in 0 .. MaxFaults
  BY <1>0 DEF Fault, DomainsInv
<1>3. CASE Begin(s)
  <2>1. /\ at[s] = "begin" /\ conn' = s /\ at' = [at EXCEPT ![s] = "insert"]
        /\ dirty' = Replace(db, s[1], want[s]) /\ left' = Txs[want[s]]
        /\ UNCHANGED <<envVars, setVars, want, flights, db, next>>
    BY <1>3 DEF Begin
  <2>2. s[1] \in added /\ want[s] \in Heights /\ Txs[want[s]] \in Nat
    BY <2>1, <1>1 DEF Busy
  <2>3. UNCHANGED <<height, cancelled, faults, tracking, added, fields, stopped, closing>>
    BY <2>1 DEF envVars, setVars
  <2>4. Rows(dirty', s[1], want[s], left')
    BY <2>1, <2>2, <1>0, ReplaceRows DEF TablesInv
  <2>5. TablesInv'
    <3>1. Rows(dirty, conn[1], want[conn], left)'
      BY <2>1, <2>3, <2>4 DEF Rows, Sound, TxsFrom, Ids, BlockIds
    <3>2. Sound(db)' /\ (\A b \in db.block : TxsFrom(db, b, 1))'
      BY <2>1, <2>3, <1>0 DEF TablesInv, Sound, TxsFrom, Ids, BlockIds
    <3> QED
      BY <3>1, <3>2 DEF TablesInv
  <2>6. \A r \in Savers : at'[r] \in Busy => at[r] \in Busy
    BY <2>1, <1>0 DEF FunctionsOK, Busy
  <2>7. HeightInv'
    BY <1>0, <2>1, <2>3, <2>6 DEF HeightInv
  <2> QED
    BY <1>0, <2>1, <2>2, <2>3, <2>5, <2>7 DEF DomainsInv
<1>4. CASE InsertTx(s)
  <2>1. /\ at[s] = "insert" /\ left > 0 /\ conn = s
        /\ dirty' = Insert(dirty, s[1], want[s], left) /\ left' = left - 1
        /\ UNCHANGED <<envVars, setVars, at, want, flights, conn, db, next>>
    BY <1>0, <1>4 DEF InsertTx
  <2>2. want[s] \in Heights /\ left \in Nat \ {0} /\ left' \in Nat
    BY <2>1, <1>0, <1>1 DEF Busy, DomainsInv
  <2>3. UNCHANGED <<height, cancelled, faults, tracking, added, fields, stopped, closing>>
    BY <2>1 DEF envVars, setVars
  <2>4. Rows(dirty', s[1], want[s], left')
    BY <2>1, <2>2, <1>0, InsertRows DEF TablesInv
  <2>5. TablesInv'
    <3>1. Rows(dirty, conn[1], want[conn], left)'
      BY <2>1, <2>3, <2>4 DEF Rows, Sound, TxsFrom, Ids, BlockIds
    <3>2. Sound(db)' /\ (\A b \in db.block : TxsFrom(db, b, 1))'
      BY <2>1, <2>3, <1>0 DEF TablesInv, Sound, TxsFrom, Ids, BlockIds
    <3> QED
      BY <3>1, <3>2 DEF TablesInv
  <2> QED
    BY <1>0, <2>1, <2>2, <2>3, <2>5 DEF HeightInv, DomainsInv
<1>5. CASE Commit(s)
  <2>1. /\ at[s] = "insert" /\ left = 0 /\ conn = s /\ db' = dirty
        /\ conn' = None /\ left' = 0 /\ Finish(s, TRUE) /\ UNCHANGED faults
    BY <1>0, <1>5 DEF Commit, Release
  <2>2. HeightInv' /\ DomainsInv' /\ UNCHANGED <<added, want>>
    BY <2>1, <1>0, FinishHeights DEF DomainsInv
  <2>3. Rows(dirty, s[1], want[s], 0)
    BY <1>0, <2>1 DEF TablesInv
  <2>4. Sound(dirty) /\ \A b \in dirty.block : TxsFrom(dirty, b, 1)
    BY <2>3 DEF Rows
  <2>5. TablesInv'
    BY <2>1, <2>2, <2>4 DEF TablesInv, Sound, TxsFrom, Ids, BlockIds
  <2> QED
    BY <2>2, <2>5
<1>6. CASE Rollback(s)
  <2>1. at[s] = "insert" /\ conn' = None /\ left' = 0 /\ Finish(s, FALSE) /\ Fault /\ UNCHANGED db
    BY <1>6 DEF Rollback, Release
  <2>2. HeightInv' /\ DomainsInv' /\ UNCHANGED <<added, want>>
    BY <2>1, <1>2, FinishHeights
  <2>3. TablesInv'
    BY <1>0, <2>1, <2>2 DEF TablesInv, Sound, TxsFrom, Ids, BlockIds
  <2> QED
    BY <2>2, <2>3
<1>7. CASE BeginFails(s)
  <2>1. at[s] = "begin" /\ Finish(s, FALSE) /\ Fault /\ UNCHANGED <<conn, dirty, left, db>>
    BY <1>7 DEF BeginFails
  <2>2. HeightInv' /\ DomainsInv' /\ UNCHANGED <<added, want>>
    BY <2>1, <1>0, <1>2, FinishHeights DEF DomainsInv
  <2> QED
    BY <1>0, <2>1, <2>2, TablesKept
<1> QED
  BY <1>3, <1>4, <1>5, <1>6, <1>7

\* The invariant always holds.
LEMMA Soundness == Spec => []SInv
<1>1. SInv /\ [Next]_vars => SInv'
  <2> SUFFICES ASSUME SInv, [Next]_vars PROVE SInv'
    OBVIOUS
  <2>1. IInv'
    BY NextIInv DEF SInv
  <2>2. CASE UNCHANGED vars
    <3>1. /\ UNCHANGED <<height, cancelled, faults, tracking, added, fields, stopped, closing>>
          /\ UNCHANGED <<at, want, flights, conn, dirty, left, db, next>>
      BY <2>2 DEF vars, envVars, setVars, saveVars
    <3> QED
      BY <2>1, <3>1, TablesKept DEF SInv, HeightInv, DomainsInv
  <2>3. CASE Next
    BY <2>1, <2>3, OutsideSInv, InsideSInv DEF Next, Save, SInv
  <2> QED
    BY <2>2, <2>3
<1> QED
  BY <1>1, InitSInv, PTL DEF Spec

\* Every variable stays in its domain, for any chains, blocks and transactions:
\* a collector is at most one above its chain, and no transaction is without its
\* block.
THEOREM TypeCorrect == Spec => []TypeOK
<1>1. SInv => TypeOK
  <2> SUFFICES ASSUME SInv PROVE TypeOK
    OBVIOUS
  <2> USE CollectorAssumption
  <2>1. FunctionsOK /\ HeightInv /\ DomainsInv /\ Sound(db) /\ conn \in Savers \cup {None}
    BY DEF SInv, IInv, ConnInv, TablesInv
  <2>2. height \in [Chains -> Heights \cup {0}]
    <3> SUFFICES ASSUME NEW c \in Chains PROVE height[c] \in Heights \cup {0}
      BY <2>1 DEF HeightInv
    <3>1. height[c] \in Nat /\ 1 .. height[c] \subseteq Heights
      BY <2>1 DEF HeightInv
    <3> QED
      BY <3>1
  <2>3. \A c \in Chains : next[c] >= 1 /\ next[c] <= height[c] + 1
    BY <2>1 DEF FunctionsOK, HeightInv
  <2>4. at \in [Savers -> {"off", "add", "idle", "found", "begin", "insert", "joined"}]
    BY <2>1 DEF FunctionsOK, Busy
  <2>5. \A b \in db.block : b[1] \in added /\ b[2] \in Heights
    BY <2>1 DEF Sound
  <2>6. \A x \in db.tx : x[1] \in {b[3] : b \in db.block}
    BY <2>1 DEF Sound, BlockIds
  <2> QED
    BY <2>1, <2>2, <2>3, <2>4, <2>5, <2>6 DEF TypeOK, HeightInv, DomainsInv
<1> QED
  BY <1>1, Soundness, PTL

\* A block that is in the database has one row, and each of its transactions one,
\* however often and by whomever it was saved and whichever of the calls failed.
THEOREM Idempotent == Spec => []SavedOnce
<1>1. SInv => SavedOnce
  <2> SUFFICES ASSUME SInv, NEW c \in Chains, NEW h \in SavedHeights(c)
               PROVE  \E b \in db.block :
                        /\ {r \in db.block : r[1] = c /\ r[2] = h} = {b}
                        /\ {x \in db.tx : x[1] = b[3]} = {b[3]} \X (1 .. Txs[h])
    BY DEF SavedOnce
  <2>1. Sound(db) /\ \A b \in db.block : TxsFrom(db, b, 1)
    BY DEF SInv, TablesInv
  <2>2. PICK b \in db.block : b[1] = c /\ b[2] = h
    BY DEF SavedHeights
  <2>3. {r \in db.block : r[1] = c /\ r[2] = h} = {b}
    BY <2>1, <2>2 DEF Sound
  <2>4. {x \in db.tx : x[1] = b[3]} = {b[3]} \X (1 .. Txs[h])
    BY <2>1, <2>2 DEF TxsFrom
  <2> QED
    BY <2>3, <2>4
<1> QED
  BY <1>1, Soundness, PTL
=============================================================================
