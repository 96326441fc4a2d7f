---------------------------- MODULE BlockCollector ----------------------------
(***************************************************************************)
(* chainSet.TrackBlocks and Close with the blockdb collectors they manage. *)
(*                                                                         *)
(* Every chain of the set has a collector that saves block after block in  *)
(* one sqlite database, whose only connection a transaction holds from     *)
(* begin to commit or rollback.  SaveBlock of one height may be called     *)
(* again while or after the collector saves it.                            *)
(***************************************************************************)
EXTENDS Naturals, FiniteSets

CONSTANTS
  Chains,
  Heights,   \* bound on the heights the chains reach: 1 .. n
  Txs,       \* [Heights -> Nat]: how many transactions a block has
  MaxFaults, \* bound on the statements that fail without a done context
  None

ASSUME CollectorAssumption ==
  /\ Txs \in [Heights -> Nat] /\ Heights \subseteq Nat \ {0}
  /\ MaxFaults \in Nat /\ None \notin Chains \X {"collector", "again"}

Savers == Chains \X {"collector", "again"}  \* the callers of SaveBlock
Collector(c) == <<c, "collector">>

VARIABLES
  height,   \* per chain: the latest height it has
  tracking, \* TrackBlocks: "no", "yes"; "none": no database file
  added,    \* chains AddChain has put in the database
  next,     \* per collector: the height it is at
  at,       \* per saver: where it is
  want,     \* per saver: the height its SaveBlock is for
  flights,  \* singleflight: savers that run saveBlock; others wait for them
  conn,     \* the saver whose transaction holds the connection
  dirty,    \* what that transaction has written so far
  left,     \* transactions it still has to insert
  db,       \* the committed tables: [block: <<chain, height, id>>, tx: <<id, index>>]
  cancelled,\* the context given to Build is done
  faults,   \* statements that failed so far
  fields,   \* the collectors that chainSet.collectors of the Setup refers to
  stopped,  \* the collectors Stop was called on
  closing   \* Close: "no", "waiting" for the collectors, "returned"

envVars  == <<height, cancelled, faults>>
setVars  == <<tracking, added, fields, stopped, closing>>
saveVars == <<at, want, flights, conn, dirty, left, db, next>>
vars     == <<envVars, setVars, saveVars>>

NoRows == [block |-> {}, tx |-> {}]

Init ==
  /\ height = [c \in Chains |-> 0] /\ cancelled = FALSE /\ faults = 0
  /\ tracking = "no" /\ added = {} /\ fields = {} /\ stopped = {} /\ closing = "no"
  /\ next = [c \in Chains |-> 1]
  /\ at = [s \in Savers |-> "off"] /\ want = [s \in Savers |-> 0]
  /\ flights = {} /\ conn = None /\ dirty = NoRows /\ left = 0 /\ db = NoRows

-----------------------------------------------------------------------------
(* The chain set. *)

\* The receiver of TrackBlocks is a value: collectors, group and database are
\* assigned to a copy of the chain set.
TrackBlocks ==
  /\ tracking = "no" /\ closing = "no"
  /\ \/ /\ tracking' = "yes"
        /\ at' = [s \in Savers |-> IF s[2] = "collector" THEN "add" ELSE "idle"]
     \/ tracking' = "none" /\ UNCHANGED at
  /\ UNCHANGED <<envVars, added, fields, stopped, closing>>
  /\ UNCHANGED <<want, flights, conn, dirty, left, db, next>>

\* AddChain, then Collect; without the row the chain is not collected.
AddChain(c) ==
  /\ at[Collector(c)] = "add" /\ conn = None
  /\ \/ added' = added \cup {c} /\ at' = [at EXCEPT ![Collector(c)] = "idle"]
     \/ at' = [at EXCEPT ![Collector(c)] = "off"] /\ UNCHANGED added
  /\ UNCHANGED <<envVars, tracking, fields, stopped, closing>>
  /\ UNCHANGED <<want, flights, conn, dirty, left, db, next>>

\* Close stops the collectors it knows and waits for them.
Close ==
  /\ closing = "no" /\ closing' = "waiting"
  /\ stopped' = fields
  /\ UNCHANGED <<envVars, tracking, added, fields, saveVars>>

CloseReturns ==
  /\ closing = "waiting" /\ closing' = "returned"
  /\ \A c \in fields : at[Collector(c)] = "off"
  /\ UNCHANGED <<envVars, tracking, added, fields, stopped, saveVars>>

-----------------------------------------------------------------------------
(* SaveBlock. *)

Ids(t) == {b[3] : b \in t.block} \cup {x[1] : x \in t.tx}
NewId(t) == CHOOSE i \in 1 .. Cardinality(Ids(t)) + 1 : i \notin Ids(t)

(* Mutants: Replace without the cascade, and an INSERT in its place.        *)
ReplaceNoCascade(t, c, h) ==
  [t EXCEPT !.block = {b \in @ : b[1] # c \/ b[2] # h} \cup {<<c, h, NewId(t)>>}]
InsertBlock(t, c, h) == [t EXCEPT !.block = @ \cup {<<c, h, NewId(t)>>}]

\* INSERT OR REPLACE INTO block: the row of the same chain and height goes, and
\* with it, as foreign keys cascade, the rows of its transactions.
Replace(t, c, h) ==
  LET old == {b \in t.block : b[1] = c /\ b[2] = h}
  IN [block |-> (t.block \ old) \cup {<<c, h, NewId(t)>>},
      tx    |-> {x \in t.tx : \A b \in old : b[3] # x[1]}]

\* INSERT INTO tx for the block of chain c at height h.
Insert(t, c, h, i) ==
  [t EXCEPT !.tx = @ \cup {<<b[3], i>> : b \in {r \in t.block : r[1] = c /\ r[2] = h}}]

\* singleflight joins calls for the same chain, height and transactions.
Leads(l, s) == l \in flights /\ l[1] = s[1] /\ want[l] = want[s]

\* A mutant: the collector goes on after an error.
FinishAnyway(l, ok) ==
  LET back == {s \in Savers : s = l \/ (at[s] = "joined" /\ Leads(l, s))}
  IN /\ at' = [s \in Savers |-> IF s \in back THEN "idle" ELSE at[s]]
     /\ next' = IF Collector(l[1]) \in back THEN [next EXCEPT ![l[1]] = @ + 1] ELSE next
     /\ flights' = flights \ {l}
     /\ UNCHANGED <<height, cancelled, setVars, want>>

\* SaveBlock returns to the leader and to those that joined it.  A collector
\* only goes on to the next height if it returned without error.
Finish(l, ok) ==
  LET back == {s \in Savers : s = l \/ (at[s] = "joined" /\ Leads(l, s))}
  IN /\ at' = [s \in Savers |-> IF s \in back THEN "idle" ELSE at[s]]
     /\ next' = IF ok /\ Collector(l[1]) \in back THEN [next EXCEPT ![l[1]] = @ + 1] ELSE next
     /\ flights' = flights \ {l}
     /\ UNCHANGED <<height, cancelled, setVars, want>>

\* A tick of the collector: FindTxs fails above the chain's height, and may
\* fail for other reasons, in which case the next tick tries again.
FindTxs(c) ==
  /\ at[Collector(c)] = "idle" /\ c \in added
  /\ next[c] <= height[c]
  /\ at' = [at EXCEPT ![Collector(c)] = "found"]
  /\ want' = [want EXCEPT ![Collector(c)] = next[c]]
  /\ UNCHANGED <<envVars, setVars, flights, conn, dirty, left, db, next>>

\* Somebody saves once more a block the collector saved or is at.
Again(c, h) ==
  /\ at[<<c, "again">>] = "idle" /\ c \in added
  /\ h <= next[c] /\ h <= height[c]
  /\ at' = [at EXCEPT ![<<c, "again">>] = "found"]
  /\ want' = [want EXCEPT ![<<c, "again">>] = h]
  /\ UNCHANGED <<envVars, setVars, flights, conn, dirty, left, db, next>>

SaveBlock(s) ==
  /\ at[s] = "found"
  /\ IF \E l \in Savers : Leads(l, s)
     THEN at' = [at EXCEPT ![s] = "joined"] /\ UNCHANGED flights
     ELSE at' = [at EXCEPT ![s] = "begin"] /\ flights' = flights \cup {s}
  /\ UNCHANGED <<envVars, setVars, want, conn, dirty, left, db, next>>

\* A mutant: the old rows are deleted before the transaction begins.
BeginAfterDelete(s) ==
  /\ at[s] = "begin" /\ conn = None
  /\ conn' = s /\ at' = [at EXCEPT ![s] = "insert"]
  /\ dirty' = Replace(db, s[1], want[s]) /\ left' = Txs[want[s]]
  /\ db' = [db EXCEPT !.block = {b \in @ : b[1] # s[1] \/ b[2] # want[s]}]
  /\ UNCHANGED <<envVars, setVars, want, flights, next>>

\* BeginTx waits for the connection.
Begin(s) ==
  /\ at[s] = "begin" /\ conn = None
  /\ conn' = s /\ at' = [at EXCEPT ![s] = "insert"]
  /\ dirty' = Replace(db, s[1], want[s]) /\ left' = Txs[want[s]]
  /\ UNCHANGED <<envVars, setVars, want, flights, db, next>>

InsertTx(s) ==
  /\ at[s] = "insert" /\ left > 0
  /\ dirty' = Insert(dirty, s[1], want[s], left)
  /\ left' = left - 1
  /\ UNCHANGED <<envVars, setVars, at, want, flights, conn, db, next>>

Release == conn' = None /\ dirty' = NoRows /\ left' = 0

Commit(s) ==
  /\ at[s] = "insert" /\ left = 0
  /\ db' = dirty /\ Release /\ Finish(s, TRUE) /\ UNCHANGED faults

\* Any statement may fail; a context that is done makes all of them fail.
Fault ==
  \/ ~cancelled /\ faults < MaxFaults /\ faults' = faults + 1
  \/ cancelled /\ UNCHANGED faults

\* A mutant: the error path forgets tx.Rollback.
RollbackForgotten(s) ==
  /\ at[s] = "insert" /\ Fault
  /\ Finish(s, FALSE) /\ UNCHANGED <<conn, dirty, left, db>>

Rollback(s) ==
  /\ at[s] = "insert" /\ Fault
  /\ Release /\ Finish(s, FALSE) /\ UNCHANGED db

BeginFails(s) ==
  /\ at[s] = "begin" /\ Fault
  /\ Finish(s, FALSE) /\ UNCHANGED <<conn, dirty, left, db>>

-----------------------------------------------------------------------------
\* A mutant: only Stop ends a collector.
StoppedByStop(c) ==
  /\ at[Collector(c)] = "idle" /\ c \in stopped
  /\ at' = [at EXCEPT ![Collector(c)] = "off"]
  /\ UNCHANGED <<envVars, setVars, want, flights, conn, dirty, left, db, next>>

\* The collector sees that its context is done.
Stopped(c) ==
  /\ at[Collector(c)] = "idle" /\ (cancelled \/ c \in stopped)
  /\ at' = [at EXCEPT ![Collector(c)] = "off"]
  /\ UNCHANGED <<envVars, setVars, want, flights, conn, dirty, left, db, next>>

NewBlock(c) ==
  /\ height[c] + 1 \in Heights
  /\ height' = [height EXCEPT ![c] = @ + 1]
  /\ UNCHANGED <<cancelled, faults, setVars, saveVars>>

Cancel ==
  /\ ~cancelled /\ cancelled' = TRUE
  /\ UNCHANGED <<height, faults, setVars, saveVars>>

Save(s) == SaveBlock(s) \/ Begin(s) \/ InsertTx(s) \/ Commit(s) \/ Rollback(s) \/ BeginFails(s)

Next ==
  \/ TrackBlocks \/ Close \/ CloseReturns \/ Cancel
  \/ \E c \in Chains : AddChain(c) \/ FindTxs(c) \/ Stopped(c) \/ NewBlock(c)
  \/ \E c \in Chains, h \in Heights : Again(c, h)
  \/ \E s \in Savers : Save(s)

Spec == Init /\ [][Next]_vars

\* Goroutines run; the select of a collector does not pick a due tick over a
\* done context for ever; whoever waits for the connection gets it in turn.
FairSpec ==
  /\ Spec
  /\ WF_vars(CloseReturns)
  /\ \A c \in Chains : WF_vars(AddChain(c)) /\ WF_vars(FindTxs(c)) /\ SF_vars(Stopped(c))
  /\ \A s \in Savers : WF_vars(Save(s)) /\ SF_vars(Begin(s))
-----------------------------------------------------------------------------
(* Properties. *)

\* Every variable stays in its domain.
TypeOK ==
  /\ height \in [Chains -> Heights \cup {0}] /\ cancelled \in BOOLEAN /\ faults \in 0 .. MaxFaults
  /\ tracking \in {"no", "yes", "none"} /\ added \subseteq Chains /\ fields \subseteq Chains /\ stopped \subseteq fields
  /\ closing \in {"no", "waiting", "returned"}
  /\ \A c \in Chains : next[c] >= 1 /\ next[c] <= height[c] + 1
  /\ at \in [Savers -> {"off", "add", "idle", "found", "begin", "insert", "joined"}]
  /\ want \in [Savers -> Heights \cup {0}]
  /\ flights \subseteq Savers /\ conn \in Savers \cup {None} /\ left \in Nat
  /\ \A b \in db.block : b[1] \in added /\ b[2] \in Heights
  /\ \A x \in db.tx : x[1] \in {b[3] : b \in db.block}

SavedHeights(c) == {b[2] : b \in {r \in db.block : r[1] = c}}

\* The database has the blocks of a chain without a gap, and all up to the one
\* the collector is at.
NoGaps ==
  \A c \in Chains : /\ 1 .. next[c] - 1 \subseteq SavedHeights(c)
                    /\ SavedHeights(c) \subseteq 1 .. next[c]

\* "This method is idempotent": a block has one row, and every transaction of
\* the block is there exactly once, no matter how often and by whom it was
\* saved, and which of those calls failed.
SavedOnce ==
  \A c \in Chains : \A h \in SavedHeights(c) :
    \E b \in db.block :
      /\ {r \in db.block : r[1] = c /\ r[2] = h} = {b}
      /\ {x \in db.tx : x[1] = b[3]} = {b[3]} \X (1 .. Txs[h])

\* What was saved is never lost again, not even while it is replaced.
NeverLost == [][\A c \in Chains : SavedHeights(c) \subseteq SavedHeights(c)']_vars

\* A block of a collected chain gets saved, unless the context is done first.
EventuallySaved ==
  \A c \in Chains, h \in Heights :
    (c \in added /\ height[c] >= h) ~> (h \in SavedHeights(c) \/ cancelled)

\* A done context ends every collector.
CancelStops == cancelled ~> \A c \in Chains : at[Collector(c)] = "off" \/ tracking = "no"

\* Collectors get on, and they end.
CollectorsProgress == EventuallySaved /\ CancelStops

=============================================================================
