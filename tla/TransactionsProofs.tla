------------------------- MODULE TransactionsProofs -------------------------
(***************************************************************************)
(* Proofs about Transactions, for any callers, keys, operations and bounds.*)
(***************************************************************************)
EXTENDS Transactions, FiniteSetTheorems, TLAPS

-----------------------------------------------------------------------------
(* The inductive invariant.                                                *)

Places == {"idle", "lock", "read", "check", "wait", "getTx", "storeWait",
           "listCodes", "factory", "context", "submit", "buffer"}

\* Where a call has not submitted its transaction yet.
Before == {"lock", "read", "check", "factory", "context", "submit"}

Outcomes == {"ok", "rejected", "execError", "waitError", "failed", "notFound",
             "panic", "queryError", "error", "accepted"}

CallType == [op : Ops \cup {None}, n : Nat, round : 1 .. 2, seq : Nat,
             waited : (0 .. WaitBlocks) \cup {None}, tries : 0 .. MaxTries - 1,
             outcome : Outcomes \cup {None}, resp : Ids \cup {None}]
TxType   == [id : Ids, op : Ops, age : 0 .. MaxLag, ok : BOOLEAN]
Response == [id : Ids, ok : BOOLEAN]

CallsTyped == pc \in [Callers -> Places] /\ call \in [Callers -> CallType]
ChainTyped == txs \in Seq(TxType) /\ committed \in 0 .. Len(txs) /\ cut \subseteq Ids
BuffersOK  == buf \in [Callers -> Seq(Response)]
FlagsTyped == dym \in BOOLEAN /\ faults \in 0 .. MaxFaults

\* node.lock is held from Lock to the end of ExecTx.
Locked  == {"read", "check", "wait"}
LockInv == /\ lock \in Callers \cup {None}
           /\ \A c \in Callers : pc[c] \in Locked <=> lock = c

\* Transaction x was submitted before transaction y of the same caller.
Older(x, y) == x[2] < y[2] \/ (x[2] = y[2] /\ x[3] < y[3])

\* A caller's transactions are in the order of its calls, and none is there twice.
OrderInv ==
  /\ \A i, j \in DOMAIN txs : i < j /\ txs[i].id[1] = txs[j].id[1] => Older(txs[i].id, txs[j].id)
  /\ \A i \in DOMAIN txs : txs[i].op \in OpsOf[txs[i].id[1]]

Uncommitted   == committed + 1 .. Len(txs)
Pending(id)   == \E i \in Uncommitted : txs[i].id = id
Submitted(id) == \E i \in DOMAIN txs : txs[i].id = id

\* Which operations are where.
PlaceOK(c) ==
  /\ Op(c) \in OpsOf[c] \cup {None}
  /\ Op(c) = None => pc[c] = "idle"
  /\ pc[c] \in {"factory", "context", "submit", "buffer"} => Op(c) = "BroadcastTx"
  /\ Op(c) = "BroadcastTx" => pc[c] \in {"idle", "factory", "context", "submit", "buffer"}
  /\ pc[c] = "getTx" => Op(c) \in {"SendIBCTransfer", "TextProposal"}
  /\ pc[c] \in {"storeWait", "listCodes"} => Op(c) = "StoreContract"
  /\ pc[c] \in Before => call[c].waited = None

\* A caller's transactions are of its earlier calls, or of the present one once
\* it has submitted it.
OwnTxs(c) ==
  \A i \in DOMAIN txs : txs[i].id[1] = c =>
    \/ Older(txs[i].id, Tx(c))
    \/ txs[i].id = Tx(c) /\ pc[c] \notin Before /\ txs[i].op = Op(c)

\* The buffer has the response to the call's own transaction and nothing else,
\* and so the result of the call is about this one.
BufferOK(c) ==
  /\ pc[c] = "submit" => buf[c] = <<>>
  /\ pc[c] = "buffer" => \E ok \in BOOLEAN : buf[c] = <<[id |-> Tx(c), ok |-> ok]>>
                                             /\ (~ok => ~Submitted(Tx(c)))
  /\ pc[c] = "idle" /\ Op(c) = "BroadcastTx" /\ call[c].outcome # "error" =>
       /\ call[c].resp = Tx(c)
       /\ call[c].outcome = "ok" => Executed(Tx(c))
       /\ call[c].outcome = "rejected" => ~Submitted(Tx(c))

CallerOK(c) == PlaceOK(c) /\ OwnTxs(c) /\ BufferOK(c)

\* A transaction is in the mempool while its call waits for it, or was cut, and
\* the call has counted no more blocks than passed since.
WaitOK(c) ==
  /\ \A i \in Uncommitted : txs[i].id[1] = c /\ txs[i].id \notin cut => pc[c] = "wait" /\ txs[i].id = Tx(c)
  /\ pc[c] \in {"wait", "storeWait"} /\ call[c].waited # None =>
       \A i \in Uncommitted : txs[i].id = Tx(c) => call[c].waited <= txs[i].age
  /\ pc[c] = "wait" /\ ~Async(Op(c)) => Submitted(Tx(c))

\* After the wait it is in a block.
DoneOK(c) ==
  /\ pc[c] = "getTx" /\ ~dym => Found(Tx(c))
  /\ pc[c] = "listCodes" \/ (pc[c] = "idle" /\ Op(c) = "StoreContract" /\ call[c].outcome = "ok")
       => ~Pending(Tx(c))

\* What was accepted since a command read its sequence was cut.
FreshOK(c) ==
  pc[c] = "check" => \A i \in Of(KeyOf[c], Len(txs)) :
                       Cardinality(Of(KeyOf[c], i)) > call[c].seq => txs[i].id \in cut

\* What a call of each kind was told is so.
TransferOK(c) == pc[c] = "idle" /\ Op(c) = "SendIBCTransfer" =>
  /\ call[c].outcome = "ok" => Executed(Tx(c))
  /\ call[c].outcome = "failed" => Found(Tx(c)) /\ ~Executed(Tx(c))
  /\ call[c].outcome = "notFound" => dym \/ faults > 0
StoreOK(c) == pc[c] = "idle" /\ Op(c) = "StoreContract" /\ call[c].outcome = "ok" =>
  /\ Executed(call[c].resp)
  /\ Executed(Tx(c)) /\ (\A d \in Callers \ {c} : "StoreContract" \notin OpsOf[d])
       => call[c].resp = Tx(c)

TimelyOK(c) == WaitOK(c) /\ DoneOK(c) /\ FreshOK(c) /\ TransferOK(c) /\ StoreOK(c)

Typed == CallsTyped /\ ChainTyped /\ BuffersOK /\ FlagsTyped /\ LockInv
Safe  == Typed /\ OrderInv /\ \A c \in Callers : CallerOK(c)

\* What holds if a transaction is in a block before its call has waited.
Timely == \A c \in Callers : TimelyOK(c)

IInv == Safe /\ Timely

-----------------------------------------------------------------------------
(* The chain.                                                              *)

LEMMA Constants ==
  /\ None \notin Callers \cup Ops \cup Nat /\ WaitBlocks = 5
  /\ MaxLag \in Nat /\ MaxTries \in Nat \ {0} /\ MaxFaults \in Nat
  /\ KeyOf \in [Callers -> Keys] /\ OpsOf \in [Callers -> SUBSET Ops]
  BY TransactionsAssumption DEF WaitBlocks

\* The parts of a transaction's id.
LEMMA IdParts ==
  ASSUME NEW x \in Ids
  PROVE  x[1] \in Callers /\ x[2] \in Nat /\ x[3] \in 1 .. 2 /\ x = <<x[1], x[2], x[3]>>
  BY DEF Ids

\* Where the blocks end.
LEMMA ChainFacts ==
  ASSUME ChainTyped
  PROVE  /\ Len(txs) \in Nat /\ DOMAIN txs = 1 .. Len(txs) /\ committed \in Nat /\ committed <= Len(txs)
         /\ 1 .. committed \subseteq DOMAIN txs /\ Uncommitted \subseteq DOMAIN txs
         /\ \A i \in DOMAIN txs : txs[i] \in TxType /\ txs[i].id \in Ids /\ txs[i].id[1] \in Callers
<1>1. Len(txs) \in Nat /\ DOMAIN txs = 1 .. Len(txs) /\ \A i \in DOMAIN txs : txs[i] \in TxType
  BY DEF ChainTyped
<1>2. \A i \in DOMAIN txs : txs[i].id \in Ids
  BY <1>1 DEF TxType
<1> QED
  BY <1>1, <1>2, IdParts DEF ChainTyped, Uncommitted

\* No id is there twice.
LEMMA Unique ==
  ASSUME ChainTyped, OrderInv, NEW i \in DOMAIN txs, NEW j \in DOMAIN txs, txs[i].id = txs[j].id
  PROVE  i = j
<1>1. \A m, n \in DOMAIN txs : m < n => txs[m].id # txs[n].id
  <2> TAKE m, n \in DOMAIN txs
  <2>1. txs[m].id[2] \in Nat /\ txs[m].id[3] \in 1 .. 2
    BY ChainFacts, IdParts
  <2> QED
    BY <2>1 DEF OrderInv, Older
<1> QED
  BY <1>1, ChainFacts

\* CheckTx accepts t, or nothing.
Grows(t) == txs' \in {txs, Append(txs, t)} /\ committed' = committed

LEMMA Grown ==
  ASSUME ChainTyped, NEW t \in TxType, Grows(t)
  PROVE  /\ txs' \in Seq(TxType) /\ committed' \in 0 .. Len(txs')
         /\ Len(txs') \in Nat /\ DOMAIN txs' = 1 .. Len(txs')
         /\ Len(txs) <= Len(txs') /\ DOMAIN txs \subseteq DOMAIN txs'
         /\ \A i \in DOMAIN txs : txs'[i] = txs[i]
         /\ \A i \in DOMAIN txs' : i \in DOMAIN txs \/ (i = Len(txs) + 1 /\ txs'[i] = t)
         /\ 1 .. committed' = 1 .. committed /\ Uncommitted \subseteq Uncommitted'
         /\ \A i \in Uncommitted' : i \in Uncommitted \/ (i = Len(txs) + 1 /\ txs'[i] = t)
<1>1. CASE txs' = txs
  BY <1>1, ChainFacts DEF Grows, Uncommitted, ChainTyped
<1>2. CASE txs' = Append(txs, t)
  <2>1. /\ txs' \in Seq(TxType) /\ Len(txs') = Len(txs) + 1 /\ DOMAIN txs' = 1 .. Len(txs) + 1
        /\ \A i \in 1 .. Len(txs) : txs'[i] = txs[i]
        /\ txs'[Len(txs) + 1] = t
    BY <1>2 DEF ChainTyped
  <2> QED
    BY <2>1, ChainFacts DEF Grows, Uncommitted
<1> QED
  BY <1>1, <1>2 DEF Grows

\* What that changes: nothing but that t is now in the mempool.
LEMMA GrownKeeps ==
  ASSUME ChainTyped, NEW t \in TxType, Grows(t)
  PROVE  /\ \A id : (Found(id)' <=> Found(id)) /\ (Executed(id)' <=> Executed(id))
         /\ \A id : Submitted(id) => Submitted(id)'
         /\ \A id : Submitted(id)' => Submitted(id) \/ id = t.id
         /\ \A id : Pending(id)' => Pending(id) \/ id = t.id
         /\ \A k : \A i \in 0 .. Len(txs) : Of(k, i)' = Of(k, i)
<1> USE ChainFacts, Grown
<1>1. ASSUME NEW id
      PROVE  (Found(id)' <=> Found(id)) /\ (Executed(id)' <=> Executed(id))
  BY DEF Found, Executed
<1>2. ASSUME NEW id
      PROVE  /\ Submitted(id) => Submitted(id)'
             /\ Submitted(id)' => Submitted(id) \/ id = t.id
  BY DEF Submitted
<1>3. ASSUME NEW id PROVE Pending(id)' => Pending(id) \/ id = t.id
  BY DEF Pending
<1>4. ASSUME NEW k, NEW i \in 0 .. Len(txs) PROVE Of(k, i)' = Of(k, i)
  BY DEF Of
<1> QED
  BY <1>1, <1>2, <1>3, <1>4

\* The transactions of a key up to a position are finitely many, and no fewer
\* than those up to an earlier one.
LEMMA Counting ==
  ASSUME NEW k, NEW i \in Nat, NEW j \in Nat, i <= j
  PROVE  /\ Cardinality(Of(k, i)) \in Nat /\ Cardinality(Of(k, j)) \in Nat
         /\ Cardinality(Of(k, i)) <= Cardinality(Of(k, j))
<1>1. IsFiniteSet(1 .. i) /\ IsFiniteSet(1 .. j)
  BY FS_Interval
<1>2. Of(k, i) \subseteq 1 .. i /\ Of(k, j) \subseteq 1 .. j /\ Of(k, i) \subseteq Of(k, j)
  BY DEF Of
<1>3. IsFiniteSet(Of(k, i)) /\ IsFiniteSet(Of(k, j))
  BY <1>1, <1>2, FS_Subset
<1> QED
  BY <1>2, <1>3, FS_CardinalityType, FS_Subset

\* A step of caller c leaves what is known of the others.
Apart(c, t) ==
  /\ Grows(t) /\ t.id[1] = c
  /\ cut \subseteq cut' /\ dym' = dym /\ faults' \in Nat /\ faults <= faults'
  /\ \A d \in Callers \ {c} : pc'[d] = pc[d] /\ call'[d] = call[d] /\ buf'[d] = buf[d]

LEMMA OthersKeep ==
  ASSUME Safe, NEW c \in Callers, NEW t \in TxType, Apart(c, t),
         NEW d \in Callers \ {c}
  PROVE  /\ CallerOK(d)'
         /\ TimelyOK(d) /\ (txs' # txs => t.id \in cut' \/ pc[d] # "check") => TimelyOK(d)'
<1>1. /\ ChainTyped /\ Grows(t) /\ CallerOK(d) /\ faults \in Nat
      /\ pc'[d] = pc[d] /\ call'[d] = call[d] /\ buf'[d] = buf[d] /\ Tx(d)' = Tx(d) /\ Op(d)' = Op(d)
      /\ dym' = dym /\ faults' \in Nat /\ faults <= faults' /\ cut \subseteq cut'
  BY Constants DEF Safe, Typed, FlagsTyped, Apart, Tx, Op
<1>2. t.id # Tx(d) /\ t.id[1] # d
  BY <1>1 DEF Apart, Tx
<1>3. PlaceOK(d)'
  BY <1>1 DEF CallerOK, PlaceOK
<1>4. OwnTxs(d)'
  BY <1>1, <1>2, Grown DEF CallerOK, OwnTxs
<1>5. /\ Submitted(Tx(d))' <=> Submitted(Tx(d))
      /\ Executed(Tx(d))' <=> Executed(Tx(d))
      /\ Found(Tx(d))' <=> Found(Tx(d))
      /\ Pending(Tx(d))' => Pending(Tx(d))
      /\ \A id : Executed(id)' <=> Executed(id)
  <2> DEFINE x == Tx(d)
  <2>1. x' = x
    BY <1>1
  <2> HIDE DEF x
  <2>2. x # t.id
    BY <1>2 DEF x
  <2>3. /\ Submitted(x)' <=> Submitted(x)
        /\ Executed(x)' <=> Executed(x)
        /\ Found(x)' <=> Found(x)
        /\ Pending(x)' => Pending(x)
    BY <1>1, <2>1, <2>2, Grown, ChainFacts DEF Submitted, Executed, Found, Pending
  <2> QED
    BY <1>1, <2>3, GrownKeeps DEF x
<1>6. BufferOK(d)'
  BY <1>1, <1>5 DEF CallerOK, BufferOK
<1>7. ASSUME TimelyOK(d), txs' # txs => t.id \in cut' \/ pc[d] # "check" PROVE TimelyOK(d)'
  <2>1. WaitOK(d)'
    <3>1. \A i \in Uncommitted' : txs'[i].id[1] = d => i \in Uncommitted /\ txs'[i] = txs[i]
      <4> TAKE i \in Uncommitted'
      <4>1. i \in Uncommitted \/ txs'[i] = t
        BY <1>1, Grown
      <4>2. i \in Uncommitted => txs'[i] = txs[i]
        BY <1>1, Grown, ChainFacts
      <4> QED
        BY <1>2, <4>1, <4>2
    <3>2. Tx(d)[1] = d
      BY DEF Tx
    <3>3. \A i \in Uncommitted' : txs'[i].id[1] = d /\ txs'[i].id \notin cut' => pc'[d] = "wait" /\ txs'[i].id = Tx(d)'
      BY <1>1, <1>7, <3>1 DEF TimelyOK, WaitOK
    <3>4. pc'[d] \in {"wait", "storeWait"} /\ call'[d].waited # None =>
            \A i \in Uncommitted' : txs'[i].id = Tx(d)' => call'[d].waited <= txs'[i].age
      BY <1>1, <1>7, <3>1, <3>2 DEF TimelyOK, WaitOK
    <3>5. pc'[d] = "wait" /\ ~Async(Op(d)') => Submitted(Tx(d))'
      BY <1>1, <1>5, <1>7 DEF TimelyOK, WaitOK
    <3> QED
      BY <3>3, <3>4, <3>5 DEF WaitOK
  <2>2. DoneOK(d)'
    BY <1>1, <1>5, <1>7 DEF TimelyOK, DoneOK
  <2>3. FreshOK(d)'
    <3> SUFFICES ASSUME pc[d] = "check", NEW i \in Of(KeyOf[d], Len(txs))',
                        Cardinality(Of(KeyOf[d], i)') > call[d].seq
                 PROVE  txs'[i].id \in cut'
      BY <1>1 DEF FreshOK
    <3>1. i \in DOMAIN txs' /\ KeyOf[txs'[i].id[1]] = KeyOf[d]
      BY <1>1, Grown DEF Of
    <3>2. CASE i \in DOMAIN txs
      <4>1. i \in 0 .. Len(txs) /\ txs'[i] = txs[i]
        BY <1>1, <3>2, Grown, ChainFacts
      <4>2. Of(KeyOf[d], i)' = Of(KeyOf[d], i)
        BY <1>1, <4>1, GrownKeeps
      <4>3. i \in Of(KeyOf[d], Len(txs))
        BY <1>1, <3>1, <3>2, <4>1, ChainFacts DEF Of
      <4> QED
        BY <1>1, <1>7, <4>1, <4>2, <4>3 DEF TimelyOK, FreshOK
    <3>3. CASE i \notin DOMAIN txs
      <4>1. txs'[i] = t /\ txs' # txs
        BY <1>1, <3>1, <3>3, Grown
      <4> QED
        BY <1>7, <4>1
    <3> QED
      BY <3>2, <3>3
  <2>4. TransferOK(d)' /\ StoreOK(d)'
    BY <1>1, <1>5, <1>7, Constants DEF TimelyOK, TransferOK, StoreOK
  <2> QED
    BY <2>1, <2>2, <2>3, <2>4 DEF TimelyOK
<1> QED
  BY <1>3, <1>4, <1>6, <1>7 DEF CallerOK

-----------------------------------------------------------------------------
(* Steps of a caller.                                                      *)

NewTx(c) == [id |-> Tx(c), op |-> Op(c), age |-> 0, ok |-> TRUE]

LEMMA CallFacts ==
  ASSUME Safe, NEW c \in Callers
  PROVE  /\ pc[c] \in Places /\ call[c] \in CallType /\ Tx(c) \in Ids /\ Op(c) \in Ops \cup {None}
         /\ Tx(c)[1] = c /\ Tx(c)[2] = call[c].n /\ Tx(c)[3] = call[c].round
         /\ call[c].n \in Nat /\ call[c].round \in 1 .. 2
         /\ pc[c] # "idle" => Op(c) \in OpsOf[c] /\ Op(c) \in Ops /\ NewTx(c) \in TxType
<1>1. pc[c] \in Places /\ call[c] \in CallType
  BY DEF Safe, Typed, CallsTyped
<1>2. /\ call[c].n \in Nat /\ call[c].round \in 1 .. 2 /\ Op(c) \in Ops \cup {None}
      /\ Tx(c) \in Ids /\ Tx(c)[1] = c /\ Tx(c)[2] = call[c].n /\ Tx(c)[3] = call[c].round
  BY <1>1 DEF CallType, Op, Tx, Ids
<1>3. pc[c] # "idle" => Op(c) \in OpsOf[c]
  BY DEF Safe, CallerOK, PlaceOK
<1>4. pc[c] # "idle" => Op(c) \in Ops
  BY <1>3, Constants
<1> QED
  BY <1>1, <1>2, <1>3, <1>4, Constants DEF NewTx, TxType

\* The caller submits its transaction, or nothing.
LEMMA Ordered ==
  ASSUME Safe, NEW c \in Callers, NEW t \in TxType, Grows(t),
         txs' # txs => t = NewTx(c) /\ pc[c] \in {"check", "submit"}
  PROVE  OrderInv'
<1>1. CASE txs' = txs
  BY <1>1 DEF Safe, OrderInv
<1>2. CASE txs' # txs
  <2>1. ChainTyped /\ OrderInv /\ t.id = Tx(c) /\ t.op = Op(c) /\ pc[c] \in Before /\ pc[c] # "idle"
    BY <1>2 DEF Safe, Typed, NewTx, Before
  <2>2. \A i \in DOMAIN txs : txs[i].id[1] = c => Older(txs[i].id, Tx(c))
    BY <2>1 DEF Safe, CallerOK, OwnTxs
  <2>3. \A i, j \in DOMAIN txs' : i < j /\ txs'[i].id[1] = txs'[j].id[1] => Older(txs'[i].id, txs'[j].id)
    <3> TAKE i, j \in DOMAIN txs'
    <3>1. CASE j \in DOMAIN txs
      <4>1. i < j => i \in DOMAIN txs
        BY <2>1, <3>1, Grown, ChainFacts
      <4> QED
        BY <2>1, <3>1, <4>1, Grown DEF OrderInv
    <3>2. CASE j \notin DOMAIN txs
      <4>1. txs'[j].id = Tx(c) /\ txs'[j].id[1] = c /\ (i < j => i \in DOMAIN txs)
        BY <2>1, <3>2, Grown, ChainFacts, CallFacts
      <4> QED
        BY <2>1, <2>2, <4>1, Grown
    <3> QED
      BY <3>1, <3>2
  <2>4. \A i \in DOMAIN txs' : txs'[i].op \in OpsOf[txs'[i].id[1]]
    <3> TAKE i \in DOMAIN txs'
    <3>1. CASE i \in DOMAIN txs
      BY <2>1, <3>1, Grown DEF OrderInv
    <3>2. CASE i \notin DOMAIN txs
      BY <2>1, <3>2, Grown, CallFacts
    <3> QED
      BY <3>1, <3>2
  <2> QED
    BY <2>3, <2>4 DEF OrderInv
<1> QED
  BY <1>1, <1>2

\* The caller moves to p, its call being k then and its buffer b.
Moves(c, p, k, b) ==
  /\ pc' = [pc EXCEPT ![c] = p] /\ call' = [call EXCEPT ![c] = k] /\ buf' = [buf EXCEPT ![c] = b]
  /\ dym' = dym /\ faults' \in 0 .. MaxFaults /\ faults <= faults'
  /\ cut' \in {cut, cut \cup {Tx(c)}}
  /\ txs' \in {txs, Append(txs, NewTx(c))} /\ committed' = committed
  /\ txs' # txs => pc[c] \in {"check", "submit"}
  /\ \/ lock' = lock /\ (p \in Locked <=> pc[c] \in Locked)
     \/ lock = None /\ lock' = c /\ p \in Locked
     \/ pc[c] \in Locked /\ lock' = None /\ p \notin Locked

LEMMA MovedTo ==
  ASSUME Safe, NEW c \in Callers, NEW p \in Places, NEW k \in CallType, NEW b \in Seq(Response),
         Moves(c, p, k, b)
  PROVE  /\ pc'[c] = p /\ call'[c] = k /\ buf'[c] = b
         /\ Op(c)' = k.op /\ Tx(c)' = <<c, k.n, k.round>>
         /\ \A d \in Callers \ {c} : pc'[d] = pc[d] /\ call'[d] = call[d] /\ buf'[d] = buf[d]
         /\ CallsTyped' /\ BuffersOK' /\ FlagsTyped' /\ LockInv'
<1>1. /\ pc'[c] = p /\ call'[c] = k /\ buf'[c] = b
      /\ \A d \in Callers \ {c} : pc'[d] = pc[d] /\ call'[d] = call[d] /\ buf'[d] = buf[d]
      /\ CallsTyped' /\ BuffersOK' /\ FlagsTyped'
  BY DEF Safe, Typed, CallsTyped, BuffersOK, FlagsTyped, Moves
<1>2. LockInv'
  <2>1. /\ LockInv /\ c # None
        /\ \/ lock' = lock /\ (p \in Locked <=> pc[c] \in Locked)
           \/ lock = None /\ lock' = c /\ p \in Locked
           \/ pc[c] \in Locked /\ lock' = None /\ p \notin Locked
    BY Constants DEF Safe, Typed, Moves
  <2>2. lock' \in Callers \cup {None}
    BY <2>1 DEF LockInv
  <2>3. ASSUME NEW d \in Callers PROVE pc'[d] \in Locked <=> lock' = d
    BY <1>1, <2>1, Constants DEF LockInv
  <2> QED
    BY <2>2, <2>3 DEF LockInv
<1> QED
  BY <1>1, <1>2 DEF Op, Tx

\* Then the invariants have to be seen for this caller only.
LEMMA MovesKeep ==
  ASSUME Safe, NEW c \in Callers, NEW p \in Places, NEW k \in CallType, NEW b \in Seq(Response),
         Moves(c, p, k, b), CallerOK(c)'
  PROVE  /\ Safe'
         /\ Timely /\ TimelyOK(c)' /\ (txs' # txs => pc[c] = "check" \/ Tx(c) \in cut') => Timely'
<1> DEFINE any == [id |-> <<c, 0, 1>>, op |-> "SendFunds", age |-> 0, ok |-> TRUE]
<1>1. PICK t \in TxType : /\ t.id[1] = c /\ Grows(t)
                          /\ txs' # txs => t = NewTx(c) /\ pc[c] \in {"check", "submit"}
  <2>1. CASE txs' = txs
    <3>1. any \in TxType /\ any.id[1] = c
      BY Constants DEF TxType, Ids, Ops
    <3> QED
      BY <2>1, <3>1 DEF Moves, Grows
  <2>2. CASE txs' # txs
    BY <2>2, CallFacts DEF Moves, Grows, NewTx
  <2> QED
    BY <2>1, <2>2
<1>2. Apart(c, t) /\ cut' \subseteq Ids
  BY <1>1, MovedTo, CallFacts, Constants DEF Apart, Moves, Safe, Typed, FlagsTyped, ChainTyped
<1>3. ChainTyped'
  BY <1>1, <1>2, Grown DEF ChainTyped, Safe, Typed
<1>4. \A d \in Callers \ {c} : CallerOK(d)'
  BY <1>2, OthersKeep
<1>5. Safe'
  BY <1>1, <1>3, <1>4, MovedTo, Ordered DEF Safe, Typed
<1>6. ASSUME Timely, TimelyOK(c)', txs' # txs => pc[c] = "check" \/ Tx(c) \in cut' PROVE Timely'
  <2>1. ASSUME NEW d \in Callers \ {c} PROVE TimelyOK(d)'
    <3>1. txs' # txs => t.id \in cut' \/ pc[d] # "check"
      <4>1. pc[c] = "check" => pc[d] # "check"
        BY DEF Safe, Typed, LockInv, Locked
      <4> QED
        BY <1>1, <1>6, <4>1 DEF NewTx
    <3> QED
      BY <1>2, <1>6, <3>1, OthersKeep DEF Timely
  <2> QED
    BY <1>6, <2>1 DEF Timely
<1> QED
  BY <1>5, <1>6

\* A call that returns is done with.
Returned(c, o, r) == [Idle EXCEPT !.op = call[c].op, !.n = call[c].n, !.round = call[c].round,
                                  !.outcome = o, !.resp = r]

LEMMA IdleTyped == Idle \in CallType /\ Idle.waited = None /\ Idle.round = 1
  BY Constants DEF Idle, CallType

LEMMA ReturnedTyped ==
  ASSUME Safe, NEW c \in Callers, NEW o \in Outcomes, NEW r \in Ids \cup {None}
  PROVE  /\ Returned(c, o, r) \in CallType /\ Returned(c, o, r).op = Op(c)
         /\ Returned(c, o, r).n = call[c].n /\ Returned(c, o, r).round = call[c].round
         /\ Returned(c, o, r).outcome = o /\ Returned(c, o, r).resp = r
<1>1. Op(c) \in Ops \cup {None} /\ call[c].n \in Nat /\ call[c].round \in 1 .. 2
  BY CallFacts
<1>2. Returned(c, o, r) = [Idle EXCEPT !.op = Op(c), !.n = call[c].n, !.round = call[c].round,
                                       !.outcome = o, !.resp = r]
  BY DEF Returned, Op
<1> QED
  BY <1>1, <1>2, IdleTyped DEF CallType

Begun(op, n, r) == [Idle EXCEPT !.op = op, !.n = n, !.round = r]

LEMMA BegunTyped ==
  ASSUME NEW op \in Ops, NEW n \in Nat, NEW r \in 1 .. 2
  PROVE  /\ Begun(op, n, r) \in CallType /\ Begun(op, n, r).op = op
         /\ Begun(op, n, r).n = n /\ Begun(op, n, r).round = r /\ Begun(op, n, r).waited = None
  BY IdleTyped DEF Begun, CallType

\* The caller's transactions stay in order if it begins the next one, or goes on
\* with the present one.
LEMMA OwnKept ==
  ASSUME Safe, NEW c \in Callers, NEW p \in Places, NEW k \in CallType, NEW b \in Seq(Response),
         Moves(c, p, k, b),
         \/ Older(Tx(c), <<c, k.n, k.round>>)
         \/ /\ k.op = Op(c) /\ k.n = call[c].n /\ k.round = call[c].round
            /\ p \in Before => pc[c] \in Before /\ txs' = txs
  PROVE  OwnTxs(c)'
<1>1. /\ pc'[c] = p /\ Op(c)' = k.op /\ Tx(c)' = <<c, k.n, k.round>> /\ k.n \in Nat /\ k.round \in 1 .. 2
      /\ ChainTyped /\ Tx(c) = <<c, call[c].n, call[c].round>> /\ call[c].n \in Nat /\ call[c].round \in 1 .. 2
  BY MovedTo, CallFacts DEF CallType, Safe, Typed, Tx
<1>2. \A i \in DOMAIN txs : txs[i].id[1] = c =>
        \/ Older(txs[i].id, Tx(c))
        \/ txs[i].id = Tx(c) /\ pc[c] \notin Before /\ txs[i].op = Op(c)
  BY DEF Safe, CallerOK, OwnTxs
<1>3. \A i \in DOMAIN txs' :
        \/ i \in DOMAIN txs /\ txs'[i] = txs[i]
        \/ txs' # txs /\ txs'[i].id = Tx(c) /\ txs'[i].op = Op(c)
  <2>1. CASE txs' = txs
    BY <2>1
  <2>2. CASE txs' # txs
    <3>1. NewTx(c) \in TxType /\ Grows(NewTx(c)) /\ NewTx(c).id = Tx(c) /\ NewTx(c).op = Op(c)
      BY <2>2, CallFacts DEF Moves, Grows, NewTx
    <3> QED
      BY <1>1, <2>2, <3>1, Grown
  <2> QED
    BY <2>1, <2>2
<1>4. ASSUME NEW i \in DOMAIN txs', txs'[i].id[1] = c
      PROVE  \/ Older(txs'[i].id, <<c, k.n, k.round>>)
             \/ txs'[i].id = <<c, k.n, k.round>> /\ p \notin Before /\ txs'[i].op = k.op
  <2>1. CASE Older(Tx(c), <<c, k.n, k.round>>)
    <3>1. ASSUME Older(txs'[i].id, Tx(c)), txs'[i].id \in Ids PROVE Older(txs'[i].id, <<c, k.n, k.round>>)
      <4>1. txs'[i].id[2] \in Nat /\ txs'[i].id[3] \in 1 .. 2
        BY <3>1, IdParts
      <4> QED
        BY <1>1, <2>1, <3>1, <4>1 DEF Older
    <3> QED
      BY <1>1, <1>2, <1>3, <1>4, <2>1, <3>1, ChainFacts
  <2>2. CASE /\ k.op = Op(c) /\ k.n = call[c].n /\ k.round = call[c].round
             /\ p \in Before => pc[c] \in Before /\ txs' = txs
    BY <1>1, <1>2, <1>3, <1>4, <2>2
  <2> QED
    BY <2>1, <2>2
<1> QED
  BY <1>1, <1>4 DEF OwnTxs

\* What a step of c that adds at most its own transaction leaves of the chain.
LEMMA MovedChain ==
  ASSUME Safe, NEW c \in Callers, NEW p \in Places, NEW k \in CallType, NEW b \in Seq(Response),
         Moves(c, p, k, b)
  PROVE  /\ \A id : (Found(id)' <=> Found(id)) /\ (Executed(id)' <=> Executed(id))
         /\ \A id : Submitted(id)' => Submitted(id) \/ (txs' # txs /\ id = Tx(c))
         /\ \A id : Submitted(id) => Submitted(id)'
         /\ \A id : Pending(id)' => Pending(id) \/ (txs' # txs /\ id = Tx(c))
         /\ \A i \in Uncommitted' : \/ i \in Uncommitted /\ txs'[i] = txs[i]
                                    \/ txs' # txs /\ txs'[i].id = Tx(c) /\ txs'[i].age = 0
         /\ committed' = committed /\ \A i \in 1 .. committed : txs'[i] = txs[i]
<1>1. CASE txs' = txs
  <2>1. committed' = committed
    BY DEF Moves
  <2> QED
    BY <1>1, <2>1 DEF Found, Executed, Submitted, Pending, Uncommitted
<1>2. CASE txs' # txs
  <2>1. /\ ChainTyped /\ NewTx(c) \in TxType /\ Grows(NewTx(c))
        /\ NewTx(c).id = Tx(c) /\ NewTx(c).age = 0
    BY <1>2, CallFacts DEF Safe, Typed, Moves, Grows, NewTx
  <2>2. \A i \in Uncommitted' : \/ i \in Uncommitted /\ txs'[i] = txs[i]
                                \/ txs'[i].id = Tx(c) /\ txs'[i].age = 0
    BY <2>1, Grown, ChainFacts
  <2>3. committed' = committed /\ \A i \in 1 .. committed : txs'[i] = txs[i]
    BY <2>1, Grown, ChainFacts DEF Grows
  <2> QED
    BY <1>2, <2>1, <2>2, <2>3, GrownKeeps
<1> QED
  BY <1>1, <1>2

\* ExecTx returns with o, and its caller goes on.
ExecTxLeaves(c, o) ==
  /\ pc[c] \in Locked /\ ExecTxReturns(c, o)
  /\ buf' = buf /\ dym' = dym /\ faults' \in 0 .. MaxFaults /\ faults <= faults'
  /\ cut' \in {cut, cut \cup {Tx(c)}}
  /\ txs' \in {txs, Append(txs, NewTx(c))} /\ committed' = committed
  /\ txs' # txs => pc[c] = "check"

LEMMA ExecTxLeads ==
  ASSUME Safe, NEW c \in Callers, NEW o \in {"ok", "rejected", "execError", "waitError"}, ExecTxLeaves(c, o)
  PROVE  /\ Safe'
         /\ /\ Timely
            /\ \A i \in Uncommitted' : txs'[i].id[1] = c => txs'[i].id \in cut'
            /\ o = "ok" /\ ~dym /\ Op(c) \in {"SendIBCTransfer", "TextProposal"} => Found(Tx(c))
            => Timely'
<1> DEFINE Onward(p, k) ==
      /\ k.op = Op(c) /\ k.n = call[c].n
      /\ \/ /\ p = "lock" /\ Op(c) = "RegisterRollAppToHub" /\ call[c].round = 1 /\ k.round = 2
            /\ k.waited = None
         \/ /\ p = "getTx" /\ Op(c) \in {"SendIBCTransfer", "TextProposal"} /\ o = "ok"
            /\ k.round = call[c].round
         \/ p = "storeWait" /\ Op(c) = "StoreContract" /\ k.round = call[c].round /\ k.waited = None
         \/ /\ p = "idle" /\ k.round = call[c].round /\ k.outcome = o
            /\ Op(c) \in {"SendIBCTransfer", "TextProposal", "StoreContract"} => o # "ok"
<1>1. /\ buf[c] \in Seq(Response) /\ buf = [buf EXCEPT ![c] = buf[c]]
      /\ call[c] \in CallType /\ call = [call EXCEPT ![c] = call[c]]
      /\ Op(c) \in Ops /\ PlaceOK(c) /\ call[c].n \in Nat /\ call[c].round \in 1 .. 2
      /\ Op(c) # "BroadcastTx" /\ Op(c) \in OpsOf[c]
  <2>1. buf[c] \in Seq(Response) /\ buf = [buf EXCEPT ![c] = buf[c]] /\ call = [call EXCEPT ![c] = call[c]]
    BY DEF Safe, Typed, BuffersOK, CallsTyped
  <2>2. pc[c] # "idle" /\ PlaceOK(c)
    BY DEF ExecTxLeaves, Locked, Safe, CallerOK
  <2> QED
    BY <2>1, <2>2, CallFacts DEF PlaceOK, ExecTxLeaves, Locked
<1>2. \E p \in Places, k \in CallType : Moves(c, p, k, buf[c]) /\ Onward(p, k)
  <2>1. ASSUME NEW p \in {"lock", "getTx", "storeWait", "idle"}, NEW k, Goto(c, p), call' = [call EXCEPT ![c] = k]
        PROVE  Moves(c, p, k, buf[c]) /\ p \in Places
    BY <1>1, <2>1 DEF ExecTxLeaves, ExecTxReturns, Moves, Locked, Goto, Places
  <2>2. CASE /\ Op(c) = "RegisterRollAppToHub" /\ call[c].round = 1 /\ Goto(c, "lock")
             /\ call' = [call EXCEPT ![c] = [Idle EXCEPT !.op = Op(c), !.n = call[c].n, !.round = 2]]
    <3> DEFINE k == Begun(Op(c), call[c].n, 2)
    <3>1. k \in CallType /\ k.op = Op(c) /\ k.n = call[c].n /\ k.round = 2 /\ k.waited = None
      BY <1>1, BegunTyped
    <3>2. call' = [call EXCEPT ![c] = k]
      BY <2>2 DEF Begun
    <3> HIDE DEF k
    <3> QED
      BY <2>1, <2>2, <3>1, <3>2
  <2>3. CASE Op(c) \in {"SendIBCTransfer", "TextProposal"} /\ o = "ok" /\ Goto(c, "getTx") /\ UNCHANGED call
    <3>1. call' = [call EXCEPT ![c] = call[c]] /\ call[c].op = Op(c)
      BY <1>1, <2>3 DEF Op
    <3> QED
      BY <1>1, <2>1, <2>3, <3>1
  <2>4. CASE Op(c) = "StoreContract" /\ o = "ok" /\ Goto(c, "storeWait") /\ call' = [call EXCEPT ![c].waited = None]
    <3> DEFINE k == [call[c] EXCEPT !.waited = None]
    <3>1. k \in CallType /\ k.op = Op(c) /\ k.n = call[c].n /\ k.round = call[c].round /\ k.waited = None
      BY <1>1 DEF CallType, Op
    <3>2. call' = [call EXCEPT ![c] = k]
      BY <1>1, <2>4
    <3> HIDE DEF k
    <3> QED
      BY <2>1, <2>4, <3>1, <3>2
  <2>5. CASE /\ Op(c) \in {"SendIBCTransfer", "TextProposal", "StoreContract"} => o # "ok"
             /\ Op(c) = "RegisterRollAppToHub" => call[c].round = 2
             /\ Return(c, o, None)
    <3> DEFINE k == Returned(c, o, None)
    <3>1. /\ k \in CallType /\ k.op = Op(c) /\ k.n = call[c].n /\ k.round = call[c].round
          /\ k.outcome = o
      <4>1. o \in Outcomes
        BY DEF Outcomes
      <4> QED
        BY <4>1, ReturnedTyped
    <3>2. Goto(c, "idle") /\ call' = [call EXCEPT ![c] = k]
      BY <2>5 DEF Return, Returned
    <3> HIDE DEF k
    <3> QED
      BY <2>1, <2>5, <3>1, <3>2
  <2> QED
    BY <2>2, <2>3, <2>4, <2>5 DEF ExecTxLeaves, ExecTxReturns, AfterExecTx
<1>3. PICK p \in Places, k \in CallType : Moves(c, p, k, buf[c]) /\ Onward(p, k)
  BY <1>2
<1>4. /\ pc'[c] = p /\ Op(c)' = Op(c) /\ call'[c] = k /\ Tx(c)' = <<c, k.n, k.round>>
      /\ p \in {"lock", "getTx", "storeWait", "idle"}
  BY <1>1, <1>3, MovedTo
<1>5. CallerOK(c)'
  <2>1. PlaceOK(c)'
    <3>1. Op(c)' \in OpsOf[c] /\ Op(c)' # None /\ Op(c)' # "BroadcastTx"
      BY <1>1, <1>4, Constants
    <3>2. p = "getTx" => Op(c)' \in {"SendIBCTransfer", "TextProposal"}
      BY <1>3, <1>4
    <3>3. p = "storeWait" => Op(c)' = "StoreContract"
      BY <1>3, <1>4
    <3>4. p \in Before => call'[c].waited = None
      BY <1>3, <1>4 DEF Before
    <3> QED
      BY <1>4, <3>1, <3>2, <3>3, <3>4 DEF PlaceOK
  <2>2. OwnTxs(c)'
    <3>1. \/ Older(Tx(c), <<c, k.n, k.round>>)
          \/ k.op = Op(c) /\ k.n = call[c].n /\ k.round = call[c].round /\ p \notin Before
      BY <1>1, <1>3 DEF Older, Tx, Before
    <3> QED
      BY <1>1, <1>3, <3>1, OwnKept
  <2>3. BufferOK(c)'
    BY <1>1, <1>4 DEF BufferOK
  <2> QED
    BY <2>1, <2>2, <2>3 DEF CallerOK
<1>6. ASSUME Timely, \A i \in Uncommitted' : txs'[i].id[1] = c => txs'[i].id \in cut',
             o = "ok" /\ ~dym /\ Op(c) \in {"SendIBCTransfer", "TextProposal"} => Found(Tx(c))
      PROVE  TimelyOK(c)'
  <2>1. WaitOK(c)'
    BY <1>3, <1>4, <1>6 DEF WaitOK
  <2>2. DoneOK(c)'
    <3>1. dym' = dym
      BY DEF ExecTxLeaves
    <3>2. p = "getTx" => Tx(c)' = Tx(c)
      BY <1>3, <1>4 DEF Tx
    <3>3. p = "getTx" /\ ~dym => Found(Tx(c))'
      <4> SUFFICES ASSUME p = "getTx", ~dym PROVE Found(Tx(c))'
        OBVIOUS
      <4>1. Found(Tx(c)) /\ Tx(c)' = Tx(c)
        BY <1>1, <1>3, <1>6, <3>2
      <4>2. committed' = committed /\ \A i \in 1 .. committed : txs'[i] = txs[i]
        <5>1. CASE txs' = txs
          BY <5>1 DEF ExecTxLeaves
        <5>2. CASE txs' # txs
          <6>1. ChainTyped /\ NewTx(c) \in TxType /\ Grows(NewTx(c))
            BY <5>2, CallFacts DEF ExecTxLeaves, Grows, Safe, Typed
          <6> QED
            BY <6>1, Grown, ChainFacts DEF Grows
        <5> QED
          BY <5>1, <5>2
      <4> QED
        BY <4>1, <4>2 DEF Found
    <3> QED
      BY <1>3, <1>4, <3>1, <3>3 DEF DoneOK
  <2>3. FreshOK(c)' /\ TransferOK(c)' /\ StoreOK(c)'
    BY <1>3, <1>4 DEF FreshOK, TransferOK, StoreOK
  <2> QED
    BY <2>1, <2>2, <2>3 DEF TimelyOK
<1>7. txs' # txs => pc[c] = "check" \/ Tx(c) \in cut'
  BY DEF ExecTxLeaves
<1> HIDE DEF Onward
<1> QED
  BY <1>1, <1>3, <1>5, <1>6, <1>7, MovesKeep

-----------------------------------------------------------------------------
(* The steps, one by one.  Each keeps Safe; with MaxLag < WaitBlocks each     *)
(* keeps Timely too.                                                         *)

\* A step to a place where nothing is claimed of the transaction.
LEMMA Elsewhere ==
  ASSUME Safe, NEW c \in Callers, NEW p \in Places, NEW k \in CallType, NEW b \in Seq(Response),
         Moves(c, p, k, b), txs' = txs, pc[c] # "wait",
         p \in {"lock", "read", "factory", "context", "submit", "buffer"}
  PROVE  Timely => TimelyOK(c)'
<1> SUFFICES ASSUME Timely PROVE TimelyOK(c)'
  OBVIOUS
<1>1. pc'[c] = p /\ Uncommitted' = Uncommitted /\ cut \subseteq cut' /\ TimelyOK(c)
  BY MovedTo DEF Moves, Uncommitted, Timely
<1> QED
  BY <1>1 DEF TimelyOK, WaitOK, DoneOK, FreshOK, TransferOK, StoreOK

\* A call that is over.
LEMMA Over ==
  ASSUME Safe, NEW c \in Callers, NEW o \in Outcomes, NEW r \in Ids \cup {None}, NEW b \in Seq(Response),
         pc[c] # "idle", Moves(c, "idle", Returned(c, o, r), b)
  PROVE  /\ pc'[c] = "idle" /\ Op(c)' = Op(c) /\ Tx(c)' = Tx(c) /\ call'[c].outcome = o /\ call'[c].resp = r
         /\ PlaceOK(c)' /\ OwnTxs(c)'
         /\ Timely /\ pc[c] # "wait" /\ (txs' # txs => Tx(c) \in cut') => WaitOK(c)' /\ FreshOK(c)'
<1> DEFINE k == Returned(c, o, r)
<1>0. /\ k \in CallType /\ k.op = Op(c) /\ k.n = call[c].n /\ k.round = call[c].round
      /\ k.outcome = o /\ k.resp = r
  BY ReturnedTyped
<1>1. Moves(c, "idle", k, b)
  OBVIOUS
<1> HIDE DEF k
<1>2. "idle" \in Places /\ "idle" \notin Before
  BY DEF Places, Before
<1>3. /\ pc'[c] = "idle" /\ Op(c)' = Op(c) /\ Tx(c)' = Tx(c) /\ call'[c] = k
  BY <1>0, <1>1, <1>2, MovedTo DEF Tx
<1>4. PlaceOK(c)'
  BY <1>2, <1>3 DEF Safe, CallerOK, PlaceOK
<1>5. OwnTxs(c)'
  BY <1>0, <1>1, <1>2, OwnKept
<1>6. ASSUME Timely, pc[c] # "wait", txs' # txs => Tx(c) \in cut' PROVE WaitOK(c)' /\ FreshOK(c)'
  <2>1. WaitOK(c) /\ cut \subseteq cut'
    BY <1>1, <1>6 DEF Timely, TimelyOK, Moves
  <2>2. \A i \in Uncommitted' : txs'[i].id[1] = c => txs'[i].id \in cut'
    BY <1>0, <1>1, <1>2, <1>6, <2>1, MovedChain DEF WaitOK
  <2> QED
    BY <1>3, <2>2 DEF WaitOK, FreshOK
<1> QED
  BY <1>0, <1>3, <1>4, <1>5, <1>6

LEMMA CallStep ==
  ASSUME Safe, NEW c \in Callers, Call(c)
  PROVE  Safe' /\ (Timely => Timely')
<1>1. PICK op \in OpsOf[c] : /\ call' = [call EXCEPT ![c] = [Idle EXCEPT !.op = op, !.n = call[c].n + 1]]
                             /\ Goto(c, IF op = "BroadcastTx" THEN "factory" ELSE "lock")
  BY DEF Call
<1> DEFINE p == IF op = "BroadcastTx" THEN "factory" ELSE "lock"
           k == [Idle EXCEPT !.op = op, !.n = call[c].n + 1]
<1>2. /\ op \in Ops /\ p \in Places /\ p \in Before \ Locked /\ buf[c] \in Seq(Response)
      /\ call[c].n \in Nat /\ call[c].round \in 1 .. 2 /\ pc[c] = "idle"
  BY Constants, CallFacts DEF Places, Before, Locked, Safe, Typed, BuffersOK, Call
<1>3. k \in CallType /\ k.op = op /\ k.n = call[c].n + 1 /\ k.round = 1 /\ k.waited = None
  <2> DEFINE n == call[c].n + 1
  <2>1. op \in Ops /\ n \in Nat
    BY <1>2
  <2> HIDE DEF n
  <2>2. LET j == [Idle EXCEPT !.op = op, !.n = n]
        IN  j \in CallType /\ j.op = op /\ j.n = n /\ j.round = 1 /\ j.waited = None
    BY <2>1, IdleTyped DEF CallType
  <2> QED
    BY <2>2 DEF n
<1>4. Moves(c, p, k, buf[c])
  <2>1. call' = [call EXCEPT ![c] = k]
    BY <1>1
  <2>2. /\ pc' = [pc EXCEPT ![c] = p] /\ buf' = [buf EXCEPT ![c] = buf[c]] /\ dym' = dym /\ faults' = faults
        /\ faults \in 0 .. MaxFaults /\ cut' = cut /\ txs' = txs /\ committed' = committed /\ lock' = lock
    BY <1>1 DEF Call, Goto, chain, Safe, Typed, BuffersOK, FlagsTyped
  <2> HIDE DEF k, p
  <2> QED
    BY <1>2, <2>1, <2>2, Constants DEF Moves, Locked
<1>5. p = IF op = "BroadcastTx" THEN "factory" ELSE "lock"
  OBVIOUS
<1> HIDE DEF k, p
<1>6. pc'[c] = p /\ Op(c)' = op /\ call'[c].waited = None
  BY <1>2, <1>3, <1>4, MovedTo
<1>7. PlaceOK(c)'
  BY <1>2, <1>5, <1>6, Constants DEF PlaceOK
<1>8. OwnTxs(c)'
  <2>1. Older(Tx(c), <<c, k.n, k.round>>)
    BY <1>2, <1>3 DEF Older, Tx
  <2> QED
    BY <1>2, <1>3, <1>4, <2>1, OwnKept
<1>9. BufferOK(c)'
  BY <1>5, <1>6 DEF BufferOK
<1>10. Timely => TimelyOK(c)'
  BY <1>2, <1>3, <1>4, <1>5, Elsewhere DEF Call, chain
<1> QED
  BY <1>2, <1>3, <1>4, <1>7, <1>8, <1>9, <1>10, MovesKeep DEF CallerOK, Call, chain

LEMMA LockStep ==
  ASSUME Safe, NEW c \in Callers, Lock(c)
  PROVE  Safe' /\ (Timely => Timely')
<1>1. /\ call[c] \in CallType /\ buf[c] \in Seq(Response) /\ "read" \in Places /\ call[c].op = Op(c)
      /\ pc[c] = "lock" /\ txs' = txs /\ buf' = buf /\ lock' = c
  BY DEF Places, Safe, Typed, CallsTyped, BuffersOK, Op, Lock, chain
<1>2. Moves(c, "read", call[c], buf[c])
  BY <1>1 DEF Lock, Goto, chain, Moves, Safe, Typed, CallsTyped, BuffersOK, FlagsTyped, Locked
<1>3. pc'[c] = "read" /\ Op(c)' = Op(c) /\ call'[c] = call[c]
  BY <1>1, <1>2, MovedTo
<1>4. PlaceOK(c)'
  BY <1>1, <1>3 DEF Safe, CallerOK, PlaceOK, Before
<1>5. OwnTxs(c)'
  BY <1>1, <1>2, OwnKept DEF Before
<1>6. BufferOK(c)'
  BY <1>3 DEF BufferOK
<1>7. Timely => TimelyOK(c)'
  BY <1>1, <1>2, Elsewhere
<1> QED
  BY <1>1, <1>2, <1>4, <1>5, <1>6, <1>7, MovesKeep DEF CallerOK

\* The lock is what makes the sequence fresh: no other command is waiting.
LEMMA ReadAccountStep ==
  ASSUME Safe, NEW c \in Callers, ReadAccount(c)
  PROVE  Safe' /\ (Timely => Timely')
<1> DEFINE k == [call[c] EXCEPT !.seq = Sequence(c)]
<1>1. /\ call[c] \in CallType /\ buf[c] \in Seq(Response) /\ "check" \in Places /\ call[c].op = Op(c)
      /\ pc[c] = "read" /\ txs' = txs /\ buf' = buf /\ lock' = lock /\ cut' = cut /\ committed' = committed
      /\ ChainTyped /\ Sequence(c) \in Nat
  <2>1. ChainTyped /\ committed \in Nat
    BY ChainFacts DEF Safe, Typed
  <2>2. Sequence(c) \in Nat
    BY <2>1, Counting DEF Sequence
  <2> QED
    BY <2>1, <2>2 DEF Places, Safe, Typed, CallsTyped, BuffersOK, Op, ReadAccount, chain
<1>2. /\ k \in CallType /\ k.op = Op(c) /\ k.n = call[c].n /\ k.round = call[c].round
      /\ k.seq = Sequence(c) /\ k.waited = call[c].waited
  BY <1>1 DEF CallType
<1>3. call' = [call EXCEPT ![c] = k]
  BY DEF ReadAccount, Safe, Typed, CallsTyped
<1> HIDE DEF k
<1>4. Moves(c, "check", k, buf[c])
  <2>1. /\ pc' = [pc EXCEPT ![c] = "check"] /\ buf' = [buf EXCEPT ![c] = buf[c]] /\ dym' = dym /\ faults' = faults
        /\ faults \in 0 .. MaxFaults /\ faults <= faults'
        /\ pc[c] \in Locked /\ "check" \in Locked
        /\ txs' = txs /\ lock' = lock /\ cut' = cut /\ committed' = committed
    BY Constants DEF ReadAccount, Goto, chain, Safe, Typed, BuffersOK, FlagsTyped, Locked
  <2> QED
    BY <1>3, <2>1 DEF Moves
<1>5. pc'[c] = "check" /\ Op(c)' = Op(c) /\ call'[c] = k
  BY <1>1, <1>2, <1>4, MovedTo
<1>6. PlaceOK(c)'
  BY <1>1, <1>2, <1>5 DEF Safe, CallerOK, PlaceOK, Before
<1>7. OwnTxs(c)'
  BY <1>1, <1>2, <1>4, OwnKept DEF Before
<1>8. BufferOK(c)'
  BY <1>5 DEF BufferOK
<1>9. ASSUME Timely PROVE TimelyOK(c)'
  <2>1. WaitOK(c)'
    BY <1>1, <1>5, <1>9 DEF Timely, TimelyOK, WaitOK, Uncommitted
  <2>2. FreshOK(c)'
    <3> SUFFICES ASSUME NEW i \in Of(KeyOf[c], Len(txs)), Cardinality(Of(KeyOf[c], i)) > Sequence(c)
                 PROVE  txs[i].id \in cut
      BY <1>1, <1>2, <1>5 DEF FreshOK, Of
    <3>1. i \in DOMAIN txs /\ i \in Nat /\ committed \in Nat
      BY <1>1, ChainFacts DEF Of
    <3>2. i \in Uncommitted
      <4>1. i <= committed => Cardinality(Of(KeyOf[c], i)) <= Sequence(c)
        BY <3>1, Counting DEF Sequence
      <4>2. Cardinality(Of(KeyOf[c], i)) \in Nat /\ Sequence(c) \in Nat
        BY <1>1, <3>1, Counting
      <4> QED
        BY <1>1, <3>1, <4>1, <4>2, ChainFacts DEF Uncommitted
    <3>3. txs[i].id[1] \in Callers
      BY <1>1, <3>1, ChainFacts
    <3>4. pc[txs[i].id[1]] # "wait"
      BY <1>1, <3>3 DEF Safe, Typed, LockInv, Locked
    <3> QED
      BY <1>9, <3>2, <3>3, <3>4 DEF Timely, TimelyOK, WaitOK
  <2> QED
    BY <1>5, <2>1, <2>2 DEF TimelyOK, DoneOK, TransferOK, StoreOK
<1> QED
  BY <1>1, <1>2, <1>4, <1>6, <1>7, <1>8, <1>9, MovesKeep DEF CallerOK

\* A command waits for its own transaction; or it is rejected, or returns at once.
LEMMA ExecTxStep ==
  ASSUME Safe, NEW c \in Callers, ExecTx(c)
  PROVE  Safe' /\ (Timely => Timely')
<1>1. /\ call[c] \in CallType /\ buf[c] \in Seq(Response) /\ "wait" \in Places /\ call[c].op = Op(c)
      /\ call = [call EXCEPT ![c] = call[c]] /\ buf = [buf EXCEPT ![c] = buf[c]]
      /\ pc[c] = "check" /\ pc[c] \in Locked /\ faults \in 0 .. MaxFaults /\ ChainTyped
      /\ buf' = buf /\ dym' = dym /\ committed' = committed /\ faults' = faults
      /\ txs' \in {txs, Append(txs, NewTx(c))} /\ (~Accepts(c) => txs' = txs)
  BY DEF Places, Safe, Typed, CallsTyped, BuffersOK, FlagsTyped, Op, ExecTx, Accept, NewTx, Locked
<1>2. faults <= faults'
  BY <1>1, Constants
<1>3. ASSUME Timely, Tx(c) \in cut' \/ txs' = txs, cut \subseteq cut'
      PROVE  \A i \in Uncommitted' : txs'[i].id[1] = c => txs'[i].id \in cut'
  <2>1. \A i \in Uncommitted : txs[i].id[1] = c => txs[i].id \in cut
    BY <1>1, <1>3 DEF Timely, TimelyOK, WaitOK
  <2>2. CASE txs' = txs
    BY <1>1, <1>3, <2>1, <2>2 DEF Uncommitted
  <2>3. CASE txs' # txs
    <3>1. NewTx(c) \in TxType /\ Grows(NewTx(c)) /\ NewTx(c).id = Tx(c)
      BY <1>1, <2>3, CallFacts DEF Grows, NewTx
    <3> QED
      BY <1>1, <1>3, <2>1, <2>3, <3>1, Grown, ChainFacts
  <2> QED
    BY <2>2, <2>3
<1>4. CASE ~Accepts(c) /\ ExecTxReturns(c, "rejected") /\ UNCHANGED cut
  <2>1. ExecTxLeaves(c, "rejected")
    BY <1>1, <1>2, <1>4 DEF ExecTxLeaves
  <2> QED
    BY <1>1, <1>3, <1>4, <2>1, ExecTxLeads
<1>5. CASE dym /\ ExecTxReturns(c, "ok") /\ cut' = IF Accepts(c) THEN cut \cup {Tx(c)} ELSE cut
  <2>1. ExecTxLeaves(c, "ok")
    BY <1>1, <1>2, <1>5 DEF ExecTxLeaves
  <2>2. (Tx(c) \in cut' \/ txs' = txs) /\ cut \subseteq cut'
    BY <1>1, <1>5
  <2> QED
    BY <1>3, <1>5, <2>1, <2>2, ExecTxLeads
<1>6. CASE (Accepts(c) \/ Async(Op(c))) /\ ~dym /\ Goto(c, "wait") /\ UNCHANGED <<call, lock, cut>>
  <2>1. Moves(c, "wait", call[c], buf[c])
    <3>1. /\ pc' = [pc EXCEPT ![c] = "wait"] /\ lock' = lock /\ "wait" \in Locked
          /\ call' = [call EXCEPT ![c] = call[c]] /\ buf' = [buf EXCEPT ![c] = buf[c]] /\ cut' = cut
          /\ faults' \in 0 .. MaxFaults
      BY <1>1, <1>6 DEF Goto, Locked
    <3> QED
      BY <1>1, <1>2, <3>1 DEF Moves
  <2>2. /\ pc'[c] = "wait" /\ Op(c)' = Op(c) /\ Tx(c)' = Tx(c) /\ call'[c] = call[c]
        /\ "wait" \notin Before /\ call[c].waited = None
    <3>1. call[c].waited = None
      BY <1>1 DEF Safe, CallerOK, PlaceOK, Before
    <3>2. Tx(c) = <<c, call[c].n, call[c].round>>
      BY DEF Tx
    <3> QED
      BY <1>1, <2>1, <3>1, <3>2, MovedTo DEF Before
  <2>3. PlaceOK(c)'
    BY <1>1, <2>2 DEF Safe, CallerOK, PlaceOK
  <2>4. OwnTxs(c)'
    BY <1>1, <2>1, <2>2, OwnKept
  <2>5. BufferOK(c)'
    BY <2>2 DEF BufferOK
  <2>6. ASSUME Timely PROVE TimelyOK(c)'
    <3>1. \A i \in Uncommitted' : txs'[i].id[1] = c /\ txs'[i].id \notin cut' => txs'[i].id = Tx(c)
      <4>1. \A i \in Uncommitted : txs[i].id[1] = c => txs[i].id \in cut
        BY <1>1, <2>6 DEF Timely, TimelyOK, WaitOK
      <4> QED
        BY <1>1, <1>6, <2>1, <4>1, MovedChain
    <3>2. ~Async(Op(c)) => Submitted(Tx(c))'
      <4> SUFFICES ASSUME ~Async(Op(c)) PROVE Submitted(Tx(c))'
        OBVIOUS
      <4>1. txs' = Append(txs, NewTx(c)) /\ txs \in Seq(TxType) /\ NewTx(c) \in TxType /\ NewTx(c).id = Tx(c)
        BY <1>1, <1>6, CallFacts DEF ExecTx, Accept, NewTx, ChainTyped
      <4>2. Len(txs) + 1 \in DOMAIN txs' /\ txs'[Len(txs) + 1].id = Tx(c)
        BY <4>1
      <4> QED
        BY <2>2, <4>2 DEF Submitted
    <3>3. WaitOK(c)'
      BY <2>2, <3>1, <3>2 DEF WaitOK
    <3> QED
      BY <2>2, <3>3 DEF TimelyOK, DoneOK, FreshOK, TransferOK, StoreOK
  <2> QED
    BY <1>1, <2>1, <2>3, <2>4, <2>5, <2>6, MovesKeep DEF CallerOK
<1> QED
  BY <1>4, <1>5, <1>6 DEF ExecTx

LEMMA ExecFailsStep ==
  ASSUME Safe, NEW c \in Callers, ExecFails(c)
  PROVE  Safe' /\ (Timely => Timely')
<1>1. /\ pc[c] \in {"read", "check"} /\ pc[c] \in Locked /\ ChainTyped
      /\ faults' \in 0 .. MaxFaults /\ faults <= faults'
      /\ buf' = buf /\ dym' = dym /\ committed' = committed /\ cut' \in {cut, cut \cup {Tx(c)}}
      /\ txs' \in {txs, Append(txs, NewTx(c))}
      /\ txs' # txs => pc[c] = "check" /\ Tx(c) \in cut'
      /\ ExecTxReturns(c, "execError")
  <2>1. faults \in 0 .. MaxFaults /\ faults < MaxFaults /\ faults' = faults + 1
    BY DEF ExecFails, Fault, Safe, Typed, FlagsTyped
  <2>2. faults' \in 0 .. MaxFaults /\ faults <= faults'
    BY <2>1, Constants
  <2> QED
    BY <2>2 DEF ExecFails, Locked, Safe, Typed, Accept, NewTx
<1>2. ExecTxLeaves(c, "execError")
  BY <1>1 DEF ExecTxLeaves
<1>3. ASSUME Timely PROVE \A i \in Uncommitted' : txs'[i].id[1] = c => txs'[i].id \in cut'
  <2>1. \A i \in Uncommitted : txs[i].id[1] = c => txs[i].id \in cut
    BY <1>1, <1>3 DEF Timely, TimelyOK, WaitOK
  <2>2. CASE txs' = txs
    BY <1>1, <2>1, <2>2 DEF Uncommitted
  <2>3. CASE txs' # txs
    <3>1. NewTx(c) \in TxType /\ Grows(NewTx(c)) /\ NewTx(c).id = Tx(c)
      BY <1>1, <2>3, CallFacts DEF Grows, NewTx
    <3> QED
      BY <1>1, <2>1, <2>3, <3>1, Grown, ChainFacts
  <2> QED
    BY <2>2, <2>3
<1> QED
  BY <1>2, <1>3, ExecTxLeads

LEMMA FirstHeightStep ==
  ASSUME Safe, NEW c \in Callers, FirstHeight(c)
  PROVE  Safe' /\ (Timely => Timely')
<1> DEFINE k == [call[c] EXCEPT !.waited = 0]
<1>1. /\ call[c] \in CallType /\ buf[c] \in Seq(Response) /\ pc[c] \in Places /\ call[c].op = Op(c)
      /\ pc[c] \in {"wait", "storeWait"} /\ txs' = txs /\ cut' = cut /\ committed' = committed /\ ChainTyped
  BY DEF Places, Safe, Typed, CallsTyped, BuffersOK, Op, FirstHeight, chain
<1>2. k \in CallType /\ k.op = Op(c) /\ k.n = call[c].n /\ k.round = call[c].round /\ k.waited = 0
  <2>1. 0 \in (0 .. WaitBlocks) \cup {None}
    BY Constants
  <2> QED
    BY <1>1, <2>1 DEF CallType
<1>3. Moves(c, pc[c], k, buf[c])
  <2>1. /\ pc' = [pc EXCEPT ![c] = pc[c]] /\ buf' = [buf EXCEPT ![c] = buf[c]] /\ dym' = dym
        /\ call' = [call EXCEPT ![c] = k] /\ faults' = faults /\ faults \in 0 .. MaxFaults /\ lock' = lock
    BY DEF FirstHeight, chain, Safe, Typed, CallsTyped, BuffersOK, FlagsTyped
  <2> HIDE DEF k
  <2> QED
    BY <1>1, <2>1, Constants DEF Moves
<1> HIDE DEF k
<1>4. pc'[c] = pc[c] /\ Op(c)' = Op(c) /\ Tx(c)' = Tx(c) /\ call'[c] = k /\ pc[c] \notin Before
  <2>1. Tx(c) = <<c, call[c].n, call[c].round>>
    BY DEF Tx
  <2> QED
    BY <1>1, <1>2, <1>3, <2>1, MovedTo DEF Before
<1>5. PlaceOK(c)'
  BY <1>1, <1>4 DEF Safe, CallerOK, PlaceOK
<1>6. OwnTxs(c)'
  BY <1>1, <1>2, <1>3, <1>4, OwnKept
<1>7. BufferOK(c)'
  BY <1>1, <1>4 DEF BufferOK
<1>8. ASSUME Timely PROVE TimelyOK(c)'
  <2>1. \A i \in Uncommitted : txs[i].age \in Nat
    BY <1>1, ChainFacts, Constants DEF TxType
  <2>2. WaitOK(c)'
    BY <1>1, <1>2, <1>4, <1>8, <2>1 DEF Timely, TimelyOK, WaitOK, Uncommitted, Submitted
  <2> QED
    BY <1>1, <1>4, <2>2 DEF TimelyOK, DoneOK, FreshOK, TransferOK, StoreOK
<1> QED
  BY <1>1, <1>2, <1>3, <1>5, <1>6, <1>7, <1>8, MovesKeep DEF CallerOK

\* After the wait the transaction is in a block, or was never accepted.
LEMMA Waited ==
  ASSUME Safe, Timely, MaxLag < WaitBlocks, NEW c \in Callers,
         pc[c] \in {"wait", "storeWait"}, DeltaReached(c)
  PROVE  /\ ~Pending(Tx(c))
         /\ \A i \in Uncommitted : txs[i].id[1] = c => txs[i].id \in cut
         /\ Submitted(Tx(c)) => Found(Tx(c))
<1>1. /\ ChainTyped /\ WaitOK(c) /\ call[c].waited = WaitBlocks /\ WaitBlocks # None /\ MaxLag \in Nat
      /\ WaitBlocks \in Nat
  BY Constants DEF Safe, Typed, Timely, TimelyOK, DeltaReached
<1>2. \A i \in Uncommitted : txs[i].id # Tx(c)
  <2> SUFFICES ASSUME NEW i \in Uncommitted, txs[i].id = Tx(c) PROVE FALSE
    OBVIOUS
  <2>1. call[c].waited <= txs[i].age
    BY <1>1 DEF WaitOK
  <2>2. txs[i].age \in 0 .. MaxLag
    BY <1>1, ChainFacts DEF TxType
  <2> QED
    BY <1>1, <2>1, <2>2
<1>3. Submitted(Tx(c)) => Found(Tx(c))
  BY <1>1, <1>2, ChainFacts DEF Submitted, Found, Uncommitted
<1> QED
  BY <1>1, <1>2, <1>3 DEF Pending, WaitOK

LEMMA WaitDoneStep ==
  ASSUME Safe, NEW c \in Callers, WaitDone(c)
  PROVE  Safe' /\ (Timely /\ MaxLag < WaitBlocks => Timely')
<1>1. /\ call[c] \in CallType /\ buf[c] \in Seq(Response) /\ call[c].op = Op(c)
      /\ pc[c] \in {"wait", "storeWait"} /\ faults \in 0 .. MaxFaults /\ ChainTyped
      /\ buf' = buf /\ dym' = dym /\ txs' = txs /\ committed' = committed /\ faults' = faults /\ cut' = cut
      /\ faults <= faults' /\ DeltaReached(c)
  BY Constants DEF Safe, Typed, CallsTyped, BuffersOK, FlagsTyped, Op, WaitDone, chain
<1>2. CASE pc[c] = "wait" /\ ExecTxReturns(c, "ok")
  <2>1. ExecTxLeaves(c, "ok")
    BY <1>1, <1>2 DEF ExecTxLeaves, Locked
  <2>2. ASSUME Timely, MaxLag < WaitBlocks
        PROVE  /\ \A i \in Uncommitted' : txs'[i].id[1] = c => txs'[i].id \in cut'
               /\ Op(c) \in {"SendIBCTransfer", "TextProposal"} => Found(Tx(c))
    <3>1. ~Async(Op(c)) => Submitted(Tx(c))
      BY <1>2, <2>2 DEF Timely, TimelyOK, WaitOK
    <3>2. Op(c) \in {"SendIBCTransfer", "TextProposal"} => ~Async(Op(c))
      BY DEF Async
    <3> QED
      BY <1>1, <2>2, <3>1, <3>2, Waited DEF Uncommitted
  <2> QED
    BY <2>1, <2>2, ExecTxLeads
<1>3. CASE pc[c] = "storeWait" /\ Goto(c, "listCodes") /\ UNCHANGED <<call, lock>>
  <2>1. Moves(c, "listCodes", call[c], buf[c]) /\ "listCodes" \in Places
    <3>1. /\ pc' = [pc EXCEPT ![c] = "listCodes"] /\ lock' = lock /\ "listCodes" \notin Locked /\ pc[c] \notin Locked
          /\ call' = [call EXCEPT ![c] = call[c]] /\ buf' = [buf EXCEPT ![c] = buf[c]]
      BY <1>1, <1>3 DEF Goto, Locked, Safe, Typed, CallsTyped, BuffersOK
    <3> QED
      BY <1>1, <3>1 DEF Moves, Places
  <2>2. /\ pc'[c] = "listCodes" /\ Op(c)' = Op(c) /\ Tx(c)' = Tx(c) /\ call'[c] = call[c]
        /\ "listCodes" \notin Before
    <3>1. Tx(c) = <<c, call[c].n, call[c].round>>
      BY DEF Tx
    <3> QED
      BY <1>1, <2>1, <3>1, MovedTo DEF Before
  <2>3. PlaceOK(c)'
    BY <1>3, <2>2 DEF Safe, CallerOK, PlaceOK
  <2>4. OwnTxs(c)'
    BY <1>1, <2>1, <2>2, OwnKept
  <2>5. BufferOK(c)'
    BY <2>2 DEF BufferOK
  <2>6. ASSUME Timely, MaxLag < WaitBlocks PROVE TimelyOK(c)'
    <3>1. WaitOK(c)' /\ ~Pending(Tx(c))'
      BY <1>1, <2>2, <2>6, Waited DEF WaitOK, Uncommitted, Pending
    <3> QED
      BY <2>2, <3>1 DEF TimelyOK, DoneOK, FreshOK, TransferOK, StoreOK
  <2> QED
    BY <1>1, <2>1, <2>3, <2>4, <2>5, <2>6, MovesKeep DEF CallerOK
<1> QED
  BY <1>2, <1>3 DEF WaitDone

\* A fault is counted.
LEMMA Faulty ==
  ASSUME Safe, Fault
  PROVE  faults' \in 0 .. MaxFaults /\ faults <= faults' /\ faults' > 0
<1>1. faults \in 0 .. MaxFaults /\ faults < MaxFaults /\ faults' = faults + 1
  BY DEF Fault, Safe, Typed, FlagsTyped
<1> QED
  BY <1>1, Constants

\* What is left to show of a call that is over.
LEMMA OverKeeps ==
  ASSUME Safe, NEW c \in Callers, NEW o \in Outcomes, NEW r \in Ids \cup {None}, NEW b \in Seq(Response),
         pc[c] \notin Locked \cup {"idle"}, Moves(c, "idle", Returned(c, o, r), b),
         txs' # txs => Tx(c) \in cut',
         Op(c) = "BroadcastTx" /\ o # "error" =>
           /\ r = Tx(c)
           /\ o = "ok" => Executed(Tx(c))
           /\ o = "rejected" => ~Submitted(Tx(c))'
  PROVE  /\ Safe'
         /\ /\ Timely
            /\ Op(c) = "SendIBCTransfer" =>
                 /\ o = "ok" => Executed(Tx(c))
                 /\ o = "failed" => Found(Tx(c)) /\ ~Executed(Tx(c))
                 /\ o = "notFound" => dym \/ faults' > 0
            /\ Op(c) = "StoreContract" /\ o = "ok" =>
                 /\ ~Pending(Tx(c)) /\ Executed(r) /\ txs' = txs
                 /\ Executed(Tx(c)) /\ (\A d \in Callers \ {c} : "StoreContract" \notin OpsOf[d]) => r = Tx(c)
            => Timely'
<1> DEFINE k == Returned(c, o, r)
<1>1. k \in CallType /\ "idle" \in Places /\ pc[c] # "idle" /\ pc[c] # "wait"
  BY ReturnedTyped DEF Places, Locked
<1>2. Moves(c, "idle", k, b)
  OBVIOUS
<1> HIDE DEF k
<1>3. /\ pc'[c] = "idle" /\ Op(c)' = Op(c) /\ Tx(c)' = Tx(c) /\ call'[c].outcome = o /\ call'[c].resp = r
      /\ PlaceOK(c)' /\ OwnTxs(c)' /\ (Timely => WaitOK(c)' /\ FreshOK(c)')
  BY <1>1, <1>2, Over DEF k
<1>4. committed' = committed /\ (\A i \in 1 .. committed : txs'[i] = txs[i]) /\ dym' = dym
  BY <1>1, <1>2, MovedChain DEF Moves
<1>5. /\ Found(Tx(c))' <=> Found(Tx(c))
      /\ Executed(Tx(c))' <=> Executed(Tx(c))
      /\ Executed(call[c].resp)' <=> Executed(r)
      /\ Pending(Tx(c))' /\ txs' = txs => Pending(Tx(c))
  <2> DEFINE x == Tx(c)
  <2>1. x' = x
    BY <1>3
  <2> HIDE DEF x
  <2>2. (Found(x)' <=> Found(x)) /\ (Executed(x)' <=> Executed(x)) /\ (Pending(x)' /\ txs' = txs => Pending(x))
    BY <1>4, <2>1 DEF Found, Executed, Pending, Uncommitted
  <2>3. Executed(call[c].resp)' <=> Executed(r)
    BY <1>3, <1>4 DEF Executed
  <2> QED
    BY <2>2, <2>3 DEF x
<1>6. BufferOK(c)'
  BY <1>3, <1>5 DEF BufferOK
<1>7. CallerOK(c)'
  BY <1>3, <1>6 DEF CallerOK
<1> QED
  BY <1>1, <1>2, <1>3, <1>4, <1>5, <1>7, MovesKeep DEF TimelyOK, DoneOK, TransferOK, StoreOK

LEMMA HeightFailsStep ==
  ASSUME Safe, NEW c \in Callers, HeightFails(c)
  PROVE  Safe' /\ (Timely => Timely')
<1>1. /\ faults' \in 0 .. MaxFaults /\ faults <= faults' /\ ChainTyped
      /\ buf' = buf /\ dym' = dym /\ txs' = txs /\ committed' = committed
      /\ buf = [buf EXCEPT ![c] = buf[c]] /\ buf[c] \in Seq(Response)
  BY Faulty DEF HeightFails, chain, Safe, Typed, BuffersOK
<1>2. CASE pc[c] = "wait" /\ ExecTxReturns(c, "waitError") /\ cut' = cut \cup {Tx(c)}
  <2>1. ExecTxLeaves(c, "waitError")
    BY <1>1, <1>2 DEF ExecTxLeaves, Locked
  <2>2. Timely => \A i \in Uncommitted' : txs'[i].id[1] = c => txs'[i].id \in cut'
    BY <1>1, <1>2 DEF Timely, TimelyOK, WaitOK, Uncommitted
  <2> QED
    BY <2>1, <2>2, ExecTxLeads
<1>3. CASE pc[c] = "storeWait" /\ Return(c, "waitError", None) /\ UNCHANGED <<lock, cut>>
  <2>1. Moves(c, "idle", Returned(c, "waitError", None), buf[c])
    BY <1>1, <1>3 DEF Moves, Return, Returned, Goto, Locked
  <2>2. Op(c) # "BroadcastTx" /\ Op(c) # "SendIBCTransfer"
    BY <1>3 DEF Safe, CallerOK, PlaceOK
  <2>3. pc[c] \notin Locked \cup {"idle"} /\ "waitError" \in Outcomes /\ None \in Ids \cup {None}
    BY <1>3 DEF Locked, Outcomes
  <2> QED
    BY <1>1, <2>1, <2>2, <2>3, OverKeeps
<1> QED
  BY <1>2, <1>3 DEF HeightFails

LEMMA GetTransactionStep ==
  ASSUME Safe, NEW c \in Callers, GetTransaction(c)
  PROVE  Safe' /\ (Timely => Timely')
<1>1. /\ ChainTyped /\ call[c] \in CallType /\ call[c].op = Op(c)
      /\ pc[c] = "getTx" /\ pc[c] \notin Locked \cup {"idle"} /\ lock' = lock
      /\ buf' = buf /\ dym' = dym /\ txs' = txs /\ committed' = committed /\ cut' = cut
      /\ buf = [buf EXCEPT ![c] = buf[c]] /\ buf[c] \in Seq(Response)
      /\ Tx(c) \in Ids /\ None \in Ids \cup {None}
  BY CallFacts DEF GetTransaction, chain, Safe, Typed, BuffersOK, CallsTyped, Locked, Op
<1>2. faults' \in 0 .. MaxFaults /\ faults <= faults' /\ (UNCHANGED faults \/ faults' > 0)
  <2>1. CASE UNCHANGED faults
    BY <2>1, Constants DEF Safe, Typed, FlagsTyped
  <2>2. CASE Fault
    BY <2>2, Faulty
  <2> QED
    BY <2>1, <2>2 DEF GetTransaction
<1>3. Op(c) \in {"SendIBCTransfer", "TextProposal"} /\ PlaceOK(c)
  BY <1>1 DEF Safe, CallerOK, PlaceOK
<1>4. ASSUME NEW o \in Outcomes, NEW r \in Ids \cup {None}, Return(c, o, r)
      PROVE  Moves(c, "idle", Returned(c, o, r), buf[c])
  BY <1>1, <1>2, <1>4 DEF Moves, Return, Returned, Goto, Locked
<1>5. CASE Found(Tx(c)) /\ Return(c, IF Op(c) = "SendIBCTransfer" => Executed(Tx(c)) THEN "ok" ELSE "failed", Tx(c))
  <2> DEFINE o == IF Op(c) = "SendIBCTransfer" => Executed(Tx(c)) THEN "ok" ELSE "failed"
  <2>1. /\ o \in Outcomes /\ o # "notFound"
        /\ Op(c) = "SendIBCTransfer" => (o = "ok" <=> Executed(Tx(c)))
    BY DEF Outcomes
  <2>2. Return(c, o, Tx(c))
    BY <1>5
  <2> HIDE DEF o
  <2>3. Op(c) = "SendIBCTransfer" =>
          /\ o = "ok" => Executed(Tx(c))
          /\ o = "failed" => Found(Tx(c)) /\ ~Executed(Tx(c))
          /\ o = "notFound" => dym \/ faults' > 0
    BY <1>5, <2>1
  <2> QED
    BY <1>1, <1>3, <1>4, <2>1, <2>2, <2>3, OverKeeps
<1>6. CASE /\ ~Found(Tx(c)) \/ Fault
           /\ IF call[c].tries + 1 < MaxTries
              THEN call' = [call EXCEPT ![c].tries = @ + 1] /\ UNCHANGED pc
              ELSE Return(c, "notFound", None)
  <2>1. CASE Return(c, "notFound", None)
    <3>1. Timely => dym \/ faults' > 0
      BY <1>1, <1>6, Faulty DEF Timely, TimelyOK, DoneOK
    <3>2. "notFound" \in Outcomes
      BY DEF Outcomes
    <3> QED
      BY <1>1, <1>3, <1>4, <2>1, <3>1, <3>2, OverKeeps
  <2>2. CASE call[c].tries + 1 < MaxTries /\ call' = [call EXCEPT ![c].tries = @ + 1] /\ UNCHANGED pc
    <3> DEFINE k == [call[c] EXCEPT !.tries = call[c].tries + 1]
    <3>1. call[c].tries + 1 \in 0 .. MaxTries - 1
      BY <1>1, <2>2, Constants DEF CallType
    <3>2. k \in CallType /\ k.op = Op(c) /\ k.n = call[c].n /\ k.round = call[c].round
      BY <1>1, <3>1 DEF CallType
    <3>3. Moves(c, "getTx", k, buf[c]) /\ "getTx" \in Places /\ "getTx" \notin Before
      <4>1. pc' = [pc EXCEPT ![c] = "getTx"] /\ call' = [call EXCEPT ![c] = k]
        BY <1>1, <2>2 DEF Safe, Typed, CallsTyped
      <4> HIDE DEF k
      <4> QED
        BY <1>1, <1>2, <4>1 DEF Moves, Locked, Places, Before
    <3> HIDE DEF k
    <3>4. /\ pc'[c] = "getTx" /\ Op(c)' = Op(c) /\ Tx(c)' = Tx(c)
      <4>1. Tx(c) = <<c, call[c].n, call[c].round>>
        BY DEF Tx
      <4> QED
        BY <1>1, <3>2, <3>3, <4>1, MovedTo
    <3>5. PlaceOK(c)'
      BY <1>1, <1>3, <3>3, <3>4 DEF PlaceOK
    <3>6. OwnTxs(c)'
      BY <1>1, <3>2, <3>3, OwnKept
    <3>7. BufferOK(c)'
      BY <3>4 DEF BufferOK
    <3>8. ASSUME Timely PROVE TimelyOK(c)'
      <4>1. WaitOK(c)' /\ DoneOK(c)'
        BY <1>1, <3>4, <3>8 DEF Timely, TimelyOK, WaitOK, DoneOK, Uncommitted, Found
      <4> QED
        BY <3>4, <4>1 DEF TimelyOK, FreshOK, TransferOK, StoreOK
    <3> QED
      BY <1>1, <3>2, <3>3, <3>5, <3>6, <3>7, <3>8, MovesKeep DEF CallerOK
  <2> QED
    BY <1>6, <2>1, <2>2
<1> QED
  BY <1>5, <1>6 DEF GetTransaction

\* The newest code is the caller's own if nobody else stores codes.
LEMMA NewestCode ==
  ASSUME Safe, NEW c \in Callers, Op(c) = "StoreContract",
         NEW i \in Stored, \A j \in Stored : j <= i
  PROVE  /\ Executed(txs[i].id) /\ txs[i].id \in Ids
         /\ Executed(Tx(c)) /\ (\A d \in Callers \ {c} : "StoreContract" \notin OpsOf[d]) => txs[i].id = Tx(c)
<1>1. /\ i \in 1 .. committed /\ txs[i].ok /\ txs[i].op = "StoreContract"
      /\ ChainTyped /\ OrderInv /\ i \in DOMAIN txs /\ OwnTxs(c)
  BY ChainFacts DEF Safe, Typed, Stored, CallerOK
<1>2. ASSUME Executed(Tx(c)), \A d \in Callers \ {c} : "StoreContract" \notin OpsOf[d]
      PROVE  txs[i].id = Tx(c)
  <2>1. PICK j \in 1 .. committed : txs[j].id = Tx(c) /\ txs[j].ok
    BY <1>2 DEF Executed
  <2>2. /\ j \in DOMAIN txs /\ Tx(c)[1] = c /\ Tx(c)[2] \in Nat /\ Tx(c)[3] \in 1 .. 2
    BY <1>1, ChainFacts, CallFacts
  <2>3. txs[j].op = Op(c)
    BY <1>1, <2>1, <2>2 DEF OwnTxs, Older
  <2>4. j \in Stored /\ j <= i
    BY <2>1, <2>3 DEF Stored
  <2>5. txs[i].id[1] = c
    BY <1>1, <1>2, ChainFacts DEF OrderInv
  <2>6. txs[i].id = Tx(c) \/ Older(txs[i].id, Tx(c))
    BY <1>1, <2>5 DEF OwnTxs
  <2>7. txs[i].id[2] \in Nat /\ txs[i].id[3] \in 1 .. 2
    BY <1>1, ChainFacts, IdParts
  <2>8. j < i => Older(Tx(c), txs[i].id)
    BY <1>1, <2>1, <2>2, <2>5 DEF OrderInv
  <2>9. i \in Nat /\ j \in Nat
    BY <1>1, <2>2, ChainFacts
  <2> QED
    BY <2>1, <2>2, <2>4, <2>6, <2>7, <2>8, <2>9 DEF Older
<1> QED
  BY <1>1, <1>2, ChainFacts DEF Executed

LEMMA ListCodesStep ==
  ASSUME Safe, NEW c \in Callers, ListCodes(c)
  PROVE  Safe' /\ (Timely => Timely')
<1>1. /\ pc[c] = "listCodes" /\ pc[c] \notin Locked \cup {"idle"} /\ lock' = lock
      /\ buf' = buf /\ dym' = dym /\ txs' = txs /\ committed' = committed /\ cut' = cut
      /\ buf = [buf EXCEPT ![c] = buf[c]] /\ buf[c] \in Seq(Response)
      /\ None \in Ids \cup {None}
  BY DEF ListCodes, chain, Safe, Typed, BuffersOK, Locked
<1>2. faults' \in 0 .. MaxFaults /\ faults <= faults'
  <2>1. CASE UNCHANGED faults
    BY <2>1, Constants DEF Safe, Typed, FlagsTyped
  <2>2. CASE Fault
    BY <2>2, Faulty
  <2> QED
    BY <2>1, <2>2 DEF ListCodes
<1>3. Op(c) = "StoreContract" /\ (Timely => ~Pending(Tx(c)))
  BY <1>1 DEF Safe, CallerOK, PlaceOK, Timely, TimelyOK, DoneOK
<1>4. ASSUME NEW o \in Outcomes, NEW r \in Ids \cup {None}, Return(c, o, r),
             o = "ok" => /\ Executed(r)
                         /\ Executed(Tx(c)) /\ (\A d \in Callers \ {c} : "StoreContract" \notin OpsOf[d])
                              => r = Tx(c)
      PROVE  Safe' /\ (Timely => Timely')
  <2>1. Moves(c, "idle", Returned(c, o, r), buf[c])
    BY <1>1, <1>2, <1>4 DEF Moves, Return, Returned, Goto, Locked
  <2> QED
    BY <1>1, <1>3, <1>4, <2>1, OverKeeps
<1>5. "panic" \in Outcomes /\ "queryError" \in Outcomes /\ "ok" \in Outcomes
  BY DEF Outcomes
<1>6. CASE Return(c, "panic", None) \/ Return(c, "queryError", None)
  BY <1>1, <1>4, <1>5, <1>6
<1>7. CASE \E i \in Stored : (\A j \in Stored : j <= i) /\ Return(c, "ok", txs[i].id)
  BY <1>3, <1>4, <1>5, <1>7, NewestCode
<1> QED
  BY <1>6, <1>7 DEF ListCodes

\* Both factories read the sequence and empty the buffer.
LEMMA GetFactoryStep ==
  ASSUME Safe, NEW c \in Callers, GetFactory(c)
  PROVE  Safe' /\ (Timely => Timely')
<1>1. /\ pc[c] = "factory" /\ pc[c] \notin Locked \cup {"idle"} /\ lock' = lock /\ call[c] \in CallType
      /\ dym' = dym /\ txs' = txs /\ committed' = committed /\ cut' = cut /\ call[c].op = Op(c)
      /\ buf' = [buf EXCEPT ![c] = <<>>] /\ <<>> \in Seq(Response) /\ Sequence(c) \in Nat
  <2>1. committed \in Nat
    BY ChainFacts DEF Safe, Typed
  <2>2. Sequence(c) \in Nat
    BY <2>1, Counting DEF Sequence
  <2> QED
    BY <2>2 DEF GetFactory, ClientContext, chain, Safe, Typed, CallsTyped, Locked, Op
<1>2. faults' \in 0 .. MaxFaults /\ faults <= faults'
  <2>1. CASE UNCHANGED faults
    BY <2>1, Constants DEF Safe, Typed, FlagsTyped
  <2>2. CASE Fault
    BY <2>2, Faulty
  <2> QED
    BY <2>1, <2>2 DEF GetFactory
<1>3. Op(c) = "BroadcastTx" /\ PlaceOK(c)
  BY <1>1 DEF Safe, CallerOK, PlaceOK
<1>4. CASE call' = [call EXCEPT ![c].seq = Sequence(c)] /\ Goto(c, "context")
  <2> DEFINE k == [call[c] EXCEPT !.seq = Sequence(c)]
  <2>1. /\ k \in CallType /\ k.op = Op(c) /\ k.n = call[c].n /\ k.round = call[c].round
        /\ k.waited = call[c].waited
    BY <1>1 DEF CallType
  <2>2. call' = [call EXCEPT ![c] = k]
    BY <1>4 DEF Safe, Typed, CallsTyped
  <2> HIDE DEF k
  <2>3. Moves(c, "context", k, <<>>) /\ "context" \in Places /\ "context" \in Before
    BY <1>1, <1>2, <1>4, <2>2 DEF Moves, Goto, Locked, Places, Before
  <2>4. pc'[c] = "context" /\ Op(c)' = Op(c) /\ call'[c] = k
    BY <1>1, <2>1, <2>3, MovedTo
  <2>5. PlaceOK(c)'
    BY <1>1, <1>3, <2>1, <2>4 DEF PlaceOK, Before
  <2>6. OwnTxs(c)'
    BY <1>1, <2>1, <2>3, OwnKept DEF Before
  <2>7. BufferOK(c)'
    BY <2>4 DEF BufferOK
  <2>8. Timely => TimelyOK(c)'
    BY <1>1, <2>1, <2>3, Elsewhere
  <2> QED
    BY <1>1, <2>1, <2>3, <2>5, <2>6, <2>7, <2>8, MovesKeep DEF CallerOK
<1>5. CASE Return(c, "error", None)
  <2>1. Moves(c, "idle", Returned(c, "error", None), <<>>)
    BY <1>1, <1>2, <1>5 DEF Moves, Return, Returned, Goto, Locked
  <2>2. "error" \in Outcomes /\ None \in Ids \cup {None}
    BY DEF Outcomes
  <2> QED
    BY <1>1, <1>3, <2>1, <2>2, OverKeeps
<1> QED
  BY <1>4, <1>5 DEF GetFactory

LEMMA GetClientContextStep ==
  ASSUME Safe, NEW c \in Callers, GetClientContext(c)
  PROVE  Safe' /\ (Timely => Timely')
<1>1. /\ call[c] \in CallType /\ <<>> \in Seq(Response) /\ "submit" \in Places /\ call[c].op = Op(c)
      /\ pc[c] = "context" /\ txs' = txs /\ cut' = cut /\ committed' = committed /\ lock' = lock
      /\ pc[c] \notin Locked /\ "submit" \notin Locked
      /\ call' = [call EXCEPT ![c] = call[c]] /\ pc' = [pc EXCEPT ![c] = "submit"]
      /\ buf' = [buf EXCEPT ![c] = <<>>]
  BY DEF Places, Safe, Typed, CallsTyped, Op, GetClientContext, ClientContext, Goto, chain, Locked
<1>2. Moves(c, "submit", call[c], <<>>)
  <2>1. dym' = dym /\ faults' \in 0 .. MaxFaults /\ faults <= faults'
    BY Constants DEF GetClientContext, Safe, Typed, FlagsTyped
  <2> QED
    BY <1>1, <2>1 DEF Moves
<1>3. pc'[c] = "submit" /\ Op(c)' = Op(c) /\ call'[c] = call[c] /\ buf'[c] = <<>>
  BY <1>1, <1>2, MovedTo
<1>4. PlaceOK(c)'
  BY <1>1, <1>3 DEF Safe, CallerOK, PlaceOK, Before
<1>5. OwnTxs(c)'
  BY <1>1, <1>2, OwnKept DEF Before
<1>6. BufferOK(c)'
  BY <1>3 DEF BufferOK
<1>7. Timely => TimelyOK(c)'
  BY <1>1, <1>2, Elsewhere
<1> QED
  BY <1>1, <1>2, <1>4, <1>5, <1>6, <1>7, MovesKeep DEF CallerOK

\* The response is the caller's own, and says no only if CheckTx did.
LEMMA BroadcastStep ==
  ASSUME Safe, NEW c \in Callers, Broadcast(c)
  PROVE  Safe' /\ (Timely => Timely')
<1>1. /\ pc[c] = "submit" /\ pc[c] \notin Locked \cup {"idle"} /\ lock' = lock /\ call[c] \in CallType
      /\ dym' = dym /\ committed' = committed /\ cut' = cut \cup {Tx(c)} /\ call[c].op = Op(c)
      /\ txs' \in {txs, Append(txs, NewTx(c))}
      /\ Tx(c) \in Ids /\ buf \in [Callers -> Seq(Response)] /\ ChainTyped
      /\ pc \in [Callers -> Places] /\ call \in [Callers -> CallType]
  BY CallFacts DEF Broadcast, Accept, NewTx, Safe, Typed, CallsTyped, BuffersOK, Locked, Op
<1>2. Op(c) = "BroadcastTx" /\ PlaceOK(c) /\ buf[c] = <<>>
  BY <1>1 DEF Safe, CallerOK, PlaceOK, BufferOK
<1>3. CASE /\ IF Accepts(c) THEN Accept(c) ELSE UNCHANGED txs
           /\ buf' = [buf EXCEPT ![c] = Append(@, [id |-> Tx(c), ok |-> Accepts(c)])]
           /\ Goto(c, "buffer") /\ UNCHANGED <<call, faults>>
  <2> DEFINE response == [id |-> Tx(c), ok |-> Accepts(c)]
  <2>1. Accepts(c) \in BOOLEAN
    BY DEF Accepts
  <2>2. response \in Response /\ <<response>> \in Seq(Response)
    BY <1>1, <2>1 DEF Response
  <2>3. buf' = [buf EXCEPT ![c] = <<response>>]
    <3>1. Append(buf[c], response) = <<response>>
      BY <1>2
    <3> QED
      BY <1>1, <1>3, <3>1
  <2>4. /\ pc' = [pc EXCEPT ![c] = "buffer"] /\ call' = [call EXCEPT ![c] = call[c]]
        /\ faults' \in 0 .. MaxFaults /\ faults <= faults' /\ pc[c] \notin Locked /\ "buffer" \notin Locked
        /\ "buffer" \in Places /\ "buffer" \notin Before
    BY <1>1, <1>3, Constants DEF Goto, Locked, Places, Before, Safe, Typed, FlagsTyped
  <2>5. ~Accepts(c) => txs' = txs
    BY <1>3
  <2>6. response.id = Tx(c) /\ (~response.ok => ~Accepts(c)) /\ response = [id |-> Tx(c), ok |-> Accepts(c)]
    OBVIOUS
  <2> HIDE DEF response
  <2>7. Moves(c, "buffer", call[c], <<response>>)
    BY <1>1, <2>3, <2>4 DEF Moves
  <2>8. /\ pc'[c] = "buffer" /\ Op(c)' = Op(c) /\ Tx(c)' = Tx(c) /\ call'[c] = call[c]
        /\ buf'[c] = <<response>>
    <3>1. Tx(c) = <<c, call[c].n, call[c].round>>
      BY DEF Tx
    <3>2. /\ pc'[c] = "buffer" /\ call'[c] = call[c] /\ buf'[c] = <<response>>
          /\ Op(c)' = call[c].op /\ Tx(c)' = <<c, call[c].n, call[c].round>>
      BY <1>1, <2>2, <2>4, <2>7, MovedTo
    <3> QED
      BY <1>1, <3>1, <3>2
  <2>9. PlaceOK(c)'
    BY <1>1, <1>2, <2>4, <2>8 DEF PlaceOK
  <2>10. OwnTxs(c)'
    BY <1>1, <2>2, <2>4, <2>7, OwnKept
  <2>11. BufferOK(c)'
    <3>1. ~Accepts(c) => ~Submitted(Tx(c))'
      <4> SUFFICES ASSUME ~Accepts(c), Submitted(Tx(c))' PROVE FALSE
        OBVIOUS
      <4>1. PICK i \in DOMAIN txs : txs[i].id = Tx(c)
        BY <2>5, <2>8 DEF Submitted
      <4>2. txs[i].id[1] = c /\ Tx(c)[2] \in Nat /\ Tx(c)[3] \in 1 .. 2
        BY <4>1, CallFacts
      <4> QED
        BY <1>1, <4>1, <4>2 DEF Safe, CallerOK, OwnTxs, Older, Before
    <3>2. buf'[c] = <<[id |-> Tx(c)', ok |-> Accepts(c)]>>
      BY <2>6, <2>8
    <3> QED
      BY <2>1, <2>8, <3>1, <3>2 DEF BufferOK
  <2>12. ASSUME Timely PROVE TimelyOK(c)'
    <3>1. \A i \in Uncommitted : txs[i].id[1] = c => txs[i].id \in cut
      BY <1>1, <2>12 DEF Timely, TimelyOK, WaitOK
    <3>2. \A i \in Uncommitted' : txs'[i].id[1] = c => txs'[i].id \in cut'
      BY <1>1, <2>2, <2>4, <2>7, <3>1, MovedChain
    <3> QED
      BY <2>8, <3>2 DEF TimelyOK, WaitOK, DoneOK, FreshOK, TransferOK, StoreOK
  <2> QED
    BY <1>1, <2>2, <2>4, <2>7, <2>9, <2>10, <2>11, <2>12, MovesKeep DEF CallerOK
<1>4. CASE Fault /\ Return(c, "error", None) /\ UNCHANGED buf
  <2>1. Moves(c, "idle", Returned(c, "error", None), buf[c]) /\ buf[c] \in Seq(Response)
    <3>1. buf' = [buf EXCEPT ![c] = buf[c]]
      BY <1>1, <1>4
    <3>2. faults' \in 0 .. MaxFaults /\ faults <= faults'
      BY <1>4, Faulty
    <3> QED
      BY <1>1, <1>4, <3>1, <3>2 DEF Moves, Return, Returned, Goto, Locked
  <2>2. "error" \in Outcomes /\ None \in Ids \cup {None} /\ Tx(c) \in cut'
    BY <1>1 DEF Outcomes
  <2> QED
    BY <1>1, <1>2, <2>1, <2>2, OverKeeps
<1> QED
  BY <1>3, <1>4 DEF Broadcast

LEMMA QueryTxStep ==
  ASSUME Safe, NEW c \in Callers, QueryTx(c)
  PROVE  Safe' /\ (Timely => Timely')
<1>1. /\ pc[c] = "buffer" /\ pc[c] \notin Locked \cup {"idle"} /\ lock' = lock
      /\ buf' = buf /\ dym' = dym /\ txs' = txs /\ committed' = committed /\ cut' = cut
      /\ buf = [buf EXCEPT ![c] = buf[c]] /\ buf[c] \in Seq(Response) /\ Tx(c) \in Ids
  BY CallFacts DEF QueryTx, chain, Safe, Typed, BuffersOK, Locked
<1>2. faults' \in 0 .. MaxFaults /\ faults <= faults'
  <2>1. CASE UNCHANGED faults
    BY <2>1, Constants DEF Safe, Typed, FlagsTyped
  <2>2. CASE Fault
    BY <2>2, Faulty
  <2> QED
    BY <2>1, <2>2 DEF QueryTx
<1>3. Op(c) = "BroadcastTx" /\ BufferOK(c)
  BY <1>1 DEF Safe, CallerOK, PlaceOK
<1>4. PICK ok \in BOOLEAN : buf[c] = <<[id |-> Tx(c), ok |-> ok]>> /\ (~ok => ~Submitted(Tx(c)))
  BY <1>1, <1>3 DEF BufferOK
<1>5. Head(buf[c]).id = Tx(c) /\ Head(buf[c]).ok = ok
  BY <1>4
<1>6. ASSUME NEW o \in {"ok", "failed", "accepted", "rejected"}, Return(c, o, Tx(c)),
             o = "ok" => Executed(Tx(c)), o = "rejected" => ~ok
      PROVE  Safe' /\ (Timely => Timely')
  <2>1. Moves(c, "idle", Returned(c, o, Tx(c)), buf[c])
    BY <1>1, <1>2, <1>6 DEF Moves, Return, Returned, Goto, Locked
  <2>2. o \in Outcomes
    BY DEF Outcomes
  <2>3. Tx(c)' = Tx(c)
    BY <1>1, <2>1, <2>2, Over
  <2>4. o = "rejected" => ~Submitted(Tx(c))'
    BY <1>1, <1>4, <1>6, <2>3 DEF Submitted
  <2> QED
    BY <1>1, <1>3, <1>6, <2>1, <2>2, <2>4, OverKeeps
<1>7. PICK o \in {"ok", "failed", "accepted", "rejected"} :
        Return(c, o, Tx(c)) /\ (o = "ok" => Executed(Tx(c))) /\ (o = "rejected" => ~ok)
  <2>1. CASE Return(c, IF Executed(Tx(c)) THEN "ok" ELSE "failed", Tx(c))
    BY <2>1
  <2>2. CASE Return(c, IF ok THEN "accepted" ELSE "rejected", Tx(c))
    BY <2>2
  <2> QED
    BY <1>5, <2>1, <2>2 DEF QueryTx
<1> QED
  BY <1>6, <1>7

\* A block leaves the transactions and their order, and those in blocks as they
\* are; those it does not take are a block older.
BlockMoves(n) ==
  /\ n \in committed .. Len(txs) /\ committed' = n
  /\ Len(txs') = Len(txs) /\ DOMAIN txs' = DOMAIN txs
  /\ \A i \in DOMAIN txs :
       /\ txs'[i].id = txs[i].id /\ txs'[i].op = txs[i].op
       /\ i <= committed => txs'[i] = txs[i]
       /\ i > n => txs'[i].age = txs[i].age + 1

LEMMA BlockChain ==
  ASSUME Safe, Block
  PROVE  /\ ChainTyped' /\ Uncommitted' \subseteq Uncommitted
         /\ \E n \in committed .. Len(txs) : BlockMoves(n)
<1>1. PICK n \in committed .. Len(txs) :
        /\ \A i \in n + 1 .. Len(txs) : txs[i].age < MaxLag
        /\ committed' = n
        /\ \E failed \in SUBSET {i \in committed + 1 .. n : txs[i].op \in Answered} :
             txs' = [i \in DOMAIN txs |->
                       IF i > n THEN [txs[i] EXCEPT !.age = @ + 1]
                       ELSE IF i > committed THEN [txs[i] EXCEPT !.age = 0, !.ok = i \notin failed]
                       ELSE txs[i]]
  BY DEF Block
<1>2. PICK failed :
        txs' = [i \in DOMAIN txs |->
                  IF i > n THEN [txs[i] EXCEPT !.age = @ + 1]
                  ELSE IF i > committed THEN [txs[i] EXCEPT !.age = 0, !.ok = i \notin failed]
                  ELSE txs[i]]
  BY <1>1
<1>3. /\ ChainTyped /\ Len(txs) \in Nat /\ DOMAIN txs = 1 .. Len(txs) /\ committed \in Nat /\ n \in Nat
      /\ committed <= n /\ n <= Len(txs) /\ MaxLag \in Nat /\ cut' = cut /\ cut \subseteq Ids
      /\ \A i \in DOMAIN txs : txs[i] \in TxType
  <2>1. ChainTyped /\ cut' = cut
    BY DEF Safe, Typed, Block
  <2>2. /\ Len(txs) \in Nat /\ DOMAIN txs = 1 .. Len(txs) /\ committed \in Nat /\ committed <= Len(txs)
        /\ \A i \in DOMAIN txs : txs[i] \in TxType
    BY <2>1, ChainFacts
  <2>3. n \in Nat /\ committed <= n /\ n <= Len(txs)
    BY <2>2
  <2> QED
    BY <2>1, <2>2, <2>3, Constants DEF ChainTyped
<1>4. ASSUME NEW i \in DOMAIN txs
      PROVE  /\ txs'[i] \in TxType /\ txs'[i].id = txs[i].id /\ txs'[i].op = txs[i].op
             /\ i <= committed => txs'[i] = txs[i]
             /\ i > n => txs'[i].age = txs[i].age + 1
  <2>1. txs[i] \in TxType /\ i \in Nat
    BY <1>3
  <2>2. CASE i > n
    <3>1. txs'[i] = [txs[i] EXCEPT !.age = txs[i].age + 1]
      BY <1>2, <2>2
    <3>2. txs[i].age < MaxLag /\ txs[i].age \in Nat
      <4>1. i \in n + 1 .. Len(txs)
        BY <1>3, <2>1, <2>2
      <4>2. txs[i].age \in 0 .. MaxLag
        BY <2>1 DEF TxType
      <4>3. \A j \in n + 1 .. Len(txs) : txs[j].age < MaxLag
        BY <1>1, Zenon
      <4>4. txs[i].age < MaxLag
        BY <4>1, <4>3, Zenon
      <4> QED
        BY <1>3, <4>2, <4>4
    <3>3. txs[i].age + 1 \in 0 .. MaxLag
      BY <1>3, <3>2
    <3>4. ~(i <= committed)
      BY <1>3, <2>1, <2>2
    <3> QED
      BY <2>1, <3>1, <3>3, <3>4 DEF TxType
  <2>3. CASE i <= n /\ i > committed
    <3>1. txs'[i] = [txs[i] EXCEPT !.age = 0, !.ok = i \notin failed]
      <4>1. ~(i > n)
        BY <1>3, <2>1, <2>3
      <4> QED
        BY <1>2, <2>3, <4>1
    <3>2. 0 \in 0 .. MaxLag /\ (i \notin failed) \in BOOLEAN
      BY <1>3
    <3>3. ~(i <= committed) /\ ~(i > n)
      BY <1>3, <2>1, <2>3
    <3> DEFINE ok == i \notin failed
    <3> HIDE DEF ok
    <3>4. txs'[i] = [txs[i] EXCEPT !.age = 0, !.ok = ok] /\ ok \in BOOLEAN
      BY <3>1, <3>2 DEF ok
    <3> QED
      BY <2>1, <3>2, <3>3, <3>4 DEF TxType
  <2>4. CASE i <= committed
    <3>1. ~(i > n) /\ ~(i > committed)
      BY <1>3, <2>1, <2>4
    <3>2. txs'[i] = txs[i]
      BY <1>2, <3>1
    <3> QED
      BY <2>1, <3>1, <3>2
  <2> QED
    BY <1>3, <2>1, <2>2, <2>3, <2>4
<1>5. txs' \in [1 .. Len(txs) -> TxType]
  BY <1>2, <1>3, <1>4
<1>6. txs' \in Seq(TxType) /\ Len(txs') = Len(txs) /\ DOMAIN txs' = DOMAIN txs
  BY <1>3, <1>5
<1>7. ChainTyped' /\ Uncommitted' \subseteq Uncommitted
  <2>1. committed' = n
    BY <1>1
  <2>2. n \in 0 .. Len(txs') /\ n + 1 .. Len(txs') \subseteq committed + 1 .. Len(txs)
    BY <1>3, <1>6
  <2> QED
    BY <1>3, <1>6, <2>1, <2>2 DEF ChainTyped, Uncommitted
<1> QED
  BY <1>1, <1>4, <1>6, <1>7 DEF BlockMoves

\* And the calls as they are, but that those that wait have seen one more block.
LEMMA BlockCalls ==
  ASSUME Safe, Block, NEW c \in Callers
  PROVE  /\ call' \in [Callers -> CallType]
         /\ Op(c)' = Op(c) /\ Tx(c)' = Tx(c) /\ call'[c].seq = call[c].seq
         /\ call'[c].outcome = call[c].outcome /\ call'[c].resp = call[c].resp
         /\ \/ call'[c].waited = call[c].waited /\ call[c].waited \notin 0 .. WaitBlocks - 1
            \/ call'[c].waited = call[c].waited /\ pc[c] \notin {"wait", "storeWait"}
            \/ /\ pc[c] \in {"wait", "storeWait"} /\ call[c].waited \in 0 .. WaitBlocks - 1
               /\ call'[c].waited = call[c].waited + 1
<1>1. call' = [d \in Callers |->
                IF pc[d] \in {"wait", "storeWait"} /\ call[d].waited \in 0 .. WaitBlocks - 1
                THEN [call[d] EXCEPT !.waited = @ + 1] ELSE call[d]]
  BY DEF Block
<1>2. ASSUME NEW d \in Callers
      PROVE  /\ call'[d] \in CallType
             /\ call'[d].op = call[d].op /\ call'[d].n = call[d].n /\ call'[d].round = call[d].round
             /\ call'[d].seq = call[d].seq
             /\ call'[d].outcome = call[d].outcome /\ call'[d].resp = call[d].resp
             /\ \/ call'[d].waited = call[d].waited /\ call[d].waited \notin 0 .. WaitBlocks - 1
                \/ call'[d].waited = call[d].waited /\ pc[d] \notin {"wait", "storeWait"}
                \/ /\ pc[d] \in {"wait", "storeWait"} /\ call[d].waited \in 0 .. WaitBlocks - 1
                   /\ call'[d].waited = call[d].waited + 1
  <2>1. call[d] \in CallType
    BY DEF Safe, Typed, CallsTyped
  <2>2. CASE pc[d] \in {"wait", "storeWait"} /\ call[d].waited \in 0 .. WaitBlocks - 1
    <3>1. call'[d] = [call[d] EXCEPT !.waited = call[d].waited + 1]
      BY <1>1, <2>2
    <3>2. call[d].waited + 1 \in (0 .. WaitBlocks) \cup {None}
      BY <2>2, Constants
    <3> QED
      BY <2>1, <2>2, <3>1, <3>2 DEF CallType
  <2>3. CASE ~(pc[d] \in {"wait", "storeWait"} /\ call[d].waited \in 0 .. WaitBlocks - 1)
    <3>1. call'[d] = call[d]
      BY <1>1, <2>3
    <3> QED
      BY <2>1, <2>3, <3>1
  <2> QED
    BY <2>2, <2>3
<1>3. call' \in [Callers -> CallType]
  BY <1>1, <1>2
<1> QED
  BY <1>2, <1>3 DEF Op, Tx

LEMMA BlockStep ==
  ASSUME Safe, Block
  PROVE  Safe' /\ (Timely => Timely')
<1>1. PICK n \in committed .. Len(txs) : BlockMoves(n)
  BY BlockChain
<1>2. /\ ChainTyped /\ OrderInv /\ ChainTyped' /\ Uncommitted' \subseteq Uncommitted
      /\ dym' = dym /\ pc' = pc /\ lock' = lock /\ buf' = buf /\ cut' = cut /\ faults' = faults
      /\ committed \in Nat /\ Len(txs) \in Nat /\ DOMAIN txs = 1 .. Len(txs) /\ n \in Nat
      /\ committed <= n /\ n <= Len(txs)
  <2>1. /\ ChainTyped /\ OrderInv
        /\ dym' = dym /\ pc' = pc /\ lock' = lock /\ buf' = buf /\ cut' = cut /\ faults' = faults
    BY DEF Safe, Typed, Block
  <2>2. committed \in Nat /\ Len(txs) \in Nat /\ DOMAIN txs = 1 .. Len(txs)
    BY <2>1, ChainFacts
  <2>3. n \in Nat /\ committed <= n /\ n <= Len(txs)
    BY <2>2
  <2> QED
    BY <2>1, <2>2, <2>3, BlockChain
<1>3. \A id : /\ Submitted(id)' <=> Submitted(id)
              /\ Executed(id) => Executed(id)'
              /\ Found(id) => Found(id)'
              /\ Pending(id)' => Pending(id)
              /\ Found(id) /\ Executed(id)' => Executed(id)
              /\ ~Pending(id) /\ Executed(id)' => Executed(id)
  <2> TAKE id
  <2>1. Submitted(id)' <=> Submitted(id)
    BY <1>1, <1>2 DEF BlockMoves, Submitted
  <2>2. (Executed(id) => Executed(id)') /\ (Found(id) => Found(id)')
    BY <1>1, <1>2 DEF BlockMoves, Executed, Found
  <2>3. Pending(id)' => Pending(id)
    BY <1>1, <1>2 DEF BlockMoves, Pending, Uncommitted
  <2>4. ASSUME Executed(id)', Found(id) \/ ~Pending(id) PROVE Executed(id)
    <3>1. PICK j \in 1 .. n : txs'[j].id = id /\ txs'[j].ok
      BY <1>1, <2>4 DEF Executed, BlockMoves
    <3>2. j \in DOMAIN txs /\ txs[j].id = id
      BY <1>1, <1>2, <3>1 DEF BlockMoves
    <3>3. j <= committed
      <4>1. CASE Found(id)
        <5>1. PICK i \in 1 .. committed : txs[i].id = id
          BY <4>1 DEF Found
        <5>2. i \in DOMAIN txs
          BY <1>2
        <5>3. i = j
          BY <1>2, <3>2, <5>1, <5>2, Unique
        <5> QED
          BY <1>2, <5>3
      <4>2. CASE ~Pending(id)
        BY <1>2, <3>2, <4>2 DEF Pending, Uncommitted
      <4> QED
        BY <2>4, <4>1, <4>2
    <3> QED
      BY <1>1, <1>2, <3>1, <3>2, <3>3 DEF Executed, BlockMoves
  <2> QED
    BY <2>1, <2>2, <2>3, <2>4
<1>4. Typed'
  <2>1. CallsTyped /\ BuffersOK /\ FlagsTyped /\ LockInv
    BY DEF Safe, Typed
  <2>2. call' \in [Callers -> CallType]
    <3>1. CASE Callers = {}
      BY <3>1 DEF Block
    <3>2. CASE Callers # {}
      BY <3>2, BlockCalls
    <3> QED
      BY <3>1, <3>2
  <2>3. BuffersOK' /\ FlagsTyped' /\ LockInv' /\ CallsTyped'
    BY <1>2, <2>1, <2>2 DEF CallsTyped, BuffersOK, FlagsTyped, LockInv
  <2> QED
    BY <1>2, <2>3 DEF Typed
<1>5. OrderInv'
  BY <1>1, <1>2 DEF BlockMoves, OrderInv
<1>6. ASSUME NEW c \in Callers
      PROVE  /\ Submitted(Tx(c))' <=> Submitted(Tx(c))
             /\ Executed(Tx(c)) => Executed(Tx(c))'
             /\ Found(Tx(c)) => Found(Tx(c))'
             /\ Pending(Tx(c))' => Pending(Tx(c))
             /\ Found(Tx(c)) /\ Executed(Tx(c))' => Executed(Tx(c))
             /\ ~Pending(Tx(c)) /\ Executed(Tx(c))' => Executed(Tx(c))
             /\ Executed(call[c].resp) => Executed(call[c].resp)'
  <2> DEFINE x == Tx(c)
             y == call[c].resp
  <2>1. x' = x /\ y' = y
    BY BlockCalls
  <2> HIDE DEF x, y
  <2>2. PICK u : u = x
    OBVIOUS
  <2>3. PICK v : v = y
    OBVIOUS
  <2>4. /\ Submitted(x)' = Submitted(u)' /\ Executed(x)' = Executed(u)' /\ Found(x)' = Found(u)'
        /\ Pending(x)' = Pending(u)' /\ Executed(y)' = Executed(v)'
    BY <2>1, <2>2, <2>3 DEF Submitted, Executed, Found, Pending
  <2> QED
    BY <1>3, <2>2, <2>3, <2>4 DEF x, y
<1>7. ASSUME NEW c \in Callers PROVE CallerOK(c)'
  <2>1. PlaceOK(c) /\ OwnTxs(c) /\ BufferOK(c)
    BY DEF Safe, CallerOK
  <2>2. /\ Op(c)' = Op(c) /\ Tx(c)' = Tx(c)
        /\ call'[c].outcome = call[c].outcome /\ call'[c].resp = call[c].resp
        /\ call[c].waited = None /\ pc[c] \in Before => call'[c].waited = None
    BY BlockCalls DEF Before
  <2>3. PlaceOK(c)'
    BY <1>2, <2>1, <2>2 DEF PlaceOK
  <2>4. OwnTxs(c)'
    BY <1>1, <1>2, <2>1, <2>2 DEF OwnTxs, BlockMoves
  <2>5. BufferOK(c)'
    BY <1>2, <1>6, <2>1, <2>2 DEF BufferOK
  <2> QED
    BY <2>3, <2>4, <2>5 DEF CallerOK
<1>8. ASSUME Timely, NEW c \in Callers PROVE TimelyOK(c)'
  <2>1. WaitOK(c) /\ DoneOK(c) /\ FreshOK(c) /\ TransferOK(c) /\ StoreOK(c)
    BY <1>8 DEF Timely, TimelyOK
  <2>2. /\ Op(c)' = Op(c) /\ Tx(c)' = Tx(c) /\ call'[c].seq = call[c].seq
        /\ call'[c].outcome = call[c].outcome /\ call'[c].resp = call[c].resp
    BY BlockCalls
  <2>3. WaitOK(c)'
    <3>1. \A i \in Uncommitted' :
            /\ i \in Uncommitted /\ txs'[i].id = txs[i].id
            /\ txs'[i].age = txs[i].age + 1 /\ txs[i].age \in Nat
      <4> TAKE i \in Uncommitted'
      <4>1. i \in Uncommitted /\ i \in DOMAIN txs /\ i > n
        BY <1>1, <1>2, ChainFacts DEF Uncommitted, BlockMoves
      <4>2. txs[i].age \in Nat
        BY <1>2, <4>1, ChainFacts, Constants DEF TxType
      <4> QED
        BY <1>1, <4>1, <4>2 DEF BlockMoves
    <3>2. \A i \in Uncommitted' : txs'[i].id[1] = c /\ txs'[i].id \notin cut' => pc'[c] = "wait" /\ txs'[i].id = Tx(c)'
      BY <1>2, <2>1, <2>2, <3>1 DEF WaitOK
    <3>3. ASSUME pc[c] \in {"wait", "storeWait"}, call'[c].waited # None, NEW i \in Uncommitted', txs'[i].id = Tx(c)'
          PROVE  call'[c].waited <= txs'[i].age
      <4>1. call[c].waited # None => call[c].waited <= txs[i].age
        BY <2>1, <2>2, <3>1, <3>3 DEF WaitOK
      <4>2. /\ call[c].waited \in (0 .. WaitBlocks) \cup {None}
            /\ txs'[i].age = txs[i].age + 1 /\ txs[i].age \in Nat
            /\ None \notin Nat /\ WaitBlocks = 5
        BY <3>1, Constants DEF Safe, Typed, CallsTyped, CallType
      <4>3. CASE call'[c].waited = call[c].waited
        <5>1. call[c].waited \in Nat /\ call[c].waited <= txs[i].age
          BY <3>3, <4>1, <4>2, <4>3
        <5> QED
          BY <4>2, <4>3, <5>1
      <4>4. CASE call[c].waited \in 0 .. WaitBlocks - 1 /\ call'[c].waited = call[c].waited + 1
        <5>1. call[c].waited \in Nat /\ call[c].waited # None
          BY <4>2, <4>4
        <5> QED
          BY <4>1, <4>2, <4>4, <5>1
      <4> QED
        BY <4>3, <4>4, BlockCalls
    <3>4. pc'[c] = "wait" /\ ~Async(Op(c)') => Submitted(Tx(c))'
      BY <1>2, <1>6, <2>1, <2>2 DEF WaitOK
    <3> QED
      BY <1>2, <3>2, <3>3, <3>4 DEF WaitOK
  <2>4. DoneOK(c)'
    BY <1>2, <1>6, <2>1, <2>2 DEF DoneOK
  <2>5. FreshOK(c)'
    <3>1. \A i \in 0 .. Len(txs) : Of(KeyOf[c], i)' = Of(KeyOf[c], i)
      BY <1>1, <1>2 DEF Of, BlockMoves
    <3>2. Len(txs') = Len(txs) /\ Len(txs) \in 0 .. Len(txs)
      BY <1>1, <1>2 DEF BlockMoves
    <3>3. Of(KeyOf[c], Len(txs))' = Of(KeyOf[c], Len(txs))
      BY <1>1, <1>2 DEF Of, BlockMoves
    <3>4. \A i \in Of(KeyOf[c], Len(txs)) : i \in 0 .. Len(txs) /\ txs'[i].id = txs[i].id
      BY <1>1, <1>2 DEF Of, BlockMoves
    <3> QED
      BY <1>2, <2>1, <2>2, <3>1, <3>3, <3>4 DEF FreshOK
  <2>6. TransferOK(c)'
    BY <1>2, <1>6, <2>1, <2>2 DEF TransferOK
  <2>7. StoreOK(c)'
    <3>1. Op(c) = "StoreContract" /\ pc[c] = "idle" /\ call[c].outcome = "ok" => ~Pending(Tx(c))
      BY <2>1 DEF DoneOK
    <3> QED
      BY <1>2, <1>6, <2>1, <2>2, <3>1 DEF StoreOK
  <2> QED
    BY <2>3, <2>4, <2>5, <2>6, <2>7 DEF TimelyOK
<1> QED
  BY <1>4, <1>5, <1>7, <1>8 DEF Safe, Timely

-----------------------------------------------------------------------------
(* The invariant, and what it says of every run.                             *)

LEMMA InitIInv ==
  ASSUME Init
  PROVE  IInv
<1>1. /\ txs = <<>> /\ committed = 0 /\ cut = {} /\ faults = 0 /\ lock = None /\ dym \in BOOLEAN
      /\ pc = [c \in Callers |-> "idle"] /\ call = [c \in Callers |-> Idle]
      /\ buf = [c \in Callers |-> <<>>]
  BY DEF Init
<1>2. ChainTyped /\ OrderInv /\ DOMAIN txs = {}
  BY <1>1 DEF ChainTyped, OrderInv
<1>3. CallsTyped /\ BuffersOK /\ FlagsTyped /\ LockInv
  <2>1. CallsTyped
    BY <1>1, IdleTyped DEF CallsTyped, Places
  <2>2. BuffersOK /\ FlagsTyped /\ LockInv
    BY <1>1, Constants DEF BuffersOK, FlagsTyped, LockInv, Locked
  <2> QED
    BY <2>1, <2>2
<1>4. ASSUME NEW c \in Callers PROVE CallerOK(c) /\ TimelyOK(c)
  <2>1. pc[c] = "idle" /\ call[c].op = None /\ Op(c) = None
    BY <1>1, <1>4 DEF Op, Idle
  <2>2. None # "BroadcastTx" /\ None # "SendIBCTransfer" /\ None # "StoreContract"
    BY Constants DEF Ops
  <2>3. PlaceOK(c) /\ OwnTxs(c) /\ BufferOK(c)
    BY <1>2, <2>1, <2>2 DEF PlaceOK, OwnTxs, BufferOK, Before
  <2>4. WaitOK(c) /\ DoneOK(c) /\ FreshOK(c) /\ TransferOK(c) /\ StoreOK(c)
    <3>1. Uncommitted \subseteq DOMAIN txs
      BY <1>2, ChainFacts
    <3> QED
      BY <1>2, <2>1, <2>2, <3>1 DEF WaitOK, DoneOK, FreshOK, TransferOK, StoreOK
  <2> QED
    BY <2>3, <2>4 DEF CallerOK, TimelyOK
<1> QED
  BY <1>2, <1>3, <1>4 DEF IInv, Safe, Typed, Timely

LEMMA NextKeeps ==
  ASSUME Safe, [Next]_vars
  PROVE  Safe' /\ (Timely /\ MaxLag < WaitBlocks => Timely')
<1>1. CASE Block
  BY <1>1, BlockStep
<1>2. ASSUME NEW c \in Callers, CallerStep(c) \/ Call(c) \/ ExecFails(c) \/ HeightFails(c)
      PROVE  Safe' /\ (Timely /\ MaxLag < WaitBlocks => Timely')
  <2>1. CASE Call(c)
    BY <2>1, CallStep
  <2>2. CASE ExecFails(c)
    BY <2>2, ExecFailsStep
  <2>3. CASE HeightFails(c)
    BY <2>3, HeightFailsStep
  <2>4. CASE Lock(c)
    BY <2>4, LockStep
  <2>5. CASE ReadAccount(c)
    BY <2>5, ReadAccountStep
  <2>6. CASE ExecTx(c)
    BY <2>6, ExecTxStep
  <2>7. CASE FirstHeight(c)
    BY <2>7, FirstHeightStep
  <2>8. CASE WaitDone(c)
    BY <2>8, WaitDoneStep
  <2>9. CASE GetTransaction(c)
    BY <2>9, GetTransactionStep
  <2>10. CASE ListCodes(c)
    BY <2>10, ListCodesStep
  <2>11. CASE GetFactory(c)
    BY <2>11, GetFactoryStep
  <2>12. CASE GetClientContext(c)
    BY <2>12, GetClientContextStep
  <2>13. CASE Broadcast(c)
    BY <2>13, BroadcastStep
  <2>14. CASE QueryTx(c)
    BY <2>14, QueryTxStep
  <2> QED
    BY <1>2, <2>1, <2>2, <2>3, <2>4, <2>5, <2>6, <2>7, <2>8, <2>9, <2>10, <2>11, <2>12, <2>13, <2>14
       DEF CallerStep
<1>3. CASE UNCHANGED vars
  <2>1. /\ dym' = dym /\ pc' = pc /\ call' = call /\ lock' = lock /\ txs' = txs /\ committed' = committed
        /\ buf' = buf /\ cut' = cut /\ faults' = faults
    BY <1>3 DEF vars, chain
  <2>2. ASSUME NEW c \in Callers PROVE CallerOK(c)'
    <3>1. PlaceOK(c)' /\ OwnTxs(c)'
      BY <2>1 DEF Safe, CallerOK, PlaceOK, OwnTxs, Op, Tx
    <3>2. (Executed(Tx(c))' <=> Executed(Tx(c))) /\ (Submitted(Tx(c))' <=> Submitted(Tx(c)))
      BY <2>1 DEF Executed, Submitted, Tx
    <3>3. BufferOK(c)'
      BY <2>1, <3>2 DEF Safe, CallerOK, BufferOK, Op, Tx
    <3> QED
      BY <3>1, <3>3 DEF CallerOK
  <2>3. Typed' /\ OrderInv'
    BY <2>1 DEF Safe, Typed, CallsTyped, ChainTyped, BuffersOK, FlagsTyped, LockInv, OrderInv
  <2>4. ASSUME Timely, NEW c \in Callers PROVE TimelyOK(c)'
    <3>1. TimelyOK(c)
      BY <2>4 DEF Timely
    <3>2. WaitOK(c)' /\ DoneOK(c)'
      BY <2>1, <3>1 DEF TimelyOK, WaitOK, DoneOK, Uncommitted, Submitted, Pending, Found, Op, Tx
    <3>3. FreshOK(c)'
      BY <2>1, <3>1 DEF TimelyOK, FreshOK, Of
    <3>4. TransferOK(c)' /\ StoreOK(c)'
      BY <2>1, <3>1 DEF TimelyOK, TransferOK, StoreOK, Found, Executed, Op, Tx
    <3> QED
      BY <3>2, <3>3, <3>4 DEF TimelyOK
  <2> QED
    BY <2>2, <2>3, <2>4 DEF Safe, Timely
<1> QED
  BY <1>1, <1>2, <1>3 DEF Next

\* The types, the lock and its holder, the order of the transactions and what
\* BroadcastTx answers need nothing of the chain's speed.
THEOREM SafeAlways == Spec => []Safe
<1>1. Init => Safe
  BY InitIInv DEF IInv
<1>2. Safe /\ [Next]_vars => Safe'
  BY NextKeeps
<1> QED
  BY <1>1, <1>2, PTL DEF Spec

\* The chain takes a transaction into a block while its command waits.
THEOREM Invariance ==
  ASSUME MaxLag < WaitBlocks
  PROVE  Spec => []IInv
<1>1. Init => IInv
  BY InitIInv
<1>2. IInv /\ [Next]_vars => IInv'
  BY NextKeeps DEF IInv
<1> QED
  BY <1>1, <1>2, PTL DEF Spec

\* Every variable keeps its type; node.lock is held from Lock to the end of
\* ExecTx, by one caller.
THEOREM TypeCorrect == Spec => []TypeOK
<1>1. Safe => TypeOK
  <2> SUFFICES ASSUME Safe PROVE TypeOK
    OBVIOUS
  <2>1. CallsTyped /\ ChainTyped /\ BuffersOK /\ FlagsTyped /\ LockInv
    BY DEF Safe, Typed
  <2>2. \A i \in DOMAIN txs : txs[i].id \in Ids /\ txs[i].age \in 0 .. MaxLag
    BY <2>1, ChainFacts DEF TxType
  <2>3. ASSUME NEW c \in Callers
        PROVE  /\ pc[c] \in Places /\ (pc[c] \in Locked <=> lock = c)
               /\ Op(c) \in Ops \cup {None} /\ Tx(c) \in Ids
               /\ call[c].waited \in 0 .. WaitBlocks \cup {None}
               /\ call[c].tries \in 0 .. MaxTries - 1
               /\ \A i \in DOMAIN buf[c] : buf[c][i].id \in Ids
    <3>1. call[c] \in CallType /\ pc[c] \in Places /\ Op(c) \in Ops \cup {None} /\ Tx(c) \in Ids
      BY CallFacts
    <3>2. \A i \in DOMAIN buf[c] : buf[c][i] \in Response
      BY <2>1 DEF BuffersOK
    <3> QED
      BY <2>1, <3>1, <3>2 DEF LockInv, CallType, Response
  <2> QED
    BY <2>1, <2>2, <2>3 DEF TypeOK, Places, Locked, FlagsTyped, LockInv, ChainTyped
<1> QED
  BY <1>1, SafeAlways, PTL

\* BroadcastTx answers for its own messages, at any speed of the chain: the
\* buffer of the Broadcaster is empty whenever a call submits.
THEOREM OwnResponses == Spec => []OwnResponse
<1>1. Safe => OwnResponse
  <2> SUFFICES ASSUME Safe, NEW c \in Callers,
                      pc[c] = "idle", Op(c) = "BroadcastTx", call[c].outcome # "error"
               PROVE  /\ call[c].resp = Tx(c)
                      /\ call[c].outcome = "ok" => Executed(Tx(c))
                      /\ call[c].outcome = "rejected" => ~Found(Tx(c))
    BY DEF OwnResponse
  <2>1. /\ call[c].resp = Tx(c)
        /\ call[c].outcome = "ok" => Executed(Tx(c))
        /\ call[c].outcome = "rejected" => ~Submitted(Tx(c))
    BY DEF Safe, CallerOK, BufferOK
  <2>2. Found(Tx(c)) => Submitted(Tx(c))
    BY ChainFacts DEF Safe, Typed, Found, Submitted
  <2> QED
    BY <2>1, <2>2
<1> QED
  BY <1>1, SafeAlways, PTL

\* A command signs with a sequence that is still the next one unless another
\* call left a transaction of the key behind: as node.lock is held while a
\* command waits, and its five blocks are more than the chain needs.
THEOREM FreshSequences ==
  ASSUME MaxLag < WaitBlocks
  PROVE  Spec => []SequenceFresh
<1>1. IInv => SequenceFresh
  BY DEF IInv, Timely, TimelyOK, FreshOK, SequenceFresh
<1>2. Spec => []IInv
  BY Invariance
<1> QED
  BY <1>1, <1>2, PTL

\* What SendIBCTransfer, StoreContract and BroadcastTx report is true of the
\* chain and stays true.
THEOREM TruthfulAnswers ==
  ASSUME MaxLag < WaitBlocks
  PROVE  Spec => []AnswersTruthful
<1>1. IInv => TransferTruthful /\ StoreTruthful
  BY DEF IInv, Timely, TimelyOK, TransferOK, StoreOK, TransferTruthful, StoreTruthful
<1>2. Spec => []IInv
  BY Invariance
<1>3. Spec => []TransferTruthful /\ []StoreTruthful
  BY <1>1, <1>2, PTL
<1>4. TransferTruthful /\ OwnResponse /\ StoreTruthful => AnswersTruthful
  BY DEF AnswersTruthful
<1> QED
  BY <1>3, <1>4, OwnResponses, PTL

=============================================================================
