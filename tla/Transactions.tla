---------------------------- MODULE Transactions ----------------------------
(***************************************************************************)
(* How the tests of one chain submit transactions through one node.        *)
(*                                                                         *)
(* A command of the chain's binary (ExecTx) holds node.lock while it reads *)
(* the signer's sequence from the committed state, has the transaction     *)
(* checked into the mempool, and waits for WaitBlocks blocks.  BroadcastTx *)
(* signs in the test process and takes no lock.  The node, its mempool and *)
(* its blocks are the environment: a transaction accepted by CheckTx is in *)
(* a block at most MaxLag blocks later, in the order of acceptance.        *)
(***************************************************************************)
EXTENDS Naturals, Sequences, FiniteSets

CONSTANTS
  Callers,    \* goroutines of the tests
  Keys,       \* signing keys
  KeyOf,      \* [Callers -> Keys]
  OpsOf,      \* [Callers -> SUBSET Ops]
  Calls,      \* [Callers -> Nat]: bound, how often a caller calls
  MaxLag,     \* bound: blocks until an accepted transaction is in one
  MaxTries,   \* attempts of getTransaction, 15 in the code
  MaxFaults,  \* bound: docker and RPC calls that fail
  None

\* SendFunds stands for all that return with ExecTx, TextProposal for all that
\* end with txProposal.
Ops == {"SendFunds", "SendIBCTransfer", "TextProposal", "RegisterRollAppToHub",
        "StoreContract", "BroadcastTx"}

ASSUME TransactionsAssumption ==
  /\ KeyOf \in [Callers -> Keys]
  /\ OpsOf \in [Callers -> SUBSET Ops]
  /\ Calls \in [Callers -> Nat]
  /\ MaxLag \in Nat /\ MaxTries \in Nat \ {0} /\ MaxFaults \in Nat
  /\ None \notin Callers \cup Ops \cup Nat

WaitBlocks == 5

VARIABLES
  dym,       \* the chain is of type rollapp-dym
  pc,        \* where each caller is
  call,      \* its current call, or its last one when it is idle
  lock,      \* who holds node.lock
  txs,       \* the transactions CheckTx accepted, in their order
  committed, \* how many of them are in blocks; the others are the mempool
  buf,       \* the responses in the buffer of each caller's Broadcaster
  cut,       \* transactions whose call returned without having waited
  faults

chain == <<txs, committed>>
vars  == <<dym, pc, call, lock, chain, buf, cut, faults>>

Idle == [op |-> None, n |-> 0, round |-> 1, seq |-> 0, waited |-> None,
         tries |-> 0, outcome |-> None, resp |-> None]

Init ==
  /\ dym \in BOOLEAN
  /\ pc = [c \in Callers |-> "idle"]
  /\ call = [c \in Callers |-> Idle]
  /\ lock = None
  /\ txs = <<>> /\ committed = 0
  /\ buf = [c \in Callers |-> <<>>]
  /\ cut = {}
  /\ faults = 0

\* The transaction a caller is submitting.
Tx(c) == <<c, call[c].n, call[c].round>>
Op(c) == call[c].op

\* Of the first n transactions those that k signed; each uses a sequence number.
Of(k, n)     == {i \in 1 .. n : KeyOf[txs[i].id[1]] = k}
Sequence(c)  == Cardinality(Of(KeyOf[c], committed))
Expected(c)  == Cardinality(Of(KeyOf[c], Len(txs)))
Found(id)    == \E i \in 1 .. committed : txs[i].id = id
Executed(id) == \E i \in 1 .. committed : txs[i].id = id /\ txs[i].ok

Goto(c, l) == pc' = [pc EXCEPT ![c] = l]

\* What a call knew is gone when it returns; its outcome remains.
Return(c, outcome, resp) ==
  /\ Goto(c, "idle")
  /\ call' = [call EXCEPT ![c] = [Idle EXCEPT !.op = call[c].op, !.n = call[c].n,
                  !.round = call[c].round, !.outcome = outcome, !.resp = resp]]

Fault == faults < MaxFaults /\ faults' = faults + 1

-----------------------------------------------------------------------------
(* The chain. *)

\* Operations that look at what became of their transaction.
Answered == {"SendIBCTransfer", "StoreContract", "BroadcastTx"}

\* A block takes a prefix of the mempool; some of its transactions fail.
Block ==
  /\ \E n \in committed .. Len(txs) :
       /\ \A i \in n + 1 .. Len(txs) : txs[i].age < MaxLag
       /\ \E failed \in SUBSET {i \in committed + 1 .. n : txs[i].op \in Answered} :
            txs' = [i \in DOMAIN txs |->
                      IF i > n THEN [txs[i] EXCEPT !.age = @ + 1]
                      ELSE IF i > committed THEN [txs[i] EXCEPT !.age = 0, !.ok = i \notin failed]
                      ELSE txs[i]]
       /\ committed' = n
  /\ call' = [c \in Callers |->
                IF pc[c] \in {"wait", "storeWait"} /\ call[c].waited \in 0 .. WaitBlocks - 1
                THEN [call[c] EXCEPT !.waited = @ + 1] ELSE call[c]]
  /\ UNCHANGED <<dym, pc, lock, buf, cut, faults>>

\* CheckTx: the node accepts the next sequence number of the key and no other.
Accepts(c) == call[c].seq = Expected(c)
Accept(c)  == txs' = Append(txs, [id |-> Tx(c), op |-> Op(c), age |-> 0, ok |-> TRUE])

-----------------------------------------------------------------------------
(* ExecTx and its callers. *)

Call(c) ==
  /\ pc[c] = "idle" /\ call[c].n < Calls[c]
  /\ \E op \in OpsOf[c] :
       /\ call' = [call EXCEPT ![c] = [Idle EXCEPT !.op = op, !.n = call[c].n + 1]]
       /\ Goto(c, IF op = "BroadcastTx" THEN "factory" ELSE "lock")
  /\ UNCHANGED <<dym, lock, chain, buf, cut, faults>>

\* Mutant: the mutex is not waited for.
LockAnyTime(c) ==
  /\ pc[c] = "lock"
  /\ lock' = c
  /\ Goto(c, "read")
  /\ UNCHANGED <<dym, call, chain, buf, cut, faults>>

Lock(c) ==
  /\ pc[c] = "lock" /\ lock = None
  /\ lock' = c
  /\ Goto(c, "read")
  /\ UNCHANGED <<dym, call, chain, buf, cut, faults>>

\* What happens after ExecTx.  The first of the two transactions of
\* RegisterRollAppToHub is not looked at.
AfterExecTx(c, outcome) ==
  \/ /\ Op(c) = "RegisterRollAppToHub" /\ call[c].round = 1
     /\ Goto(c, "lock")
     /\ call' = [call EXCEPT ![c] = [Idle EXCEPT !.op = Op(c), !.n = call[c].n, !.round = 2]]
  \/ /\ Op(c) \in {"SendIBCTransfer", "TextProposal"} /\ outcome = "ok"
     /\ Goto(c, "getTx")
     /\ UNCHANGED call
  \/ /\ Op(c) = "StoreContract" /\ outcome = "ok"
     /\ Goto(c, "storeWait")
     /\ call' = [call EXCEPT ![c].waited = None]
  \/ /\ Op(c) \in {"SendIBCTransfer", "TextProposal", "StoreContract"} => outcome # "ok"
     /\ Op(c) = "RegisterRollAppToHub" => call[c].round = 2
     /\ Return(c, outcome, None)

\* Mutant: only a call that succeeded gives the lock back.
ExecTxReturnsLocked(c, outcome) ==
  /\ lock' = IF outcome = "ok" THEN None ELSE lock
  /\ AfterExecTx(c, outcome)

\* ExecTx returns and its deferred Unlock runs.
ExecTxReturns(c, outcome) ==
  /\ lock' = None
  /\ AfterExecTx(c, outcome)

\* The chain's binary asks the node for the account of --from.
ReadAccount(c) ==
  /\ pc[c] = "read"
  /\ call' = [call EXCEPT ![c].seq = Sequence(c)]
  /\ Goto(c, "check")
  /\ UNCHANGED <<dym, lock, chain, buf, cut, faults>>

\* With --broadcast-mode async the binary prints code 0 whatever CheckTx says.
Async(op) == op = "RegisterRollAppToHub"

ExecTx(c) ==
  /\ pc[c] = "check"
  /\ IF Accepts(c) THEN Accept(c) ELSE UNCHANGED txs
  /\ \/ /\ ~Accepts(c) /\ ~Async(Op(c))
        /\ ExecTxReturns(c, "rejected")
        /\ UNCHANGED cut
     \/ /\ Accepts(c) \/ Async(Op(c))
        /\ dym
        /\ ExecTxReturns(c, "ok")
        /\ cut' = IF Accepts(c) THEN cut \cup {Tx(c)} ELSE cut
     \/ /\ Accepts(c) \/ Async(Op(c))
        /\ ~dym
        /\ Goto(c, "wait")
        /\ UNCHANGED <<call, lock, cut>>
  /\ UNCHANGED <<dym, committed, buf, faults>>

\* Exec fails before the transaction is submitted, or loses the answer.
ExecFails(c) ==
  /\ pc[c] \in {"read", "check"}
  /\ Fault
  /\ \/ UNCHANGED <<txs, cut>>
     \/ /\ pc[c] = "check" /\ Accepts(c)
        /\ Accept(c)
        /\ cut' = cut \cup {Tx(c)}
  /\ ExecTxReturns(c, "execError")
  /\ UNCHANGED <<dym, committed, buf>>

-----------------------------------------------------------------------------
(* WaitForBlocks: the delta is counted from the first height that was read. *)

FirstHeight(c) ==
  /\ pc[c] \in {"wait", "storeWait"} /\ call[c].waited = None
  /\ call' = [call EXCEPT ![c].waited = 0]
  /\ UNCHANGED <<dym, pc, lock, chain, buf, cut, faults>>

\* Mutant: one block is enough.
DeltaReachedAtOne(c) == call[c].waited # None /\ call[c].waited >= 1

DeltaReached(c) == call[c].waited = WaitBlocks

WaitDone(c) ==
  /\ DeltaReached(c)
  /\ \/ pc[c] = "wait" /\ ExecTxReturns(c, "ok")
     \/ pc[c] = "storeWait" /\ Goto(c, "listCodes") /\ UNCHANGED <<call, lock>>
  /\ UNCHANGED <<dym, chain, buf, cut, faults>>

HeightFails(c) ==
  /\ Fault
  /\ \/ /\ pc[c] = "wait"
        /\ ExecTxReturns(c, "waitError")
        /\ cut' = cut \cup {Tx(c)}
     \/ /\ pc[c] = "storeWait"
        /\ Return(c, "waitError", None)
        /\ UNCHANGED <<lock, cut>>
  /\ UNCHANGED <<dym, chain, buf>>

-----------------------------------------------------------------------------
(* What the callers of ExecTx do after it. *)

\* Mutant: the code of the response is not looked at.
GetTransactionIgnoresCode(c) ==
  /\ pc[c] = "getTx"
  /\ \/ /\ Found(Tx(c))
        /\ Return(c, "ok", Tx(c))
        /\ UNCHANGED faults
     \/ /\ (~Found(Tx(c)) /\ UNCHANGED faults) \/ Fault
        /\ IF call[c].tries + 1 < MaxTries
           THEN call' = [call EXCEPT ![c].tries = @ + 1] /\ UNCHANGED pc
           ELSE Return(c, "notFound", None)
  /\ UNCHANGED <<dym, lock, chain, buf, cut>>

\* getTransaction, then for SendIBCTransfer the code of the response, which
\* txProposal does not look at.
GetTransaction(c) ==
  /\ pc[c] = "getTx"
  /\ \/ /\ Found(Tx(c))
        /\ Return(c, IF Op(c) = "SendIBCTransfer" => Executed(Tx(c)) THEN "ok" ELSE "failed", Tx(c))
        /\ UNCHANGED faults
     \/ /\ (~Found(Tx(c)) /\ UNCHANGED faults) \/ Fault
        /\ IF call[c].tries + 1 < MaxTries
           THEN call' = [call EXCEPT ![c].tries = @ + 1] /\ UNCHANGED pc
           ELSE Return(c, "notFound", None)
  /\ UNCHANGED <<dym, lock, chain, buf, cut>>

\* The transactions that stored a code.
Stored == {i \in 1 .. committed : txs[i].ok /\ txs[i].op = "StoreContract"}

\* StoreContract takes the newest code of the chain; it panics if there is none.
ListCodes(c) ==
  /\ pc[c] = "listCodes"
  /\ \/ Stored = {} /\ Return(c, "panic", None) /\ UNCHANGED faults
     \/ \E i \in Stored : (\A j \in Stored : j <= i) /\ Return(c, "ok", txs[i].id) /\ UNCHANGED faults
     \/ Return(c, "queryError", None) /\ Fault
  /\ UNCHANGED <<dym, lock, chain, buf, cut>>

-----------------------------------------------------------------------------
(* BroadcastTx, with a Broadcaster per caller. *)

\* Mutant: the buffer is not emptied.
ClientContextKeepsBuffer(c) == UNCHANGED buf

\* GetClientContext empties the buffer and copies the keyring from docker.
ClientContext(c) == buf' = [buf EXCEPT ![c] = <<>>]

GetFactory(c) ==
  /\ pc[c] = "factory"
  /\ ClientContext(c)
  /\ \/ /\ call' = [call EXCEPT ![c].seq = Sequence(c)]
        /\ Goto(c, "context")
        /\ UNCHANGED faults
     \/ Return(c, "error", None) /\ Fault
  /\ UNCHANGED <<dym, lock, chain, cut>>

GetClientContext(c) ==
  /\ pc[c] = "context"
  /\ ClientContext(c)
  /\ Goto(c, "submit")
  /\ UNCHANGED <<dym, call, lock, chain, cut, faults>>

\* tx.BroadcastTx writes the response of CheckTx, whatever its code, or fails;
\* when it fails the node may have the transaction all the same.
Broadcast(c) ==
  /\ pc[c] = "submit"
  /\ \/ /\ IF Accepts(c) THEN Accept(c) ELSE UNCHANGED txs
        /\ buf' = [buf EXCEPT ![c] = Append(@, [id |-> Tx(c), ok |-> Accepts(c)])]
        /\ Goto(c, "buffer")
        /\ UNCHANGED <<call, faults>>
     \/ /\ Fault
        /\ \/ Accepts(c) /\ Accept(c)
           \/ UNCHANGED txs
        /\ Return(c, "error", None)
        /\ UNCHANGED buf
  /\ cut' = cut \cup {Tx(c)}
  /\ UNCHANGED <<dym, lock, committed>>

\* The response is read five seconds later and its transaction is queried once.
QueryTx(c) ==
  /\ pc[c] = "buffer"
  /\ LET response == Head(buf[c]) IN
       \/ /\ Found(response.id)
          /\ Return(c, IF Executed(response.id) THEN "ok" ELSE "failed", response.id)
          /\ UNCHANGED faults
       \/ /\ (~Found(response.id) /\ UNCHANGED faults) \/ Fault
          /\ Return(c, IF response.ok THEN "accepted" ELSE "rejected", response.id)
  /\ UNCHANGED <<dym, lock, chain, buf, cut>>

-----------------------------------------------------------------------------
CallerStep(c) ==
  \/ Lock(c) \/ ReadAccount(c) \/ ExecTx(c) \/ FirstHeight(c) \/ WaitDone(c)
  \/ GetTransaction(c) \/ ListCodes(c)
  \/ GetFactory(c) \/ GetClientContext(c) \/ Broadcast(c) \/ QueryTx(c)

Next ==
  \/ Block
  \/ \E c \in Callers : CallerStep(c) \/ Call(c) \/ ExecFails(c) \/ HeightFails(c)

Spec == Init /\ [][Next]_vars

\* Docker and RPC calls return, sync.Mutex starves nobody, the chain makes blocks.
FairSpec ==
  /\ Spec
  /\ WF_vars(Block)
  /\ \A c \in Callers : WF_vars(CallerStep(c))
-----------------------------------------------------------------------------
(* Properties. *)

Ids == Callers \X Nat \X (1 .. 2)

\* Types, the mutex and its holder: node.lock is held from Lock to the end of
\* ExecTx and by nobody else, and at most two rounds are run per call.
TypeOK ==
  /\ dym \in BOOLEAN /\ faults \in 0 .. MaxFaults
  /\ lock \in Callers \cup {None}
  /\ \A c \in Callers :
       /\ pc[c] \in {"idle", "lock", "read", "check", "wait", "getTx", "storeWait",
                    "listCodes", "factory", "context", "submit", "buffer"}
       /\ pc[c] \in {"read", "check", "wait"} <=> lock = c
       /\ Op(c) \in Ops \cup {None} /\ Tx(c) \in Ids
       /\ call[c].waited \in 0 .. WaitBlocks \cup {None}
       /\ call[c].tries \in 0 .. MaxTries - 1
       /\ \A i \in DOMAIN buf[c] : buf[c][i].id \in Ids
  /\ committed \in 0 .. Len(txs)
  /\ \A i \in DOMAIN txs : txs[i].id \in Ids /\ txs[i].age \in 0 .. MaxLag
  /\ cut \subseteq Ids

\* A command signs with a sequence that is still the next one, unless another
\* call left its transaction of that key behind without waiting for it: what
\* node.lock and the five blocks of ExecTx are there for.
SequenceFresh ==
  \A c \in Callers : pc[c] = "check" =>
    \A i \in Of(KeyOf[c], Len(txs)) :
      Cardinality(Of(KeyOf[c], i)) > call[c].seq => txs[i].id \in cut

\* SendIBCTransfer returns a transaction that was executed; it gives up looking
\* for one only on a rollapp, where ExecTx does not wait, or after a failed call.
TransferTruthful ==
  \A c \in Callers : pc[c] = "idle" /\ Op(c) = "SendIBCTransfer" =>
    /\ call[c].outcome = "ok" => Executed(Tx(c))
    /\ call[c].outcome = "failed" => Found(Tx(c)) /\ ~Executed(Tx(c))
    /\ call[c].outcome = "notFound" => dym \/ faults > 0

\* BroadcastTx answers for its own messages, never for those of an earlier call
\* with the same Broadcaster, and what it calls executed is in a block.
OwnResponse ==
  \A c \in Callers :
    pc[c] = "idle" /\ Op(c) = "BroadcastTx" /\ call[c].outcome # "error" =>
      /\ call[c].resp = Tx(c)
      /\ call[c].outcome = "ok" => Executed(Tx(c))
      /\ call[c].outcome = "rejected" => ~Found(Tx(c))

\* "Returns the contracts code id": the code StoreContract returns was stored by
\* an executed transaction, and by its own one if nobody else stores contracts.
StoreTruthful ==
  \A c \in Callers : pc[c] = "idle" /\ Op(c) = "StoreContract" /\ call[c].outcome = "ok" =>
    /\ Executed(call[c].resp)
    /\ Executed(Tx(c)) /\ (\A d \in Callers \ {c} : "StoreContract" \notin OpsOf[d])
         => call[c].resp = Tx(c)

\* What callers are told of their transactions is true of the chain.
AnswersTruthful == TransferTruthful /\ OwnResponse /\ StoreTruthful

\* As long as the chain makes blocks every call returns, also those that wait
\* for node.lock behind a call that waits for its five blocks.
CallsReturn == \A c \in Callers : pc[c] # "idle" ~> pc[c] = "idle"

=============================================================================
