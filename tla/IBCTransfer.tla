----------------------------- MODULE IBCTransfer -----------------------------
(***************************************************************************)
(* CosmosChain.IBCTransfer: send a packet, run the relayer for a while and *)
(* compare balances.  The test calls it several times for one user on each *)
(* chain and one channel, and may start and stop the relayer in between.   *)
(* Balances count the transfer's denom and its voucher; fees are zero, as  *)
(* in the repository's chain configurations.                               *)
(***************************************************************************)
EXTENDS DockerRelayer, Sequences

CONSTANTS
  Amounts,     \* amounts a transfer may be of
  MaxTransfers \* bound on the calls of IBCTransfer

ASSUME TransferAssumption == Amounts \subseteq Nat \ {0} /\ MaxTransfers \in Nat

VARIABLES
  at,       \* the statement of IBCTransfer the test is at; "test": none
  calls,    \* calls of IBCTransfer so far
  amount,   \* transferAmount of the current call
  origBal,  \* chainAOrigBal: what the user had spent, in all, when it began
  updateBal, \* chainAUpdateBal: what the user has spent, in all, after the wait
  packets,  \* [amount, state] of the packets sent, in order
  clean,    \* no packet was in flight and none had been received at that time
  outcome   \* what the last IBCTransfer returned

testVars == <<at, calls, amount, origBal, updateBal, packets, clean, outcome>>
vars     == <<relayerVars, testVars>>

Statements == {"test", "send", "start", "starting", "wait", "check", "compare",
               "stop", "stopping", "last"}

Init ==
  /\ RelayerInit
  /\ at = "test" /\ calls = 0 /\ amount = 0 /\ origBal = 0 /\ updateBal = 0
  /\ packets = <<>> /\ clean = FALSE /\ outcome = "none"

\* What the packets in one of the states S amount to.
Total(S) ==
  LET Counted(i) == IF packets[i].state \in S THEN packets[i].amount ELSE 0
      Sum[i \in 0 .. Len(packets)] == IF i = 0 THEN 0 ELSE Sum[i - 1] + Counted(i)
  IN Sum[Len(packets)]

\* Balances: chain A's user has lost this, chain B's user holds this.
SpentOnA == Total({"flight", "received"})
HeldOnB  == Total({"received"})

Leave(o) == at' = "test" /\ outcome' = o

-----------------------------------------------------------------------------
(* IBCTransfer. *)

\* Called; the original balance is read, or reading it fails.
Call(a) ==
  /\ at = "test" /\ pc = "idle" /\ calls < MaxTransfers
  /\ calls' = calls + 1 /\ amount' = a /\ updateBal' = 0
  /\ clean' = \A i \in DOMAIN packets : packets[i].state = "refunded"
  /\ \/ origBal' = SpentOnA /\ at' = "send" /\ UNCHANGED outcome
     \/ Leave("error") /\ UNCHANGED origBal
  /\ UNCHANGED <<relayerVars, packets>>

\* A mutant: a transaction that cannot be queried is sent again.
SendIBCTransferAgain ==
  /\ at = "send" /\ at' \in {"send", "start"} /\ UNCHANGED outcome
  /\ packets' = Append(packets, [amount |-> amount, state |-> "flight"])
  /\ UNCHANGED <<relayerVars, calls, amount, origBal, updateBal, clean>>

\* SendIBCTransfer and Validate.  The transaction may be committed and the
\* call still fail, when it cannot be queried in time.
SendIBCTransfer ==
  /\ at = "send"
  /\ \/ /\ packets' = Append(packets, [amount |-> amount, state |-> "flight"])
        /\ (at' = "start" /\ UNCHANGED outcome) \/ Leave("error")
     \/ UNCHANGED packets /\ Leave("error")
  /\ UNCHANGED <<relayerVars, calls, amount, origBal, updateBal, clean>>

CallStartRelayer ==
  /\ at = "start" /\ StartRelayer
  /\ at' = "starting"
  /\ UNCHANGED <<calls, amount, origBal, updateBal, packets, clean, outcome>>

\* StartRelayer or StopRelayer has returned.
RelayerReturned ==
  /\ at \in {"starting", "stopping"} /\ pc = "idle"
  /\ IF ret = "ok"
     THEN at' = (IF at = "starting" THEN "wait" ELSE "last") /\ UNCHANGED outcome
     ELSE Leave("error")
  /\ UNCHANGED <<relayerVars, calls, amount, origBal, updateBal, packets, clean>>

\* WaitForBlocks, which says nothing of what was relayed meanwhile.
WaitForBlocks ==
  /\ at \in {"wait", "last"}
  /\ \/ at = "wait" /\ at' = "check" /\ UNCHANGED outcome
     \/ at = "last" /\ Leave("ok")
     \/ Leave("error")
  /\ UNCHANGED <<relayerVars, calls, amount, origBal, updateBal, packets, clean>>

\* Chain A's balance is read again, and then chain B's, while packets may
\* still arrive.
ReadBalanceOfA ==
  /\ at = "check"
  /\ \/ updateBal' = SpentOnA /\ at' = "compare" /\ UNCHANGED outcome
     \/ Leave("error") /\ UNCHANGED updateBal
  /\ UNCHANGED <<relayerVars, calls, amount, origBal, packets, clean>>

\* A mutant: only the sender's balance is compared.
CheckBalanceOfA ==
  /\ at = "compare"
  /\ \/ origBal + amount = updateBal /\ at' = "stop" /\ UNCHANGED outcome
     \/ Leave("error")
  /\ UNCHANGED <<relayerVars, calls, amount, origBal, updateBal, packets, clean>>

\* Any difference is an error, on which the relayer is left running.
CheckBalances ==
  /\ at = "compare"
  /\ \/ /\ origBal + amount = updateBal /\ HeldOnB = amount
        /\ at' = "stop" /\ UNCHANGED outcome
     \/ Leave("error")
  /\ UNCHANGED <<relayerVars, calls, amount, origBal, updateBal, packets, clean>>

CallStopRelayer ==
  /\ at = "stop" /\ StopRelayer
  /\ at' = "stopping"
  /\ UNCHANGED <<calls, amount, origBal, updateBal, packets, clean, outcome>>

-----------------------------------------------------------------------------
(* The test's own calls and the relayer's work. *)

TestStartsOrStops ==
  /\ at = "test"
  /\ StartRelayer \/ StopRelayer
  /\ UNCHANGED testVars

\* A running relayer delivers packets, in any order, or times them out.
Relay(i) ==
  /\ Running # {} /\ i \in DOMAIN packets /\ packets[i].state = "flight"
  /\ \E s \in {"received", "refunded"} : packets' = [packets EXCEPT ![i].state = s]
  /\ UNCHANGED <<relayerVars, at, calls, amount, origBal, updateBal, clean, outcome>>

Transfer ==
  \/ SendIBCTransfer \/ CallStartRelayer \/ RelayerReturned \/ WaitForBlocks
  \/ ReadBalanceOfA \/ CheckBalances \/ CallStopRelayer

Next ==
  \/ Transfer
  \/ RelayerStep /\ UNCHANGED testVars
  \/ Environment /\ UNCHANGED testVars
  \/ \E a \in Amounts : Call(a)
  \/ TestStartsOrStops
  \/ \E i \in 1 .. MaxTransfers : Relay(i)

Spec == Init /\ [][Next]_vars

\* The statements and docker calls of IBCTransfer take finite time.
FairSpec == Spec /\ WF_vars(Transfer) /\ WF_vars(RelayerStep /\ UNCHANGED testVars)
-----------------------------------------------------------------------------
(* Properties. *)

\* Every variable stays in its domain.
TypeOK ==
  /\ RelayerTypeOK
  /\ at \in Statements /\ calls \in 0 .. MaxTransfers
  /\ amount \in Amounts \cup {0} /\ origBal \in Nat /\ updateBal \in Nat
  /\ packets \in Seq([amount : Amounts, state : {"flight", "received", "refunded"}])
  /\ Len(packets) <= calls
  /\ clean \in BOOLEAN /\ outcome \in {"none", "ok", "error"}

\* An IBCTransfer whose balances pass the check moved exactly its own packet,
\* provided nothing older was received or in flight when it began.
SuccessIsDelivery ==
  at \in {"stop", "stopping", "last"} /\ clean => packets[Len(packets)].state = "received"
=============================================================================
