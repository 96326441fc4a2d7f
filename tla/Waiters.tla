------------------------------ MODULE Waiters ------------------------------
(***************************************************************************)
(* How a test waits for something to happen on chains that keep moving.    *)
(*                                                                         *)
(* One call of one kind is modelled at a time:                             *)
(*   "packet"    PollForAck, PollForTimeout, PollForMessage: the block at  *)
(*               each height from a first to a last one is searched        *)
(*   "balance", "proposal"                                                 *)
(*               PollForBalance from the present height, and               *)
(*               PollForProposalStatus from a height it is given: the      *)
(*               latest state is looked at once per height                 *)
(*   "blocks"    WaitForBlocks: every chain makes delta blocks             *)
(*   "sync"      WaitForInSync: every node has the height of the chain,    *)
(*               which is the height of one node and no bound for others   *)
(*   "finalized" WaitUntilRollappHeightIsFinalized                         *)
(*   "epoch"     WaitUntilEpochEnds                                        *)
(***************************************************************************)
EXTENDS Naturals

CONSTANTS
  Main,       \* the chain that is asked
  Others,     \* its nodes ("sync"), or further chains ("blocks")
  Delta,      \* deltaBlocks, or the heights to search after the first one
  BatchSize,  \* rollapp heights in a batch the hub finalizes as one
  Target,     \* rollapp height to be finalized
  MaxHeight,  \* bound on heights
  MaxRounds,  \* bound: polls until a time-out passes
  MaxFaults,  \* bound on failing queries
  None

Results == {"error", "found", "notFound", "ok", "true", "timeout", "cancelled"}

ASSUME WaitersAssumption ==
  /\ Main \notin Others
  /\ Delta \in Nat \ {0} /\ BatchSize \in Nat \ {0} /\ Target \in Nat \ {0}
  /\ MaxHeight \in Nat /\ MaxHeight > Delta /\ MaxRounds \in Nat /\ MaxFaults \in Nat
  /\ None \notin Nat /\ None \notin Results

Heighters == Others \cup {Main}
Kinds == {"packet", "balance", "proposal", "blocks", "sync", "finalized", "epoch"}

\* Those that look at the latest state, whatever height they poll.
Latest == {"balance", "proposal"}

VARIABLES
  kind, pc, result,
  heights,    \* of each chain or node
  packetAt,   \* height of the block with the packet, None as long as there is none
  since,      \* height since which the state is the one waited for, or None
  submitted,  \* latest batch the rollapp sent to the hub
  finalized,  \* latest batch the hub finalized, 0 if none
  epoch,
  first, cursor, last,   \* of DoPoll
  read, starting,        \* heights the call has read, and the first of them
  base,       \* baseEpoch
  rounds,     \* polls that are left before the time-out
  missed,     \* heights whose query failed
  from,       \* heights when the call, or its current round, began
  faults

chain == <<heights, packetAt, since, submitted, finalized, epoch>>
vars  == <<kind, pc, result, chain, first, cursor, last, read, starting, base,
           rounds, missed, from, faults>>

Unread == [x \in Heighters |-> None]

Init ==
  /\ kind \in Kinds
  /\ pc = "start" /\ result = None
  /\ heights = [x \in Heighters |-> 0]
  /\ packetAt = None
  /\ since \in {None, 0}
  /\ submitted = 1 /\ finalized = 0 /\ epoch = 1
  /\ first = 0 /\ cursor = 0 /\ last = 0
  /\ read = Unread /\ starting = Unread
  /\ base = None
  /\ rounds = MaxRounds
  /\ missed = {}
  /\ from = heights
  /\ faults = 0

-----------------------------------------------------------------------------
(* The chains. *)

\* What a block of the chain asked may bring, of what the call waits for.
BlockBrings(h) ==
  \/ UNCHANGED <<packetAt, since, submitted, finalized, epoch>>
  \/ /\ kind = "packet" /\ packetAt = None
     /\ packetAt' = h
     /\ UNCHANGED <<since, submitted, finalized, epoch>>
  \/ /\ kind \in Latest
     /\ since' = IF since = None THEN h ELSE None
     /\ UNCHANGED <<packetAt, submitted, finalized, epoch>>
  \/ /\ kind = "finalized"
     /\ \/ submitted' = submitted + 1 /\ UNCHANGED finalized
        \/ finalized' \in finalized + 1 .. submitted /\ UNCHANGED submitted
     /\ UNCHANGED <<packetAt, since, epoch>>
  \/ /\ kind = "epoch"
     /\ epoch' = epoch + 1
     /\ UNCHANGED <<packetAt, since, submitted, finalized>>

\* Bound: Delta heights are left for a call that has not read its first one.
Begun(x)   == IF kind = "blocks" THEN starting[x] # None ELSE pc # "start"
Ceiling(x) == IF Begun(x) THEN MaxHeight ELSE MaxHeight - Delta

Block(x) ==
  /\ heights[x] < Ceiling(x)
  /\ heights' = [heights EXCEPT ![x] = @ + 1]
  /\ IF x = Main THEN BlockBrings(heights'[Main])
     ELSE UNCHANGED <<packetAt, since, submitted, finalized, epoch>>
  /\ UNCHANGED <<kind, pc, result, first, cursor, last, read, starting, base,
                 rounds, missed, from, faults>>

-----------------------------------------------------------------------------
Fault   == faults < MaxFaults /\ faults' = faults + 1
Done(r) == pc' = "done" /\ result' = r
Goto(l) == pc' = l /\ UNCHANGED result

(* The call begins.  A range that is given may be of heights that do not     *)
(* exist yet; PollForBalance starts at the present height.                   *)
Start ==
  /\ pc = "start"
  /\ from' = heights
  /\ \/ /\ kind \in {"packet", "proposal"}
        /\ first' \in 1 .. MaxHeight - Delta
        /\ UNCHANGED <<base, faults>>
        /\ Goto("poll")
     \/ /\ kind = "balance"
        /\ first' = heights[Main]
        /\ UNCHANGED <<base, faults>>
        /\ Goto("poll")
     \/ /\ kind \in {"blocks", "sync", "finalized"}
        /\ UNCHANGED <<first, base, faults>>
        /\ Goto("wait")
     \/ /\ kind = "epoch"
        /\ base' = epoch
        /\ UNCHANGED <<first, faults>>
        /\ Goto("wait")
     \/ /\ kind \in {"balance", "epoch"}
        /\ Fault
        /\ Done("error")
        /\ UNCHANGED <<first, base>>
  /\ cursor' = first' /\ last' = first' + Delta
  /\ UNCHANGED <<kind, chain, read, starting, rounds, missed>>

-----------------------------------------------------------------------------
(* BlockPoller.DoPoll: a height is queried once the chain has it, and once   *)
(* only; an error counts as not found.                                       *)

Matches(h) == IF kind = "packet" THEN packetAt = h ELSE since # None

\* Mutant: the height of the chain is not heeded.
CurrentHeightAhead ==
  /\ pc = "poll"
  /\ Goto("query")
  /\ UNCHANGED <<kind, chain, first, cursor, last, read, starting, base, rounds,
                 missed, from, faults>>

CurrentHeight ==
  /\ pc = "poll"
  /\ \/ cursor <= heights[Main] /\ Goto("query") /\ UNCHANGED faults
     \/ Fault /\ Done("error")
  /\ UNCHANGED <<kind, chain, first, cursor, last, read, starting, base, rounds,
                 missed, from>>

\* Mutant: one height too many.
NextHeightPast ==
  /\ cursor' = cursor + 1
  /\ IF cursor <= last THEN Goto("poll") ELSE Done("notFound")

NextHeight ==
  /\ cursor' = cursor + 1
  /\ IF cursor' <= last THEN Goto("poll") ELSE Done("notFound")

PollFunc ==
  /\ pc = "query"
  /\ \/ /\ Matches(cursor)
        /\ Done("found")
        /\ UNCHANGED <<cursor, missed, faults>>
     \/ /\ ~Matches(cursor)
        /\ NextHeight
        /\ UNCHANGED <<missed, faults>>
     \/ /\ Fault
        /\ NextHeight
        /\ missed' = missed \cup {cursor}
  /\ UNCHANGED <<kind, chain, first, last, read, starting, base, rounds, from>>

-----------------------------------------------------------------------------
(* WaitForBlocks: a goroutine per chain, which ends when delta is reached;   *)
(* the first error ends them all.  A height of zero is passed over.          *)

Update(x) ==
  /\ starting' = [starting EXCEPT ![x] = IF @ = None THEN heights[x] ELSE @]
  /\ read' = [read EXCEPT ![x] = heights[x]]

Reached(x) == read[x] # None /\ read[x] >= starting[x] + Delta

WaitForDelta(x) ==
  /\ pc = "wait" /\ kind = "blocks"
  /\ ~Reached(x)
  /\ \/ /\ IF heights[x] = 0 THEN UNCHANGED <<read, starting>> ELSE Update(x)
        /\ UNCHANGED <<pc, result, faults>>
     \/ /\ Fault
        /\ Done("error")
        /\ UNCHANGED <<read, starting>>
  /\ UNCHANGED <<kind, chain, first, cursor, last, base, rounds, missed, from>>

WaitForBlocks ==
  /\ pc = "wait" /\ kind = "blocks"
  /\ \A x \in Heighters : Reached(x)
  /\ Done("ok")
  /\ UNCHANGED <<kind, chain, first, cursor, last, read, starting, base, rounds,
                 missed, from, faults>>

(* WaitForInSync: the heights of a round are read concurrently. *)

ReadHeight(x) ==
  /\ pc = "wait" /\ kind = "sync" /\ read[x] = None
  /\ read' = [read EXCEPT ![x] = heights[x]]
  /\ UNCHANGED <<kind, pc, result, chain, first, cursor, last, starting, base,
                 rounds, missed, from, faults>>

NodesInSync == \A x \in Others : read[x] >= read[Main]

\* A round with a failed query or a node behind is followed by another.
WaitForInSync ==
  /\ pc = "wait" /\ kind = "sync"
  /\ \/ /\ \A x \in Heighters : read[x] # None
        /\ NodesInSync
        /\ Done("ok")
        /\ UNCHANGED <<read, from, faults>>
     \/ /\ \/ (\A x \in Heighters : read[x] # None) /\ ~NodesInSync /\ UNCHANGED faults
           \/ Fault
        /\ read' = Unread
        /\ from' = heights
        /\ UNCHANGED <<pc, result>>
     \/ /\ Done("cancelled")
        /\ UNCHANGED <<read, from, faults>>
  /\ UNCHANGED <<kind, chain, first, cursor, last, starting, base, rounds, missed>>

-----------------------------------------------------------------------------
(* The waiters with a time-out: a query, then two seconds of sleep. *)

Heights(batch) == {h \in 1 .. batch * BatchSize : h > (batch - 1) * BatchSize}

\* Mutant: the latest batch of the rollapp is asked for, final or not.
SeenLatest == IF kind = "finalized" THEN Target \in Heights(submitted) ELSE epoch # base

\* Only the latest batch finalized is looked at: a height of an earlier one is not
\* found, however long it has been final.
Seen == IF kind = "finalized" THEN finalized > 0 /\ Target \in Heights(finalized)
        ELSE epoch # base

\* Mutant: the time does not pass while queries do not find anything.
TimePassesNot(r) == IF rounds > 0 THEN UNCHANGED <<rounds, pc, result>>
                    ELSE Done(r) /\ UNCHANGED rounds

TimePasses(r) == IF rounds > 0 THEN rounds' = rounds - 1 /\ UNCHANGED <<pc, result>>
                 ELSE Done(r) /\ UNCHANGED rounds

WaitUntil ==
  /\ pc = "wait" /\ kind \in {"finalized", "epoch"}
  /\ \/ Seen /\ Done("true") /\ UNCHANGED <<rounds, faults>>
     \/ ~Seen /\ TimePasses("timeout") /\ UNCHANGED faults
     \/ Fault /\ TimePasses("error")
     \/ Done("cancelled") /\ UNCHANGED <<rounds, faults>>
  /\ UNCHANGED <<kind, chain, first, cursor, last, read, starting, base, missed, from>>

-----------------------------------------------------------------------------
Step ==
  \/ Start \/ CurrentHeight \/ PollFunc \/ WaitForBlocks \/ WaitForInSync \/ WaitUntil
  \/ \E x \in Heighters : WaitForDelta(x) \/ ReadHeight(x)

Next == Step \/ \E x \in Heighters : Block(x)

Spec == Init /\ [][Next]_vars

\* Queries return, and every chain goes on making blocks; neither a failure nor
\* the end of the context is owed to anybody.
Answered == Step /\ faults' = faults /\ result' # "cancelled"

FairSpec == Spec /\ WF_vars(Answered) /\ \A x \in Heighters : WF_vars(Block(x))

-----------------------------------------------------------------------------
(* Properties. *)

OptHeights == [Heighters -> 0 .. MaxHeight \cup {None}]

\* Types; a call has a result exactly when it is done.
TypeOK ==
  /\ kind \in Kinds /\ pc \in {"start", "poll", "query", "wait", "done"}
  /\ pc = "done" <=> result # None
  /\ heights \in [Heighters -> 0 .. MaxHeight] /\ from \in [Heighters -> 0 .. MaxHeight]
  /\ packetAt \in 1 .. MaxHeight \cup {None} /\ since \in 0 .. MaxHeight \cup {None}
  /\ finalized \in 0 .. submitted
  /\ first \in 0 .. MaxHeight - Delta /\ cursor \in first .. last + 1
  /\ last \in {0, first + Delta}
  /\ read \in OptHeights /\ starting \in OptHeights
  /\ rounds \in 0 .. MaxRounds /\ faults \in 0 .. MaxFaults
  /\ missed \subseteq first .. last

\* What PollFor* reports about the range is the truth.  A packet found is in the
\* range; one not found is outside it or in a block whose query failed, and a state
\* not found has not lasted since the last height, unless its query failed.
PollComplete ==
  /\ kind = "packet" /\ result = "found" => packetAt \in first .. last
  /\ kind = "packet" /\ result = "notFound" /\ packetAt \in first .. last => packetAt \in missed
  /\ kind \in Latest /\ result = "notFound" /\ since # None /\ last \notin missed => since > last

\* A wait that succeeds has seen what it waited for, however the heights moved
\* while it read them: delta blocks of each chain since the call, every node at
\* least where the chain was when the round began, the rollapp height finalized,
\* the epoch over.
WaitTruthful ==
  /\ kind = "blocks" /\ result = "ok" => \A x \in Heighters : heights[x] >= from[x] + Delta
  /\ kind = "sync" /\ result = "ok" => \A x \in Others : heights[x] >= from[Main]
  /\ kind = "finalized" /\ result = "true" => Target <= finalized * BatchSize
  /\ kind = "epoch" /\ result = "true" => epoch # base

\* Every call ends as long as the chains make blocks.  WaitForInSync is not
\* promised to: a node may be behind in every round.
WaitersReturn == kind # "sync" => <>(pc = "done")
=============================================================================
