------------------------- MODULE TestSupportProofs -------------------------
(***************************************************************************)
(* Proofs about what the tests are given to wait and to report with:       *)
(* Waiters, for any chains, any delta, batch size and target, and whatever *)
(* the bounds, and Reporter, for any number of tests and of those who      *)
(* close, and any capacity of the channel.                                 *)
(***************************************************************************)
EXTENDS Waiters, Reporter, SequenceTheorems, TLAPS

-----------------------------------------------------------------------------
(* Waiters. *)


\* The call is where its kind of wait goes, and has not touched before Start
\* what Start sets.
PlaceInv ==
  /\ submitted \in Nat /\ epoch \in Nat
  /\ result \in Results \cup {None}
  /\ pc \in {"poll", "query"} => kind \in Latest \cup {"packet"}
  /\ pc = "start" => \A x \in Heighters : heights[x] <= MaxHeight - Delta
  /\ pc = "start" => first = 0 /\ cursor = 0 /\ last = 0 /\ missed = {}
  /\ pc # "start" => last = first + Delta
  /\ result \in {"found", "notFound"} => kind \in Latest \cup {"packet"}

\* A height is only polled when the chain has it, so that what was not there
\* when it was polled is not there later.
PollInv ==
  /\ pc \in {"poll", "query"} => cursor <= last
  /\ pc = "query" => cursor <= heights[Main]
  /\ pc # "start" => \A h \in first .. cursor - 1 : h <= heights[Main]
  /\ kind = "packet" /\ packetAt \in first .. cursor - 1 /\ result # "found"
       => packetAt \in missed
  /\ kind \in Latest /\ pc # "start" /\ cursor = last + 1 /\ result # "found"
     /\ last \notin missed /\ since # None => since > last
  /\ kind = "packet" /\ result = "found" => packetAt \in first .. last
  /\ result = "notFound" => cursor = last + 1

\* What a call has read lies between the heights its round began with and the
\* present ones.
ReadInv ==
  /\ \A x \in Heighters :
       /\ from[x] <= heights[x]
       /\ read[x] # None => from[x] <= read[x] /\ read[x] <= heights[x]
       /\ starting[x] # None => from[x] <= starting[x]
  /\ kind = "blocks" => \A x \in Heighters : read[x] = None <=> starting[x] = None
  /\ kind # "blocks" => starting = Unread
  /\ pc = "start" => read = Unread /\ starting = Unread
  /\ kind = "epoch" /\ pc = "wait" => base \in Nat
  /\ kind = "epoch" /\ base # None => base \in Nat /\ base <= epoch
  /\ kind = "epoch" /\ result = "true" => base \in Nat

IInv == TypeOK /\ PlaceInv /\ PollInv /\ ReadInv /\ WaitTruthful

\* Main is one of the chains, and heights are no results.
LEMMA Constants ==
  /\ Main \in Heighters /\ Others \subseteq Heighters
  /\ Delta \in Nat \ {0} /\ MaxHeight \in Nat /\ MaxHeight > Delta /\ BatchSize \in Nat \ {0}
  /\ None \notin Nat /\ None \notin Results
  BY WaitersAssumption DEF Heighters

\* The invariant holds at first.
LEMMA InitIInv == Init => IInv
<1> SUFFICES ASSUME Init PROVE IInv
  OBVIOUS
<1> USE Constants, WaitersAssumption
<1> USE DEF Init, Unread, Results, Latest
<1>1. TypeOK
  BY DEF TypeOK, OptHeights, Kinds
<1>2. PlaceInv /\ PollInv /\ ReadInv
  BY DEF PlaceInv, PollInv, ReadInv
<1>3. WaitTruthful
  BY DEF WaitTruthful
<1> QED
  BY <1>1, <1>2, <1>3 DEF IInv

\* A batch that is finalized later ends later.
LEMMA BatchesGrow ==
  ASSUME NEW m \in Nat, NEW n \in Nat, m <= n
  PROVE  /\ m * BatchSize <= n * BatchSize
         /\ m * BatchSize \in Nat /\ n * BatchSize \in Nat
<1>1. PICK d \in Nat : n = m + d
  <2>1. n - m \in Nat /\ n = m + (n - m)
    OBVIOUS
  <2> QED
    BY <2>1
<1>2. n * BatchSize = m * BatchSize + d * BatchSize
  BY <1>1, Constants
<1>3. d * BatchSize \in Nat /\ m * BatchSize \in Nat
  BY Constants
<1> QED
  BY <1>2, <1>3

\* The begin of a call keeps the invariant.
LEMMA StartIInv == ASSUME IInv, Start PROVE IInv'
<1> USE Constants, WaitersAssumption
<1> USE DEF IInv, Latest, Start, chain, Goto, Done, Fault, Unread, Results
<1>1. TypeOK'
  BY DEF TypeOK, OptHeights, Kinds, PlaceInv
<1>2. PlaceInv'
  BY DEF TypeOK, Kinds, PlaceInv
<1>3. PollInv'
  BY DEF TypeOK, PlaceInv, PollInv
<1>4. ReadInv'
  BY DEF TypeOK, PlaceInv, ReadInv
<1>5. WaitTruthful'
  BY DEF TypeOK, WaitTruthful
<1> QED
  BY <1>1, <1>2, <1>3, <1>4, <1>5

\* A poll keeps the invariant: of reading the height and of querying.
LEMMA PollIInv == ASSUME IInv, CurrentHeight \/ PollFunc PROVE IInv'
<1> USE Constants, WaitersAssumption
<1> USE DEF IInv, Latest, chain, Goto, Done, Fault, Results
<1>1. CASE CurrentHeight
  BY <1>1 DEF CurrentHeight, TypeOK, PlaceInv, PollInv, ReadInv, WaitTruthful
<1>2. CASE PollFunc
  <2> USE <1>2 DEF PollFunc, NextHeight, Matches
  <2>1. TypeOK'
    <3>1. cursor \in first .. last
      BY DEF TypeOK, PlaceInv, PollInv
    <3>2. missed' \subseteq first .. last
      BY <3>1 DEF TypeOK
    <3>3. cursor' \in first .. last + 1
      BY <3>1 DEF TypeOK
    <3>4. faults' \in 0 .. MaxFaults /\ (pc' = "done" <=> result' # None)
      BY DEF TypeOK
    <3> QED
      BY <3>2, <3>3, <3>4 DEF TypeOK
  <2>2. PlaceInv'
    BY DEF TypeOK, PlaceInv
  <2>3. PollInv'
    BY DEF TypeOK, PlaceInv, PollInv
  <2>4. ReadInv' /\ WaitTruthful'
    BY DEF TypeOK, PlaceInv, ReadInv, WaitTruthful
  <2> QED
    BY <2>1, <2>2, <2>3, <2>4
<1> QED
  BY <1>1, <1>2

\* So do the reads of WaitForBlocks and WaitForInSync, and their ends.
LEMMA WaitIInv ==
  ASSUME IInv,
         \/ WaitForBlocks \/ WaitForInSync
         \/ \E x \in Heighters : WaitForDelta(x) \/ ReadHeight(x)
  PROVE  IInv'
<1> USE Constants, WaitersAssumption
<1> USE DEF IInv, Latest, chain, Goto, Done, Fault, Unread, Results
<1>1. CASE WaitForBlocks
  <2> USE <1>1 DEF WaitForBlocks
  <2>1. WaitTruthful'
    BY DEF Reached, TypeOK, OptHeights, ReadInv, WaitTruthful
  <2> QED
    BY <2>1 DEF TypeOK, PlaceInv, PollInv, ReadInv
<1>2. CASE WaitForInSync
  <2> USE <1>2 DEF WaitForInSync
  <2>1. WaitTruthful'
    BY DEF NodesInSync, TypeOK, OptHeights, ReadInv, WaitTruthful
  <2>2. ReadInv'
    <3>1. CASE UNCHANGED <<read, from>>
      BY <3>1 DEF TypeOK, ReadInv
    <3>2. CASE read' = Unread /\ from' = heights
      <4>1. \A x \in Heighters : from'[x] <= heights'[x] /\ read'[x] = None
        BY <3>2 DEF TypeOK
      <4>2. /\ pc' # "start" /\ kind' = "sync" /\ starting' = starting
            /\ \A x \in Heighters : starting[x] = None
        BY <3>2 DEF TypeOK, ReadInv
      <4> QED
        BY <4>1, <4>2 DEF ReadInv
    <3> QED
      BY <3>1, <3>2
  <2>3. TypeOK'
    BY DEF TypeOK, OptHeights, Kinds
  <2> QED
    BY <2>1, <2>2, <2>3 DEF TypeOK, PlaceInv, PollInv
<1>3. ASSUME NEW x \in Heighters, WaitForDelta(x) PROVE IInv'
  <2> USE <1>3 DEF WaitForDelta, Update
  <2>1. ReadInv'
    BY DEF TypeOK, OptHeights, ReadInv
  <2>2. TypeOK'
    BY DEF TypeOK, OptHeights, Kinds
  <2> QED
    BY <2>1, <2>2 DEF TypeOK, PlaceInv, PollInv, WaitTruthful
<1>4. ASSUME NEW x \in Heighters, ReadHeight(x) PROVE IInv'
  <2> USE <1>4 DEF ReadHeight
  <2>1. ReadInv'
    BY DEF TypeOK, OptHeights, ReadInv
  <2>2. TypeOK'
    BY DEF TypeOK, OptHeights, Kinds
  <2> QED
    BY <2>1, <2>2 DEF TypeOK, PlaceInv, PollInv, WaitTruthful
<1> QED
  BY <1>1, <1>2, <1>3, <1>4

\* The waiters with a time-out keep it.
LEMMA UntilIInv == ASSUME IInv, WaitUntil PROVE IInv'
<1> USE Constants, WaitersAssumption
<1> USE DEF IInv, Latest, WaitUntil, chain, Done, Fault, TimePasses, Results
<1>1. TypeOK' /\ PlaceInv' /\ PollInv' /\ ReadInv'
  BY DEF TypeOK, PlaceInv, PollInv, ReadInv
<1>2. Seen /\ kind = "finalized" => Target <= finalized * BatchSize
  BY DEF Seen, Heights
<1>3. WaitTruthful'
  BY <1>2 DEF Seen, WaitTruthful
<1> QED
  BY <1>1, <1>3

\* A block keeps it: heights grow, and what it brings comes at its height.
LEMMA BlockIInv == ASSUME IInv, NEW x \in Heighters, Block(x) PROVE IInv'
<1> USE Constants, WaitersAssumption
<1> USE DEF IInv, Latest, Block, Results
<1>1. /\ x = Main => BlockBrings(heights[Main] + 1)
      /\ x # Main => UNCHANGED <<packetAt, since, submitted, finalized, epoch>>
  BY DEF TypeOK
<1>2. /\ heights' \in [Heighters -> 0 .. MaxHeight]
      /\ \A y \in Heighters : heights[y] <= heights'[y]
      /\ pc = "start" => \A y \in Heighters : heights'[y] <= MaxHeight - Delta
      /\ heights'[x] = heights[x] + 1
  BY DEF TypeOK, PlaceInv, Ceiling, Begun, ReadInv, Unread
<1>3. /\ finalized' \in Nat /\ finalized \in Nat /\ finalized <= finalized'
      /\ finalized' \in 0 .. submitted' /\ submitted' \in Nat
      /\ epoch' \in Nat /\ epoch <= epoch'
  BY <1>1 DEF TypeOK, PlaceInv, BlockBrings
<1>4. \/ packetAt' = packetAt
      \/ packetAt = None /\ packetAt' = heights[Main] + 1 /\ x = Main
  BY <1>1, Zenon DEF BlockBrings
<1>5. since' \in {since, None} \/ (since' = heights[Main] + 1 /\ x = Main)
  <2>1. CASE x # Main
    BY <1>1, <2>1
  <2>2. CASE x = Main /\ since = None
    BY <1>1, <2>2 DEF BlockBrings
  <2>3. CASE x = Main /\ since # None
    BY <1>1, <2>3 DEF BlockBrings
  <2> QED
    BY <2>1, <2>2, <2>3
<1>6. TypeOK'
  BY <1>2, <1>3, <1>4, <1>5 DEF TypeOK
<1>7. PlaceInv'
  BY <1>2, <1>3 DEF PlaceInv
<1>8. PollInv'
  BY <1>2, <1>4, <1>5 DEF TypeOK, PlaceInv, PollInv
<1>9. ReadInv'
  BY <1>2, <1>3 DEF TypeOK, PlaceInv, ReadInv, OptHeights
<1>10. /\ finalized * BatchSize <= finalized' * BatchSize
       /\ finalized * BatchSize \in Nat /\ finalized' * BatchSize \in Nat
  BY <1>3, BatchesGrow
<1>11. Target \in Nat
  OBVIOUS
<1>12. WaitTruthful'
  <2>1. kind = "finalized" /\ result = "true" => Target <= finalized' * BatchSize
    BY <1>10, <1>11 DEF WaitTruthful
  <2>2. kind = "epoch" /\ result = "true" => epoch' # base
    BY <1>3 DEF PlaceInv, ReadInv, WaitTruthful
  <2>3. kind = "blocks" /\ result = "ok" => \A y \in Heighters : heights'[y] >= from[y] + Delta
    BY <1>2 DEF TypeOK, WaitTruthful
  <2>4. kind = "sync" /\ result = "ok" => \A y \in Others : heights'[y] >= from[Main]
    BY <1>2 DEF TypeOK, WaitTruthful
  <2> QED
    BY <2>1, <2>2, <2>3, <2>4 DEF WaitTruthful
<1> QED
  BY <1>6, <1>7, <1>8, <1>9, <1>12

\* Every step keeps the invariant.
LEMMA NextIInv == IInv /\ [Next]_vars => IInv'
<1> SUFFICES ASSUME IInv, [Next]_vars PROVE IInv'
  OBVIOUS
<1>1. CASE UNCHANGED vars
  BY <1>1 DEF vars, chain, IInv, TypeOK, PlaceInv, PollInv, ReadInv, WaitTruthful
<1>2. CASE Next
  BY <1>2, StartIInv, PollIInv, WaitIInv, UntilIInv, BlockIInv DEF Next, Step
<1> QED
  BY <1>1, <1>2

\* The invariant always holds.
LEMMA Invariance == Spec => []IInv
  BY InitIInv, NextIInv, PTL DEF Spec

\* Every variable stays in its domain.
THEOREM TypeCorrect == Spec => []TypeOK
<1>1. IInv => TypeOK
  BY DEF IInv
<1> QED
  BY <1>1, Invariance, PTL

\* What PollForAck, PollForTimeout, PollForBalance and the like report of the
\* range of heights they were given is true, for any range.
THEOREM PollsComplete == Spec => []PollComplete
<1>1. IInv => PollComplete
  <2> SUFFICES ASSUME IInv PROVE PollComplete
    OBVIOUS
  <2>1. result = "notFound" => pc # "start" /\ cursor - 1 = last
    BY Constants DEF IInv, TypeOK, PlaceInv, PollInv, Results
  <2> QED
    BY <2>1, Constants DEF IInv, TypeOK, PlaceInv, PollInv, PollComplete
<1> QED
  BY <1>1, Invariance, PTL

\* A wait that succeeds has seen what it waited for.
THEOREM WaitsTruthful == Spec => []WaitTruthful
<1>1. IInv => WaitTruthful
  BY DEF IInv
<1> QED
  BY <1>1, Invariance, PTL

-----------------------------------------------------------------------------
(* Reporter. *)


Packet == [of : Sources, msg : Messages]

\* What is sent into the channel is a message, and it is sent while there is room.
LEMMA SendType ==
  ASSUME ReportTypeOK, NEW s \in Sources, NEW m \in Messages, Send(s, m)
  PROVE  /\ in' \in Seq(Packet) /\ Len(in') <= Cap /\ alive' \in BOOLEAN
         /\ tracked' \in [Sources -> Seq(Messages)]
<1>1. CASE closed
  BY <1>1, Zenon DEF Send, ReportTypeOK, Packet
<1>2. CASE ~closed
  <2> DEFINE p == [of |-> s, msg |-> m]
  <2>1. p \in Packet
    BY DEF Packet
  <2>2. in' = Append(in, p) /\ Len(in) < Cap /\ alive' = alive
    BY <1>2 DEF Send
  <2>3. in' \in Seq(Packet) /\ Len(in') <= Cap /\ alive' \in BOOLEAN
    BY <2>1, <2>2, ReporterAssumption DEF ReportTypeOK, Packet
  <2>4. Append(tracked[s], m) \in Seq(Messages)
    BY DEF ReportTypeOK
  <2>5. tracked' \in [Sources -> Seq(Messages)]
    BY <1>2, <2>4 DEF Send, ReportTypeOK
  <2> QED
    BY <2>3, <2>5
<1> QED
  BY <1>1, <1>2

LEMMA InitType == ReportInit => ReportTypeOK
<1> SUFFICES ASSUME ReportInit PROVE ReportTypeOK
  OBVIOUS
<1>1. in \in Seq(Packet) /\ Len(in) <= Cap
  <2> DEFINE p == [of |-> "suite", msg |-> <<"begin">>]
  <2>1. p \in Packet
    BY DEF Packet, Sources, Messages
  <2>2. <<p>> \in Seq(Packet) /\ Len(<<p>>) = 1
    <3> HIDE DEF p
    <3> QED
      BY <2>1
  <2> QED
    BY <2>2, ReporterAssumption DEF ReportInit
<1>2. test \in [Tests -> [at : {"new", "runs", "paused", "ending", "over"}, parallel : BOOLEAN,
                          exec : BOOLEAN, failed : BOOLEAN, skipped : BOOLEAN]]
  BY DEF ReportInit, NewTest
<1>3. written \in [Sources -> Seq(Messages)] /\ tracked \in [Sources -> Seq(Messages)]
  <2> DEFINE M == Messages  b == <<"begin">>
  <2>1. b \in M
    BY DEF Messages
  <2>2. <<>> \in Seq(M) /\ <<b>> \in Seq(M)
    <3> HIDE DEF M, b
    <3> QED
      BY <2>1
  <2> QED
    BY <2>2 DEF ReportInit
<1>4. /\ closed \in BOOLEAN /\ alive \in BOOLEAN /\ writer = "writes"
      /\ closer \in [Closers -> {"open", "sent", "waits", "closed"}]
  BY DEF ReportInit
<1> QED
  BY <1>1, <1>2, <1>3, <1>4 DEF ReportTypeOK, Packet

LEMMA WriterType ==
  ASSUME ReportTypeOK,
         Write \/ WriterEnds \/ \E k \in Closers : Close(k) \/ Closing(k)
  PROVE  ReportTypeOK'
<1>1. CASE Write
  <2> DEFINE P == Packet
  <2>0. in \in Seq(P) /\ in # <<>> /\ Len(in) <= Cap /\ Cap \in Nat
    BY <1>1, ReporterAssumption DEF Write, ReportTypeOK, Packet, Sources
  <2>1. /\ Head(in) \in Packet /\ Tail(in) \in Seq(Packet) /\ Len(Tail(in)) <= Cap
    <3> HIDE DEF P
    <3>1. Head(in) \in P /\ Tail(in) \in Seq(P) /\ Len(Tail(in)) <= Cap
      BY <2>0
    <3> QED
      BY <3>1 DEF P
  <2>2. Append(written[Head(in).of], Head(in).msg) \in Seq(Messages)
    BY <2>1 DEF ReportTypeOK, Packet, Sources
  <2>3. written' \in [Sources -> Seq(Messages)] /\ alive' \in BOOLEAN
    <3>1. CASE written' = [written EXCEPT ![Head(in).of] = Append(@, Head(in).msg)] /\ alive' = alive
      BY <3>1, <2>2 DEF ReportTypeOK, Sources
    <3>2. CASE alive' = FALSE /\ written' = written
      BY <3>2 DEF ReportTypeOK, Sources
    <3> QED
      BY <1>1, <3>1, <3>2 DEF Write
  <2> QED
    BY <1>1, <2>1, <2>3 DEF Write, ReportTypeOK, Packet, Sources
<1>2. CASE WriterEnds
  BY <1>2 DEF WriterEnds, ReportTypeOK
<1>3. ASSUME NEW k \in Closers, Close(k) PROVE ReportTypeOK'
  <2>1. <<"finish">> \in Messages
    BY DEF Messages
  <2>2. /\ in' \in Seq(Packet) /\ Len(in') <= Cap /\ alive' \in BOOLEAN
        /\ tracked' \in [Sources -> Seq(Messages)]
    BY <1>3, <2>1, SendType DEF Close, Sources
  <2>3. closer' \in [Closers -> {"open", "sent", "waits", "closed"}]
    BY <1>3 DEF Close, ReportTypeOK
  <2> QED
    BY <1>3, <2>2, <2>3 DEF Close, ReportTypeOK, Packet
<1>4. ASSUME NEW k \in Closers, Closing(k) PROVE ReportTypeOK'
  <2>1. closer' \in [Closers -> {"open", "sent", "waits", "closed"}]
    BY <1>4 DEF Closing, CloseChannel, CloseReturns, ReportTypeOK
  <2> QED
    BY <1>4, <2>1 DEF Closing, CloseChannel, CloseReturns, ReportTypeOK
<1> QED
  BY <1>1, <1>2, <1>3, <1>4

LEMMA TestType ==
  ASSUME ReportTypeOK, NEW t \in Tests, Tracks(t)
  PROVE  ReportTypeOK'
<1> DEFINE Test == [at : {"new", "runs", "paused", "ending", "over"},
                    parallel : BOOLEAN, exec : BOOLEAN, failed : BOOLEAN, skipped : BOOLEAN]
<1>1. /\ \A m \in {"begin", "pause", "continue", "skip", "error"} : <<m>> \in Messages
      /\ \A r \in {"ok", "error"} : <<"exec", r>> \in Messages
      /\ \A f, s \in BOOLEAN : <<"finish", f, s>> \in Messages
  BY DEF Messages
<1>2. test[t] \in Test
  BY DEF ReportTypeOK
<1>3. (\E m \in Messages : Track(t, m)) /\ test' \in [Tests -> Test]
  <2>1. CASE TrackTest(t)
    BY <1>1, <1>2, <2>1 DEF TrackTest, ReportTypeOK
  <2>2. CASE Pause(t)
    BY <1>1, <1>2, <2>2 DEF Pause, ReportTypeOK
  <2>3. CASE Continue(t)
    BY <1>1, <1>2, <2>3 DEF Continue, ReportTypeOK
  <2>4. CASE TrackSkip(t)
    BY <1>1, <1>2, <2>4 DEF TrackSkip, ReportTypeOK
  <2>5. CASE Errorf(t)
    <3>1. PICK at \in {"runs", "ending"} : test' = [test EXCEPT ![t].at = at, ![t].failed = TRUE]
      BY <2>5 DEF Errorf
    <3>2. test' \in [Tests -> Test]
      BY <1>2, <3>1 DEF ReportTypeOK
    <3> QED
      BY <1>1, <2>5, <3>2 DEF Errorf
  <2>6. CASE TrackRelayerExec(t)
    BY <1>1, <1>2, <2>6 DEF TrackRelayerExec, ReportTypeOK
  <2>7. CASE FinishTest(t)
    BY <1>1, <1>2, <2>7 DEF FinishTest, ReportTypeOK
  <2> QED
    BY <2>1, <2>2, <2>3, <2>4, <2>5, <2>6, <2>7 DEF Tracks
<1>4. PICK m \in Messages : Track(t, m)
  BY <1>3
<1>5. /\ in' \in Seq(Packet) /\ Len(in') <= Cap /\ alive' \in BOOLEAN
      /\ tracked' \in [Sources -> Seq(Messages)]
      /\ UNCHANGED <<closed, closer, writer, written>>
  BY <1>4, SendType DEF Track, Sources
<1> QED
  BY <1>3, <1>5 DEF ReportTypeOK, Packet

\* The channel never holds more than its capacity, whoever tracks, and every
\* variable keeps its type.
THEOREM ReportTypeCorrect == ReportSpec => []ReportTypeOK
<1>1. ReportTypeOK /\ [ReportNext]_reportVars => ReportTypeOK'
  <2> SUFFICES ASSUME ReportTypeOK, [ReportNext]_reportVars PROVE ReportTypeOK'
    OBVIOUS
  <2>1. CASE Write \/ WriterEnds \/ \E k \in Closers : Close(k) \/ Closing(k)
    BY <2>1, WriterType
  <2>2. CASE \E t \in Tests : Tracks(t)
    BY <2>2, TestType
  <2>3. CASE UNCHANGED reportVars
    BY <2>3 DEF reportVars, ReportTypeOK
  <2> QED
    BY <2>1, <2>2, <2>3 DEF ReportNext
<1> QED
  BY InitType, <1>1, PTL DEF ReportSpec

-----------------------------------------------------------------------------
(* The report. *)

\* The messages of t in the channel ch are those of its log which the report
\* wr has not got yet, in the order of the log; idx says where each one is.
Placed(ch, log, wr, t, idx) ==
  /\ Len(wr) <= Len(log) /\ \A i \in 1..Len(wr) : wr[i] = log[i]
  /\ idx \in [Len(wr) + 1..Len(log) -> 1..Len(ch)]
  /\ \A i, k \in Len(wr) + 1..Len(log) : i < k => idx[i] < idx[k]
  /\ \A i \in Len(wr) + 1..Len(log) : ch[idx[i]].of = t /\ ch[idx[i]].msg = log[i]
  /\ \A j \in 1..Len(ch) : ch[j].of = t => \E i \in Len(wr) + 1..Len(log) : idx[i] = j

Linked(ch, log, wr, t) == \E idx : Placed(ch, log, wr, t, idx)

\* What was sent and is not in the report yet is in the channel, in order.
AllLinked == \A s \in Sources : Linked(in, tracked[s], written[s], s)

\* The suite has begun, and has finished with each Close that sent it so.
SuiteTruthful ==
  /\ Len(tracked["suite"]) >= 1 /\ tracked["suite"][1] = <<"begin">>
  /\ \A i \in 2..Len(tracked["suite"]) : tracked["suite"][i] = <<"finish">>
  /\ \A k \in Closers : closer[k] # "open" => Len(tracked["suite"]) > 1

\* What a finished test is reported as.
Truthful(t) ==
  /\ \A i \in DOMAIN tracked[t] : tracked[t][i] = <<"error">> => test[t].failed = TRUE
  /\ \A i, k \in DOMAIN tracked[t] :
       i < k /\ tracked[t][i] = <<"error">> /\ Head(tracked[t][k]) = "finish"
         => tracked[t][k][2] = TRUE

\* While nobody has panicked, and after the writer's end in any case, nothing
\* that was sent is lost or out of order; the writer ends with the channel closed
\* and empty, and Close returns after it.
ReportInv ==
  /\ ReportTypeOK
  /\ alive \/ writer = "done" => AllLinked
  /\ writer = "done" => closed /\ in = <<>>
  /\ \A k \in Closers : closer[k] = "closed" => writer = "done"
  /\ \A t \in Tests : Truthful(t)
  /\ SuiteTruthful

\* A message sent by t is the last one of its log and of the channel.
LEMMA LinkOwn ==
  ASSUME NEW S, NEW M, NEW ch \in Seq(S), NEW log \in Seq(M), NEW wr \in Seq(M), NEW t,
         NEW p \in S, NEW m \in M, p.of = t, p.msg = m, Linked(ch, log, wr, t)
  PROVE  Linked(Append(ch, p), Append(log, m), wr, t)
<1>1. PICK idx : Placed(ch, log, wr, t, idx)
  BY DEF Linked
<1> DEFINE n == Len(log)  c == Len(ch)  w == Len(wr)
           new == [i \in w + 1..n + 1 |-> IF i = n + 1 THEN c + 1 ELSE idx[i]]
           ch2 == Append(ch, p)  log2 == Append(log, m)
<1>2. n \in Nat /\ c \in Nat /\ w \in Nat /\ w <= n
  BY <1>1, LenProperties DEF Placed
<1>3. /\ Len(ch2) = c + 1 /\ ch2[c + 1] = p /\ \A j \in 1..c : ch2[j] = ch[j]
      /\ Len(log2) = n + 1 /\ log2[n + 1] = m /\ \A j \in 1..n : log2[j] = log[j]
  BY AppendProperties
<1>4. /\ \A i \in 1..w : wr[i] = log[i]
      /\ idx \in [w + 1..n -> 1..c]
      /\ \A i, k \in w + 1..n : i < k => idx[i] < idx[k]
      /\ \A i \in w + 1..n : ch[idx[i]].of = t /\ ch[idx[i]].msg = log[i]
      /\ \A j \in 1..c : ch[j].of = t => \E i \in w + 1..n : idx[i] = j
  BY <1>1 DEF Placed
<1> HIDE DEF n, c, w, ch2, log2
<1>5. new \in [w + 1..n + 1 -> 1..c + 1]
  <2>1. ASSUME NEW i \in w + 1..n + 1 PROVE new[i] \in 1..c + 1
    <3>1. CASE i = n + 1
      BY <1>2, <3>1
    <3>2. CASE i # n + 1
      <4>1. i \in w + 1..n
        BY <1>2, <3>2
      <4>2. idx[i] \in 1..c /\ new[i] = idx[i]
        BY <1>4, <3>2, <4>1
      <4> QED
        BY <1>2, <4>2
    <3> QED
      BY <3>1, <3>2
  <2> QED
    BY <2>1
<1>6. \A i, k \in w + 1..n + 1 : i < k => new[i] < new[k]
  BY <1>2, <1>4
<1>7. \A i \in w + 1..n + 1 : ch2[new[i]].of = t /\ ch2[new[i]].msg = log2[i]
  <2> SUFFICES ASSUME NEW i \in w + 1..n + 1 PROVE ch2[new[i]].of = t /\ ch2[new[i]].msg = log2[i]
    OBVIOUS
  <2>1. CASE i = n + 1
    BY <2>1, <1>2, <1>3
  <2>2. CASE i # n + 1
    <3>1. i \in w + 1..n /\ i \in 1..n
      BY <2>2, <1>2
    <3>2. new[i] = idx[i]
      BY <2>2
    <3>3. idx[i] \in 1..c
      BY <3>1, <1>4
    <3> QED
      BY <3>1, <3>2, <3>3, <1>3, <1>4
  <2> QED
    BY <2>1, <2>2
<1>8. \A j \in 1..c + 1 : ch2[j].of = t => \E i \in w + 1..n + 1 : new[i] = j
  <2> SUFFICES ASSUME NEW j \in 1..c + 1, ch2[j].of = t PROVE \E i \in w + 1..n + 1 : new[i] = j
    OBVIOUS
  <2>1. CASE j = c + 1
    <3>1. n + 1 \in w + 1..n + 1 /\ new[n + 1] = j
      BY <2>1, <1>2
    <3> QED
      BY <3>1
  <2>2. CASE j # c + 1
    <3>1. j \in 1..c /\ ch[j].of = t
      BY <2>2, <1>2, <1>3
    <3>2. PICK i \in w + 1..n : idx[i] = j
      BY <3>1, <1>4
    <3>3. i \in w + 1..n + 1 /\ new[i] = j
      BY <3>2, <1>2
    <3> QED
      BY <3>3
  <2> QED
    BY <2>1, <2>2
<1>9. Len(wr) <= Len(log2) /\ \A i \in 1..w : wr[i] = log2[i]
  <2>1. w <= n + 1
    BY <1>2
  <2>2. Len(wr) <= Len(log2)
    BY <2>1, <1>3 DEF w
  <2>3. ASSUME NEW i \in 1..w PROVE wr[i] = log2[i]
    <3>1. i \in 1..n
      BY <1>2
    <3>2. wr[i] = log[i]
      BY <1>4
    <3>3. log2[i] = log[i]
      BY <3>1, <1>3
    <3> QED
      BY <3>2, <3>3
  <2> QED
    BY <2>2, <2>3
<1>10. Placed(ch2, log2, wr, t, new)
  BY <1>3, <1>5, <1>6, <1>7, <1>8, <1>9 DEF Placed, w
<1> QED
  BY <1>10 DEF Linked, ch2, log2

\* What another one sends changes nothing for t.
LEMMA LinkOther ==
  ASSUME NEW S, NEW M, NEW ch \in Seq(S), NEW log \in Seq(M), NEW wr \in Seq(M), NEW t,
         NEW p \in S, p.of # t, Linked(ch, log, wr, t)
  PROVE  Linked(Append(ch, p), log, wr, t)
<1>1. PICK idx : Placed(ch, log, wr, t, idx)
  BY DEF Linked
<1> DEFINE n == Len(log)  c == Len(ch)  w == Len(wr)  ch2 == Append(ch, p)
<1>2. n \in Nat /\ c \in Nat /\ w \in Nat /\ w <= n
  BY <1>1, LenProperties DEF Placed
<1>3. Len(ch2) = c + 1 /\ ch2[c + 1] = p /\ \A j \in 1..c : ch2[j] = ch[j]
  BY AppendProperties
<1>4. /\ \A i \in 1..w : wr[i] = log[i]
      /\ idx \in [w + 1..n -> 1..c]
      /\ \A i, k \in w + 1..n : i < k => idx[i] < idx[k]
      /\ \A i \in w + 1..n : ch[idx[i]].of = t /\ ch[idx[i]].msg = log[i]
      /\ \A j \in 1..c : ch[j].of = t => \E i \in w + 1..n : idx[i] = j
  BY <1>1 DEF Placed
<1> HIDE DEF n, c, w, ch2
<1>5. idx \in [w + 1..n -> 1..c + 1]
  BY <1>2, <1>4
<1>7. \A i \in w + 1..n : ch2[idx[i]].of = t /\ ch2[idx[i]].msg = log[i]
  BY <1>3, <1>4
<1>8. \A j \in 1..c + 1 : ch2[j].of = t => \E i \in w + 1..n : idx[i] = j
  <2> SUFFICES ASSUME NEW j \in 1..c + 1, ch2[j].of = t PROVE \E i \in w + 1..n : idx[i] = j
    OBVIOUS
  <2>1. j \in 1..c
    BY <1>2, <1>3
  <2> QED
    BY <2>1, <1>3, <1>4
<1>9. Placed(ch2, log, wr, t, idx)
  BY <1>2, <1>3, <1>4, <1>5, <1>7, <1>8 DEF Placed, w, n
<1> QED
  BY <1>9 DEF Linked, ch2

\* The head of the channel, when it is t's, is the next message of its log.
LEMMA LinkWrite ==
  ASSUME NEW S, NEW M, NEW ch \in Seq(S), NEW log \in Seq(M), NEW wr \in Seq(M), NEW t,
         ch # <<>>, Head(ch).msg \in M, Head(ch).of = t, Linked(ch, log, wr, t)
  PROVE  Linked(Tail(ch), log, Append(wr, Head(ch).msg), t)
<1>1. PICK idx : Placed(ch, log, wr, t, idx)
  BY DEF Linked
<1> DEFINE n == Len(log)  c == Len(ch)  w == Len(wr)  m == Head(ch).msg
           ch2 == Tail(ch)  wr2 == Append(wr, m)
           new == [i \in w + 2..n |-> idx[i] - 1]
<1>2. n \in Nat /\ c \in Nat /\ w \in Nat /\ w <= n
  BY <1>1, LenProperties DEF Placed
<1>3. /\ Len(ch2) = c - 1 /\ c >= 1 /\ \A j \in 1..c - 1 : ch2[j] = ch[j + 1]
      /\ Head(ch) = ch[1]
      /\ Len(wr2) = w + 1 /\ wr2[w + 1] = m /\ \A j \in 1..w : wr2[j] = wr[j]
  <2>1. Len(ch2) = c - 1 /\ \A j \in 1..c - 1 : ch2[j] = ch[j + 1]
    BY HeadTailProperties
  <2>2. c >= 1
    BY EmptySeq, <1>2
  <2>3. Len(wr2) = w + 1 /\ wr2[w + 1] = m /\ \A j \in 1..w : wr2[j] = wr[j]
    BY AppendProperties
  <2> QED
    BY <2>1, <2>2, <2>3
<1>4. /\ \A i \in 1..w : wr[i] = log[i]
      /\ idx \in [w + 1..n -> 1..c]
      /\ \A i, k \in w + 1..n : i < k => idx[i] < idx[k]
      /\ \A i \in w + 1..n : ch[idx[i]].of = t /\ ch[idx[i]].msg = log[i]
      /\ \A j \in 1..c : ch[j].of = t => \E i \in w + 1..n : idx[i] = j
  BY <1>1 DEF Placed
<1>5. ch[1].of = t /\ ch[1].msg = m
  BY <1>3
<1> HIDE DEF n, c, w, ch2, wr2, m
<1>6. w + 1 <= n /\ idx[w + 1] = 1
  <2>1. PICK i \in w + 1..n : idx[i] = 1
    BY <1>2, <1>3, <1>4, <1>5
  <2>2. w + 1 \in w + 1..n
    BY <1>2
  <2>3. idx[w + 1] \in 1..c
    BY <2>2, <1>4
  <2>4. CASE i = w + 1
    BY <2>1, <2>2, <2>4, <1>2
  <2>5. CASE i # w + 1
    <3>1. w + 1 < i
      BY <2>5, <1>2
    <3>2. idx[w + 1] < idx[i]
      BY <3>1, <2>2, <1>4
    <3> QED
      BY <3>2, <2>1, <2>3, <1>2
  <2> QED
    BY <2>4, <2>5
<1>7. m = log[w + 1]
  BY <1>2, <1>4, <1>5, <1>6
<1>8. \A i \in w + 2..n : idx[i] \in 2..c
  BY <1>2, <1>4, <1>6
<1>9. new \in [w + 2..n -> 1..c - 1]
  BY <1>2, <1>8
<1>10. \A i, k \in w + 2..n : i < k => new[i] < new[k]
  <2> SUFFICES ASSUME NEW i \in w + 2..n, NEW k \in w + 2..n, i < k PROVE new[i] < new[k]
    OBVIOUS
  <2>1. idx[i] < idx[k] /\ idx[i] \in 2..c /\ idx[k] \in 2..c
    BY <1>2, <1>4, <1>8
  <2> QED
    BY <2>1, <1>2
<1>11. \A i \in w + 2..n : ch2[new[i]].of = t /\ ch2[new[i]].msg = log[i]
  <2> SUFFICES ASSUME NEW i \in w + 2..n PROVE ch2[new[i]].of = t /\ ch2[new[i]].msg = log[i]
    OBVIOUS
  <2>1. new[i] \in 1..c - 1 /\ new[i] + 1 = idx[i] /\ i \in w + 1..n
    BY <1>2, <1>8
  <2> QED
    BY <2>1, <1>3, <1>4
<1>12. \A j \in 1..c - 1 : ch2[j].of = t => \E i \in w + 2..n : new[i] = j
  <2> SUFFICES ASSUME NEW j \in 1..c - 1, ch2[j].of = t PROVE \E i \in w + 2..n : new[i] = j
    OBVIOUS
  <2>1. j + 1 \in 1..c /\ ch[j + 1].of = t
    BY <1>2, <1>3
  <2>2. PICK i \in w + 1..n : idx[i] = j + 1
    BY <2>1, <1>4
  <2>3. i # w + 1
    BY <2>2, <1>2, <1>6
  <2>4. i \in w + 2..n /\ new[i] = j
    BY <2>2, <2>3, <1>2
  <2> QED
    BY <2>4
<1>13. w + 1 <= n /\ \A i \in 1..w + 1 : wr2[i] = log[i]
  BY <1>2, <1>3, <1>4, <1>6, <1>7
<1>14. Placed(ch2, log, wr2, t, new)
  <2>1. w + 1 + 1 = w + 2
    BY <1>2
  <2>2. Len(wr2) = w + 1 /\ Len(ch2) = c - 1
    BY <1>3
  <2> QED
    BY <2>1, <2>2, <1>9, <1>10, <1>11, <1>12, <1>13 DEF Placed, n
<1> QED
  BY <1>14 DEF Linked, ch2, wr2, m

\* The head of the channel, when it is another one's, changes nothing for t.
LEMMA LinkPass ==
  ASSUME NEW S, NEW M, NEW ch \in Seq(S), NEW log \in Seq(M), NEW wr \in Seq(M), NEW t,
         ch # <<>>, Head(ch).of # t, Linked(ch, log, wr, t)
  PROVE  Linked(Tail(ch), log, wr, t)
<1>1. PICK idx : Placed(ch, log, wr, t, idx)
  BY DEF Linked
<1> DEFINE n == Len(log)  c == Len(ch)  w == Len(wr)  ch2 == Tail(ch)
           new == [i \in w + 1..n |-> idx[i] - 1]
<1>2. n \in Nat /\ c \in Nat /\ w \in Nat /\ w <= n
  BY <1>1, LenProperties DEF Placed
<1>3. /\ Len(ch2) = c - 1 /\ c >= 1 /\ \A j \in 1..c - 1 : ch2[j] = ch[j + 1]
      /\ Head(ch) = ch[1]
  BY HeadTailProperties, EmptySeq, <1>2
<1>4. /\ \A i \in 1..w : wr[i] = log[i]
      /\ idx \in [w + 1..n -> 1..c]
      /\ \A i, k \in w + 1..n : i < k => idx[i] < idx[k]
      /\ \A i \in w + 1..n : ch[idx[i]].of = t /\ ch[idx[i]].msg = log[i]
      /\ \A j \in 1..c : ch[j].of = t => \E i \in w + 1..n : idx[i] = j
  BY <1>1 DEF Placed
<1>5. ch[1].of # t
  BY <1>3
<1> HIDE DEF n, c, w, ch2
<1>8. \A i \in w + 1..n : idx[i] \in 2..c
  <2> SUFFICES ASSUME NEW i \in w + 1..n PROVE idx[i] \in 2..c
    OBVIOUS
  <2>1. idx[i] \in 1..c /\ ch[idx[i]].of = t
    BY <1>4
  <2>2. idx[i] # 1
    BY <2>1, <1>5
  <2> QED
    BY <2>1, <2>2, <1>2
<1>9. new \in [w + 1..n -> 1..c - 1]
  BY <1>2, <1>8
<1>10. \A i, k \in w + 1..n : i < k => new[i] < new[k]
  <2> SUFFICES ASSUME NEW i \in w + 1..n, NEW k \in w + 1..n, i < k PROVE new[i] < new[k]
    OBVIOUS
  <2>1. idx[i] < idx[k] /\ idx[i] \in 2..c /\ idx[k] \in 2..c
    BY <1>2, <1>4, <1>8
  <2> QED
    BY <2>1, <1>2
<1>11. \A i \in w + 1..n : ch2[new[i]].of = t /\ ch2[new[i]].msg = log[i]
  <2> SUFFICES ASSUME NEW i \in w + 1..n PROVE ch2[new[i]].of = t /\ ch2[new[i]].msg = log[i]
    OBVIOUS
  <2>1. new[i] \in 1..c - 1 /\ new[i] + 1 = idx[i]
    BY <1>2, <1>8
  <2> QED
    BY <2>1, <1>3, <1>4
<1>12. \A j \in 1..c - 1 : ch2[j].of = t => \E i \in w + 1..n : new[i] = j
  <2> SUFFICES ASSUME NEW j \in 1..c - 1, ch2[j].of = t PROVE \E i \in w + 1..n : new[i] = j
    OBVIOUS
  <2>1. j + 1 \in 1..c /\ ch[j + 1].of = t
    BY <1>2, <1>3
  <2>2. PICK i \in w + 1..n : idx[i] = j + 1
    BY <2>1, <1>4
  <2>3. new[i] = idx[i] - 1
    OBVIOUS
  <2>4. j \in Nat
    BY <1>2
  <2>5. new[i] = j
    BY <2>2, <2>3, <2>4
  <2> QED
    BY <2>5
<1>13. Placed(ch2, log, wr, t, new)
  <2>1. Len(ch2) = c - 1
    BY <1>3
  <2> QED
    BY <2>1, <1>2, <1>4, <1>9, <1>10, <1>11, <1>12 DEF Placed, n, w
<1> QED
  BY <1>13 DEF Linked, ch2

\* With the channel empty the report has the whole log.
LEMMA LinkEnd ==
  ASSUME NEW M, NEW log \in Seq(M), NEW wr \in Seq(M), NEW t, Linked(<<>>, log, wr, t)
  PROVE  wr = log
<1>1. PICK idx : Placed(<<>>, log, wr, t, idx)
  BY DEF Linked
<1>2. Len(log) \in Nat /\ Len(wr) \in Nat
  BY LenProperties
<1>3. Len(wr) = Len(log)
  <2> SUFFICES ASSUME Len(wr) # Len(log) PROVE FALSE
    OBVIOUS
  <2>1. Len(log) \in Len(wr) + 1..Len(log)
    BY <1>1, <1>2 DEF Placed
  <2>2. idx[Len(log)] \in 1..Len(<<>>)
    BY <2>1, <1>1 DEF Placed
  <2>3. Len(<<>>) = 0
    OBVIOUS
  <2> QED
    BY <2>2, <2>3
<1> QED
  BY <1>1, <1>3, SeqEqual DEF Placed

LEMMA LogType ==
  ASSUME ReportTypeOK, NEW t \in Sources
  PROVE  tracked[t] \in Seq(Messages) /\ written[t] \in Seq(Messages) /\ in \in Seq(Packet)
BY DEF ReportTypeOK, Packet

LEMMA InitReport == ReportInit => ReportInv
<1> SUFFICES ASSUME ReportInit PROVE ReportInv
  OBVIOUS
<1>1. ReportTypeOK
  BY InitType
<1>2. ASSUME NEW t \in Sources PROVE Linked(in, tracked[t], written[t], t)
  <2> DEFINE p == [of |-> "suite", msg |-> <<"begin">>]
  <2>1. Len(<<>>) = 0 /\ written[t] = <<>>
    BY DEF ReportInit
  <2>2. CASE t = "suite"
    <3> DEFINE l == <<<<"begin">>>>
    <3>1. in = <<p>> /\ tracked[t] = l
      BY <2>2 DEF ReportInit
    <3>2. Len(<<p>>) = 1 /\ <<p>>[1] = p /\ Len(l) = 1 /\ l[1] = <<"begin">>
      OBVIOUS
    <3>3. p.of = "suite" /\ p.msg = <<"begin">>
      OBVIOUS
    <3> DEFINE q == <<p>>
    <3>4. Len(q) = 1 /\ q[1].of = "suite" /\ q[1].msg = l[1]
      BY <3>2, <3>3
    <3> HIDE DEF p, q, l
    <3>5. Placed(q, l, <<>>, t, [i \in 1..1 |-> 1])
      BY <2>1, <2>2, <3>2, <3>4 DEF Placed
    <3> QED
      BY <3>5, <3>1, <2>1 DEF Linked, q
  <2>3. CASE t # "suite"
    <3>1. tracked[t] = <<>>
      BY <2>3 DEF ReportInit
    <3>2. in = <<p>> /\ Len(<<p>>) = 1 /\ <<p>>[1].of = "suite"
      BY DEF ReportInit
    <3> DEFINE q == <<p>>
    <3>3. Len(q) = 1 /\ q[1].of # t
      BY <2>3, <3>2
    <3> HIDE DEF q
    <3>4. Placed(q, <<>>, <<>>, t, [i \in 1..0 |-> 1])
      BY <2>1, <3>3 DEF Placed
    <3> QED
      BY <3>1, <3>2, <3>4, <2>1 DEF Linked, q
  <2> QED
    BY <2>2, <2>3
<1>3. ASSUME NEW t \in Tests PROVE Truthful(t)
  <2>1. tracked[t] = <<>> /\ DOMAIN <<>> = {}
    BY ReporterAssumption DEF ReportInit, Sources
  <2> QED
    BY <2>1 DEF Truthful
<1>4. SuiteTruthful
  <2> DEFINE b == <<"begin">>
  <2>1. tracked["suite"] = <<b>> /\ Len(<<b>>) = 1 /\ <<b>>[1] = b
    BY DEF ReportInit, Sources
  <2>2. \A k \in Closers : closer[k] = "open"
    BY DEF ReportInit
  <2> HIDE DEF b
  <2> QED
    BY <2>1, <2>2 DEF SuiteTruthful, b
<1>5. writer = "writes" /\ \A k \in Closers : closer[k] = "open"
  BY DEF ReportInit
<1> QED
  BY <1>1, <1>2, <1>3, <1>4, <1>5 DEF ReportInv, AllLinked

\* Every way of sending, by whom it may be, keeps the order of everybody.
LEMMA SendLinks ==
  ASSUME ReportInv, alive, NEW s \in Sources, NEW m \in Messages, Send(s, m), ~closed,
         written' = written
  PROVE  AllLinked'
<1> SUFFICES ASSUME NEW t \in Sources PROVE Linked(in', tracked'[t], written'[t], t)
  BY DEF AllLinked, Linked, Placed
<1> DEFINE p == [of |-> s, msg |-> m]
<1>1. in' = Append(in, p) /\ p \in Packet /\ p.of = s /\ p.msg = m
  BY DEF Send, Packet
<1>2. Linked(in, tracked[t], written[t], t) /\ ReportTypeOK
  BY DEF ReportInv, AllLinked
<1>3. tracked[t] \in Seq(Messages) /\ written[t] \in Seq(Messages) /\ in \in Seq(Packet)
  BY <1>2, LogType
<1>4. tracked' = [tracked EXCEPT ![s] = Append(@, m)] /\ tracked \in [Sources -> Seq(Messages)]
  BY <1>2 DEF Send, ReportTypeOK
<1> HIDE DEF p
<1>5. CASE t = s
  <2>1. Linked(Append(in, p), Append(tracked[t], m), written[t], t)
    BY <1>1, <1>2, <1>3, <1>5, LinkOwn
  <2>2. tracked'[t] = Append(tracked[t], m)
    BY <1>4, <1>5
  <2> QED
    BY <2>1, <2>2, <1>1
<1>6. CASE t # s
  <2>1. Linked(Append(in, p), tracked[t], written[t], t)
    BY <1>1, <1>2, <1>3, <1>6, LinkOther
  <2>2. tracked'[t] = tracked[t]
    BY <1>4, <1>6
  <2> QED
    BY <2>1, <2>2, <1>1
<1> QED
  BY <1>5, <1>6

\* What leaves channel, report and logs as they are.
LEMMA SameLinks ==
  ASSUME AllLinked, UNCHANGED <<in, tracked, written>>
  PROVE  AllLinked'
BY DEF AllLinked, Linked, Placed

\* What t tracks keeps what it is reported as: an error counts as its failure
\* and its end takes its result.
LEMMA TrackTruth ==
  ASSUME ReportTypeOK, NEW t \in Tests, Truthful(t), NEW m \in Messages, Track(t, m),
         test[t].failed = TRUE => test'[t].failed = TRUE,
         m = <<"error">> => test'[t].failed = TRUE,
         Head(m) = "finish" => m[2] = test[t].failed
  PROVE  Truthful(t)'
<1>1. CASE closed
  <2>1. tracked' = tracked
    BY <1>1 DEF Track, Send
  <2> QED
    BY <2>1 DEF Truthful
<1>2. CASE ~closed
  <2> DEFINE l == tracked[t]  n == Len(l)  l2 == Append(l, m)
  <2>1. l \in Seq(Messages) /\ tracked'[t] = l2
    BY <1>2 DEF Track, Send, ReportTypeOK, Sources
  <2>2. /\ n \in Nat /\ DOMAIN l = 1..n /\ DOMAIN l2 = 1..n + 1
        /\ l2[n + 1] = m /\ \A i \in 1..n : l2[i] = l[i]
    BY <2>1, AppendProperties, LenProperties
  <2>3. /\ \A i \in 1..n : l[i] = <<"error">> => test[t].failed = TRUE
        /\ \A i, k \in 1..n : i < k /\ l[i] = <<"error">> /\ Head(l[k]) = "finish" => l[k][2] = TRUE
    BY <2>2 DEF Truthful
  <2> HIDE DEF l, n, l2
  <2>4. ASSUME NEW i \in 1..n + 1, l2[i] = <<"error">> PROVE test'[t].failed = TRUE
    <3>1. CASE i = n + 1
      BY <3>1, <2>2, <2>4
    <3>2. CASE i # n + 1
      <4>1. i \in 1..n
        BY <3>2, <2>2
      <4> QED
        BY <4>1, <2>2, <2>3, <2>4
    <3> QED
      BY <3>1, <3>2
  <2>5. ASSUME NEW i \in 1..n + 1, NEW k \in 1..n + 1, i < k, l2[i] = <<"error">>,
               Head(l2[k]) = "finish"
        PROVE  l2[k][2] = TRUE
    <3>1. i \in 1..n /\ l[i] = <<"error">>
      BY <2>2, <2>5
    <3>2. CASE k = n + 1
      <4>1. test[t].failed = TRUE
        BY <3>1, <2>3
      <4>2. Head(m) = "finish"
        BY <3>2, <2>2, <2>5
      <4>3. m[2] = test[t].failed
        BY <4>2
      <4> QED
        BY <4>1, <4>3, <3>2, <2>2
    <3>3. CASE k # n + 1
      <4>1. k \in 1..n
        BY <3>3, <2>2
      <4> QED
        BY <4>1, <3>1, <2>2, <2>3, <2>5
    <3> QED
      BY <3>2, <3>3
  <2> QED
    BY <2>1, <2>2, <2>4, <2>5 DEF Truthful
<1> QED
  BY <1>1, <1>2

\* What a test does.
LEMMA TestReport ==
  ASSUME ReportInv, alive, NEW t \in Tests, Tracks(t)
  PROVE  ReportInv'
<1>1. ReportTypeOK /\ ReportTypeOK'
  BY TestType DEF ReportInv
<1>2. \A r \in {"begin", "pause", "continue", "skip", "error"} : <<r>> \in Messages /\ Head(<<r>>) = r
  BY DEF Messages
<1>3. \A r \in {"ok", "error"} : LET m == <<"exec", r>> IN m \in Messages /\ Head(m) = "exec" /\ m # <<"error">>
  BY DEF Messages
<1>4. \A f, s \in BOOLEAN : LET m == <<"finish", f, s>> IN m \in Messages /\ Head(m) = "finish" /\ m[2] = f /\ m # <<"error">>
  BY DEF Messages
<1>5. test \in [Tests -> [at : {"new", "runs", "paused", "ending", "over"},
                          parallel : BOOLEAN, exec : BOOLEAN, failed : BOOLEAN, skipped : BOOLEAN]]
  BY <1>1 DEF ReportTypeOK
<1>6. \E m \in Messages :
         /\ Track(t, m) /\ \A u \in Tests \ {t} : test'[u] = test[u]
         /\ test[t].failed = TRUE => test'[t].failed = TRUE
         /\ m = <<"error">> => test'[t].failed = TRUE
         /\ Head(m) = "finish" => m[2] = test[t].failed
  <2>1. CASE TrackTest(t)
    BY <1>2, <1>5, <2>1 DEF TrackTest
  <2>2. CASE Pause(t)
    BY <1>2, <1>5, <2>2 DEF Pause
  <2>3. CASE Continue(t)
    BY <1>2, <1>5, <2>3 DEF Continue
  <2>4. CASE TrackSkip(t)
    BY <1>2, <1>5, <2>4 DEF TrackSkip
  <2>5. CASE Errorf(t)
    <3>1. PICK at \in {"runs", "ending"} : test' = [test EXCEPT ![t].at = at, ![t].failed = TRUE]
      BY <2>5 DEF Errorf
    <3>2. test'[t].failed = TRUE /\ \A u \in Tests \ {t} : test'[u] = test[u]
      BY <3>1, <1>5
    <3> QED
      BY <1>2, <2>5, <3>2 DEF Errorf
  <2>6. CASE TrackRelayerExec(t)
    BY <1>3, <1>5, <2>6 DEF TrackRelayerExec
  <2>7. CASE FinishTest(t)
    BY <1>4, <1>5, <2>7 DEF FinishTest
  <2> QED
    BY <2>1, <2>2, <2>3, <2>4, <2>5, <2>6, <2>7 DEF Tracks
<1>7. PICK m \in Messages :
         /\ Track(t, m) /\ \A u \in Tests \ {t} : test'[u] = test[u]
         /\ test[t].failed = TRUE => test'[t].failed = TRUE
         /\ m = <<"error">> => test'[t].failed = TRUE
         /\ Head(m) = "finish" => m[2] = test[t].failed
  BY <1>6
<1>8. \A u \in Sources \ {t} : tracked'[u] = tracked[u]
  BY <1>1, <1>7 DEF Track, Send, ReportTypeOK
<1>9. \A u \in Tests : Truthful(u)'
  <2> SUFFICES ASSUME NEW u \in Tests PROVE Truthful(u)'
    OBVIOUS
  <2>1. Truthful(u)
    BY DEF ReportInv
  <2>2. CASE u = t
    <3>1. Truthful(t)'
      BY <1>1, <1>7, <2>1, <2>2, TrackTruth
    <3> QED
      BY <3>1, <2>2
  <2>3. CASE u # t
    BY <1>7, <1>8, <2>1, <2>3 DEF Truthful, Sources
  <2> QED
    BY <2>2, <2>3
<1>10. UNCHANGED <<closed, closer, writer, written>> /\ Send(t, m) /\ t \in Sources
  BY <1>7 DEF Track, Sources
<1>11. SuiteTruthful'
  <2>1. tracked'["suite"] = tracked["suite"]
    BY <1>8, ReporterAssumption DEF Sources
  <2> QED
    BY <2>1, <1>10 DEF ReportInv, SuiteTruthful
<1>12. CASE closed
  <2>1. alive' = FALSE /\ in' = in /\ tracked' = tracked
    BY <1>10, <1>12 DEF Send
  <2>2. AllLinked'
    BY <2>1, <1>10, SameLinks DEF ReportInv
  <2> QED
    BY <2>1, <2>2, <1>1, <1>9, <1>10, <1>11, <1>12 DEF ReportInv
<1>13. CASE ~closed
  <2>1. AllLinked'
    BY <1>10, <1>13, SendLinks
  <2>2. writer # "done"
    BY <1>13 DEF ReportInv
  <2> QED
    BY <2>1, <2>2, <1>1, <1>9, <1>10, <1>11 DEF ReportInv
<1> QED
  BY <1>12, <1>13

\* The writer hands the head of the channel to the report of whom it is of.
LEMMA WriteReport ==
  ASSUME ReportInv, alive, Write
  PROVE  ReportInv'
<1>1. ReportTypeOK /\ ReportTypeOK'
  BY WriterType DEF ReportInv
<1>2. in # <<>> /\ in' = Tail(in) /\ UNCHANGED <<closed, closer, writer, tracked, test>>
  BY DEF Write
<1>3. writer # "done" /\ \A k \in Closers : closer[k] # "closed"
  BY <1>2 DEF ReportInv
<1>4. (\A t \in Tests : Truthful(t)') /\ SuiteTruthful'
  BY <1>2 DEF Truthful, SuiteTruthful, ReportInv
<1>5. CASE alive' = FALSE
  BY <1>1, <1>2, <1>3, <1>4, <1>5 DEF ReportInv
<1>6. CASE written' = [written EXCEPT ![Head(in).of] = Append(@, Head(in).msg)] /\ alive' = alive
  <2>1. Head(in) \in Packet /\ in \in Seq(Packet)
    <3> DEFINE P == Packet
    <3>1. in \in Seq(P)
      BY <1>1 DEF ReportTypeOK, Packet
    <3> HIDE DEF P
    <3>2. Head(in) \in P
      BY <3>1, <1>2
    <3> QED
      BY <3>1, <3>2 DEF P
  <2>2. Head(in).msg \in Messages /\ Head(in).of \in Sources
    BY <2>1 DEF Packet
  <2>3. ASSUME NEW t \in Sources PROVE Linked(in', tracked'[t], written'[t], t)
    <3>1. Linked(in, tracked[t], written[t], t) /\ tracked[t] \in Seq(Messages) /\ written[t] \in Seq(Messages)
      BY <1>1, LogType DEF ReportInv, AllLinked
    <3>2. CASE Head(in).of = t
      <4>1. Linked(Tail(in), tracked[t], Append(written[t], Head(in).msg), t)
        BY <1>2, <2>1, <2>2, <3>1, <3>2, LinkWrite
      <4>2. written'[t] = Append(written[t], Head(in).msg)
        BY <1>1, <1>6, <3>2 DEF ReportTypeOK
      <4> QED
        BY <4>1, <4>2, <1>2
    <3>3. CASE Head(in).of # t
      <4>1. Linked(Tail(in), tracked[t], written[t], t)
        BY <1>2, <2>1, <3>1, <3>3, LinkPass
      <4>2. written'[t] = written[t]
        BY <1>1, <1>6, <3>3 DEF ReportTypeOK
      <4> QED
        BY <4>1, <4>2, <1>2
    <3> QED
      BY <3>2, <3>3
  <2>4. AllLinked'
    BY <2>3 DEF AllLinked, Linked, Placed
  <2> QED
    BY <1>1, <1>2, <1>3, <1>4, <2>4 DEF ReportInv
<1> QED
  BY <1>5, <1>6 DEF Write

\* Close, from its message to its return.
LEMMA CloseReport ==
  ASSUME ReportInv, alive, WriterEnds \/ \E k \in Closers : Close(k) \/ Closing(k)
  PROVE  ReportInv'
<1>1. ReportTypeOK /\ ReportTypeOK' /\ AllLinked
  BY WriterType DEF ReportInv
<1>2. closer \in [Closers -> {"open", "sent", "waits", "closed"}]
  BY <1>1 DEF ReportTypeOK
<1>3. ASSUME NEW k \in Closers, Close(k) PROVE ReportInv'
  <2>1. /\ closer[k] \in {"open", "closed"} /\ Send("suite", <<"finish">>)
        /\ UNCHANGED <<closed, writer, written, test>> /\ "suite" \in Sources
    BY <1>3 DEF Close, Sources
  <2>2. CASE closed
    <3>1. alive' = FALSE /\ UNCHANGED <<in, tracked, closer>>
      BY <1>3, <2>1, <2>2 DEF Send, Close
    <3>2. AllLinked'
      BY <3>1, <2>1, <1>1, SameLinks
    <3>3. (\A t \in Tests : Truthful(t)') /\ SuiteTruthful'
      BY <3>1, <2>1 DEF Truthful, SuiteTruthful, ReportInv
    <3> QED
      BY <3>1, <3>2, <3>3, <2>1, <1>1 DEF ReportInv
  <2>3. CASE ~closed
    <3>1. writer # "done" /\ \A j \in Closers : closer[j] # "closed"
      BY <2>3 DEF ReportInv
    <3>2. <<"finish">> \in Messages
      BY DEF Messages
    <3>3. AllLinked'
      BY <2>1, <2>3, <3>2, SendLinks
    <3>4. closer' = [closer EXCEPT ![k] = "sent"]
      BY <1>3, <2>3 DEF Close
    <3>5. \A j \in Closers : closer'[j] # "closed"
      BY <3>1, <3>4, <1>2
    <3>6. /\ tracked'["suite"] = Append(tracked["suite"], <<"finish">>)
          /\ \A t \in Tests : tracked'[t] = tracked[t]
      BY <2>1, <2>3, <1>1, ReporterAssumption DEF Send, ReportTypeOK, Sources
    <3>7. \A t \in Tests : Truthful(t)'
      BY <3>6, <2>1 DEF Truthful, ReportInv
    <3>8. SuiteTruthful'
      <4> DEFINE l == tracked["suite"]  n == Len(l)  f == <<"finish">>  l2 == Append(l, f)
      <4>1. l \in Seq(Messages) /\ f \in Messages
        BY <2>1, <3>2, <1>1, LogType
      <4>2. n \in Nat /\ Len(l2) = n + 1 /\ l2[n + 1] = f /\ \A i \in 1..n : l2[i] = l[i]
        BY <4>1, AppendProperties, LenProperties
      <4>3. n >= 1 /\ l[1] = <<"begin">> /\ \A i \in 2..n : l[i] = f
        BY DEF ReportInv, SuiteTruthful
      <4>4. tracked'["suite"] = l2
        BY <3>6
      <4> HIDE DEF l, n, f, l2
      <4>5. Len(l2) > 1 /\ l2[1] = <<"begin">> /\ \A i \in 2..Len(l2) : l2[i] = f
        <5>1. Len(l2) > 1 /\ l2[1] = <<"begin">>
          BY <4>2, <4>3
        <5>2. ASSUME NEW i \in 2..Len(l2) PROVE l2[i] = f
          <6>1. i = n + 1 \/ (i \in 2..n /\ i \in 1..n)
            BY <4>2
          <6> QED
            BY <6>1, <4>2, <4>3
        <5> QED
          BY <5>1, <5>2
      <4>6. Len(l2) >= 1
        BY <4>2
      <4> QED
        BY <4>4, <4>5, <4>6 DEF SuiteTruthful, f
    <3> QED
      BY <3>1, <3>3, <3>5, <3>7, <3>8, <2>1, <1>1 DEF ReportInv
  <2> QED
    BY <2>2, <2>3
<1>4. ASSUME WriterEnds \/ \E k \in Closers : Closing(k) PROVE ReportInv'
  <2>1. UNCHANGED <<in, written, tracked, test>>
    BY <1>4 DEF WriterEnds, Closing, CloseChannel, CloseReturns
  <2>2. AllLinked' /\ \A t \in Tests : Truthful(t)'
    BY <2>1, <1>1, SameLinks DEF Truthful, ReportInv
  <2>3. CASE WriterEnds
    <3>1. closed' = closed /\ closer' = closer /\ writer' = "done" /\ closed /\ in = <<>>
      BY <2>3 DEF WriterEnds
    <3>2. SuiteTruthful'
      BY <3>1, <2>1 DEF SuiteTruthful, ReportInv
    <3> QED
      BY <2>1, <2>2, <3>1, <3>2, <1>1 DEF ReportInv
  <2>4. ASSUME NEW k \in Closers, Closing(k) PROVE ReportInv'
    <3>1. writer' = writer /\ (closed' = closed \/ closed' = TRUE)
      BY <2>4 DEF Closing, CloseChannel, CloseReturns
    <3>2. \A j \in Closers :
            /\ closer'[j] = "closed" => closer[j] = "closed" \/ writer = "done"
            /\ closer'[j] # "open" => closer[j] # "open"
      BY <2>4, <1>2 DEF Closing, CloseChannel, CloseReturns
    <3>3. SuiteTruthful'
      BY <3>2, <2>1 DEF SuiteTruthful, ReportInv
    <3>4. \A j \in Closers : closer'[j] = "closed" => writer' = "done"
      BY <3>1, <3>2 DEF ReportInv
    <3> QED
      BY <3>1, <3>3, <3>4, <2>1, <2>2, <1>1 DEF ReportInv
  <2> QED
    BY <1>4, <2>3, <2>4
<1> QED
  BY <1>3, <1>4

\* A report that was closed is complete: whatever the interleaving of the
\* tests, the writer and those who close, all that was sent before the channel
\* was closed is in it, once and in order.
THEOREM Complete == ReportSpec => []ReportComplete
<1>1. ReportInv /\ [ReportNext]_reportVars => ReportInv'
  <2> SUFFICES ASSUME ReportInv, [ReportNext]_reportVars PROVE ReportInv'
    OBVIOUS
  <2>1. CASE alive /\ Write
    BY <2>1, WriteReport
  <2>2. CASE alive /\ (WriterEnds \/ \E k \in Closers : Close(k) \/ Closing(k))
    BY <2>2, CloseReport
  <2>3. CASE alive /\ \E t \in Tests : Tracks(t)
    BY <2>3, TestReport
  <2>4. CASE UNCHANGED reportVars
    <3>1. ReportTypeOK' /\ SuiteTruthful' /\ \A t \in Tests : Truthful(t)'
      BY <2>4 DEF reportVars, ReportInv, ReportTypeOK, Truthful, SuiteTruthful
    <3>2. alive \/ writer = "done" => AllLinked'
      BY <2>4, SameLinks DEF reportVars, ReportInv
    <3> QED
      BY <3>1, <3>2, <2>4 DEF reportVars, ReportInv
  <2> QED
    BY <2>1, <2>2, <2>3, <2>4 DEF ReportNext
<1>2. ReportInv => ReportComplete
  <2> SUFFICES ASSUME ReportInv, NEW c \in Closers, closer[c] = "closed" PROVE ReportComplete
    BY DEF ReportComplete
  <2>1. \A t \in Sources : written[t] = tracked[t]
    <3> SUFFICES ASSUME NEW t \in Sources PROVE written[t] = tracked[t]
      OBVIOUS
    <3>1. ReportTypeOK /\ in = <<>> /\ Linked(in, tracked[t], written[t], t)
      BY DEF ReportInv, AllLinked
    <3>2. tracked[t] \in Seq(Messages) /\ written[t] \in Seq(Messages)
      BY <3>1, LogType
    <3> QED
      BY <3>1, <3>2, LinkEnd
  <2>2. /\ written["suite"][1] = <<"begin">> /\ Len(written["suite"]) > 1
        /\ \A i \in 2 .. Len(written["suite"]) : written["suite"][i] = <<"finish">>
    <3>1. written["suite"] = tracked["suite"]
      BY <2>1 DEF Sources
    <3> QED
      BY <3>1 DEF ReportInv, SuiteTruthful
  <2>3. ASSUME NEW t \in Tests
        PROVE  \A i, k \in DOMAIN written[t] :
                 i < k /\ written[t][i] = <<"error">> /\ Head(written[t][k]) = "finish"
                   => written[t][k][2]
    <3>1. written[t] = tracked[t]
      BY <2>1 DEF Sources
    <3>2. \A i, k \in DOMAIN tracked[t] :
            i < k /\ tracked[t][i] = <<"error">> /\ Head(tracked[t][k]) = "finish"
              => tracked[t][k][2] = TRUE
      BY DEF ReportInv, Truthful
    <3> QED
      BY <3>1, <3>2
  <2> QED
    BY <2>1, <2>2, <2>3 DEF ReportComplete
<1> QED
  BY InitReport, <1>1, <1>2, PTL DEF ReportSpec

=============================================================================
