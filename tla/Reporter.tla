------------------------------ MODULE Reporter ------------------------------
(***************************************************************************)
(* testreporter: tests send messages into a buffered channel, and one      *)
(* goroutine writes them to the report.  Close may be called by anybody at *)
(* any time, also while another Close is under way; who sends on the       *)
(* closed channel, or closes it again, panics, and with it the whole       *)
(* program.                                                                *)
(***************************************************************************)
EXTENDS Naturals, Sequences

CONSTANTS
  Tests,  \* tests that are tracked
  Uses,   \* [Tests -> which of "parallel", "skip", "error", "exec" it uses]
  Closers, \* those who may call Close
  Cap     \* capacity of the channel, 256 in the code

Sources == Tests \cup {"suite"}

ASSUME ReporterAssumption ==
  /\ Cap \in Nat \ {0} /\ "suite" \notin Tests
  /\ Uses \in [Tests -> SUBSET {"parallel", "skip", "error", "exec"}]

VARIABLES
  in, closed,  \* the channel
  closer,      \* [Closers -> where its Close is]
  writer,      \* "writes" until writerDone has its value
  written,     \* [Sources -> its messages in the report, in order]
  tracked,     \* [Sources -> what was sent of it, in order]
  test,        \* [Tests -> the test]
  alive        \* nobody has panicked

reportVars == <<in, closed, closer, writer, written, tracked, test, alive>>

\* What is tracked: a test begins, pauses, continues, is skipped, has an error,
\* finishes as failed or not and skipped or not; a command ended; the suite
\* begins and finishes.
Messages ==
  {<<m>> : m \in {"begin", "pause", "continue", "skip", "error", "finish"}}
  \cup ({"finish"} \X BOOLEAN \X BOOLEAN) \cup ({"exec"} \X {"ok", "error"})

NewTest == [at |-> "new", parallel |-> FALSE, exec |-> FALSE, failed |-> FALSE, skipped |-> FALSE]

\* NewReporter has sent BeginSuite.
ReportInit ==
  /\ in = <<[of |-> "suite", msg |-> <<"begin">>]>> /\ closed = FALSE
  /\ closer = [k \in Closers |-> "open"] /\ writer = "writes"
  /\ written = [s \in Sources |-> <<>>]
  /\ tracked = [s \in Sources |-> IF s = "suite" THEN <<<<"begin">>>> ELSE <<>>]
  /\ test = [t \in Tests |-> NewTest] /\ alive = TRUE

\* r.in <- m
Send(s, m) ==
  IF closed THEN alive' = FALSE /\ UNCHANGED <<in, tracked>>
  ELSE /\ Len(in) < Cap
       /\ in' = Append(in, [of |-> s, msg |-> m])
       /\ tracked' = [tracked EXCEPT ![s] = Append(@, m)]
       /\ UNCHANGED alive

Track(t, m) == Send(t, m) /\ UNCHANGED <<closed, closer, writer, written>>

-----------------------------------------------------------------------------
(* The writer and Close. *)

\* Encode; its error is a panic.
Write ==
  /\ in # <<>> /\ in' = Tail(in)
  /\ \/ /\ written' = [written EXCEPT ![Head(in).of] = Append(@, Head(in).msg)]
        /\ UNCHANGED alive
     \/ alive' = FALSE /\ UNCHANGED written
  /\ UNCHANGED <<closed, closer, writer, tracked, test>>

\* A mutant: it ends with the channel closed, whatever is still in it.
WriterEndsAtOnce ==
  /\ closed /\ writer = "writes" /\ writer' = "done"
  /\ UNCHANGED <<in, closed, closer, written, tracked, test, alive>>

WriterEnds ==
  /\ closed /\ in = <<>> /\ writer = "writes" /\ writer' = "done"
  /\ UNCHANGED <<in, closed, closer, written, tracked, test, alive>>

\* Close sends FinishSuite, closes the channel and waits for the writer.
Close(k) ==
  /\ closer[k] \in {"open", "closed"}
  /\ Send("suite", <<"finish">>)
  /\ closer' = IF closed THEN closer ELSE [closer EXCEPT ![k] = "sent"]
  /\ UNCHANGED <<closed, writer, written, test>>

\* A mutant: the channel is left open.
CloseChannelNot(k) ==
  /\ closer[k] = "sent" /\ closer' = [closer EXCEPT ![k] = "waits"]
  /\ UNCHANGED <<in, closed, writer, written, tracked, test, alive>>

\* close(r.in) panics when another Close has closed it.
CloseChannel(k) ==
  /\ closer[k] = "sent"
  /\ IF closed THEN alive' = FALSE /\ UNCHANGED <<closed, closer>>
     ELSE closed' = TRUE /\ closer' = [closer EXCEPT ![k] = "waits"] /\ UNCHANGED alive
  /\ UNCHANGED <<in, writer, written, tracked, test>>

CloseReturns(k) ==
  /\ closer[k] = "waits" /\ writer = "done" /\ closer' = [closer EXCEPT ![k] = "closed"]
  /\ UNCHANGED <<in, closed, writer, written, tracked, test, alive>>

-----------------------------------------------------------------------------
(* What a test tracks of itself. *)

TrackTest(t) ==
  /\ test[t].at = "new" /\ Track(t, <<"begin">>)
  /\ test' = [test EXCEPT ![t].at = "runs"]

\* TrackParallel waits in t.Parallel between its messages.
Pause(t) ==
  /\ "parallel" \in Uses[t] /\ test[t].at = "runs" /\ ~test[t].parallel
  /\ Track(t, <<"pause">>)
  /\ test' = [test EXCEPT ![t].at = "paused", ![t].parallel = TRUE]

Continue(t) ==
  /\ test[t].at = "paused" /\ Track(t, <<"continue">>)
  /\ test' = [test EXCEPT ![t].at = "runs"]

\* t.Skip leaves the test function.
TrackSkip(t) ==
  /\ "skip" \in Uses[t] /\ test[t].at = "runs" /\ Track(t, <<"skip">>)
  /\ test' = [test EXCEPT ![t].at = "ending", ![t].skipped = TRUE]

\* A failed assertion; FailNow leaves the test function.
Errorf(t) ==
  /\ "error" \in Uses[t] /\ test[t].at = "runs" /\ ~test[t].failed
  /\ Track(t, <<"error">>)
  /\ \E at \in {"runs", "ending"} : test' = [test EXCEPT ![t].at = at, ![t].failed = TRUE]

\* A relayer command has come to its end, one way or another, and is tracked
\* before the test goes on.  Also tests that are not tracked themselves do it.
TrackRelayerExec(t) ==
  /\ "exec" \in Uses[t] /\ test[t].at \in {"new", "runs"} /\ ~test[t].exec
  /\ \E result \in {"ok", "error"} : Track(t, <<"exec", result>>)
  /\ test' = [test EXCEPT ![t].exec = TRUE]

\* The cleanup TrackTest registered.
FinishTest(t) ==
  /\ test[t].at \in {"runs", "ending"}
  /\ Track(t, <<"finish", test[t].failed, test[t].skipped>>)
  /\ test' = [test EXCEPT ![t].at = "over"]

Closing(k) == CloseChannel(k) \/ CloseReturns(k)

Tracks(t) ==
  \/ TrackTest(t) \/ Pause(t) \/ Continue(t) \/ TrackSkip(t) \/ Errorf(t)
  \/ TrackRelayerExec(t) \/ FinishTest(t)

ReportNext ==
  /\ alive
  /\ \/ Write \/ WriterEnds
     \/ \E k \in Closers : Close(k) \/ Closing(k)
     \/ \E t \in Tests : Tracks(t)

ReportSpec == ReportInit /\ [][ReportNext]_reportVars

\* The writer and every Close that was begun go on; a test need not.
ReportFairSpec ==
  /\ ReportSpec
  /\ WF_reportVars(alive /\ (Write \/ WriterEnds))
  /\ \A k \in Closers : WF_reportVars(alive /\ Closing(k))

-----------------------------------------------------------------------------
(* Properties. *)

\* Every variable stays in its domain, and the channel within its capacity.
ReportTypeOK ==
  /\ in \in Seq([of : Sources, msg : Messages]) /\ Len(in) <= Cap
  /\ closed \in BOOLEAN /\ alive \in BOOLEAN
  /\ closer \in [Closers -> {"open", "sent", "waits", "closed"}] /\ writer \in {"writes", "done"}
  /\ written \in [Sources -> Seq(Messages)] /\ tracked \in [Sources -> Seq(Messages)]
  /\ test \in [Tests -> [at : {"new", "runs", "paused", "ending", "over"},
                         parallel : BOOLEAN, exec : BOOLEAN, failed : BOOLEAN, skipped : BOOLEAN]]

\* When a Close has returned, the report has all that was sent before the
\* channel was closed, once and in the order in which each test, and the suite,
\* sent it.  The suite begins, and finishes then, once for every Close that came
\* before the channel was closed; a test with an error in it is reported as
\* failed.
ReportComplete ==
  (\E k \in Closers : closer[k] = "closed") =>
    /\ \A s \in Sources : written[s] = tracked[s]
    /\ written["suite"][1] = <<"begin">> /\ Len(written["suite"]) > 1
    /\ \A i \in 2 .. Len(written["suite"]) : written["suite"][i] = <<"finish">>
    /\ \A t \in Tests : \A i, k \in DOMAIN written[t] :
         i < k /\ written[t][i] = <<"error">> /\ Head(written[t][k]) = "finish" => written[t][k][2]

\* Every Close that has sent its message returns, whoever else tracks or closes
\* at the time, or the program has panicked.
CloseEnds ==
  \A k \in Closers : closer[k] \in {"sent", "waits"} ~> closer[k] = "closed" \/ ~alive

=============================================================================
