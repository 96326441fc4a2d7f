----------------------------- MODULE MCReporter -----------------------------
(* An instance of Reporter for TLC. *)
EXTENDS Reporter

CONSTANTS t1, t2, k1, k2

\* Each kind of message, from one test or the other.
MCUses == [t \in Tests |-> IF t = t1 THEN {"error", "exec"} ELSE {"parallel", "skip"}]
=============================================================================
