--------------------------- MODULE RelayerPromise ---------------------------
(***************************************************************************)
(* What ibc.Relayer promises of StartRelayer and StopRelayer: a relayer    *)
(* that is started is one background worker, which works at most once and  *)
(* never after StopRelayer has returned without error.                     *)
(***************************************************************************)
VARIABLES claimed, \* StartRelayer was called, StopRelayer has not released it
          worker   \* "none", "working" or "ended", for the current claim

Init == claimed = FALSE /\ worker = "none"

Claim   == ~claimed /\ claimed' = TRUE /\ UNCHANGED worker
Work    == claimed /\ worker = "none" /\ worker' = "working" /\ UNCHANGED claimed
End     == worker = "working" /\ worker' = "ended" /\ UNCHANGED claimed
Release == claimed /\ worker = "ended" /\ claimed' = FALSE /\ worker' = "none"

\* A claim on which no worker was ever started can be given back as well.
GiveUp  == claimed /\ worker = "none" /\ claimed' = FALSE /\ UNCHANGED worker

Next == Claim \/ Work \/ End \/ Release \/ GiveUp

Spec == Init /\ [][Next]_<<claimed, worker>>
=============================================================================
