---------------------------- MODULE MCBootstrap ----------------------------
(* An instance of Bootstrap for TLC: a Dymension hub and rollapp, a Celestia  *)
(* hub and a rollkit rollapp, with few validators and full nodes.           *)
EXTENDS Bootstrap

\* The chains of every instance are named after their implementations.
Size(dh, ch, dr, gr) ==
  [c \in Chains |-> CASE c \in DymHubs -> dh [] c \in CelesHubs -> ch
                      [] c \in DymRollApps -> dr [] OTHER -> gr]

TwoCelesVals == Size(1, 2, 1, 1)

FullNodes == Size(1, 0, 1, 1)

AllRollUps == (DymHubs \X DymRollApps) \cup (CelesHubs \X GmRollApps)

\* One relayer, a path from every hub to every rollapp of its stack.
HubLinks == {[relayer |-> "rly", path |-> p, a |-> p[1], b |-> p[2]] : p \in AllRollUps}

\* Arguments of Build: everything from scratch; forked genesis files for the
\* rollapps; a failing start that is expected, of an existing Celestia hub;
\* an existing Dymension hub.
Args(h, f, e, s) == [redundant |-> h, forked |-> f, failExpected |-> e, skipPathCreation |-> s]
SeveralArgs == {Args(None, FALSE, FALSE, FALSE), Args(None, TRUE, FALSE, TRUE),
                Args("celes", FALSE, TRUE, FALSE), Args("dym", FALSE, FALSE, FALSE)}

=============================================================================
