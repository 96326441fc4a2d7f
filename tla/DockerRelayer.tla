---------------------------- MODULE DockerRelayer ----------------------------
(***************************************************************************)
(* relayer.DockerRelayer: StartRelayer and StopRelayer, call by call, with *)
(* the docker daemon.  The relayer process may exit by itself and its      *)
(* container may be removed from outside, by the cleanup of a test of the  *)
(* same name.  A docker call may fail, and one that fails may have worked. *)
(***************************************************************************)
EXTENDS Naturals, FiniteSets

CONSTANT MaxContainers  \* bound on the containers one relayer may create

ASSUME ContainersAssumption == MaxContainers \in Nat

Ids == 1 .. MaxContainers

VARIABLES
  pc,        \* the docker call a StartRelayer or StopRelayer is at, or "idle"
  ret,       \* what the last StartRelayer or StopRelayer returned
  lifecycle, \* id in r.containerLifecycle; 0: not created; NoLifecycle: nil
  docker,    \* [Ids -> state of the container in docker]
  ran,       \* containers whose process has run
  reported   \* containers TrackRelayerExec was called for

NoLifecycle == MaxContainers + 1

relayerVars == <<pc, ret, lifecycle, docker, ran, reported>>

RelayerInit ==
  /\ pc = "idle" /\ ret = "ok" /\ lifecycle = NoLifecycle
  /\ docker = [i \in Ids |-> "unused"]
  /\ ran = {} /\ reported = {}

Unused   == {i \in Ids : docker[i] = "unused"}
Existing == {i \in Ids : docker[i] \in {"created", "running", "exited"}}
Running  == {i \in Ids : docker[i] = "running"}

\* The call returns r.
Return(r) == pc' = "idle" /\ ret' = r

\* What docker answers about a container it does not have, and about "".
Missing == lifecycle \notin Existing

-----------------------------------------------------------------------------
(* StartRelayer. *)

\* A mutant: no error when the relayer was not stopped.
StartRelayerTwice ==
  /\ pc = "idle" /\ pc' = "create" /\ lifecycle' = 0
  /\ UNCHANGED <<ret, docker, ran, reported>>

StartRelayer ==
  /\ pc = "idle"
  /\ IF lifecycle # NoLifecycle
     THEN Return("again") /\ UNCHANGED lifecycle
     ELSE pc' = "create" /\ lifecycle' = 0 /\ UNCHANGED ret
  /\ UNCHANGED <<docker, ran, reported>>

\* ContainerLifecycle.CreateContainer learns the id only if it succeeds.
CreateContainer ==
  /\ pc = "create"
  /\ \/ \E i \in Unused :
          /\ docker' = [docker EXCEPT ![i] = "created"]
          /\ \/ pc' = "start" /\ lifecycle' = i /\ UNCHANGED ret
             \/ Return("docker") /\ UNCHANGED lifecycle
     \/ Return("docker") /\ UNCHANGED <<docker, lifecycle>>
  /\ UNCHANGED <<ran, reported>>

StartContainer ==
  /\ pc = "start"
  /\ \/ /\ ~Missing
        /\ docker' = [docker EXCEPT ![lifecycle] = "running"]
        /\ ran' = ran \cup {lifecycle}
        /\ Return("ok") \/ Return("docker")
     \/ Return("docker") /\ UNCHANGED <<docker, ran>>
  /\ UNCHANGED <<lifecycle, reported>>

-----------------------------------------------------------------------------
(* StopRelayer. *)

StopRelayer ==
  /\ pc = "idle"
  /\ IF lifecycle = NoLifecycle THEN Return("ok") ELSE pc' = "stop" /\ UNCHANGED ret
  /\ UNCHANGED <<lifecycle, docker, ran, reported>>

\* A mutant: an error of docker is ignored.
StopContainerIgnoresErrors ==
  /\ pc = "stop" /\ ~Missing
  /\ docker' \in {docker, [docker EXCEPT ![lifecycle] = "exited"]}
  /\ pc' = "logs"
  /\ UNCHANGED <<ret, lifecycle, ran, reported>>

\* Docker stops a running container and is content with one that does not run.
StopContainer ==
  /\ pc = "stop"
  /\ LET stopped == IF lifecycle \in Running
                    THEN [docker EXCEPT ![lifecycle] = "exited"] ELSE docker
     IN \/ ~Missing /\ docker' = stopped /\ pc' = "logs" /\ UNCHANGED ret
        \/ ~Missing /\ docker' \in {docker, stopped} /\ Return("docker")
        \/ Missing /\ Return("missing") /\ UNCHANGED docker
  /\ UNCHANGED <<lifecycle, ran, reported>>

\* A mutant: without logs there is no report.
ContainerLogsSkipsReport ==
  /\ pc = "logs" /\ pc' \in {"inspect", "remove"}
  /\ UNCHANGED <<ret, lifecycle, docker, ran, reported>>

ContainerLogs ==
  /\ pc = "logs"
  /\ \/ ~Missing /\ pc' = "inspect" /\ UNCHANGED ret
     \/ Return(IF Missing THEN "missing" ELSE "docker")
  /\ UNCHANGED <<lifecycle, docker, ran, reported>>

\* ContainerInspect and, with what it says, TrackRelayerExec.
InspectContainer ==
  /\ pc = "inspect"
  /\ \/ ~Missing /\ reported' = reported \cup {lifecycle} /\ pc' = "remove" /\ UNCHANGED ret
     \/ Return(IF Missing THEN "missing" ELSE "docker") /\ UNCHANGED reported
  /\ UNCHANGED <<lifecycle, docker, ran>>

\* RemoveContainer is content with a container that is gone.
RemoveContainer ==
  /\ pc = "remove"
  /\ \/ /\ docker' = IF Missing THEN docker ELSE [docker EXCEPT ![lifecycle] = "removed"]
        /\ lifecycle' = NoLifecycle
        /\ Return("ok")
     \/ /\ ~Missing
        /\ docker' \in {docker, [docker EXCEPT ![lifecycle] = "removed"]}
        /\ Return("docker") /\ UNCHANGED lifecycle
  /\ UNCHANGED <<ran, reported>>

RelayerStep ==
  \/ CreateContainer \/ StartContainer
  \/ StopContainer \/ ContainerLogs \/ InspectContainer \/ RemoveContainer

-----------------------------------------------------------------------------
(* The environment. *)

\* The relayer process exits.
Exit(i) ==
  /\ i \in Running
  /\ docker' = [docker EXCEPT ![i] = "exited"]
  /\ UNCHANGED <<pc, ret, lifecycle, ran, reported>>

\* dockerCleanup of a test of the same name stops and removes the container.
Purge(i) ==
  /\ i \in Existing
  /\ docker' = [docker EXCEPT ![i] = "removed"]
  /\ UNCHANGED <<pc, ret, lifecycle, ran, reported>>

Environment == \E i \in Ids : Exit(i) \/ Purge(i)

-----------------------------------------------------------------------------
(* Properties. *)

\* Every variable stays in its domain.
RelayerTypeOK ==
  /\ pc \in {"idle", "create", "start", "stop", "logs", "inspect", "remove"}
  /\ ret \in {"ok", "again", "docker", "missing"}
  /\ lifecycle \in 0 .. NoLifecycle
  /\ docker \in [Ids -> {"unused", "created", "running", "exited", "removed"}]
  /\ ran \subseteq Ids /\ reported \subseteq Ids

\* No relayer process runs that StopRelayer does not know: what runs is the
\* container of the current lifecycle, also after calls that failed half way.
RunningIsOwned == Running \subseteq {lifecycle}

\* A container whose process ran was put in the report before StopRelayer
\* lets go of it, so that the report misses no relayer execution.
ReleasedIsReported == \A i \in ran : i = lifecycle \/ i \in reported

\* "tried to start relayer again without stopping first": stopping first helps,
\* that is, StopRelayer only fails when docker fails it.
StopReleases == ret # "missing"

\* The promise, with the container as the worker.
Worker(i) == IF i \notin Ids THEN "none"
             ELSE IF i \notin ran THEN "none"
             ELSE IF i \in Running THEN "working" ELSE "ended"
Promise == INSTANCE RelayerPromise WITH
             claimed <- lifecycle # NoLifecycle, worker <- Worker(lifecycle)
KeepsPromise == Promise!Spec

=============================================================================
