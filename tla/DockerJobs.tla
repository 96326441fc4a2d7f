------------------------------ MODULE DockerJobs ------------------------------
(***************************************************************************)
(* dockerutil: what a test does with docker besides its long-lived         *)
(* containers.  Goroutines of the test run one-shot jobs, a command in an  *)
(* image or a file put into or read from a volume, each in a container of  *)
(* its own.  DockerSetup and the cleanup it registers remove by label what *)
(* jobs and interrupted earlier runs of the same test left behind.         *)
(*                                                                         *)
(* The test process may die at any point and be run again; docker's state  *)
(* survives it.  A docker call may fail, and one that fails may have       *)
(* worked.  A job whose context is done sees its next calls fail, and the   *)
(* wait for its container end.  All containers carry the label of one test. *)
(***************************************************************************)
EXTENDS Naturals, FiniteSets, Sequences

CONSTANTS
  Callers,        \* goroutines that run jobs
  KindsOf,        \* [Callers -> kinds of jobs it runs]
  Names,          \* names RandLowerCaseLetterString may give an image job
  MaxRuns,        \* bound on the runs of the test process
  MaxContainers,  \* [1 .. MaxRuns -> bound on the containers ever created]
  KeepContainers, \* runs with KEEP_CONTAINERS set
  KeepVolumesOnFailure,
  None

ASSUME JobsAssumption ==
  /\ Callers # {} /\ Names # {} /\ None \notin Callers \cup Names
  /\ MaxRuns \in Nat \ {0} /\ MaxContainers \in [1 .. MaxRuns -> Nat]
  /\ KeepContainers \subseteq 1 .. MaxRuns /\ KeepVolumesOnFailure \in BOOLEAN

Runs == 1 .. MaxRuns
Ids  == UNION {1 .. MaxContainers[r] : r \in Runs}

\* The steps of each kind of job when all goes well.
ImageStart        == <<"pull", "names", "create", "start">>
Wait              == <<"wait", "waiting", "logs", "stop">>
Run               == ImageStart \o Wait
WriteFile         == <<"lock", "create", "copy", "start", "wait", "waiting">>
RelayerWriteFile  == <<"lock", "create", "copy", "start", "wait", "waiting">>
SetVolumeOwner    == <<"lock", "create", "start", "wait", "waiting">>
SingleFileContent == <<"lock", "create", "copyfrom">>

StepsOf == [run |-> Run, write |-> WriteFile, relayer |-> RelayerWriteFile,
            owner |-> SetVolumeOwner, read |-> SingleFileContent]
Kinds   == DOMAIN StepsOf

ASSUME KindsAssumption == KindsOf \in [Callers -> SUBSET Kinds]

VARIABLES
  run, phase,   \* which run of the test process, and where its main goroutine is
  eager,        \* the cleanup under way is DockerSetup's, not the registered one
  failed,       \* t.Failed()
  todo,         \* containers the cleanup has still to visit
  missed,       \* a docker call of the last cleanup failed
  box,          \* [Ids -> container]
  vols, nets,   \* runs whose volumes, whose network docker has
  job,          \* [Callers -> the job under way]
  mu, has,      \* ensureBusyboxMu, hasBusybox
  image         \* docker has busybox

procVars  == <<run, phase, eager, failed, todo, missed>>
cleanVars == <<run, eager, failed>>
busyVars  == <<mu, has, image>>
vars      == <<procVars, box, vols, nets, job, busyVars>>

NoContainer == [state |-> "none", run |-> 1, name |-> None, kind |-> "run",
                code |-> 0, ret |-> "busy", refused |-> FALSE]
IdleJob     == [pc |-> "idle", kind |-> "run", name |-> None, found |-> {}, id |-> 0, ret |-> "none"]

Init ==
  /\ run = 1 /\ phase = "list" /\ eager = TRUE /\ failed = FALSE
  /\ todo = {} /\ missed = FALSE
  /\ box = [i \in Ids |-> NoContainer]
  /\ vols = {} /\ nets = {}
  /\ job = [c \in Callers |-> IdleJob]
  /\ mu = None /\ has = FALSE /\ image \in BOOLEAN

Existing == {i \in Ids : box[i].state \in {"created", "running", "exited"}}
Running  == {i \in Ids : box[i].state = "running"}
\* Containers are numbered in the order of their creation.
Fresh    == {i \in 1 .. MaxContainers[run] : box[i].state = "none" /\ \A j \in 1 .. i - 1 : box[j].state # "none"}

\* File jobs have docker remove their container when it exits.
AutoRemove(i) == box[i].kind # "run"

\* Of a container that is gone only the code and the result of its job count.
Remains(b) == [NoContainer EXCEPT !.state = "gone", !.code = b.code, !.ret = b.ret]

\* Removal by force kills the process; a waiter then gets a non-zero code.
Gone(i) == [box EXCEPT ![i] = [Remains(@) EXCEPT !.code = IF i \in Running THEN 1 ELSE box[i].code]]

\* The step of a job of kind k after p.
After(k, p) == LET s == StepsOf[k] IN s[1 + CHOOSE n \in DOMAIN s : s[n] = p]

At(c, p) == job[c].pc = p
Goto(c, p) == job' = [job EXCEPT ![c].pc = p]
Calls(c) == UNCHANGED <<procVars, vols, nets>>

\* The job of c ends with r, boxes being b otherwise.
ReturnWith(c, r, b) ==
  /\ job' = [job EXCEPT ![c] = IdleJob]
  /\ box' = IF job[c].id = 0 THEN b ELSE [b EXCEPT ![job[c].id].ret = r]
Return(c, r) == ReturnWith(c, r, box)

\* A file job that has its container leaves through the deferred removal, an
\* image job as it is.
Leave(c, r, b) ==
  IF job[c].kind = "run" THEN ReturnWith(c, r, b)
  ELSE job' = [job EXCEPT ![c].pc = "defer", ![c].ret = r] /\ box' = b

-----------------------------------------------------------------------------
(* Jobs. *)

\* A volume is created right before its owner is set.
Begin(c, k) ==
  /\ phase = "ready" /\ At(c, "idle") /\ Fresh # {}
  /\ job' = [job EXCEPT ![c] = [IdleJob EXCEPT !.pc = Head(StepsOf[k]), !.kind = k]]
  /\ vols' = IF k = "owner" THEN vols \cup {run} ELSE vols
  /\ UNCHANGED <<procVars, box, nets, busyVars>>

EnsurePulled(c) ==
  /\ At(c, "pull")
  /\ \/ Goto(c, "names") /\ UNCHANGED box
     \/ Return(c, "docker")
  /\ Calls(c) /\ UNCHANGED busyVars

(* ensureBusybox. *)

\* A mutant: the flag is read without the mutex.
LockAnyTime(c) ==
  /\ At(c, "lock")
  /\ IF has THEN Goto(c, "create") /\ UNCHANGED mu ELSE Goto(c, "images") /\ mu' = c
  /\ Calls(c) /\ UNCHANGED <<box, has, image>>

Lock(c) ==
  /\ At(c, "lock") /\ mu = None
  /\ IF has THEN Goto(c, "create") /\ UNCHANGED mu ELSE Goto(c, "images") /\ mu' = c
  /\ Calls(c) /\ UNCHANGED <<box, has, image>>

\* A mutant: the mutex is not given back with an error.
ListImagesKeepsLock(c) ==
  /\ At(c, "images")
  /\ \/ image /\ has' = TRUE /\ mu' = None /\ Goto(c, "create") /\ UNCHANGED box
     \/ ~image /\ Goto(c, "pullbusybox") /\ UNCHANGED <<box, mu, has>>
     \/ Return(c, "docker") /\ UNCHANGED <<mu, has>>
  /\ Calls(c) /\ UNCHANGED image

ListImages(c) ==
  /\ At(c, "images")
  /\ \/ image /\ has' = TRUE /\ mu' = None /\ Goto(c, "create") /\ UNCHANGED box
     \/ ~image /\ Goto(c, "pullbusybox") /\ UNCHANGED <<box, mu, has>>
     \/ Return(c, "docker") /\ mu' = None /\ UNCHANGED has
  /\ Calls(c) /\ UNCHANGED image

\* ImagePull answers with a stream, whose errors and early end are ignored.
PullBusybox(c) ==
  /\ At(c, "pullbusybox") /\ mu' = None
  /\ \/ /\ has' = TRUE /\ Goto(c, "create")
        /\ image' \in BOOLEAN /\ UNCHANGED box
     \/ Return(c, "docker") /\ UNCHANGED <<has, image>>
  /\ Calls(c)

(* createContainer of an image job: its random name may be taken. *)

ListNames(c) ==
  /\ At(c, "names")
  /\ \/ /\ \E n \in Names :
             LET found == {i \in Existing : box[i].name = n}
             IN job' = [job EXCEPT ![c].name = n, ![c].found = found,
                                   ![c].pc = IF found = {} THEN "create" ELSE "remove"]
        /\ UNCHANGED box
     \/ Return(c, "docker")
  /\ Calls(c) /\ UNCHANGED busyVars

\* What has the name is removed, be it of a job under way; what is gone in the
\* meantime is an error.
RemoveFound(c) ==
  /\ At(c, "remove")
  /\ \E i \in job[c].found :
       \/ /\ i \in Existing
          /\ box' = Gone(i)
          /\ job' = [job EXCEPT ![c].found = @ \ {i},
                                ![c].pc = IF job[c].found = {i} THEN "create" ELSE "remove"]
       \/ i \in Existing /\ ReturnWith(c, "docker", Gone(i))
       \/ Return(c, "docker")
  /\ Calls(c) /\ UNCHANGED busyVars

CreateContainer(c) ==
  /\ At(c, "create")
  /\ \/ \E i \in Fresh :
          LET j    == job[c]
              made == [box EXCEPT ![i] = [NoContainer EXCEPT !.state = "created", !.run = run,
                                                             !.name = j.name, !.kind = j.kind]]
          IN /\ IF j.kind = "run" THEN \A e \in Existing : box[e].name # j.name ELSE image
             /\ \/ box' = made /\ job' = [job EXCEPT ![c].id = i, ![c].pc = After(j.kind, "create")]
                \/ ReturnWith(c, "docker", [made EXCEPT ![i].ret = "docker"])
     \/ Return(c, "docker")
  /\ Calls(c) /\ UNCHANGED busyVars

CopyToContainer(c) ==
  /\ At(c, "copy")
  /\ \/ job[c].id \in Existing /\ Goto(c, "start") /\ UNCHANGED box
     \/ Leave(c, "docker", box)
  /\ Calls(c) /\ UNCHANGED busyVars

CopyFromContainer(c) ==
  /\ At(c, "copyfrom")
  /\ \/ job[c].id \in Existing /\ Leave(c, "ok", box)
     \/ Leave(c, "docker", box)
  /\ Calls(c) /\ UNCHANGED busyVars

StartContainer(c) ==
  /\ At(c, "start")
  /\ LET i == job[c].id
         started == [box EXCEPT ![i].state = "running"]
     IN \/ i \in Existing /\ box' = started /\ Goto(c, "wait")
        \/ i \in Existing /\ Leave(c, "docker", started)
        \/ Leave(c, "docker", box)
  /\ Calls(c) /\ UNCHANGED busyVars

\* ContainerWait must still find the container, which may have come to its
\* end, and with AutoRemove be gone, since it was started.
ContainerWait(c) ==
  /\ At(c, "wait")
  /\ \/ job[c].id \in Existing /\ Goto(c, "waiting") /\ UNCHANGED box
     \/ Leave(c, "wait", box)
  /\ Calls(c) /\ UNCHANGED busyVars

\* A mutant: the exit code is not looked at.
OutcomeAnyCode(i) == "ok"

Outcome(i) == IF box[i].code = 0 THEN "ok" ELSE "exit"

\* The select over the context, docker's error and the exit.
Waited(c) ==
  /\ At(c, "waiting")
  /\ LET i == job[c].id
     IN \/ /\ i \notin Running
           /\ IF job[c].kind = "run" THEN Goto(c, "logs") /\ UNCHANGED box ELSE Return(c, Outcome(i))
        \/ i \notin Running /\ Return(c, "wait")   \* res.Error
        \/ Leave(c, "wait", box)
        \/ Leave(c, "ctx", box)
  /\ Calls(c) /\ UNCHANGED busyVars

ContainerLogs(c) ==
  /\ At(c, "logs")
  /\ \/ job[c].id \in Existing /\ Goto(c, "stop") /\ UNCHANGED box
     \/ Return(c, "logs")
  /\ Calls(c) /\ UNCHANGED busyVars

\* Container.Stop, with a context of its own.  Its error is only logged.
StopAndRemove(c) ==
  /\ At(c, "stop")
  /\ \/ ReturnWith(c, Outcome(job[c].id), Gone(job[c].id))
     \/ ReturnWith(c, Outcome(job[c].id), [box EXCEPT ![job[c].id].refused = TRUE])
  /\ Calls(c) /\ UNCHANGED busyVars

\* The deferred removal of a file job, with the context of the job.
DeferredRemove(c) ==
  /\ At(c, "defer")
  /\ \/ job[c].ret # "ctx" /\ ReturnWith(c, job[c].ret, Gone(job[c].id))
     \/ Return(c, job[c].ret)
  /\ Calls(c) /\ UNCHANGED busyVars

JobStep(c) ==
  \/ EnsurePulled(c) \/ ListImages(c) \/ PullBusybox(c)
  \/ ListNames(c) \/ RemoveFound(c) \/ CreateContainer(c)
  \/ CopyToContainer(c) \/ CopyFromContainer(c)
  \/ StartContainer(c) \/ ContainerWait(c) \/ Waited(c)
  \/ ContainerLogs(c) \/ StopAndRemove(c) \/ DeferredRemove(c)

-----------------------------------------------------------------------------
(* DockerSetup and dockerCleanup. *)

CleanupVars == UNCHANGED <<cleanVars, job, busyVars>>

\* A mutant: only containers that run are listed.
CleanListRunning ==
  /\ phase = "list"
  /\ \/ todo' = Running /\ missed' = FALSE /\ phase' = IF run \in KeepContainers THEN "cleaned" ELSE "containers"
     \/ todo' = {} /\ missed' = TRUE /\ phase' = "cleaned"
  /\ CleanupVars /\ UNCHANGED <<box, vols, nets>>

\* By label, running or not.  Without the list nothing is cleaned.
CleanList ==
  /\ phase = "list"
  /\ \/ /\ phase' = IF run \in KeepContainers THEN "cleaned" ELSE "containers"
        /\ todo' = (IF run \in KeepContainers THEN {} ELSE Existing) /\ missed' = FALSE
     \/ todo' = {} /\ missed' = TRUE /\ phase' = "cleaned"
  /\ CleanupVars /\ UNCHANGED <<box, vols, nets>>

\* ContainerStop, ContainerWait and ContainerRemove; errors are only logged.
CleanContainer(i) ==
  /\ phase = "containers" /\ i \in todo
  /\ todo' = todo \ {i}
  /\ \/ box' = Gone(i) /\ UNCHANGED missed
     \/ /\ i \in Existing /\ missed' = TRUE
        /\ box' \in {box, IF i \in Running
                          THEN [box EXCEPT ![i].state = "exited", ![i].code = 1] ELSE box}
  /\ CleanupVars /\ UNCHANGED <<phase, vols, nets>>

\* pruneVolumesWithRetry
PruneVolumes ==
  /\ phase = "containers" /\ todo = {} /\ phase' = "networks"
  /\ \/ vols' = (IF KeepVolumesOnFailure /\ failed THEN vols ELSE {}) /\ UNCHANGED missed
     \/ ~(KeepVolumesOnFailure /\ failed) /\ missed' = TRUE /\ UNCHANGED vols
  /\ CleanupVars /\ UNCHANGED <<todo, box, nets>>

\* pruneNetworksWithRetry.  Docker keeps networks a container is attached to.
PruneNetworks ==
  /\ phase = "networks" /\ phase' = "cleaned"
  /\ \/ /\ nets' = {r \in nets : \E i \in Existing : box[i].kind = "run" /\ box[i].run = r}
        /\ UNCHANGED missed
     \/ missed' = TRUE /\ UNCHANGED nets
  /\ CleanupVars /\ UNCHANGED <<todo, box, vols>>

\* DockerSetup's last call.  It panics without a network; the cleanup it
\* registered runs all the same.
NetworkCreate ==
  /\ phase = "cleaned" /\ eager /\ eager' = FALSE /\ missed' = FALSE
  /\ \/ phase' = "ready" /\ nets' = nets \cup {run} /\ UNCHANGED failed
     \/ phase' = "list" /\ failed' = TRUE /\ UNCHANGED nets
  /\ UNCHANGED <<run, todo, box, vols, job, busyVars>>

CleanedUp ==
  /\ phase = "cleaned" /\ ~eager /\ phase' = "ended"
  /\ UNCHANGED <<cleanVars, todo, missed, box, vols, nets, job, busyVars>>

-----------------------------------------------------------------------------
(* The environment. *)

\* The test function returns, all its goroutines done.
EndTest ==
  /\ phase = "ready" /\ \A c \in Callers : At(c, "idle")
  /\ failed' \in BOOLEAN /\ phase' = "list"
  /\ UNCHANGED <<run, eager, todo, missed, box, vols, nets, job, busyVars>>

\* The test process is interrupted, or is over, and run once more.
RunAgain ==
  /\ run < MaxRuns /\ run' = run + 1
  /\ phase' = "list" /\ eager' = TRUE /\ failed' = FALSE
  /\ todo' = {} /\ missed' = FALSE
  /\ box' = [i \in Ids |-> IF i \in Existing
                           THEN [box[i] EXCEPT !.code = 0, !.ret = "killed", !.refused = FALSE]
                           ELSE [NoContainer EXCEPT !.state = box[i].state]]
  /\ job' = [c \in Callers |-> IdleJob]
  /\ mu' = None /\ has' = FALSE
  /\ UNCHANGED <<vols, nets, image>>

Exit(i) ==
  /\ i \in Running
  /\ \E code \in {0, 1} : box' = [box EXCEPT ![i].state = "exited", ![i].code = code]
  /\ UNCHANGED <<procVars, vols, nets, job, busyVars>>

\* Docker removes what has exited with AutoRemove.
RemoveExited(i) ==
  /\ box[i].state = "exited" /\ AutoRemove(i) /\ box' = Gone(i)
  /\ UNCHANGED <<procVars, vols, nets, job, busyVars>>

Cleanup ==
  \/ CleanList \/ PruneVolumes \/ PruneNetworks \/ NetworkCreate \/ CleanedUp
  \/ \E i \in Ids : CleanContainer(i)

Environment ==
  \/ EndTest \/ RunAgain
  \/ \E i \in Ids : Exit(i) \/ RemoveExited(i)

Next ==
  \/ \E c \in Callers : JobStep(c) \/ Lock(c) \/ \E k \in KindsOf[c] : Begin(c, k)
  \/ Cleanup \/ Environment

Spec == Init /\ [][Next]_vars

\* Every docker call returns, a command comes to its end, and a sync.Mutex
\* lets nobody starve.
FairSpec ==
  /\ Spec
  /\ \A c \in Callers : WF_vars(JobStep(c)) /\ SF_vars(Lock(c))
  /\ \A i \in Ids : WF_vars(Exit(i))

-----------------------------------------------------------------------------
(* Properties. *)

Steps == {"idle", "pull", "lock", "images", "pullbusybox", "names", "remove", "create",
          "copy", "copyfrom", "start", "wait", "waiting", "logs", "stop", "defer"}
Outcomes == {"none", "ok", "exit", "docker", "wait", "ctx", "logs"}

\* Every variable stays in its domain, and the mutex is held exactly by the
\* goroutine that looks for the image.
TypeOK ==
  /\ run \in Runs /\ phase \in {"list", "containers", "networks", "cleaned", "ready", "ended"}
  /\ {eager, failed, missed, has, image} \subseteq BOOLEAN
  /\ todo \subseteq Ids /\ vols \subseteq Runs /\ nets \subseteq Runs
  /\ box \in [Ids -> [state : {"none", "created", "running", "exited", "gone"}, run : Runs,
                      name : Names \cup {None}, kind : Kinds, code : {0, 1},
                      ret : Outcomes \cup {"busy", "killed"}, refused : BOOLEAN]]
  /\ job \in [Callers -> [pc : Steps, kind : Kinds, name : Names \cup {None},
                          found : SUBSET Ids, id : Ids \cup {0},
                          ret : Outcomes]]
  /\ \A c \in Callers : job[c].pc \in {"images", "pullbusybox"} <=> mu = c

\* What a job's result says is so, whatever other jobs, name collisions and
\* docker's own removals do to its container: "ok" is a command that ran to its
\* end with code 0; after a result with an exit code nothing of the job runs on,
\* and its container is removed unless docker refused that.  Only a job whose
\* start, wait, logs or context failed leaves an image's container behind.
JobOutcome ==
  /\ \A i \in Ids :
       /\ box[i].ret = "ok" => box[i].code = 0
       /\ box[i].ret = "ok" /\ box[i].state = "created" => box[i].kind = "read"
       /\ i \in Running => box[i].ret \notin {"ok", "exit", "logs"}
       /\ i \in Existing /\ ~AutoRemove(i) /\ box[i].ret \in {"ok", "exit"} => box[i].refused

\* When DockerSetup returns, nothing an earlier run of the test left in docker
\* is there any more, at whatever point it died; and when a test is over nothing
\* of it is, but the volumes kept of a failed one.  That is, if no docker call of
\* the cleanup failed and KEEP_CONTAINERS is not set.
CleanSlate ==
  [][~missed /\ run \notin KeepContainers =>
       /\ phase # "ready" /\ phase' = "ready" => Existing = {} /\ vols = {} /\ nets' = {run}
       /\ phase # "ended" /\ phase' = "ended" =>
            Existing = {} /\ nets = {} /\ (vols = {} \/ (KeepVolumesOnFailure /\ failed))]_vars

\* Every job comes to its end: no caller waits for the busybox mutex for ever,
\* whichever call fails with it locked.
JobsReturn == \A c \in Callers : ~At(c, "idle") ~> At(c, "idle")

=============================================================================
