-------------------------- MODULE DockerutilProofs --------------------------
(***************************************************************************)
(* Proofs about the two modules of dockerutil: ContainerPorts, for any set *)
(* of containers, any port sets and any finite set of host ports, and      *)
(* DockerJobs, for any goroutines, jobs, names and runs and any number of  *)
(* containers.                                                             *)
(***************************************************************************)
EXTENDS ContainerPorts, DockerJobs, SequenceTheorems, TLAPS

-----------------------------------------------------------------------------
(* ContainerPorts.                                                         *)

\* What a container has a claim on: its listeners and, once it runs or is
\* being started, the ports in its bindings.
Held(c) == opened[c] \cup listeners[c]
           \cup (IF docker[c] = "running" \/ pc[c] = "start" THEN bindings[c] ELSE {})

\* mu is held as the goroutines' places say.
LockInv ==
  /\ readers = {c \in Containers : pc[c] \in {"close", "start"}}
  /\ \A c \in Containers : pc[c] = "listen" <=> writer = c

\* A caller starts the container it has created; listeners of one that runs are
\* those of a creation under way.
PlaceInv ==
  \A c \in Containers :
    /\ pc[c] \in {"ready", "rlock", "close", "start"} => docker[c] = "created"
    /\ pc[c] \notin {"ports", "listen"} => opened[c] = {}
    /\ pc[c] = "start" => listeners[c] = {}
    /\ docker[c] = "running" => listeners[c] = {} \/ pc[c] = "create"

\* No port is claimed twice.
HeldInv ==
  /\ \A c \in Containers : opened[c] \cap listeners[c] = {} /\ Held(c) \cap orphans = {}
  /\ \A c, d \in Containers : c # d => Held(c) \cap Held(d) = {}

PortsInv == PortsTypeOK /\ LockInv /\ PlaceInv /\ PortsReserved /\ HeldInv

\* A port is in use if a dropped listener, a listener of a container or a
\* running container has it.
LEMMA InUseDef ==
  ASSUME NEW p
  PROVE  p \in InUse <=> \/ p \in orphans
                         \/ \E d \in Containers : p \in opened[d] \/ p \in listeners[d]
                         \/ \E d \in Containers : docker[d] = "running" /\ p \in bindings[d]
<1>1. p \in Listening <=> \/ p \in orphans
                          \/ \E d \in Containers : p \in opened[d] \/ p \in listeners[d]
  BY Zenon DEF Listening
<1>2. p \in Bound <=> \E d \in Containers : docker[d] = "running" /\ p \in bindings[d]
  BY Zenon DEF Bound
<1> QED
  BY <1>1, <1>2, Zenon DEF InUse

\* The invariant holds at first.
LEMMA PortsInvInit == PortsInit => PortsInv
  BY PortsAssumption
  DEF PortsInit, PortsInv, PortsTypeOK, Places, LockInv, PlaceInv, PortsReserved, HeldInv, Held

\* Every step of every goroutine keeps the invariant.
LEMMA PortsInvNext == PortsInv /\ [PortsNext]_portVars => PortsInv'
<1> SUFFICES ASSUME PortsInv, [PortsNext]_portVars PROVE PortsInv'
  OBVIOUS
<1> USE PortsAssumption
<1> USE DEF PortsInv, PortsTypeOK, Places, LockInv, PlaceInv, PortsReserved, HeldInv, Held
<1>1. ASSUME NEW c \in Containers, Create(c) PROVE PortsInv'
  BY <1>1 DEF Create
<1>2. ASSUME NEW c \in Containers, LockPorts(c) PROVE PortsInv'
  BY <1>2 DEF LockPorts
<1>3. ASSUME NEW c \in Containers, OpenListener(c) PROVE PortsInv'
  <2>1. \A d \in Containers : pc[d] \notin {"close", "start"}
    BY <1>3 DEF OpenListener
  <2>2. CASE opened' = [opened EXCEPT ![c] = {}] /\ Unlock(c, "idle")
    BY <1>3, <2>1, <2>2 DEF OpenListener, Unlock
  <2>3. ASSUME NEW p \in Ports \ InUse,
               opened' = [opened EXCEPT ![c] = @ \cup {p}], Unlock(c, "ports")
        PROVE  PortsInv'
    <3>1. /\ p \notin orphans
          /\ \A d \in Containers : p \notin Held(d)
      BY <2>1, <2>3, InUseDef
    <3>2. (PortsTypeOK /\ LockInv /\ PlaceInv /\ PortsReserved)'
      BY <1>3, <2>1, <2>3 DEF OpenListener, Unlock
    <3>3. /\ Held(c)' \subseteq Held(c) \cup {p}
          /\ \A d \in Containers \ {c} : Held(d)' = Held(d)
      BY <1>3, <2>1, <2>3 DEF OpenListener, Unlock
    <3>4. HeldInv'
      BY <1>3, <3>1, <3>3, <2>3 DEF OpenListener
    <3> QED
      BY <3>2, <3>4
  <2> QED
    BY <1>3, <2>2, <2>3 DEF OpenListener
<1>4. ASSUME NEW c \in Containers, KeepListeners(c) \/ CreateInDocker(c) \/ GiveUp(c) PROVE PortsInv'
  <2>1. CASE KeepListeners(c)
    <3>1. (PortsTypeOK /\ LockInv /\ PlaceInv /\ PortsReserved)'
      BY <2>1 DEF KeepListeners
    <3>2. /\ Held(c)' \subseteq Held(c) /\ orphans' = orphans \cup listeners[c]
          /\ Held(c)' \cap listeners[c] = {} /\ listeners[c] \subseteq Held(c)
          /\ \A d \in Containers \ {c} : Held(d)' = Held(d)
      BY <2>1 DEF KeepListeners
    <3>3. HeldInv'
      BY <2>1, <3>2 DEF KeepListeners
    <3> QED
      BY <3>1, <3>3
  <2>2. CASE CreateInDocker(c)
    BY <2>2 DEF CreateInDocker
  <2>3. CASE GiveUp(c)
    BY <2>3 DEF GiveUp
  <2> QED
    BY <1>4, <2>1, <2>2, <2>3
<1>5. ASSUME NEW c \in Containers, Start(c) PROVE PortsInv'
  BY <1>5 DEF Start
<1>6. ASSUME NEW c \in Containers, CloseListeners(c) PROVE PortsInv'
  BY <1>6 DEF CloseListeners
<1>7. ASSUME NEW c \in Containers, StartInDocker(c) PROVE PortsInv'
  BY <1>7 DEF StartInDocker
<1>8. ASSUME NEW c \in Containers, Stop(c) PROVE PortsInv'
  BY <1>8 DEF Stop
<1>9. ASSUME NEW c \in Containers, Remove(c) PROVE PortsInv'
  BY <1>9 DEF Remove
<1>10. ASSUME NEW p \in Ports, Finalize(p) PROVE PortsInv'
  BY <1>10 DEF Finalize
<1>11. CASE UNCHANGED portVars
  BY <1>11 DEF portVars
<1> QED
  BY <1>1, <1>2, <1>3, <1>4, <1>5, <1>6, <1>7, <1>8, <1>9, <1>10, <1>11, Zenon
  DEF PortsNext, Step

\* The invariant is one.
LEMMA PortsInvariance == PortsSpec => []PortsInv
  BY PortsInvInit, PortsInvNext, PTL DEF PortsSpec

\* Every variable stays in its domain.
THEOREM PortsTypeCorrect == PortsSpec => []PortsTypeOK
<1>1. PortsInv => PortsTypeOK
  BY DEF PortsInv
<1> QED
  BY <1>1, PortsInvariance, PTL

\* From the creation that made a container until its caller's StartContainer
\* closes them, the container's own listeners keep the ports of its bindings.
THEOREM ReservationHolds == PortsSpec => []PortsReserved
<1>1. PortsInv => PortsReserved
  BY DEF PortsInv
<1> QED
  BY <1>1, PortsInvariance, PTL

\* Whenever StartContainer has docker start a container, docker can bind every
\* port of its bindings, whatever the other goroutines of the process do.
THEOREM NoConflict == PortsSpec => []NoPortConflict
<1>1. PortsInv => NoPortConflict
  <2> SUFFICES ASSUME PortsInv, NEW c \in Containers, pc[c] = "start",
                      NEW p \in bindings[c], p \in InUse
               PROVE  FALSE
    BY DEF NoPortConflict, CanBind
  <2>1. /\ p \in Held(c) /\ opened[c] = {} /\ listeners[c] = {} /\ docker[c] # "running"
    BY DEF Held, PortsInv, PlaceInv
  <2>2. p \notin orphans
    BY <2>1 DEF PortsInv, HeldInv
  <2>3. \A d \in Containers \ {c} : p \notin Held(d)
    BY <2>1 DEF PortsInv, HeldInv
  <2> QED
    BY <2>1, <2>2, <2>3, InUseDef DEF Held
<1> QED
  BY <1>1, PortsInvariance, PTL

\* Two containers that run, or whose caller has created them and goes on to start
\* them, never share a port, although names are created again and again.
THEOREM Disjointness == PortsSpec => []PortsDisjoint
<1>1. PortsInv => PortsDisjoint
  <2> SUFFICES ASSUME PortsInv, NEW c \in Containers, NEW d \in Containers, c # d,
                      c \in Claims, d \in Claims
               PROVE  bindings[c] \cap bindings[d] = {}
    BY DEF PortsDisjoint, Claims
  <2>1. bindings[c] \subseteq Held(c) /\ bindings[d] \subseteq Held(d)
    BY DEF PortsInv, PortsReserved, Held, Claims
  <2> QED
    BY <2>1 DEF PortsInv, HeldInv
<1> QED
  BY <1>1, PortsInvariance, PTL

\* Both, as the run states them.
THEOREM Safety == PortsSpec => []PortsSafe
<1>1. NoPortConflict /\ PortsDisjoint => PortsSafe
  BY DEF PortsSafe
<1> QED
  BY <1>1, NoConflict, Disjointness, PTL

-----------------------------------------------------------------------------
(* DockerJobs.                                                             *)

Box == [state : {"none", "created", "running", "exited", "gone"}, run : Runs,
        name : Names \cup {None}, kind : Kinds, code : {0, 1},
        ret : Outcomes \cup {"busy", "killed"}, refused : BOOLEAN]
Job == [pc : Steps, kind : Kinds, name : Names \cup {None}, found : SUBSET Ids,
        id : Ids \cup {0}, ret : Outcomes]

\* Where a job has no container yet, and where jobs of each kind go.
Early == {"idle", "pull", "lock", "images", "pullbusybox", "names", "remove", "create"}
PlacesOf(k) ==
  CASE k = "run"   -> {"idle", "pull", "names", "remove", "create", "start", "wait", "waiting", "logs", "stop"}
    [] k = "read"  -> {"lock", "images", "pullbusybox", "create", "copyfrom", "defer"}
    [] k = "owner" -> {"lock", "images", "pullbusybox", "create", "start", "wait", "waiting", "defer"}
    [] OTHER       -> {"lock", "images", "pullbusybox", "create", "copy", "start", "wait", "waiting", "defer"}

\* The container b that a job j has: it has the job's kind while docker has it,
\* is started by the job only, and has no result before the job has.
Has(j, b) ==
  /\ b.ret = "busy" /\ b.state # "none"
  /\ b.state # "gone" => b.kind = j.kind
  /\ j.pc \in {"copy", "copyfrom", "start"} => b.state \in {"created", "gone"} /\ b.code = 0
  /\ j.pc \in {"wait", "waiting"} => b.state # "created"
  /\ j.pc \in {"logs", "stop"} => b.state \in {"exited", "gone"}
  /\ j.pc = "defer" /\ j.ret = "ok" => j.kind = "read" /\ b.state \in {"created", "gone"} /\ b.code = 0

\* A job j is where jobs of its kind go, and has a container from its creation on.
JobOK(j, boxes) ==
  /\ j.pc \in PlacesOf(j.kind)
  /\ j.id = 0 <=> j.pc \in Early
  /\ j.pc = "defer" => j.ret \in {"ok", "docker", "wait", "ctx"}
  /\ j.id # 0 => Has(j, boxes[j.id])

\* No two jobs share a container.
JobInv ==
  /\ \A c \in Callers : JobOK(job[c], box)
  /\ \A c, d \in Callers : c # d /\ job[c].id = job[d].id => job[c].id = 0

\* What JobOutcome says of a container, and that one which never ran has code 0.
OutcomeOf(b) ==
  /\ b.ret = "ok" => b.code = 0
  /\ b.ret = "ok" /\ b.state = "created" => b.kind = "read"
  /\ b.state = "running" => b.ret \notin {"ok", "exit", "logs"}
  /\ b.state \in {"created", "running", "exited"} /\ b.kind = "run" /\ b.ret \in {"ok", "exit"} => b.refused
  /\ b.state = "created" => b.code = 0

BoxInv == \A i \in Ids : OutcomeOf(box[i])

\* Jobs run while the test does, and DockerSetup returns to a test that has not
\* failed.
QuietInv ==
  /\ phase # "ready" => \A c \in Callers : job[c].pc = "idle"
  /\ eager => ~failed /\ phase \notin {"ready", "ended"}

\* What a cleanup that misses nothing has removed, phase by phase.
CleanInv ==
  ~missed /\ run \notin KeepContainers =>
    /\ phase = "containers" => Existing \subseteq todo
    /\ phase \in {"networks", "cleaned"} =>
         Existing = {} /\ (vols = {} \/ (KeepVolumesOnFailure /\ failed))
    /\ phase = "cleaned" => nets = {}

IInv == TypeOK /\ JobInv /\ BoxInv /\ QuietInv /\ CleanInv

\* Containers are numbered from 1, and no kind of job is without its place.
LEMMA Constants ==
  /\ None \notin Callers /\ 0 \notin Ids /\ 1 \in Runs /\ Runs \subseteq Nat
  /\ \A r \in Runs : 1 .. MaxContainers[r] \subseteq Ids
  /\ Kinds = {"run", "write", "relayer", "owner", "read"}
<1>1. \A r \in Runs : MaxContainers[r] \in Nat
  BY JobsAssumption DEF Runs
<1>2. Kinds = {"run", "write", "relayer", "owner", "read"}
  BY DEF Kinds, StepsOf
<1>3. 0 \notin Ids /\ \A r \in Runs : 1 .. MaxContainers[r] \subseteq Ids
  BY <1>1 DEF Ids
<1> QED
  BY <1>2, <1>3, JobsAssumption DEF Runs

\* The first step of a job, and the one after the creation of its container.
LEMMA StepFacts ==
  /\ \A k \in Kinds : Head(StepsOf[k]) = IF k = "run" THEN "pull" ELSE "lock"
  /\ \A k \in Kinds : After(k, "create") = CASE k \in {"run", "owner"} -> "start"
                                              [] k = "read" -> "copyfrom"
                                              [] OTHER -> "copy"
<1> DEFINE a == <<"pull", "names", "create", "start">>
           b == <<"wait", "waiting", "logs", "stop">>
<1>1. a \in Seq(Steps) /\ b \in Seq(Steps) /\ Len(a) = 4 /\ Len(b) = 4
  BY DEF Steps
<1>2. /\ Run \in Seq(Steps) /\ Len(Run) = 8
      /\ \A i \in 1 .. 8 : Run[i] = IF i <= 4 THEN a[i] ELSE b[i - 4]
  <2> HIDE DEF a, b
  <2>1. Run = a \o b
    BY DEF Run, ImageStart, Wait, a, b
  <2>2. /\ Run \in Seq(Steps) /\ Len(Run) = Len(a) + Len(b)
        /\ \A i \in 1 .. Len(a) + Len(b) : Run[i] = IF i <= Len(a) THEN a[i] ELSE b[i - Len(a)]
    BY <1>1, <2>1, ConcatProperties
  <2> QED
    BY <1>1, <2>2
<1>3. /\ DOMAIN Run = 1 .. 8 /\ Run[1] = "pull" /\ Run[2] = "names" /\ Run[3] = "create" /\ Run[4] = "start"
      /\ Run[5] = "wait" /\ Run[6] = "waiting" /\ Run[7] = "logs" /\ Run[8] = "stop"
  BY <1>2
<1>4. /\ StepsOf["run"] = Run
      /\ StepsOf["write"] = <<"lock", "create", "copy", "start", "wait", "waiting">>
      /\ StepsOf["relayer"] = <<"lock", "create", "copy", "start", "wait", "waiting">>
      /\ StepsOf["owner"] = <<"lock", "create", "start", "wait", "waiting">>
      /\ StepsOf["read"] = <<"lock", "create", "copyfrom">>
  BY DEF StepsOf, WriteFile, RelayerWriteFile, SetVolumeOwner, SingleFileContent
<1>5. \A k \in Kinds : Head(StepsOf[k]) = IF k = "run" THEN "pull" ELSE "lock"
  <2>1. Head(Run) = "pull"
    BY <1>2, <1>3
  <2> QED
    BY <1>4, <2>1, Constants
<1>6. After("run", "create") = "start"
  <2>1. \A n \in 1 .. 8 : Run[n] = "create" <=> n = 3
    <3> TAKE n \in 1 .. 8
    <3>1. n \in {1, 2, 3, 4, 5, 6, 7, 8}
      OBVIOUS
    <3> QED
      BY <1>3, <3>1
  <2>2. (CHOOSE n \in DOMAIN Run : Run[n] = "create") = 3
    BY <1>3, <2>1
  <2> QED
    BY <1>3, <1>4, <2>2 DEF After
<1>7. After("write", "create") = "copy" /\ After("relayer", "create") = "copy"
  BY <1>4 DEF After
<1>8. After("owner", "create") = "start"
  BY <1>4 DEF After
<1>9. After("read", "create") = "copyfrom"
  BY <1>4 DEF After
<1> QED
  BY <1>5, <1>6, <1>7, <1>8, <1>9, Constants

-----------------------------------------------------------------------------
(* What becomes of containers.                                              *)

\* What may become of a container b without the job that has it.
Elsewhere(b, d) ==
  \/ d = b
  \/ d = [Remains(b) EXCEPT !.code = IF b.state = "running" THEN 1 ELSE b.code]
  \/ b.state = "running" /\ \E k \in {0, 1} : d = [b EXCEPT !.state = "exited", !.code = k]
  \/ b.state = "none" /\ OutcomeOf(d)

\* It takes nothing from what the job that has the container needs of it, nor
\* from what its result says.
LEMMA ElsewhereKeeps ==
  ASSUME NEW b \in Box, NEW d \in Box, Elsewhere(b, d)
  PROVE  /\ OutcomeOf(b) => OutcomeOf(d)
         /\ \A j : Has(j, b) => Has(j, d)
<1>1. \/ d = b
      \/ d.state = "gone" /\ d.ret = b.ret /\ d.code = IF b.state = "running" THEN 1 ELSE b.code
      \/ /\ b.state = "running" /\ d.state = "exited" /\ d.ret = b.ret
         /\ d.kind = b.kind /\ d.refused = b.refused
      \/ b.state = "none" /\ OutcomeOf(d)
  BY DEF Elsewhere, Remains, NoContainer, Box
<1>2. OutcomeOf(b) => OutcomeOf(d)
  BY <1>1 DEF OutcomeOf, Box
<1>3. ASSUME NEW j, Has(j, b) PROVE Has(j, d)
  BY <1>1, <1>3 DEF Has, Box
<1> QED
  BY <1>2, <1>3

\* Gone and the exit of a process are such a change, at one container.
LEMMA GoneIsElsewhere ==
  ASSUME box \in [Ids -> Box], NEW i \in Ids
  PROVE  Gone(i) \in [Ids -> Box] /\ \A k \in Ids : Elsewhere(box[k], Gone(i)[k])
<1>1. 1 \in Runs /\ "run" \in Kinds
  BY Constants
<1>2. i \in Running <=> box[i].state = "running"
  BY DEF Running
<1>3. [Remains(box[i]) EXCEPT !.code = IF i \in Running THEN 1 ELSE box[i].code] \in Box
  BY <1>1 DEF Remains, NoContainer, Box, Outcomes
<1> DEFINE d == [Remains(box[i]) EXCEPT !.code = IF i \in Running THEN 1 ELSE box[i].code]
<1>4. Gone(i) = [box EXCEPT ![i] = d]
  BY DEF Gone
<1>5. Elsewhere(box[i], d)
  BY <1>2 DEF Elsewhere
<1> HIDE DEF d
<1> QED
  BY <1>3, <1>4, <1>5 DEF Elsewhere, d

\* A job leaves its container with what may have become of it and the job's result.
LEMMA ResultTyped ==
  ASSUME NEW b \in Box, NEW r \in Outcomes
  PROVE  [b EXCEPT !.ret = r] \in Box
  BY DEF Box

-----------------------------------------------------------------------------
(* What jobs do.                                                            *)

BoxTyped == box \in [Ids -> Box]
JobTyped == job \in [Callers -> Job]
Fetching == {"images", "pullbusybox"}
MutexOK  == \A c \in Callers : job[c].pc \in Fetching <=> mu = c

JobsInv  == BoxTyped /\ JobTyped /\ JobInv /\ BoxInv

\* A step of the job of c leaves it at one of the places S, and is no other's.
Leads(c, S) == JobsInv' /\ job'[c].pc \in S /\ \A d \in Callers \ {c} : job'[d] = job[d]

LEMMA TypeParts ==
  TypeOK <=> /\ run \in Runs /\ phase \in {"list", "containers", "networks", "cleaned", "ready", "ended"}
             /\ {eager, failed, missed, has, image} \subseteq BOOLEAN
             /\ todo \subseteq Ids /\ vols \subseteq Runs /\ nets \subseteq Runs
             /\ BoxTyped /\ JobTyped /\ MutexOK
  BY DEF TypeOK, BoxTyped, JobTyped, MutexOK, Box, Job, Fetching

\* The job of c becomes j, and with it containers that no other job has in a way
\* that matters to it.
LEMMA JobChanges ==
  ASSUME BoxTyped, JobTyped, JobInv, BoxInv, NEW c \in Callers, NEW j \in Job,
         job' = [job EXCEPT ![c] = j], BoxTyped', JobOK(j, box'),
         \A i \in Ids : OutcomeOf(box'[i]),
         \A d \in Callers \ {c} : job[d].id # 0 => /\ job[d].id # j.id
                                                   /\ Elsewhere(box[job[d].id], box'[job[d].id])
  PROVE  JobTyped' /\ JobInv' /\ BoxInv'
<1>1. JobTyped'
  BY DEF JobTyped
<1>2. BoxInv'
  BY DEF BoxInv
<1>3. job'[c] = j /\ \A d \in Callers \ {c} : job'[d] = job[d]
  BY DEF JobTyped
<1>4. ASSUME NEW d \in Callers \ {c} PROVE JobOK(job[d], box')
  <2>1. JobOK(job[d], box) /\ job[d].id \in Ids \cup {0}
    BY DEF JobInv, JobTyped, Job
  <2>2. CASE job[d].id = 0
    BY <2>1, <2>2 DEF JobOK
  <2>3. CASE job[d].id # 0
    <3>1. Has(job[d], box[job[d].id]) /\ job[d].id \in Ids
      BY <2>1, <2>3 DEF JobOK
    <3>2. Has(job[d], box'[job[d].id])
      BY <2>3, <3>1, ElsewhereKeeps DEF BoxTyped
    <3> QED
      BY <2>1, <3>2 DEF JobOK
  <2> QED
    BY <2>2, <2>3
<1>5. \A d \in Callers : JobOK(job'[d], box')
  BY <1>3, <1>4
<1>6. \A d, e \in Callers : d # e /\ job'[d].id = job'[e].id => job'[d].id = 0
  BY <1>3 DEF JobInv
<1> QED
  BY <1>1, <1>2, <1>5, <1>6 DEF JobInv

\* The job goes on, with the container it has.
LEMMA JobMoves ==
  ASSUME BoxTyped, JobTyped, JobInv, BoxInv, NEW c \in Callers, NEW j \in Job,
         job' = [job EXCEPT ![c] = j], box' = box, j.id = job[c].id, JobOK(j, box)
  PROVE  BoxTyped' /\ JobTyped' /\ JobInv' /\ BoxInv'
<1>1. BoxTyped' /\ JobOK(j, box') /\ \A i \in Ids : OutcomeOf(box'[i])
  BY DEF BoxTyped, BoxInv
<1>2. \A d \in Callers \ {c} : job[d].id # 0 => /\ job[d].id # j.id
                                                /\ Elsewhere(box[job[d].id], box'[job[d].id])
  BY DEF JobInv, Elsewhere
<1> QED
  BY <1>1, <1>2, JobChanges

\* The job ends.
LEMMA JobReturns ==
  ASSUME BoxTyped, JobTyped, JobInv, BoxInv, NEW c \in Callers, NEW r \in Outcomes,
         NEW b \in [Ids -> Box], ReturnWith(c, r, b),
         \A i \in Ids : i = job[c].id \/ Elsewhere(box[i], b[i]),
         job[c].id # 0 => OutcomeOf([b[job[c].id] EXCEPT !.ret = r])
  PROVE  BoxTyped' /\ JobTyped' /\ JobInv' /\ BoxInv' /\ job' = [job EXCEPT ![c] = IdleJob]
<1> DEFINE k == job[c].id
<1>1. k \in Ids \cup {0}
  BY DEF JobTyped, Job
<1>2. job' = [job EXCEPT ![c] = IdleJob]
      /\ box' = IF k = 0 THEN b ELSE [b EXCEPT ![k] = [b[k] EXCEPT !.ret = r]]
  BY DEF ReturnWith
<1>3. IdleJob \in Job /\ IdleJob.id = 0 /\ IdleJob.pc = "idle" /\ IdleJob.kind = "run"
  BY Constants DEF IdleJob, Job, Steps, Outcomes
<1>4. JobOK(IdleJob, box')
  BY <1>3 DEF JobOK, PlacesOf, Early
<1>5. BoxTyped' /\ \A i \in Ids : i # k => box'[i] = b[i]
  BY <1>1, <1>2, ResultTyped DEF BoxTyped
<1>6. \A i \in Ids : i # k => Elsewhere(box[i], b[i]) /\ OutcomeOf(b[i])
  BY ElsewhereKeeps DEF BoxInv, BoxTyped
<1>7. \A i \in Ids : OutcomeOf(box'[i])
  <2>1. ASSUME k # 0 PROVE box'[k] = [b[k] EXCEPT !.ret = r] /\ OutcomeOf([b[k] EXCEPT !.ret = r])
    BY <1>1, <1>2, <2>1
  <2> HIDE DEF k
  <2>2. ASSUME NEW i \in Ids, i = k PROVE OutcomeOf(box'[i])
    BY <2>1, <2>2, Constants
  <2> QED
    BY <1>5, <1>6, <2>2
<1>8. ASSUME NEW d \in Callers \ {c}, job[d].id # 0
      PROVE  /\ job[d].id # IdleJob.id
             /\ Elsewhere(box[job[d].id], box'[job[d].id])
  <2>1. job[d].id \in Ids /\ job[d].id # k
    BY <1>8 DEF JobInv, JobTyped, Job
  <2> QED
    BY <1>3, <1>5, <1>6, <1>8, <2>1
<1> QED
  BY <1>2, <1>3, <1>4, <1>5, <1>7, <1>8, JobChanges

\* The job ends, or goes to its deferred removal.
LEMMA JobLeaves ==
  ASSUME BoxTyped, JobTyped, JobInv, BoxInv, NEW c \in Callers,
         NEW r \in {"ok", "docker", "wait", "ctx"},
         NEW b \in [Ids -> Box], Leave(c, r, b), job[c].id # 0,
         \A i \in Ids : i = job[c].id \/ b[i] = box[i],
         OutcomeOf(b[job[c].id]), OutcomeOf([b[job[c].id] EXCEPT !.ret = r]),
         job[c].kind # "run" => Has([job[c] EXCEPT !.pc = "defer", !.ret = r], b[job[c].id])
  PROVE  BoxTyped' /\ JobTyped' /\ JobInv' /\ BoxInv' /\ job'[c].pc \in {"idle", "defer"}
         /\ \A d \in Callers \ {c} : job'[d] = job[d]
<1> DEFINE k == job[c].id
           j == [job[c] EXCEPT !.pc = "defer", !.ret = r]
<1>1. CASE job[c].kind = "run"
  <2>1. ReturnWith(c, r, b) /\ r \in Outcomes
    BY <1>1 DEF Leave, Outcomes
  <2>2. \A i \in Ids : i = job[c].id \/ Elsewhere(box[i], b[i])
    BY DEF Elsewhere
  <2>3. BoxTyped' /\ JobTyped' /\ JobInv' /\ BoxInv' /\ job' = [job EXCEPT ![c] = IdleJob]
    BY <2>1, <2>2, JobReturns
  <2> QED
    BY <2>3 DEF JobTyped, IdleJob
<1>2. CASE job[c].kind # "run"
  <2>1. job' = [job EXCEPT ![c].pc = "defer", ![c].ret = r] /\ box' = b
    BY <1>2 DEF Leave
  <2>2. job' = [job EXCEPT ![c] = j]
    BY <2>1 DEF JobTyped
  <2>3. j \in Job /\ j.id = k /\ j.pc = "defer" /\ j.ret = r /\ j.kind = job[c].kind
    BY DEF JobTyped, Job, Steps, Outcomes
  <2>4. "defer" \in PlacesOf(job[c].kind)
    BY <1>2 DEF PlacesOf
  <2>5. JobOK(j, box')
    BY <1>2, <2>1, <2>3, <2>4 DEF JobOK, Early
  <2>6. BoxTyped' /\ \A i \in Ids : OutcomeOf(box'[i])
    BY <2>1 DEF BoxTyped, BoxInv
  <2>7. ASSUME NEW d \in Callers \ {c}, job[d].id # 0
        PROVE  job[d].id # j.id /\ Elsewhere(box[job[d].id], box'[job[d].id])
    <3>1. job[d].id \in Ids /\ job[d].id # k
      BY <2>7 DEF JobInv, JobTyped, Job
    <3> QED
      BY <2>1, <2>3, <3>1 DEF Elsewhere
  <2>8. JobTyped' /\ JobInv' /\ BoxInv'
    BY <2>2, <2>3, <2>5, <2>6, <2>7, JobChanges
  <2> QED
    BY <2>2, <2>3, <2>6, <2>8 DEF JobTyped
<1> QED
  BY <1>1, <1>2

\* The job goes from one place to another.
LEMMA JobGoes ==
  ASSUME JobsInv, NEW c \in Callers, NEW p \in Steps \ {"defer"}, Goto(c, p), box' = box,
         p \in PlacesOf(job[c].kind), p \in Early <=> job[c].pc \in Early,
         job[c].id # 0 => Has([job[c] EXCEPT !.pc = p], box[job[c].id])
  PROVE  Leads(c, {p})
<1> DEFINE j == [job[c] EXCEPT !.pc = p]
<1>1. job' = [job EXCEPT ![c] = j]
  BY DEF Goto, JobsInv, JobTyped
<1>2. j \in Job /\ j.id = job[c].id /\ j.kind = job[c].kind /\ j.pc = p
  BY DEF JobsInv, JobTyped, Job
<1>3. JobOK(j, box)
  BY <1>2 DEF JobOK, JobsInv, JobInv
<1>4. JobsInv'
  BY <1>1, <1>2, <1>3, JobMoves DEF JobsInv
<1>5. job'[c] = j /\ \A d \in Callers \ {c} : job'[d] = job[d]
  BY <1>1 DEF JobsInv, JobTyped
<1> QED
  BY <1>2, <1>4, <1>5 DEF Leads

\* The job ends where it has no container.
LEMMA JobFails ==
  ASSUME JobsInv, NEW c \in Callers, job[c].pc \in Early, NEW r \in Outcomes,
         NEW b \in [Ids -> Box], ReturnWith(c, r, b), \A i \in Ids : Elsewhere(box[i], b[i])
  PROVE  Leads(c, {"idle"})
<1>1. job[c].id = 0
  BY DEF JobsInv, JobInv, JobOK
<1>2. JobsInv' /\ job' = [job EXCEPT ![c] = IdleJob]
  BY <1>1, JobReturns DEF JobsInv
<1> QED
  BY <1>2 DEF Leads, JobsInv, JobTyped, IdleJob

\* The same, all containers as they are.
LEMMA JobReturnsEarly ==
  ASSUME JobsInv, NEW c \in Callers, job[c].pc \in Early, NEW r \in Outcomes, Return(c, r)
  PROVE  Leads(c, {"idle"})
<1>1. box \in [Ids -> Box] /\ \A i \in Ids : Elsewhere(box[i], box[i])
  BY DEF JobsInv, BoxTyped, Elsewhere
<1> QED
  BY <1>1, JobFails DEF Return

\* The job ends with its container as it is.
LEMMA JobReturnsLate ==
  ASSUME JobsInv, NEW c \in Callers, job[c].id # 0, NEW r \in Outcomes, Return(c, r),
         OutcomeOf([box[job[c].id] EXCEPT !.ret = r])
  PROVE  Leads(c, {"idle"})
<1>1. box \in [Ids -> Box] /\ \A i \in Ids : Elsewhere(box[i], box[i])
  BY DEF JobsInv, BoxTyped, Elsewhere
<1>2. JobsInv' /\ job' = [job EXCEPT ![c] = IdleJob]
  BY <1>1, JobReturns DEF JobsInv, Return
<1> QED
  BY <1>2 DEF Leads, JobsInv, JobTyped, IdleJob

\* What is known of a job by its place.
LEMMA PlaceFacts ==
  ASSUME JobsInv, NEW c \in Callers
  PROVE  /\ job[c].kind \in Kinds /\ job[c].pc \in PlacesOf(job[c].kind)
         /\ job[c].pc \in {"copy", "copyfrom", "start", "wait", "waiting", "logs", "stop", "defer"} =>
              job[c].id \in Ids /\ box[job[c].id] \in Box /\ Has(job[c], box[job[c].id])
                                /\ OutcomeOf(box[job[c].id])
         /\ job[c].pc \in Early => job[c].id = 0
<1>1. JobOK(job[c], box) /\ job[c] \in Job
  BY DEF JobsInv, JobInv, JobTyped
<1> QED
  BY <1>1 DEF JobOK, Job, Early, JobsInv, BoxTyped, BoxInv

-----------------------------------------------------------------------------
(* Each step of a job.                                                      *)

LEMMA EnsurePulledLeads ==
  ASSUME JobsInv, NEW c \in Callers, EnsurePulled(c)
  PROVE  Leads(c, {"idle", "names"})
<1>1. job[c].pc = "pull" /\ "names" \in PlacesOf(job[c].kind) /\ job[c].id = 0
  BY PlaceFacts DEF EnsurePulled, At, PlacesOf, Early
<1>2. CASE Goto(c, "names") /\ box' = box
  BY <1>1, <1>2, JobGoes DEF Early, Steps, Leads
<1>3. CASE Return(c, "docker")
  BY <1>1, <1>3, JobReturnsEarly DEF Early, Outcomes, Leads
<1> QED
  BY <1>2, <1>3 DEF EnsurePulled

LEMMA LockLeads ==
  ASSUME JobsInv, NEW c \in Callers, Lock(c)
  PROVE  Leads(c, {"create", "images"})
<1>1. /\ job[c].pc = "lock" /\ job[c].id = 0
      /\ "create" \in PlacesOf(job[c].kind) /\ "images" \in PlacesOf(job[c].kind)
  BY PlaceFacts, Constants DEF Lock, At, PlacesOf, Early
<1>2. CASE Goto(c, "create")
  BY <1>1, <1>2, JobGoes DEF Early, Steps, Leads, Lock
<1>3. CASE Goto(c, "images")
  BY <1>1, <1>3, JobGoes DEF Early, Steps, Leads, Lock
<1> QED
  BY <1>2, <1>3 DEF Lock

LEMMA ListImagesLeads ==
  ASSUME JobsInv, NEW c \in Callers, ListImages(c)
  PROVE  /\ Leads(c, {"idle", "create", "pullbusybox"})
         /\ job'[c].pc = "pullbusybox" => mu' = mu
         /\ job'[c].pc # "pullbusybox" => mu' = None
<1>1. /\ job[c].pc = "images" /\ job[c].id = 0
      /\ "create" \in PlacesOf(job[c].kind) /\ "pullbusybox" \in PlacesOf(job[c].kind)
  BY PlaceFacts, Constants DEF ListImages, At, PlacesOf, Early
<1>2. ASSUME Goto(c, "create"), mu' = None, box' = box PROVE Leads(c, {"create"})
  BY <1>1, <1>2, JobGoes DEF Early, Steps
<1>3. ASSUME Goto(c, "pullbusybox"), mu' = mu, box' = box PROVE Leads(c, {"pullbusybox"})
  BY <1>1, <1>3, JobGoes DEF Early, Steps
<1>4. ASSUME Return(c, "docker"), mu' = None PROVE Leads(c, {"idle"})
  BY <1>1, <1>4, JobReturnsEarly DEF Early, Outcomes
<1>5. \/ Goto(c, "create") /\ mu' = None /\ box' = box
      \/ Goto(c, "pullbusybox") /\ mu' = mu /\ box' = box
      \/ Return(c, "docker") /\ mu' = None
  BY DEF ListImages
<1> QED
  BY <1>2, <1>3, <1>4, <1>5 DEF Leads

LEMMA PullBusyboxLeads ==
  ASSUME JobsInv, NEW c \in Callers, PullBusybox(c)
  PROVE  Leads(c, {"idle", "create"})
<1>1. job[c].pc = "pullbusybox" /\ job[c].id = 0 /\ "create" \in PlacesOf(job[c].kind)
  BY PlaceFacts, Constants DEF PullBusybox, At, PlacesOf, Early
<1>2. CASE Goto(c, "create") /\ box' = box
  BY <1>1, <1>2, JobGoes DEF Early, Steps, Leads
<1>3. CASE Return(c, "docker")
  BY <1>1, <1>3, JobReturnsEarly DEF Early, Outcomes, Leads
<1> QED
  BY <1>2, <1>3 DEF PullBusybox

LEMMA ListNamesLeads ==
  ASSUME JobsInv, NEW c \in Callers, ListNames(c)
  PROVE  Leads(c, {"idle", "create", "remove"})
<1>1. job[c].pc = "names" /\ job[c].id = 0 /\ job[c].kind = "run"
  BY PlaceFacts, Constants DEF ListNames, At, PlacesOf, Early
<1>2. CASE Return(c, "docker")
  BY <1>1, <1>2, JobReturnsEarly DEF Early, Outcomes, Leads
<1>3. ASSUME NEW n \in Names, box' = box,
             job' = [job EXCEPT ![c].name = n, ![c].found = {i \in Existing : box[i].name = n},
                                ![c].pc = IF {i \in Existing : box[i].name = n} = {} THEN "create" ELSE "remove"]
      PROVE  Leads(c, {"create", "remove"})
  <2> DEFINE f == {i \in Existing : box[i].name = n}
             p == IF f = {} THEN "create" ELSE "remove"
             j == [job[c] EXCEPT !.name = n, !.found = f, !.pc = p]
  <2>1. f \in SUBSET Ids /\ p \in {"create", "remove"}
    BY DEF Existing
  <2>2. job' = [job EXCEPT ![c].name = n, ![c].found = f, ![c].pc = p]
    BY <1>3
  <2> HIDE DEF f, p
  <2>3. job' = [job EXCEPT ![c] = j]
    BY <2>2 DEF JobsInv, JobTyped
  <2>4. j \in Job /\ j.id = 0 /\ j.kind = "run" /\ j.pc = p
    BY <1>1, <2>1 DEF JobsInv, JobTyped, Job, Steps
  <2>5. JobOK(j, box)
    BY <2>1, <2>4 DEF JobOK, PlacesOf, Early
  <2>6. JobsInv'
    BY <1>1, <1>3, <2>3, <2>4, <2>5, JobMoves DEF JobsInv
  <2>7. job'[c] = j /\ \A d \in Callers \ {c} : job'[d] = job[d]
    BY <2>3 DEF JobsInv, JobTyped
  <2> QED
    BY <2>1, <2>4, <2>6, <2>7 DEF Leads
<1> QED
  BY <1>2, <1>3 DEF ListNames, Leads

LEMMA RemoveFoundLeads ==
  ASSUME JobsInv, NEW c \in Callers, RemoveFound(c)
  PROVE  Leads(c, {"idle", "create", "remove"})
<1>1. job[c].pc = "remove" /\ job[c].id = 0 /\ job[c].kind = "run" /\ job[c].found \subseteq Ids
  BY PlaceFacts, Constants DEF RemoveFound, At, PlacesOf, Early, JobsInv, JobTyped, Job
<1>2. PICK i \in job[c].found :
        \/ /\ box' = Gone(i)
           /\ job' = [job EXCEPT ![c].found = @ \ {i},
                                 ![c].pc = IF job[c].found = {i} THEN "create" ELSE "remove"]
        \/ ReturnWith(c, "docker", Gone(i))
        \/ Return(c, "docker")
  BY DEF RemoveFound
<1>3. Gone(i) \in [Ids -> Box] /\ \A k \in Ids : Elsewhere(box[k], Gone(i)[k])
  BY <1>1, GoneIsElsewhere DEF JobsInv, BoxTyped
<1>4. CASE ReturnWith(c, "docker", Gone(i))
  BY <1>1, <1>3, <1>4, JobFails DEF Early, Outcomes, Leads
<1>5. CASE Return(c, "docker")
  BY <1>1, <1>5, JobReturnsEarly DEF Early, Outcomes, Leads
<1>6. ASSUME NEW p \in {"create", "remove"}, box' = Gone(i),
             job' = [job EXCEPT ![c].found = @ \ {i}, ![c].pc = p]
      PROVE  Leads(c, {"create", "remove"})
  <2> DEFINE j == [job[c] EXCEPT !.found = @ \ {i}, !.pc = p]
  <2>1. job' = [job EXCEPT ![c] = j]
    BY <1>6 DEF JobsInv, JobTyped
  <2>2. j \in Job /\ j.id = 0 /\ j.kind = "run" /\ j.pc = p
    BY <1>1 DEF JobsInv, JobTyped, Job, Steps
  <2>3. JobOK(j, box')
    BY <2>2 DEF JobOK, PlacesOf, Early
  <2>4. BoxTyped' /\ \A k \in Ids : Elsewhere(box[k], box'[k])
    BY <1>3, <1>6 DEF BoxTyped
  <2>5. \A k \in Ids : OutcomeOf(box'[k])
    BY <2>4, ElsewhereKeeps DEF JobsInv, BoxInv, BoxTyped
  <2>6. \A d \in Callers \ {c} : job[d].id # 0 => job[d].id # j.id /\ job[d].id \in Ids
    BY <2>2 DEF JobsInv, JobTyped, Job
  <2>7. JobsInv'
    BY <2>1, <2>2, <2>3, <2>4, <2>5, <2>6, JobChanges DEF JobsInv
  <2>8. job'[c] = j /\ \A d \in Callers \ {c} : job'[d] = job[d]
    BY <2>1 DEF JobsInv, JobTyped
  <2> QED
    BY <2>2, <2>7, <2>8 DEF Leads
<1>7. (IF job[c].found = {i} THEN "create" ELSE "remove") \in {"create", "remove"}
  OBVIOUS
<1> QED
  BY <1>2, <1>4, <1>5, <1>6, <1>7 DEF Leads

LEMMA CreateContainerLeads ==
  ASSUME JobsInv, run \in Runs, NEW c \in Callers, CreateContainer(c)
  PROVE  Leads(c, Steps \ Fetching)
<1>1. job[c].pc = "create" /\ job[c].id = 0 /\ job[c].kind \in Kinds /\ job[c].name \in Names \cup {None}
  BY PlaceFacts DEF CreateContainer, At, Early, JobsInv, JobTyped, Job
<1>2. CASE Return(c, "docker")
  <2>1. Leads(c, {"idle"})
    BY <1>1, <1>2, JobReturnsEarly DEF Early, Outcomes
  <2> QED
    BY <2>1 DEF Leads, Steps, Fetching
<1> DEFINE new == [NoContainer EXCEPT !.state = "created", !.run = run, !.name = job[c].name, !.kind = job[c].kind]
           p == After(job[c].kind, "create")
<1>3. /\ new \in Box /\ new.state = "created" /\ new.ret = "busy" /\ new.code = 0
      /\ new.kind = job[c].kind /\ OutcomeOf(new)
  BY <1>1, Constants DEF NoContainer, Box, OutcomeOf
<1>4. p \in {"start", "copyfrom", "copy"} /\ p \in PlacesOf(job[c].kind)
  BY <1>1, StepFacts, Constants DEF PlacesOf
<1> HIDE DEF new, p
<1>5. ASSUME NEW i \in Ids, box[i].state = "none", box' = [box EXCEPT ![i] = new],
             job' = [job EXCEPT ![c].id = i, ![c].pc = p]
      PROVE  Leads(c, Steps \ Fetching)
  <2> DEFINE j == [job[c] EXCEPT !.id = i, !.pc = p]
  <2>1. job' = [job EXCEPT ![c] = j]
    BY <1>5 DEF JobsInv, JobTyped
  <2>2. j \in Job /\ j.id = i /\ j.kind = job[c].kind /\ j.pc = p
    BY <1>4 DEF JobsInv, JobTyped, Job, Steps
  <2>3. BoxTyped' /\ box'[i] = new /\ \A k \in Ids \ {i} : box'[k] = box[k]
    BY <1>3, <1>5 DEF JobsInv, BoxTyped
  <2>4. Has(j, new)
    BY <1>3, <1>4, <2>2 DEF Has
  <2>5. JobOK(j, box')
    BY <1>4, <2>2, <2>3, <2>4, Constants DEF JobOK, Early
  <2>6. \A k \in Ids : OutcomeOf(box'[k])
    BY <1>3, <2>3 DEF JobsInv, BoxInv
  <2>7. ASSUME NEW d \in Callers \ {c}, job[d].id # 0
        PROVE  job[d].id # j.id /\ Elsewhere(box[job[d].id], box'[job[d].id])
    <3>1. job[d].id \in Ids /\ Has(job[d], box[job[d].id])
      BY <2>7 DEF JobsInv, JobInv, JobTyped, Job, JobOK
    <3>2. job[d].id # i
      BY <1>5, <3>1 DEF Has
    <3> QED
      BY <2>2, <2>3, <3>1, <3>2 DEF Elsewhere
  <2>8. JobsInv'
    BY <2>1, <2>2, <2>3, <2>5, <2>6, <2>7, JobChanges DEF JobsInv
  <2>9. job'[c] = j /\ \A d \in Callers \ {c} : job'[d] = job[d]
    BY <2>1 DEF JobsInv, JobTyped
  <2> QED
    BY <1>4, <2>2, <2>8, <2>9 DEF Leads, Steps, Fetching
<1>6. ASSUME NEW i \in Ids, box[i].state = "none",
             ReturnWith(c, "docker", [box EXCEPT ![i] = [new EXCEPT !.ret = "docker"]])
      PROVE  Leads(c, Steps \ Fetching)
  <2> DEFINE d == [new EXCEPT !.ret = "docker"]
             b == [box EXCEPT ![i] = d]
  <2>1. d \in Box /\ OutcomeOf(d)
    BY <1>3 DEF Box, Outcomes, OutcomeOf
  <2>2. b \in [Ids -> Box] /\ \A k \in Ids : Elsewhere(box[k], b[k])
    <3> HIDE DEF d
    <3> QED
      BY <1>6, <2>1 DEF JobsInv, BoxTyped, Elsewhere
  <2>3. Leads(c, {"idle"})
    BY <1>1, <1>6, <2>2, JobFails DEF Early, Outcomes
  <2> QED
    BY <2>3 DEF Leads, Steps, Fetching
<1>7. ASSUME NEW i \in Fresh
      PROVE  /\ i \in Ids /\ box[i].state = "none"
             /\ [[box EXCEPT ![i] = new] EXCEPT ![i].ret = "docker"] = [box EXCEPT ![i] = [new EXCEPT !.ret = "docker"]]
  <2>1. i \in Ids /\ box[i].state = "none"
    BY Constants DEF Fresh
  <2> QED
    BY <2>1 DEF JobsInv, BoxTyped
<1>8. \/ Return(c, "docker")
      \/ \E i \in Fresh :
           \/ box' = [box EXCEPT ![i] = new] /\ job' = [job EXCEPT ![c].id = i, ![c].pc = p]
           \/ ReturnWith(c, "docker", [[box EXCEPT ![i] = new] EXCEPT ![i].ret = "docker"])
  BY DEF CreateContainer, new, p
<1> QED
  BY <1>2, <1>5, <1>6, <1>7, <1>8

\* A job leaves with its container untouched: what it still is fits any failure.
LEMMA JobGivesUp ==
  ASSUME JobsInv, NEW c \in Callers, job[c].id \in Ids, Has(job[c], box[job[c].id]),
         NEW r \in {"docker", "wait", "ctx"}, Leave(c, r, box)
  PROVE  Leads(c, {"idle", "defer"})
<1> DEFINE b == box[job[c].id]
           j == [job[c] EXCEPT !.pc = "defer", !.ret = r]
<1>1. box \in [Ids -> Box] /\ b \in Box /\ OutcomeOf(b) /\ job[c].id # 0
  BY Constants DEF JobsInv, BoxTyped, BoxInv
<1>2. OutcomeOf([b EXCEPT !.ret = r])
  BY <1>1 DEF OutcomeOf, Box
<1>3. j.kind = job[c].kind /\ j.pc = "defer" /\ j.ret = r
  BY DEF JobsInv, JobTyped, Job
<1>4. Has(j, b)
  BY <1>1, <1>3 DEF Has
<1> QED
  BY <1>1, <1>2, <1>4, JobLeaves DEF JobsInv, Leads

LEMMA CopyToContainerLeads ==
  ASSUME JobsInv, NEW c \in Callers, CopyToContainer(c)
  PROVE  Leads(c, Steps \ Fetching)
<1>1. /\ job[c].pc = "copy" /\ job[c].kind \in {"write", "relayer"}
      /\ job[c].id \in Ids /\ Has(job[c], box[job[c].id])
  BY PlaceFacts, Constants DEF CopyToContainer, At, PlacesOf
<1>2. CASE Goto(c, "start") /\ box' = box
  <2>1. "start" \in PlacesOf(job[c].kind)
    BY <1>1 DEF PlacesOf
  <2>2. Has([job[c] EXCEPT !.pc = "start"], box[job[c].id])
    BY <1>1 DEF Has, JobsInv, JobTyped, Job
  <2>3. Leads(c, {"start"})
    BY <1>1, <1>2, <2>1, <2>2, JobGoes DEF Early, Steps
  <2> QED
    BY <2>3 DEF Leads, Steps, Fetching
<1>3. CASE Leave(c, "docker", box)
  <2>1. Leads(c, {"idle", "defer"})
    BY <1>1, <1>3, JobGivesUp
  <2> QED
    BY <2>1 DEF Leads, Steps, Fetching
<1> QED
  BY <1>2, <1>3 DEF CopyToContainer

LEMMA CopyFromContainerLeads ==
  ASSUME JobsInv, NEW c \in Callers, CopyFromContainer(c)
  PROVE  Leads(c, Steps \ Fetching)
<1>1. /\ job[c].pc = "copyfrom" /\ job[c].kind = "read"
      /\ job[c].id \in Ids /\ Has(job[c], box[job[c].id])
      /\ box[job[c].id] \in Box /\ OutcomeOf(box[job[c].id])
  BY PlaceFacts, Constants DEF CopyFromContainer, At, PlacesOf
<1>2. CASE job[c].id \in Existing /\ Leave(c, "ok", box)
  <2> DEFINE b == box[job[c].id]
             j == [job[c] EXCEPT !.pc = "defer", !.ret = "ok"]
  <2>1. box \in [Ids -> Box] /\ job[c].id # 0 /\ b.state = "created" /\ b.kind = "read" /\ b.code = 0
    BY <1>1, <1>2, Constants DEF JobsInv, BoxTyped, Existing, Has
  <2>2. OutcomeOf([b EXCEPT !.ret = "ok"])
    BY <1>1, <2>1 DEF OutcomeOf, Box
  <2>3. j.kind = job[c].kind /\ j.pc = "defer" /\ j.ret = "ok"
    BY DEF JobsInv, JobTyped, Job
  <2>4. Has(j, b)
    BY <1>1, <2>1, <2>3 DEF Has
  <2> QED
    BY <1>1, <1>2, <2>1, <2>2, <2>4, JobLeaves DEF JobsInv, Leads, Steps, Fetching
<1>3. CASE Leave(c, "docker", box)
  <2>1. Leads(c, {"idle", "defer"})
    BY <1>1, <1>3, JobGivesUp
  <2> QED
    BY <2>1 DEF Leads, Steps, Fetching
<1> QED
  BY <1>2, <1>3 DEF CopyFromContainer

LEMMA StartContainerLeads ==
  ASSUME JobsInv, NEW c \in Callers, StartContainer(c)
  PROVE  Leads(c, Steps \ Fetching)
<1> DEFINE i == job[c].id
           d == [box[i] EXCEPT !.state = "running"]
           started == [box EXCEPT ![i].state = "running"]
<1>1. /\ job[c].pc = "start" /\ job[c].kind \in Kinds \ {"read"}
      /\ i \in Ids /\ Has(job[c], box[i]) /\ box[i] \in Box /\ OutcomeOf(box[i])
  BY PlaceFacts, Constants DEF StartContainer, At, PlacesOf
<1>2. CASE Leave(c, "docker", box)
  <2>1. Leads(c, {"idle", "defer"})
    BY <1>1, <1>2, JobGivesUp
  <2> QED
    BY <2>1 DEF Leads, Steps, Fetching
<1>3. /\ started \in [Ids -> Box] /\ started[i] = d /\ \A k \in Ids \ {i} : started[k] = box[k]
      /\ d \in Box /\ d.state = "running" /\ d.kind = box[i].kind /\ d.ret = "busy"
  BY <1>1 DEF JobsInv, BoxTyped, Box, Has
<1>4. OutcomeOf(d)
  BY <1>3 DEF OutcomeOf
<1>5. ASSUME i \in Existing, Leave(c, "docker", started) PROVE Leads(c, Steps \ Fetching)
  <2> DEFINE j == [job[c] EXCEPT !.pc = "defer", !.ret = "docker"]
  <2>1. j.kind = job[c].kind /\ j.pc = "defer" /\ j.ret = "docker"
    BY DEF JobsInv, JobTyped, Job
  <2>2. Has(j, d)
    BY <1>1, <1>3, <1>5, <2>1 DEF Has, Existing
  <2>3. OutcomeOf([d EXCEPT !.ret = "docker"])
    BY <1>3 DEF OutcomeOf, Box
  <2> HIDE DEF started, d
  <2>4. /\ OutcomeOf(started[i]) /\ OutcomeOf([started[i] EXCEPT !.ret = "docker"])
        /\ Has(j, started[i]) /\ i # 0
        /\ \A k \in Ids : k = i \/ started[k] = box[k]
    BY <1>1, <1>3, <1>4, <2>2, <2>3, Constants
  <2>5. Leads(c, {"idle", "defer"})
    BY <1>3, <1>5, <2>4, JobLeaves DEF JobsInv, Leads
  <2> QED
    BY <2>5 DEF Leads, Steps, Fetching
<1>6. ASSUME i \in Existing, box' = started, Goto(c, "wait") PROVE Leads(c, Steps \ Fetching)
  <2> DEFINE j == [job[c] EXCEPT !.pc = "wait"]
  <2>1. job' = [job EXCEPT ![c] = j]
    BY <1>6 DEF Goto, JobsInv, JobTyped
  <2>2. j \in Job /\ j.id = i /\ j.kind = job[c].kind /\ j.pc = "wait"
    BY DEF JobsInv, JobTyped, Job, Steps
  <2>3. Has(j, d)
    BY <1>1, <1>3, <1>6, <2>2 DEF Has, Existing
  <2>4. "wait" \in PlacesOf(job[c].kind)
    BY <1>1, Constants DEF PlacesOf
  <2> HIDE DEF started, d, i
  <2>5. JobOK(j, box')
    BY <1>1, <1>3, <1>6, <2>2, <2>3, <2>4, Constants DEF JobOK, Early
  <2>6. BoxTyped' /\ \A k \in Ids : OutcomeOf(box'[k])
    BY <1>3, <1>4, <1>6 DEF JobsInv, BoxTyped, BoxInv
  <2>7. ASSUME NEW e \in Callers \ {c}, job[e].id # 0
        PROVE  job[e].id # j.id /\ Elsewhere(box[job[e].id], box'[job[e].id])
    <3>1. job[e].id \in Ids /\ job[e].id # i
      BY <2>7 DEF JobsInv, JobInv, JobTyped, Job, i
    <3> QED
      BY <1>3, <1>6, <2>2, <3>1 DEF Elsewhere
  <2>8. JobsInv'
    BY <2>1, <2>2, <2>5, <2>6, <2>7, JobChanges DEF JobsInv
  <2>9. job'[c] = j /\ \A e \in Callers \ {c} : job'[e] = job[e]
    BY <2>1 DEF JobsInv, JobTyped
  <2> QED
    BY <2>2, <2>8, <2>9 DEF Leads, Steps, Fetching
<1> QED
  BY <1>2, <1>5, <1>6 DEF StartContainer

LEMMA ContainerWaitLeads ==
  ASSUME JobsInv, NEW c \in Callers, ContainerWait(c)
  PROVE  Leads(c, Steps \ Fetching)
<1>1. /\ job[c].pc = "wait" /\ job[c].kind \in Kinds \ {"read"}
      /\ job[c].id \in Ids /\ Has(job[c], box[job[c].id])
  BY PlaceFacts, Constants DEF ContainerWait, At, PlacesOf
<1>2. CASE Goto(c, "waiting") /\ box' = box
  <2>1. "waiting" \in PlacesOf(job[c].kind)
    BY <1>1, Constants DEF PlacesOf
  <2>2. Has([job[c] EXCEPT !.pc = "waiting"], box[job[c].id])
    BY <1>1 DEF Has, JobsInv, JobTyped, Job
  <2>3. Leads(c, {"waiting"})
    BY <1>1, <1>2, <2>1, <2>2, JobGoes DEF Early, Steps
  <2> QED
    BY <2>3 DEF Leads, Steps, Fetching
<1>3. CASE Leave(c, "wait", box)
  <2>1. Leads(c, {"idle", "defer"})
    BY <1>1, <1>3, JobGivesUp
  <2> QED
    BY <2>1 DEF Leads, Steps, Fetching
<1> QED
  BY <1>2, <1>3 DEF ContainerWait

LEMMA WaitedLeads ==
  ASSUME JobsInv, NEW c \in Callers, Waited(c)
  PROVE  Leads(c, Steps \ Fetching)
<1> DEFINE i == job[c].id
<1>1. /\ job[c].pc = "waiting" /\ job[c].kind \in Kinds \ {"read"}
      /\ i \in Ids /\ Has(job[c], box[i]) /\ box[i] \in Box /\ OutcomeOf(box[i])
  BY PlaceFacts, Constants DEF Waited, At, PlacesOf
<1>2. i # 0 /\ (i \notin Running => box[i].state \in {"exited", "gone"})
  BY <1>1, Constants DEF Running, Has, Box
<1>3. ASSUME i \notin Running, job[c].kind = "run", Goto(c, "logs"), box' = box
      PROVE  Leads(c, Steps \ Fetching)
  <2>1. "logs" \in PlacesOf(job[c].kind)
    BY <1>3 DEF PlacesOf
  <2>2. Has([job[c] EXCEPT !.pc = "logs"], box[i])
    BY <1>1, <1>2, <1>3 DEF Has, JobsInv, JobTyped, Job
  <2>3. Leads(c, {"logs"})
    BY <1>1, <1>3, <2>1, <2>2, JobGoes DEF Early, Steps
  <2> QED
    BY <2>3 DEF Leads, Steps, Fetching
<1>4. ASSUME i \notin Running, job[c].kind # "run", Return(c, Outcome(i))
      PROVE  Leads(c, Steps \ Fetching)
  <2>1. Outcome(i) \in Outcomes /\ (Outcome(i) = "ok" => box[i].code = 0)
    BY DEF Outcome, Outcomes
  <2>2. OutcomeOf([box[i] EXCEPT !.ret = Outcome(i)])
    BY <1>1, <1>2, <1>4, <2>1 DEF OutcomeOf, Has, Box
  <2>3. Leads(c, {"idle"})
    BY <1>2, <1>4, <2>1, <2>2, JobReturnsLate
  <2> QED
    BY <2>3 DEF Leads, Steps, Fetching
<1>5. ASSUME Return(c, "wait") PROVE Leads(c, Steps \ Fetching)
  <2>1. OutcomeOf([box[i] EXCEPT !.ret = "wait"])
    BY <1>1 DEF OutcomeOf, Box
  <2>2. Leads(c, {"idle"})
    BY <1>2, <1>5, <2>1, JobReturnsLate DEF Outcomes
  <2> QED
    BY <2>2 DEF Leads, Steps, Fetching
<1>6. ASSUME NEW r \in {"wait", "ctx"}, Leave(c, r, box) PROVE Leads(c, Steps \ Fetching)
  <2>1. Leads(c, {"idle", "defer"})
    BY <1>1, <1>6, JobGivesUp
  <2> QED
    BY <2>1 DEF Leads, Steps, Fetching
<1> QED
  BY <1>3, <1>4, <1>5, <1>6 DEF Waited

LEMMA ContainerLogsLeads ==
  ASSUME JobsInv, NEW c \in Callers, ContainerLogs(c)
  PROVE  Leads(c, Steps \ Fetching)
<1> DEFINE i == job[c].id
<1>1. /\ job[c].pc = "logs" /\ job[c].kind = "run"
      /\ i \in Ids /\ Has(job[c], box[i]) /\ box[i] \in Box /\ OutcomeOf(box[i])
  BY PlaceFacts, Constants DEF ContainerLogs, At, PlacesOf
<1>2. CASE Goto(c, "stop") /\ box' = box
  <2>1. "stop" \in PlacesOf(job[c].kind)
    BY <1>1 DEF PlacesOf
  <2>2. Has([job[c] EXCEPT !.pc = "stop"], box[i])
    BY <1>1 DEF Has, JobsInv, JobTyped, Job
  <2>3. Leads(c, {"stop"})
    BY <1>1, <1>2, <2>1, <2>2, JobGoes DEF Early, Steps
  <2> QED
    BY <2>3 DEF Leads, Steps, Fetching
<1>3. CASE Return(c, "logs")
  <2>1. OutcomeOf([box[i] EXCEPT !.ret = "logs"]) /\ i # 0
    BY <1>1, Constants DEF OutcomeOf, Has, Box
  <2>2. Leads(c, {"idle"})
    BY <1>3, <2>1, JobReturnsLate DEF Outcomes
  <2> QED
    BY <2>2 DEF Leads, Steps, Fetching
<1> QED
  BY <1>2, <1>3 DEF ContainerLogs

\* The job ends and removes its container.
LEMMA JobRemoves ==
  ASSUME JobsInv, NEW c \in Callers, job[c].id \in Ids, NEW r \in Outcomes,
         r = "ok" => box[job[c].id].code = 0 /\ box[job[c].id].state # "running",
         ReturnWith(c, r, Gone(job[c].id))
  PROVE  Leads(c, {"idle"})
<1> DEFINE i == job[c].id
<1>1. Gone(i) \in [Ids -> Box] /\ \A k \in Ids : Elsewhere(box[k], Gone(i)[k])
  BY GoneIsElsewhere DEF JobsInv, BoxTyped
<1>2. Gone(i)[i].state = "gone" /\ (box[i].state # "running" => Gone(i)[i].code = box[i].code)
  BY DEF Gone, Remains, NoContainer, Running, JobsInv, BoxTyped
<1> DEFINE b == Gone(i)
<1>3. b[i] \in Box /\ b[i].state = "gone" /\ (r = "ok" => b[i].code = 0)
  BY <1>1, <1>2
<1> HIDE DEF b
<1>4. OutcomeOf([b[i] EXCEPT !.ret = r])
  BY <1>3 DEF OutcomeOf, Box
<1>5. JobsInv' /\ job' = [job EXCEPT ![c] = IdleJob]
  BY <1>1, <1>4, JobReturns DEF JobsInv, b
<1> QED
  BY <1>5 DEF Leads, JobsInv, JobTyped, IdleJob

LEMMA StopAndRemoveLeads ==
  ASSUME JobsInv, NEW c \in Callers, StopAndRemove(c)
  PROVE  Leads(c, Steps \ Fetching)
<1> DEFINE i == job[c].id
           r == Outcome(i)
<1>1. /\ job[c].pc = "stop" /\ i \in Ids /\ i # 0 /\ Has(job[c], box[i]) /\ box[i] \in Box
  BY PlaceFacts, Constants DEF StopAndRemove, At
<1>2. box[i].state \in {"exited", "gone"}
  BY <1>1 DEF Has
<1>3. r \in Outcomes /\ (r = "ok" => box[i].code = 0)
  BY DEF Outcome, Outcomes
<1> HIDE DEF r
<1>4. CASE ReturnWith(c, r, Gone(i))
  <2>1. Leads(c, {"idle"})
    BY <1>1, <1>2, <1>3, <1>4, JobRemoves
  <2> QED
    BY <2>1 DEF Leads, Steps, Fetching
<1>5. CASE ReturnWith(c, r, [box EXCEPT ![i].refused = TRUE])
  <2> DEFINE d == [box[i] EXCEPT !.refused = TRUE]
             b == [box EXCEPT ![i] = d]
  <2>1. d \in Box /\ d.state \in {"exited", "gone"} /\ d.code = box[i].code /\ d.refused
    BY <1>1, <1>2 DEF Box
  <2>2. [box EXCEPT ![i].refused = TRUE] = b
    BY <1>1 DEF JobsInv, BoxTyped
  <2>3. OutcomeOf([d EXCEPT !.ret = r])
    BY <1>3, <2>1 DEF OutcomeOf, Box
  <2> HIDE DEF d
  <2>4. b \in [Ids -> Box] /\ b[i] = d /\ \A k \in Ids : k = i \/ Elsewhere(box[k], b[k])
    BY <1>1, <2>1 DEF JobsInv, BoxTyped, Elsewhere
  <2>5. JobsInv' /\ job' = [job EXCEPT ![c] = IdleJob]
    BY <1>3, <1>5, <2>2, <2>3, <2>4, JobReturns DEF JobsInv
  <2> QED
    BY <2>5 DEF Leads, Steps, Fetching, JobsInv, JobTyped, IdleJob
<1> QED
  BY <1>4, <1>5 DEF StopAndRemove, r

LEMMA DeferredRemoveLeads ==
  ASSUME JobsInv, NEW c \in Callers, DeferredRemove(c)
  PROVE  Leads(c, Steps \ Fetching)
<1> DEFINE i == job[c].id
           r == job[c].ret
<1>1. /\ job[c].pc = "defer" /\ i \in Ids /\ i # 0 /\ Has(job[c], box[i])
      /\ box[i] \in Box /\ OutcomeOf(box[i])
  BY PlaceFacts, Constants DEF DeferredRemove, At
<1>2. r \in {"ok", "docker", "wait", "ctx"} /\ r \in Outcomes
  BY <1>1 DEF JobsInv, JobInv, JobOK, Outcomes
<1>3. r = "ok" => box[i].code = 0 /\ box[i].state \in {"created", "gone"} /\ job[c].kind = "read"
  BY <1>1 DEF Has
<1>4. box[i].state # "gone" => box[i].kind = job[c].kind
  BY <1>1 DEF Has
<1>5. CASE ReturnWith(c, r, Gone(i))
  <2>1. Leads(c, {"idle"})
    BY <1>1, <1>2, <1>3, <1>5, JobRemoves
  <2> QED
    BY <2>1 DEF Leads, Steps, Fetching
<1>6. CASE Return(c, r)
  <2>1. OutcomeOf([box[i] EXCEPT !.ret = r])
    <3> HIDE DEF r
    <3> QED
      BY <1>1, <1>2, <1>3, <1>4 DEF OutcomeOf, Box
  <2>2. Leads(c, {"idle"})
    BY <1>1, <1>2, <1>6, <2>1, JobReturnsLate
  <2> QED
    BY <2>2 DEF Leads, Steps, Fetching
<1> QED
  BY <1>5, <1>6 DEF DeferredRemove

LEMMA BeginLeads ==
  ASSUME JobsInv, NEW c \in Callers, NEW k \in Kinds, Begin(c, k)
  PROVE  Leads(c, Steps \ Fetching)
<1> DEFINE p == Head(StepsOf[k])
           j == [IdleJob EXCEPT !.pc = p, !.kind = k]
<1>1. p = IF k = "run" THEN "pull" ELSE "lock"
  BY StepFacts
<1>2. job[c].id = 0 /\ job' = [job EXCEPT ![c] = j] /\ box' = box
  BY PlaceFacts DEF Begin, At, Early
<1> HIDE DEF p
<1>3. j \in Job /\ j.id = 0 /\ j.kind = k /\ j.pc = p
  BY <1>1 DEF IdleJob, Job, Steps, Outcomes
<1>4. JobOK(j, box)
  BY <1>1, <1>3, Constants DEF JobOK, PlacesOf, Early
<1>5. JobsInv'
  BY <1>2, <1>3, <1>4, JobMoves DEF JobsInv
<1>6. job'[c] = j /\ \A d \in Callers \ {c} : job'[d] = job[d]
  BY <1>2 DEF JobsInv, JobTyped
<1> QED
  BY <1>1, <1>3, <1>5, <1>6 DEF Leads, Steps, Fetching

-----------------------------------------------------------------------------
(* The invariant.                                                           *)

LEMMA InitIInv == Init => IInv
<1> SUFFICES ASSUME Init PROVE IInv
  OBVIOUS
<1>1. NoContainer \in Box /\ OutcomeOf(NoContainer)
  BY Constants DEF NoContainer, Box, Outcomes, OutcomeOf
<1>2. /\ IdleJob \in Job /\ IdleJob.pc = "idle" /\ IdleJob.id = 0 /\ IdleJob.kind = "run"
  BY Constants DEF IdleJob, Job, Steps, Outcomes
<1>3. JobsInv
  BY <1>1, <1>2 DEF Init, JobsInv, BoxTyped, JobTyped, JobInv, JobOK, BoxInv, PlacesOf, Early
<1>4. TypeOK
  BY <1>2, <1>3, TypeParts, Constants DEF Init, JobsInv, MutexOK, Fetching
<1>5. QuietInv /\ CleanInv
  BY <1>2 DEF Init, QuietInv, CleanInv
<1> QED
  BY <1>3, <1>4, <1>5 DEF IInv, JobsInv

\* A step of a job that leaves the mutex alone.
LEMMA QuietStep ==
  ASSUME IInv, NEW c \in Callers, phase = "ready", Leads(c, Steps \ Fetching),
         job[c].pc \notin Fetching, UNCHANGED <<procVars, nets, busyVars>>, vols' \in SUBSET Runs
  PROVE  IInv'
<1>1. JobsInv' /\ MutexOK'
  BY TypeParts DEF Leads, IInv, MutexOK, busyVars
<1>2. TypeOK'
  BY <1>1 DEF IInv, TypeOK, JobsInv, BoxTyped, JobTyped, MutexOK, Box, Job, Fetching, procVars, busyVars
<1>3. QuietInv' /\ CleanInv'
  BY DEF IInv, QuietInv, CleanInv, procVars
<1> QED
  BY <1>1, <1>2, <1>3 DEF IInv, JobsInv

\* A step of a job that takes the mutex, holds it or gives it back.
LEMMA MutexStep ==
  ASSUME IInv, NEW c \in Callers, phase = "ready", NEW S, Leads(c, S), mu \in {c, None},
         UNCHANGED <<procVars, nets, vols>>, has' \in BOOLEAN, image' \in BOOLEAN,
         job'[c].pc \in Fetching <=> mu' = c, mu' \in {c, None}
  PROVE  IInv'
<1>1. JobsInv' /\ MutexOK'
  <2>1. \A d \in Callers \ {c} : job'[d].pc \in Fetching <=> mu' = d
    BY TypeParts, Constants DEF Leads, IInv, MutexOK
  <2> QED
    BY <2>1 DEF Leads, MutexOK
<1>2. TypeOK'
  BY <1>1 DEF IInv, TypeOK, JobsInv, BoxTyped, JobTyped, MutexOK, Box, Job, Fetching, procVars
<1>3. QuietInv' /\ CleanInv'
  BY DEF IInv, QuietInv, CleanInv, procVars
<1> QED
  BY <1>1, <1>2, <1>3 DEF IInv, JobsInv

LEMMA NextJob ==
  ASSUME IInv, NEW c \in Callers, JobStep(c) \/ Lock(c) \/ \E k \in KindsOf[c] : Begin(c, k)
  PROVE  IInv'
<1>1. JobsInv /\ run \in Runs /\ MutexOK /\ {has, image} \subseteq BOOLEAN /\ vols \subseteq Runs
  BY TypeParts DEF IInv, JobsInv
<1>2. job[c].pc # "idle" => phase = "ready"
  BY DEF IInv, QuietInv
<1>3. ASSUME Lock(c) PROVE IInv'
  <2>1. /\ job[c].pc = "lock" /\ mu = None /\ c # None
        /\ UNCHANGED <<procVars, nets, vols>> /\ has' \in BOOLEAN /\ image' \in BOOLEAN
        /\ \/ Goto(c, "create") /\ mu' = mu
           \/ Goto(c, "images") /\ mu' = c
    BY <1>1, <1>3, Constants DEF Lock, At, Calls
  <2>2. \A p : Goto(c, p) => job'[c].pc = p
    BY <1>1 DEF Goto, JobsInv, JobTyped, Job
  <2>3. \/ job'[c].pc = "create" /\ mu' = None
        \/ job'[c].pc = "images" /\ mu' = c
    BY <2>1, <2>2
  <2> QED
    BY <1>1, <1>2, <1>3, <2>1, <2>3, LockLeads, MutexStep DEF Fetching
<1>4. ASSUME ListImages(c) PROVE IInv'
  <2>1. job[c].pc = "images" /\ UNCHANGED <<procVars, nets, vols>> /\ has' \in BOOLEAN /\ image' \in BOOLEAN
    BY <1>1, <1>4 DEF ListImages, At, Calls
  <2>2. mu = c /\ c # None
    BY <1>1, <2>1, Constants DEF MutexOK, Fetching
  <2> QED
    BY <1>1, <1>2, <1>4, <2>1, <2>2, ListImagesLeads, MutexStep DEF Fetching, Leads
<1>5. ASSUME PullBusybox(c) PROVE IInv'
  <2>1. /\ job[c].pc = "pullbusybox" /\ UNCHANGED <<procVars, nets, vols>>
        /\ has' \in BOOLEAN /\ image' \in BOOLEAN /\ mu' = None
    BY <1>1, <1>5 DEF PullBusybox, At, Calls
  <2>2. mu = c /\ c # None
    BY <1>1, <2>1, Constants DEF MutexOK, Fetching
  <2> QED
    BY <1>1, <1>2, <1>5, <2>1, <2>2, PullBusyboxLeads, MutexStep DEF Fetching, Leads
<1>6. ASSUME EnsurePulled(c) \/ ListNames(c) \/ RemoveFound(c) PROVE IInv'
  <2>1. /\ job[c].pc \in {"pull", "names", "remove"}
        /\ UNCHANGED <<procVars, nets, vols, busyVars>>
    BY <1>6 DEF EnsurePulled, ListNames, RemoveFound, At, Calls
  <2>2. Leads(c, {"idle", "names", "create", "remove"})
    BY <1>1, <1>6, EnsurePulledLeads, ListNamesLeads, RemoveFoundLeads DEF Leads
  <2>3. Leads(c, Steps \ Fetching)
    BY <2>2 DEF Leads, Steps, Fetching
  <2> QED
    BY <1>1, <1>2, <2>1, <2>3, QuietStep DEF Fetching
<1>7. ASSUME \/ CreateContainer(c) \/ CopyToContainer(c) \/ CopyFromContainer(c) \/ StartContainer(c)
             \/ ContainerWait(c) \/ Waited(c) \/ ContainerLogs(c) \/ StopAndRemove(c) \/ DeferredRemove(c)
      PROVE  IInv'
  <2>1. /\ job[c].pc \in {"create", "copy", "copyfrom", "start", "wait", "waiting", "logs", "stop", "defer"}
        /\ UNCHANGED <<procVars, nets, vols, busyVars>>
    BY <1>7 DEF CreateContainer, CopyToContainer, CopyFromContainer, StartContainer,
                ContainerWait, Waited, ContainerLogs, StopAndRemove, DeferredRemove, At, Calls
  <2>2. Leads(c, Steps \ Fetching)
    BY <1>1, <1>7, CreateContainerLeads, CopyToContainerLeads, CopyFromContainerLeads, StartContainerLeads,
       ContainerWaitLeads, WaitedLeads, ContainerLogsLeads, StopAndRemoveLeads, DeferredRemoveLeads
  <2> QED
    BY <1>1, <1>2, <2>1, <2>2, QuietStep DEF Fetching
<1>8. ASSUME NEW k \in KindsOf[c], Begin(c, k) PROVE IInv'
  <2>1. k \in Kinds
    BY KindsAssumption
  <2>2. /\ job[c].pc = "idle" /\ phase = "ready"
        /\ UNCHANGED <<procVars, nets, busyVars>> /\ vols' \in SUBSET Runs
    BY <1>1, <1>8 DEF Begin, At
  <2>3. Leads(c, Steps \ Fetching)
    BY <1>1, <1>8, <2>1, BeginLeads
  <2> QED
    BY <2>2, <2>3, QuietStep DEF Fetching
<1> QED
  BY <1>3, <1>4, <1>5, <1>6, <1>7, <1>8, Zenon DEF JobStep

\* A container comes to its end, or is removed.
LEMMA Ending ==
  ASSUME JobsInv, NEW i \in Ids,
         \/ box' = box
         \/ box' = Gone(i)
         \/ /\ box[i].state = "running"
            /\ \E k \in {0, 1} : box' = [box EXCEPT ![i].state = "exited", ![i].code = k]
  PROVE  /\ BoxTyped' /\ \A k \in Ids : Elsewhere(box[k], box'[k])
         /\ Existing' \subseteq Existing
         /\ box' = Gone(i) => Existing' \subseteq Existing \ {i}
<1>1. ASSUME box' = box
      PROVE  BoxTyped' /\ (\A k \in Ids : Elsewhere(box[k], box'[k])) /\ Existing' = Existing
  BY <1>1 DEF JobsInv, BoxTyped, Elsewhere, Existing
<1>2. ASSUME box' = Gone(i)
      PROVE  BoxTyped' /\ (\A k \in Ids : Elsewhere(box[k], box'[k])) /\ Existing' \subseteq Existing
  <2>1. BoxTyped' /\ \A k \in Ids : Elsewhere(box[k], box'[k])
    BY <1>2, GoneIsElsewhere DEF JobsInv, BoxTyped
  <2>2. box'[i].state = "gone" /\ \A k \in Ids \ {i} : box'[k] = box[k]
    BY <1>2 DEF Gone, Remains, NoContainer, JobsInv, BoxTyped
  <2>3. Existing' = {k \in Ids : box'[k].state \in {"created", "running", "exited"}}
    BY DEF Existing
  <2> QED
    BY <2>1, <2>2, <2>3 DEF Existing
<1>3. ASSUME box[i].state = "running", NEW m \in {0, 1},
             box' = [box EXCEPT ![i].state = "exited", ![i].code = m]
      PROVE  BoxTyped' /\ (\A k \in Ids : Elsewhere(box[k], box'[k])) /\ Existing' \subseteq Existing
             /\ i \in Existing'
  <2> DEFINE d == [box[i] EXCEPT !.state = "exited", !.code = m]
  <2>1. box' = [box EXCEPT ![i] = d]
    BY <1>3 DEF JobsInv, BoxTyped
  <2>2. d \in Box /\ d.state = "exited" /\ Elsewhere(box[i], d)
    BY <1>3 DEF JobsInv, BoxTyped, Box, Elsewhere
  <2> HIDE DEF d
  <2>3. box'[i] = d /\ (\A k \in Ids \ {i} : box'[k] = box[k]) /\ BoxTyped'
    BY <2>1, <2>2 DEF JobsInv, BoxTyped
  <2>4. \A k \in Ids : Elsewhere(box[k], box'[k])
    BY <2>2, <2>3 DEF Elsewhere
  <2>5. Existing' = {k \in Ids : box'[k].state \in {"created", "running", "exited"}}
    BY DEF Existing
  <2> QED
    BY <1>3, <2>2, <2>3, <2>4, <2>5 DEF Existing
<1>4. Gone(i)[i].state = "gone"
  BY DEF Gone, Remains, NoContainer, JobsInv, BoxTyped
<1>5. ASSUME box' = Gone(i) PROVE i \notin Existing'
  BY <1>4, <1>5 DEF Existing
<1>6. BoxTyped' /\ (\A k \in Ids : Elsewhere(box[k], box'[k])) /\ Existing' \subseteq Existing
  BY <1>1, <1>2, <1>3
<1> QED
  BY <1>5, <1>6

\* While no job moves, containers only end.
LEMMA IdleStep ==
  ASSUME IInv, UNCHANGED <<job, busyVars>>, BoxTyped', \A i \in Ids : Elsewhere(box[i], box'[i])
  PROVE  JobsInv' /\ MutexOK' /\ {has, image}' \subseteq BOOLEAN
<1>1. JobsInv /\ MutexOK /\ {has, image} \subseteq BOOLEAN
  BY TypeParts DEF IInv, JobsInv
<1>2. \A i \in Ids : OutcomeOf(box'[i])
  BY <1>1, ElsewhereKeeps DEF JobsInv, BoxTyped, BoxInv
<1>3. ASSUME NEW c \in Callers PROVE JobOK(job[c], box')
  <2>1. JobOK(job[c], box) /\ job[c].id \in Ids \cup {0}
    BY <1>1 DEF JobsInv, JobInv, JobTyped, Job
  <2>2. ASSUME job[c].id # 0, Has(job[c], box[job[c].id]) PROVE Has(job[c], box'[job[c].id])
    <3>1. job[c].id \in Ids
      BY <2>1, <2>2
    <3> QED
      BY <1>1, <2>2, <3>1, ElsewhereKeeps DEF JobsInv, BoxTyped
  <2> QED
    BY <2>1, <2>2 DEF JobOK
<1> QED
  BY <1>1, <1>2, <1>3 DEF JobsInv, JobTyped, JobInv, BoxInv, MutexOK, busyVars

\* The same with all containers as they are.
LEMMA StillStep ==
  ASSUME IInv, UNCHANGED <<job, box, busyVars>>
  PROVE  JobsInv' /\ MutexOK' /\ {has, image}' \subseteq BOOLEAN /\ Existing' = Existing
<1>1. BoxTyped' /\ \A i \in Ids : Elsewhere(box[i], box'[i])
  BY TypeParts DEF IInv, BoxTyped, Elsewhere
<1>2. Existing' = Existing
  BY DEF Existing
<1> QED
  BY <1>1, <1>2, IdleStep

PhasesOK == /\ run \in Runs /\ phase \in {"list", "containers", "networks", "cleaned", "ready", "ended"}
            /\ {eager, failed, missed} \subseteq BOOLEAN
            /\ todo \subseteq Ids /\ vols \subseteq Runs /\ nets \subseteq Runs

LEMMA PrimedParts ==
  ASSUME PhasesOK', JobsInv', MutexOK', {has, image}' \subseteq BOOLEAN, QuietInv', CleanInv'
  PROVE  IInv'
  BY DEF PhasesOK, JobsInv, IInv, TypeOK, BoxTyped, JobTyped, MutexOK, Box, Job, Fetching

LEMMA NextCleanup == IInv /\ Cleanup => IInv'
<1> SUFFICES ASSUME IInv, Cleanup PROVE IInv'
  OBVIOUS
<1>1. JobsInv /\ PhasesOK /\ QuietInv /\ CleanInv
  BY TypeParts DEF IInv, JobsInv, PhasesOK
<1>2. Existing \subseteq Ids
  BY DEF Existing
<1>3. CASE CleanList
  <2>1. JobsInv' /\ MutexOK' /\ {has, image}' \subseteq BOOLEAN /\ Existing' = Existing
    BY <1>3, StillStep DEF CleanList, CleanupVars
  <2>2. PhasesOK' /\ QuietInv' /\ CleanInv'
    BY <1>1, <1>2, <1>3, <2>1 DEF PhasesOK, QuietInv, CleanInv, CleanList, CleanupVars, cleanVars
  <2> QED
    BY <2>1, <2>2, PrimedParts
<1>4. ASSUME NEW i \in Ids, CleanContainer(i) PROVE IInv'
  <2>1. \/ box' = box
        \/ box' = Gone(i)
        \/ /\ box[i].state = "running"
           /\ \E k \in {0, 1} : box' = [box EXCEPT ![i].state = "exited", ![i].code = k]
    BY <1>4 DEF CleanContainer, Running
  <2>2. /\ BoxTyped' /\ \A k \in Ids : Elsewhere(box[k], box'[k])
        /\ Existing' \subseteq Existing
        /\ box' = Gone(i) => Existing' \subseteq Existing \ {i}
    BY <1>1, <2>1, Ending
  <2>3. JobsInv' /\ MutexOK' /\ {has, image}' \subseteq BOOLEAN
    BY <1>4, <2>2, IdleStep DEF CleanContainer, CleanupVars
  <2>4. /\ phase = "containers" /\ phase' = phase /\ todo' = todo \ {i} /\ missed' \in BOOLEAN
        /\ UNCHANGED <<vols, nets, cleanVars, job>>
        /\ ~missed' => ~missed /\ box' = Gone(i)
    <3>1. missed \in BOOLEAN /\ (missed' = missed \/ missed' = TRUE)
      BY <1>1, <1>4 DEF CleanContainer, PhasesOK
    <3>2. missed' = TRUE \/ (missed' = missed /\ box' = Gone(i))
      BY <1>4 DEF CleanContainer
    <3>3. /\ phase = "containers" /\ phase' = phase /\ todo' = todo \ {i}
          /\ UNCHANGED <<vols, nets, cleanVars, job>>
      BY <1>4 DEF CleanContainer, CleanupVars
    <3> QED
      BY <3>1, <3>2, <3>3
  <2>5. PhasesOK' /\ QuietInv' /\ CleanInv'
    BY <1>1, <2>2, <2>4 DEF PhasesOK, QuietInv, CleanInv, cleanVars
  <2> QED
    BY <2>3, <2>5, PrimedParts
<1>5. CASE PruneVolumes
  <2>1. JobsInv' /\ MutexOK' /\ {has, image}' \subseteq BOOLEAN /\ Existing' = Existing
    BY <1>5, StillStep DEF PruneVolumes, CleanupVars
  <2>2. PhasesOK' /\ QuietInv' /\ CleanInv'
    BY <1>1, <1>5, <2>1, JobsAssumption DEF PhasesOK, QuietInv, CleanInv, PruneVolumes, CleanupVars, cleanVars
  <2> QED
    BY <2>1, <2>2, PrimedParts
<1>6. CASE PruneNetworks
  <2>1. JobsInv' /\ MutexOK' /\ {has, image}' \subseteq BOOLEAN /\ Existing' = Existing
    BY <1>6, StillStep DEF PruneNetworks, CleanupVars
  <2>2. PhasesOK' /\ QuietInv' /\ CleanInv'
    BY <1>1, <1>6, <2>1 DEF PhasesOK, QuietInv, CleanInv, PruneNetworks, CleanupVars, cleanVars
  <2> QED
    BY <2>1, <2>2, PrimedParts
<1>7. CASE NetworkCreate
  <2>1. JobsInv' /\ MutexOK' /\ {has, image}' \subseteq BOOLEAN /\ Existing' = Existing
    BY <1>7, StillStep DEF NetworkCreate
  <2>2. PhasesOK' /\ QuietInv' /\ CleanInv'
    BY <1>1, <1>7, <2>1 DEF PhasesOK, QuietInv, CleanInv, NetworkCreate
  <2> QED
    BY <2>1, <2>2, PrimedParts
<1>8. CASE CleanedUp
  <2>1. JobsInv' /\ MutexOK' /\ {has, image}' \subseteq BOOLEAN /\ Existing' = Existing
    BY <1>8, StillStep DEF CleanedUp
  <2>2. PhasesOK' /\ QuietInv' /\ CleanInv'
    BY <1>1, <1>8, <2>1 DEF PhasesOK, QuietInv, CleanInv, CleanedUp, cleanVars
  <2> QED
    BY <2>1, <2>2, PrimedParts
<1> QED
  BY <1>3, <1>4, <1>5, <1>6, <1>7, <1>8 DEF Cleanup

LEMMA NextEnvironment == IInv /\ Environment => IInv'
<1> SUFFICES ASSUME IInv, Environment PROVE IInv'
  OBVIOUS
<1>1. JobsInv /\ PhasesOK /\ QuietInv /\ CleanInv
  BY TypeParts DEF IInv, JobsInv, PhasesOK
<1>2. CASE EndTest
  <2>1. JobsInv' /\ MutexOK' /\ {has, image}' \subseteq BOOLEAN
    BY <1>2, StillStep DEF EndTest
  <2>2. PhasesOK' /\ QuietInv' /\ CleanInv'
    BY <1>1, <1>2 DEF PhasesOK, QuietInv, CleanInv, EndTest, At
  <2> QED
    BY <2>1, <2>2, PrimedParts
<1>3. ASSUME NEW i \in Ids, Exit(i) \/ RemoveExited(i) PROVE IInv'
  <2>1. \/ box' = Gone(i)
        \/ /\ box[i].state = "running"
           /\ \E k \in {0, 1} : box' = [box EXCEPT ![i].state = "exited", ![i].code = k]
    BY <1>3 DEF Exit, RemoveExited, Running
  <2>2. BoxTyped' /\ (\A k \in Ids : Elsewhere(box[k], box'[k])) /\ Existing' \subseteq Existing
    BY <1>1, <2>1, Ending
  <2>3. UNCHANGED <<procVars, vols, nets, job, busyVars>>
    BY <1>3 DEF Exit, RemoveExited
  <2>4. JobsInv' /\ MutexOK' /\ {has, image}' \subseteq BOOLEAN
    BY <2>2, <2>3, IdleStep
  <2>5. PhasesOK' /\ QuietInv' /\ CleanInv'
    BY <1>1, <2>2, <2>3 DEF PhasesOK, QuietInv, CleanInv, procVars
  <2> QED
    BY <2>4, <2>5, PrimedParts
<1>4. CASE RunAgain
  <2>1. run' \in Runs
    <3>1. run \in 1 .. MaxRuns /\ MaxRuns \in Nat
      BY <1>1, JobsAssumption DEF PhasesOK, Runs
    <3>2. run < MaxRuns /\ run' = run + 1
      BY <1>4 DEF RunAgain
    <3> QED
      BY <3>1, <3>2 DEF Runs
  <2> DEFINE d(i) == IF i \in Existing
                     THEN [box[i] EXCEPT !.code = 0, !.ret = "killed", !.refused = FALSE]
                     ELSE [NoContainer EXCEPT !.state = box[i].state]
  <2>2. box' = [i \in Ids |-> d(i)]
    BY <1>4 DEF RunAgain
  <2>3. ASSUME NEW i \in Ids PROVE d(i) \in Box /\ OutcomeOf(d(i))
    <3>1. box[i] \in Box
      BY <1>1 DEF JobsInv, BoxTyped
    <3>2. CASE i \in Existing
      BY <3>1, <3>2 DEF Box, OutcomeOf
    <3>3. CASE i \notin Existing
      <4>1. box[i].state \in {"none", "gone"}
        BY <3>1, <3>3 DEF Existing, Box
      <4>2. /\ NoContainer.ret = "busy" /\ NoContainer.code = 0
            /\ [NoContainer EXCEPT !.state = box[i].state] \in Box
        BY <4>1, Constants DEF NoContainer, Box, Outcomes
      <4> QED
        BY <3>3, <4>1, <4>2 DEF OutcomeOf, NoContainer
    <3> QED
      BY <3>2, <3>3
  <2> HIDE DEF d
  <2>4. BoxTyped' /\ BoxInv'
    BY <2>2, <2>3 DEF BoxTyped, BoxInv
  <2>5. IdleJob \in Job /\ IdleJob.pc = "idle" /\ IdleJob.id = 0 /\ IdleJob.kind = "run"
    BY Constants DEF IdleJob, Job, Steps, Outcomes
  <2>6. job' = [c \in Callers |-> IdleJob] /\ mu' = None
    BY <1>4 DEF RunAgain
  <2>7. JobTyped' /\ JobInv'
    BY <2>5, <2>6 DEF JobTyped, JobInv, JobOK, PlacesOf, Early
  <2>8. MutexOK' /\ {has, image}' \subseteq BOOLEAN
    BY <1>4, <2>5, <2>6, Constants, TypeParts DEF MutexOK, Fetching, RunAgain, IInv
  <2>9. PhasesOK' /\ QuietInv' /\ CleanInv'
    BY <1>1, <1>4, <2>1, <2>5, <2>6 DEF PhasesOK, QuietInv, CleanInv, RunAgain
  <2> QED
    BY <2>4, <2>7, <2>8, <2>9, PrimedParts DEF JobsInv
<1> QED
  BY <1>2, <1>3, <1>4 DEF Environment

\* Every step keeps the invariant.
LEMMA NextIInv == IInv /\ [Next]_vars => IInv'
<1>1. ASSUME IInv, UNCHANGED vars PROVE IInv'
  <2>1. JobsInv' /\ MutexOK' /\ {has, image}' \subseteq BOOLEAN /\ Existing' = Existing
    BY <1>1, StillStep DEF vars, busyVars
  <2>2. PhasesOK' /\ QuietInv' /\ CleanInv'
    BY <1>1, <2>1, TypeParts DEF vars, procVars, IInv, PhasesOK, QuietInv, CleanInv
  <2> QED
    BY <2>1, <2>2, PrimedParts
<1> QED
  BY <1>1, NextJob, NextCleanup, NextEnvironment DEF Next

LEMMA Invariance == Spec => []IInv
  BY InitIInv, NextIInv, PTL DEF Spec

\* Every variable stays in its domain, and the busybox mutex is held by the job
\* that looks for the image.
THEOREM TypeCorrect == Spec => []TypeOK
<1>1. IInv => TypeOK
  BY DEF IInv
<1> QED
  BY <1>1, Invariance, PTL

\* What a job's result says of its command and of its container is so, whatever
\* becomes of the container meanwhile.
THEOREM OutcomeTrue == Spec => []JobOutcome
<1>1. ASSUME IInv PROVE JobOutcome
  <2>1. ASSUME NEW i \in Ids
        PROVE  /\ box[i].ret = "ok" => box[i].code = 0
               /\ box[i].ret = "ok" /\ box[i].state = "created" => box[i].kind = "read"
               /\ i \in Running => box[i].ret \notin {"ok", "exit", "logs"}
               /\ i \in Existing /\ ~AutoRemove(i) /\ box[i].ret \in {"ok", "exit"} => box[i].refused
    BY <1>1 DEF IInv, BoxInv, OutcomeOf, Running, Existing, AutoRemove
  <2> QED
    BY <2>1 DEF JobOutcome
<1> QED
  BY <1>1, Invariance, PTL

\* A cleanup none of whose docker calls fails leaves nothing of earlier runs
\* behind when DockerSetup returns, and nothing of the test when it is over.
THEOREM SlateClean == Spec => CleanSlate
<1> DEFINE Emptied ==
      ~missed /\ run \notin KeepContainers =>
        /\ phase # "ready" /\ phase' = "ready" => Existing = {} /\ vols = {} /\ nets' = {run}
        /\ phase # "ended" /\ phase' = "ended" =>
             Existing = {} /\ nets = {} /\ (vols = {} \/ (KeepVolumesOnFailure /\ failed))
<1>1. ASSUME IInv, [Next]_vars PROVE Emptied
  <2>1. ASSUME NEW c \in Callers, JobStep(c) \/ Lock(c) \/ \E k \in KindsOf[c] : Begin(c, k)
        PROVE  phase' = phase
    BY <2>1 DEF JobStep, Lock, Begin, Calls, procVars, EnsurePulled, ListImages, PullBusybox, ListNames,
                RemoveFound, CreateContainer, CopyToContainer, CopyFromContainer, StartContainer,
                ContainerWait, Waited, ContainerLogs, StopAndRemove, DeferredRemove
  <2>2. CASE NetworkCreate
    BY <1>1, <2>2 DEF NetworkCreate, IInv, QuietInv, CleanInv
  <2>3. CASE CleanedUp
    BY <1>1, <2>3 DEF CleanedUp, IInv, CleanInv
  <2>4. ASSUME \/ CleanList \/ PruneVolumes \/ PruneNetworks \/ EndTest \/ RunAgain
               \/ \E i \in Ids : CleanContainer(i) \/ Exit(i) \/ RemoveExited(i)
        PROVE  phase' = phase \/ phase' \notin {"ready", "ended"}
    BY <2>4 DEF CleanList, PruneVolumes, PruneNetworks, EndTest, RunAgain, CleanContainer, Exit,
                RemoveExited, procVars
  <2>5. CASE UNCHANGED vars
    BY <2>5 DEF vars, procVars
  <2> QED
    BY <1>1, <2>1, <2>2, <2>3, <2>4, <2>5 DEF Next, Cleanup, Environment
<1> QED
  BY <1>1, Invariance, PTL DEF Spec, CleanSlate

=============================================================================
