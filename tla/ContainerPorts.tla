--------------------------- MODULE ContainerPorts ---------------------------
(***************************************************************************)
(* How dockerutil keeps two containers from being given one host port.     *)
(*                                                                         *)
(* CreateContainer opens a listener per port, which reserves the port, and *)
(* writes the ports into the container's bindings.  StartContainer closes  *)
(* the listeners and has docker bind the ports.  In between a port is      *)
(* nobody's, so StartContainer holds mu for reading and every listener is  *)
(* opened under mu held for writing.                                       *)
(*                                                                         *)
(* A name that is taken makes a creation fail after it has dropped the     *)
(* listeners of the container that has the name: its ports are then        *)
(* anybody's, although docker would still bind them.  What keeps such a    *)
(* container from being started is that every caller starts a container    *)
(* only when its own CreateContainer returned no error.                    *)
(*                                                                         *)
(* Every container is driven by one goroutine at a time, and docker's      *)
(* answers are final.  mu is private to the process: the ports are those   *)
(* no other process touches.                                               *)
(***************************************************************************)
EXTENDS Naturals, FiniteSets

CONSTANTS
  Containers,
  Ports,       \* host ports the kernel may hand out
  Want,        \* [Containers -> Nat]: size of the port set to expose
  Nobody

ASSUME PortsAssumption ==
  /\ IsFiniteSet(Ports)
  /\ Want \in [Containers -> Nat]
  /\ Nobody \notin Containers

VARIABLES
  pc,        \* where the container's goroutine is
  docker,    \* the container as docker knows it
  bindings,  \* host ports in the container's HostConfig
  opened,    \* listeners GeneratePortBindings has opened so far
  listeners, \* preStartListeners
  orphans,   \* listeners still open that nothing refers to any more
  writer,    \* who holds or waits for mu exclusively, Nobody if none does
  readers    \* who holds mu shared

portVars == <<pc, docker, bindings, opened, listeners, orphans, writer, readers>>

PortsInit ==
  /\ pc = [c \in Containers |-> "idle"]
  /\ docker = [c \in Containers |-> "none"]
  /\ bindings = [c \in Containers |-> {}]
  /\ opened = [c \in Containers |-> {}]
  /\ listeners = [c \in Containers |-> {}]
  /\ orphans = {}
  /\ writer = Nobody
  /\ readers = {}

\* Ports somebody listens on, and ports docker has bound.
Listening == orphans \cup UNION {opened[c] \cup listeners[c] : c \in Containers}
Bound     == UNION {bindings[c] : c \in {d \in Containers : docker[d] = "running"}}
InUse     == Listening \cup Bound

-----------------------------------------------------------------------------
(* CreateContainer. *)

\* Also for a container that exists: StartAllNodes is repeated after a preStart
\* sidecar failed, when the node's container is created and not started yet, and
\* a process that is not known to run is created anew.
Create(c) ==
  /\ pc[c] = "idle"
  /\ pc' = [pc EXCEPT ![c] = "ports"]
  /\ UNCHANGED <<docker, bindings, opened, listeners, orphans, writer, readers>>

\* mu.Lock for the next listener: first among the writers, then the readers
\* that are in have to leave.
LockPorts(c) ==
  /\ pc[c] = "ports" /\ Cardinality(opened[c]) < Want[c]
  /\ writer = Nobody
  /\ writer' = c
  /\ pc' = [pc EXCEPT ![c] = "listen"]
  /\ UNCHANGED <<docker, bindings, opened, listeners, orphans, readers>>

\* mu.Unlock lets in every reader that waited for this writer.
Unlock(c, next) ==
  /\ writer' = Nobody
  /\ readers' = {d \in Containers : pc[d] = "rlock"}
  /\ pc' = [d \in Containers |-> IF d = c THEN next
                                 ELSE IF pc[d] = "rlock" THEN "close" ELSE pc[d]]

(* Mutants: OpenListener reporting the port it asked for, or keeping mu     *)
(* after an error.                                                          *)
OpenListenerPortZero(c) ==
  /\ pc[c] = "listen" /\ readers = {}
  /\ opened' = [opened EXCEPT ![c] = @ \cup {0}] /\ Unlock(c, "ports")
  /\ UNCHANGED <<docker, bindings, listeners, orphans>>
OpenListenerKeepsLock(c) ==
  /\ pc[c] = "listen" /\ readers = {}
  /\ \/ /\ \E p \in Ports \ InUse : opened' = [opened EXCEPT ![c] = @ \cup {p}]
        /\ Unlock(c, "ports")
     \/ /\ opened' = [opened EXCEPT ![c] = {}] /\ pc' = [pc EXCEPT ![c] = "idle"]
        /\ UNCHANGED <<writer, readers>>
  /\ UNCHANGED <<docker, bindings, listeners, orphans>>

\* openListenerOnFreePort; an error closes what the call opened before.
OpenListener(c) ==
  /\ pc[c] = "listen" /\ readers = {}
  /\ \/ /\ \E p \in Ports \ InUse : opened' = [opened EXCEPT ![c] = @ \cup {p}]
        /\ Unlock(c, "ports")
     \/ /\ opened' = [opened EXCEPT ![c] = {}]
        /\ Unlock(c, "idle")
  /\ UNCHANGED <<docker, bindings, listeners, orphans>>

\* preStartListeners is set before docker is asked: listeners of an earlier
\* creation are dropped without being closed.
KeepListeners(c) ==
  /\ pc[c] = "ports" /\ Cardinality(opened[c]) >= Want[c]
  /\ listeners' = [listeners EXCEPT ![c] = opened[c]]
  /\ orphans' = orphans \cup listeners[c]
  /\ opened' = [opened EXCEPT ![c] = {}]
  /\ pc' = [pc EXCEPT ![c] = "create"]
  /\ UNCHANGED <<docker, bindings, writer, readers>>

\* ContainerCreate, which fails for one if the name is taken.
CreateInDocker(c) ==
  /\ pc[c] = "create"
  /\ \/ /\ docker[c] = "none"
        /\ docker' = [docker EXCEPT ![c] = "created"]
        /\ bindings' = [bindings EXCEPT ![c] = listeners[c]]
        /\ pc' = [pc EXCEPT ![c] = "ready"]
        /\ UNCHANGED listeners
     \/ /\ listeners' = [listeners EXCEPT ![c] = {}]
        /\ pc' = [pc EXCEPT ![c] = "idle"]
        /\ UNCHANGED <<docker, bindings>>
  /\ UNCHANGED <<opened, orphans, writer, readers>>

\* The caller returns without starting what it created: a sidecar failed, or
\* the container of another node.
GiveUp(c) ==
  /\ pc[c] = "ready"
  /\ pc' = [pc EXCEPT ![c] = "idle"]
  /\ UNCHANGED <<docker, bindings, opened, listeners, orphans, writer, readers>>

\* The finalizer of a dropped listener closes it.
Finalize(p) ==
  /\ p \in orphans
  /\ orphans' = orphans \ {p}
  /\ UNCHANGED <<pc, docker, bindings, opened, listeners, writer, readers>>

-----------------------------------------------------------------------------
(* StartContainer, StopContainer, RemoveContainer. *)

(* A mutant: the error of CreateContainer is not heeded, and whatever is    *)
(* created is started.                                                      *)
StartCreated(c) ==
  /\ pc[c] \in {"idle", "ready"} /\ docker[c] = "created"
  /\ writer = Nobody /\ readers' = readers \cup {c} /\ pc' = [pc EXCEPT ![c] = "close"]
  /\ UNCHANGED <<docker, bindings, opened, listeners, orphans, writer>>

\* mu.RLock: a writer that holds or waits for mu keeps new readers out.
Start(c) ==
  /\ pc[c] = "ready"
  /\ IF writer = Nobody
     THEN /\ readers' = readers \cup {c}
          /\ pc' = [pc EXCEPT ![c] = "close"]
     ELSE /\ pc' = [pc EXCEPT ![c] = "rlock"]
          /\ UNCHANGED readers
  /\ UNCHANGED <<docker, bindings, opened, listeners, orphans, writer>>

CloseListeners(c) ==
  /\ pc[c] = "close"
  /\ listeners' = [listeners EXCEPT ![c] = {}]
  /\ pc' = [pc EXCEPT ![c] = "start"]
  /\ UNCHANGED <<docker, bindings, opened, orphans, writer, readers>>

\* Docker can bind the ports of c.
CanBind(c) == bindings[c] \cap InUse = {}

\* A container whose start failed stays created.
StartInDocker(c) ==
  /\ pc[c] = "start"
  /\ \/ CanBind(c) /\ docker' = [docker EXCEPT ![c] = "running"]
     \/ UNCHANGED docker
  /\ readers' = readers \ {c}
  /\ pc' = [pc EXCEPT ![c] = "idle"]
  /\ UNCHANGED <<bindings, opened, listeners, orphans, writer>>

\* StopContainer, or the process ends by itself at whatever time.
Stop(c) ==
  /\ docker[c] = "running"
  /\ docker' = [docker EXCEPT ![c] = "stopped"]
  /\ UNCHANGED <<pc, bindings, opened, listeners, orphans, writer, readers>>

\* Forced removal, of a container in any state; its listeners stay open.
Remove(c) ==
  /\ pc[c] = "idle" /\ docker[c] # "none"
  /\ docker' = [docker EXCEPT ![c] = "none"]
  /\ bindings' = [bindings EXCEPT ![c] = {}]
  /\ UNCHANGED <<pc, opened, listeners, orphans, writer, readers>>

\* What a call does once it has been made.
Step(c) ==
  \/ LockPorts(c) \/ OpenListener(c) \/ KeepListeners(c) \/ CreateInDocker(c)
  \/ CloseListeners(c) \/ StartInDocker(c)

PortsNext ==
  \/ \E c \in Containers : Step(c) \/ Create(c) \/ GiveUp(c) \/ Start(c) \/ Stop(c) \/ Remove(c)
  \/ \E p \in Ports : Finalize(p)

PortsSpec == PortsInit /\ [][PortsNext]_portVars

\* Goroutines run and docker answers; a sync.Mutex in starvation mode is handed
\* over in order, so whoever keeps asking for the write lock gets it.
PortsFairSpec ==
  /\ PortsSpec
  /\ \A c \in Containers : WF_portVars(Step(c)) /\ SF_portVars(LockPorts(c))
-----------------------------------------------------------------------------
(* Properties. *)

Places == {"idle", "ports", "listen", "create", "ready", "rlock", "close", "start"}

\* Every variable stays in its domain.
PortsTypeOK ==
  /\ pc \in [Containers -> Places]
  /\ docker \in [Containers -> {"none", "created", "running", "stopped"}]
  /\ bindings \in [Containers -> SUBSET Ports]
  /\ opened \in [Containers -> SUBSET Ports]
  /\ listeners \in [Containers -> SUBSET Ports]
  /\ orphans \subseteq Ports
  /\ writer \in Containers \cup {Nobody}
  /\ readers \subseteq Containers

\* When StartContainer asks docker to start a container, no listener and no
\* other container has any of its ports: the window in which they are nobody's
\* is closed to openListenerOnFreePort, and a creation that dropped the
\* listeners of an earlier one starts nothing.
NoPortConflict == \A c \in Containers : pc[c] = "start" => CanBind(c)

\* From the CreateContainer that made the container until StartContainer closes
\* them, its own listeners keep the ports that docker is to bind.
PortsReserved ==
  \A c \in Containers :
    pc[c] \in {"ready", "rlock", "close"} => docker[c] = "created" /\ bindings[c] \subseteq listeners[c]

\* The containers whose bindings count: those that run, and those whose caller
\* has created them and goes on to start them.  One that was created and given
\* up, or that a later creation met, has no claim on its ports any more.
Claims == {c \in Containers : docker[c] = "running" \/ pc[c] \in {"ready", "rlock", "close", "start"}}

\* Two containers about to be started or running never have a host port in
\* common, however creations, also repeated ones, failures, stops and removals
\* interleave.
PortsDisjoint == \A c, d \in Claims : c # d => bindings[c] \cap bindings[d] = {}

\* No container ever takes a host port from another, neither when docker binds
\* it nor before, while the other is about to be started or runs.
PortsSafe == NoPortConflict /\ PortsDisjoint

\* Every CreateContainer and StartContainer call returns: neither the readers
\* nor the writers of mu wait for ever.
CallsReturn == \A c \in Containers : pc[c] \notin {"idle", "ready"} ~> pc[c] \in {"idle", "ready"}

=============================================================================
