---------------------------- MODULE MCDockerJobs ----------------------------
(* An instance of DockerJobs for TLC. *)
EXTENDS DockerJobs

CONSTANTS c1, c2

\* Both goroutines run commands; one also reads, the other also writes files.
MCKindsOf == [c \in Callers |-> IF c = c1 THEN {"run", "read"} ELSE {"run", "write", "owner"}]

\* Two containers, all created in the first run; the later ones clean up.
MCMaxContainers == <<2, 0, 0>>
=============================================================================
