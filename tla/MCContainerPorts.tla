-------------------------- MODULE MCContainerPorts --------------------------
(* Three containers, one of them with two exposed ports, on two ports.      *)
EXTENDS ContainerPorts

CONSTANTS c1, c2, c3

WantPorts == [c \in Containers |-> IF c = c1 THEN 2 ELSE 1]

=============================================================================
