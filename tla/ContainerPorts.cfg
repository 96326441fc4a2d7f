SPECIFICATION PortsFairSpec
CONSTANTS
  Nobody = Nobody
  c1 = c1
  c2 = c2
  c3 = c3
  Containers = {c1, c2, c3}
  Ports = {1, 2}
  Want <- WantPorts
INVARIANTS
  PortsTypeOK
  PortsSafe
PROPERTIES
  CallsReturn
CHECK_DEADLOCK FALSE
