\* Two database tunnels and an SSH tunnel in a process configured once.
SPECIFICATION FairSpec
CONSTANTS
  d1 = d1
  d2 = d2
  s1 = s1
  Instances = {d1, d2, s1}
  SSHInstances = {s1}
INVARIANTS
  IInv
  OwnedOnce
  CloseFindsTunnel
PROPERTIES
  EveryTunnelEnds
\* When every instance is closed, or the process has exited, nothing is left.
CHECK_DEADLOCK FALSE
