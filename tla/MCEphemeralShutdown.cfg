\* An exit with tunnels still registered: violated.
SPECIFICATION Spec
CONSTANTS
  d1 = d1
  d2 = d2
  s1 = s1
  Instances = {d1, s1}
  SSHInstances = {s1}
INVARIANTS
  ClosedAtShutdown
\* When every instance is closed, or the process has exited, nothing is left.
CHECK_DEADLOCK FALSE
