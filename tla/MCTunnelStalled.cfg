\* Liveness of Close when the proxy may stop reading: violated.
SPECIFICATION FairSpec
CONSTANTS
  c1 = c1
  p1 = p1
  Conns = {c1}
  Closers = {p1}
  Resets <- NoResets
PROPERTIES
  CloseReturns
\* A tunnel that is closed, or up with no client, has nothing left to do.
CHECK_DEADLOCK FALSE
