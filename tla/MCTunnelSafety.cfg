\* Two clients and one caller of Close: every interleaving of the accept loop,
\* two handlers, their four pumps and Close.
SPECIFICATION Spec
CONSTANTS
  c1 = c1
  c2 = c2
  p1 = p1
  Conns = {c1, c2}
  Closers = {p1}
  Resets <- NoResets
SYMMETRY Symmetric
INVARIANTS
  CloseHeldUpByWritesOnly
  NothingLeaks
  ForceClosed
PROPERTIES
  NoAddFromZero
\* A tunnel that is closed, or up with no client, has nothing left to do.
CHECK_DEADLOCK FALSE
