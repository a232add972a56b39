\* One client whose two peers may reset, two callers of Close, and a proxy that
\* keeps reading.
SPECIFICATION DrainSpec
CONSTANTS
  c1 = c1
  p1 = p1
  p2 = p2
  Conns = {c1}
  Closers = {p1, p2}
  Resets <- AllResets
INVARIANTS
  CInv
PROPERTIES
  FirstEndedIsComplete
  PromiseKept
  CloseReturns
  PromiseKeptLive
  NoPumpSurvives
\* A tunnel that is closed, or up with no client, has nothing left to do.
CHECK_DEADLOCK FALSE
