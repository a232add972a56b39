\* A client that may be reset, one caller of Close, every failure of the
\* constructor and of the session, and peers that keep reading.
SPECIFICATION SSHPeersReadSpec
CONSTANTS
  c1 = c1
  p1 = p1
  Conns = {c1}
  Closers = {p1}
  Resets <- AllResets
INVARIANTS
  SInv
  FailedHoldsNothing
  SessionOutlivesHandlers
  SessionReleased
PROPERTIES
  SkeletonKept
  CloseReturns
  LossEndsHandlers
  PumpsEndWithSession
\* A tunnel that is closed, or up with no client, or that failed to start, has
\* nothing left to do.
CHECK_DEADLOCK FALSE
