\* Two clients compete for the accept loop; nobody closes the tunnel.
SPECIFICATION FairSpec
CONSTANTS
  c1 = c1
  c2 = c2
  Conns = {c1, c2}
  Closers = {}
  Resets <- NoResets
PROPERTIES
  BacklogAnswered
\* A tunnel that is closed, or up with no client, has nothing left to do.
CHECK_DEADLOCK FALSE
