\* Three RPCs, one of them an SSH tunnel that needs the cluster name, with every
\* provider block of MCBlocks and an eager or a lazy Configure.
SPECIFICATION AuthFairSpec
CONSTANTS
  n1 = n1
  c1 = c1
  c2 = c2
  cfg = cfg
  None = None
  Callers <- MCCallers
  NameCallers <- MCNameCallers
  Configurer = cfg
  Blocks <- MCBlocks
INVARIANTS
  AInv
  OneAttempt
  NoClientLeak
  ConnectedMeansNamed
  EagerFailsFast
  OneSource
  JoinReleased
  OwnUpgrade
PROPERTIES
  OneOutcome
  EveryCallReturns
  ImplementsLazyConnect
\* Once every RPC is answered nothing is left to do.
CHECK_DEADLOCK FALSE
