\* Two roles, two protocols, and two reconfigurations at any moments.
SPECIFICATION Spec
CONSTANTS
  reader = reader
  writer = writer
  pg = pg
  my = my
  root = root
  leaf = leaf
  Empty = Empty
  Roles = {reader, writer}
  Protocols = {pg, my}
  Clusters = {root, leaf}
  Own = root
  MaxEdits = 2
INVARIANTS
  IssueInv
  BotImpersonates
  FitsItsCertificate
\* An Open ends.
CHECK_DEADLOCK FALSE
