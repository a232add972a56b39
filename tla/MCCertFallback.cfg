\* An error of GetRole that is not a denial: violated.
SPECIFICATION Spec
CONSTANTS
  reader = reader
  writer = writer
  pg = pg
  my = my
  root = root
  leaf = leaf
  Empty = Empty
  Roles = {reader, writer}
  Protocols = {pg, my}
  Clusters = {root, leaf}
  Own = root
  MaxEdits = 0
INVARIANTS
  FallbackOnlyWithoutAccess
\* An Open ends.
CHECK_DEADLOCK FALSE
