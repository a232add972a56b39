\* Every pair of listings of up to three servers of two databases, and every
\* configuration over two names and two labels.
SPECIFICATION Spec
CONSTANTS
  orders = orders
  users = users
  prod = prod
  blue = blue
  pg = pg
  my = my
  nodb = nodb
  Empty = Empty
  Names = {orders, users}
  Labels = {prod, blue}
  Protocols = {pg, my}
  NoDatabase = nodb
  Listings <- MCListings
INVARIANTS
  LInv
  ReadAnswers
  ProtocolAgrees
\* A lookup ends.
CHECK_DEADLOCK FALSE
