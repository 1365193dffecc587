SPECIFICATION QueueSpec
CONSTANTS
  Msg = {a, b}
  Node = {n1, n2, n3}
  NULL = null
  Consumers = {c1, c2}
  SEM_MAX = 2
INVARIANTS
  TypeOK
  Linked
  PermitsBacked
PROPERTIES
  NothingStranded
  ImplementsFifo
