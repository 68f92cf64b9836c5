\* A stack with two addresses, a queue with three, and a list with three beside
\* its sentinel, one key and three calls; items that are never nullptr, and no
\* symmetry but the choice of the first node.
CONSTANTS
  Nodes = {n1, n2, n3, n4}
  Pool = {n1, n2, n3}
  StackPool = {n1, n2}
  Structures = {"stack", "queue", "list"}
  Items = {x}
  NULL = NULL
  NumThreads = 2
  SlotsPerThread = 3
  RETIRED_NODES_THRESHOLD = 0
  RawItems = {x}
  ThreadCounts = {2}
  Elements = {0}
  MaxCalls = 3
SPECIFICATION LiveSpecFrom
INVARIANTS NothingLeaked
PROPERTIES LockFree Terminates
