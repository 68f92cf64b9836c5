\* Two threads, three addresses (one is the sentinel at first), the one slot
\* a stack uses of its five, and an item field that may hold anything.
CONSTANTS
  Nodes = {n1, n2, n3}
  Items = {x}
  NULL = NULL
  NumThreads = 2
  SlotsPerThread = 1
  RETIRED_NODES_THRESHOLD = 0
  RawItems = {x, NULL}
SYMMETRY Symmetry
SPECIFICATION Spec
INVARIANTS TypeOK MemorySafe OneOwner IInv
PROPERTIES ReclaimsSafely Linearizable
