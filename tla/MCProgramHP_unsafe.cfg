\* A list with three addresses beside its sentinel, two keys and three calls, and
\* a numofThreads that happens to hold the number of threads.
CONSTANTS
  Nodes = {n1, n2, n3, n4}
  Pool = {n1, n2, n3}
  StackPool = {n1, n2, n3}
  Structures = {"list"}
  Items = {x}
  NULL = NULL
  NumThreads = 2
  SlotsPerThread = 3
  RETIRED_NODES_THRESHOLD = 0
  RawItems = {x}
  ThreadCounts = {2}
  Elements = {0, 1}
  MaxCalls = 3
SYMMETRY Symmetry
SPECIFICATION Spec
INVARIANTS MemorySafe
