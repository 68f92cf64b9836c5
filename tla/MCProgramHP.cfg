\* Two threads and three of the five slots (a list uses three, a queue two).
\* A queue has three addresses, one of which is the sentinel at first, and an
\* item field that may hold anything; a list has three beside its sentinel,
\* two keys and three calls, and a numofThreads that may be 0 or the number
\* of threads.
CONSTANTS
  Nodes = {n1, n2, n3, n4}
  Pool = {n1, n2, n3}
  StackPool = {n1, n2, n3}
  Structures = {"queue", "list"}
  Items = {x}
  NULL = NULL
  NumThreads = 2
  SlotsPerThread = 3
  RETIRED_NODES_THRESHOLD = 0
  RawItems = {x, NULL}
  ThreadCounts = {0, 2}
  Elements = {0, 1}
  MaxCalls = 3
SYMMETRY Symmetry
SPECIFICATION Spec
INVARIANTS TypeOK ProtectedSafe OneOwner TailFollows IInv
PROPERTIES ReclaimsSafely Linearizable SetLinearizable
