\* Two threads.  Stack and queue: four addresses (one is the sentinel at first),
\* two items, and three grace periods before the threads stop calling: enough for
\* an address to be freed and reused while an enqueue retries.  List: five
\* addresses (two are sentinels), two keys, and three calls after the list has been
\* filled.
CONSTANTS
  Nodes = {n1, n2, n3, n4, n5}
  Pool = {n1, n2, n3, n4}
  Items = {x, y}
  NULL = NULL
  NumThreads = 2
  MaxVersion = 2
  UNASSIGNED = 20
  NOT_READING = 21
  Elements = {0, 1}
  MaxCalls = 3
SYMMETRY Symmetry
SPECIFICATION Spec
INVARIANTS TypeOK MemorySafe GracePeriod IInv NoneUnreclaimed OneOwner
PROPERTIES ReclaimsSafely Linearizable SetLinearizable
