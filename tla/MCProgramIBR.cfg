\* Two threads, three addresses (one is the sentinel at first) and, for a list, a
\* fourth that is its sentinel; a list has two keys and three calls.  Every
\* allocation advances the epoch (every 150th of a thread in the code), and a
\* list is swept whenever its length was even (a multiple of 30 in the code).
\* A list's numThreads, which is never initialised, may be 0 or right.
CONSTANTS
  Nodes = {n1, n2, n3, n4}
  Pool = {n1, n2, n3}
  Items = {x}
  NULL = NULL
  NumThreads = 2
  epochFreq = 1
  emptyFreq = 2
  StatRange = 8
  UINT64_MAX = 20
  MaxEpoch = 3
  StackMaxEpoch = 2
  Elements = {0, 1}
  MaxCalls = 3
  ThreadCounts = {0, 2}
  RawStats = {0, 1}
  RawItems = {x, NULL}
SYMMETRY Symmetry
SPECIFICATION Spec
INVARIANTS TypeOK OneOwner TailFollows
PROPERTIES OldNodesKept SetLinearizable
