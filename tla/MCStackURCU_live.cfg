\* Two threads, three addresses, one item and three grace periods, without
\* symmetry, which liveness checking does not allow.
CONSTANTS
  Nodes = {n1, n2, n3}
  Items = {x}
  NULL = NULL
  NumThreads = 2
  MaxVersion = 2
  UNASSIGNED = 20
  NOT_READING = 21
SPECIFICATION FairSpec
PROPERTIES GracePeriodEnds Terminates
