\* One version is enough: the grace period of an enqueue does not end.
CONSTANTS
  Nodes = {n1, n2, n3}
  Items = {x}
  NULL = NULL
  NumThreads = 2
  MaxVersion = 1
  UNASSIGNED = 20
  NOT_READING = 21
SPECIFICATION FairSpec
PROPERTIES Terminates
