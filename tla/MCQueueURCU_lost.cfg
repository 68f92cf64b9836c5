\* The bounds of MCProgramURCU.cfg for the queue, with one item
\* and one more grace period.
CONSTANTS
  Nodes = {n1, n2, n3, n4}
  Items = {x}
  NULL = NULL
  NumThreads = 2
  MaxVersion = 5
  UNASSIGNED = 20
  NOT_READING = 21
SYMMETRY Symmetry
SPECIFICATION Spec
INVARIANTS EnqueuedStays
