\* The bounds of MCProgramHE.cfg.
CONSTANTS
  Nodes = {n1, n2, n3, n4}
  Pool = {n1, n2, n3}
  Items = {x}
  NULL = NULL
  NumThreads = 2
  SlotsPerThread = 3
  MaxEra = 4
  StackMaxEra = 3
  Elements = {0, 1}
  MaxCalls = 3
  RawItems = {x, NULL}
SYMMETRY Symmetry
SPECIFICATION Spec
INVARIANTS MemorySafe
