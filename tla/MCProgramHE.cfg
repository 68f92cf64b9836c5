\* Two threads and the three of the five slots that a list uses (a queue uses
\* two, a stack one).  A stack or a queue has three addresses, one of which is the
\* sentinel at first, and no call is made once the clock has reached 4 (3 with a
\* stack); a list has three addresses beside its sentinel, two keys and three
\* calls.
CONSTANTS
  Nodes = {n1, n2, n3, n4}
  Pool = {n1, n2, n3}
  Items = {x}
  NULL = NULL
  NumThreads = 2
  SlotsPerThread = 3
  MaxEra = 4
  StackMaxEra = 3
  Elements = {0, 1}
  MaxCalls = 3
  RawItems = {x, NULL}
SYMMETRY Symmetry
SPECIFICATION Spec
INVARIANTS TypeOK EraCovers OneOwner TailFollows IInv
PROPERTIES SetLinearizable
