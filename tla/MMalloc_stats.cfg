SPECIFICATION Spec
CONSTANTS
  HeapSize = 12
  Alignment = 2
  Header = 2
  Word = 64
  Requests = {2, 4}
  MaxCalls = 5
INVARIANT StatsCountFreeBlocks
CHECK_DEADLOCK FALSE
