SPECIFICATION Spec
CONSTANTS
  HeapSize = 24
  Alignment = 2
  Header = 2
  Word = 64
  Requests = {0, 1, 2, 3, 4, 5, 8, 16, 18, 31, 32, 62, 63}
  MaxCalls = 6
INVARIANTS TypeOK HeapSound Accounting FailsOnlyWithoutRoom
PROPERTIES ImplementsAllocator
CHECK_DEADLOCK FALSE
