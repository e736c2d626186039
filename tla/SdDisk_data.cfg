\* A request of 3 blocks is one of two pieces, and leaves the card unless it starts at 0.
SPECIFICATION FairSpec
CONSTANTS
  NBlocks = 3
  Chunk = 2
  Value = {0, 1}
  Counts = {1, 3}
  Timeout = 2
  Absent = Absent
INVARIANTS TypeOK BufferHandedOver NoLostCompletion TransferOwned
PROPERTIES ImplementsDisk CallReturns
