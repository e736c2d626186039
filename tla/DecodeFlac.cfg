\* Two refused closes leave one slot, too few for the next call.
SPECIFICATION FairSpec
CONSTANTS
  Locks = 3
  Pcms = {p1, p2}
  Flac = Flac
  Null = Null
  Size = 2
  MaxLost = 1
INVARIANTS TypeOK FilesOwnLocks NothingLeft
PROPERTY DecodeReturns
