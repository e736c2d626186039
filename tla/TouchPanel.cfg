\* Bytes of three bits; 0x8040 and the others become registers of the same order.
SPECIFICATION FairSpec
CONSTANTS
  Bits = 3
  Tries = 2
  DevAddr = 4
  None = None
  COMMAND = 10
  VERSION = 11
  PID1 = 20
  STATUS = 30
  TRACKID1 = 31
  InfoSize = 3
  PointSize = 2
  Coordinate = {1, 6}
INVARIANTS TypeOK BusFree
PROPERTIES FramesOnly ImplementsRegisterBus CallReturns
