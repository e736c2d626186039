SPECIFICATION Spec
CONSTANTS
  Length = 8
  MaxTrans = 4
  Packet = 2
  Frame = 2
  Thresholds = {1, 3, 4, 5}
  Api = {"start", "pause", "resume"}
  Late = FALSE
  MaxPackets = 5
  MaxStarts = 2
  MaxStraddles = 0
  MaxErrors = 1
INVARIANTS TypeOK ChannelsKept
PROPERTIES NothingSkipped UnderrunReported ProgrammedWhenOff
CHECK_DEADLOCK FALSE
