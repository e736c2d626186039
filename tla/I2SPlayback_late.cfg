SPECIFICATION FairSpec
CONSTANTS
  Length = 8
  MaxTrans = 4
  Packet = 2
  Frame = 2
  Thresholds = {2, 4}
  Api = {}
  Late = TRUE
  MaxPackets = 6
  MaxStarts = 1
  MaxStraddles = 2
  MaxErrors = 0
INVARIANTS LossBounded
PROPERTIES BlocksAreHeard
