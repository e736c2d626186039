\* Requests whose ticks leave room for one gap in a word.
SPECIFICATION Spec
CONSTANTS
  Word = 64
  HalfWord = 4
  Reload = 9
  FacUs = 3
  MsUs = 4
  UsCalls = {0, 1, 2, 9, 17}
  MsCalls = {0, 3}
  HalCalls = {2}
  MaxGap = 9
INVARIANTS TypeOK NeverShort Punctual
