\* The end of the range the comment on delay_us gives: 64 \div 5 = 12.
SPECIFICATION Spec
CONSTANTS
  Word = 64
  HalfWord = 4
  Reload = 9
  FacUs = 5
  MsUs = 4
  UsCalls = {12}
  MsCalls = {1}
  HalCalls = {1}
  MaxGap = 6
INVARIANT Punctual
