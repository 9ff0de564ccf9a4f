SPECIFICATION Spec
CONSTANTS
  r1 = r1
  r2 = r2
  Responses <- TwoResponses
  Loads <- OpenLine
INVARIANT Decrypted
CHECK_DEADLOCK FALSE
