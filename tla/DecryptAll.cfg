SPECIFICATION Spec
CONSTANTS
  r1 = r1
  r2 = r2
  Responses <- TwoResponses
  Loads <- AllLoads
INVARIANTS
  TypeOK
  Decrypted
  FlagRepeats
  QuietBetweenCalls
  CrashExplained
CHECK_DEADLOCK FALSE
PROPERTY TurnsEnd
