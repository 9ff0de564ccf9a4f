SPECIFICATION Spec
CONSTANTS
  Responses <- AllResponses
  Chains <- ShortChains
  Byte = {"a", "b", "n"}
  LF = "n"
  BufSize = 2
  Quote = "q"
  MaxInput <- BodyOf
INVARIANTS
  TypeOK
  NoReuseInFlight
  BufferedMeansHeld
  LengthHonest
  HangExplained
PROPERTY ImplementsContract
CHECK_DEADLOCK FALSE
