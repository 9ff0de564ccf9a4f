SPECIFICATION Spec
CONSTANTS
  Requests <- AllRequests
  CiphersOf <- CiphersIn
  BufferSize = 4
  Opens <- AllOpens
INVARIANTS
  TypeOK
  LookupExplained
  FoundExplained
  PlainExact
  PartsApart
  ChainWhole
  PassesExact
  OverrunNeedsFlag
  Returned
CHECK_DEADLOCK FALSE
