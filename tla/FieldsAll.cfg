SPECIFICATION Spec
CONSTANTS
  Bytes <- XOnly
  Posts <- PostBodies
  Urls <- GetUrls
  Forms <- TwoFields
  Passes = 2
INVARIANTS
  TypeOK
  Recoverable
  EncryptedOnce
  LengthMatches
  PlainExplained
CHECK_DEADLOCK FALSE
