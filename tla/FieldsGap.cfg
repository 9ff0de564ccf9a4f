SPECIFICATION Spec
CONSTANTS
  Bytes <- XOnly
  Posts <- TwoValues
  Urls <- None
  Forms <- SeveralOnly
  Passes = 2
INVARIANTS
  UploadEncrypted
CHECK_DEADLOCK FALSE
