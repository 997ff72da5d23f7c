SPECIFICATION FairSpec
CONSTANTS
  a = a
  A0 = A0
  Char = {a, A0}
  Lower <- MCLower
  Text <- MCText
  SizeHint = 10
  HeapMax = 11
  FileChunks = 1
  FormatMayFail = TRUE
INVARIANTS
  TypeOK
PROPERTIES
  SuccessIsWhole
  ImplementsAString
  CallsReturn
