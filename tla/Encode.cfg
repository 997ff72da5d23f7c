SPECIFICATION EncoderSpec
CONSTANTS
  Encoder = {"XML", "URL", "HTML", "JSON", "regex", "SQL", "any"}
  Alphabet <- MCAlphabet
  MaxLen = 3
  MayRefuse = TRUE
INVARIANTS
  ReadsBack
  NothingInvented
  CutIsTold
