SPECIFICATION FairProgram
CONSTANTS
  x = x
  central = central
  chicago = chicago
  berlin = berlin
  noon = noon
  ann = ann
  v1 = v1
  Letter = {x}
  Space = sp
  Newline = nl
  OtherBlank = {cr}
  BufSize = 5
  MaxFile = 6
  ReadMayFail = TRUE
  Utc = Utc
  Unset = Unset
  Bad = Bad
  CutShort = CutShort
  MaxLines = 6
  Meaning <- MCMeaning
  Line <- MCLine
  MsZone <- MCMsZone
  Xref <- MCXref
  HomeTZ <- MCHomeTZ
  MinusOne = {}
  NameRank <- MCNameRank
  Failures = {"read"}
INVARIANTS
  ProgramTypeOK
  LettersKept
  LinesUnfold
  ReportOfFile
PROPERTY ProgramEnds
