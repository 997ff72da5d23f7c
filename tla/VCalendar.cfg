SPECIFICATION Spec
CONSTANTS
  central = central
  nowhere = nowhere
  chicago = chicago
  berlin = berlin
  noon = noon
  epoch = epoch
  ann = ann
  ANN = ANN
  bob = bob
  v1 = v1
  v2 = v2
  Utc = Utc
  Unset = Unset
  Bad = Bad
  CutShort = CutShort
  MaxLines = 3
  MsZone <- MCMsZone
  Xref <- MCXref
  Line <- MCLine
  HomeTZ <- MCHomeTZ
  MinusOne <- MCMinusOne
  NameRank <- MCNameRank
  Failures = {"memory", "read", "write", "start"}
INVARIANTS
  ReportTrue
  AllOrNothing
  ZoneRestored
  FailureExplained
