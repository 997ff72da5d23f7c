SPECIFICATION FairSpec
CONSTANTS
  Thread = {t1, t2, t3}
  NoThread = NoThread
  Dflt = Dflt
  Empty = Empty
  MaxCalls = 2
  StderrMayFail = TRUE
INVARIANTS
  TypeOK
  MessageIntact
  LinesWhole
  SwapsSafe
  ReportedBeforeAbort
PROPERTY CallsReturn
CHECK_DEADLOCK FALSE
