SPECIFICATION FairSpec
CONSTANTS
  Thread = {t1, t2}
  NoThread = NoThread
  Dflt = Dflt
  Empty = Empty
  MaxCalls = 1
  StderrMayFail = TRUE
PROPERTY
  EzFailureTerminates
CHECK_DEADLOCK FALSE
