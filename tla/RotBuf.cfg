SPECIFICATION Spec
CONSTANTS
  t1 = t1
  t2 = t2
  local = local
  gmt = gmt
  addr = addr
  Thread = {t1, t2}
  Fn = {local, gmt, addr}
  Timed = {local, gmt}
  Fallible = {addr}
  NBufs <- MCNBufs
  UintMod = 16
  MaxCalls <- MCMaxCalls
  MaxFailures = 1
  NULL = NULL
  Garbage = Garbage
INVARIANT LastAnswersStand
PROPERTY ShownAsAsked
CHECK_DEADLOCK FALSE
