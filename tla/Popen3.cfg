SPECIFICATION FairSpec
CONSTANTS
  c1 = c1
  c2 = c2
  Child <- MCChild
  Pid <- MCPid
  NoAnswer = NoAnswer
  NoChild = NoChild
  Parent = Parent
  Fd <- MCFd
  Closed = Closed
  Other = Other
  OpenAtStart <- MCOpenAtStart
  MaxMs <- MCMaxMs
  MinPause = 2
  Program = {"reads", "writes", "stays"}
  ClientCloses = {0}
  MayInterrupt = TRUE
INVARIANTS
  StreamsAttached
  NothingLeaks
PROPERTIES
  ReapsChild
  CallsReturn
CHECK_DEADLOCK FALSE
