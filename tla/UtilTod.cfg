SPECIFICATION Spec
CONSTANTS
  A = A
  B = B
  Bar = Bar
  Space = Space
  MaxSymbols = 3
  MaxName = 2
  ByteBits = 8
  UintMod = 256
  Day = 48
  Shift = 2
  NoTime = NoTime
  Unanswered = Unanswered
  Days <- MCDays
  Zone <- MCZoneSpring
  From <- MCFrom
  Char <- MCChar
  Table <- MCTable
  Word <- MCWord
  Text <- MCText
  Bytes <- MCBytes
  NameSize = 6
  MailSize = 2
  ZoneName <- MCZoneName
  ZoneTable <- MCZoneTable
  Written <- MCWritten
  Prose <- MCProse
INVARIANT TodIsFound
