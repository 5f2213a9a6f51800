SPECIFICATION Spec
CONSTANTS
  Users = {1, 2, 3}
  Danmus <- PlainDanmus
  ConfigFiles <- PlainFiles
  SocketSize = 1
  None = None
INVARIANTS
  TypeOK
  LastWordCounts
PROPERTIES
  ImplementsLine
  EventuallyShown
  EventuallyGone
