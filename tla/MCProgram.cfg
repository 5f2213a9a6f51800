SPECIFICATION Spec
CONSTANTS
  Clients = {"c1", "c2"}
  Browsers = {}
  Words <- Labels
  Files <- ShippedFiles
  MAX_INJECTION_NUM = 2
  Backlog = 2
  Descriptors = 4
  None = None
  CanFail = {"parse_config", "bind", "_socketpair", "qlist_create"}
  MaxVersion = 1
  MaxRestarts = 1
CHECK_DEADLOCK FALSE
INVARIANTS
  TypeOK
  DescriptorsAccounted
  PageIsWhole
  AnsweredAsAsked
  ReadyWhenServing
PROPERTIES
  EventuallyAnswered
