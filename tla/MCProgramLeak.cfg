SPECIFICATION Spec
CONSTANTS
  Clients = {"browser"}
  Browsers = {"browser"}
  Words <- Labels
  Files <- ShippedFiles
  MAX_INJECTION_NUM = 2
  Backlog = 2
  Descriptors = 4
  None = None
  CanFail = {}
  MaxVersion = 1
  MaxRestarts = 0
CHECK_DEADLOCK FALSE
PROPERTIES
  KeepsRefreshing
