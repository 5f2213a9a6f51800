SPECIFICATION Spec
CONSTANTS
  Users = {1, 2}
  Danmus <- ShippedDanmus
  ConfigFiles <- ShippedFiles
  SocketSize = 1
  None = None
INVARIANTS
  BlacklistHolds
