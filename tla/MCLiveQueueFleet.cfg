SPECIFICATION Spec
CONSTANTS
  Users = {1, 2, 3, 4, 5}
  Danmus <- FleetDanmus
  ConfigFiles <- FleetFiles
  SocketSize = 1
  None = None
INVARIANTS
  FleetFirst
  BlacklistHolds
