SPECIFICATION Spec
CONSTANTS
  ann = ann
  bob = bob
  t1 = t1
  t2 = t2
  Users = {ann, bob}
  Tasks = {t1, t2}
  NoUser = NoUser
  InitRole <- AdminAndManager
  Inviter <- AnnInvitedBob
  InitKey = 1
  InitRooms = 0
  Requests = {"Join", "CreateRoom", "SetRoomPassword", "SetRole", "KickFromRoom", "RemoveUser", "RemoveInactive", "Promote", "Restart"}
  ShareSettings = {1}
  DbMayFail = FALSE
  MaxRoomId = 2
  MaxConn = 3
  MaxHash = 2
  MaxKey = 1
  MaxEpoch = 3
  MaxAlloc = 2
  MaxOnline = 2
  MaxSignedIn = 2
  MaxRooms = 1
  MaxRoomMembers = 1
  MaxRoomShares = 1
SYMMETRY TaskSymmetry
CHECK_DEADLOCK FALSE
INVARIANTS AccessEarned
PROPERTIES RecordsLast
