SPECIFICATION FairSpec
CONSTANTS
  ann = ann
  bob = bob
  t1 = t1
  t2 = t2
  Users = {ann, bob}
  Tasks = {t1, t2}
  NoUser = NoUser
  InitRole <- AdminAndManager
  Inviter <- AnnInvitedBob
  InitKey = 1
  InitRooms = 1
  Requests = {"Join", "SetMedia", "SetWatched", "RequestKeyframe"}
  ShareSettings = {1}
  DbMayFail = FALSE
  MaxRoomId = 1
  MaxConn = 2
  MaxHash = 1
  MaxKey = 1
  MaxEpoch = 3
  MaxAlloc = 2
  MaxOnline = 2
  MaxSignedIn = 2
  MaxRooms = 1
  MaxRoomMembers = 2
  MaxRoomShares = 1
CHECK_DEADLOCK FALSE
INVARIANTS MediaAgrees
PROPERTIES IdrServed
