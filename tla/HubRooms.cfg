SPECIFICATION Spec
CONSTANTS
  ann = ann
  bob = bob
  t1 = t1
  t2 = t2
  Users = {ann, bob}
  Tasks = {t1, t2}
  NoUser = NoUser
  InitRole <- AdminAndManager
  Inviter <- AnnInvitedBob
  InitKey = 1
  InitRooms = 2
  Requests = {"Join", "DeleteRoom", "SetEncryptionKey"}
  ShareSettings = {1}
  DbMayFail = TRUE
  MaxRoomId = 2
  MaxConn = 2
  MaxHash = 1
  MaxKey = 2
  MaxEpoch = 2
  MaxAlloc = 3
  MaxOnline = 2
  MaxSignedIn = 2
  MaxRooms = 2
  MaxRoomMembers = 2
  MaxRoomShares = 1
SYMMETRY TaskSymmetry
CHECK_DEADLOCK FALSE
INVARIANTS MembershipAgrees ToldCurrent
PROPERTIES EpochsRefined
