SPECIFICATION Spec
CONSTANTS
  ann = ann
  bob = bob
  Users = {ann, bob}
  Rooms = {1, 2}
  Refused = {}
  MaxMembers = 4
  MaxEarly = 8
  MaxPresent = 4
  NumSecrets <- ManySecrets
  Stories <- BothStories
CHECK_DEADLOCK FALSE
INVARIANTS ViewsAgree OnlyMembersKnow
