CONSTANTS
  Conns = {r1, r2}
  Keys = {k1, k2}
  FirstKey = k1
  MaxUserId = 2
  MaxSerial = 2
  NumIds = 2
  IdReuse = TRUE
  MaxTime = 2
  InviteTries = 2
  InviteLifetime = 2
  DailyInvites = 1
SPECIFICATION FairSpec
INVARIANTS TypeOK TriesBounded RunsWatched InviteCap
PROPERTIES BurnedInTime
