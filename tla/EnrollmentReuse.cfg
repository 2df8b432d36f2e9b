CONSTANTS
  Conns = {r1, r2}
  Keys = {k1, k2}
  FirstKey = k1
  MaxUserId = 2
  MaxSerial = 2
  NumIds = 1
  IdReuse = TRUE
  MaxTime = 1
  InviteTries = 2
  InviteLifetime = 1
  DailyInvites = 1
SPECIFICATION Spec
SYMMETRY AnyConn
INVARIANT SingleUse
