CONSTANTS
    bob = bob
    Others = {bob}
    Rooms = {1, 2}
    Configs = {1, 2}
    Stories <- TheStories
    MaxQueued = 2
    Hosts = {h1, h2}
    Nowhere = Nowhere
    MaxAttempts = 3
    MaxProfiles = 2
    Sharers = {u1, u2}
    Me = me
    NoUser = NoUser
    MaxWindows = 2
    Pics = {p1, p2}
    NoPic = NoPic
    MaxActs = 3
    MaxCommands = 2
    MaxKept = 1
    MaxFaults = 1
SPECIFICATION Spec
CHECK_DEADLOCK FALSE
INVARIANTS SessionAgrees JoinsInOrder
PROPERTIES WindowsAgree PicturesKept
