CONSTANTS
    Shows <- TheShows
    MaxFragments = 2
    MaxBuffered = 3
    MaxWaiting = 2
    MaxPending = 2
    InboxSize = 2
    OutSize = 1
    Window = 8
    Stragglers = 2
    KeyWait = 2
    ReorderWait = 1
    MaxTime = 3
    Tracks = {t1, t2}
    Users = {u}
    HangoverPulls = 1
    Rates = {48000, 11025}
    SampleRate = 48000
    MacOS = TRUE
    MaxCalls = 2
    MaxQueued = 1
    MaxCommands = 3
    MaxPulls = 4
    a1 = a1
    a2 = a2
    NumSeqs = 4
    AudioTracks = {a1, a2}
    Loads <- TheLoads
    Inbox = 2
    MaxReceived = 2
    MaxAudio = 3
    MaxVideo = 2
    History = 2
SPECIFICATION Spec
CHECK_DEADLOCK FALSE
INVARIANTS UnitsDelivered
PROPERTIES QueuesKept CallsApart
