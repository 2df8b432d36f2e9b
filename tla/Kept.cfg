CONSTANTS
    c1 = c1
    c2 = c2
    c3 = c3
    home = home
    office = office
    net = net
    r1 = r1
    r2 = r2
    r3 = r3
    voice = voice
    screen = screen
    h1 = h1
    h2 = h2
    session = session
    sender = sender
    Sockets = {c1, c2, c3}
    SourceOf <- TwoAddresses
    NetworkOf <- OneNetwork
    Caps <- SmallCaps
    Hosts = {home, office}
    NetOf <- OneNetwork
    RegionOf <- OneNetwork
    Arrivals <- SmallBursts
    Runners = {r1, r2, r3}
    HostOf <- RunHosts
    RunLimit <- SmallWindows
    WindowLength = 2
    Guessers = {c1, c2}
    FreeFailures = 2
    LongestWait = 4
    FailureMemory = 6
    RoomFailures = 3
    MaxGuesses = 5
    MaxForgiven = 2
    IngressTracks = {voice, screen}
    VideoTrack = screen
    TrackBurst <- SmallTrack
    IngressBurst <- SmallIngress
    Processes = {q1, q2}
    MaxKeys = 2
    MaxMounts = 1
    Hashes = {h1, h2}
    Turns = 1
    SlotsKept = 1
    ImagesKept = 1
    MaxWaiting = 2
    MaxUpsets = 3
    Askers = {session, sender}
    TheSession = session
    LastId = 2
    Outgoing = 1
    Wire = 1
    ServerQueue = 1
    EventQueue = 1
    Pictures = 1
    MaxAsks = 4
    MaxEmits = 3
SPECIFICATION Spec
CHECK_DEADLOCK FALSE
INVARIANTS RepliesMatch
PROPERTIES SlotsShared LimitsHold DirectoryKept AvatarsShown RequestsEnd
