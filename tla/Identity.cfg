CONSTANTS
    ann = ann
    bob = bob
    eve = eve
    me = me
    Users = {me, ann, bob, eve}
    Rooms = {1}
    Refused = {19}
    MaxMembers = 2
    MaxEarly = 1
    MaxPresent = 3
    PeerLists <- ManyLists
    Sealed <- SealedByPeers
    OurKeys = {1, 2}
    OurMedia = 3
    MaxEpoch = 2
    NumSecrets = 2
    Pairs = {a1, a2}
    Keys = {k1, k2}
    NoKey = NoKey
    MaxSeen = 2
    MaxNoted = 1
    ProfilesOpened = {a1, a2}
    MaxAsked = 1
    MaxEvents = 3
    Addresses = {a1}
    MaxIdentities = 3
    MaxEnc = 3
    MaxNow = 2
    Lifetime = 3
    RenewBefore = 1
    Skew = 1
    MaxConns = 3
    MaxDials = 2
SPECIFICATION IdentitySpec
CHECK_DEADLOCK FALSE
INVARIANTS NoReplay SecretsCurrent IdentityKept IdentityProved
PROPERTIES AudienceKept TrustEarned
