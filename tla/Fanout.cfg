CONSTANTS
    Clients = {c1, c2}
    Subs = {k1}
    Writers = {w1}
    MaxId = 2
    MaxClock = 1
    LastSeens <- Never
    NoLastSeen = NoLastSeen
    Milli = 1
    StartSkews <- NoSkew
    ZoneShift <- NoShift
    MayStall = {c1}
    MaxRestarts = 0
SPECIFICATION FairSpec
INVARIANT TypeOK LiveAtMostOnce
PROPERTY SubscriptionCompletes
