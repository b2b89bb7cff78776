CONSTANTS
    Clients = {c1}
    Subs = {k1, k2}
    Writers = {w1}
    MaxId = 2
    MaxClock = 1
    LastSeens <- FromTheStart
    NoLastSeen = NoLastSeen
    Milli = 2
    StartSkews <- NoSkew
    ZoneShift <- ZoneAhead
    MayStall = {c1}
    MaxRestarts = 0
SPECIFICATION FairSpec
INVARIANT ReplayExclusive HistoryFlagIsAccurate NobodyWedged
PROPERTY SubscriptionCompletes FollowerIsServed
