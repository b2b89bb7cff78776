CONSTANTS
    Clients = {}
    Subs = {}
    Writers = {w1, w2}
    MaxId = 3
    MaxClock = 3
    LastSeens <- FromTheStart
    NoLastSeen = NoLastSeen
    Milli = 2
    StartSkews <- AnySkew
    ZoneShift <- NoShift
    MayStall = {}
    MaxRestarts = 1
SPECIFICATION FairSpec
PROPERTY NeverDropsPending FeedSpec PendingIsBroadcast
