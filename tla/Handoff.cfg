CONSTANTS
    Clients = {c1}
    Subs = {k1}
    Writers = {w1, w2}
    MaxId = 3
    MaxClock = 2
    LastSeens <- FromEither
    NoLastSeen = NoLastSeen
    Milli = 2
    StartSkews <- NoSkew
    ZoneShift <- NoShift
    MayStall = {}
    MaxRestarts = 0
SPECIFICATION Spec
INVARIANT HandoffLosesOneBatch GapRepeatsLittle
SYMMETRY Interchangeable
