CONSTANTS
    Reshares = {r1}
    Signs = {}
    Deletes = {d1, d3}
    d3 = d3
    Sessions <- TheSession
    Vaults <- TwoVaults
    SessionOf <- OneSession
    VaultOf <- OneOfTheOther
    PublicKeyOf <- OneKey
    NoEvent = NoEvent
    MaxCrashes = 1
    MaxShutdowns = 1
SPECIFICATION FeedSpec
INVARIANT EventsAreTrue LastEventTellsFile
