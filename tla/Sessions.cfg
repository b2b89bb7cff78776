CONSTANTS
    Reshares = {r1}
    Signs = {s1}
    Deletes = {}
    Sessions <- TheSession
    Vaults <- TheVault
    SessionOf <- OneSession
    VaultOf <- OneVault
    MaxCrashes = 1
    MaxShutdowns = 1
SPECIFICATION FairSpec
INVARIANT TypeOK DuplicateHasCause OncePerSession OkHasTaskOrFailure BoundedRuns CompletedWasDone
PROPERTY TaskSettles
