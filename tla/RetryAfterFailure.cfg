CONSTANTS
    Reshares = {r1, r2}
    Signs = {}
    Deletes = {}
    Sessions <- TheSession
    Vaults <- TheVault
    SessionOf <- OneSession
    VaultOf <- OneVault
    MaxCrashes = 0
    MaxShutdowns = 0
SPECIFICATION Spec
INVARIANT OkMeansQueued
