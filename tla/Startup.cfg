CONSTANTS
    Processes = {agent, worker, second}
    System <- SystemFiles
    Plugin <- PluginFiles
    Exclusive <- NotRepeatable
    MaxFaults = 1
SPECIFICATION FairSpec
INVARIANT AppliedOnce
PROPERTY UpgradeSpec AllServe
