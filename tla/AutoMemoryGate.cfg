SPECIFICATION FairSpec
CONSTANTS
    p1 = p1
    p2 = p2
    v1 = v1
    Procs = {p1, p2}
    Vaults = {v1}
    VaultOf <- MCVaultOf
    NoProc = NoProc
    MaxToggles = 2
    MaxTriggers = 1
    MaxWrites = 1
    MaxCrashes = 1
    MaxLosses = 1
INVARIANTS
    OneHolder
    TriggersExpire
PROPERTIES
    NoWriteAfterDisable
    VersionsIncrease
    LeftoverBroken
ACTION_CONSTRAINT OneMishap
