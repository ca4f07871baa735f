\* A store that starts empty or filled, with None stored, restored, the log cleared.
SPECIFICATION StoreSpec
CONSTANTS
    k1 = k1
    k2 = k2
    v1 = v1
    v2 = v2
    None = None
    Key = {k1, k2}
    Val = {v1, None}
    Initials <- EmptyOrFilled
    Saved <- EmptyOrFilled
    SetsBack = FALSE
    MaxTime = 2
    MaxLog = 3
INVARIANTS
    ChangelogChains
    LoggedKeysReplayed
