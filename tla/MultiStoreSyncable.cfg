SPECIFICATION FairSpec
CONSTANTS
    Stores = {acc, staking, gov}
    Contents <- MCContents
    Empty = 0
    Blocks = {1, 2}
    Exec <- MCExec
    KeepRecent = 1
    KeepEvery = 2
    CrashFrom = 1
    MaxVersion = 4
INVARIANT CommitsSound
PROPERTIES
    EveryBlockCommitted
    LogSpec
