CONSTANTS
    v1 = v1
    v2 = v2
    Validators = {v1, v2}
    SignedBlocksWindow = 2
    MinSignedPerWindow = 1
    MaxEvidenceAge = 2
    DowntimeJailDuration = 2
    DoubleSignJailEndTime = 99
    UnbondingTime = 3
    TimeSteps = {1}
    MaxHeight = 6
SPECIFICATION Spec
SYMMETRY Symmetry
CHECK_DEADLOCK FALSE
INVARIANTS RingSound NoPanic StillAccountable PenaltiesServed
