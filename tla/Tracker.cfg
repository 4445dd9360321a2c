SPECIFICATION PartsSpec
CONSTANTS
    Keys = {today, yesterday, older}
    BatchSize = 2
    MaxEvents = 1
    MaxStarts = 1
    Counted = {c1, c2}
    Direct = {d1}
    NoOne = NoOne
    MaxNonce = 1
    Airdrop = {1, 2, 3}
    PageSize = 2
    MaxSubs = 1
    MaxFaults = 1
CHECK_DEADLOCK FALSE
INVARIANTS
    LossHasCause
PROPERTIES
    KeepsPromise
    MapIsFlushed
    EveryCallEnds
    Reached
