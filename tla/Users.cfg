SPECIFICATION Spec
CONSTANTS
    Mobile = {a1, a2}
    None = None
    MaxFaults = 1
    Union = {b1, b2}
    Request = {r1, r2, r3}
    MaxUser = 3
    Code = {b1, b2}
    Caller = {r1, r2}
    MaxSent = 2
    Token = {a1, a2, a3}
    Eth = Eth
    Absent = Absent
SYMMETRY Names
CHECK_DEADLOCK FALSE
INVARIANTS
    OneWalletEach
    CacheIsTrue
    PageShows
