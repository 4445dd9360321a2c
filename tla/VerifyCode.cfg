SPECIFICATION PartSpec
CONSTANTS
    Code = {c1, c2, other}
    other = other
    here = here
    there = there
    Airdrop = {here, there}
    AirdropOf <- MCAirdropOf
    Wallet = {w1, w2}
    Member = {ann, boss}
    Request = {r1, r2}
    Admin = {boss}
    None = None
    MaxMsg = 2
    ChannelSize = 1
    BufSize = 1
    PoolSize = 2
    MaxFaults = 1
    MaxEnds = 1
CHECK_DEADLOCK FALSE
SYMMETRY Names
INVARIANTS
    FiledIsTrue
    OneCodePerWallet
    CountedRight
    StopCutsOnlyLate
PROPERTY
    KeepsPromise
