SPECIFICATION LiveSpec
CONSTANTS
    Code = {c1}
    other = None
    here = here
    there = there
    Airdrop = {here}
    AirdropOf <- MCAirdropOf
    Wallet = {w1}
    Member = {ann}
    Request = {r1}
    Admin = {}
    None = None
    MaxMsg = 2
    ChannelSize = 1
    BufSize = 1
    PoolSize = 1
    MaxFaults = 1
    MaxEnds = 1
CHECK_DEADLOCK FALSE
PROPERTIES
    MessageEnds
