SPECIFICATION EitherSpec
CONSTANTS
    old = old
    new = new
    s1 = s1
    s2 = s2
    PairTx = 2
    Process <- MCProcess
    Parent = old
    Sub <- MCSub
    ChunkSize = 1
    MaxTx = 4
    MaxTrouble = 1
CHECK_DEADLOCK FALSE
INVARIANTS
    PaidTwiceHasCause
    NonceNeedsOverlap
    StopWaitsForChunk
PROPERTY
    RestIsPaid
