SPECIFICATION PartsSpec
CONSTANTS
    Counted = {c1, c2}
    Direct = {d1}
    NoOne = NoOne
    MaxNonce = 3
    User = {u1, u2}
    Telegram = {t1}
    Packet = {p1}
    Deposit = {deposit1}
    Checkout = {checkout1}
    Request = {c1, c2}
    MaxAmount = 2
    None = None
SYMMETRY Symm
CHECK_DEADLOCK FALSE
INVARIANTS
    NoGapWithoutOverlap
    NoReplacementWithoutOverlap
    OverdraftHasCause
    Solvent
