SPECIFICATION PartSpec
CONSTANTS
    s1 = s1
    s2 = s2
    s3 = s3
    p1 = p1
    p2 = p2
    u1 = u1
    u2 = u2
    t1 = t1
    t2 = t2
    r1 = r1
    r2 = r2
    Slot = {s1, s2, s3}
    Packet = {p1, p2}
    PacketOf <- MCPacketOf
    User = {u1, u2}
    Telegram = {t1, t2}
    Request = {r1, r2}
    None = None
SYMMETRY Symm
CHECK_DEADLOCK FALSE
INVARIANTS
    OwnerHasTitle
    OrphanHasCause
    AllTakenIsFull
