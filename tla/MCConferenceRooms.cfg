CONSTANTS
    k1 = k1  p1 = p1  p2 = p2  m1 = m1  m2 = m2  a1 = a1  a2 = a2  a3 = a3
    NoRoom = NoRoom  NoKey = NoKey
    Key = {k1}
    Room = {p1, p2}
    Member = {m1, m2}
    Addr = {a1, a2, a3}
    MS_RECV_TIMEOUT = 3
    SELECT_TIMEOUT = 2
    MAX_PARTICIPANT = 3
SPECIFICATION FairSpec
CHECK_DEADLOCK FALSE
INVARIANTS
    SilentRoomEnds
    VideoReachesTheOthers
PROPERTY
    RoomsEnd
