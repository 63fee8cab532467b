CONSTANTS
    a1 = a1  a2 = a2  b1 = b1  A = A  B = B
    NoAddr = NoAddr  NoCallno = NoCallno  NoToken = NoToken
    Ip <- MCIp
    Client = {A, B}
    Addr = {a1, a2, b1}
    MaxBeats = 5
    MaxLost = 2
    MaxMoves = 1
VIEW View
SYMMETRY Symmetry
SPECIFICATION Spec
INVARIANTS
    ConnectedWhenQuiet
    DirectPathIsProven
    DirectPathReachesPeer
CHECK_DEADLOCK FALSE
