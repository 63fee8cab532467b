CONSTANTS
    a1 = a1  a2 = a2  b1 = b1
    c1 = c1  c2 = c2
    t1 = t1  t2 = t2
    NoAddr = NoAddr  NoCallno = NoCallno  NoToken = NoToken
    Ip <- MCIp
    Callno = {c1, c2}
    Addr = {a1, a2, b1}
    Token = {t1, t2}
    MaxRoutes = 2
VIEW View
SYMMETRY Symmetry
SPECIFICATION Spec
INVARIANTS
    ReleasedIsUnreachable
    PathFitsAddresses
    LegsAreDistinct
PROPERTIES
    RouteNeverReopens
    SwitchIsAnnouncedToBoth
