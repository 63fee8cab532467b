CONSTANTS
    s1 = s1  s2 = s2  s3 = s3
    c1 = c1  c2 = c2  c3 = c3  c4 = c4
    NULL = NULL  NoCallno = NoCallno  NoLine = NoLine
    max_calls = 1
    Slot = {s1, s2}
    Callno = {c1, c2, c3}
SYMMETRY Symmetry
SPECIFICATION Spec
INVARIANTS
    FinalFrameNamesItsSession
