CONSTANTS
    l1 = l1  l2 = l2
    Line = {l1, l2}
    MaxEvents = 3
SYMMETRY Symmetry
SPECIFICATION Spec
CONSTRAINT FewMishaps
CHECK_DEADLOCK FALSE
INVARIANTS
    StreamsBelongToTheCall
    CrashIsExplained
    AudioFollowsTheCall
    NothingOutlivesTheCall
