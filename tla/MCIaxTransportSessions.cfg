CONSTANTS
    a = a  b = b
    Peer = {a, b}
    MaxSend <- ThreeAndOne
    MaxRetries = 1
    Starts <- Sessions
SPECIFICATION FairSpec
CHECK_DEADLOCK FALSE
INVARIANTS
    NothingIsForgotten
    GapIsReported
PROPERTIES
    ImplementsStream
    FrameArrivesOrTimesOut
