CONSTANTS
    a = a  b = b
    Peer = {a, b}
    MaxSend <- Two
    MaxRetries = 1
    Starts <- Transferred
SPECIFICATION Spec
CHECK_DEADLOCK FALSE
INVARIANT
    AckedWereSeen
