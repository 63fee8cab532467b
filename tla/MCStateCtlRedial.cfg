CONSTANTS
    c1 = c1  c2 = c2  c3 = c3  n1 = n1  n2 = n2  s1 = s1  s2 = s2  s3 = s3
    Nobody = Nobody  NoNumber = NoNumber  NoSession = NoSession
    Chan = {c1, c2}
    Quiet = {}
    Number = {n1}
    num <- Redial
    Session = {s1, s2, s3}
    MaxCount = 0
SPECIFICATION FairSpec
CHECK_DEADLOCK FALSE
PROPERTIES
    KickedLeave
    CallSettles
