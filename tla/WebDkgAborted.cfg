\* One session, every participant joins once, one socket may be lost once.
SPECIFICATION Spec
CONSTANTS
    p1 = p1
    p2 = p2
    s1 = s1
    NoSession = NoSession
    Participants <- Two
    Creator = p1
    Sessions <- OneSession
    Unreliable = {p2}
    MaxSockets = 2
    MaxJoins <- Once
    MayRefresh = FALSE
    IsCreator = {p1}
PROPERTY AbortedStaysAborted
CHECK_DEADLOCK FALSE
