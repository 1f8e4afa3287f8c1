\* One session, in which the other participant may join a second time, after a
\* loss of its socket.
SPECIFICATION FairSpec
CONSTANTS
    p1 = p1
    p2 = p2
    s1 = s1
    NoSession = NoSession
    Participants <- Two
    Creator = p1
    Sessions <- OneSession
    Unreliable = {p2}
    MaxSockets = 2
    MaxJoins <- Twice
    MayRefresh = TRUE
INVARIANTS
    TypeOK
    NoncesSignOnce
    SignatureSignedByAll
PROPERTIES
    SignatureStays
    AllSigned
    AbortNoticed
CHECK_DEADLOCK FALSE
