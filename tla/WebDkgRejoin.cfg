\* One session; the participant whose socket was lost may join once more.
SPECIFICATION Spec
CONSTANTS
    p1 = p1
    p2 = p2
    s1 = s1
    NoSession = NoSession
    Participants <- Two
    Creator = p1
    Sessions <- OneSession
    Unreliable = {p2}
    MaxSockets = 2
    MaxJoins <- OtherTwice
    MayRefresh = FALSE
    IsCreator = {p1}
INVARIANT FinalizedKeyDerivedByAll
PROPERTY ImplementsOutcome
CHECK_DEADLOCK FALSE
