\* Three signers, no crash; the session may expire at any moment.
SPECIFICATION FairSpec
CONSTANTS
    p1 = p1
    p2 = p2
    p3 = p3
    Participants <- Three
    Creator = p1
    MaxStarts = 1
    Faulty = {}
    MayExpire = TRUE
    MessageIs32Bytes = FALSE
INVARIANT NoSignerAborts
PROPERTIES
    AllSign
    JoinedSignerEnds
CHECK_DEADLOCK FALSE
