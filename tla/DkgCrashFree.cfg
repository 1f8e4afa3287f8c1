\* Three participants, no crash; the session may expire at any moment.
SPECIFICATION FairSpec
CONSTANTS
    p1 = p1
    p2 = p2
    p3 = p3
    Participants <- Three
    Creator = p1
    MaxStarts = 1
    Faulty = {}
    MayExpire = TRUE
INVARIANTS
    WrittenShareBelongsToGroup
    NoClientAborts
PROPERTIES
    AllFinish
    JoinedClientEnds
CHECK_DEADLOCK FALSE
