\* Two participants; one is restarted once, on a new connection.
SPECIFICATION Spec
CONSTANTS
    p1 = p1
    p2 = p2
    p3 = p3
    Participants <- Two
    Creator = p1
    MaxStarts = 2
    Faulty = {p2}
    MayExpire = FALSE
INVARIANT WrittenShareBelongsToGroup
CHECK_DEADLOCK FALSE
