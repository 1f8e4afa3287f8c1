\* A message of 32 bytes; nothing expires.
SPECIFICATION Spec
CONSTANTS
    p1 = p1
    p2 = p2
    p3 = p3
    Participants <- Two
    Creator = p1
    MaxStarts = 1
    Faulty = {}
    MayExpire = FALSE
    MessageIs32Bytes = TRUE
INVARIANT NoSignerAborts
CHECK_DEADLOCK FALSE
