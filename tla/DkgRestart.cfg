\* Two participants, one of whom may crash and be started once more.
SPECIFICATION Spec
CONSTANTS
    p1 = p1
    p2 = p2
    p3 = p3
    Participants <- Two
    Creator = p1
    MaxStarts = 2
    Faulty = {p2}
    MayExpire = TRUE
INVARIANTS
    TypeOK
    CompletedKeyDerivedByAll
    ArtifactsNameCompletedKey
    RoundsComplete
    DerivedKeysFullyDealt
PROPERTY ImplementsOutcome
CHECK_DEADLOCK FALSE
