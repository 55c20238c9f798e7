SPECIFICATION Spec

CONSTANTS
    s1 = s1
    s2 = s2
    u1 = u1
    t1 = t1
    t2 = t2
    NoStory = NoStory
    MaxBoards = 1
    Stories <- OneStory
    Users <- OneUser
    Tasks <- TwoTasks
    MaxCounted = 1
    MaxFaults = 0
    MaxWork = 2

SYMMETRY TaskSymmetry

PROPERTIES
    DeletedStaysDeleted

CHECK_DEADLOCK FALSE
