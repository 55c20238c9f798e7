SPECIFICATION Spec

CONSTANTS
    s1 = s1
    s2 = s2
    u1 = u1
    t1 = t1
    t2 = t2
    NoStory = NoStory
    MaxBoards = 3
    Stories <- TwoStories
    Users <- OneUser
    Tasks <- TwoTasks
    MaxCounted = 2
    MaxFaults = 1
    MaxWork = 4

SYMMETRY Symmetry

INVARIANTS
    TypeOK
    ContinuesAncestor
    StoryHasItsRoot
    CountsWereEarned

CHECK_DEADLOCK FALSE
