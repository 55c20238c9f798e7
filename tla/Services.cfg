SPECIFICATION ServicesSpec
CONSTANTS
    u1 = u1  u2 = u2  w1 = w1  w2 = w2  s1 = s1  r1 = r1
    e1 = e1  e2 = e2  p1 = p1
    None = None
    Users <- TwoUsers
    Workers <- TwoWorkers
    MaxFaults = 1
    MaxWork = 4
    Stories <- OneStory
    Roles <- OneRole
    RoleStory <- OfStory
    GroupIds = {1, 2}
    Subjects = {1}
    StoryIds = {1}
    RoleIds = {1}
    BoardIds = {2}
    SceneIds = {1, 2}
    Emails <- TwoEmails
    Phones <- OnePhone
    Capacity = 1
    PageSize = 2
    ListedRows = 3
    RowIds = {1, 2}
    ChatRoles = {1}
    MaxMessages = 2
    MaxPages = 4
SYMMETRY Exchangeable
INVARIANTS
    ServicesTypeOK
    RoleCountsAgree
    StoryCountsStayEarned
    JoinsCountTwice
    DefaultGroupAfterLeaving
    CommentCountsAgree
    StoryIsWrittenOnce
    BoardRenderIsNeverFound
    EditKeptUnlessCrossed
    TokenNamesTheUser
    DeliveredTwiceAtMost
    PanicsOnlyAfterTheEnd
    NumberedOnceUnlessShared
    NothingMissedUnlessLeft
    NothingTwiceUnlessInFront
    EditsStandUnlessDisturbed
    RepliesStayInTheirChat
PROPERTIES
    HiddenStaysHidden
    StuckForGood
CHECK_DEADLOCK FALSE
