SPECIFICATION FairSpec
CONSTANTS
    h1 = h1
    h2 = h2
    s1 = s1
    s2 = s2
    NoSource = NoSource
    None = None
    Helper = {h1, h2}
    Source = {s1, s2}
    Outwaits = {"parent", "child", "cleanup"}
    KillPhases = {"recover", "close", "addWait"}
PROPERTIES
    DeadSessionDrains
    TeardownOnlyOwn
CHECK_DEADLOCK FALSE
