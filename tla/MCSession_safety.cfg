SPECIFICATION Spec
CONSTANTS
    h1 = h1
    h2 = h2
    h3 = h3
    s1 = s1
    s2 = s2
    NoSource = NoSource
    None = None
    Helper = {h1, h2, h3}
    Source = {s1, s2}
    Outwaits = {}
    KillPhases = {"recover", "serve", "close", "addWait"}
SYMMETRY Symmetry
INVARIANTS
    TypeOK
    Tracked
    LiveSessionOwnsLock
    OneSession
    LeaderFindable
    OneDevicePerSource
    NothingLeftDecrypted
PROPERTIES
    LedgerSpec
CHECK_DEADLOCK FALSE
