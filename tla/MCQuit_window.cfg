SPECIFICATION FairSpec
CONSTANTS
    MaxOpens = 3
    CrashPhases = {"absent", "seen", "ending", "dead"}
    SignalPhases = {"absent", "asked", "opening", "opened", "seen", "ending",
                    "dead"}
INVARIANTS
    TypeOK
PROPERTIES
    NeverVanishes
    QuitEnds
    SessionFollowsWindow
CHECK_DEADLOCK FALSE
