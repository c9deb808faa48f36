SPECIFICATION FairSpec
CONSTANTS
    MaxOpens = 1
    CrashPhases = {"asked"}
    SignalPhases = {}
PROPERTIES
    SessionFollowsWindow
CHECK_DEADLOCK FALSE
