SPECIFICATION FairSpec
CONSTANTS
    MaxCopies = 2
    MaxQueue = 1
    MaxPullers = 1
    Primary = TRUE
    Faults = {"hung", "lost", "bare"}
INVARIANTS
    TypeOK
    CountsDown
    ExitIsClean
    NoCarryOver
PROPERTIES
    CopyCleared
    ExitEnds
CHECK_DEADLOCK FALSE
