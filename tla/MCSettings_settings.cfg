SPECIFICATION FairSpec
CONSTANTS
    Fields = {"theme", "apps"}
    Dialogs = {"appearance", "configure"}
    Broken = {"malformed", "mistyped", "unreadable"}
    HostLook = 1
    MaxCommands = 2
    MaxWrites = 2
INVARIANT TypeOK
PROPERTIES
    Converges
    SaveKeepsRest
CHECK_DEADLOCK FALSE
