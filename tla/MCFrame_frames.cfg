SPECIFICATION FairSpec
CONSTANTS
    MaxDeltas = 1
    FullFrames = 1
    Ages = {0, 1, 2}
    Fails = {"bind", "draw", "submit"}
INVARIANTS
    TypeOK
    NoDeltaLost
PROPERTIES
    ClickActed
    ChangeShown
    CursorReturns
CHECK_DEADLOCK FALSE
