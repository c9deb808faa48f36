SPECIFICATION FairSpec
CONSTANTS
    l1 = l1
    l2 = l2
    None = None
    Launch = {l1, l2}
    Dialog = {"help"}
    MaxClicks = 2
    MaxWindows = 2
    MaxTries = 1
INVARIANT ServedInOrder
PROPERTIES
    EachServed
    EndsAfterWindow
CHECK_DEADLOCK FALSE
