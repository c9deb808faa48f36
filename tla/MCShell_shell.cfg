SPECIFICATION Spec
CONSTANTS
    Windows = {w1, w2}
    Buttons = {"left", "right"}
    Keys = {"ctrl"}
    None = None
INVARIANTS
    TypeOK
    NothingStuck
PROPERTY FocusKept
CHECK_DEADLOCK FALSE
