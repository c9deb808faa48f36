SPECIFICATION Spec
CONSTANTS
    a1 = a1
    a2 = a2
    v1 = v1
    v2 = v2
    x1 = x1
    None = None
    Attempt = {a1, a2}
    Volume = {v1, v2}
    App = {x1}
PROPERTIES
    StoppedOnlyForADismount
CHECK_DEADLOCK FALSE
