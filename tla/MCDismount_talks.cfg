SPECIFICATION FairSpec
CONSTANTS
    a1 = a1
    a2 = a2
    v1 = v1
    v2 = v2
    x1 = x1
    None = None
    Attempt = {a1, a2}
    Volume = {v1, v2}
    App = {x1}
INVARIANTS
    TypeOK
    OneStopPerConsent
    SignalUnderway
PROPERTIES
    NoHelperForgotten
    TeardownProceeds
    NoLostWakeup
CHECK_DEADLOCK FALSE
