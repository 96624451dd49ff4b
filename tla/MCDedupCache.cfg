\* Two messages, callers that wait up to one tick, a TTL of four.
CONSTANTS
    Keys = {k1, k2}
    Blank = Blank
    TTL = 4
    Skew = 1
    MaxClock = 8
SPECIFICATION Spec
INVARIANTS TypeOK
PROPERTIES ActsAsSuppressor AdmittedApart
CHECK_DEADLOCK FALSE
