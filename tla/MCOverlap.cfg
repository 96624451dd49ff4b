\* Two queries of one chat answered at the same time.
CONSTANTS
    Runs = {r1, r2}
    Chats = {c1}
    NoChat = NoChat
    NoRun = NoRun
    MaxDelta = 1
    MaxPhase = 1
    Sessions = {s1}
    CronRuns = {}
    MaxUpdates = 2
SPECIFICATION DeliverySpec
SYMMETRY Symmetry
INVARIANT NoDuplicate
CHECK_DEADLOCK FALSE
