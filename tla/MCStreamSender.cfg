\* One run in depth: stale callbacks, rotations, failed sends.
CONSTANTS
    Runs = {r1}
    Chats = {c1}
    NoChat = NoChat
    MaxDelta = 4
    MaxPhase = 3
SPECIFICATION FairSpec
INVARIANTS TypeOK NoLostTick ClosedIsComplete
PROPERTIES KeepsPromise TextIsFlushed
CHECK_DEADLOCK FALSE
