\* Two queries and a scheduled run of one chat, two platform sessions, in turn;
\* one of the answers in up to two bubbles.
CONSTANTS
    Runs = {r1, r2}
    Chats = {c1}
    NoChat = NoChat
    NoRun = NoRun
    MaxDelta = 1
    MaxPhase = 2
    Sessions = {s1, s2}
    CronRuns = {k1}
    MaxUpdates = 2
SPECIFICATION DeliverySpec
SYMMETRY Symmetry
CONSTRAINTS InTurn OneMoreBubble EarlyIsSmall
INVARIANTS DeliveryTypeOK NoDuplicateInTurn PushedOnce NothingLost RememberedIsDone
PROPERTY SuppressedWasStreamed
CHECK_DEADLOCK FALSE
