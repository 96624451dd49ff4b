\* ACKs that come after their timeout.
CONSTANTS
    Pushes = {p1, p2}
    None = None
    Chunks = 2
    AckCap = 4
SPECIFICATION Spec
INVARIANT OwnMedia
CHECK_DEADLOCK FALSE
