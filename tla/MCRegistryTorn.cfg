\* Two Registers at once: they share the temporary file.
CONSTANTS
    Callers = {w1, w2}
    ChatIds = {c1, c2}
    Targets = {t1, t2}
    NoTarget = NoTarget
    NotJSON = NotJSON
    Files = {f1, f2, f3}
    NoFile = NoFile
SPECIFICATION Spec
INVARIANT ReadableWhenReturned
CHECK_DEADLOCK FALSE
