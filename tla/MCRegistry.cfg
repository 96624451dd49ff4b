\* Two callers, whose Registers may overlap; deaths, restarts and
\* disk errors.
CONSTANTS
    Callers = {w1, w2}
    ChatIds = {c1, c2}
    Targets = {t1, t2}
    NoTarget = NoTarget
    NotJSON = NotJSON
    Files = {f1, f2, f3}
    NoFile = NoFile
SPECIFICATION Spec
SYMMETRY Symmetry
CONSTRAINT NotBoth
INVARIANTS TypeOK Persisted DiskBehindMemory
CHECK_DEADLOCK FALSE
