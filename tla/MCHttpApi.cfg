\* Pushes at once: failing disks, rejections, lost frames, late ACKs, two deaths.
CONSTANTS
    Pushes = {p1, p2}
    Objects = {p1, p2}
    None = None
    Chunks = 2
    AckCap = 4
    Pieces = 2
    NoFile = NoFile
    Torn = Torn
    MaxDeaths = 2
SPECIFICATION FairHttpSpec
INVARIANTS HttpTypeOK OwnMediaInTime WholeMedia ServedIsWhole UploadedIsKept
PROPERTIES KeepsShelf AcceptedEnds
CHECK_DEADLOCK FALSE
