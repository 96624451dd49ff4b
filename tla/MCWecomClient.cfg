\* Reconnects, late ACKs and pongs, vanished peers, cancellation.
CONSTANTS
    MaxConns = 2
    MaxSends = 3
    MaxPings = 1
    AckCap = 2
SPECIFICATION FairSpec
INVARIANTS TypeOK OneOpenLink SubscribedHere CreditedHere
PROPERTIES DeadLinkIsLeft CancelEndsRun
CHECK_DEADLOCK FALSE
