\* Three bots in one group, a clock of two readings, two ids per second, a restart.
CONSTANTS
    AppKeys = {default, a1, a2}
    Default = default
    NoBot = NoBot
    Scopes = {x}
    NoId = NoId
    Times = {1, 2}
    LastInSec = 1
    MaxSec = 3
    MaxLives = 2
SPECIFICATION RoutingSpec
INVARIANTS RoutingTypeOK AnswersGoHome FlagIsFound
PROPERTIES SeqIncreases IdsAreStable
CHECK_DEADLOCK FALSE
