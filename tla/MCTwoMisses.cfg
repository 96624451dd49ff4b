\* The pong count is carried into the next connection.
CONSTANTS
    MaxConns = 2
    MaxSends = 0
    MaxPings = 1
    AckCap = 1
SPECIFICATION Spec
PROPERTY TwoMissesToClose
CHECK_DEADLOCK FALSE
