\* four warriors, and a separation that four times is 0 again
CONSTANTS
    DefaultCoresize = 11
    RETRIES1 = 2
    RETRIES2 = 2
    CommandLines <- Quarter
    NoNumber = NoNumber
    MAXLENGTH = 3
    UINT = 64
    FIELD = 16
SPECIFICATION StartSpec
INVARIANT SpaceForAll
CHECK_DEADLOCK FALSE
