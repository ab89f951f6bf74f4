\* four warriors and little room between them: posit() retries, backtracks
\* and gives up, and npos() has several ways to use the room
CONSTANTS
    DefaultCoresize = 11
    RETRIES1 = 2
    RETRIES2 = 2
    CommandLines <- AllCommandLines
    NoNumber = NoNumber
    MAXLENGTH = 3
    UINT = 64
    FIELD = 16
SPECIFICATION StartSpec
INVARIANTS PosTypeOK Apart CodesApart
PROPERTIES PositionsFound
\* main() may have ended
CHECK_DEADLOCK FALSE
