\* every instruction, and some founders and their children
CONSTANTS
    Coresize = 5
    PSpace_size = 2
    MAXLENGTH = 4
    maxlength = 3
    Shelves <- AllShelves
SPECIFICATION OffspringSpec
INVARIANTS AssembledAsWritten RoundTrip StaysFertile OpInfoAgrees HalvesAgree OperandsAreCached
PROPERTIES CreateEnds
\* warriors that have been read again, and programs that have ended
CHECK_DEADLOCK FALSE
