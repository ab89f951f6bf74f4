\* two battles of up to two rounds; any malloc may fail
CONSTANTS
    Coresize = 9
    PSpace_size = 2
    MaxAllocs = 2
    minsep = 3
    maxlength = 3
    AllRounds = {1, 2}
    Codes <- TwoCodes
    Sizes = {1, 2}
    Bomb <- Trash
    MaxBattles = 2
SPECIFICATION DuelSpec
INVARIANTS AllOrNothing LoadedWhole PSpaceFresh ResultsAddUp
PROPERTIES LostByFailureOnly
\* the program ends
CHECK_DEADLOCK FALSE
