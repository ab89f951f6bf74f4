\* an allocation that fails before one that does not
CONSTANTS
    Coresize = 9
    PSpace_size = 2
    MaxAllocs = 2
    minsep = 3
    maxlength = 3
    AllRounds = {1, 2}
    Codes <- TwoCodes
    Sizes = {1, 2}
    Bomb <- Trash
    MaxBattles = 2
SPECIFICATION DuelSpec
INVARIANTS EarlierFreed
CHECK_DEADLOCK FALSE
