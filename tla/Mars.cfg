\* two warriors in a core so small that they meet at once
CONSTANTS
    NWarriors = 2
    Processes = 3
    Cycles = 12
    Coresize = 5
    PSpace_size = 2
    Programs <- Menu
    Positions <- Facing
SPECIFICATION MarsSpec
INVARIANTS FieldsInRange OutcomeTold
PROPERTIES Spec LocationZeroIsPrivate
\* a battle stops when it is over
CHECK_DEADLOCK FALSE
