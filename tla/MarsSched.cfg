\* three warriors, two processes each: the slices wrap around the buffer
CONSTANTS
    NWarriors = 3
    Processes = 2
    Cycles = 4
    Coresize = 2
SPECIFICATION Spec
INVARIANTS TypeOK QueuesIntact RingIntact TieIsFair
PROPERTIES NeverOverwrites ClockRuns ImplementsBattle
\* a battle stops when it is over
CHECK_DEADLOCK FALSE
