\* three generations of six warriors, two benchmarks of two warriors
CONSTANTS
    Founders = 2
    Children = 4
    NBenchmarks = 2
    NEnemies = 2
    Rounds = 1
    Outcomes <- WinOrTie
    Possible <- Mixed
    Scale = 3
    MaxGenerations = 2
SPECIFICATION GradingSpec
INVARIANTS TypeOK PendingIsScheduled BreedOnGrades TopMates ChildrenCounted OwnedOnce
PROPERTIES GradingEnds
\* breed() may crash, and the model stops after MaxGenerations
CHECK_DEADLOCK FALSE
