\* the population of main(): does breed() come to an end?
CONSTANTS
    Founders = 2
    Children = 1
    NBenchmarks = 1
    NEnemies = 1
    Rounds = 1
    Outcomes <- WinOrLose
    Possible <- AnyOutcome
    Scale = 2
    MaxGenerations = 1
SPECIFICATION Spec
PROPERTIES BreedingEnds
\* breed() may crash, and the model stops after MaxGenerations
CHECK_DEADLOCK FALSE
