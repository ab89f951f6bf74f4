\* three warriors, three rounds, every way to have a PIN; the warriors fill
\* core to the last location, so that posit() fails often
CONSTANTS
    Coresize = 6
    NWarriors = 3
    OPT_minsep = 2
    RETRIES1 = 1
    RETRIES2 = 1
    UINT = 16
    FIELD = 8
    OPT_rounds = 3
    Start = 1
    PSpace_size = 2
    Pins = {p}
    NoPin = NoPin
SPECIFICATION Spec
INVARIANTS TypeOK ResultsTrue ResultsAddUp PinsShare PSpaceLoyal StartFair
\* the program ends after the last round
CHECK_DEADLOCK FALSE
