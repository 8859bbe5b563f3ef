CONSTANTS
    NumFiles = 2
    IterationChoices <- SmallIterations
    Modes <- AllModes
    TimeoutChoices = {0, 5}
    ServerTimes = {3}
    RoundDurations = {1}
    ClockDeltas <- MonotoneDeltas
SPECIFICATION Spec
INVARIANT ServerTimePreferred
