CONSTANTS
    NumFiles = 1
    IterationChoices = {11}
    Modes = {"simple"}
    TimeoutChoices = {0}
    ServerTimes = {3}
    RoundDurations = {1}
    ClockDeltas = {0}
SPECIFICATION Spec
INVARIANT RoundCountsExact
