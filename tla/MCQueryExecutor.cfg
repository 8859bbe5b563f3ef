CONSTANTS
    NumFiles = 2
    IterationChoices <- SmallIterations
    Modes <- AllModes
    TimeoutChoices = {0, 5}
    ClockDeltas <- MonotoneDeltas
    ServerTimes = {3}
    RoundDurations = {1}
SPECIFICATION Spec
INVARIANT TypeOK
INVARIANT RoundCountsExact
INVARIANT ResultsInRoundOrder
INVARIANT ReportCoversRun
INVARIANT ConnectionReleased
PROPERTY BenchmarkRunSpec
