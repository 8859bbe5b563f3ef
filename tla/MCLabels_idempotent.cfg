CONSTANTS
    OtherWords <- SomeOtherWords
    Pending = Pending
    Skipped = Skipped
SPECIFICATION Spec
INVARIANTS
    ScenarioIdempotent
