CONSTANTS
    OtherWords <- SomeOtherWords
    Pending = Pending
    Skipped = Skipped
SPECIFICATION Spec
INVARIANTS
    ToolsAgree
