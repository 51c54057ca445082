SPECIFICATION Spec
CONSTANTS
    here = here
    there = there
    r1 = r1
    r2 = r2
    None = None
    Sessions = {here, there}
    Requests = {r1, r2}
    Window = 2
    Batch = 1
    HistoryLimit = 1
    FailureLimit = 1
    MaxDialogs = 3
    MaxFaults = 2
SYMMETRY Symmetric
CONSTRAINT Bounded
INVARIANTS
    NothingSkipped
    PromptSkipsNothing
    ResetIsFinal
    NoJobStranded
PROPERTY SummaryGrows
CHECK_DEADLOCK FALSE
