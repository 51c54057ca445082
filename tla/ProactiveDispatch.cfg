SPECIFICATION FairSpec
CONSTANTS
    once = once
    often = often
    hook = hook
    s1 = s1
    s2 = s2
    e1 = e1
    None = None
    NoEvent = NoEvent
    Turn = Turn
    Loose = Loose
    Command = Command
    Tasks = {once, often, hook}
    Slots = {s1, s2}
    Works = {often}
    Events = {e1}
    Controllers = {s1, s2, Turn, Loose, Command}
    TriggerOf <- Triggers
    MaxOps = 2
    MaxFlights = 2
    MaxTasks = 1
    MaxTotal = 3
    MaxRestarts = 2
CHECK_DEADLOCK FALSE
INVARIANTS
    TypeOK
    EnabledHasRow
    OneFlight
    EventOnce
    ClaimIsAnswered
    CutStaysOff
PROPERTY EveryFlightEnds
