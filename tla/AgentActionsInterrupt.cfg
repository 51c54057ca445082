SPECIFICATION Spec
CONSTANTS
    o1 = o1
    o2 = o2
    Ops = {o1, o2}
    None = None
    MaxTurns = 2
    MaxAsks = 2
    MaxCrashes = 1
INVARIANT
    InterruptStops
