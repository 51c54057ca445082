SPECIFICATION Spec
CONSTANTS
    c1 = c1
    c2 = c2
    c3 = c3
    r1 = r1
    r2 = r2
    p1 = p1
    p2 = p2
    Calls = {c1, c2, c3}
    Requests = {r1, r2}
    Prints = {p1, p2}
    RequestOf <- ThreeCalls
    PrintOf <- PrintsOfThree
    MaxRecords = 1
    MaxSends = 0
    Expiring = {r1}
    MaxRestarts = 1
INVARIANTS TypeOK QueuedOnce
CHECK_DEADLOCK FALSE
CONSTRAINT TakesRoom
