SPECIFICATION FairSpec
CONSTANTS
    c1 = c1
    c2 = c2
    c3 = c3
    r1 = r1
    r2 = r2
    p1 = p1
    p2 = p2
    Calls = {c1, c2}
    Requests = {r1}
    Prints = {p1, p2}
    RequestOf <- TwoCalls
    PrintOf <- SamePrints
    MaxRecords = 1
    MaxSends = 2
    Expiring = {}
    MaxRestarts = 0
INVARIANTS ReceiptIsTrue OutcomeIsTrue RefusalIsFinal
PROPERTIES TerminalIsFinal EveryCallReturns
CHECK_DEADLOCK FALSE
