SPECIFICATION FairSpec
CONSTANTS
    Deliveries = {d1, d2, d3, d4}
    Conversations = {c1}
    Groups = {g1}
    Workers = {w1}
    Keys = {d1, d2, d3, d4}
    MessageIds = {d1, d2, d3, d4}
    None = None
    ConversationOf <- AllInC1
    KeyOf <- Identity
    MessageIdOf <- Identity
    PriorityOf <- ForTheBot
    MustKeep = {d1, d2}
    Leased = {}
    GroupOf <- PrivateChat
    MaxPending = 2
    DedupeSize = 4
    HandledSize = 4
    HistoryLimit = 4
    SpawnMayFail = FALSE
    Expiring = {}
    c1 = c1
    c2 = c2
    g1 = g1
    d1 = d1
    d2 = d2
    d3 = d3
    d4 = d4
CHECK_DEADLOCK FALSE
PROPERTIES
    ConsecutiveMessagesMerge
