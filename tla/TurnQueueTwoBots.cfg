SPECIFICATION Spec
CONSTANTS
    Deliveries = {d1, d2, d3, d4}
    Conversations = {c1, c2}
    Groups = {g1}
    Workers = {w1, w2}
    Keys = {d1, d2, d3, d4}
    MessageIds = {d1, d2, d3, d4}
    None = None
    ConversationOf <- Bots
    KeyOf <- Identity
    MessageIdOf <- SharedId
    PriorityOf <- ForTheBot
    MustKeep = {d1, d2, d3, d4}
    Leased = {}
    GroupOf <- OneGroup
    MaxPending = 1
    DedupeSize = 4
    HandledSize = 4
    HistoryLimit = 2
    SpawnMayFail = TRUE
    Expiring = {"records"}
    c1 = c1
    c2 = c2
    g1 = g1
    d1 = d1
    d2 = d2
    d3 = d3
    d4 = d4
CHECK_DEADLOCK FALSE
INVARIANTS
    ContextIsOfKeptTurns
