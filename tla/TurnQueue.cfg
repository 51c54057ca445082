SPECIFICATION FairSpec
CONSTANTS
    Deliveries = {d1, d2, d3, d4}
    Conversations = {c1}
    Groups = {g1}
    Workers = {w1, w2}
    Keys = {d1, d2, d3, d4}
    MessageIds = {d1, d2, d3, d4}
    None = None
    ConversationOf <- AllInC1
    KeyOf <- Again
    MessageIdOf <- Again
    PriorityOf <- ForTheBot
    MustKeep = {d1, d2}
    Leased = {d1, d3}
    GroupOf <- PrivateChat
    MaxPending = 2
    DedupeSize = 1
    HandledSize = 1
    HistoryLimit = 4
    SpawnMayFail = TRUE
    Expiring = {"keys"}
    c1 = c1
    c2 = c2
    g1 = g1
    d1 = d1
    d2 = d2
    d3 = d3
    d4 = d4
CHECK_DEADLOCK FALSE
INVARIANTS
    TypeOK
    OneWorker
    Serialised
    PendingIsServed
    InFlightOnce
    LeaseFollowsTurn
    ToldIsFinal
PROPERTIES
    ImplementsSerialTurns
    AcceptedIsSettled
    IdleIsCollected
