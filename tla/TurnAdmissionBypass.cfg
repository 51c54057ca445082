SPECIFICATION Spec
CONSTANTS
    Sessions = {s1}
    Messages = {m1, m2, m3, m4}
    Tokens = {m1, m2, m3, m4}
    NoToken = NoToken
    s1 = s1
    SessionOf <- InS1
    Controls = {"open", "exit", "create", "switch", "clear", "archive", "other"}
    MaxPending = 2
    MaxRestarts = 1
CHECK_DEADLOCK FALSE
INVARIANTS
    ModesAreSeparate
