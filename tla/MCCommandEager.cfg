CONSTANTS
    q1 = q1
    s1 = s1
    t1 = t1
    None = None
    Query = {q1}
    Stream = {s1}
    Table = {t1}
    Reads <- EagerReads
    Private = {}
    Unloadable = {}
    Kinds <- AllKinds
    Paced = FALSE
    Again = {}
    MaxFlight = 2
SPECIFICATION Spec
INVARIANTS NoCommandLost LiveInputs
CHECK_DEADLOCK FALSE
