CONSTANTS
    q1 = q1
    q2 = q2
    q3 = q3
    s1 = s1
    s2 = s2
    t1 = t1
    t2 = t2
    None = None
    Query = {q1, q2, q3}
    Stream = {s1, s2}
    Table = {t1, t2}
    Reads <- ModuleReads
    Private = {q2}
    Unloadable = {q3}
    Kinds <- AllKinds
    Paced = TRUE
    Again = {}
    MaxFlight = 0
SPECIFICATION MSpec
INVARIANTS ReplyIsMine Agreement ModuleWhole
PROPERTY RequestsEnd
