SPECIFICATION LocalSpec
CONSTANTS
    p1 = p1
    p2 = p2
    p3 = p3
    s1 = s1
    s2 = s2
    w1 = w1
    trace = trace
    ent = ent
    fauto = fauto
    fent = fent
    h1 = h1
    h2 = h2
    k1 = k1
    k2 = k2
    a7 = a7
    a71 = a71
    a72 = a72
    Process = {p1, p2, p3}
    Server = {}
    Unguarded = {p3}
    Session = {s1, s2}
    SessionOf <- MCSessionOf
    Write = {w1}
    NoWrite = NoWrite
    TTL = 1
    MaxTime = 3
    Agent = {p1, p2}
    Chat = {s1}
    ChatOf <- MCChatOf
    ModeOf <- MCModeOf
    Homeless = {}
    Top = {trace, ent}
    Exempt = {}
    Family = {fauto, fent}
    FamilyFor <- MCFamilyFor
    NoFamily = NoFamily
    Scopes <- MCScopes
    FamilySections <- MCFamilySections
    DefaultTTL = 0
    LastTick = 2
    Reader = {p1, p2}
    Row = {k1, k2}
    Id = {a7, a71, a72}
    Candidates <- MCCandidates
    Torn = Torn
    User = {p1, p2}
    Trace = {trace}
    Sample = {h1}
    Never = Never
SYMMETRY MCSymmetry
INVARIANTS LocalTypeOK GInv Instructed AloneIdsStay StampTellsStored
PROPERTIES Informed NothingElseForgets NotTwice
