SPECIFICATION Spec
CONSTANTS
    p1 = p1
    p2 = p2
    p3 = p3
    s1 = s1
    s2 = s2
    w1 = w1
    w2 = w2
    Process = {p1, p2}
    Server = {p2}
    Unguarded = {}
    Session = {s1, s2}
    SessionOf <- MCSessionOf
    Write = {w1, w2}
    NoWrite = NoWrite
    TTL = 1
    MaxTime = 3
PROPERTIES ShownMayConfirm
