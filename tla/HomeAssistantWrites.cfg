SPECIFICATION WritesSpec
CONSTANTS
    d0 = d0
    d1 = d1
    old = old
    new = new
    p1 = p1
    p2 = p2
    t1 = t1
    a = a
    b = b
    e1 = e1
    h1 = h1
    h2 = h2
    tpl = tpl
    s1 = s1
    s2 = s2
    Client = {p1}
    Entry = {e1}
    FlowId = {f1, f2}
    NoFlow = NoFlow
    NoEntry = NoEntry
    Dashboard = {d0, d1}
    Default = d0
    Config = {old, new}
    NoConfig = NoConfig
    Hit = {old}
    Rewritten <- MCRewritten
    Proc = {p1, p2}
    Target = {t1}
    Text = {a, b}
    Blank = Blank
    None = None
    MaxLost = 1
    Asked <- MCAsked
    Def = {h1, h2, tpl}
    Slug = {s1, s2}
    SlugOf <- MCSlugOf
    Template = {tpl}
    MaxSend = 3
SYMMETRY MCAlike
INVARIANTS WritesTypeOK ProbeLeavesNoTrace NoHitsIsComplete NoGhost
PROPERTIES PreviewsForetell NoLabelUndone LiveKeepsItsEntity
