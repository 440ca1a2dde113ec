SPECIFICATION Spec
CONSTANTS
    f1 = f1
    d1 = d1
    y1 = y1
    File = {f1}
    Dashboard = {d1, y1}
    Yaml = {y1}
    NoDashboard = NoDashboard
    NoCommand = NoCommand
    Ops = {"rename", "replace"}
    MaxEdits = 1
INVARIANTS RInv DoneLeavesNoReference RefusedBeforeRewriting PreviewTellsReplace
PROPERTIES OverwrittenIsKept
