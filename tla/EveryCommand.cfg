SPECIFICATION Spec
CONSTANTS
    p1 = p1
    p2 = p2
    a1 = a1
    s1 = s1
    k1 = k1
    v1 = v1
    v2 = v2
    Process = {p1}
    McpServer = {p1}
    Automation = {a1}
    Script = {s1}
    Content = {v1, v2}
    Key <- MCKey
    BackupId <- MCBackupId
    Initial <- MCInitial
    NoEntry = NoEntry
    Torn = Torn
    Gone = Gone
    Nobody = Nobody
    AnyBackup = AnyBackup
    NoJob = NoJob
    Ops = {"apply", "create", "delete", "rollback"}
    MaxPolls = 1
    MaxAttempts = 2
    MaxBackups = 2
    ForeignWriters = TRUE
    LateRequests = FALSE
    SilentSocket = FALSE
INVARIANTS TypeOK DoneMeansStored
