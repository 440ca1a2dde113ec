SPECIFICATION ProcessSpec
CONSTANTS
    c1 = c1
    c2 = c2
    Call = {c1, c2}
    NoCall = NoCall
    Said = {"read", "write", "rtfm", "families", "never", "unknown", "other", "malformed", "garbage"}
    AllowWrites = FALSE
    NoManualInject = FALSE
    Total = 5
    Backoff <- MCBackoff
    MaxSocket = 1
    Timeout = 3
    DialTimeout = 1
    Upgrade = 2
    MaxClock = 5
    MaxAddons = 2
    Asks <- MCAsks
CHECK_DEADLOCK FALSE
INVARIANTS ProcessTypeOK SInv OwnFlags OwnCancellation ManualOnce WithinTimeout CancelledSoonEnds ReasonIsTheCause UnreadIsTold SearchTellsItsScope
PROPERTIES EveryCallAnswered EveryFollowedRequestEnds KeepsPromise
