SPECIFICATION Spec
CONSTANTS
    Nodes = {"m1", "m2", "p1"}
    Bmcs = {"b1"}
    Class <- MCClass
    BmcName <- MCBmcName
    MaxAcquireMtn = 5
    MaxAcquireRvr = 5
    FileReads <- MCFileReads
    PodCounts = {1}
    Totals <- MCTotals
    WillUpdateConfig = TRUE
    TokenReads = {TRUE}
    TokenExpires = TRUE
    EmptyAnswers = FALSE
    Contended = {"m1"}
    MaxKey = 1
    MaxPw = 0
INVARIANTS
    TypeOK
    TailsHeld
    HeldLogsRotated
    MutexHolder
    ConfigIsCurrent
PROPERTY
    ChangeRestartsConmand
    LeaseKept
