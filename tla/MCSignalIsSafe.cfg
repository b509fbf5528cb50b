SPECIFICATION Spec
CONSTANTS
    Nodes = {"r1"}
    Bmcs = {"b1"}
    Class <- MCClass
    BmcName <- MCBmcName
    MaxAcquireMtn = 5
    MaxAcquireRvr = 5
    FileReads <- MCFileReads
    PodCounts = {1}
    Totals <- MCTotals
    WillUpdateConfig = TRUE
    TokenReads = {TRUE}
    TokenExpires = FALSE
    EmptyAnswers = FALSE
    Contended = {"r1"}
    MaxKey = 0
    MaxPw = 0
INVARIANT
    SignalIsSafe
