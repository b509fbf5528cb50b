SPECIFICATION Spec
CONSTANTS
    Nodes = {"m1"}
    Bmcs = {"b1"}
    Class <- MCClass
    BmcName <- MCBmcName
    MaxAcquireMtn = 5
    MaxAcquireRvr = 5
    FileReads <- MCFileReads
    PodCounts = {1}
    Totals <- MCTotals
    WillUpdateConfig = TRUE
    TokenReads = {TRUE}
    TokenExpires = FALSE
    EmptyAnswers = FALSE
    Contended = {"m1"}
    MaxKey = 1
    MaxPw = 0
INVARIANT
    KeyDeployed
