SPECIFICATION FairSpec
CONSTANTS
    Nodes = {"m1", "m2"}
    Bmcs = {"b1"}
    Class <- MCClass
    BmcName <- MCBmcName
    MaxAcquireMtn = 5
    MaxAcquireRvr = 5
    FileReads <- MCFileReads
    PodCounts = {1}
    Totals <- MCTotals
    WillUpdateConfig = TRUE
    TokenReads = {TRUE}
    TokenExpires = FALSE
    EmptyAnswers = FALSE
    Contended = {}
    MaxKey = 1
    MaxPw = 0
PROPERTY
    ConsoleServed
