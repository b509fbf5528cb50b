SPECIFICATION FairSpec
CONSTANTS
    Nodes = {"m1"}
    Bmcs = {"b1"}
    Class <- MCClass
    BmcName <- MCBmcName
    MaxAcquireMtn = 5
    MaxAcquireRvr = 5
    FileReads <- MCFileReads
    PodCounts = {1}
    Totals <- MCTotals
    WillUpdateConfig = FALSE
    TokenReads = {TRUE, FALSE}
    TokenExpires = FALSE
    EmptyAnswers = TRUE
    Contended = {"m1"}
    MaxKey = 1
    MaxPw = 0
INVARIANT
    ConfigIsCurrent
PROPERTIES
    LostNodesDropped
    ShutdownCompletes
