SPECIFICATION FairSpec
CONSTANTS
    Nodes = {"r1", "p2"}
    Bmcs = {"b1", "b2"}
    Class <- MCClass
    BmcName <- MCBmcName
    MaxAcquireMtn = 5
    MaxAcquireRvr = 5
    FileReads <- MCFileReads
    PodCounts = {1}
    Totals <- MCSteadyTotals
    WillUpdateConfig = TRUE
    TokenReads = {TRUE}
    TokenExpires = FALSE
    EmptyAnswers = FALSE
    Contended = {}
    MaxKey = 0
    MaxPw = 2
PROPERTY
    CredentialsFollowed
