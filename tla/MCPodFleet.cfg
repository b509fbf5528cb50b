SPECIFICATION Spec
CONSTANTS
    Pods = {"p1", "p2"}
    Nodes = {"r1", "r2", "r3"}
    Worker <- MCWorker
    MaxAcquireRvr = 5
    TargetRvr = 1
    MaxFaults = 2
INVARIANTS
    TypeOK
    SomeoneAsks
PROPERTIES
    LeasesKept
    EveryNodeWatched
    SettlesDown
    OverlapEnds
    OverlapNeedsSilence
    PassBalances
