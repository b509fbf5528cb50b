SPECIFICATION Spec
CHECK_DEADLOCK FALSE
CONSTANTS
    IOErrors = TRUE
    ReadableStamps = {{}, {"con"}, {"con", "agg"}}
    MaxLines = 2
    MaxWritten = 3
    MaxFiles = 2
    MaxStamp = 2
INVARIANTS
    TypeOK
    AggregatedInOrder
    CopiedWithoutGaps
    DiesOnlyIfMoved
    MovedLogsFollowed
PROPERTY
    TruncatedAtMostOnce
