SPECIFICATION Spec
CHECK_DEADLOCK FALSE
CONSTANTS
    IOErrors = FALSE
    ReadableStamps = {{"con", "agg"}}
    MaxLines = 1
    MaxWritten = 3
    MaxFiles = 2
    MaxStamp = 2
PROPERTY
    CancelledTailEnds
