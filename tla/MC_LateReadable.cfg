SPECIFICATION SessionSpec
CONSTANTS
    MaxSkip = 2
    MaxKeys = 3
    MaxSend = 2
INVARIANTS
    LateReadable
