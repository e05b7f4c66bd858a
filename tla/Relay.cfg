\* All kinds, three bytes each way: enough for a byte in flight behind another.
SPECIFICATION FairSpec
CONSTANTS
    Kinds = {"tcp", "stdio", "sni", "http"}
    MaxBytes = 3
INVARIANTS
    TypeOK
    StreamsIntact
    NoSocketForgotten
    DialOnlyAllowed
PROPERTIES
    HangupClosesBoth
    SilentSniClientDropped
\* A finished connection does nothing more.
CHECK_DEADLOCK FALSE
