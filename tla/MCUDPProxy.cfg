\* Two clients, two session objects: a client can have a new session while
\* its older one is still being torn down.
SPECIFICATION Spec
CONSTANTS
    Clients = {c1, c2}
    Sess = {s1, s2}
    None = None
    InactivityTimeout = 2
    MaxLag = 1
    MaxQueue = 1
SYMMETRY Symmetry
INVARIANTS
    TypeOK
    MappedSessionServed
    OpenSocketOwned
    HandlerOwnsSocket
PROPERTIES
    SessionEndsForCause
    ImplementsTable
CHECK_DEADLOCK TRUE
