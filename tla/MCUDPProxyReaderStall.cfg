\* Dial may never return: the reader waits with it.
SPECIFICATION FairSpec
CONSTANTS
    Clients = {c1}
    Sess = {s1, s2}
    None = None
    InactivityTimeout = 1
    MaxLag = 1
    MaxQueue = 1
PROPERTIES
    ReaderKeepsReading
