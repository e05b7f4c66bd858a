\* Goroutines run whenever they like, pongs are lost or late.
SPECIFICATION Spec
CONSTANTS
    c1 = c1
    c2 = c2
    t1 = t1
    t2 = t2
    s1 = s1
    s2 = s2
    Conns = {c1, c2}
    Targets = {t1, t2}
    ConnOf <- MCConnOf
    Interval <- MCShortInterval
    TPS = 2
    Slots <- MCSlots
    Prompt = FALSE
    Lossy = TRUE
    MaxRtt = 0
    MaxLag = 1
SYMMETRY MCSymmetry
INVARIANTS
    TypeOK
    ReadyMeansFresh
PROPERTIES
    RecordsMoveForward
