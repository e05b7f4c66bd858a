\* Goroutines run at once and every ping is answered within a second.
SPECIFICATION Spec
CONSTANTS
    c1 = c1
    c2 = c2
    t1 = t1
    t2 = t2
    s1 = s1
    s2 = s2
    Conns = {c1, c2}
    Targets = {t1, t2}
    ConnOf <- MCConnOf
    Interval <- MCTwoInterval
    TPS = 2
    Slots <- MCTwoSlots
    Prompt = TRUE
    Lossy = FALSE
    MaxRtt = 2
    MaxLag = 0
INVARIANTS
    AliveIsReady
