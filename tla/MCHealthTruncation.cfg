\* Goroutines run at once, pings may be lost: the truncation to seconds shows.
SPECIFICATION Spec
CONSTANTS
    c1 = c1
    c2 = c2
    t1 = t1
    t2 = t2
    s1 = s1
    s2 = s2
    Conns = {c1}
    Targets = {t1}
    ConnOf <- MCOneConnOf
    Interval <- MCOneInterval
    TPS = 2
    Slots <- MCOneSlots
    Prompt = TRUE
    Lossy = TRUE
    MaxRtt = 0
    MaxLag = 0
PROPERTIES
    FreshMeansReady
