SPECIFICATION ClockSpec
CONSTANTS
    Proxies = {p1, p2}
    TIMEOUT = 3
    SWEEP_INTERVAL = 4
    MaxLag = 1
    MaxTime = 7
SYMMETRY Symmetry
INVARIANTS
    LifetimeKept
