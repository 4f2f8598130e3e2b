SPECIFICATION FairSpec
CONSTANTS
    m1 = m1 m2 = m2 p1 = p1 p2 = p2
    Machines = {m1, m2}
    Procs = {p1, p2}
    Home <- Alone
    Runs <- Anything
    Nobody = Nobody
    Gone = Gone
    PushAttempts = 1
    MaxCaptures = 2
    MaxRewrites = 0
    MaxFaults = 1
PROPERTIES MergesAreSettled
