SPECIFICATION Spec
CONSTANTS
    r1 = r1
    r2 = r2
    r3 = r3
    p1 = p1
    s1 = s1
    s2 = s2
    Runs = {r1, r2, r3}
    Principals = {p1}
    Sites = {s1, s2}
    PrincipalOf <- MCPrincipalOf
    SiteOf <- MCSiteOf
    MaxConcurrent = 1
    PerMinute = 1
    GlobalPerMinute = 2
    Window = 2
    Timeout = 1
    Grace = 2
    LockWait = 1
    LaunchDelay = 0
    KillWait = 1
    Faults = {"release"}
    MaxClock = 7
SYMMETRY MCSymmetry
INVARIANTS
    WorkersWithinLimit
    LeaseOutlivesWorker
    AdmissionRate
