SPECIFICATION Spec
CONSTANTS
    r1 = r1
    r2 = r2
    r3 = r3
    p1 = p1
    s1 = s1
    s2 = s2
    Runs = {r1, r3}
    Principals = {p1}
    Sites = {s1, s2}
    PrincipalOf <- MCPrincipalOf
    SiteOf <- MCSiteOf
    MaxConcurrent = 1
    PerMinute = 2
    GlobalPerMinute = 2
    Window = 3
    Timeout = 2
    Grace = 1
    LockWait = 2
    LaunchDelay = 0
    KillWait = 0
    Faults = {}
    MaxClock = 8
INVARIANT WorkersWithinLimit
