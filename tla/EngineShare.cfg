SPECIFICATION FairSpec
CONSTANTS
    r1 = r1
    r2 = r2
    r3 = r3
    q1 = q1
    q2 = q2
    Runs = {r1, r3}
    Requests = {q1, q2}
    RequestOf <- MCRequestOf
    MaxConcurrent = 1
    MaxObservations = 1
    Faults = {"interrupt", "cleanup"}
INVARIANT NoLeaseLeftBehind
PROPERTY ClaimsAreResolved
