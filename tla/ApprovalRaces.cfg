SPECIFICATION Spec
CONSTANTS
    alice = alice
    bob = bob
    q1 = q1
    q2 = q2
    q3 = q3
    x1 = x1
    s1 = s1
    s2 = s2
    g1 = g1
    g2 = g2
    a1 = a1
    Users = {alice, bob}
    Subjects = {x1}
    Requests = {q1, q2, q3}
    RequesterOf <- MCRequesterOf
    SubjectOf <- MCSubjectOf
    GrantIds = {g1, g2}
    AppIds = {a1}
    Sessions = {s1, s2}
    GrantLives = {0, 1}
    ApprovalLife = 0
    MaxClock = 1
SYMMETRY MCSymmetry
CHECK_DEADLOCK FALSE
INVARIANTS
    TypeOK
    ApprovedByDistinctHolder
    EffectsAudited
    ReportsAreTrue
    PassJustified
PROPERTY DecisionsAreFinal
