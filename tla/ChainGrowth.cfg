SPECIFICATION Spec
CONSTANTS
    e1 = e1
    e2 = e2
    e3 = e3
    w1 = w1
    w2 = w2
    c1 = c1
    c2 = c2
    Events = {e1, e2}
    Writers = {w1, w2}
    Auditors = {c1}
    Tasks = {"write", "check", "verify"}
    MaxDamage = 0
SYMMETRY MCSymmetry
CHECK_DEADLOCK FALSE
INVARIANTS
    TypeOK
    CheckpointsReached
    GrowthAccepted
PROPERTY FollowsAuditLog
