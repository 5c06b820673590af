SPECIFICATION Spec
CONSTANTS
    e1 = e1
    e2 = e2
    e3 = e3
    w1 = w1
    w2 = w2
    c1 = c1
    c2 = c2
    Events = {e1, e2, e3}
    Writers = {w1, w2}
    Auditors = {c1}
    Tasks = {"recover"}
    MaxDamage = 1
SYMMETRY MCSymmetry
CHECK_DEADLOCK FALSE
INVARIANTS
    CorruptionLocated
    RecoveredIsTrue
