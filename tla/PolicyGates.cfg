SPECIFICATION Spec
CONSTANTS
    r1 = r1
    r2 = r2
    Runs = {r1, r2}
    Requests <- MCRequests
    PolicyFiles <- MCPolicyFiles
    Configs <- MCConfigs
    MaxClock = 1
SYMMETRY MCSymmetry
CHECK_DEADLOCK FALSE
INVARIANTS
    SimulatorAgrees
    DuplicatedChecksAgree
    OnlyQuietLocalRunsClear
    ApprovedUnderSameBoundary
