SPECIFICATION Spec
CONSTANTS
    r1 = r1
    r2 = r2
    Runs = {r1, r2}
    Plans <- MCPlans
    Earlier <- MCEarlier
    EarlierFindings <- MCEarlierFindings
    Late = {"findings", "results"}
    RecentResults = 1
    RecentEvents = 3
    RecentFindings = 2
    MaxRestores = 1
    MaxBackups = 1
    MaxFaults = 1
INVARIANTS
    BackupHoldsExport
    ReplayFinds
    ReplayIsWhole
    ReportsAreSound
CHECK_DEADLOCK FALSE
