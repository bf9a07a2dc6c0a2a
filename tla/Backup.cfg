\* Two restores beside a daily backup, edits and deletions.
CONSTANTS
    Null = Null
    ana = ana
    luis = luis
    k = k
    call = call
    v = v
    b1 = b1
    s1 = s1
    s2 = s2
    Users <- MCUsers
    Advisors <- MCUsers
    Cases <- MCCases
    FollowUps <- MCFollowUps
    CaseOf <- MCCaseOf
    Contents <- MCContents
    BackupRuns <- MCBackupRuns
    RestoreRuns <- MCRestoreRuns
    Targets <- MCTargets
    Start <- MCStart
    Keep = 2
SYMMETRY Symmetry
CHECK_DEADLOCK FALSE
SPECIFICATION MCSpec
INVARIANTS
    PlansFromWhole
PROPERTIES
    OnlyFillsHoles
    OverwrittenIsSaved
