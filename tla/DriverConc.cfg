SPECIFICATION Spec
CONSTANTS
    Procs = {p1, p2}
    Contents = {"v1", "v2", "sem"}
    SizeOf <- MCSizeOf
    Verdict <- MCVerdict
    Options <- RunLevels
    OutPath = OutPath
    NoFile = NoFile
    SameTickEdits = FALSE
    MaxTick = 1
    MaxRuns = 4
    MaxCrashes = 0
    MaxFaults = 1
SYMMETRY Symmetric
INVARIANTS
    RunsCurrentSource
    ExecutesWholeBinaries
    QuiescentCacheIsWhole
    OnlyKillsLeakTemporaries
CHECK_DEADLOCK FALSE
