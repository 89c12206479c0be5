SPECIFICATION Spec
CONSTANTS
    Procs = {p1}
    Contents = {"v1", "v2", "syn", "sem", "ptr", "llvm"}
    SizeOf <- MCSizeOf
    Verdict <- MCVerdict
    Options <- AllModes
    OutPath = OutPath
    NoFile = NoFile
    SameTickEdits = FALSE
    MaxTick = 1
    MaxRuns = 4
    MaxCrashes = 1
    MaxFaults = 1
INVARIANTS
    TypeOK
PROPERTIES
    RerunsExecCached
CHECK_DEADLOCK FALSE
