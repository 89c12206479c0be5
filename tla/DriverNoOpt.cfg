SPECIFICATION Spec
CONSTANTS
    Procs = {p1}
    Contents = {"v1"}
    SizeOf <- MCSizeOf
    Verdict <- MCVerdict
    Options <- RunNoOpt
    OutPath = OutPath
    NoFile = NoFile
    SameTickEdits = FALSE
    MaxTick = 0
    MaxRuns = 2
    MaxCrashes = 0
    MaxFaults = 0
INVARIANT NoOptIsHonoured
CHECK_DEADLOCK FALSE
