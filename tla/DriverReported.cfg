SPECIFICATION Spec
CONSTANTS
    Procs = {p1}
    Contents = {"v1", "ptr"}
    SizeOf <- MCSizeOf
    Verdict <- MCVerdict
    Options <- PlainRun
    OutPath = OutPath
    NoFile = NoFile
    SameTickEdits = FALSE
    MaxTick = 0
    MaxRuns = 2
    MaxCrashes = 0
    MaxFaults = 0
INVARIANT ReportedErrorsAreFatal
CHECK_DEADLOCK FALSE
