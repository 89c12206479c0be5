------------------------------ MODULE MCDriver ------------------------------
\* Driver on small instances.
EXTENDS Driver, TLC

\* Two versions of one size that both compile, and one each of the rest.
MCSizeOf == [c \in Contents |-> IF c \in {"v1", "v2"} THEN 1 ELSE 2]
MCVerdict == [c \in Contents |->
                 CASE c \in {"v1", "v2"} -> "accepted" [] c = "syn" -> "syntax"
                   [] c = "sem" -> "semantic" [] c = "ptr" -> "reported"
                   [] c = "llvm" -> "backend"]

Symmetric == Permutations(Procs)

Opt(mode, level, doOpt) == [mode |-> mode, level |-> level, doOpt |-> doOpt]
PlainRun == {Opt("run", "-O2", TRUE)}
RunNoOpt == PlainRun \union {Opt("run", "-O2", FALSE)}
RunAndClear == {Opt("run", "-O2", TRUE), Opt("clear", "-O2", TRUE)}
RunLevels == {Opt("run", "-O2", TRUE), Opt("run", "-O0", TRUE), Opt("clear", "-O2", TRUE)}
AllModes == {Opt(m, "-O2", TRUE) : m \in Modes}
=============================================================================
