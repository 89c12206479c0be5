------------------------------- MODULE Driver -------------------------------
(***************************************************************************)
(* The command line driver (src/main.c): several invocations of fermi      *)
(* share a source file, the binary cache and the temporary directory.      *)
(* Every system call main() makes on them is a step of its own, so that    *)
(* edits, other invocations, --cache-clear and kills fall in between.      *)
(*                                                                         *)
(* The compiler between reading the source and writing the object touches  *)
(* nothing shared and is one step, whose result is fixed by the source.    *)
(* The linker (cc, run by system()) is modelled from its use: it replaces  *)
(* the output path by a new file, which is neither complete nor executable *)
(* until it ends, and deletes the path when it fails.                      *)
(***************************************************************************)
EXTENDS Naturals, FiniteSets

CONSTANTS
    Procs,          \* invocations alive at the same time
    Contents,       \* versions of the source file
    SizeOf,         \* st_size of each
    Verdict,        \* what the compiler says of each, see Verdicts
    Options,        \* command lines: records [mode, level, doOpt]
    OutPath,        \* the -o path, or a.out
    NoFile,         \* an empty path
    SameTickEdits,  \* whether two edits may fall in one mtime tick
    MaxTick, MaxRuns, MaxCrashes, MaxFaults     \* bounds

Verdicts == {"accepted",  \* no stage complains
             "syntax",    \* E0001, parser
             "semantic",  \* E0002 to E0004, type checker and sema
             "reported",  \* E0005 to E0010, printed by the code generator
             "backend"}   \* E0011, LLVM rejects the module

Modes == {"lex", "ast", "fir", "out", "run", "clear"}

ASSUME ConstantsAssumption ==
    /\ SizeOf \in [Contents -> Nat]
    /\ Verdict \in [Contents -> Verdicts]
    /\ \A o \in Options : o.mode \in Modes /\ o.doOpt \in BOOLEAN
    /\ SameTickEdits \in BOOLEAN
    /\ {MaxTick, MaxRuns, MaxCrashes, MaxFaults} \subseteq Nat

Absent == "absent"

ASSUME OptionsAssumption == Options # {}

Levels == {o.level : o \in Options}
Sizes == {SizeOf[c] : c \in Contents}
Keys == [size : Sizes, mtime : 0..MaxTick, level : Levels]
Paths == Keys \union {OutPath}

VARIABLES
    file,      \* the source: content and mtime
    clock,     \* ticks of the file system clock
    fs,        \* what each cache path and the -o path hold
    tmp,       \* temporary object files: owner and invocation number
    proc,      \* the state of each invocation
    runs,      \* invocations started
    crashes,   \* invocations killed
    faults,    \* failed mkstemps, short writes, failed links
    built      \* history: cache paths a run produced and executed, not cleared since

vars == <<file, clock, fs, tmp, proc, runs, crashes, faults, built>>
env == <<file, clock, runs, crashes>>

Binary == [by : Procs, from : Contents, opt : BOOLEAN, level : Levels,
           done : BOOLEAN, open : BOOLEAN, x : BOOLEAN]

ASSUME MarkAssumption ==
    Absent \notin Contents /\ OutPath \notin Keys /\ NoFile \notin Binary

Pcs == {"idle", "stat", "access", "execHit", "read", "compile", "mktemp", "write",
        "link", "linking", "linked", "linkFailed", "chmod", "execNew", "clearing"}

Outcomes == {"none", "ok", "diagnosed", "failed", "execFailed", "ran", "killed"}

Path(p) == IF proc[p].opts.mode = "run" THEN proc[p].key ELSE OutPath
Temp(p) == [owner |-> p, run |-> proc[p].run]
Goto(p, pc) == proc' = [proc EXCEPT ![p].pc = pc]
Exit(p, how) == proc' = [proc EXCEPT ![p].pc = "idle", ![p].outcome = how]

Fresh(o, n) == [pc |-> "idle", opts |-> o, run |-> n, key |-> OutPath, src |-> Absent,
                seen |-> {file.content}, reported |-> FALSE, outcome |-> "none",
                ran |-> NoFile, list |-> {}]

Init ==
    /\ file \in [content : Contents, mtime : {0}]
    /\ clock = 0
    /\ fs = [path \in Paths |-> NoFile]
    /\ tmp = {}
    /\ proc = [p \in Procs |-> Fresh(CHOOSE o \in Options : TRUE, 0)]
    /\ runs = 0 /\ crashes = 0 /\ faults = 0
    /\ built = {}

-----------------------------------------------------------------------------
(* The world around the driver *)

Tick == /\ clock < MaxTick
        /\ clock' = clock + 1
        /\ UNCHANGED <<file, fs, tmp, proc, runs, crashes, faults, built>>

\* The source is replaced or deleted; every live invocation has now seen it.
Edit(c) ==
    /\ c # file.content
    /\ SameTickEdits \/ clock > file.mtime
    /\ file' = [content |-> c, mtime |-> clock]
    /\ proc' = [p \in Procs |-> [proc[p] EXCEPT !.seen = @ \union
                    IF proc[p].pc = "idle" THEN {} ELSE {c}]]
    /\ UNCHANGED <<clock, fs, tmp, runs, crashes, faults, built>>

\* A kill leaves the temporary object and a half linked output behind.
Crash(p) ==
    /\ proc[p].pc # "idle" /\ crashes < MaxCrashes
    /\ crashes' = crashes + 1
    /\ Exit(p, "killed")
    /\ fs' = IF proc[p].pc = "linking"
             THEN [path \in Paths |-> IF fs[path] # NoFile /\ fs[path].by = p
                                      THEN [fs[path] EXCEPT !.open = FALSE] ELSE fs[path]]
             ELSE fs
    /\ UNCHANGED <<file, clock, tmp, runs, faults, built>>

-----------------------------------------------------------------------------
(* main() *)

\* Option parsing decides the mode.  The shell run for --cache-clear expands
\* the list of files to remove before it removes the first.
Start(p, o) ==
    /\ proc[p].pc = "idle" /\ runs < MaxRuns
    /\ runs' = runs + 1
    /\ proc' = [proc EXCEPT ![p] = [Fresh(o, runs + 1) EXCEPT
                   !.pc = CASE o.mode = "run" -> "stat"
                            [] o.mode = "clear" -> "clearing"
                            [] OTHER -> "read",
                   !.list = IF o.mode = "clear" THEN {k \in Keys : fs[k] # NoFile} ELSE {}]]
    /\ UNCHANGED <<file, clock, fs, tmp, crashes, faults, built>>

\* The shell's rm -f, one file at a time.
ClearOne(p) ==
    /\ proc[p].pc = "clearing"
    /\ IF proc[p].list = {}
       THEN Exit(p, "ok") /\ UNCHANGED <<fs, built>>
       ELSE \E k \in proc[p].list :
               /\ fs' = [fs EXCEPT ![k] = NoFile]
               /\ built' = built \ {k}
               /\ proc' = [proc EXCEPT ![p].list = @ \ {k}]
    /\ UNCHANGED <<env, tmp, faults>>

\* Mutant: the modification time is not hashed.
CacheKey_NoMtime(o) == [size |-> SizeOf[file.content], mtime |-> 0, level |-> o.level]

\* The cache key is made of stat() results, the version and the -O and
\* --target options.  (The hash is taken to be injective.)
CacheKey(o) == [size |-> SizeOf[file.content], mtime |-> file.mtime, level |-> o.level]

Stat(p) ==
    /\ proc[p].pc = "stat"
    /\ IF file.content = Absent
       THEN Exit(p, "diagnosed")
       ELSE proc' = [proc EXCEPT ![p].pc = "access", ![p].key = CacheKey(proc[p].opts)]
    /\ UNCHANGED <<env, fs, tmp, faults, built>>

\* Mutant: the cached binary is not looked for.
Access_NeverHits(p) ==
    /\ proc[p].pc = "access"
    /\ Goto(p, "read")
    /\ UNCHANGED <<env, fs, tmp, faults, built>>

Access(p) ==
    /\ proc[p].pc = "access"
    /\ LET f == fs[Path(p)]
       IN  Goto(p, IF f # NoFile /\ f.x THEN "execHit" ELSE "read")
    /\ UNCHANGED <<env, fs, tmp, faults, built>>

\* execv fails on a missing, non-executable or still written file.
Exec(p) ==
    LET f == fs[Path(p)]
    IN  IF f # NoFile /\ f.x /\ ~f.open
        THEN proc' = [proc EXCEPT ![p].pc = "idle", ![p].outcome = "ran", ![p].ran = f]
        ELSE Exit(p, "execFailed")

ExecHit(p) ==
    /\ proc[p].pc = "execHit"
    /\ Exec(p)
    /\ UNCHANGED <<env, fs, tmp, faults, built>>

Read(p) ==
    /\ proc[p].pc = "read"
    /\ IF file.content = Absent
       THEN Exit(p, "diagnosed")
       ELSE proc' = [proc EXCEPT ![p].pc = "compile", ![p].src = file.content]
    /\ UNCHANGED <<env, fs, tmp, faults, built>>

\* Mutant: the errors of the type checker and of sema stop nothing.
Compile_IgnoresSema(p) ==
    /\ proc[p].pc = "compile"
    /\ LET mode == proc[p].opts.mode
           v == Verdict[proc[p].src]
       IN  CASE mode = "lex" -> Exit(p, "ok")
             [] mode # "lex" /\ v = "syntax" -> Exit(p, "diagnosed")
             [] mode = "ast" /\ v # "syntax" -> Exit(p, "ok")
             [] mode = "fir" /\ v # "syntax" -> Exit(p, "ok")
             [] mode \in {"out", "run"} /\ v = "backend" -> Exit(p, "diagnosed")
             [] OTHER -> proc' = [proc EXCEPT ![p].pc = "mktemp",
                                              ![p].reported = (v = "reported")]
    /\ UNCHANGED <<env, fs, tmp, faults, built>>

\* The stages in order, each dump mode leaving after its stage.  A report of
\* the code generator stops nothing.
Compile(p) ==
    /\ proc[p].pc = "compile"
    /\ LET mode == proc[p].opts.mode
           v == Verdict[proc[p].src]
       IN  CASE mode = "lex" -> Exit(p, "ok")
             [] mode # "lex" /\ v = "syntax" -> Exit(p, "diagnosed")
             [] mode = "ast" /\ v # "syntax" -> Exit(p, "ok")
             [] mode \notin {"lex", "ast"} /\ v = "semantic" -> Exit(p, "diagnosed")
             [] mode = "fir" /\ v \notin {"syntax", "semantic"} -> Exit(p, "ok")
             [] mode \in {"out", "run"} /\ v = "backend" -> Exit(p, "diagnosed")
             [] OTHER -> proc' = [proc EXCEPT ![p].pc = "mktemp",
                                              ![p].reported = (v = "reported")]
    /\ UNCHANGED <<env, fs, tmp, faults, built>>

MakeTemp(p) ==
    /\ proc[p].pc = "mktemp"
    /\ \/ tmp' = tmp \union {Temp(p)} /\ Goto(p, "write") /\ UNCHANGED faults
       \/ faults < MaxFaults /\ faults' = faults + 1 /\ Exit(p, "failed") /\ UNCHANGED tmp
    /\ UNCHANGED <<env, fs, built>>

\* Mutant: a short write returns without unlinking the object.
WriteObject_KeepsShort(p) ==
    /\ proc[p].pc = "write"
    /\ \/ Goto(p, "link") /\ UNCHANGED <<tmp, faults>>
       \/ /\ faults < MaxFaults /\ faults' = faults + 1
          /\ UNCHANGED tmp
          /\ Exit(p, "failed")
    /\ UNCHANGED <<env, fs, built>>

WriteObject(p) ==
    /\ proc[p].pc = "write"
    /\ \/ Goto(p, "link") /\ UNCHANGED <<tmp, faults>>
       \/ /\ faults < MaxFaults /\ faults' = faults + 1
          /\ tmp' = tmp \ {Temp(p)}
          /\ Exit(p, "failed")
    /\ UNCHANGED <<env, fs, built>>

\* External: cc -o output, from creating the output to exiting.
LinkStart(p) ==
    /\ proc[p].pc = "link"
    /\ fs' = [fs EXCEPT ![Path(p)] =
                 [by |-> p, from |-> proc[p].src, opt |-> proc[p].opts.doOpt,
                  level |-> proc[p].opts.level, done |-> FALSE, open |-> TRUE, x |-> FALSE]]
    /\ Goto(p, "linking")
    /\ UNCHANGED <<env, tmp, faults, built>>

\* The path may meanwhile name the file of another linker, or none.
LinkEnd(p) ==
    /\ proc[p].pc = "linking"
    /\ fs' = LET f == fs[Path(p)]
             IN  IF f # NoFile /\ f.by = p /\ f.open
                 THEN [fs EXCEPT ![Path(p)] = [@ EXCEPT !.done = TRUE, !.open = FALSE, !.x = TRUE]]
                 ELSE fs
    /\ Goto(p, "linked")
    /\ UNCHANGED <<env, tmp, faults, built>>

LinkFail(p) ==
    /\ proc[p].pc = "linking" /\ faults < MaxFaults
    /\ faults' = faults + 1
    /\ fs' = [fs EXCEPT ![Path(p)] = NoFile]
    /\ Goto(p, "linkFailed")
    /\ UNCHANGED <<env, tmp, built>>

\* Mutant: every successful link goes on to run its output.
UnlinkTemp_AlwaysRuns(p) ==
    /\ proc[p].pc \in {"linked", "linkFailed"}
    /\ tmp' = tmp \ {Temp(p)}
    /\ IF proc[p].pc = "linkFailed" THEN Exit(p, "failed") ELSE Goto(p, "chmod")
    /\ UNCHANGED <<env, fs, faults, built>>

\* The object is unlinked whatever the linker said.
UnlinkTemp(p) ==
    /\ proc[p].pc \in {"linked", "linkFailed"}
    /\ tmp' = tmp \ {Temp(p)}
    /\ CASE proc[p].pc = "linkFailed" -> Exit(p, "failed")
         [] proc[p].pc = "linked" /\ proc[p].opts.mode = "run" -> Goto(p, "chmod")
         [] OTHER -> Exit(p, "ok")
    /\ UNCHANGED <<env, fs, faults, built>>

\* Mutant: a mode without the executable bits.
Chmod_NotExecutable(p) ==
    /\ proc[p].pc = "chmod"
    /\ fs' = IF fs[Path(p)] = NoFile THEN fs ELSE [fs EXCEPT ![Path(p)].x = FALSE]
    /\ Goto(p, "execNew")
    /\ UNCHANGED <<env, tmp, faults, built>>

Chmod(p) ==
    /\ proc[p].pc = "chmod"
    /\ fs' = IF fs[Path(p)] = NoFile THEN fs ELSE [fs EXCEPT ![Path(p)].x = TRUE]
    /\ Goto(p, "execNew")
    /\ UNCHANGED <<env, tmp, faults, built>>

ExecNew(p) ==
    /\ proc[p].pc = "execNew"
    /\ Exec(p)
    /\ built' = IF proc'[p].outcome = "ran" THEN built \union {Path(p)} ELSE built
    /\ UNCHANGED <<env, fs, tmp, faults>>

Step(p) == \/ ClearOne(p) \/ Stat(p) \/ Access(p) \/ ExecHit(p) \/ Read(p) \/ Compile(p)
           \/ MakeTemp(p) \/ WriteObject(p) \/ LinkStart(p) \/ LinkEnd(p) \/ LinkFail(p)
           \/ UnlinkTemp(p) \/ Chmod(p) \/ ExecNew(p)

Next == \/ Tick
        \/ \E c \in Contents \union {Absent} : Edit(c)
        \/ \E p \in Procs : Step(p) \/ Crash(p) \/ \E o \in Options : Start(p, o)

Spec == Init /\ [][Next]_vars

-----------------------------------------------------------------------------
TypeOK ==
    /\ file \in [content : Contents \union {Absent}, mtime : 0..MaxTick]
    /\ clock \in 0..MaxTick
    /\ fs \in [Paths -> Binary \union {NoFile}]
    /\ tmp \subseteq [owner : Procs, run : 1..MaxRuns]
    /\ \A p \in Procs : proc[p].pc \in Pcs /\ proc[p].outcome \in Outcomes
                        /\ proc[p].key \in Paths /\ proc[p].ran \in Binary \union {NoFile}
    /\ built \subseteq Keys

Ran(p) == proc[p].outcome = "ran"

\* A run executes a binary compiled, at the level asked for, from a content
\* the source had at some moment of that run: neither a hit on a path another
\* invocation filled nor an edit between stat() and reading the source makes
\* it older.  Needs edits to be visible in the mtime (SameTickEdits = FALSE).
RunsCurrentSource ==
    \A p \in Procs : Ran(p) => /\ proc[p].ran.from \in proc[p].seen
                               /\ proc[p].ran.level = proc[p].opts.level

\* What execv accepts is a completely linked binary of a source no stopping
\* stage rejected, whoever linked it and whoever made it executable.
ExecutesWholeBinaries ==
    \A p \in Procs : Ran(p) =>
        /\ proc[p].ran.done
        /\ Verdict[proc[p].ran.from] \in {"accepted", "reported"}

\* When nobody is linking and nobody was ever killed, the cache holds whole
\* executables only: concurrent links of one path, link failures and clearing
\* leave nothing half made behind.
QuiescentCacheIsWhole ==
    crashes = 0 /\ (\A p \in Procs : proc[p].pc # "linking") =>
        \A path \in Paths : fs[path] # NoFile => fs[path].done /\ fs[path].x /\ ~fs[path].open

\* A kill is the only way to leave a temporary object behind; every error
\* path of main() removes it.
OnlyKillsLeakTemporaries ==
    crashes = 0 =>
        \A t \in tmp : /\ proc[t.owner].run = t.run
                       /\ proc[t.owner].pc \in {"write", "link", "linking", "linked", "linkFailed"}

\* "Re-runs exec the cached binary directly" (main.c:59): once a run has built
\* and executed a cache path that was not cleared since, a later run with that
\* key finds it and execv succeeds.
RerunsExecCached ==
    [][\A p \in Procs :
         /\ proc[p].pc = "access" /\ Path(p) \in built /\ proc'[p].pc # "access"
               => proc'[p].pc = "execHit" \/ proc'[p].outcome = "killed"
         /\ proc[p].pc = "execHit" /\ Path(p) \in built /\ proc'[p].pc # "execHit"
               => proc'[p].outcome \in {"ran", "killed"}]_vars

\* "--no-opt  Disable FIR optimizer" (main.c:52): what such a run executes was
\* compiled without it.
NoOptIsHonoured ==
    \A p \in Procs : Ran(p) /\ ~proc[p].opts.doOpt => ~proc[p].ran.opt

\* "error[E0005]: pointer arithmetic on type 'ptr' requires enclosing 'unsafe'
\* block" (codegen.c:887): a program reported in error is not executed.
ReportedErrorsAreFatal ==
    \A p \in Procs : Ran(p) => ~proc[p].reported
=============================================================================
