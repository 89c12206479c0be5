---------------------------- MODULE Driver_proofs ----------------------------
(***************************************************************************)
(* What holds of any number of invocations of fermi, in any mode, whatever *)
(* the bounds.                                                             *)
(***************************************************************************)
EXTENDS Driver, TLAPS

Proc == [pc : Pcs, opts : Options, run : 0..MaxRuns, key : Paths,
         src : Contents \union {Absent}, seen : SUBSET (Contents \union {Absent}),
         reported : BOOLEAN, outcome : Outcomes, ran : Binary \union {NoFile},
         list : SUBSET Keys]

FileType == [content : Contents \union {Absent}, mtime : 0..MaxTick]
TempType == [owner : Procs, run : 1..MaxRuns]

Typed == /\ file \in FileType /\ clock \in 0..MaxTick /\ file.mtime <= clock
         /\ fs \in [Paths -> Binary \union {NoFile}]
         /\ tmp \in SUBSET TempType
         /\ built \in SUBSET Keys
         /\ proc \in [Procs -> Proc]
         /\ runs \in 0..MaxRuns /\ crashes \in Nat /\ faults \in Nat

LEMMA TypedImpliesTypeOK == Typed => TypeOK
BY DEF Typed, TypeOK, Proc, FileType, TempType

\* What an invocation knows of itself from where it stands.
WithSource == {"compile", "mktemp", "write", "link", "linking"}
Linkable == {"mktemp", "write", "link", "linking"}
Runs == {"stat", "access", "execHit", "chmod", "execNew"}

Staged(q) ==
    /\ q.pc # "idle" => q.run # 0
    /\ q.pc \in WithSource => q.src \in Contents
    /\ q.pc \in Runs => q.opts.mode = "run"
    /\ q.pc \notin {"idle", "clearing"} => q.opts.mode # "clear"
    /\ q.pc \in Linkable => Verdict[q.src] \in {"accepted", "reported"}
    /\ q.pc \notin {"idle", "stat"} /\ q.opts.mode = "run" =>
          q.key \in Keys /\ q.key.level = q.opts.level

Stages == \A p \in Procs : Staged(proc[p])

USE DEF env

LEMMA ExitTyped ==
    ASSUME proc \in [Procs -> Proc], NEW p \in Procs, NEW how \in Outcomes, Exit(p, how)
    PROVE  proc' \in [Procs -> Proc]
<1>1. "idle" \in Pcs
  BY DEF Pcs
<1>2. [proc[p] EXCEPT !.pc = "idle", !.outcome = how] \in Proc
  BY <1>1 DEF Proc
<1> QED
  BY <1>2 DEF Exit

LEMMA GotoTyped ==
    ASSUME proc \in [Procs -> Proc], NEW p \in Procs, NEW pc \in Pcs, Goto(p, pc)
    PROVE  proc' \in [Procs -> Proc]
BY DEF Goto, Proc

LEMMA TypedInit == Init => Typed
BY ConstantsAssumption, OptionsAssumption, MarkAssumption
   DEF Init, Typed, FileType, Fresh, Proc, Pcs, Outcomes, Paths

LEMMA StagesInit == Init => Stages
BY DEF Init, Fresh, Stages, Staged, WithSource, Linkable, Runs

\* The stages reject the source, end with the mode, or go on to link.
LEMMA CompileEnds ==
    ASSUME NEW p \in Procs, Compile(p), proc[p].opts.mode \in Modes \ {"clear"},
           Verdict[proc[p].src] \in Verdicts
    PROVE  \/ \E how \in Outcomes : Exit(p, how)
           \/ /\ Verdict[proc[p].src] \in {"accepted", "reported"}
              /\ proc' = [proc EXCEPT ![p].pc = "mktemp",
                                      ![p].reported = (Verdict[proc[p].src] = "reported")]
<1> DEFINE Goes == /\ Verdict[proc[p].src] \in {"accepted", "reported"}
                   /\ proc' = [proc EXCEPT ![p].pc = "mktemp",
                                           ![p].reported = (Verdict[proc[p].src] = "reported")]
           mode == proc[p].opts.mode
           v == Verdict[proc[p].src]
<1>1. Exit(p, "ok") \/ Exit(p, "diagnosed") \/ Goes
  <2>1. CASE mode = "lex"
    BY <2>1 DEF Compile
  <2>2. CASE mode # "lex" /\ v = "syntax"
    BY <2>2 DEF Compile
  <2>3. CASE mode = "ast" /\ v # "syntax"
    BY <2>3 DEF Compile
  <2>4. CASE mode \notin {"lex", "ast"} /\ v = "semantic"
    BY <2>4 DEF Compile
  <2>5. CASE mode = "fir" /\ v \notin {"syntax", "semantic"}
    BY <2>5 DEF Compile
  <2>6. CASE mode \in {"out", "run"} /\ v = "backend"
    BY <2>6 DEF Compile
  <2>7. CASE mode \in {"out", "run"} /\ v \in {"accepted", "reported"}
    BY <2>7 DEF Compile
  <2> QED
    BY <2>1, <2>2, <2>3, <2>4, <2>5, <2>6, <2>7 DEF Modes, Verdicts
<1>2. "ok" \in Outcomes /\ "diagnosed" \in Outcomes
  BY DEF Outcomes
<1> QED
  BY <1>1, <1>2

LEMMA StagesStep == ASSUME Typed, Stages, Next PROVE Stages'
<1> USE ConstantsAssumption DEF Typed, Stages
<1>1. CASE Tick
  BY <1>1 DEF Tick
<1>2. ASSUME NEW c \in Contents \union {Absent}, Edit(c) PROVE Stages'
  BY <1>2 DEF Edit, Proc, Staged
<1>3. ASSUME NEW p \in Procs, Crash(p) PROVE Stages'
  BY <1>3 DEF Crash, Exit, Proc, Staged, WithSource, Linkable, Runs
<1>4. ASSUME NEW p \in Procs, NEW o \in Options, Start(p, o) PROVE Stages'
  BY <1>4 DEF Start, Fresh, Staged, WithSource, Linkable, Runs
<1>5. ASSUME NEW p \in Procs, ClearOne(p) PROVE Stages'
  BY <1>5 DEF ClearOne, Exit, Proc, Staged, WithSource, Linkable, Runs
<1>6. ASSUME NEW p \in Procs, Stat(p) PROVE Stages'
  <2>1. file.content # Absent => CacheKey(proc[p].opts) \in Keys
                                 /\ CacheKey(proc[p].opts).level = proc[p].opts.level
    BY DEF CacheKey, Keys, Sizes, Levels, FileType, Proc
  <2> QED
    BY <1>6, <2>1 DEF Stat, Exit, Proc, Staged, WithSource, Linkable, Runs
<1>7. ASSUME NEW p \in Procs, Access(p) PROVE Stages'
  BY <1>7 DEF Access, Goto, Proc, Staged, WithSource, Linkable, Runs
<1>8. ASSUME NEW p \in Procs, ExecHit(p) PROVE Stages'
  BY <1>8 DEF ExecHit, Exec, Exit, Proc, Staged, WithSource, Linkable, Runs
<1>9. ASSUME NEW p \in Procs, Read(p) PROVE Stages'
  <2>1. CASE file.content = Absent
    BY <1>9, <2>1 DEF Read, Exit, Staged, WithSource, Linkable, Runs, Proc
  <2>2. CASE file.content # Absent
    <3>1. file.content \in Contents
      BY <2>2 DEF FileType
    <3> QED
      BY <1>9, <2>2, <3>1 DEF Read, Staged, WithSource, Linkable, Runs, Proc
  <2> QED
    BY <2>1, <2>2
<1>10. ASSUME NEW p \in Procs, Compile(p) PROVE Stages'
  <2>1. /\ proc[p].pc = "compile" /\ proc[p].opts.mode \in Modes \ {"clear"}
        /\ Verdict[proc[p].src] \in Verdicts
    BY <1>10 DEF Compile, Proc, Staged, WithSource
  <2>2. CASE \E how \in Outcomes : Exit(p, how)
    BY <2>2 DEF Exit, Proc, Staged, WithSource, Linkable, Runs
  <2>3. CASE /\ Verdict[proc[p].src] \in {"accepted", "reported"}
             /\ proc' = [proc EXCEPT ![p].pc = "mktemp",
                                     ![p].reported = (Verdict[proc[p].src] = "reported")]
    BY <2>1, <2>3 DEF Proc, Staged, WithSource, Linkable, Runs
  <2> QED
    BY <1>10, <2>1, <2>2, <2>3, CompileEnds
<1>11. ASSUME NEW p \in Procs, MakeTemp(p) PROVE Stages'
  BY <1>11 DEF MakeTemp, Goto, Exit, Proc, Staged, WithSource, Linkable, Runs
<1>12. ASSUME NEW p \in Procs, WriteObject(p) PROVE Stages'
  BY <1>12 DEF WriteObject, Goto, Exit, Proc, Staged, WithSource, Linkable, Runs
<1>13. ASSUME NEW p \in Procs, LinkStart(p) PROVE Stages'
  BY <1>13 DEF LinkStart, Goto, Proc, Staged, WithSource, Linkable, Runs
<1>14. ASSUME NEW p \in Procs, LinkEnd(p) PROVE Stages'
  BY <1>14 DEF LinkEnd, Goto, Proc, Staged, WithSource, Linkable, Runs
<1>15. ASSUME NEW p \in Procs, LinkFail(p) PROVE Stages'
  BY <1>15 DEF LinkFail, Goto, Proc, Staged, WithSource, Linkable, Runs
<1>16. ASSUME NEW p \in Procs, UnlinkTemp(p) PROVE Stages'
  BY <1>16 DEF UnlinkTemp, Goto, Exit, Proc, Staged, WithSource, Linkable, Runs
<1>17. ASSUME NEW p \in Procs, Chmod(p) PROVE Stages'
  BY <1>17 DEF Chmod, Goto, Proc, Staged, WithSource, Linkable, Runs
<1>18. ASSUME NEW p \in Procs, ExecNew(p) PROVE Stages'
  BY <1>18 DEF ExecNew, Exec, Exit, Proc, Staged, WithSource, Linkable, Runs
<1> QED
  BY <1>1, <1>2, <1>3, <1>4, <1>5, <1>6, <1>7, <1>8, <1>9, <1>10, <1>11, <1>12, <1>13,
     <1>14, <1>15, <1>16, <1>17, <1>18 DEF Next, Step

LEMMA TypedStep == ASSUME Typed, Stages, Next PROVE Typed'
<1> USE ConstantsAssumption, OptionsAssumption, MarkAssumption DEF Typed
<1>1. CASE Tick
  BY <1>1 DEF Tick, FileType
<1>2. ASSUME NEW c \in Contents \union {Absent}, Edit(c) PROVE Typed'
  <2>1. file' \in FileType /\ clock' \in 0..MaxTick /\ file'.mtime <= clock'
    BY <1>2 DEF Edit, FileType
  <2>2. ASSUME NEW q \in Procs PROVE [proc[q] EXCEPT !.seen = @ \union
                                         IF proc[q].pc = "idle" THEN {} ELSE {c}] \in Proc
    BY DEF Proc
  <2>3. proc' \in [Procs -> Proc]
    BY <1>2, <2>2 DEF Edit
  <2> QED
    BY <1>2, <2>1, <2>3 DEF Edit
<1>3. ASSUME NEW p \in Procs, Crash(p) PROVE Typed'
  <2>1. proc' \in [Procs -> Proc]
    BY <1>3, ExitTyped DEF Crash, Outcomes
  <2>2. \A path \in Paths : fs[path] # NoFile => [fs[path] EXCEPT !.open = FALSE] \in Binary
    BY DEF Binary
  <2>3. fs' \in [Paths -> Binary \union {NoFile}]
    BY <1>3, <2>2 DEF Crash
  <2> QED
    BY <1>3, <2>1, <2>3 DEF Crash
<1>4. ASSUME NEW p \in Procs, NEW o \in Options, Start(p, o) PROVE Typed'
  <2> DEFINE r == [Fresh(o, runs + 1) EXCEPT
                   !.pc = CASE o.mode = "run" -> "stat"
                            [] o.mode = "clear" -> "clearing"
                            [] OTHER -> "read",
                   !.list = IF o.mode = "clear" THEN {k \in Keys : fs[k] # NoFile} ELSE {}]
  <2>1. runs + 1 \in 0..MaxRuns /\ Fresh(o, runs + 1) \in Proc
    BY <1>4 DEF Start, Fresh, FileType, Proc, Pcs, Outcomes, Paths
  <2>2. r \in Proc
    BY <2>1 DEF Proc, Pcs
  <2>3. proc' = [proc EXCEPT ![p] = r]
    BY <1>4 DEF Start
  <2> QED
    BY <1>4, <2>1, <2>2, <2>3 DEF Start
<1>5. ASSUME NEW p \in Procs, ClearOne(p) PROVE Typed'
  BY <1>5 DEF ClearOne, Exit, Proc, Pcs, Outcomes, Paths
<1>6. ASSUME NEW p \in Procs, Stat(p) PROVE Typed'
  <2>1. CASE file.content = Absent
    <3>1. Exit(p, "diagnosed")
      BY <1>6, <2>1 DEF Stat
    <3> QED
      BY <1>6, <3>1, ExitTyped DEF Stat, Outcomes
  <2>2. CASE file.content # Absent
    <3>1. CacheKey(proc[p].opts) \in Paths
      BY <2>2 DEF CacheKey, Keys, Sizes, Levels, FileType, Proc, Paths
    <3>2. proc' \in [Procs -> Proc]
      BY <1>6, <2>2, <3>1 DEF Stat, Proc, Pcs
    <3> QED
      BY <1>6, <3>2 DEF Stat
  <2> QED
    BY <2>1, <2>2
<1>7. ASSUME NEW p \in Procs, Access(p) PROVE Typed'
  BY <1>7 DEF Access, Goto, Proc, Pcs
<1>8. ASSUME NEW p \in Procs, ExecHit(p) PROVE Typed'
  BY <1>8 DEF ExecHit, Exec, Exit, Path, Proc, Pcs, Outcomes, Paths
<1>9. ASSUME NEW p \in Procs, Read(p) PROVE Typed'
  BY <1>9 DEF Read, Exit, Proc, Pcs, Outcomes
<1>10. ASSUME NEW p \in Procs, Compile(p) PROVE Typed'
  BY <1>10 DEF Compile, Exit, Proc, Pcs, Outcomes
<1>11. ASSUME NEW p \in Procs, MakeTemp(p) PROVE Typed'
  <2>1. proc' \in [Procs -> Proc]
    <3>1. "write" \in Pcs /\ "failed" \in Outcomes
      BY DEF Pcs, Outcomes
    <3>2. Goto(p, "write") \/ Exit(p, "failed")
      BY <1>11 DEF MakeTemp
    <3> QED
      BY <3>1, <3>2, GotoTyped, ExitTyped
  <2>2. Temp(p) \in TempType
    BY <1>11 DEF MakeTemp, Temp, TempType, Proc, Stages, Staged
  <2> QED
    BY <1>11, <2>1, <2>2 DEF MakeTemp
<1>12. ASSUME NEW p \in Procs, WriteObject(p) PROVE Typed'
  <2>1. "link" \in Pcs /\ "failed" \in Outcomes
    BY DEF Pcs, Outcomes
  <2>2. Goto(p, "link") \/ Exit(p, "failed")
    BY <1>12 DEF WriteObject
  <2>3. proc' \in [Procs -> Proc]
    BY <2>1, <2>2, GotoTyped, ExitTyped
  <2> QED
    BY <1>12, <2>3 DEF WriteObject
<1>13. ASSUME NEW p \in Procs, LinkStart(p) PROVE Typed'
  <2>1. proc' \in [Procs -> Proc]
    BY <1>13 DEF LinkStart, Goto, Proc, Pcs
  <2>2. Path(p) \in Paths
    BY DEF Path, Proc, Paths
  <2> DEFINE b == [by |-> p, from |-> proc[p].src, opt |-> proc[p].opts.doOpt,
                   level |-> proc[p].opts.level, done |-> FALSE, open |-> TRUE, x |-> FALSE]
  <2>3. b \in Binary
    BY <1>13 DEF LinkStart, Proc, Binary, Levels, Stages, Staged, WithSource
  <2> QED
    BY <1>13, <2>1, <2>2, <2>3 DEF LinkStart
<1>14. ASSUME NEW p \in Procs, LinkEnd(p) PROVE Typed'
  <2>1. proc' \in [Procs -> Proc]
    BY <1>14 DEF LinkEnd, Goto, Proc, Pcs
  <2>2. Path(p) \in Paths
    BY DEF Path, Proc, Paths
  <2>3. fs[Path(p)] # NoFile =>
           [fs[Path(p)] EXCEPT !.done = TRUE, !.open = FALSE, !.x = TRUE] \in Binary
    BY <2>2 DEF Binary
  <2>4. fs' \in [Paths -> Binary \union {NoFile}]
    BY <1>14, <2>2, <2>3 DEF LinkEnd
  <2> QED
    BY <1>14, <2>1, <2>4 DEF LinkEnd
<1>15. ASSUME NEW p \in Procs, LinkFail(p) PROVE Typed'
  <2>1. proc' \in [Procs -> Proc]
    BY <1>15 DEF LinkFail, Goto, Proc, Pcs
  <2>2. fs' \in [Paths -> Binary \union {NoFile}]
    BY <1>15 DEF LinkFail
  <2>3. faults' \in Nat
    BY <1>15 DEF LinkFail
  <2> QED
    BY <1>15, <2>1, <2>2, <2>3 DEF LinkFail
<1>16. ASSUME NEW p \in Procs, UnlinkTemp(p) PROVE Typed'
  BY <1>16 DEF UnlinkTemp, Goto, Exit, Proc, Pcs, Outcomes
<1>17. ASSUME NEW p \in Procs, Chmod(p) PROVE Typed'
  <2>1. proc' \in [Procs -> Proc]
    BY <1>17 DEF Chmod, Goto, Proc, Pcs
  <2>2. Path(p) \in Paths
    BY DEF Path, Proc, Paths
  <2>3. fs[Path(p)] # NoFile => [fs[Path(p)] EXCEPT !.x = TRUE] \in Binary
    BY <2>2 DEF Binary
  <2>4. fs' \in [Paths -> Binary \union {NoFile}]
    BY <1>17, <2>2, <2>3 DEF Chmod
  <2> QED
    BY <1>17, <2>1, <2>4 DEF Chmod
<1>18. ASSUME NEW p \in Procs, ExecNew(p) PROVE Typed'
  <2>1. proc' \in [Procs -> Proc]
    BY <1>18 DEF ExecNew, Exec, Exit, Path, Proc, Pcs, Outcomes, Paths
  <2>2. Path(p) \in Keys
    BY <1>18 DEF ExecNew, Path, Stages, Staged, Runs
  <2>3. built' \in SUBSET Keys
    BY <1>18, <2>2 DEF ExecNew
  <2> QED
    BY <1>18, <2>1, <2>3 DEF ExecNew
<1> QED
  BY <1>1, <1>2, <1>3, <1>4, <1>5, <1>6, <1>7, <1>8, <1>9, <1>10, <1>11, <1>12, <1>13,
     <1>14, <1>15, <1>16, <1>17, <1>18 DEF Next, Step

(***************************************************************************)
(* Temporary objects                                                       *)
(***************************************************************************)
LEMMA TemporariesStep ==
    ASSUME Typed, OnlyKillsLeakTemporaries, Next PROVE OnlyKillsLeakTemporaries'
<1> USE DEF Typed, OnlyKillsLeakTemporaries
<1>1. CASE Tick
  BY <1>1 DEF Tick, Proc, TempType
<1>2. ASSUME NEW c \in Contents \union {Absent}, Edit(c) PROVE OnlyKillsLeakTemporaries'
  BY <1>2 DEF Edit, Proc, TempType
<1>3. ASSUME NEW p \in Procs, Crash(p) PROVE OnlyKillsLeakTemporaries'
  BY <1>3 DEF Crash, Exit, Proc, TempType
<1>4. ASSUME NEW p \in Procs, NEW o \in Options, Start(p, o) PROVE OnlyKillsLeakTemporaries'
  BY <1>4 DEF Start, Fresh, Proc, TempType
<1>5. ASSUME NEW p \in Procs, ClearOne(p) PROVE OnlyKillsLeakTemporaries'
  BY <1>5 DEF ClearOne, Exit, Proc, TempType
<1>6. ASSUME NEW p \in Procs, Stat(p) PROVE OnlyKillsLeakTemporaries'
  BY <1>6 DEF Stat, Exit, Proc, TempType
<1>7. ASSUME NEW p \in Procs, Access(p) PROVE OnlyKillsLeakTemporaries'
  BY <1>7 DEF Access, Goto, Proc, TempType
<1>8. ASSUME NEW p \in Procs, ExecHit(p) PROVE OnlyKillsLeakTemporaries'
  BY <1>8 DEF ExecHit, Exec, Exit, Proc, TempType
<1>9. ASSUME NEW p \in Procs, Read(p) PROVE OnlyKillsLeakTemporaries'
  BY <1>9 DEF Read, Exit, Proc, TempType
<1>10. ASSUME NEW p \in Procs, Compile(p) PROVE OnlyKillsLeakTemporaries'
  BY <1>10 DEF Compile, Exit, Proc, TempType
<1>11. ASSUME NEW p \in Procs, MakeTemp(p) PROVE OnlyKillsLeakTemporaries'
  BY <1>11 DEF MakeTemp, Goto, Exit, Temp, Proc, TempType
<1>12. ASSUME NEW p \in Procs, WriteObject(p) PROVE OnlyKillsLeakTemporaries'
  BY <1>12 DEF WriteObject, Goto, Exit, Temp, Proc, TempType
<1>13. ASSUME NEW p \in Procs, LinkStart(p) PROVE OnlyKillsLeakTemporaries'
  BY <1>13 DEF LinkStart, Goto, Proc, TempType
<1>14. ASSUME NEW p \in Procs, LinkEnd(p) PROVE OnlyKillsLeakTemporaries'
  BY <1>14 DEF LinkEnd, Goto, Proc, TempType
<1>15. ASSUME NEW p \in Procs, LinkFail(p) PROVE OnlyKillsLeakTemporaries'
  BY <1>15 DEF LinkFail, Goto, Proc, TempType
<1>16. ASSUME NEW p \in Procs, UnlinkTemp(p) PROVE OnlyKillsLeakTemporaries'
  BY <1>16 DEF UnlinkTemp, Goto, Exit, Temp, Proc, TempType
<1>17. ASSUME NEW p \in Procs, Chmod(p) PROVE OnlyKillsLeakTemporaries'
  BY <1>17 DEF Chmod, Goto, Proc, TempType
<1>18. ASSUME NEW p \in Procs, ExecNew(p) PROVE OnlyKillsLeakTemporaries'
  BY <1>18 DEF ExecNew, Exec, Exit, Proc, TempType
<1> QED
  BY <1>1, <1>2, <1>3, <1>4, <1>5, <1>6, <1>7, <1>8, <1>9, <1>10, <1>11, <1>12,
     <1>13, <1>14, <1>15, <1>16, <1>17, <1>18 DEF Next, Step

(***************************************************************************)
(* Whole binaries                                                          *)
(***************************************************************************)
\* Without kills a file is whole, or its linker is at work on it.
Whole(f) == f.done /\ f.x /\ ~f.open
UnderWork(f, path) == f.open /\ proc[f.by].pc = "linking" /\ Path(f.by) = path
Accepted(f) == Verdict[f.from] \in {"accepted", "reported"}

Files == crashes = 0 =>
            \A path \in Paths : fs[path] # NoFile =>
               Whole(fs[path]) \/ UnderWork(fs[path], path)
Verdicted == /\ \A path \in Paths : fs[path] # NoFile => Accepted(fs[path])
             /\ \A p \in Procs : Ran(p) => Accepted(proc[p].ran)
RunsWhole == crashes = 0 => \A p \in Procs : Ran(p) => proc[p].ran.done

LEMMA FilesStep == ASSUME Typed, Stages, Files, Next PROVE Files'
<1> USE MarkAssumption DEF Typed, Files
<1>1. CASE Tick
  BY <1>1 DEF Tick, Whole, UnderWork, Path, Proc, Binary
<1>2. ASSUME NEW c \in Contents \union {Absent}, Edit(c) PROVE Files'
  BY <1>2 DEF Edit, Whole, UnderWork, Path, Proc, Binary
<1>3. ASSUME NEW p \in Procs, Crash(p) PROVE Files'
  BY <1>3 DEF Crash, Exit, Whole, UnderWork, Path, Proc, Binary
<1>4. ASSUME NEW p \in Procs, NEW o \in Options, Start(p, o) PROVE Files'
  BY <1>4 DEF Start, Fresh, Whole, UnderWork, Path, Proc, Binary
<1>5. ASSUME NEW p \in Procs, ClearOne(p) PROVE Files'
  BY <1>5 DEF ClearOne, Exit, Whole, UnderWork, Path, Proc, Binary
<1>6. ASSUME NEW p \in Procs, Stat(p) PROVE Files'
  BY <1>6 DEF Stat, Exit, Whole, UnderWork, Path, Proc, Binary
<1>7. ASSUME NEW p \in Procs, Access(p) PROVE Files'
  BY <1>7 DEF Access, Goto, Whole, UnderWork, Path, Proc, Binary
<1>8. ASSUME NEW p \in Procs, ExecHit(p) PROVE Files'
  BY <1>8 DEF ExecHit, Exec, Exit, Whole, UnderWork, Path, Proc, Binary
<1>9. ASSUME NEW p \in Procs, Read(p) PROVE Files'
  BY <1>9 DEF Read, Exit, Whole, UnderWork, Path, Proc, Binary
<1>10. ASSUME NEW p \in Procs, Compile(p) PROVE Files'
  BY <1>10 DEF Compile, Exit, Whole, UnderWork, Path, Proc, Binary
<1>11. ASSUME NEW p \in Procs, MakeTemp(p) PROVE Files'
  BY <1>11 DEF MakeTemp, Goto, Exit, Whole, UnderWork, Path, Proc, Binary
<1>12. ASSUME NEW p \in Procs, WriteObject(p) PROVE Files'
  BY <1>12 DEF WriteObject, Goto, Exit, Whole, UnderWork, Path, Proc, Binary
<1>13. ASSUME NEW p \in Procs, LinkStart(p) PROVE Files'
  BY <1>13 DEF LinkStart, Goto, Whole, UnderWork, Path, Proc, Binary
<1>14. ASSUME NEW p \in Procs, LinkEnd(p) PROVE Files'
  <2> SUFFICES ASSUME crashes' = 0, NEW path \in Paths, fs'[path] # NoFile
               PROVE  Whole(fs'[path]) \/ UnderWork(fs[path], path)'
    BY DEF Files
  <2>1. crashes = 0 /\ proc[p].pc = "linking" /\ Path(p) \in Paths
    BY <1>14 DEF LinkEnd, Path, Proc, Paths
  <2>2. \A q \in Procs \ {p} : proc'[q] = proc[q]
    BY <1>14 DEF LinkEnd, Goto
  <2>3. CASE path # Path(p)
    <3>1. fs'[path] = fs[path]
      BY <1>14, <2>3 DEF LinkEnd
    <3>2. CASE UnderWork(fs[path], path)
      <4>1. fs[path].by \in Procs \ {p}
        BY <2>3, <3>1, <3>2 DEF UnderWork, Binary
      <4> QED
        BY <2>2, <3>1, <3>2, <4>1 DEF UnderWork, Path
    <3> QED
      BY <2>1, <3>1, <3>2 DEF Whole
  <2>4. CASE path = Path(p) /\ fs[path] # NoFile /\ fs[path].by = p /\ fs[path].open
    <3>1. fs'[path] = [fs[path] EXCEPT !.done = TRUE, !.open = FALSE, !.x = TRUE]
      BY <1>14, <2>4 DEF LinkEnd
    <3> QED
      BY <2>4, <3>1 DEF Whole, Binary
  <2>5. CASE path = Path(p) /\ ~(fs[path] # NoFile /\ fs[path].by = p /\ fs[path].open)
    <3>1. fs'[path] = fs[path]
      BY <1>14, <2>5 DEF LinkEnd
    <3>2. CASE UnderWork(fs[path], path)
      <4>1. fs[path].by \in Procs \ {p}
        BY <2>5, <3>1, <3>2 DEF UnderWork, Binary
      <4> QED
        BY <2>2, <3>1, <3>2, <4>1 DEF UnderWork, Path
    <3> QED
      BY <2>1, <3>1, <3>2 DEF Whole
  <2> QED
    BY <2>3, <2>4, <2>5
<1>15. ASSUME NEW p \in Procs, LinkFail(p) PROVE Files'
  BY <1>15 DEF LinkFail, Goto, Whole, UnderWork, Path, Proc, Binary
<1>16. ASSUME NEW p \in Procs, UnlinkTemp(p) PROVE Files'
  BY <1>16 DEF UnlinkTemp, Goto, Exit, Whole, UnderWork, Path, Proc, Binary
<1>17. ASSUME NEW p \in Procs, Chmod(p) PROVE Files'
  <2> SUFFICES ASSUME crashes' = 0, NEW path \in Paths, fs'[path] # NoFile
               PROVE  Whole(fs'[path]) \/ UnderWork(fs[path], path)'
    BY DEF Files
  <2>1. crashes = 0 /\ proc[p].pc = "chmod" /\ fs[path] # NoFile
    BY <1>17 DEF Chmod
  <2>2. \A q \in Procs \ {p} : proc'[q] = proc[q]
    BY <1>17 DEF Chmod, Goto
  <2>3. fs'[path] \in {fs[path], [fs[path] EXCEPT !.x = TRUE]}
    BY <1>17 DEF Chmod
  <2>4. fs'[path].open = fs[path].open /\ fs'[path].by = fs[path].by /\ fs'[path].done = fs[path].done
        /\ (fs[path].x => fs'[path].x)
    BY <2>1, <2>3 DEF Binary
  <2>5. CASE UnderWork(fs[path], path)
    <3>1. fs[path].by \in Procs \ {p}
      BY <2>1, <2>5 DEF UnderWork, Binary
    <3> QED
      BY <2>2, <2>4, <2>5, <3>1 DEF UnderWork, Path
  <2> QED
    BY <2>1, <2>4, <2>5 DEF Whole
<1>18. ASSUME NEW p \in Procs, ExecNew(p) PROVE Files'
  BY <1>18 DEF ExecNew, Exec, Exit, Whole, UnderWork, Path, Proc, Binary
<1> QED
  BY <1>1, <1>2, <1>3, <1>4, <1>5, <1>6, <1>7, <1>8, <1>9, <1>10, <1>11, <1>12,
     <1>13, <1>14, <1>15, <1>16, <1>17, <1>18 DEF Next, Step

LEMMA VerdictedStep == ASSUME Typed, Stages, Verdicted, Next PROVE Verdicted'
<1> USE MarkAssumption DEF Typed, Stages, Staged, Linkable, Verdicted
<1>1. CASE Tick
  BY <1>1 DEF Tick, Accepted, Ran, Path, Proc, Paths
<1>2. ASSUME NEW c \in Contents \union {Absent}, Edit(c) PROVE Verdicted'
  BY <1>2 DEF Edit, Accepted, Ran, Path, Proc, Paths
<1>3. ASSUME NEW p \in Procs, Crash(p) PROVE Verdicted'
  BY <1>3 DEF Crash, Exit, Accepted, Ran, Path, Proc, Paths
<1>4. ASSUME NEW p \in Procs, NEW o \in Options, Start(p, o) PROVE Verdicted'
  BY <1>4 DEF Start, Fresh, Accepted, Ran, Path, Proc, Paths
<1>5. ASSUME NEW p \in Procs, ClearOne(p) PROVE Verdicted'
  BY <1>5 DEF ClearOne, Exit, Accepted, Ran, Path, Proc, Paths
<1>6. ASSUME NEW p \in Procs, Stat(p) PROVE Verdicted'
  BY <1>6 DEF Stat, Exit, Accepted, Ran, Path, Proc, Paths
<1>7. ASSUME NEW p \in Procs, Access(p) PROVE Verdicted'
  BY <1>7 DEF Access, Goto, Accepted, Ran, Path, Proc, Paths
<1>8. ASSUME NEW p \in Procs, ExecHit(p) PROVE Verdicted'
  BY <1>8 DEF ExecHit, Exec, Exit, Accepted, Ran, Path, Proc, Paths
<1>9. ASSUME NEW p \in Procs, Read(p) PROVE Verdicted'
  BY <1>9 DEF Read, Exit, Accepted, Ran, Path, Proc, Paths
<1>10. ASSUME NEW p \in Procs, Compile(p) PROVE Verdicted'
  BY <1>10 DEF Compile, Exit, Accepted, Ran, Path, Proc, Paths
<1>11. ASSUME NEW p \in Procs, MakeTemp(p) PROVE Verdicted'
  BY <1>11 DEF MakeTemp, Goto, Exit, Accepted, Ran, Path, Proc, Paths
<1>12. ASSUME NEW p \in Procs, WriteObject(p) PROVE Verdicted'
  BY <1>12 DEF WriteObject, Goto, Exit, Accepted, Ran, Path, Proc, Paths
<1>13. ASSUME NEW p \in Procs, LinkStart(p) PROVE Verdicted'
  BY <1>13 DEF LinkStart, Goto, Accepted, Ran, Path, Proc, Paths
<1>14. ASSUME NEW p \in Procs, LinkEnd(p) PROVE Verdicted'
  BY <1>14 DEF LinkEnd, Goto, Accepted, Ran, Path, Proc, Paths
<1>15. ASSUME NEW p \in Procs, LinkFail(p) PROVE Verdicted'
  BY <1>15 DEF LinkFail, Goto, Accepted, Ran, Path, Proc, Paths
<1>16. ASSUME NEW p \in Procs, UnlinkTemp(p) PROVE Verdicted'
  BY <1>16 DEF UnlinkTemp, Goto, Exit, Accepted, Ran, Path, Proc, Paths
<1>17. ASSUME NEW p \in Procs, Chmod(p) PROVE Verdicted'
  BY <1>17 DEF Chmod, Goto, Accepted, Ran, Path, Proc, Paths
<1>18. ASSUME NEW p \in Procs, ExecNew(p) PROVE Verdicted'
  BY <1>18 DEF ExecNew, Exec, Exit, Accepted, Ran, Path, Proc, Paths
<1> QED
  BY <1>1, <1>2, <1>3, <1>4, <1>5, <1>6, <1>7, <1>8, <1>9, <1>10, <1>11, <1>12,
     <1>13, <1>14, <1>15, <1>16, <1>17, <1>18 DEF Next, Step

LEMMA RunsWholeStep == ASSUME Typed, Files, RunsWhole, Next PROVE RunsWhole'
<1> USE MarkAssumption DEF Typed, Files, RunsWhole
<1>1. CASE Tick
  BY <1>1 DEF Tick, Whole, UnderWork, Ran, Path, Proc, Paths
<1>2. ASSUME NEW c \in Contents \union {Absent}, Edit(c) PROVE RunsWhole'
  BY <1>2 DEF Edit, Whole, UnderWork, Ran, Path, Proc, Paths
<1>3. ASSUME NEW p \in Procs, Crash(p) PROVE RunsWhole'
  BY <1>3 DEF Crash, Exit, Whole, UnderWork, Ran, Path, Proc, Paths
<1>4. ASSUME NEW p \in Procs, NEW o \in Options, Start(p, o) PROVE RunsWhole'
  BY <1>4 DEF Start, Fresh, Whole, UnderWork, Ran, Path, Proc, Paths
<1>5. ASSUME NEW p \in Procs, ClearOne(p) PROVE RunsWhole'
  BY <1>5 DEF ClearOne, Exit, Whole, UnderWork, Ran, Path, Proc, Paths
<1>6. ASSUME NEW p \in Procs, Stat(p) PROVE RunsWhole'
  BY <1>6 DEF Stat, Exit, Whole, UnderWork, Ran, Path, Proc, Paths
<1>7. ASSUME NEW p \in Procs, Access(p) PROVE RunsWhole'
  BY <1>7 DEF Access, Goto, Whole, UnderWork, Ran, Path, Proc, Paths
<1>8. ASSUME NEW p \in Procs, ExecHit(p) PROVE RunsWhole'
  BY <1>8 DEF ExecHit, Exec, Exit, Whole, UnderWork, Ran, Path, Proc, Paths
<1>9. ASSUME NEW p \in Procs, Read(p) PROVE RunsWhole'
  BY <1>9 DEF Read, Exit, Whole, UnderWork, Ran, Path, Proc, Paths
<1>10. ASSUME NEW p \in Procs, Compile(p) PROVE RunsWhole'
  BY <1>10 DEF Compile, Exit, Whole, UnderWork, Ran, Path, Proc, Paths
<1>11. ASSUME NEW p \in Procs, MakeTemp(p) PROVE RunsWhole'
  BY <1>11 DEF MakeTemp, Goto, Exit, Whole, UnderWork, Ran, Path, Proc, Paths
<1>12. ASSUME NEW p \in Procs, WriteObject(p) PROVE RunsWhole'
  BY <1>12 DEF WriteObject, Goto, Exit, Whole, UnderWork, Ran, Path, Proc, Paths
<1>13. ASSUME NEW p \in Procs, LinkStart(p) PROVE RunsWhole'
  BY <1>13 DEF LinkStart, Goto, Whole, UnderWork, Ran, Path, Proc, Paths
<1>14. ASSUME NEW p \in Procs, LinkEnd(p) PROVE RunsWhole'
  BY <1>14 DEF LinkEnd, Goto, Whole, UnderWork, Ran, Path, Proc, Paths
<1>15. ASSUME NEW p \in Procs, LinkFail(p) PROVE RunsWhole'
  BY <1>15 DEF LinkFail, Goto, Whole, UnderWork, Ran, Path, Proc, Paths
<1>16. ASSUME NEW p \in Procs, UnlinkTemp(p) PROVE RunsWhole'
  BY <1>16 DEF UnlinkTemp, Goto, Exit, Whole, UnderWork, Ran, Path, Proc, Paths
<1>17. ASSUME NEW p \in Procs, Chmod(p) PROVE RunsWhole'
  BY <1>17 DEF Chmod, Goto, Whole, UnderWork, Ran, Path, Proc, Paths
<1>18. ASSUME NEW p \in Procs, ExecNew(p) PROVE RunsWhole'
  BY <1>18 DEF ExecNew, Exec, Exit, Whole, UnderWork, Ran, Path, Proc, Paths
<1> QED
  BY <1>1, <1>2, <1>3, <1>4, <1>5, <1>6, <1>7, <1>8, <1>9, <1>10, <1>11, <1>12,
     <1>13, <1>14, <1>15, <1>16, <1>17, <1>18 DEF Next, Step

(***************************************************************************)
(* Current sources                                                         *)
(***************************************************************************)
\* A run that has its key, and one that has read the source as well.
Keyed(p) == proc[p].pc \notin {"idle", "stat"} /\ proc[p].opts.mode = "run"
Holds(p) == Keyed(p) /\ proc[p].pc \in WithSource

\* Keys do not come from the future; the key of the file as it is now stands
\* for what it holds now, in the cache and in every run under way; and what
\* lies or will lie at the path of a run is something that run has seen.
NowSeen == \A p \in Procs : proc[p].pc # "idle" => file.content \in proc[p].seen
KeysArePast == \A p \in Procs : Keyed(p) => proc[p].key.mtime <= file.mtime
SourcesAreNow == \A p \in Procs : Holds(p) /\ proc[p].key.mtime = file.mtime =>
                    proc[p].src = file.content
CacheIsNow == \A k \in Keys : fs[k] # NoFile =>
                 /\ k.mtime <= file.mtime
                 /\ fs[k].level = k.level
                 /\ k.mtime = file.mtime => fs[k].from = file.content
OthersSeen == \A p, q \in Procs : Keyed(p) /\ Holds(q) /\ proc[p].key = proc[q].key =>
                 proc[q].src \in proc[p].seen
CacheSeen == \A p \in Procs : Keyed(p) /\ fs[proc[p].key] # NoFile =>
                fs[proc[p].key].from \in proc[p].seen

Current == /\ NowSeen /\ KeysArePast /\ SourcesAreNow /\ CacheIsNow
           /\ OthersSeen /\ CacheSeen /\ RunsCurrentSource

LEMMA CurrentInit == Init => Current
BY DEF Init, Fresh, Current, NowSeen, KeysArePast, SourcesAreNow, CacheIsNow, OthersSeen,
       CacheSeen, RunsCurrentSource, Keyed, Holds, Ran, Paths

\* Nothing is newly seen, read or cached: p goes on or ends.
GoesOn(p) ==
    /\ file' = file
    /\ \A k \in Keys : fs'[k] # NoFile =>
          fs[k] # NoFile /\ fs'[k].from = fs[k].from /\ fs'[k].level = fs[k].level
    /\ \A q \in Procs \ {p} : proc'[q] = proc[q]
    /\ proc'[p].key = proc[p].key /\ proc'[p].src = proc[p].src /\ proc'[p].seen = proc[p].seen
    /\ proc'[p].opts = proc[p].opts /\ proc'[p].ran = proc[p].ran
    /\ proc'[p].outcome = "ran" => proc[p].outcome = "ran"
    /\ proc[p].pc # "idle"
    /\ proc'[p].pc \notin {"idle", "stat"} => proc[p].pc # "stat"
    /\ proc'[p].pc \in WithSource => proc[p].pc \in WithSource

LEMMA CurrentGoesOn ==
    ASSUME Typed, Stages, Current, NEW p \in Procs, GoesOn(p) PROVE Current'
<1>1. NowSeen'
  BY DEF GoesOn, Current, NowSeen
<1>2. \A q \in Procs : /\ Keyed(q)' => Keyed(q) /\ proc'[q].key = proc[q].key
                       /\ Holds(q)' => Holds(q) /\ proc'[q].src = proc[q].src
                       /\ proc'[q].seen = proc[q].seen
  BY DEF GoesOn, Keyed, Holds
<1>3. KeysArePast' /\ SourcesAreNow'
  BY <1>2 DEF GoesOn, Current, KeysArePast, SourcesAreNow, Holds
<1>4. CacheIsNow'
  BY DEF GoesOn, Current, CacheIsNow
<1>5. OthersSeen'
  BY <1>2 DEF Current, OthersSeen, Holds
<1>6. CacheSeen'
  <2> SUFFICES ASSUME NEW q \in Procs, Keyed(q)', fs'[proc'[q].key] # NoFile
               PROVE  fs'[proc'[q].key].from \in proc'[q].seen
    BY DEF CacheSeen
  <2>1. Keyed(q) /\ proc'[q].key = proc[q].key /\ proc'[q].seen = proc[q].seen
    BY <1>2
  <2> QED
    BY <2>1 DEF GoesOn, Current, CacheSeen, Stages, Staged, Keyed
<1>7. RunsCurrentSource'
  BY DEF GoesOn, Current, RunsCurrentSource, Ran
<1> QED
  BY <1>1, <1>3, <1>4, <1>5, <1>6, <1>7 DEF Current

LEMMA CurrentStep == ASSUME ~SameTickEdits, Typed, Stages, Current, Next PROVE Current'
<1> USE MarkAssumption DEF Typed, Stages, Staged, WithSource
<1>1. CASE Tick
  BY <1>1 DEF Tick, Current, NowSeen, KeysArePast, SourcesAreNow, CacheIsNow, OthersSeen, CacheSeen,
         RunsCurrentSource, Keyed, Holds, Ran, Proc, FileType
<1>2. ASSUME NEW c \in Contents \union {Absent}, Edit(c) PROVE Current'
  <2>1. /\ file' = [content |-> c, mtime |-> clock] /\ fs' = fs
        /\ file.mtime < clock
    BY <1>2 DEF Edit, FileType
  <2>2. \A q \in Procs :
           /\ proc'[q].pc = proc[q].pc /\ proc'[q].key = proc[q].key
           /\ proc'[q].src = proc[q].src /\ proc'[q].opts = proc[q].opts
           /\ proc'[q].outcome = proc[q].outcome /\ proc'[q].ran = proc[q].ran
           /\ proc[q].seen \subseteq proc'[q].seen
           /\ proc[q].pc # "idle" => c \in proc'[q].seen
    BY <1>2 DEF Edit, Proc
  <2>3. \A k \in Keys : k.mtime <= file.mtime => k.mtime < clock
    BY <2>1 DEF Keys, FileType
  <2>4. NowSeen' /\ RunsCurrentSource'
    BY <2>1, <2>2 DEF Current, NowSeen, RunsCurrentSource, Ran
  <2>5. \A q \in Procs : Keyed(q) => proc[q].key \in Keys /\ proc[q].key.mtime < clock
    BY <2>3 DEF Current, KeysArePast, Keyed
  <2>6. KeysArePast' /\ SourcesAreNow'
    BY <2>1, <2>2, <2>5 DEF KeysArePast, SourcesAreNow, Keyed, Holds, Keys, FileType
  <2>7. CacheIsNow'
    BY <2>1, <2>3 DEF Current, CacheIsNow, Keys, FileType
  <2>8. OthersSeen'
    BY <2>2 DEF Current, OthersSeen, Keyed, Holds
  <2>9. CacheSeen'
    BY <2>1, <2>2 DEF Current, CacheSeen, Keyed
  <2> QED
    BY <2>4, <2>6, <2>7, <2>8, <2>9 DEF Current
<1>3. ASSUME NEW p \in Procs, Crash(p) PROVE Current'
  <2>1. GoesOn(p)
    BY <1>3 DEF Crash, Exit, GoesOn, Proc, Paths, Binary
  <2> QED
    BY <2>1, CurrentGoesOn
<1>4. ASSUME NEW p \in Procs, NEW o \in Options, Start(p, o) PROVE Current'
  BY <1>4 DEF Start, Fresh, Current, NowSeen, KeysArePast, SourcesAreNow, CacheIsNow, OthersSeen, CacheSeen,
         RunsCurrentSource, Keyed, Holds, Ran, Proc, FileType
<1>5. ASSUME NEW p \in Procs, ClearOne(p) PROVE Current'
  <2>1. GoesOn(p)
    BY <1>5 DEF ClearOne, Exit, GoesOn, Proc, Paths, Binary
  <2> QED
    BY <2>1, CurrentGoesOn
<1>6. ASSUME NEW p \in Procs, Stat(p) PROVE Current'
  <2>1. CASE file.content = Absent
    <3>1. GoesOn(p)
      BY <1>6, <2>1 DEF Stat, Exit, GoesOn, Proc
    <3> QED
      BY <3>1, CurrentGoesOn
  <2>2. CASE file.content # Absent
    <3> DEFINE k == CacheKey(proc[p].opts)
    <3>1. /\ proc' = [proc EXCEPT ![p].pc = "access", ![p].key = k]
          /\ file' = file /\ fs' = fs /\ proc[p].pc = "stat"
      BY <1>6, <2>2 DEF Stat
    <3>2. k \in Keys /\ k.mtime = file.mtime
      BY <2>2 DEF CacheKey, Keys, Sizes, Levels, FileType, Proc
    <3>3. /\ \A q \in Procs \ {p} : proc'[q] = proc[q]
          /\ proc'[p].pc = "access" /\ proc'[p].key = k /\ proc'[p].src = proc[p].src
          /\ proc'[p].seen = proc[p].seen /\ proc'[p].opts = proc[p].opts
          /\ proc'[p].outcome = proc[p].outcome /\ proc'[p].ran = proc[p].ran
      BY <3>1 DEF Proc
    <3> HIDE DEF k
    <3>4. \A q \in Procs : /\ Holds(q)' => Holds(q) /\ q # p
                           /\ Keyed(q)' => q = p \/ Keyed(q)
      BY <3>3 DEF Holds, Keyed
    <3>5. NowSeen' /\ RunsCurrentSource'
      BY <3>1, <3>3 DEF Current, NowSeen, RunsCurrentSource, Ran
    <3>6. KeysArePast' /\ SourcesAreNow' /\ CacheIsNow'
      BY <3>1, <3>2, <3>3, <3>4 DEF Current, KeysArePast, SourcesAreNow, CacheIsNow, FileType
    <3>7. OthersSeen'
      <4> SUFFICES ASSUME NEW q \in Procs, NEW r \in Procs, Keyed(q)', Holds(r)',
                          proc'[q].key = proc'[r].key
                   PROVE  proc'[r].src \in proc'[q].seen
        BY DEF OthersSeen
      <4>1. Holds(r) /\ r # p /\ proc'[r] = proc[r]
        BY <3>3, <3>4
      <4>2. CASE q = p
        <5>1. proc[r].key.mtime = file.mtime
          BY <3>2, <3>3, <4>1, <4>2
        <5> QED
          BY <3>1, <3>3, <4>1, <4>2, <5>1 DEF Current, SourcesAreNow, NowSeen
      <4>3. CASE q # p
        BY <3>3, <3>4, <4>1, <4>3 DEF Current, OthersSeen
      <4> QED
        BY <4>2, <4>3
    <3>8. CacheSeen'
      <4> SUFFICES ASSUME NEW q \in Procs, Keyed(q)', fs[proc'[q].key] # NoFile
                   PROVE  fs[proc'[q].key].from \in proc'[q].seen
        BY <3>1 DEF CacheSeen
      <4>1. CASE q = p
        BY <3>1, <3>2, <3>3, <4>1 DEF Current, CacheIsNow, NowSeen
      <4>2. CASE q # p
        BY <3>3, <3>4, <4>2 DEF Current, CacheSeen
      <4> QED
        BY <4>1, <4>2
    <3> QED
      BY <3>5, <3>6, <3>7, <3>8 DEF Current
  <2> QED
    BY <2>1, <2>2
<1>7. ASSUME NEW p \in Procs, Access(p) PROVE Current'
  BY <1>7 DEF Access, Goto, Current, NowSeen, KeysArePast, SourcesAreNow, CacheIsNow, OthersSeen, CacheSeen,
         RunsCurrentSource, Keyed, Holds, Ran, Proc, FileType
<1>8. ASSUME NEW p \in Procs, ExecHit(p) PROVE Current'
  BY <1>8 DEF ExecHit, Exec, Exit, Path, Current, NowSeen, KeysArePast, SourcesAreNow, CacheIsNow, OthersSeen, CacheSeen,
         RunsCurrentSource, Keyed, Holds, Ran, Proc, FileType
<1>9. ASSUME NEW p \in Procs, Read(p) PROVE Current'
  <2>1. CASE file.content = Absent
    <3>1. GoesOn(p)
      BY <1>9, <2>1 DEF Read, Exit, GoesOn, Proc
    <3> QED
      BY <3>1, CurrentGoesOn
  <2>2. CASE file.content # Absent
    <3>1. /\ proc' = [proc EXCEPT ![p].pc = "compile", ![p].src = file.content]
          /\ file' = file /\ fs' = fs /\ proc[p].pc = "read"
      BY <1>9, <2>2 DEF Read
    <3>2. /\ \A q \in Procs \ {p} : proc'[q] = proc[q]
          /\ proc'[p].pc = "compile" /\ proc'[p].key = proc[p].key
          /\ proc'[p].src = file.content
          /\ proc'[p].seen = proc[p].seen /\ proc'[p].opts = proc[p].opts
          /\ proc'[p].outcome = proc[p].outcome /\ proc'[p].ran = proc[p].ran
      BY <3>1 DEF Proc
    <3>3. \A q \in Procs : /\ Holds(q)' => q = p \/ Holds(q)
                           /\ Keyed(q)' => Keyed(q) /\ proc[q].pc # "idle"
                           /\ proc'[q].key = proc[q].key /\ proc'[q].seen = proc[q].seen
      BY <3>1, <3>2 DEF Holds, Keyed
    <3>4. NowSeen' /\ RunsCurrentSource'
      BY <3>1, <3>2 DEF Current, NowSeen, RunsCurrentSource, Ran
    <3>5. KeysArePast' /\ SourcesAreNow' /\ CacheIsNow'
      BY <3>1, <3>2, <3>3 DEF Current, KeysArePast, SourcesAreNow, CacheIsNow
    <3>6. OthersSeen'
      BY <3>1, <3>2, <3>3 DEF Current, OthersSeen, NowSeen
    <3>7. CacheSeen'
      BY <3>1, <3>3 DEF Current, CacheSeen
    <3> QED
      BY <3>4, <3>5, <3>6, <3>7 DEF Current
  <2> QED
    BY <2>1, <2>2
<1>10. ASSUME NEW p \in Procs, Compile(p) PROVE Current'
  <2>1. GoesOn(p)
    BY <1>10 DEF Compile, Exit, GoesOn, Proc
  <2> QED
    BY <2>1, CurrentGoesOn
<1>11. ASSUME NEW p \in Procs, MakeTemp(p) PROVE Current'
  <2>1. GoesOn(p)
    BY <1>11 DEF MakeTemp, Goto, Exit, GoesOn, Proc
  <2> QED
    BY <2>1, CurrentGoesOn
<1>12. ASSUME NEW p \in Procs, WriteObject(p) PROVE Current'
  <2>1. GoesOn(p)
    BY <1>12 DEF WriteObject, Goto, Exit, GoesOn, Proc
  <2> QED
    BY <2>1, CurrentGoesOn
<1>13. ASSUME NEW p \in Procs, LinkStart(p) PROVE Current'
  BY <1>13 DEF LinkStart, Goto, Path, Current, NowSeen, KeysArePast, SourcesAreNow, CacheIsNow, OthersSeen, CacheSeen,
         RunsCurrentSource, Keyed, Holds, Ran, Proc, FileType
<1>14. ASSUME NEW p \in Procs, LinkEnd(p) PROVE Current'
  <2>1. \A k \in Keys : fs'[k] # NoFile =>
           fs[k] # NoFile /\ fs'[k].from = fs[k].from /\ fs'[k].level = fs[k].level
    BY <1>14 DEF LinkEnd, Path, Proc, Paths, Binary
  <2>2. GoesOn(p)
    BY <1>14, <2>1 DEF LinkEnd, Goto, GoesOn, Proc
  <2> QED
    BY <2>2, CurrentGoesOn
<1>15. ASSUME NEW p \in Procs, LinkFail(p) PROVE Current'
  <2>1. \A k \in Keys : fs'[k] # NoFile =>
           fs[k] # NoFile /\ fs'[k].from = fs[k].from /\ fs'[k].level = fs[k].level
    BY <1>15 DEF LinkFail, Path, Proc, Paths, Binary
  <2>2. GoesOn(p)
    BY <1>15, <2>1 DEF LinkFail, Goto, GoesOn, Proc
  <2> QED
    BY <2>2, CurrentGoesOn
<1>16. ASSUME NEW p \in Procs, UnlinkTemp(p) PROVE Current'
  <2>1. \A k \in Keys : fs'[k] # NoFile =>
           fs[k] # NoFile /\ fs'[k].from = fs[k].from /\ fs'[k].level = fs[k].level
    BY <1>16 DEF UnlinkTemp, Path, Proc, Paths, Binary
  <2>2. GoesOn(p)
    BY <1>16, <2>1 DEF UnlinkTemp, Goto, Exit, GoesOn, Proc
  <2> QED
    BY <2>2, CurrentGoesOn
<1>17. ASSUME NEW p \in Procs, Chmod(p) PROVE Current'
  <2>1. \A k \in Keys : fs'[k] # NoFile =>
           fs[k] # NoFile /\ fs'[k].from = fs[k].from /\ fs'[k].level = fs[k].level
    BY <1>17 DEF Chmod, Path, Proc, Paths, Binary
  <2>2. GoesOn(p)
    BY <1>17, <2>1 DEF Chmod, Goto, GoesOn, Proc
  <2> QED
    BY <2>2, CurrentGoesOn
<1>18. ASSUME NEW p \in Procs, ExecNew(p) PROVE Current'
  <2>1. CASE proc'[p].outcome = "ran"
    <3> DEFINE f == fs[Path(p)]
    <3>1. /\ proc[p].pc = "execNew" /\ file' = file /\ fs' = fs
          /\ Path(p) = proc[p].key /\ Keyed(p)
      BY <1>18 DEF ExecNew, Path, Keyed, Runs
    <3>2. /\ f # NoFile
          /\ proc' = [proc EXCEPT ![p].pc = "idle", ![p].outcome = "ran", ![p].ran = f]
      BY <1>18, <2>1 DEF ExecNew, Exec, Exit, Proc
    <3>3. f.from \in proc[p].seen /\ f.level = proc[p].opts.level
      BY <3>1, <3>2 DEF Current, CacheSeen, CacheIsNow, Keyed
    <3> HIDE DEF f
    <3>4. /\ \A q \in Procs \ {p} : proc'[q] = proc[q]
          /\ proc'[p].pc = "idle" /\ proc'[p].ran = f
          /\ proc'[p].seen = proc[p].seen /\ proc'[p].opts = proc[p].opts
      BY <3>2 DEF Proc
    <3>5. \A q \in Procs : Keyed(q)' \/ proc'[q].pc # "idle" => q # p /\ proc'[q] = proc[q]
      BY <3>4 DEF Keyed
    <3>6. RunsCurrentSource'
      BY <3>3, <3>4 DEF Current, RunsCurrentSource, Ran
    <3>7. NowSeen' /\ KeysArePast' /\ SourcesAreNow' /\ CacheIsNow' /\ OthersSeen' /\ CacheSeen'
      BY <3>1, <3>5 DEF Current, NowSeen, KeysArePast, SourcesAreNow, CacheIsNow, OthersSeen,
                        CacheSeen, Keyed, Holds
    <3> QED
      BY <3>6, <3>7 DEF Current
  <2>2. CASE proc'[p].outcome # "ran"
    <3>1. GoesOn(p)
      BY <1>18, <2>2 DEF ExecNew, Exec, Exit, GoesOn, Proc
    <3> QED
      BY <3>1, CurrentGoesOn
  <2> QED
    BY <2>1, <2>2
<1> QED
  BY <1>1, <1>2, <1>3, <1>4, <1>5, <1>6, <1>7, <1>8, <1>9, <1>10, <1>11, <1>12,
     <1>13, <1>14, <1>15, <1>16, <1>17, <1>18 DEF Next, Step

(***************************************************************************)
(* The cache of one invocation at a time                                   *)
(***************************************************************************)
\* A path that was built is executable, and nobody builds it again.
Rebuilding == {"read", "compile", "mktemp", "write", "link", "linking", "linked", "linkFailed",
               "chmod", "execNew"}
BuiltWorks == \A k \in built : fs[k] # NoFile /\ fs[k].x /\ ~fs[k].open
BuiltOnce == \A p \in Procs : proc[p].pc \in Rebuilding /\ proc[p].opts.mode = "run" =>
                proc[p].key \notin built
Cached == BuiltWorks /\ BuiltOnce

Alone == \A p, q \in Procs : p = q

LEMMA CachedStep == ASSUME Alone, Typed, Stages, Cached, Next PROVE Cached'
<1> USE MarkAssumption DEF Alone, Typed, Stages, Staged, Runs
<1>1. CASE Tick
  BY <1>1 DEF Tick, Cached, BuiltWorks, BuiltOnce, Rebuilding, Proc, Path
<1>2. ASSUME NEW c \in Contents \union {Absent}, Edit(c) PROVE Cached'
  BY <1>2 DEF Edit, Cached, BuiltWorks, BuiltOnce, Rebuilding, Proc, Path
<1>3. ASSUME NEW p \in Procs, Crash(p) PROVE Cached'
  <2>1. /\ proc'[p].pc = "idle" /\ built' = built
        /\ \A q \in Procs \ {p} : proc'[q] = proc[q]
    BY <1>3 DEF Crash, Exit, Proc
  <2>2. BuiltOnce'
    BY <2>1 DEF Cached, BuiltOnce, Rebuilding
  <2>3. ASSUME NEW k \in built PROVE fs'[k] # NoFile /\ fs'[k].x /\ ~fs'[k].open
    <3>1. k \in Paths /\ fs[k] \in Binary /\ fs[k].x /\ ~fs[k].open
      BY DEF Cached, BuiltWorks, Paths
    <3>2. fs'[k] \in {fs[k], [fs[k] EXCEPT !.open = FALSE]}
      BY <1>3, <3>1 DEF Crash
    <3>3. [fs[k] EXCEPT !.open = FALSE] \in Binary
      BY <3>1 DEF Binary
    <3>4. [fs[k] EXCEPT !.open = FALSE].x = fs[k].x /\ [fs[k] EXCEPT !.open = FALSE].open = FALSE
      BY <3>1 DEF Binary
    <3>5. CASE fs'[k] = fs[k]
      BY <3>1, <3>5
    <3>6. CASE fs'[k] = [fs[k] EXCEPT !.open = FALSE]
      BY <3>1, <3>3, <3>4, <3>6
    <3> QED
      BY <3>2, <3>5, <3>6
  <2> QED
    BY <2>1, <2>2, <2>3 DEF Cached, BuiltWorks
<1>4. ASSUME NEW p \in Procs, NEW o \in Options, Start(p, o) PROVE Cached'
  BY <1>4 DEF Start, Fresh, Cached, BuiltWorks, BuiltOnce, Rebuilding, Proc, Path, Paths
<1>5. ASSUME NEW p \in Procs, ClearOne(p) PROVE Cached'
  BY <1>5 DEF ClearOne, Exit, Cached, BuiltWorks, BuiltOnce, Rebuilding, Proc, Path, Paths, Binary
<1>6. ASSUME NEW p \in Procs, Stat(p) PROVE Cached'
  BY <1>6 DEF Stat, Exit, Cached, BuiltWorks, BuiltOnce, Rebuilding, Proc, Path, Paths, Binary
<1>7. ASSUME NEW p \in Procs, Access(p) PROVE Cached'
  BY <1>7 DEF Access, Goto, Cached, BuiltWorks, BuiltOnce, Rebuilding, Proc, Path, Paths, Binary
<1>8. ASSUME NEW p \in Procs, ExecHit(p) PROVE Cached'
  BY <1>8 DEF ExecHit, Exec, Exit, Cached, BuiltWorks, BuiltOnce, Rebuilding, Proc, Path, Paths, Binary
<1>9. ASSUME NEW p \in Procs, Read(p) PROVE Cached'
  BY <1>9 DEF Read, Exit, Cached, BuiltWorks, BuiltOnce, Rebuilding, Proc, Path, Paths, Binary
<1>10. ASSUME NEW p \in Procs, Compile(p) PROVE Cached'
  BY <1>10 DEF Compile, Exit, Cached, BuiltWorks, BuiltOnce, Rebuilding, Proc, Path, Paths, Binary
<1>11. ASSUME NEW p \in Procs, MakeTemp(p) PROVE Cached'
  BY <1>11 DEF MakeTemp, Goto, Exit, Cached, BuiltWorks, BuiltOnce, Rebuilding, Proc, Path, Paths, Binary
<1>12. ASSUME NEW p \in Procs, WriteObject(p) PROVE Cached'
  BY <1>12 DEF WriteObject, Goto, Exit, Cached, BuiltWorks, BuiltOnce, Rebuilding, Proc, Path, Paths, Binary
<1>13. ASSUME NEW p \in Procs, LinkStart(p) PROVE Cached'
  BY <1>13 DEF LinkStart, Goto, Cached, BuiltWorks, BuiltOnce, Rebuilding, Proc, Path, Paths, Binary
<1>14. ASSUME NEW p \in Procs, LinkEnd(p) PROVE Cached'
  BY <1>14 DEF LinkEnd, Goto, Cached, BuiltWorks, BuiltOnce, Rebuilding, Proc, Path, Paths, Binary
<1>15. ASSUME NEW p \in Procs, LinkFail(p) PROVE Cached'
  BY <1>15 DEF LinkFail, Goto, Cached, BuiltWorks, BuiltOnce, Rebuilding, Proc, Path, Paths, Binary
<1>16. ASSUME NEW p \in Procs, UnlinkTemp(p) PROVE Cached'
  BY <1>16 DEF UnlinkTemp, Goto, Exit, Cached, BuiltWorks, BuiltOnce, Rebuilding, Proc, Path, Paths, Binary
<1>17. ASSUME NEW p \in Procs, Chmod(p) PROVE Cached'
  BY <1>17 DEF Chmod, Goto, Cached, BuiltWorks, BuiltOnce, Rebuilding, Proc, Path, Paths, Binary
<1>18. ASSUME NEW p \in Procs, ExecNew(p) PROVE Cached'
  BY <1>18 DEF ExecNew, Exec, Exit, Cached, BuiltWorks, BuiltOnce, Rebuilding, Proc, Path, Paths, Binary
<1> QED
  BY <1>1, <1>2, <1>3, <1>4, <1>5, <1>6, <1>7, <1>8, <1>9, <1>10, <1>11, <1>12,
     <1>13, <1>14, <1>15, <1>16, <1>17, <1>18 DEF Next, Step

Hits == \A p \in Procs :
           /\ proc[p].pc = "access" /\ Path(p) \in built /\ proc'[p].pc # "access"
                 => proc'[p].pc = "execHit" \/ proc'[p].outcome = "killed"
           /\ proc[p].pc = "execHit" /\ Path(p) \in built /\ proc'[p].pc # "execHit"
                 => proc'[p].outcome \in {"ran", "killed"}

LEMMA CachedHits == ASSUME Alone, Typed, Stages, Cached, Next PROVE Hits
<1> SUFFICES ASSUME NEW p \in Procs, proc[p].pc \in {"access", "execHit"}, Path(p) \in built,
                    proc'[p].pc # proc[p].pc
             PROVE  \/ proc'[p].outcome = "killed"
                    \/ proc[p].pc = "access" /\ proc'[p].pc = "execHit"
                    \/ proc[p].pc = "execHit" /\ proc'[p].outcome = "ran"
  BY DEF Hits
<1> USE DEF Alone, Typed
<1>1. fs[Path(p)] # NoFile /\ fs[Path(p)].x /\ ~fs[Path(p)].open
  BY DEF Cached, BuiltWorks
<1>2. ~Tick
  BY DEF Tick
<1>3. \A c \in Contents \union {Absent} : ~Edit(c)
  BY DEF Edit, Proc
<1>4. CASE Crash(p)
  BY <1>4 DEF Crash, Exit, Proc
<1>5. CASE Access(p)
  BY <1>1, <1>5 DEF Access, Goto, Proc
<1>6. CASE ExecHit(p)
  BY <1>1, <1>6 DEF ExecHit, Exec, Proc
<1>7. CASE Step(p) /\ ~Access(p) /\ ~ExecHit(p)
  BY <1>7 DEF Step, ClearOne, Stat, Read, Compile, MakeTemp, WriteObject, LinkStart, LinkEnd,
              LinkFail, UnlinkTemp, Chmod, ExecNew
<1>8. \A o \in Options : ~Start(p, o)
  BY DEF Start
<1> QED
  BY <1>2, <1>3, <1>4, <1>5, <1>6, <1>7, <1>8 DEF Next

(***************************************************************************)
(* Theorems                                                                *)
(***************************************************************************)
LEMMA Invariant == Spec => [](Typed /\ Stages)
<1>1. Typed /\ Stages /\ [Next]_vars => (Typed /\ Stages)'
  <2>1. CASE UNCHANGED vars
    BY <2>1 DEF vars, Typed, Stages
  <2> QED
    BY <2>1, TypedStep, StagesStep
<1> QED
  BY <1>1, TypedInit, StagesInit, PTL DEF Spec

\* The types hold whatever the invocations, modes, contents and bounds.
THEOREM TypeCorrect == Spec => []TypeOK
BY Invariant, TypedImpliesTypeOK, PTL

\* Without kills, every temporary object belongs to an invocation on its way
\* to unlink it (main.c 317-366).
THEOREM TemporariesGo == Spec => []OnlyKillsLeakTemporaries
<1>1. Init => OnlyKillsLeakTemporaries
  BY DEF Init, OnlyKillsLeakTemporaries
<1>2. Typed /\ OnlyKillsLeakTemporaries /\ [Next]_vars => OnlyKillsLeakTemporaries'
  <2>1. CASE UNCHANGED vars
    BY <2>1 DEF vars, OnlyKillsLeakTemporaries
  <2> QED
    BY <2>1, TemporariesStep
<1> QED
  BY <1>1, <1>2, Invariant, PTL DEF Spec

LEMMA FilesInvariant == Spec => [](Files /\ Verdicted /\ RunsWhole)
<1>1. Init => Files /\ Verdicted /\ RunsWhole
  BY DEF Init, Fresh, Files, Verdicted, RunsWhole, Ran
<1>2. Typed /\ Stages /\ Files /\ Verdicted /\ RunsWhole /\ [Next]_vars
         => (Files /\ Verdicted /\ RunsWhole)'
  <2>1. CASE UNCHANGED vars
    BY <2>1 DEF vars, Files, Verdicted, RunsWhole, UnderWork, Whole, Path, Ran, Accepted
  <2> QED
    BY <2>1, FilesStep, VerdictedStep, RunsWholeStep
<1> QED
  BY <1>1, <1>2, Invariant, PTL DEF Spec

\* Any number of invocations linking, failing and clearing at once leave only
\* whole executables in the cache, unless one is killed (main.c 343-358).
THEOREM CacheIsWhole == Spec => []QuiescentCacheIsWhole
<1>1. Typed /\ Files => QuiescentCacheIsWhole
  <2> SUFFICES ASSUME Typed, Files, crashes = 0, \A p \in Procs : proc[p].pc # "linking",
                      NEW path \in Paths, fs[path] # NoFile
               PROVE  Whole(fs[path])
    BY DEF QuiescentCacheIsWhole, Whole
  <2>1. fs[path].by \in Procs
    BY DEF Typed, Binary
  <2> QED
    BY <2>1 DEF Files, UnderWork
<1> QED
  BY <1>1, Invariant, FilesInvariant, PTL

\* Where nothing is killed, no invocation executes half a binary or one of a
\* source that a stopping stage rejects, whoever else links to its path.
THEOREM WholeBinariesRun == MaxCrashes = 0 => (Spec => []ExecutesWholeBinaries)
<1> SUFFICES ASSUME MaxCrashes = 0 PROVE Spec => []ExecutesWholeBinaries
  OBVIOUS
<1>1. Spec => [](crashes = 0)
  <2>1. Init => crashes = 0
    BY DEF Init
  <2>2. crashes = 0 /\ [Next]_vars => (crashes = 0)'
    <3> SUFFICES ASSUME crashes = 0, [Next]_vars PROVE crashes' = 0
      OBVIOUS
    <3>1. \A p \in Procs : ~Crash(p)
      BY DEF Crash
    <3> QED
      BY <3>1 DEF Next, vars, Tick, Edit, Start, Step, ClearOne, Stat, Access, ExecHit, Read,
         Compile, MakeTemp, WriteObject, LinkStart, LinkEnd, LinkFail, UnlinkTemp, Chmod, ExecNew
  <2> QED
    BY <2>1, <2>2, PTL DEF Spec
<1>2. crashes = 0 /\ Verdicted /\ RunsWhole => ExecutesWholeBinaries
  BY DEF Verdicted, RunsWhole, ExecutesWholeBinaries, Accepted
<1> QED
  BY <1>1, <1>2, FilesInvariant, PTL

\* If every edit shows in the modification time, a run executes what was
\* compiled at its level from a content it has itself seen, whoever compiled
\* it and whatever was edited between stat() and reading (main.c 224-265).
THEOREM RunsAreCurrent == ~SameTickEdits => (Spec => []RunsCurrentSource)
<1> SUFFICES ASSUME ~SameTickEdits PROVE Spec => []RunsCurrentSource
  OBVIOUS
<1>1. Typed /\ Stages /\ Current /\ [Next]_vars => Current'
  <2>1. CASE UNCHANGED vars
    BY <2>1 DEF vars, Current, NowSeen, KeysArePast, SourcesAreNow, CacheIsNow, OthersSeen,
                CacheSeen, RunsCurrentSource, Keyed, Holds, Ran
  <2> QED
    BY <2>1, CurrentStep
<1>2. Current => RunsCurrentSource
  BY DEF Current
<1> QED
  BY <1>1, <1>2, CurrentInit, Invariant, PTL DEF Spec

\* With one invocation at a time a run of what was built finds and executes
\* it: not even a kill or a failed link in between takes it away (main.c:59).
THEOREM RerunsHit == Alone => (Spec => RerunsExecCached)
<1> SUFFICES ASSUME Alone PROVE Spec => RerunsExecCached
  OBVIOUS
<1>1. Init => Cached
  BY DEF Init, Fresh, Cached, BuiltWorks, BuiltOnce, Rebuilding
<1>2. Typed /\ Stages /\ Cached /\ [Next]_vars => Cached'
  <2>1. CASE UNCHANGED vars
    BY <2>1 DEF vars, Cached, BuiltWorks, BuiltOnce
  <2> QED
    BY <2>1, CachedStep
<1>3. Typed /\ Stages /\ Cached /\ [Next]_vars => [Hits]_vars
  BY CachedHits
<1>4. Spec => []Cached
  BY <1>1, <1>2, Invariant, PTL DEF Spec
<1>5. Spec => [][Hits]_vars
  BY <1>3, <1>4, Invariant, PTL DEF Spec
<1> QED
  BY <1>5 DEF RerunsExecCached, Hits
=============================================================================
