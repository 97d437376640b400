------------------------------ MODULE Session ------------------------------
(***************************************************************************)
(* glue/session.go, compiled_exec.go, temp_stmt.go and cmd/n1k1/exec.go,   *)
(* repl.go: a script of statements run one after the other by the command  *)
(* line, and the goroutine that turns Ctrl-C into Session.Interrupt.       *)
(*                                                                         *)
(* A statement is [op, ks, name, using, flag]: it reads keyspace ks ("f",  *)
(* a file, or "t", a temporary keyspace); flag is OR REPLACE of a CREATE,  *)
(* and for a PREPARE that no expression is boxed.  A result row is         *)
(* <<record, the argument bound to it>>.                                   *)
(***************************************************************************)
EXTENDS Integers, Sequences, FiniteSets

CONSTANTS
  SeEvery,    \* records between two looks at the halt flag (1024 in the code)
  SePresses   \* bound: Ctrl-C presses

ASSUME SessionAssumption == SeEvery \in Nat \ {0} /\ SePresses \in Nat

VARIABLES
  seCfg,    \* the script and how it is run: see SeConfigs of the MC module
  sePc,     \* where the statement goroutine is
  seAt,     \* the statement of the script that runs, or runs next
  seHalt,   \* Session.halt
  seSig,    \* [sent, queued, taken, n]: presses, sigCh, an Interrupt under way, interruptN
  seOnRow,  \* Session.OnRow: "none", "print", "collect" (CREATE), "write" (INSERT)
  seOutErr, \* cli.outErr
  seRun,    \* the Run under way
  sePrep,   \* prepareds: name -> [ks, plan, tried, bin]
  seHeap,   \* the heaps of temporary keyspaces: [rows, open]
  seTemp,   \* the heap of keyspace t, or 0
  seFile,   \* the records of keyspace f
  seBins,   \* directories of compiled statements on disk
  seOut,    \* the lines written to the output
  seEnds,   \* how each statement ended, and the lines it wrote
  seWant    \* what the keyspaces should hold: [f, t]

seRunVars == <<seOnRow, seOutErr, seRun>>
seStoreVars == <<sePrep, seHeap, seTemp, seFile, seBins>>
sessionVars == <<seCfg, sePc, seAt, seHalt, seSig, seRunVars, seStoreVars, seOut, seEnds, seWant>>

NoArg == 0
NoPlan == 0 - 1      \* a plan is 0 for the file, or the heap it was resolved to
FilePlan == 0
NoBin == 0
Absent == <<"absent">>

SeIdleRun == [plan |-> NoPlan, arg |-> NoArg, pos |-> 0, rows |-> <<>>, back |-> "none",
              heap |-> 0, doc |-> <<>>, how |-> "none", landed |-> "no", want |-> <<>>, from |-> 0]

SessionInit(Cfgs) ==
  /\ seCfg \in Cfgs
  /\ sePc = "prompt" /\ seAt = 1 /\ seHalt = 0
  /\ seSig = [sent |-> 0, queued |-> 0, taken |-> FALSE, n |-> 0]
  /\ seOnRow = "none" /\ seOutErr = FALSE /\ seRun = SeIdleRun
  /\ sePrep = [n \in {} |-> 0] /\ seHeap = <<>> /\ seTemp = 0
  /\ seFile = seCfg.file /\ seBins = {}
  /\ seOut = <<>> /\ seEnds = <<>> /\ seWant = [f |-> seCfg.file, t |-> Absent]

Stmt == seCfg.script[seAt]
SePut(f, k, v) == [x \in DOMAIN f \cup {k} |-> IF x = k THEN v ELSE f[x]]
SeBound(recs, arg) == [i \in DOMAIN recs |-> <<recs[i], arg>>]

\* KeyspaceByName, as the planner resolves it: NoPlan when there is no such keyspace.
Resolve(ks) == CASE ks = "f" -> FilePlan
                 [] ks = "t" -> IF seTemp = 0 THEN NoPlan ELSE seTemp

\* What a scan of a plan reads: a file is walked anew, a heap is the one the plan holds.
SeSource(plan) == IF plan = FilePlan THEN seFile ELSE seHeap[plan].rows

(***************************************************************************)
(* What a statement should print, told by names and not by plans.          *)
(***************************************************************************)
WantRows(ks, arg) == IF seWant[ks] = Absent THEN <<>> ELSE SeBound(seWant[ks], arg)

Asked ==
  CASE Stmt.op = "select"  -> WantRows(Stmt.ks, seCfg.arg)
    [] Stmt.op = "execute" -> IF Stmt.name \notin DOMAIN sePrep THEN <<>>
                              ELSE WantRows(sePrep[Stmt.name].ks,
                                            IF Stmt.using # NoArg THEN Stmt.using ELSE seCfg.arg)
    [] Stmt.op = "explain" -> <<"plan">>
    [] Stmt.op \in {"create", "drop", "insert"} -> <<"summary">>
    [] Stmt.op \in {"bad", "prepare"} -> <<>>

(***************************************************************************)
(* cli.exec, up to Run: the hooks are set and interruptN starts again.     *)
(***************************************************************************)
SeExec ==
  /\ sePc = "prompt" /\ seAt <= Len(seCfg.script)
  /\ sePc' = "parse"
  /\ seOutErr' = FALSE
  /\ seOnRow' = IF seCfg.stream /\ Stmt.op # "explain" THEN "print" ELSE "none"
  /\ seSig' = [seSig EXCEPT !.n = 0]
  /\ seRun' = [SeIdleRun EXCEPT !.want = Asked, !.from = Len(seOut)]
  /\ UNCHANGED <<seCfg, seAt, seHalt, seStoreVars, seOut, seEnds, seWant>>

\* Run returns: how is "ok", "prepared", "halted", "err" or "unsupported".
SeReturn(how) == /\ sePc' = "ended"
               /\ seRun' = [seRun EXCEPT !.how = how]

\* A row for the caller: streamed by OnRow, or kept in Result.Rows.  A write to
\* a closed pipe is kept in outErr and interrupts the session.
Written(row) ==
  IF seOutErr THEN UNCHANGED <<seOut, seOutErr, seHalt>>
  ELSE IF Len(seOut) >= seCfg.reads
       THEN seOutErr' = TRUE /\ seHalt' = 1 /\ UNCHANGED seOut
       ELSE seOut' = Append(seOut, row) /\ UNCHANGED <<seOutErr, seHalt>>

\* tempSummary, and the summary of InsertRun, to the caller's OnRow.
Summarize(back) ==
  /\ sePc' = "ended"
  /\ seOnRow' = back
  /\ IF back = "print"
     THEN Written("summary") /\ seRun' = [seRun EXCEPT !.how = "ok"]
     ELSE /\ seRun' = [seRun EXCEPT !.how = "ok", !.rows = <<"summary">>]
          /\ UNCHANGED <<seOut, seOutErr, seHalt>>

(***************************************************************************)
(* Run: a parse error, the statements Run keeps from the planner, or plan. *)
(***************************************************************************)
ParseFails ==
  /\ sePc = "parse"
  /\ \/ Stmt.op = "bad"
     \/ Stmt.op = "create" /\ seTemp # 0 /\ ~Stmt.flag
     \/ Stmt.op = "drop" /\ seTemp = 0
     \/ Stmt.op = "execute" /\ Stmt.name \notin DOMAIN sePrep
     \/ Stmt.op = "execute" /\ Stmt.using # NoArg /\ seCfg.arg # NoArg
  /\ SeReturn("err")
  /\ UNCHANGED <<seCfg, seAt, seHalt, seSig, seOnRow, seOutErr, seStoreVars, seOut, seEnds, seWant>>

ParseSelect ==
  /\ sePc = "parse" /\ Stmt.op \in {"select", "explain"}
  /\ sePc' = "plan"
  /\ seRun' = [seRun EXCEPT !.arg = seCfg.arg, !.back = seOnRow]
  /\ UNCHANGED <<seCfg, seAt, seHalt, seSig, seOnRow, seOutErr, seStoreVars, seOut, seEnds, seWant>>

\* Mutant: OR REPLACE drops the old rows before the new ones are made.
CreateDropsFirst ==
  /\ sePc = "parse" /\ Stmt.op = "create" /\ (seTemp = 0 \/ Stmt.flag)
  /\ sePc' = "plan"
  /\ seHeap' = Append(IF seTemp = 0 THEN seHeap ELSE [seHeap EXCEPT ![seTemp].open = FALSE],
                      [rows |-> <<>>, open |-> TRUE])
  /\ seRun' = [seRun EXCEPT !.arg = seCfg.arg, !.back = seOnRow, !.heap = Len(seHeap) + 1]
  /\ seOnRow' = "collect"
  /\ UNCHANGED <<seCfg, seAt, seHalt, seSig, seOutErr, sePrep, seTemp, seFile, seBins, seOut, seEnds, seWant>>

\* createTempKeyspace: a new heap, and OnRow becomes its collector.
ParseCreate ==
  /\ sePc = "parse" /\ Stmt.op = "create" /\ (seTemp = 0 \/ Stmt.flag)
  /\ sePc' = "plan"
  /\ seHeap' = Append(seHeap, [rows |-> <<>>, open |-> TRUE])
  /\ seRun' = [seRun EXCEPT !.arg = seCfg.arg, !.back = seOnRow, !.heap = Len(seHeap) + 1]
  /\ seOnRow' = "collect"
  /\ UNCHANGED <<seCfg, seAt, seHalt, seSig, seOutErr, sePrep, seTemp, seFile, seBins, seOut, seEnds, seWant>>

\* InsertRun ... SELECT: OnRow becomes the writer of a file that finish publishes.
ParseInsert ==
  /\ sePc = "parse" /\ Stmt.op = "insert"
  /\ sePc' = "plan"
  /\ seRun' = [seRun EXCEPT !.arg = seCfg.arg, !.back = seOnRow]
  /\ seOnRow' = "write"
  /\ UNCHANGED <<seCfg, seAt, seHalt, seSig, seOutErr, seStoreVars, seOut, seEnds, seWant>>

ParseDrop ==
  /\ sePc = "parse" /\ Stmt.op = "drop" /\ seTemp # 0
  /\ seHeap' = [seHeap EXCEPT ![seTemp].open = FALSE]
  /\ seTemp' = 0
  /\ seWant' = [seWant EXCEPT !.t = Absent]
  /\ Summarize(seOnRow)
  /\ UNCHANGED <<seCfg, seAt, seSig, sePrep, seFile, seBins, seEnds>>

\* PrepareRun: the statement is kept, not planned.
PrepareRun ==
  /\ sePc = "parse" /\ Stmt.op = "prepare"
  /\ sePrep' = SePut(sePrep, Stmt.name, [ks |-> Stmt.ks, plan |-> NoPlan, arg |-> NoArg,
                                       native |-> Stmt.flag, tried |-> FALSE, bin |-> NoBin])
  /\ SeReturn("prepared")
  /\ UNCHANGED <<seCfg, seAt, seHalt, seSig, seOnRow, seOutErr, seHeap, seTemp, seFile, seBins, seOut, seEnds, seWant>>

\* Mutant: the first EXECUTE plans with its arguments, and they stay in the plan.
ExecuteArgFirst(prep, using) ==
  IF prep.plan # NoPlan THEN prep.arg ELSE IF using # NoArg THEN using ELSE seCfg.arg

\* The arguments an EXECUTE binds: USING's, else the request's.
ExecuteArg(prep, using) == IF using # NoArg THEN using ELSE seCfg.arg

\* ExecuteRun: the plan is built by the first EXECUTE and kept by the later ones.
ExecuteRun ==
  /\ sePc = "parse" /\ Stmt.op = "execute" /\ Stmt.name \in DOMAIN sePrep
  /\ Stmt.using = NoArg \/ seCfg.arg = NoArg
  /\ LET ps == sePrep[Stmt.name]
         plan == IF ps.plan # NoPlan THEN ps.plan ELSE Resolve(ps.ks)
         arg == ExecuteArg(ps, Stmt.using)
     IN IF plan = NoPlan
        THEN SeReturn("err") /\ UNCHANGED sePrep
        ELSE /\ sePrep' = [sePrep EXCEPT ![Stmt.name].plan = plan,
                                         ![Stmt.name].arg = IF ps.plan = NoPlan THEN arg ELSE @]
             /\ seRun' = [seRun EXCEPT !.plan = plan, !.arg = arg, !.back = seOnRow]
             /\ sePc' = IF seCfg.full /\ arg = NoArg THEN "build" ELSE "start"
  /\ UNCHANGED <<seCfg, seAt, seHalt, seSig, seOnRow, seOutErr, seHeap, seTemp, seFile, seBins, seOut, seEnds, seWant>>

(***************************************************************************)
(* executeCompiled: one attempt to build; then the rows are read without a *)
(* look at the halt flag, and all come back in Result.Rows.                *)
(***************************************************************************)
Build ==
  /\ sePc = "build" /\ ~sePrep[Stmt.name].tried
  /\ \/ /\ sePrep[Stmt.name].native        \* go build succeeds
        /\ seBins' = seBins \cup {Cardinality(seBins) + 1}
        /\ sePrep' = [sePrep EXCEPT ![Stmt.name].tried = TRUE, ![Stmt.name].bin = Cardinality(seBins) + 1]
        /\ UNCHANGED <<sePc, seRun>>
     \/ /\ sePrep[Stmt.name].native        \* go build fails: the directory is removed
        /\ sePrep' = [sePrep EXCEPT ![Stmt.name].tried = TRUE]
        /\ SeReturn("err") /\ UNCHANGED seBins
     \/ /\ ~sePrep[Stmt.name].native       \* a boxed expression: no build
        /\ sePrep' = [sePrep EXCEPT ![Stmt.name].tried = TRUE]
        /\ UNCHANGED <<sePc, seRun, seBins>>
  /\ UNCHANGED <<seCfg, seAt, seHalt, seSig, seOnRow, seOutErr, seHeap, seTemp, seFile, seOut, seEnds, seWant>>

RunChild ==
  /\ sePc = "build" /\ sePrep[Stmt.name].tried
  /\ IF sePrep[Stmt.name].bin = NoBin
     THEN sePc' = "start" /\ UNCHANGED seRun
     ELSE /\ sePc' = "ended"
          /\ seRun' = [seRun EXCEPT !.how = "ok", !.rows = SeBound(SeSource(seRun.plan), seRun.arg)]
  /\ UNCHANGED <<seCfg, seAt, seHalt, seSig, seOnRow, seOutErr, seStoreVars, seOut, seEnds, seWant>>

(***************************************************************************)
(* StatementRun: plan, or show the plan; PlanExec clears the halt flag.    *)
(***************************************************************************)
\* Mutant: the heap of a CREATE that failed stays open.
FailLeaks(how) == SeReturn(how) /\ seOnRow' = seRun.back /\ UNCHANGED seHeap

\* A statement that fails inside CREATE or INSERT: OnRow is the caller's again,
\* the heap is closed, the file not published.
SeFail(how) ==
  /\ SeReturn(how)
  /\ seOnRow' = seRun.back
  /\ seHeap' = IF Stmt.op = "create" THEN [seHeap EXCEPT ![seRun.heap].open = FALSE] ELSE seHeap

SePlan ==
  /\ sePc = "plan"
  /\ IF Resolve(Stmt.ks) = NoPlan
     THEN SeFail("err")
     ELSE /\ IF Stmt.op = "explain"
             THEN sePc' = "ended" /\ seRun' = [seRun EXCEPT !.how = "ok", !.rows = <<"plan">>]
             ELSE sePc' = "start" /\ seRun' = [seRun EXCEPT !.plan = Resolve(Stmt.ks)]
          /\ UNCHANGED <<seOnRow, seHeap>>
  /\ UNCHANGED <<seCfg, seAt, seHalt, seSig, seOutErr, sePrep, seTemp, seFile, seBins, seOut, seEnds, seWant>>

\* Mutant: PlanExec leaves the halt flag as the last statement left it.
KeepHalt ==
  /\ sePc = "start" /\ sePc' = "scan" /\ UNCHANGED <<seHalt, seRun>>
  /\ UNCHANGED <<seCfg, seAt, seSig, seOnRow, seOutErr, seStoreVars, seOut, seEnds, seWant>>

ClearHalt ==
  /\ sePc = "start"
  /\ sePc' = "scan" /\ seHalt' = 0
  /\ seRun' = [seRun EXCEPT !.landed = "no"]
  /\ UNCHANGED <<seCfg, seAt, seSig, seOnRow, seOutErr, seStoreVars, seOut, seEnds, seWant>>

Looks == seRun.pos % SeEvery = 0       \* DatastoreScanRecords: n & 1023 == 0
SeRecords == SeSource(seRun.plan)

\* An interrupt that lands after pos records is due when the scan still looks at the flag.
Landing(pos) == IF \E p \in pos..Len(SeRecords) : p % SeEvery = 0 THEN "due" ELSE "late"

ScanHalted ==
  /\ sePc = "scan" /\ Looks /\ seHalt = 1
  /\ SeFail("halted")
  /\ UNCHANGED <<seCfg, seAt, seHalt, seSig, seOutErr, sePrep, seTemp, seFile, seBins, seOut, seEnds, seWant>>

\* yieldVals: one record, to whatever OnRow is.
ScanRecord ==
  /\ sePc = "scan" /\ ~(Looks /\ seHalt = 1) /\ seRun.pos < Len(SeRecords)
  /\ LET rec == SeRecords[seRun.pos + 1]
         row == <<rec, seRun.arg>>
         run == [seRun EXCEPT !.pos = @ + 1]
     IN CASE seOnRow = "print" ->
               Written(row) /\ UNCHANGED seHeap
               /\ seRun' = [run EXCEPT !.landed = IF ~seOutErr /\ Len(seOut) >= seCfg.reads THEN Landing(run.pos) ELSE @]
          [] seOnRow = "collect" ->
               seHeap' = [seHeap EXCEPT ![seRun.heap].rows = Append(@, rec)]
               /\ seRun' = run /\ UNCHANGED <<seOut, seOutErr, seHalt>>
          [] seOnRow = "write" ->
               seRun' = [run EXCEPT !.doc = Append(@, rec)] /\ UNCHANGED <<seHeap, seOut, seOutErr, seHalt>>
          [] seOnRow = "none" ->
               seRun' = [run EXCEPT !.rows = Append(@, row)] /\ UNCHANGED <<seHeap, seOut, seOutErr, seHalt>>
  /\ UNCHANGED <<sePc, seCfg, seAt, seSig, seOnRow, sePrep, seTemp, seFile, seBins, seEnds, seWant>>

\* An operator panics: Run's recover reports it; OnRow stays what CREATE or INSERT made it.
ScanPanics ==
  /\ sePc = "scan" /\ seCfg.panics /\ seRun.pos > 0
  /\ SeReturn("unsupported")
  /\ UNCHANGED <<seCfg, seAt, seHalt, seSig, seOnRow, seOutErr, seStoreVars, seOut, seEnds, seWant>>

ScanDone ==
  /\ sePc = "scan" /\ ~(Looks /\ seHalt = 1) /\ seRun.pos = Len(SeRecords)
  /\ CASE Stmt.op = "create" ->
            /\ seHeap' = IF seTemp = 0 THEN seHeap ELSE [seHeap EXCEPT ![seTemp].open = FALSE]
            /\ seTemp' = seRun.heap
            /\ seWant' = [seWant EXCEPT !.t = IF Stmt.ks = "f" THEN seWant.f ELSE seWant.t]
            /\ Summarize(seRun.back) /\ UNCHANGED seFile
       [] Stmt.op = "insert" ->
            /\ seFile' = seFile \o seRun.doc
            /\ seWant' = [seWant EXCEPT !.f = @ \o seWant[Stmt.ks]]
            /\ Summarize(seRun.back) /\ UNCHANGED <<seHeap, seTemp>>
       [] OTHER ->
            SeReturn("ok") /\ UNCHANGED <<seOnRow, seHeap, seTemp, seFile, seOut, seOutErr, seHalt, seWant>>
  /\ UNCHANGED <<seCfg, seAt, seSig, sePrep, seBins, seEnds>>

(***************************************************************************)
(* cli.exec after Run: the hooks are reset and what was not streamed is    *)
(* printed; feed goes on with the next statement, unless .bail is on.      *)
(***************************************************************************)
SeRender ==
  LET failed == seRun.how \in {"err", "unsupported"}
      shown == IF seRun.how = "ok" /\ ~(seCfg.stream /\ Stmt.op # "explain") THEN seRun.rows ELSE <<>>
      fits == IF Len(seOut) + Len(shown) <= seCfg.reads THEN Len(shown)
              ELSE IF Len(seOut) >= seCfg.reads THEN 0 ELSE seCfg.reads - Len(seOut)
  IN
  /\ sePc = "ended"
  /\ seOnRow' = "none"
  /\ seOut' = seOut \o SubSeq(shown, 1, fits)
  /\ seEnds' = Append(seEnds, [how |-> seRun.how, landed |-> seRun.landed, want |-> seRun.want,
                               lines |-> SubSeq(seOut', seRun.from + 1, Len(seOut')),
                               cut |-> seOutErr \/ fits < Len(shown)])
  /\ seAt' = IF failed /\ seCfg.bail THEN Len(seCfg.script) + 1 ELSE seAt + 1
  /\ sePc' = "prompt"
  /\ UNCHANGED <<seCfg, seHalt, seSig, seOutErr, seRun, seStoreVars, seWant>>

\* Session.Close: the binaries of the prepared statements, the temporary keyspaces.
SeClose ==
  /\ sePc = "prompt" /\ seAt > Len(seCfg.script)
  /\ sePc' = "exit"
  /\ seBins' = seBins \ {sePrep[n].bin : n \in DOMAIN sePrep}
  /\ sePrep' = [n \in DOMAIN sePrep |-> [sePrep[n] EXCEPT !.bin = NoBin]]
  /\ seHeap' = IF seTemp = 0 THEN seHeap ELSE [seHeap EXCEPT ![seTemp].open = FALSE]
  /\ seTemp' = 0
  /\ UNCHANGED <<seCfg, seAt, seHalt, seSig, seRunVars, seFile, seOut, seEnds, seWant>>

(***************************************************************************)
(* Ctrl-C: SIGINT reaches the process only while a statement runs; the     *)
(* signal goroutine counts it, and interrupts or ends the process.         *)
(***************************************************************************)
SePress ==
  /\ sePc \notin {"prompt", "exit", "killed"} /\ seSig.sent < SePresses
  /\ seCfg.presses
  /\ seSig' = [seSig EXCEPT !.sent = @ + 1, !.queued = @ + 1]
  /\ UNCHANGED <<seCfg, sePc, seAt, seHalt, seRunVars, seStoreVars, seOut, seEnds, seWant>>

SeSignal ==
  /\ sePc \notin {"exit", "killed"} /\ seSig.queued > 0 /\ ~seSig.taken
  /\ IF seSig.n + 1 >= 2
     THEN sePc' = "killed" /\ seSig' = [seSig EXCEPT !.queued = @ - 1, !.n = @ + 1]
     ELSE seSig' = [seSig EXCEPT !.queued = @ - 1, !.n = @ + 1, !.taken = TRUE] /\ UNCHANGED sePc
  /\ UNCHANGED <<seCfg, seAt, seHalt, seRunVars, seStoreVars, seOut, seEnds, seWant>>

SeInterrupt ==
  /\ sePc \notin {"exit", "killed"} /\ seSig.taken
  /\ seHalt' = 1
  /\ seSig' = [seSig EXCEPT !.taken = FALSE]
  /\ seRun' = IF sePc = "scan" THEN [seRun EXCEPT !.landed = Landing(seRun.pos)] ELSE seRun
  /\ UNCHANGED <<seCfg, sePc, seAt, seOnRow, seOutErr, seStoreVars, seOut, seEnds, seWant>>

SessionNext ==
  \/ SeExec \/ ParseFails \/ ParseSelect \/ ParseCreate \/ ParseInsert \/ ParseDrop
  \/ PrepareRun \/ ExecuteRun \/ Build \/ RunChild \/ SePlan \/ ClearHalt
  \/ ScanHalted \/ ScanRecord \/ ScanPanics \/ ScanDone \/ SeRender \/ SeClose
  \/ SePress \/ SeSignal \/ SeInterrupt

SessionSpec(Cfgs) == SessionInit(Cfgs) /\ [][SessionNext]_sessionVars

SessionDone == sePc \in {"exit", "killed"}

-----------------------------------------------------------------------------
\* What a statement printed is the beginning of the rows it asks for, by the
\* names and the arguments it was given, and all of them when it ended without
\* an error and its output was read to the end: whether the rows were streamed,
\* kept, taken by a CREATE or INSERT before it, or come from a plan an earlier
\* EXECUTE made.  (session.go: Run, PlanExec, ExecuteRun; exec.go: exec)
SessionOutput ==
  \A i \in DOMAIN seEnds :
    LET e == seEnds[i] IN
    /\ Len(e.lines) <= Len(e.want) /\ \A j \in DOMAIN e.lines : e.lines[j] = e.want[j]
    /\ e.how = "ok" /\ ~e.cut => e.lines = e.want
    /\ e.how = "err" => e.lines = <<>>

\* A statement ends halted exactly when an Interrupt landed in its own scan and
\* the scan still had a look at the flag to take: one that landed in an earlier
\* statement, at its end or in the planning never halts it.
\* (session.go: PlanExec, Interrupt; datastore_scan.go)
SessionHalts ==
  \A i \in DOMAIN seEnds :
    LET e == seEnds[i] IN
    /\ e.how = "halted" => e.landed = "due"
    /\ e.landed = "due" => e.how \in {"halted", "unsupported"}

\* Between statements the keyspaces hold what the statements that ended well
\* made of them: a CREATE OR REPLACE or an INSERT that was halted or failed has
\* left the old rows, readable.  (temp_stmt.go: createTempKeyspace; insert.go)
SessionKeyspaces ==
  sePc = "prompt" =>
    /\ seFile = seWant.f
    /\ seTemp = 0 <=> seWant.t = Absent
    /\ seTemp # 0 => seHeap[seTemp].open /\ seHeap[seTemp].rows = seWant.t

\* A session that was closed has left no open heap and no built binary behind.
\* (compiled_exec.go: Close)
SessionFrees ==
  sePc = "exit" => seBins = {} /\ \A h \in DOMAIN seHeap : ~seHeap[h].open

\* When OnRow is set every row of a statement goes to it as it is produced, and
\* Result.Rows stays nil.  (session.go:90-96; exec.go:159-162 prints no other rows)
OnRowTakesRows ==
  sePc = "ended" /\ seRun.how = "ok" /\ seOnRow = "print" => seRun.rows = <<>>

\* Each statement of a session prints and keeps what it would alone, an
\* interrupted one stops, and what it held is freed.
SessionExact == SessionOutput /\ SessionHalts /\ SessionKeyspaces /\ SessionFrees
=============================================================================
