----------------------------- MODULE JavaScript -----------------------------
(***************************************************************************)
(* glue/ext_extract_jsvm.go: jsExtractStreamSource, the records of a       *)
(* streaming JavaScript extract.  The script runs in a goroutine of its    *)
(* own and hands each record over an unbuffered channel; the scan pulls    *)
(* them with Next and ends the script with Close.                          *)
(*                                                                         *)
(* What the script does is free: it reads, emits, throws, returns or loops *)
(* in any order, and may ignore that emit returned false.  A record is the *)
(* number that its default id ends with.                                   *)
(***************************************************************************)
EXTENDS Integers, Sequences, FiniteSets

CONSTANT XsRecords   \* bound: records that a script emits

VARIABLES
  xsJs,       \* where the script's goroutine is
  xsN,        \* n: records emitted, for the default ids
  xsFail,     \* which of emitErr, readErr, callErr are set, and their cause
  xsGerr,     \* gerr
  xsErrc,     \* the channel errc, of one element
  xsRecs, xsDone, xsFinished,   \* the channels recs, done, finished are closed
  xsFile,     \* rc is open
  xsInt,      \* the runtime is interrupted
  xsMain,     \* where the scan is
  xsEof, xsErr, xsOut           \* eof, err, the records that Next returned

extractStreamVars == <<xsJs, xsN, xsFail, xsGerr, xsErrc, xsRecs, xsDone, xsFinished, xsFile, xsInt, xsMain, xsEof, xsErr, xsOut>>

NoErr == "none"

\* runJSExtractStream.
ExtractStreamInit ==
  /\ xsJs = "run" /\ xsN = 0 /\ xsFail = [emit |-> NoErr, read |-> NoErr, call |-> NoErr]
  /\ xsGerr = NoErr /\ xsErrc = <<>> /\ xsRecs = FALSE /\ xsDone = FALSE /\ xsFinished = FALSE
  /\ xsFile = TRUE /\ xsInt = FALSE /\ xsMain = "use" /\ xsEof = FALSE /\ xsErr = NoErr /\ xsOut = <<>>

-----------------------------------------------------------------------------
(* The script's goroutine.                                                 *)

\* readLine, readAll, readBytes, readInto: the script is inside a read of the
\* file, which ends with or without an error.  An interrupted script takes no
\* further step of its own.
JsRead ==
  /\ xsJs = "run" /\ ~xsInt /\ xsJs' = "reading"
  /\ UNCHANGED <<xsN, xsFail, xsGerr, xsErrc, xsRecs, xsDone, xsFinished, xsFile, xsInt, xsMain, xsEof, xsErr, xsOut>>

JsReadDone ==
  /\ xsJs = "reading" /\ xsJs' = "run"
  /\ \E failed \in BOOLEAN : xsFail' = IF failed THEN [xsFail EXCEPT !.read = "read"] ELSE xsFail
  /\ UNCHANGED <<xsN, xsGerr, xsErrc, xsRecs, xsDone, xsFinished, xsFile, xsInt, xsMain, xsEof, xsErr, xsOut>>

\* emit of what is not a document: an error, and false.
JsEmitBad ==
  /\ xsJs = "run" /\ ~xsInt /\ xsFail' = [xsFail EXCEPT !.emit = "emit"]
  /\ UNCHANGED <<xsJs, xsN, xsGerr, xsErrc, xsRecs, xsDone, xsFinished, xsFile, xsInt, xsMain, xsEof, xsErr, xsOut>>

\* send: false at once after Close; else the record waits for the scan.
JsEmit ==
  /\ xsJs = "run" /\ ~xsInt /\ ~xsDone /\ xsN < XsRecords
  /\ xsN' = xsN + 1 /\ xsJs' = "send"
  /\ UNCHANGED <<xsFail, xsGerr, xsErrc, xsRecs, xsDone, xsFinished, xsFile, xsInt, xsMain, xsEof, xsErr, xsOut>>

Handoff ==
  /\ xsJs = "send" /\ xsMain = "next"
  /\ xsJs' = "run" /\ xsMain' = "use" /\ xsOut' = Append(xsOut, xsN - 1)
  /\ UNCHANGED <<xsN, xsFail, xsGerr, xsErrc, xsRecs, xsDone, xsFinished, xsFile, xsInt, xsEof, xsErr>>

SendStopped ==
  /\ xsJs = "send" /\ xsDone /\ xsJs' = "run"
  /\ UNCHANGED <<xsN, xsFail, xsGerr, xsErrc, xsRecs, xsDone, xsFinished, xsFile, xsInt, xsMain, xsEof, xsErr, xsOut>>

\* The call of the script ends: it returns, throws, or is interrupted.
JsCallEnds ==
  /\ xsJs = "run" /\ xsJs' = "ended"
  /\ \E how \in {NoErr, "throw", "interrupt"} :
       /\ how = "interrupt" => xsInt
       /\ xsFail' = [xsFail EXCEPT !.call = how]
  /\ UNCHANGED <<xsN, xsGerr, xsErrc, xsRecs, xsDone, xsFinished, xsFile, xsInt, xsMain, xsEof, xsErr, xsOut>>

\* Mutant: the error of a call that Close ended is reported.
EndErrorAlways ==
  IF xsFail.emit # NoErr THEN xsFail.emit ELSE IF xsFail.read # NoErr THEN xsFail.read ELSE xsFail.call

\* The switch after the call; a panic is an error whatever was recorded.
EndError ==
  IF xsFail.emit # NoErr THEN xsFail.emit
  ELSE IF xsFail.read # NoErr THEN xsFail.read
  ELSE IF ~xsDone THEN xsFail.call ELSE NoErr

\* The deferred functions, last one first: the error, recs, finished.
\* Mutant: recs is closed before the error is sent.
DefersSwapped == <<"recs", "error", "finish", "gone">>

Defers == <<"error", "recs", "finish", "gone">>

NextDefer(pc) == Defers[(CHOOSE i \in 1..3 : Defers[i] = pc) + 1]

JsEnds ==
  /\ xsJs = "ended" /\ xsJs' = Defers[1]
  /\ xsGerr' \in {EndError, "panic"}
  /\ UNCHANGED <<xsN, xsFail, xsErrc, xsRecs, xsDone, xsFinished, xsFile, xsInt, xsMain, xsEof, xsErr, xsOut>>

SendError ==
  /\ xsJs = "error" /\ xsJs' = NextDefer("error")
  /\ xsErrc' = IF xsGerr # NoErr THEN <<xsGerr>> ELSE xsErrc
  /\ UNCHANGED <<xsN, xsFail, xsGerr, xsRecs, xsDone, xsFinished, xsFile, xsInt, xsMain, xsEof, xsErr, xsOut>>

CloseRecs ==
  /\ xsJs = "recs" /\ xsJs' = NextDefer("recs") /\ xsRecs' = TRUE
  /\ UNCHANGED <<xsN, xsFail, xsGerr, xsErrc, xsDone, xsFinished, xsFile, xsInt, xsMain, xsEof, xsErr, xsOut>>

CloseStreamEnd ==
  /\ xsJs = "finish" /\ xsJs' = "gone" /\ xsFinished' = TRUE
  /\ UNCHANGED <<xsN, xsFail, xsGerr, xsErrc, xsRecs, xsDone, xsFile, xsInt, xsMain, xsEof, xsErr, xsOut>>

-----------------------------------------------------------------------------
(* The scan.                                                               *)

NextBegin ==
  /\ xsMain = "use" /\ ~xsEof /\ xsMain' = "next"
  /\ UNCHANGED <<xsJs, xsN, xsFail, xsGerr, xsErrc, xsRecs, xsDone, xsFinished, xsFile, xsInt, xsEof, xsErr, xsOut>>

\* Next finds recs closed: the error is taken if it is there.
NextEnd ==
  /\ xsMain = "next" /\ xsRecs
  /\ xsEof' = TRUE /\ xsMain' = "use"
  /\ xsErr' = IF xsErrc # <<>> THEN xsErrc[1] ELSE NoErr
  /\ xsErrc' = <<>>
  /\ UNCHANGED <<xsJs, xsN, xsFail, xsGerr, xsRecs, xsDone, xsFinished, xsFile, xsInt, xsOut>>

CloseDone ==
  /\ xsMain = "use" /\ xsDone' = TRUE /\ xsMain' = "interrupt"
  /\ UNCHANGED <<xsJs, xsN, xsFail, xsGerr, xsErrc, xsRecs, xsFinished, xsFile, xsInt, xsEof, xsErr, xsOut>>

\* Mutant: a script is not interrupted.
InterruptNone == xsInt

Interrupt == TRUE

CloseInterrupt ==
  /\ xsMain = "interrupt" /\ xsInt' = Interrupt /\ xsMain' = "wait"
  /\ UNCHANGED <<xsJs, xsN, xsFail, xsGerr, xsErrc, xsRecs, xsDone, xsFinished, xsFile, xsEof, xsErr, xsOut>>

\* Mutant: Close does not wait for the goroutine.
FinishedNotWaited == TRUE

FinishedWaited == xsFinished

CloseFile ==
  /\ xsMain = "wait" /\ FinishedWaited /\ xsFile' = FALSE /\ xsMain' = "closed"
  /\ UNCHANGED <<xsJs, xsN, xsFail, xsGerr, xsErrc, xsRecs, xsDone, xsFinished, xsInt, xsEof, xsErr, xsOut>>

JsStep == JsReadDone \/ SendStopped \/ JsCallEnds \/ JsEnds \/ SendError \/ CloseRecs \/ CloseStreamEnd
JsFree == JsRead \/ JsEmitBad \/ JsEmit
MainStep == NextEnd \/ CloseInterrupt \/ CloseFile

ExtractStreamNext == JsStep \/ JsFree \/ Handoff \/ NextBegin \/ CloseDone \/ MainStep

\* Reads of the file return, an interrupted script ends, and the scheduler
\* runs both goroutines; nothing makes a script emit or return by itself.
ExtractStreamFair ==
  /\ WF_extractStreamVars(JsReadDone) /\ WF_extractStreamVars(SendStopped)
  /\ WF_extractStreamVars(xsInt /\ JsCallEnds)
  /\ WF_extractStreamVars(JsEnds \/ SendError \/ CloseRecs \/ CloseStreamEnd)
  /\ WF_extractStreamVars(MainStep)

ExtractStreamSpec == ExtractStreamInit /\ [][ExtractStreamNext]_extractStreamVars /\ ExtractStreamFair

-----------------------------------------------------------------------------
(* Properties.                                                             *)

\* The file is never closed under a read of the script.
NoReadAfterClose == xsJs = "reading" => xsFile

\* A stream that Next reports as complete is complete: the script returned,
\* without any error of its own, and the scan has every record, in the order
\* of their ids.
CleanEndIsComplete ==
  xsEof /\ xsErr = NoErr =>
    /\ xsFail = [emit |-> NoErr, read |-> NoErr, call |-> NoErr] /\ xsGerr = NoErr
    /\ xsOut = [i \in 1..xsN |-> i - 1]

\* The interrupt of Close is never reported as an error of the script.
InterruptIsNoError == xsGerr # "interrupt"

\* Close returns, whatever the script does, and releases the file.
CloseReturns == xsDone ~> (xsMain = "closed")

-----------------------------------------------------------------------------
(***************************************************************************)
(* glue/ext_jsvm.go, glue/ext_jsvm_agg.go: the JavaScript runtime that the *)
(* scalar functions and the aggregates of a request share.  The state of   *)
(* an aggregate stays in a table of the runtime; the group map holds its   *)
(* handle.  A call of a scalar function is bounded by a timer, whose       *)
(* goroutine interrupts the runtime; a runtime that timed out is dropped.  *)
(*                                                                         *)
(* Each row of the request first calls a scalar function and then updates  *)
(* the aggregate of its group.  The state of a group is the sequence of    *)
(* the rows it has seen, or Undefined.                                     *)
(***************************************************************************)

VARIABLES
  jrCfg,       \* [groups, throws]: the group of each row, the rows whose step throws
  jrRow, jrPc,
  jrRt,        \* the runtime: which one, and its table aggState
  jrHandle,    \* group -> handle in the group map
  jrTimer,     \* the timer of the call: "off", "armed", "fired" (timedOut is set)
  jrTimedOut,
  jrLate,      \* the runtimes that a timer goroutine has still to interrupt
  jrInt,       \* the runtime is interrupted
  jrErr,       \* the statement has failed
  jrHit,       \* an interrupt reached a call that it was not meant for
  jrOut        \* group -> result

jsRuntimeVars == <<jrCfg, jrRow, jrPc, jrRt, jrHandle, jrTimer, jrTimedOut, jrLate, jrInt, jrErr, jrHit, jrOut>>

Undefined == <<-1>>
GroupOf(r) == jrCfg.groups[r]

\* s has the numbers of S, each once, in ascending order.
Lists(s, S) ==
  /\ {s[i] : i \in DOMAIN s} = S
  /\ \A i, j \in DOMAIN s : i < j => s[i] < s[j]

JsRuntimeInit(Cfgs) ==
  /\ jrCfg \in Cfgs
  /\ jrRow = 1 /\ jrPc = "udf" /\ jrRt = [id |-> 1, table |-> <<>>] /\ jrHandle = [g \in {} |-> 0]
  /\ jrTimer = "off" /\ jrTimedOut = FALSE /\ jrLate = {} /\ jrInt = FALSE
  /\ jrErr = FALSE /\ jrHit = FALSE /\ jrOut = [g \in {} |-> <<>>]

\* call: the timer is set, then the function runs.
UdfBegin ==
  /\ jrPc = "udf" /\ jrRow <= Len(jrCfg.groups)
  /\ jrTimer' = "armed" /\ jrTimedOut' = FALSE /\ jrPc' = "running"
  /\ UNCHANGED <<jrCfg, jrRow, jrRt, jrHandle, jrLate, jrInt, jrErr, jrHit, jrOut>>

\* The timer's goroutine: the flag, then the interrupt, which may come when
\* the call is over.
TimerFires ==
  /\ jrTimer = "armed" /\ jrTimer' = "fired"
  /\ jrTimedOut' = TRUE /\ jrLate' = jrLate \cup {jrRt.id}
  /\ UNCHANGED <<jrCfg, jrRow, jrPc, jrRt, jrHandle, jrInt, jrErr, jrHit, jrOut>>

TimerInterrupts ==
  \E id \in jrLate :
    /\ jrLate' = jrLate \ {id}
    /\ jrInt' = (jrInt \/ id = jrRt.id)
    /\ UNCHANGED <<jrCfg, jrRow, jrPc, jrRt, jrHandle, jrTimer, jrTimedOut, jrErr, jrHit, jrOut>>

\* The function is over: by itself, or because it was interrupted.  The flag
\* is read here.
UdfEnd ==
  /\ jrPc = "running"
  /\ jrPc' = IF jrTimedOut THEN "drop" ELSE "clear"
  /\ jrErr' = (jrErr \/ jrTimedOut \/ jrInt)
  /\ jrHit' = (jrHit \/ (jrInt /\ ~jrTimedOut))
  /\ UNCHANGED <<jrCfg, jrRow, jrRt, jrHandle, jrTimer, jrTimedOut, jrLate, jrInt, jrOut>>

\* The deferred function: the timer is stopped, the interrupt cleared; a
\* runtime that timed out is dropped, and its table with it.
UdfClear ==
  /\ jrPc \in {"drop", "clear"}
  /\ jrTimer' = "off" /\ jrInt' = FALSE
  /\ jrRt' = IF jrPc = "drop" THEN [id |-> jrRt.id + 1, table |-> <<>>] ELSE jrRt
  /\ jrPc' = "agg"
  /\ UNCHANGED <<jrCfg, jrRow, jrHandle, jrTimedOut, jrLate, jrErr, jrHit, jrOut>>

\* jsAggStateDecode: an unknown handle is undefined.
Decode(h) == IF h <= Len(jrRt.table) THEN jrRt.table[h] ELSE Undefined

\* jsAggCall: a step that throws, or is interrupted, yields undefined; an
\* interrupt is used up by the call it ends.
StepResult(s, row) ==
  IF jrInt \/ row \in jrCfg.throws THEN Undefined
  ELSE IF s = Undefined THEN <<row>> ELSE Append(s, row)

\* Mutant: a new group takes the handle of the last one.
AllocReused(table) == IF table = <<>> THEN 1 ELSE Len(table)

\* aggStateAlloc: handles are never used twice.
Alloc(table) == Len(table) + 1

\* Init for a new group, then Update.
AggUpdateRow ==
  LET g == GroupOf(jrRow)
      new == g \notin DOMAIN jrHandle
      h == IF new THEN Alloc(jrRt.table) ELSE jrHandle[g]
      s == IF new THEN <<>> ELSE Decode(h)
      next == StepResult(s, jrRow)
  IN
  /\ jrPc = "agg"
  /\ jrHandle' = [x \in DOMAIN jrHandle \cup {g} |-> IF x = g THEN h ELSE jrHandle[x]]
  /\ jrRt' = [jrRt EXCEPT !.table = IF new /\ h > Len(@) THEN Append(@, next)
                                    ELSE IF h <= Len(@) THEN [@ EXCEPT ![h] = next] ELSE @]
  /\ jrHit' = (jrHit \/ jrInt) /\ jrInt' = FALSE
  /\ jrRow' = jrRow + 1 /\ jrPc' = IF jrRow = Len(jrCfg.groups) THEN "result" ELSE "udf"
  /\ UNCHANGED <<jrCfg, jrTimer, jrTimedOut, jrLate, jrErr, jrOut>>

\* Result: NAME_final of every group; it does not free the handle.
AggResultAll ==
  /\ jrPc = "result" /\ jrPc' = "done"
  /\ jrOut' = [g \in DOMAIN jrHandle |-> Decode(jrHandle[g])]
  /\ UNCHANGED <<jrCfg, jrRow, jrRt, jrHandle, jrTimer, jrTimedOut, jrLate, jrInt, jrErr, jrHit>>

JsRuntimeNext ==
  UdfBegin \/ TimerFires \/ TimerInterrupts \/ UdfEnd \/ UdfClear \/ AggUpdateRow \/ AggResultAll

JsRuntimeSpec(Cfgs) == JsRuntimeInit(Cfgs) /\ [][JsRuntimeNext]_jsRuntimeVars

JsRuntimeDone == jrPc = "done" \/ jrCfg.groups = <<>>

-----------------------------------------------------------------------------
(* Properties.                                                             *)

\* A statement that reports no error has aggregated every row of a group, and
\* no other, whichever runtimes were dropped on the way, unless a step threw
\* or the interrupt of an earlier call reached a later one.
GroupStateOwn ==
  jrPc = "done" /\ ~jrErr /\ ~jrHit /\ jrCfg.throws = {} =>
    /\ DOMAIN jrOut = {GroupOf(r) : r \in DOMAIN jrCfg.groups}
    /\ \A g \in DOMAIN jrOut : Lists(jrOut[g], {r \in DOMAIN jrCfg.groups : GroupOf(r) = g})

\* A step that throws is a no-op: the group keeps the rows before it.
ThrowIsNoOp ==
  jrPc = "done" /\ ~jrErr /\ ~jrHit =>
    \A g \in DOMAIN jrOut : Lists(jrOut[g], {r \in DOMAIN jrCfg.groups \ jrCfg.throws : GroupOf(r) = g})

\* A script's goroutine, its file, its errors and its state per group stay its
\* own, whenever the scan is closed.
ScriptsContained == NoReadAfterClose /\ CleanEndIsComplete /\ InterruptIsNoError /\ GroupStateOwn
=============================================================================
