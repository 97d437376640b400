---------------------------- MODULE StageCursor ----------------------------
(***************************************************************************)
(* base/stage_cursor.go: one actor goroutine turns a child operator's rows *)
(* into batches on a bounded channel; the coordinator of a sorted merge    *)
(* pulls them at its own pace, and may give up early (Stop) before it      *)
(* joins the actor (Wait).  The i-th row that the child yields is i.       *)
(***************************************************************************)
EXTENDS Naturals, Sequences

CONSTANTS
  NRows,      \* rows that the child may yield (bounds the model)
  BatchSize,  \* rows per batch
  ChanCap     \* capacity of ch, in batches

ASSUME CursorAssumption == NRows \in Nat /\ BatchSize \in Nat \ {0} /\ ChanCap \in Nat

VARIABLES
  apc,       \* where the actor goroutine is
  yielded,   \* rows that the child has yielded
  accepted,  \* those that went into a batch
  batch,     \* the actor's unsent batch
  stop,      \* the actor's stop flag
  err,       \* bc.err is set
  ch,        \* the batches in the channel
  chClosed,  \* ch is closed
  done,      \* bc.done is closed; so bc.stopped
  finished,  \* bc.finished is closed
  cpc,       \* where the coordinator is
  got,       \* the rows that it has pulled
  ended,     \* NextBatch has returned ok = false
  result     \* what Wait returned

actorVars == <<apc, yielded, accepted, batch, stop, err>>
coordVars == <<cpc, got, ended, result>>
vars == <<actorVars, ch, chClosed, done, finished, coordVars>>

Rows == 1..NRows

TypeOK ==
  /\ apc \in {"run", "flush", "final", "closeCh", "closeFinished", "exited"}
  /\ yielded \in 0..NRows /\ accepted \in 0..NRows
  /\ batch \in Seq(Rows)
  /\ ch \in Seq(Seq(Rows))
  /\ stop \in BOOLEAN /\ err \in BOOLEAN /\ chClosed \in BOOLEAN
  /\ done \in BOOLEAN /\ finished \in BOOLEAN /\ ended \in BOOLEAN
  /\ cpc \in {"idle", "recv", "wait", "joined"}
  /\ got \in Seq(Rows)
  /\ result \in {"no", "ok", "err"}

NewStageCursor ==
  /\ apc = "run" /\ yielded = 0 /\ accepted = 0 /\ batch = <<>>
  /\ stop = FALSE /\ err = FALSE
  /\ ch = <<>> /\ chClosed = FALSE /\ done = FALSE /\ finished = FALSE
  /\ cpc = "idle" /\ got = <<>> /\ ended = FALSE /\ result = "no"

Init == NewStageCursor

-----------------------------------------------------------------------------
(* The actor goroutine.                                                    *)

\* yieldVals(row): copy the row into the batch and flush a full batch.
YieldVals ==
  /\ apc = "run" /\ ~stop
  /\ yielded < NRows
  /\ yielded' = yielded + 1
  /\ accepted' = accepted + 1
  /\ batch' = Append(batch, yielded + 1)
  /\ apc' = IF Len(batch') >= BatchSize THEN "flush" ELSE "run"
  /\ UNCHANGED <<stop, err, ch, chClosed, done, finished, coordVars>>

\* yieldVals(row) of a child that goes on although it failed, or although
\* the coordinator gave up.
YieldValsDropped ==
  /\ apc = "run" /\ stop
  /\ yielded < NRows
  /\ yielded' = yielded + 1
  /\ UNCHANGED <<apc, accepted, batch, stop, err, ch, chClosed, done, finished, coordVars>>

\* yieldErr(err): the first error is kept for Wait, and production stops.
YieldErr ==
  /\ apc = "run"
  /\ err' = TRUE
  /\ stop' = TRUE
  /\ UNCHANGED <<apc, yielded, accepted, batch, ch, chClosed, done, finished, coordVars>>

\* Mutant: a child that failed does not have its partial batch flushed.
HasFinalBatchUnlessErr == batch # <<>> /\ ~stop

\* There is a final partial batch, which flush() sends also after an error.
HasFinalBatch == batch # <<>>

\* The child returns.
ActorReturn ==
  /\ apc = "run"
  /\ apc' = IF HasFinalBatch THEN "final" ELSE "closeCh"
  /\ UNCHANGED <<yielded, accepted, batch, stop, err, ch, chClosed, done, finished, coordVars>>

AfterFlush == IF apc = "flush" THEN "run" ELSE "closeCh"

\* Mutant: the channel takes a batch more than its capacity.
CanSendUnbounded == TRUE

\* A send on ch completes when there is room or when NextBatch is waiting.
CanSend == Len(ch) < ChanCap \/ (ch = <<>> /\ cpc = "recv")

\* Mutant: a flushed batch is sent and kept.
FreshBatchForgotten == batch

\* batch = nil: the consumer keeps the batch that was sent.
FreshBatch == <<>>

\* flush(), the send case of its select.
FlushSend ==
  /\ apc \in {"flush", "final"}
  /\ CanSend
  /\ ch' = Append(ch, batch)
  /\ batch' = FreshBatch
  /\ apc' = AfterFlush
  /\ UNCHANGED <<yielded, accepted, stop, err, chClosed, done, finished, coordVars>>

\* Mutant: flush() does not select on done.
CanGiveUpNever == FALSE

\* <-bc.done is ready.
CanGiveUp == done

\* flush(), the done case: the batch stays, later rows are dropped.
FlushDone ==
  /\ apc \in {"flush", "final"}
  /\ CanGiveUp
  /\ stop' = TRUE
  /\ apc' = AfterFlush
  /\ UNCHANGED <<yielded, accepted, batch, err, ch, chClosed, done, finished, coordVars>>

\* The deferred close(bc.ch), then close(bc.finished).
CloseCh ==
  /\ apc = "closeCh"
  /\ chClosed' = TRUE
  /\ apc' = "closeFinished"
  /\ UNCHANGED <<yielded, accepted, batch, stop, err, ch, done, finished, coordVars>>

CloseFinished ==
  /\ apc = "closeFinished"
  /\ finished' = TRUE
  /\ apc' = "exited"
  /\ UNCHANGED <<yielded, accepted, batch, stop, err, ch, chClosed, done, coordVars>>

-----------------------------------------------------------------------------
(* The coordinator: MergeCursor.fill() and release() of a merge.           *)

\* NextBatch() blocks on ch ...
NextBatch ==
  /\ cpc = "idle" /\ ~done /\ ~ended
  /\ cpc' = "recv"
  /\ UNCHANGED <<actorVars, ch, chClosed, done, finished, got, ended, result>>

\* ... and returns a batch, or ok = false from a closed and drained ch.
NextBatchReturns ==
  /\ cpc = "recv"
  /\ \/ /\ ch # <<>>
        /\ got' = got \o Head(ch)
        /\ ch' = Tail(ch)
        /\ UNCHANGED ended
     \/ /\ ch = <<>> /\ chClosed
        /\ ended' = TRUE
        /\ UNCHANGED <<ch, got>>
  /\ cpc' = "idle"
  /\ UNCHANGED <<actorVars, chClosed, done, finished, result>>

\* Stop(), after which release() waits.
Stop ==
  /\ cpc = "idle"
  /\ done' = TRUE
  /\ cpc' = "wait"
  /\ UNCHANGED <<actorVars, ch, chClosed, finished, got, ended, result>>

\* Wait() returns the first error.
Wait ==
  /\ cpc = "wait"
  /\ finished
  /\ result' = IF err THEN "err" ELSE "ok"
  /\ cpc' = "joined"
  /\ UNCHANGED <<actorVars, ch, chClosed, done, finished, got, ended>>

-----------------------------------------------------------------------------
ActorStep ==
  \/ YieldVals \/ YieldValsDropped \/ YieldErr \/ ActorReturn
  \/ FlushSend \/ FlushDone \/ CloseCh \/ CloseFinished

CoordStep == NextBatch \/ NextBatchReturns \/ Stop \/ Wait

Next == ActorStep \/ CoordStep

\* Both goroutines run when they can; the child's rows come to an end, and a
\* merge calls release() on every path.
Fairness == WF_vars(ActorStep) /\ WF_vars(CoordStep)

Spec == Init /\ [][Next]_vars /\ Fairness

-----------------------------------------------------------------------------
(* Properties.                                                             *)

\* The coordinator pulls the child's rows in the child's order, none lost
\* in the middle and none twice, whatever the batch boundaries.
InOrder == got = [i \in 1..Len(got) |-> i]

\* Batches give back pressure: the actor never runs further ahead of the
\* coordinator than the channel and its own batch hold.
BackPressure ==
  accepted - Len(got) <= (IF ChanCap = 0 THEN 2 ELSE ChanCap + 1) * BatchSize

\* The rows are pulled in the child's order, by a coordinator that the child
\* never leaves far behind.
PulledInOrder == InOrder /\ BackPressure

\* Every cursor that is released is joined: neither a blocked send nor a
\* blocked receive outlives it.
Released == <>(cpc = "joined" /\ apc = "exited")

\* The cursor implements the stream that the merges rely on: in particular
\* the end is seen only when every row has been pulled, also after an error
\* in the middle of a batch, and Wait returns the child's error.
Stream == INSTANCE OrderedStream WITH
  made <- accepted, failed <- err, open <- ~chClosed, taken <- Len(got),
  stopped <- done, joined <- result

StreamSpec == Stream!Spec
=============================================================================
