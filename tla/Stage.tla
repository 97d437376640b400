------------------------------- MODULE Stage -------------------------------
(***************************************************************************)
(* base/stage.go: a data-staging "pipeline breaker".  NumActors actor      *)
(* goroutines run an operator each, batch the rows it yields and send the  *)
(* batches over BatchCh to one consumer goroutine, which yields the rows   *)
(* downstream and recycles the batch buffers.  OpUnionAll starts one actor *)
(* per UNION ALL branch, DatastoreFetch starts one for its key scan.       *)
(*                                                                         *)
(* A row is <<actor, i>>: the i-th row that the actor's operator yields.   *)
(* A batch is a buffer identity b; mem[b] is what its slots hold, so that  *)
(* a buffer reused while somebody still reads it is visible in the rows.   *)
(* An error is named by the actor that raised it.                          *)
(***************************************************************************)
EXTENDS Naturals, Sequences, FiniteSets

CONSTANTS
  Actors,       \* the actor goroutines; NumActors is their number
  NRows,        \* rows that each actor's operator may yield (bounds the model)
  BatchSize,    \* StartActor's batchSize, per actor; 0 sends one batch at the end
  BatchChSize,  \* capacity of BatchCh; 0 is an unbuffered channel
  MaxRecycled,  \* MaxRecycledBatches of the request's pool
  Bufs,         \* identities of batch buffers
  NoErr,        \* the nil error
  NoBuf         \* the nil batch

ASSUME StageAssumption ==
  /\ IsFiniteSet(Actors) /\ Actors # {}
  /\ NRows \in Nat /\ BatchChSize \in Nat /\ MaxRecycled \in Nat
  /\ NoErr \notin Actors
  /\ NoBuf \notin Bufs

ASSUME BatchAssumption == BatchSize \in [Actors -> Nat]

VARIABLES
  apc,       \* where each actor goroutine is
  aerr,      \* the actor's local err
  abuf,      \* the actor's in-flight batch
  final,     \* the actor's operator has made its closing yieldErr call
  yielded,   \* rows the actor's operator has yielded so far
  stopCopy,  \* StartActor's own copy of StopCh was not nil
  stopCh,    \* stage.StopCh: "open", or "closed" and nil'ed
  stageErr,  \* stage.Err
  batchCh,   \* BatchCh: buffers, or NoBuf for an actor's last nil
  recycled,  \* the free list of batch buffers, last in first out
  mem,       \* the rows that the slots of each buffer hold
  cpc,       \* where the consumer goroutine is
  nReady,    \* numActorsReady
  nDone,     \* numActorsDone
  cbuf,      \* the batch that the callback is working on
  ci,        \* how many of its rows have been yielded
  out,       \* rows yielded downstream, per actor
  reported   \* what the consumer passed to stage.YieldErr

actorVars == <<apc, aerr, abuf, final, yielded, stopCopy>>
stageVars == <<stopCh, stageErr, batchCh, recycled, mem>>
consVars  == <<cpc, nReady, nDone, cbuf, ci, out, reported>>
vars == <<actorVars, stageVars, consVars>>

Row == Actors \X (1..NRows)
Errs == Actors \cup {NoErr}

TypeOK ==
  /\ apc \in [Actors -> {"unstarted", "ready", "run", "send", "last", "done"}]
  /\ aerr \in [Actors -> Errs]
  /\ abuf \in [Actors -> Bufs \cup {NoBuf}]
  /\ final \in [Actors -> BOOLEAN]
  /\ yielded \in [Actors -> 0..NRows]
  /\ stopCopy \in [Actors -> BOOLEAN]
  /\ stopCh \in {"open", "closed"}
  /\ stageErr \in Errs
  /\ batchCh \in Seq(Bufs \cup {NoBuf})
  /\ recycled \in Seq(Bufs)
  /\ mem \in [Bufs -> Seq(Row)]
  /\ cpc \in {"start", "ready", "recv", "cb", "err", "done"}
  /\ nReady \in Nat /\ nDone \in Nat /\ ci \in Nat
  /\ cbuf \in Bufs \cup {NoBuf}
  /\ out \in [Actors -> Seq(1..NRows)]
  /\ reported \in Errs

NewStage ==
  /\ apc = [a \in Actors |-> "unstarted"]
  /\ aerr = [a \in Actors |-> NoErr]
  /\ abuf = [a \in Actors |-> NoBuf]
  /\ final = [a \in Actors |-> FALSE]
  /\ yielded = [a \in Actors |-> 0]
  /\ stopCopy = [a \in Actors |-> FALSE]
  /\ stopCh = "open"
  /\ stageErr = NoErr
  /\ batchCh = <<>>
  /\ recycled = <<>>
  /\ mem = [b \in Bufs |-> <<>>]
  /\ cpc = "start"
  /\ nReady = 0 /\ nDone = 0 /\ ci = 0
  /\ cbuf = NoBuf
  /\ out = [a \in Actors |-> <<>>]
  /\ reported = NoErr

Init == NewStage

-----------------------------------------------------------------------------
(* The batch buffers.                                                      *)

SeqSet(s) == {s[i] : i \in DOMAIN s}

\* Buffers that somebody refers to; the rest are garbage or never allocated.
Held == ({abuf[a] : a \in Actors} \cup SeqSet(batchCh) \cup SeqSet(recycled) \cup {cbuf})
          \ {NoBuf}

\* Mutant: the pool is never asked, every batch is allocated anew.
AcquireBatchNoReuse(b) == b \in Bufs \ Held /\ UNCHANGED recycled

\* AcquireBatch()[:0]: the last recycled buffer, else one freshly allocated
\* by append().  The slots are overwritten from the front.
AcquireBatch(b) ==
  IF recycled # <<>>
  THEN /\ b = recycled[Len(recycled)]
       /\ recycled' = SubSeq(recycled, 1, Len(recycled) - 1)
  ELSE /\ b \in Bufs \ Held
       /\ UNCHANGED recycled

\* RecycleBatch(b): a pool that is full drops the buffer for the collector.
RecycleBatch(b) ==
  recycled' = IF Len(recycled) < MaxRecycled THEN Append(recycled, b) ELSE recycled

-----------------------------------------------------------------------------
(* The actor goroutines.                                                   *)

\* StartActor(a): copy StopCh under the lock and spawn the goroutine, which
\* blocks on ActorReadyCh.
StartActor(a) ==
  /\ cpc = "start"
  /\ apc[a] = "unstarted"
  /\ stopCopy' = [stopCopy EXCEPT ![a] = (stopCh = "open")]
  /\ apc' = [apc EXCEPT ![a] = "ready"]
  /\ cpc' = IF \A c \in Actors \ {a} : apc[c] # "unstarted" THEN "ready" ELSE cpc
  /\ UNCHANGED <<aerr, abuf, final, yielded, stageVars, nReady, nDone, cbuf, ci, out, reported>>

\* Where yieldVals leaves the actor once its batch holds n rows: in the
\* select of batchSend() when the batch is full, else in its operator.
AfterAppend(a, n) == IF BatchSize[a] > 0 /\ n >= BatchSize[a] THEN "send" ELSE "run"

\* Mutant: the acquired batch is not truncated with [:0].
FirstSlotNoTruncate(b, row) == Append(mem[b], row)

\* The slots of a batch just acquired, truncated with [:0], after append(row).
FirstSlot(b, row) == <<row>>

\* yieldVals(row) of an actor without error: deep-copy the row into the next
\* slot of the batch, and send the batch when it is full.
YieldVals(a) ==
  LET row == <<a, yielded[a] + 1>> IN
  /\ apc[a] = "run" /\ aerr[a] = NoErr /\ ~final[a]
  /\ yielded[a] < NRows
  /\ yielded' = [yielded EXCEPT ![a] = @ + 1]
  /\ IF abuf[a] # NoBuf
     THEN /\ mem' = [mem EXCEPT ![abuf[a]] = Append(@, row)]
          /\ apc' = [apc EXCEPT ![a] = AfterAppend(a, Len(mem[abuf[a]]) + 1)]
          /\ UNCHANGED <<abuf, recycled>>
     ELSE \E b \in Bufs :
            /\ AcquireBatch(b)
            /\ abuf' = [abuf EXCEPT ![a] = b]
            /\ mem' = [mem EXCEPT ![b] = FirstSlot(b, row)]
            /\ apc' = [apc EXCEPT ![a] = AfterAppend(a, Len(FirstSlot(b, row)))]
  /\ UNCHANGED <<aerr, final, stopCopy, stopCh, stageErr, batchCh, consVars>>

\* yieldVals(row) once err is set: an operator that goes on after its own
\* error, or after a sibling's, has its rows dropped.
YieldValsDropped(a) ==
  /\ apc[a] = "run" /\ aerr[a] # NoErr
  /\ yielded[a] < NRows
  /\ yielded' = [yielded EXCEPT ![a] = @ + 1]
  /\ UNCHANGED <<apc, aerr, abuf, final, stopCopy, stageVars, consVars>>

\* Mutant: an error is not recorded while the actor has a batch in flight.
IsFirstErrIdle(a) == stageErr = NoErr /\ abuf[a] = NoBuf

\* Is a's error the first one by any actor?
IsFirstErr(a) == stageErr = NoErr

\* yieldErr(err): the first error of any actor becomes stage.Err and closes
\* StopCh, all under the lock.  The in-flight batch is not sent.
YieldErr(a) ==
  /\ apc[a] = "run" /\ ~final[a]
  /\ aerr' = [aerr EXCEPT ![a] = a]
  /\ final' = [final EXCEPT ![a] = TRUE]
  /\ stageErr' = IF IsFirstErr(a) THEN a ELSE stageErr
  /\ stopCh' = IF IsFirstErr(a) THEN "closed" ELSE stopCh
  /\ UNCHANGED <<apc, abuf, yielded, stopCopy, batchCh, recycled, mem, consVars>>

\* Mutant: the last, in-flight batch is never sent.
HasLastBatchNever(a) == FALSE

\* Is there a last, in-flight batch to send?  Not once the actor failed.
HasLastBatch(a) == aerr[a] = NoErr /\ abuf[a] # NoBuf

\* yieldErr(nil): data processing is complete; send the last batch, if any.
YieldErrNil(a) ==
  /\ apc[a] = "run" /\ ~final[a]
  /\ final' = [final EXCEPT ![a] = TRUE]
  /\ apc' = [apc EXCEPT ![a] = IF HasLastBatch(a) THEN "send" ELSE "run"]
  /\ UNCHANGED <<aerr, abuf, yielded, stopCopy, stageVars, consVars>>

\* A send on BatchCh completes when there is room, or when the consumer is
\* waiting to receive.
CanSend == Len(batchCh) < BatchChSize \/ (batchCh = <<>> /\ cpc = "recv")

\* Mutant: batchSend() does not reset batch.
ResetBatchForgotten(a) == abuf' = abuf

\* batch = nil, at the end of batchSend().
ResetBatch(a) == abuf' = [abuf EXCEPT ![a] = NoBuf]

\* batchSend(), the send case of its select.
BatchSend(a) ==
  /\ apc[a] = "send"
  /\ CanSend
  /\ batchCh' = Append(batchCh, abuf[a])
  /\ ResetBatch(a)
  /\ apc' = [apc EXCEPT ![a] = "run"]
  /\ UNCHANGED <<aerr, final, yielded, stopCopy, stopCh, stageErr, recycled, mem, consVars>>

\* batchSend(), the stop case: a sibling failed, its error becomes ours and
\* the batch is dropped.  Receiving from a nil StopCh copy would block.
BatchStop(a) ==
  /\ apc[a] = "send"
  /\ stopCopy[a] /\ stopCh = "closed"
  /\ aerr' = [aerr EXCEPT ![a] = IF @ = NoErr THEN stageErr ELSE @]
  /\ ResetBatch(a)
  /\ apc' = [apc EXCEPT ![a] = "run"]
  /\ UNCHANGED <<final, yielded, stopCopy, stageVars, consVars>>

\* Mutant: an actor that failed ends without its last nil.
AfterOperatorNoNil(a) == IF aerr[a] = NoErr THEN "last" ELSE "done"

\* What follows aFunc(): the send of nil, whether or not there was an error.
AfterOperator(a) == "last"

\* The operator returns; the actor's last act is to send nil.
ActorReturn(a) ==
  /\ apc[a] = "run" /\ final[a]
  /\ apc' = [apc EXCEPT ![a] = AfterOperator(a)]
  /\ UNCHANGED <<aerr, abuf, final, yielded, stopCopy, stageVars, consVars>>

SendLastNil(a) ==
  /\ apc[a] = "last"
  /\ CanSend
  /\ batchCh' = Append(batchCh, NoBuf)
  /\ apc' = [apc EXCEPT ![a] = "done"]
  /\ UNCHANGED <<aerr, abuf, final, yielded, stopCopy, stopCh, stageErr, recycled, mem, consVars>>

-----------------------------------------------------------------------------
(* The consumer goroutine: ProcessBatchesFromActors and its callers.       *)

\* Mutant: the actors do not wait on ActorReadyCh.
CanMeetAtOnce == cpc \in {"start", "ready"}

\* ProcessBatchesFromActors, past every StartActor, receives on ActorReadyCh.
CanMeet == cpc = "ready"

\* <-ActorReadyCh: an actor's operator starts only once the consumer, which
\* is past every StartActor, has met the actor here.
ActorReady(a) ==
  /\ CanMeet
  /\ apc[a] = "ready"
  /\ apc' = [apc EXCEPT ![a] = "run"]
  /\ nReady' = nReady + 1
  /\ cpc' = IF nReady' = Cardinality(Actors) THEN "recv" ELSE cpc
  /\ UNCHANGED <<aerr, abuf, final, yielded, stopCopy, stageVars, nDone, cbuf, ci, out, reported>>

\* A nil from BatchCh is no batch: nothing is recycled for it.
RecycleReceived == UNCHANGED recycled

\* batch := <-BatchCh, a nil counting one actor as done.
Receive ==
  /\ cpc = "recv"
  /\ batchCh # <<>>
  /\ batchCh' = Tail(batchCh)
  /\ IF Head(batchCh) = NoBuf
     THEN /\ nDone' = nDone + 1
          /\ cpc' = IF nDone' = Cardinality(Actors) THEN "err" ELSE cpc
          /\ RecycleReceived
          /\ UNCHANGED <<cbuf, ci>>
     ELSE /\ cbuf' = Head(batchCh)
          /\ ci' = 0
          /\ cpc' = "cb"
          /\ UNCHANGED <<nDone, recycled>>
  /\ UNCHANGED <<actorVars, stopCh, stageErr, mem, nReady, out, reported>>

\* The callback yields the next row of the batch downstream.
YieldRow ==
  LET row == mem[cbuf][ci + 1] IN
  /\ cpc = "cb"
  /\ ci < Len(mem[cbuf])
  /\ out' = [out EXCEPT ![row[1]] = Append(@, row[2])]
  /\ ci' = ci + 1
  /\ UNCHANGED <<actorVars, stageVars, cpc, nReady, nDone, cbuf, reported>>

\* The callback is done with the batch, which goes back to the pool.
RecycleAfterCallback ==
  /\ cpc = "cb"
  /\ ci = Len(mem[cbuf])
  /\ RecycleBatch(cbuf)
  /\ cbuf' = NoBuf
  /\ ci' = 0
  /\ cpc' = "recv"
  /\ UNCHANGED <<actorVars, stopCh, stageErr, batchCh, mem, nReady, nDone, out, reported>>

\* stage.YieldErr(stage.Err), the consumer's last step.
YieldStageErr ==
  /\ cpc = "err"
  /\ reported' = stageErr
  /\ cpc' = "done"
  /\ UNCHANGED <<actorVars, stageVars, nReady, nDone, cbuf, ci, out>>

-----------------------------------------------------------------------------
ActorStep(a) ==
  \/ YieldVals(a) \/ YieldValsDropped(a) \/ YieldErr(a) \/ YieldErrNil(a)
  \/ BatchSend(a) \/ BatchStop(a) \/ ActorReturn(a) \/ SendLastNil(a)

ConsumerStep ==
  \/ \E a \in Actors : StartActor(a) \/ ActorReady(a)
  \/ Receive \/ YieldRow \/ RecycleAfterCallback \/ YieldStageErr

Next == ConsumerStep \/ \E a \in Actors : ActorStep(a)

\* The Go scheduler runs every goroutine that can go on, and the operators
\* that the actors run come to an end.
Fairness == WF_vars(ConsumerStep) /\ \A a \in Actors : WF_vars(ActorStep(a))

Spec == Init /\ [][Next]_vars /\ Fairness

-----------------------------------------------------------------------------
(* Properties.                                                             *)

\* A batch buffer has one owner at a time: an actor filling it, BatchCh, the
\* callback reading it or the free list.  RecycleBatch hands a buffer on for
\* overwriting, so a second owner would see its rows change under it.
OneOwner ==
  /\ \A a, c \in Actors : a # c /\ abuf[a] # NoBuf => abuf[a] # abuf[c]
  /\ \A i, j \in DOMAIN batchCh : i # j /\ batchCh[i] # NoBuf => batchCh[i] # batchCh[j]
  /\ \A i, j \in DOMAIN recycled : i # j => recycled[i] # recycled[j]
  /\ \A a \in Actors : abuf[a] # NoBuf =>
       /\ abuf[a] # cbuf
       /\ \A i \in DOMAIN batchCh : batchCh[i] # abuf[a]
       /\ \A i \in DOMAIN recycled : recycled[i] # abuf[a]
  /\ cbuf # NoBuf =>
       /\ \A i \in DOMAIN batchCh : batchCh[i] # cbuf
       /\ \A i \in DOMAIN recycled : recycled[i] # cbuf
  /\ \A i \in DOMAIN batchCh, j \in DOMAIN recycled : batchCh[i] # recycled[j]

\* What the consumer yields of one actor is what the actor's operator
\* yielded, in its order, without loss in the middle or repetition: an error
\* may only cut off a tail.
InOrder == \A a \in Actors : out[a] = [i \in 1..Len(out[a]) |-> i]

\* A stage that ends without error has yielded every row of every actor.
Complete ==
  cpc = "done" /\ reported = NoErr => \A a \in Actors : Len(out[a]) = yielded[a]

\* The error that the consumer reports is one that an actor raised, and an
\* error raised by any actor is reported, whatever its siblings were doing.
ErrorReported ==
  cpc = "done" =>
    IF reported = NoErr
    THEN \A a \in Actors : aerr[a] = NoErr
    ELSE aerr[reported] = reported

\* No actor can have copied a StopCh that was already nil'ed: a batchSend()
\* selecting on a nil copy could not be stopped by a sibling's error.  The
\* handshake on ActorReadyCh is what makes it so.
StopCopyLive == \A a \in Actors : apc[a] # "unstarted" => stopCopy[a]

\* The buffers in use never number more than one per actor, one per slot of
\* BatchCh and one in the callback: recycling keeps allocation bounded.
BuffersBounded == Cardinality(Held) <= Cardinality(Actors) + BatchChSize + 1

\* Every goroutine of the stage ends, whichever actors fail: the consumer
\* never waits for a nil that does not come, nor an actor for a receive.
Termination == <>(cpc = "done" /\ \A a \in Actors : apc[a] = "done")

\* Nothing of what the actors yield is lost, repeated or reordered on its way
\* through the batches, and the batches in use stay bounded.
RowsDelivered == InOrder /\ Complete /\ BuffersBounded
=============================================================================
