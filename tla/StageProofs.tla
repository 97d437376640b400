---------------------------- MODULE StageProofs ----------------------------
(***************************************************************************)
(* Proofs about Stage (base/stage.go), for any number of actors, rows and  *)
(* buffers and for any batch and channel size.                             *)
(***************************************************************************)
EXTENDS Stage, FiniteSetTheorems, FunctionTheorems, SequenceTheorems, TLAPS

\* Where a goroutine holds a batch, it holds one that is not nil.
BufInv ==
  /\ cpc = "cb" => cbuf # NoBuf
  /\ \A a \in Actors : apc[a] = "send" => abuf[a] # NoBuf

TypeInv == TypeOK /\ BufInv

\* Typing is inductive once BufInv is added: YieldRow reads mem[cbuf], which
\* is a sequence of rows only when the callback holds a batch.
LEMMA TypeInvariance == Spec => []TypeInv
<1>1. Init => TypeInv BY StageAssumption DEF Init, NewStage, TypeInv, TypeOK, BufInv, Errs
<1>2. TypeInv /\ [Next]_vars => TypeInv'
 <2> SUFFICES ASSUME TypeInv, [Next]_vars PROVE TypeInv' OBVIOUS
 <2> USE StageAssumption DEF TypeInv, TypeOK, BufInv, Errs
 <2>1. CASE UNCHANGED vars BY <2>1 DEF vars, actorVars, stageVars, consVars
 <2>2. ASSUME NEW a \in Actors, StartActor(a) PROVE TypeInv' BY <2>2 DEF StartActor, stageVars
 <2>3. ASSUME NEW a \in Actors, YieldVals(a) PROVE TypeInv'
  <3> DEFINE row == <<a, yielded[a] + 1>>
  <3>1. row \in Row /\ yielded[a] + 1 \in 0..NRows
   <4>1. yielded[a] \in 0..NRows /\ yielded[a] < NRows /\ NRows \in Nat BY <2>3 DEF YieldVals
   <4>2. yielded[a] + 1 \in 1..NRows /\ yielded[a] + 1 \in 0..NRows BY ONLY <4>1
   <4> QED BY <4>2 DEF Row
  <3>4. /\ UNCHANGED <<aerr, final, stopCopy, stopCh, stageErr, batchCh, cpc, nReady, nDone, cbuf, ci, out, reported>>
        /\ yielded' \in [Actors -> 0..NRows] BY <2>3, <3>1 DEF YieldVals, consVars
  <3>2. CASE abuf[a] # NoBuf
   <4>1. Append(mem[abuf[a]], row) \in Seq(Row) BY <3>1, <3>2, AppendProperties
   <4>2. AfterAppend(a, Len(mem[abuf[a]]) + 1) \in {"send", "run"} BY DEF AfterAppend
   <4>3. /\ mem' = [mem EXCEPT ![abuf[a]] = Append(mem[abuf[a]], row)]
         /\ apc' = [apc EXCEPT ![a] = AfterAppend(a, Len(mem[abuf[a]]) + 1)]
         /\ abuf' = abuf /\ recycled' = recycled BY <2>3, <3>2 DEF YieldVals
   <4>4. mem' \in [Bufs -> Seq(Row)] BY <4>1, <4>3
   <4>5. apc' \in [Actors -> {"unstarted", "ready", "run", "send", "last", "done"}] BY <4>2, <4>3
   <4>6. \A x \in Actors : apc'[x] = "send" => abuf'[x] # NoBuf BY <3>2, <4>3
   <4> QED BY <3>4, <4>3, <4>4, <4>5, <4>6
  <3>3. CASE abuf[a] = NoBuf
   <4>1. PICK b \in Bufs :
           /\ AcquireBatch(b)
           /\ abuf' = [abuf EXCEPT ![a] = b]
           /\ mem' = [mem EXCEPT ![b] = FirstSlot(b, row)]
           /\ apc' = [apc EXCEPT ![a] = AfterAppend(a, Len(FirstSlot(b, row)))] BY <2>3, <3>3 DEF YieldVals
   <4>2. FirstSlot(b, row) \in Seq(Row) BY <3>1 DEF FirstSlot
   <4>3. AfterAppend(a, Len(FirstSlot(b, row))) \in {"send", "run"} BY DEF AfterAppend
   <4>4. recycled' \in Seq(Bufs)
    <5>1. CASE recycled = <<>> BY <4>1, <5>1 DEF AcquireBatch
    <5>2. CASE recycled # <<>>
     <6>1. SubSeq(recycled, 1, Len(recycled) - 1) \in Seq(Bufs) BY <5>2, SubSeqProperties
     <6> QED BY <4>1, <5>2, <6>1 DEF AcquireBatch
    <5> QED BY <5>1, <5>2
   <4>5. mem' \in [Bufs -> Seq(Row)] BY <4>1, <4>2
   <4>6. apc' \in [Actors -> {"unstarted", "ready", "run", "send", "last", "done"}] BY <4>1, <4>3
   <4>7. abuf' \in [Actors -> Bufs \cup {NoBuf}] /\ b # NoBuf BY <4>1
   <4>8. \A x \in Actors : apc'[x] = "send" => abuf'[x] # NoBuf BY <4>1, <4>7
   <4> QED BY <3>4, <4>4, <4>5, <4>6, <4>7, <4>8
  <3> QED BY <3>2, <3>3
 <2>4. ASSUME NEW a \in Actors, YieldValsDropped(a) PROVE TypeInv'
  <3>1. yielded' \in [Actors -> 0..NRows]
   <4>1. yielded[a] \in 0..NRows /\ yielded[a] < NRows /\ NRows \in Nat BY <2>4 DEF YieldValsDropped
   <4>2. yielded[a] + 1 \in 0..NRows BY ONLY <4>1
   <4>3. yielded' = [yielded EXCEPT ![a] = yielded[a] + 1] BY <2>4 DEF YieldValsDropped
   <4> QED BY <4>2, <4>3
  <3>2. UNCHANGED <<apc, aerr, abuf, final, stopCopy, stageVars, consVars>> BY <2>4 DEF YieldValsDropped
  <3> QED BY <3>1, <3>2 DEF stageVars, consVars
 <2>5. ASSUME NEW a \in Actors, YieldErr(a) PROVE TypeInv' BY <2>5 DEF YieldErr, IsFirstErr, consVars
 <2>6. ASSUME NEW a \in Actors, YieldErrNil(a) PROVE TypeInv'
   BY <2>6 DEF YieldErrNil, HasLastBatch, stageVars, consVars
 <2>7. ASSUME NEW a \in Actors, BatchSend(a) PROVE TypeInv' BY <2>7 DEF BatchSend, ResetBatch, consVars
 <2>8. ASSUME NEW a \in Actors, BatchStop(a) PROVE TypeInv' BY <2>8 DEF BatchStop, ResetBatch, stageVars, consVars
 <2>9. ASSUME NEW a \in Actors, ActorReturn(a) PROVE TypeInv'
   BY <2>9 DEF ActorReturn, AfterOperator, stageVars, consVars
 <2>10. ASSUME NEW a \in Actors, SendLastNil(a) PROVE TypeInv'
   BY <2>10, AppendProperties DEF SendLastNil, consVars
 <2>11. ASSUME NEW a \in Actors, ActorReady(a) PROVE TypeInv' BY <2>11 DEF ActorReady, stageVars
 <2>12. ASSUME Receive PROVE TypeInv'
  <3>1. Head(batchCh) \in Bufs \cup {NoBuf} /\ Tail(batchCh) \in Seq(Bufs \cup {NoBuf})
    BY <2>12, HeadTailProperties DEF Receive
  <3>2. UNCHANGED <<apc, aerr, abuf, final, yielded, stopCopy, stopCh, stageErr, recycled, mem, nReady, out, reported>>
        /\ batchCh' = Tail(batchCh) BY <2>12 DEF Receive, RecycleReceived, actorVars
  <3>3. /\ cpc' \in {"recv", "err", "cb"} /\ nDone' \in Nat /\ ci' \in Nat /\ cbuf' \in Bufs \cup {NoBuf}
        /\ cpc' = "cb" => cbuf' # NoBuf
   <4>1. CASE Head(batchCh) = NoBuf BY <2>12, <4>1 DEF Receive
   <4>2. CASE Head(batchCh) # NoBuf BY <2>12, <3>1, <4>2 DEF Receive
   <4> QED BY <4>1, <4>2
  <3> QED BY <3>1, <3>2, <3>3
 <2>13. ASSUME YieldRow PROVE TypeInv'
  <3>1. mem[cbuf][ci + 1] \in Row BY <2>13 DEF YieldRow
  <3>2. mem[cbuf][ci + 1][1] \in Actors /\ mem[cbuf][ci + 1][2] \in 1..NRows BY <3>1 DEF Row
  <3>3. Append(out[mem[cbuf][ci + 1][1]], mem[cbuf][ci + 1][2]) \in Seq(1..NRows) BY <3>2, AppendProperties
  <3>4. out' = [out EXCEPT ![mem[cbuf][ci + 1][1]] = Append(@, mem[cbuf][ci + 1][2])] BY <2>13 DEF YieldRow
  <3>5. out' \in [Actors -> Seq(1..NRows)] BY <3>2, <3>3, <3>4
  <3>6. UNCHANGED <<actorVars, stageVars, cpc, nReady, nDone, cbuf, reported>> /\ ci' \in Nat BY <2>13 DEF YieldRow
  <3> QED BY <3>5, <3>6 DEF actorVars, stageVars
 <2>14. ASSUME RecycleAfterCallback PROVE TypeInv'
  <3>1. recycled' \in Seq(Bufs) BY <2>14, AppendProperties DEF RecycleAfterCallback, RecycleBatch
  <3>2. UNCHANGED <<actorVars, stopCh, stageErr, batchCh, mem, nReady, nDone, out, reported>>
        /\ cbuf' = NoBuf /\ ci' = 0 /\ cpc' = "recv" BY <2>14 DEF RecycleAfterCallback
  <3> QED BY <3>1, <3>2 DEF actorVars
 <2>15. ASSUME YieldStageErr PROVE TypeInv' BY <2>15 DEF YieldStageErr, actorVars, stageVars
 <2> QED BY <2>1, <2>2, <2>3, <2>4, <2>5, <2>6, <2>7, <2>8, <2>9, <2>10, <2>11,
      <2>12, <2>13, <2>14, <2>15 DEF Next, ConsumerStep, ActorStep
<1> QED BY <1>1, <1>2, PTL DEF Spec

\* Every variable of the stage keeps its type.
THEOREM Typing == Spec => []TypeOK
BY TypeInvariance, PTL DEF TypeInv

-----------------------------------------------------------------------------
(* One owner per batch buffer.                                             *)

\* No goroutine and no slot of BatchCh refers to b.
Unowned(b) ==
  /\ \A c \in Actors : abuf[c] # b
  /\ \A i \in DOMAIN batchCh : batchCh[i] # b
  /\ cbuf # b

\* The buffer that AcquireBatch returns is nobody else's, and gone from the pool.
LEMMA AcquireFresh ==
  ASSUME TypeInv, OneOwner, NEW b \in Bufs, AcquireBatch(b)
  PROVE  /\ Unowned(b)
         /\ \A i \in DOMAIN recycled' : recycled'[i] # b /\ i \in DOMAIN recycled
                                          /\ recycled'[i] = recycled[i]
<1> USE StageAssumption
<1>1. CASE recycled = <<>> BY <1>1 DEF AcquireBatch, Held, SeqSet, Unowned
<1>2. CASE recycled # <<>>
 <2> DEFINE n == Len(recycled)
 <2>1. recycled \in Seq(Bufs) /\ n \in Nat /\ n > 0 BY <1>2 DEF TypeInv, TypeOK
 <2>2. b = recycled[n] /\ recycled' = SubSeq(recycled, 1, n - 1) BY <1>2 DEF AcquireBatch
 <2>3. /\ DOMAIN recycled' = 1..(n - 1)
       /\ \A i \in 1..(n - 1) : recycled'[i] = recycled[i] BY <2>1, <2>2
 <2>4. n \in DOMAIN recycled /\ \A i \in 1..(n - 1) : i \in DOMAIN recycled /\ i # n BY <2>1
 <2> HIDE DEF n
 <2>5. b \in Bufs /\ b # NoBuf OBVIOUS
 <2>6. \A c \in Actors : abuf[c] # b BY <2>2, <2>4, <2>5 DEF OneOwner
 <2>7. cbuf # b /\ \A i \in DOMAIN batchCh : batchCh[i] # b BY <2>2, <2>4, <2>5 DEF OneOwner
 <2>8. \A i \in 1..(n - 1) : recycled[i] # b BY <2>2, <2>4 DEF OneOwner
 <2> QED BY <2>3, <2>4, <2>6, <2>7, <2>8 DEF Unowned
<1> QED BY <1>1, <1>2

\* A batch buffer always has one owner: handing it from actor to channel to
\* callback to free list and back never leaves a second reference behind.
THEOREM Ownership == Spec => []OneOwner
<1>1. Init => OneOwner BY DEF Init, NewStage, OneOwner
<1>2. TypeInv /\ OneOwner /\ [Next]_vars => OneOwner'
 <2> SUFFICES ASSUME TypeInv, OneOwner, [Next]_vars PROVE OneOwner' OBVIOUS
 <2> USE StageAssumption
 <2>0. ASSUME UNCHANGED <<abuf, batchCh, recycled, cbuf>> PROVE OneOwner' BY <2>0 DEF OneOwner
 <2>1. ASSUME NEW a \in Actors, YieldVals(a) PROVE OneOwner'
  <3>1. CASE abuf[a] # NoBuf BY <2>0, <2>1, <3>1 DEF YieldVals, consVars
  <3>2. CASE abuf[a] = NoBuf
   <4>1. PICK b \in Bufs : AcquireBatch(b) /\ abuf' = [abuf EXCEPT ![a] = b] BY <2>1, <3>2 DEF YieldVals
   <4>2. UNCHANGED <<batchCh, cbuf>> BY <2>1 DEF YieldVals, consVars
   <4>3. /\ Unowned(b)
         /\ \A i \in DOMAIN recycled' : recycled'[i] # b /\ i \in DOMAIN recycled
                                          /\ recycled'[i] = recycled[i] BY <4>1, AcquireFresh
   <4>4. \A c \in Actors : abuf'[c] = IF c = a THEN b ELSE abuf[c] BY <4>1 DEF TypeInv, TypeOK
   <4> QED BY <4>2, <4>3, <4>4, <3>2 DEF OneOwner, Unowned
  <3> QED BY <3>1, <3>2
 <2>2. ASSUME NEW a \in Actors, BatchSend(a) PROVE OneOwner'
  <3>1. /\ abuf' = [abuf EXCEPT ![a] = NoBuf]
        /\ batchCh' = Append(batchCh, abuf[a])
        /\ UNCHANGED <<recycled, cbuf>> BY <2>2 DEF BatchSend, ResetBatch, consVars
  <3>2. abuf[a] \in Bufs BY <2>2 DEF BatchSend, TypeInv, TypeOK, BufInv
  <3>3. /\ DOMAIN batchCh' = DOMAIN batchCh \cup {Len(batchCh) + 1}
        /\ \A i \in DOMAIN batchCh : batchCh'[i] = batchCh[i]
        /\ batchCh'[Len(batchCh) + 1] = abuf[a] BY <3>1, <3>2 DEF TypeInv, TypeOK
  <3>4. \A c \in Actors : abuf'[c] = IF c = a THEN NoBuf ELSE abuf[c] BY <3>1 DEF TypeInv, TypeOK
  <3> QED BY <3>1, <3>2, <3>3, <3>4 DEF OneOwner
 <2>3. ASSUME NEW a \in Actors, BatchStop(a) PROVE OneOwner'
   BY <2>3 DEF BatchStop, ResetBatch, consVars, stageVars, TypeInv, TypeOK, OneOwner
 <2>4. ASSUME NEW a \in Actors, SendLastNil(a) PROVE OneOwner'
  <3>1. batchCh' = Append(batchCh, NoBuf) /\ UNCHANGED <<abuf, recycled, cbuf>> BY <2>4 DEF SendLastNil, consVars
  <3>2. /\ DOMAIN batchCh' = DOMAIN batchCh \cup {Len(batchCh) + 1}
        /\ \A i \in DOMAIN batchCh : batchCh'[i] = batchCh[i]
        /\ batchCh'[Len(batchCh) + 1] = NoBuf BY <3>1 DEF TypeInv, TypeOK
  <3>3. \A i \in DOMAIN recycled : recycled[i] # NoBuf BY DEF TypeInv, TypeOK
  <3> QED BY <3>1, <3>2, <3>3 DEF OneOwner
 <2>5. ASSUME Receive PROVE OneOwner'
  <3>1. /\ batchCh \in Seq(Bufs \cup {NoBuf}) /\ batchCh # <<>>
        /\ batchCh' = Tail(batchCh)
        /\ UNCHANGED <<abuf, recycled>>
        /\ cbuf' \in {cbuf, batchCh[1]} BY <2>5 DEF Receive, RecycleReceived, actorVars, TypeInv, TypeOK
  <3>2. /\ 1 \in DOMAIN batchCh
        /\ \A i \in DOMAIN batchCh' : i + 1 \in DOMAIN batchCh /\ i + 1 # 1
                                        /\ batchCh'[i] = batchCh[i + 1] BY <3>1
  <3>3. \A i, j \in DOMAIN batchCh' : i # j => i + 1 # j + 1 BY <3>1
  <3>4. CASE cbuf' = cbuf BY <3>1, <3>2, <3>3, <3>4 DEF OneOwner
  <3>5. CASE cbuf' = batchCh[1] BY <3>1, <3>2, <3>3, <3>5 DEF OneOwner
  <3> QED BY <3>1, <3>4, <3>5
 <2>6. ASSUME RecycleAfterCallback PROVE OneOwner'
  <3>1. cbuf' = NoBuf /\ UNCHANGED <<abuf, batchCh>> /\ cbuf \in Bufs
    BY <2>6 DEF RecycleAfterCallback, actorVars, TypeInv, TypeOK, BufInv
  <3>2. CASE recycled' = recycled BY <3>1, <3>2 DEF OneOwner
  <3>3. CASE recycled' = Append(recycled, cbuf)
   <4>1. /\ DOMAIN recycled' = DOMAIN recycled \cup {Len(recycled) + 1}
         /\ \A i \in DOMAIN recycled : recycled'[i] = recycled[i]
         /\ recycled'[Len(recycled) + 1] = cbuf BY <3>1, <3>3 DEF TypeInv, TypeOK
   <4> QED BY <3>1, <4>1 DEF OneOwner
  <3> QED BY <2>6, <3>2, <3>3 DEF RecycleAfterCallback, RecycleBatch
 <2>7. ASSUME NEW a \in Actors,
              \/ StartActor(a) \/ ActorReady(a) \/ YieldValsDropped(a)
              \/ YieldErr(a) \/ YieldErrNil(a) \/ ActorReturn(a)
       PROVE  OneOwner'
   BY <2>0, <2>7 DEF StartActor, ActorReady, YieldValsDropped, YieldErr, YieldErrNil,
                     ActorReturn, stageVars, consVars
 <2>8. ASSUME YieldRow \/ YieldStageErr \/ UNCHANGED vars PROVE OneOwner'
   BY <2>0, <2>8 DEF YieldRow, YieldStageErr, vars, actorVars, stageVars, consVars
 <2> QED BY <2>1, <2>2, <2>3, <2>4, <2>5, <2>6, <2>7, <2>8 DEF Next, ConsumerStep, ActorStep
<1> QED BY <1>1, <1>2, TypeInvariance, PTL DEF Spec

-----------------------------------------------------------------------------
(* The stop channel.                                                       *)

\* Until every actor is started no operator runs, so none can have failed.
StartInv ==
  cpc = "start" => stopCh = "open" /\ \A a \in Actors : apc[a] \in {"unstarted", "ready"}

\* Every started actor copied a StopCh that was open at the time: none can
\* be left in batchSend() selecting on a nil channel.
THEOREM StopCopies == Spec => []StopCopyLive
<1>1. Init => StartInv /\ StopCopyLive BY DEF Init, NewStage, StartInv, StopCopyLive
<1>2. TypeInv /\ StartInv /\ StopCopyLive /\ [Next]_vars => (StartInv /\ StopCopyLive)'
 <2> SUFFICES ASSUME TypeInv, StartInv, StopCopyLive, [Next]_vars
              PROVE  StartInv' /\ StopCopyLive' OBVIOUS
 <2> USE DEF TypeInv, TypeOK, StartInv, StopCopyLive
 <2>1. ASSUME NEW a \in Actors, StartActor(a) PROVE StartInv' /\ StopCopyLive' BY <2>1 DEF StartActor, stageVars
 <2>2. ASSUME NEW a \in Actors, ActorReady(a) PROVE StartInv' /\ StopCopyLive'
   BY <2>2 DEF ActorReady, CanMeet, stageVars
 <2>3. ASSUME NEW a \in Actors, YieldVals(a) PROVE StartInv' /\ StopCopyLive' BY <2>3 DEF YieldVals, consVars
 <2>4. ASSUME NEW a \in Actors, YieldValsDropped(a) \/ YieldErr(a) \/ YieldErrNil(a)
       PROVE  StartInv' /\ StopCopyLive' BY <2>4 DEF YieldValsDropped, YieldErr, YieldErrNil, stageVars, consVars
 <2>5. ASSUME NEW a \in Actors,
              BatchSend(a) \/ BatchStop(a) \/ ActorReturn(a) \/ SendLastNil(a)
       PROVE  StartInv' /\ StopCopyLive'
   BY <2>5 DEF BatchSend, BatchStop, ActorReturn, SendLastNil, stageVars, consVars
 <2>6. ASSUME Receive PROVE StartInv' /\ StopCopyLive' BY <2>6 DEF Receive, actorVars
 <2>7. ASSUME YieldRow \/ RecycleAfterCallback \/ YieldStageErr \/ UNCHANGED vars
       PROVE  StartInv' /\ StopCopyLive'
   BY <2>7 DEF YieldRow, RecycleAfterCallback, YieldStageErr, vars, actorVars, stageVars, consVars
 <2> QED BY <2>1, <2>2, <2>3, <2>4, <2>5, <2>6, <2>7 DEF Next, ConsumerStep, ActorStep
<1> QED BY <1>1, <1>2, TypeInvariance, PTL DEF Spec

-----------------------------------------------------------------------------
(* Errors.                                                                 *)

\* The places of ch that hold an actor's last nil.
Nils(ch) == {i \in DOMAIN ch : ch[i] = NoBuf}

Finished == {a \in Actors : apc[a] = "done"}

\* Each actor that is done has sent one nil, received or still in BatchCh:
\* the consumer that counts NumActors nils has outlived every actor.
CountInv ==
  /\ nDone + Cardinality(Nils(batchCh)) = Cardinality(Finished)
  /\ cpc \in {"err", "done"} => nDone = Cardinality(Actors)

\* stage.Err is set as soon as any actor has failed, and to the error of an
\* actor that still has it; the consumer reports it and nothing else.
ErrInv ==
  /\ \A a \in Actors : aerr[a] # NoErr => stageErr # NoErr
  /\ stageErr # NoErr => aerr[stageErr] = stageErr
  /\ stopCh = "closed" => stageErr # NoErr
  /\ cpc = "done" => reported = stageErr

\* The nils of a channel are finitely many; a send adds the one it sends.
LEMMA NilsAppend ==
  ASSUME NEW ch \in Seq(Bufs \cup {NoBuf}), NEW b \in Bufs \cup {NoBuf}
  PROVE  /\ IsFiniteSet(Nils(ch)) /\ Cardinality(Nils(ch)) \in Nat
         /\ Cardinality(Nils(Append(ch, b)))
              = Cardinality(Nils(ch)) + (IF b = NoBuf THEN 1 ELSE 0)
<1>1. IsFiniteSet(DOMAIN ch) BY FS_Interval
<1>2. IsFiniteSet(Nils(ch)) /\ Cardinality(Nils(ch)) \in Nat
 <2>1. Nils(ch) \in SUBSET DOMAIN ch BY DEF Nils
 <2> QED BY <1>1, <2>1, FS_Subset, FS_CardinalityType
<1>3. CASE b = NoBuf
 <2>1. Nils(Append(ch, b)) = Nils(ch) \cup {Len(ch) + 1} BY <1>3 DEF Nils
 <2>2. Len(ch) + 1 \notin Nils(ch) BY DEF Nils
 <2> QED BY <1>2, <1>3, <2>1, <2>2, FS_AddElement
<1>4. CASE b # NoBuf
 <2>1. Nils(Append(ch, b)) = Nils(ch) BY <1>4 DEF Nils
 <2> QED BY <1>2, <1>4, <2>1
<1> QED BY <1>2, <1>3, <1>4

\* A receive removes the first element and shifts the others.
LEMMA NilsTail ==
  ASSUME NEW ch \in Seq(Bufs \cup {NoBuf}), ch # <<>>
  PROVE  Cardinality(Nils(Tail(ch)))
           = Cardinality(Nils(ch)) - (IF Head(ch) = NoBuf THEN 1 ELSE 0)
<1> DEFINE T == Nils(ch) \ {1}
           F == [i \in Nils(Tail(ch)) |-> i + 1]
<1>1. IsFiniteSet(Nils(ch)) /\ Cardinality(Nils(ch)) \in Nat BY NilsAppend
<1>2. /\ Tail(ch) \in Seq(Bufs \cup {NoBuf}) /\ Len(Tail(ch)) = Len(ch) - 1
      /\ \A i \in 1..Len(Tail(ch)) : Tail(ch)[i] = ch[i + 1] BY HeadTailProperties
<1>3. IsFiniteSet(Nils(Tail(ch))) BY <1>2, NilsAppend
<1>4. F \in [Nils(Tail(ch)) -> T] BY <1>2 DEF Nils
<1>5. \A i, j \in Nils(Tail(ch)) : F[i] = F[j] => i = j BY <1>2 DEF Nils
<1>6. \A t \in T : \E i \in Nils(Tail(ch)) : F[i] = t
 <2> SUFFICES ASSUME NEW t \in T PROVE t - 1 \in Nils(Tail(ch)) /\ F[t - 1] = t OBVIOUS
 <2>1. t \in 2..Len(ch) /\ ch[t] = NoBuf BY DEF Nils
 <2>2. t - 1 \in 1..Len(Tail(ch)) /\ (t - 1) + 1 = t BY <1>2, <2>1
 <2> QED BY <1>2, <2>1, <2>2 DEF Nils
<1>7. ExistsBijection(Nils(Tail(ch)), T) BY <1>4, <1>5, <1>6, Fun_IsBij, Fun_ExistsBij
<1>8. Cardinality(T) = Cardinality(Nils(Tail(ch))) BY <1>3, <1>7, FS_Bijection
<1>9. 1 \in Nils(ch) <=> Head(ch) = NoBuf BY DEF Nils
<1>10. Cardinality(T) = IF 1 \in Nils(ch) THEN Cardinality(Nils(ch)) - 1 ELSE Cardinality(Nils(ch))
  BY <1>1, FS_RemoveElement
<1> HIDE DEF T
<1> QED BY <1>1, <1>8, <1>9, <1>10

\* The count of done actors never runs ahead of, or behind, their nils.
LEMMA Counting == Spec => []CountInv
<1>1. Init => CountInv
 <2> SUFFICES ASSUME Init PROVE CountInv OBVIOUS
 <2>1. Nils(batchCh) = {} /\ Finished = {} BY DEF Init, NewStage, Nils, Finished
 <2>2. Cardinality({}) = 0 BY FS_EmptySet
 <2>3. nDone = 0 /\ cpc = "start" BY DEF Init, NewStage
 <2> QED BY <2>1, <2>2, <2>3 DEF CountInv
<1>2. TypeInv /\ CountInv /\ [Next]_vars => CountInv'
 <2> SUFFICES ASSUME TypeInv, CountInv, [Next]_vars PROVE CountInv' OBVIOUS
 <2>1. batchCh \in Seq(Bufs \cup {NoBuf}) /\ nDone \in Nat BY DEF TypeInv, TypeOK
 <2>2. /\ IsFiniteSet(Nils(batchCh)) /\ Cardinality(Nils(batchCh)) \in Nat
       /\ IsFiniteSet(Finished) /\ Cardinality(Finished) \in Nat
       /\ Cardinality(Finished) <= Cardinality(Actors)
  <3>1. Finished \in SUBSET Actors BY DEF Finished
  <3> QED BY <2>1, <3>1, NilsAppend, FS_Subset, FS_CardinalityType, StageAssumption
 <2>3. ASSUME Finished' = Finished, UNCHANGED <<batchCh, nDone>>,
              cpc' \in {"err", "done"} => cpc \in {"err", "done"}
       PROVE  CountInv' BY <2>3 DEF CountInv, Nils
 <2>4. ASSUME NEW a \in Actors, YieldVals(a) PROVE CountInv'
   BY <2>4, <2>3 DEF YieldVals, AfterAppend, TypeInv, TypeOK, Finished, consVars
 <2>5. ASSUME NEW a \in Actors,
              \/ StartActor(a) \/ ActorReady(a) \/ YieldValsDropped(a)
              \/ YieldErr(a) \/ YieldErrNil(a) \/ ActorReturn(a) \/ BatchStop(a)
       PROVE  CountInv'
   BY <2>5, <2>3 DEF StartActor, ActorReady, YieldValsDropped, YieldErr, YieldErrNil, ActorReturn,
      AfterOperator, BatchStop, TypeInv, TypeOK, Finished, stageVars, consVars
 <2>6. ASSUME NEW a \in Actors, BatchSend(a) PROVE CountInv'
  <3>1. apc' = [apc EXCEPT ![a] = "run"] /\ apc[a] = "send" BY <2>6 DEF BatchSend
  <3>2. Finished' = Finished BY <3>1 DEF Finished, TypeInv, TypeOK
  <3>3. abuf[a] \in Bufs /\ abuf[a] # NoBuf BY <2>6 DEF BatchSend, TypeInv, TypeOK, BufInv
  <3>4. Cardinality(Nils(batchCh')) = Cardinality(Nils(batchCh)) BY <2>1, <2>2, <2>6, <3>3, NilsAppend DEF BatchSend
  <3> QED BY <2>6, <3>2, <3>4 DEF BatchSend, consVars, CountInv
 <2>7. ASSUME NEW a \in Actors, SendLastNil(a) PROVE CountInv'
  <3>1. apc' = [apc EXCEPT ![a] = "done"] /\ apc[a] = "last" BY <2>7 DEF SendLastNil
  <3>2. Finished' = Finished \cup {a} /\ a \notin Finished BY <3>1 DEF Finished, TypeInv, TypeOK
  <3>3. Cardinality(Finished') = Cardinality(Finished) + 1 BY <2>2, <3>2, FS_AddElement
  <3>4. Cardinality(Nils(batchCh')) = Cardinality(Nils(batchCh)) + 1 BY <2>1, <2>2, <2>7, NilsAppend DEF SendLastNil
  <3> QED BY <2>1, <2>2, <2>7, <3>3, <3>4 DEF SendLastNil, consVars, CountInv
 <2>8. ASSUME Receive PROVE CountInv'
  <3>1. Finished' = Finished BY <2>8 DEF Receive, actorVars, Finished
  <3>2. Cardinality(Nils(batchCh')) = Cardinality(Nils(batchCh)) - (IF Head(batchCh) = NoBuf THEN 1 ELSE 0)
    BY <2>1, <2>8, NilsTail DEF Receive
  <3>3. CASE Head(batchCh) = NoBuf BY <2>8, <3>3, <2>1, <2>2, <3>1, <3>2 DEF Receive, CountInv
  <3>4. CASE Head(batchCh) # NoBuf BY <2>8, <3>4, <2>1, <2>2, <3>1, <3>2 DEF Receive, CountInv
  <3> QED BY <3>3, <3>4
 <2>9. ASSUME YieldRow \/ RecycleAfterCallback \/ YieldStageErr \/ UNCHANGED vars
       PROVE  CountInv'
   BY <2>9, <2>3 DEF YieldRow, RecycleAfterCallback, YieldStageErr, vars, actorVars, Finished, stageVars,
      consVars
 <2> QED BY <2>4, <2>5, <2>6, <2>7, <2>8, <2>9 DEF Next, ConsumerStep, ActorStep
<1> QED BY <1>1, <1>2, TypeInvariance, PTL DEF Spec

\* A consumer that has counted every nil finds every actor at its end.
LEMMA AllFinished ==
  ASSUME TypeInv, CountInv, cpc \in {"err", "done"}
  PROVE  \A a \in Actors : apc[a] = "done"
<1>1. IsFiniteSet(Nils(batchCh)) /\ Cardinality(Nils(batchCh)) \in Nat /\ nDone \in Nat
  BY NilsAppend DEF TypeInv, TypeOK
<1>2. Finished \in SUBSET Actors BY DEF Finished
<1>3. /\ IsFiniteSet(Finished) /\ Cardinality(Finished) <= Cardinality(Actors)
      /\ Cardinality(Finished) \in Nat /\ Cardinality(Actors) \in Nat
      /\ Cardinality(Actors) = Cardinality(Finished) => Actors = Finished
  BY <1>2, FS_Subset, FS_CardinalityType, StageAssumption
<1>4. Cardinality(Finished) = Cardinality(Actors) BY <1>1, <1>3 DEF CountInv
<1> QED BY <1>3, <1>4 DEF Finished

\* The first error is recorded, and stays with the actor that raised it.
LEMMA ErrorFlow == Spec => []ErrInv
<1>1. Init => ErrInv BY StageAssumption DEF Init, NewStage, ErrInv
<1>2. TypeInv /\ CountInv /\ ErrInv /\ [Next]_vars => ErrInv'
 <2> SUFFICES ASSUME TypeInv, CountInv, ErrInv, [Next]_vars PROVE ErrInv' OBVIOUS
 <2> USE StageAssumption DEF Errs
 <2>1. ASSUME NEW a \in Actors, YieldErr(a) PROVE ErrInv'
   BY <2>1, AllFinished DEF YieldErr, consVars, IsFirstErr, ErrInv, TypeInv, TypeOK
 <2>2. ASSUME NEW a \in Actors, BatchStop(a) PROVE ErrInv'
   BY <2>2 DEF BatchStop, ErrInv, TypeInv, TypeOK, stageVars, consVars
 <2>3. ASSUME UNCHANGED <<aerr, stageErr, stopCh, reported>>, cpc' = "done" => cpc = "done"
       PROVE  ErrInv' BY <2>3 DEF ErrInv
 <2>4. ASSUME NEW a \in Actors, YieldVals(a) PROVE ErrInv' BY <2>3, <2>4 DEF YieldVals, consVars
 <2>5. ASSUME NEW a \in Actors,
              \/ StartActor(a) \/ ActorReady(a) \/ YieldValsDropped(a) \/ YieldErrNil(a)
              \/ ActorReturn(a) \/ BatchSend(a) \/ SendLastNil(a)
       PROVE  ErrInv'
   BY <2>3, <2>5 DEF StartActor, ActorReady, YieldValsDropped, YieldErrNil, ActorReturn, BatchSend,
                     SendLastNil, stageVars, consVars
 <2>6. ASSUME Receive \/ YieldRow \/ RecycleAfterCallback \/ UNCHANGED vars PROVE ErrInv'
   BY <2>3, <2>6 DEF Receive, YieldRow, RecycleAfterCallback, vars, actorVars, stageVars, consVars
 <2>7. ASSUME YieldStageErr PROVE ErrInv' BY <2>7 DEF YieldStageErr, ErrInv, actorVars, stageVars
 <2> QED BY <2>1, <2>2, <2>4, <2>5, <2>6, <2>7 DEF Next, ConsumerStep, ActorStep
<1> QED BY <1>1, <1>2, TypeInvariance, Counting, PTL DEF Spec

\* Whatever its siblings were doing, an actor's error reaches stage.YieldErr,
\* and the stage reports no error that no actor raised.
THEOREM Errors == Spec => []ErrorReported
<1>1. ErrInv => ErrorReported BY DEF ErrInv, ErrorReported
<1> QED BY <1>1, ErrorFlow, PTL

-----------------------------------------------------------------------------
(* The rows on their way.                                                  *)

\* A batch holds rows of one actor: the ones after its first From(rows).
Own(rows) == rows[1][1]
From(rows) == rows[1][2] - 1
To(rows) == From(rows) + Len(rows)

GoodBatch(rows) ==
  /\ Len(rows) > 0
  /\ \A i \in 1..Len(rows) : rows[i] = <<Own(rows), From(rows) + i>>

\* What the batches hold: an actor's own ends with the last row yielded, as
\* long as the actor has no error; the callback's is yielded up to row ci.
FillInv ==
  \A a \in Actors : abuf[a] # NoBuf =>
    /\ GoodBatch(mem[abuf[a]]) /\ Own(mem[abuf[a]]) = a
    /\ aerr[a] = NoErr => To(mem[abuf[a]]) = yielded[a]

ChanInv == \A i \in DOMAIN batchCh : batchCh[i] # NoBuf => GoodBatch(mem[batchCh[i]])

ReadInv ==
  /\ cbuf # NoBuf => /\ GoodBatch(mem[cbuf]) /\ ci <= Len(mem[cbuf])
                     /\ Len(out[Own(mem[cbuf])]) = From(mem[cbuf]) + ci
  /\ cpc = "cb" <=> cbuf # NoBuf

\* The places of BatchCh that hold batches of a, and where the batches start
\* and end.
Places(a) == {i \in DOMAIN batchCh : batchCh[i] # NoBuf /\ Own(mem[batchCh[i]]) = a}
Starts == [i \in DOMAIN batchCh |-> From(mem[batchCh[i]])]
Ends == [i \in DOMAIN batchCh |-> To(mem[batchCh[i]])]

\* The rows of a that have reached the consumer, and where what a has sent may
\* end: at the last row that left it, and anywhere once it has failed.
Consumed(a) == IF cbuf # NoBuf /\ Own(mem[cbuf]) = a THEN To(mem[cbuf]) ELSE Len(out[a])
Sent(a) ==
  IF aerr[a] = NoErr THEN {IF abuf[a] # NoBuf THEN From(mem[abuf[a]]) ELSE yielded[a]} ELSE Int

\* Intervals at the places S follow one another without a gap, from cons to
\* one of the points in sent.
Chain(S, F, T, cons, sent) ==
  /\ \A i \in S : (\A k \in S : i <= k) => F[i] = cons
  /\ \A i \in S : (\A k \in S : k <= i) => T[i] \in sent
  /\ \A i, j \in S : i < j /\ (\A k \in S : k <= i \/ j <= k) => F[j] = T[i]
  /\ S = {} => cons \in sent

\* The batches of one actor in BatchCh follow one another without a gap, from
\* what the consumer has to what the actor has sent.
ChainInv == \A a \in Actors : Chain(Places(a), Starts, Ends, Consumed(a), Sent(a))

\* All that holds of the rows on their way.
FlowInv == FillInv /\ ChanInv /\ ReadInv /\ ChainInv /\ InOrder

\* An actor in batchSend() has no error, and one that is past its operator has
\* sent its last batch.
SendInv ==
  /\ \A a \in Actors : apc[a] = "send" => aerr[a] = NoErr
  /\ \A a \in Actors : apc[a] \in {"last", "done"} => final[a]
  /\ \A a \in Actors : final[a] /\ aerr[a] = NoErr /\ apc[a] # "send" => abuf[a] = NoBuf

\* An actor sends all it has before its nil.
EndInv ==
  \A i \in DOMAIN batchCh :
    batchCh[i] # NoBuf /\ apc[Own(mem[batchCh[i]])] = "done"
      => \E j \in DOMAIN batchCh : i < j /\ batchCh[j] = NoBuf

\* BatchCh and the callback together hold no more than this.
LoadInv == Len(batchCh) + (IF cbuf = NoBuf THEN 0 ELSE 1) <= BatchChSize + 1

\* A chain stays one when its batches stay and more ends are allowed.
LEMMA ChainSame ==
  ASSUME NEW S, NEW F, NEW T, NEW cons, NEW sent, Chain(S, F, T, cons, sent),
         NEW F2, NEW T2, NEW sent2, sent \subseteq sent2,
         \A i \in S : F2[i] = F[i] /\ T2[i] = T[i]
  PROVE  Chain(S, F2, T2, cons, sent2) BY DEF Chain

\* The batch added ends the chain.
LEMMA ChainAdd ==
  ASSUME NEW n \in Nat, NEW S \in SUBSET (1..n), NEW F, NEW T, NEW cons, NEW F2, NEW T2,
         Chain(S, F, T, cons, {F2[n + 1]}),
         \A i \in S : F2[i] = F[i] /\ T2[i] = T[i]
  PROVE  Chain(S \cup {n + 1}, F2, T2, cons, {T2[n + 1]})
<1> DEFINE S2 == S \cup {n + 1}
<1>a. \A i \in S : i \in 1..n OBVIOUS
<1>0. \A i \in S : i \in Nat /\ i <= n BY <1>a
<1>1. ASSUME NEW i \in S2, \A k \in S2 : i <= k PROVE F2[i] = cons
 <2>1. CASE S = {} BY <1>1, <2>1 DEF Chain
 <2>2. CASE S # {}
  <3>0. PICK k \in S : TRUE BY <2>2
  <3>1. i # n + 1 BY <1>0, <1>1, <3>0
  <3>2. i \in S BY <3>1
  <3> QED BY <1>1, <3>2 DEF Chain
 <2> QED BY <2>1, <2>2
<1>2. ASSUME NEW i \in S2, \A k \in S2 : k <= i PROVE T2[i] \in {T2[n + 1]} BY <1>0, <1>2
<1>3. ASSUME NEW i \in S2, NEW j \in S2, i < j, \A k \in S2 : k <= i \/ j <= k
      PROVE  F2[j] = T2[i]
 <2>1. i \in S BY <1>0, <1>3
 <2>2. CASE j \in S BY <1>3, <2>1, <2>2 DEF Chain
 <2>3. CASE j = n + 1
  <3>1. \A k \in S : k <= i BY <1>0, <1>3, <2>3
  <3> QED BY <2>1, <2>3, <3>1 DEF Chain
 <2> QED BY <2>2, <2>3
<1> QED BY <1>1, <1>2, <1>3 DEF Chain

\* S2, F2 and T2 are S, F and T one place further to the front.
Shifted(n, S, F, T, S2, F2, T2) ==
  /\ n \in Nat /\ S \subseteq 1..n /\ S2 \subseteq 1..n
  /\ \A i \in 1..n : i \in S2 <=> i + 1 \in S
  /\ \A i \in S2 : F2[i] = F[i + 1] /\ T2[i] = T[i + 1]

\* What was in the first place is consumed, the rest of the chain follows it.
LEMMA ChainShift ==
  ASSUME NEW n, NEW S, NEW F, NEW T, NEW cons, NEW sent, NEW S2, NEW F2, NEW T2,
         Shifted(n, S, F, T, S2, F2, T2), Chain(S, F, T, cons, sent)
  PROVE  /\ 1 \in S => F[1] = cons
         /\ Chain(S2, F2, T2, IF 1 \in S THEN T[1] ELSE cons, sent)
<1> DEFINE cons2 == IF 1 \in S THEN T[1] ELSE cons
<1> USE DEF Shifted
<1>0. /\ \A i \in S : i \in 1..n
      /\ \A i \in S2 : i \in 1..n /\ i + 1 \in S
      /\ \A k \in S : k = 1 \/ (k - 1 \in S2 /\ (k - 1) + 1 = k) OBVIOUS
<1>1. 1 \in S => F[1] = cons BY <1>0 DEF Chain
<1>2. ASSUME NEW i \in S2, \A k \in S2 : i <= k PROVE F2[i] = cons2
 <2>1. CASE 1 \in S BY <1>0, <1>2, <2>1 DEF Chain
 <2>2. CASE 1 \notin S BY <1>0, <1>2, <2>2 DEF Chain
 <2> QED BY <2>1, <2>2
<1>3. ASSUME NEW i \in S2, \A k \in S2 : k <= i PROVE T2[i] \in sent BY <1>0, <1>3 DEF Chain
<1>4. ASSUME NEW i \in S2, NEW j \in S2, i < j, \A k \in S2 : k <= i \/ j <= k
      PROVE  F2[j] = T2[i] BY <1>0, <1>4 DEF Chain
<1>5. ASSUME S2 = {} PROVE cons2 \in sent
 <2>1. CASE 1 \in S
  <3>1. \A k \in S : k <= 1 BY <1>0, <1>5
  <3> QED BY <2>1, <3>1 DEF Chain
 <2>2. CASE 1 \notin S
  <3>1. S = {} BY <1>0, <1>5, <2>2
  <3> QED BY <2>2, <3>1 DEF Chain
 <2> QED BY <2>1, <2>2
<1>6. Chain(S2, F2, T2, cons2, sent) BY <1>2, <1>3, <1>4, <1>5 DEF Chain
<1> QED BY <1>1, <1>6

\* What a good batch is made of.
LEMMA BatchTypes ==
  ASSUME NEW rows \in Seq(Row), GoodBatch(rows)
  PROVE  /\ Len(rows) \in Nat \ {0} /\ Own(rows) \in Actors
         /\ From(rows) \in Nat /\ To(rows) \in Nat
<1>1. Len(rows) \in Nat /\ Len(rows) > 0 BY DEF GoodBatch
<1>2. rows[1] \in Row BY <1>1
<1>3. rows[1][1] \in Actors /\ rows[1][2] \in 1..NRows BY <1>2 DEF Row
<1> QED BY <1>1, <1>3, StageAssumption DEF Own, From, To

\* A batch of one row is good.
LEMMA BatchStart ==
  ASSUME NEW a, NEW n \in Nat
  PROVE  LET rows == <<<<a, n + 1>>>> IN
         GoodBatch(rows) /\ Own(rows) = a /\ From(rows) = n /\ To(rows) = n + 1 BY DEF GoodBatch, Own, From, To

\* ... and so is a batch with its actor's next row appended.
LEMMA BatchGrow ==
  ASSUME NEW rows \in Seq(Row), GoodBatch(rows)
  PROVE  LET more == Append(rows, <<Own(rows), To(rows) + 1>>) IN
         /\ GoodBatch(more) /\ Own(more) = Own(rows)
         /\ From(more) = From(rows) /\ To(more) = To(rows) + 1
<1> DEFINE row == <<Own(rows), To(rows) + 1>>
           more == Append(rows, row)
<1>1. Len(rows) \in Nat \ {0} /\ From(rows) \in Nat /\ To(rows) \in Nat BY BatchTypes
<1>2. /\ Len(more) = Len(rows) + 1
      /\ \A i \in 1..Len(rows) : more[i] = rows[i]
      /\ more[Len(rows) + 1] = row
 <2> HIDE DEF row
 <2> QED OBVIOUS
<1> HIDE DEF more
<1>3. more[1] = rows[1] BY <1>1, <1>2
<1>4. Own(more) = Own(rows) /\ From(more) = From(rows) BY <1>3 DEF Own, From
<1>5. To(more) = To(rows) + 1 BY <1>1, <1>2, <1>4 DEF To
<1>6. ASSUME NEW i \in 1..Len(more) PROVE more[i] = <<Own(more), From(more) + i>>
 <2>1. CASE i \in 1..Len(rows) BY <1>2, <1>4, <2>1 DEF GoodBatch
 <2>2. CASE i = Len(rows) + 1 BY <1>1, <1>2, <1>4, <2>2 DEF To
 <2> QED BY <1>1, <1>2, <2>1, <2>2
<1>7. GoodBatch(more) BY <1>1, <1>2, <1>6 DEF GoodBatch
<1> QED BY <1>4, <1>5, <1>7 DEF more

\* An actor past its operator, or in batchSend(), is as SendInv says.
LEMMA Sending == Spec => []SendInv
<1>1. Init => SendInv BY DEF Init, NewStage, SendInv
<1>2. TypeInv /\ SendInv /\ [Next]_vars => SendInv'
 <2> SUFFICES ASSUME TypeInv, SendInv, [Next]_vars PROVE SendInv' OBVIOUS
 <2> USE StageAssumption DEF TypeInv, TypeOK
 <2>1. ASSUME UNCHANGED <<apc, aerr, abuf, final>> PROVE SendInv' BY <2>1 DEF SendInv
 <2>2. ASSUME NEW a \in Actors, YieldVals(a) PROVE SendInv'
  <3>1. /\ aerr[a] = NoErr /\ final[a] = FALSE /\ apc'[a] \in {"send", "run"}
        /\ UNCHANGED <<aerr, final>> BY <2>2 DEF YieldVals, AfterAppend
  <3>2. \A c \in Actors : c # a => apc'[c] = apc[c] /\ abuf'[c] = abuf[c] BY <2>2 DEF YieldVals
  <3> QED BY <3>1, <3>2 DEF SendInv
 <2>3. ASSUME NEW a \in Actors, YieldErrNil(a) PROVE SendInv' BY <2>3 DEF YieldErrNil, HasLastBatch, SendInv
 <2>4. ASSUME NEW a \in Actors, YieldErr(a) PROVE SendInv' BY <2>4 DEF YieldErr, SendInv
 <2>5. ASSUME NEW a \in Actors, BatchSend(a) \/ BatchStop(a) PROVE SendInv'
  <3>1. /\ final' = final /\ aerr'[a] \in Errs /\ apc[a] = "send"
        /\ apc' = [apc EXCEPT ![a] = "run"] /\ abuf' = [abuf EXCEPT ![a] = NoBuf]
        /\ \A c \in Actors : c # a => aerr'[c] = aerr[c] BY <2>5 DEF BatchSend, BatchStop, ResetBatch, Errs
  <3>2. apc'[a] = "run" /\ abuf'[a] = NoBuf /\ \A c \in Actors : c # a => apc'[c] = apc[c] /\ abuf'[c] = abuf[c]
    BY <3>1
  <3> QED BY <3>1, <3>2 DEF SendInv
 <2>6. ASSUME NEW a \in Actors, ActorReturn(a) \/ SendLastNil(a) PROVE SendInv'
   BY <2>6 DEF ActorReturn, AfterOperator, SendLastNil, SendInv
 <2>7. ASSUME NEW a \in Actors, StartActor(a) \/ ActorReady(a) PROVE SendInv'
   BY <2>7 DEF StartActor, ActorReady, SendInv
 <2>8. ASSUME NEW a \in Actors, YieldValsDropped(a) PROVE SendInv' BY <2>1, <2>8 DEF YieldValsDropped
 <2>9. ASSUME Receive \/ YieldRow \/ RecycleAfterCallback \/ YieldStageErr \/ UNCHANGED vars
       PROVE  SendInv' BY <2>1, <2>9 DEF Receive, YieldRow, RecycleAfterCallback, YieldStageErr, vars, actorVars
 <2> QED BY <2>2, <2>3, <2>4, <2>5, <2>6, <2>7, <2>8, <2>9 DEF Next, ConsumerStep, ActorStep
<1> QED BY <1>1, <1>2, TypeInvariance, PTL DEF Spec

\* A step that leaves the channel, the callback and their batches alone only
\* has to account for the batches that the actors fill.
LEMMA FlowSame ==
  ASSUME FlowInv, UNCHANGED <<batchCh, cbuf, ci, out>>,
         \A i \in DOMAIN batchCh : batchCh[i] # NoBuf => mem'[batchCh[i]] = mem[batchCh[i]],
         cbuf # NoBuf => mem'[cbuf] = mem[cbuf],
         cpc' = "cb" <=> cpc = "cb",
         \A a \in Actors : Sent(a) \subseteq Sent(a)',
         FillInv'
  PROVE  FlowInv'
<1>1. ChanInv' BY DEF FlowInv, ChanInv
<1>2. ReadInv' BY DEF FlowInv, ReadInv
<1>3. InOrder' BY DEF FlowInv, InOrder
<1>4. ASSUME NEW a \in Actors PROVE Chain(Places(a), Starts, Ends, Consumed(a), Sent(a))'
 <2>1. Places(a)' = Places(a) BY DEF Places
 <2>2. Consumed(a)' = Consumed(a) BY DEF Consumed
 <2>3. \A i \in Places(a) : Starts'[i] = Starts[i] /\ Ends'[i] = Ends[i] BY DEF Places, Starts, Ends
 <2>4. Chain(Places(a), Starts, Ends, Consumed(a), Sent(a)) BY DEF FlowInv, ChainInv
 <2>5. Chain(Places(a), Starts', Ends', Consumed(a), Sent(a)') BY <2>3, <2>4, ChainSame
 <2> QED BY <2>1, <2>2, <2>5
<1> QED BY <1>1, <1>2, <1>3, <1>4 DEF FlowInv, ChainInv

\* YieldVals appends the next row to the actor's batch, or to one that is
\* nobody else's.
LEMMA FlowYieldVals ==
  ASSUME TypeInv, OneOwner, FlowInv, NEW a \in Actors, YieldVals(a) PROVE FlowInv'
<1> DEFINE row == <<a, yielded[a] + 1>>
<1>1. /\ aerr[a] = NoErr /\ yielded[a] \in Nat
      /\ yielded' = [yielded EXCEPT ![a] = @ + 1]
      /\ UNCHANGED <<aerr, batchCh, cbuf, ci, out, cpc>> BY StageAssumption DEF YieldVals, consVars, TypeInv, TypeOK
<1>2. \A c \in Actors : yielded'[c] = IF c = a THEN yielded[a] + 1 ELSE yielded[c] BY <1>1 DEF TypeInv, TypeOK
<1>3. PICK b \in Bufs :
        /\ \A c \in Actors : c # a => abuf[c] # b
        /\ \A i \in DOMAIN batchCh : batchCh[i] # b
        /\ cbuf # b
        /\ \A c \in Actors : abuf'[c] = IF c = a THEN b ELSE abuf[c]
        /\ \A x \in Bufs : x # b => mem'[x] = mem[x]
        /\ GoodBatch(mem'[b]) /\ Own(mem'[b]) = a /\ To(mem'[b]) = yielded[a] + 1
        /\ From(mem'[b]) = IF abuf[a] # NoBuf THEN From(mem[abuf[a]]) ELSE yielded[a]
 <2>1. CASE abuf[a] # NoBuf
  <3> DEFINE b == abuf[a]
  <3>1. b \in Bufs /\ mem[b] \in Seq(Row) BY <2>1 DEF TypeInv, TypeOK
  <3>2. /\ \A c \in Actors : c # a => abuf[c] # b
        /\ \A i \in DOMAIN batchCh : batchCh[i] # b
        /\ cbuf # b BY <2>1 DEF OneOwner
  <3>3. mem' = [mem EXCEPT ![b] = Append(@, row)] /\ abuf' = abuf BY <2>1 DEF YieldVals
  <3>4. GoodBatch(mem[b]) /\ Own(mem[b]) = a /\ To(mem[b]) = yielded[a] BY <1>1, <2>1 DEF FlowInv, FillInv
  <3>5. mem'[b] = Append(mem[b], <<Own(mem[b]), To(mem[b]) + 1>>) /\ \A x \in Bufs : x # b => mem'[x] = mem[x]
    BY <3>1, <3>3, <3>4 DEF TypeInv, TypeOK
  <3>6. /\ GoodBatch(mem'[b]) /\ Own(mem'[b]) = a
        /\ From(mem'[b]) = From(mem[b]) /\ To(mem'[b]) = yielded[a] + 1 BY <3>1, <3>4, <3>5, BatchGrow
  <3>7. \A c \in Actors : abuf'[c] = IF c = a THEN b ELSE abuf[c] BY <3>3
  <3> HIDE DEF b
  <3>8. From(mem'[b]) = IF abuf[a] # NoBuf THEN From(mem[abuf[a]]) ELSE yielded[a] BY <2>1, <3>6 DEF b
  <3> QED BY <3>1, <3>2, <3>5, <3>6, <3>7, <3>8
 <2>2. CASE abuf[a] = NoBuf
  <3>1. PICK b \in Bufs :
          /\ AcquireBatch(b)
          /\ abuf' = [abuf EXCEPT ![a] = b]
          /\ mem' = [mem EXCEPT ![b] = <<row>>] BY <2>2 DEF YieldVals, FirstSlot
  <3>2. Unowned(b) BY <3>1, AcquireFresh
  <3>3. mem'[b] = <<<<a, yielded[a] + 1>>>> /\ \A x \in Bufs : x # b => mem'[x] = mem[x] BY <3>1 DEF TypeInv, TypeOK
  <3>4. /\ GoodBatch(mem'[b]) /\ Own(mem'[b]) = a
        /\ From(mem'[b]) = yielded[a] /\ To(mem'[b]) = yielded[a] + 1 BY <1>1, <3>3, BatchStart
  <3>5. \A c \in Actors : abuf'[c] = IF c = a THEN b ELSE abuf[c] BY <3>1 DEF TypeInv, TypeOK
  <3> QED BY <2>2, <3>2, <3>3, <3>4, <3>5 DEF Unowned
 <2> QED BY <2>1, <2>2
<1>4. /\ \A i \in DOMAIN batchCh : batchCh[i] # NoBuf => mem'[batchCh[i]] = mem[batchCh[i]]
      /\ cbuf # NoBuf => mem'[cbuf] = mem[cbuf]
      /\ \A c \in Actors : c # a /\ abuf[c] # NoBuf => mem'[abuf[c]] = mem[abuf[c]]
  BY <1>3 DEF TypeInv, TypeOK
<1>5. FillInv' BY <1>1, <1>2, <1>3, <1>4 DEF FlowInv, FillInv
<1>6. b # NoBuf BY StageAssumption
<1>7. \A c \in Actors : Sent(c) \subseteq Sent(c)' BY <1>1, <1>2, <1>3, <1>4, <1>6 DEF Sent
<1> QED BY <1>1, <1>4, <1>5, <1>7, FlowSame

\* What an actor has sent ends at a number.
LEMMA SentInt ==
  ASSUME TypeInv, FlowInv, NEW a \in Actors PROVE Sent(a) \subseteq Int
<1>1. yielded[a] \in Int BY StageAssumption DEF TypeInv, TypeOK
<1>2. abuf[a] # NoBuf => From(mem[abuf[a]]) \in Int BY BatchTypes DEF TypeInv, TypeOK, FlowInv, FillInv
<1> QED BY <1>1, <1>2 DEF Sent

\* An actor that fails may have sent any part of its rows; the batch it gives
\* up is not missed.
LEMMA FlowFail ==
  ASSUME TypeInv, FlowInv, NEW a \in Actors, aerr'[a] # NoErr,
         UNCHANGED <<mem, batchCh, cbuf, ci, out, cpc>>,
         abuf'[a] \in {abuf[a], NoBuf},
         \A c \in Actors : c # a => /\ aerr'[c] = aerr[c] /\ abuf'[c] = abuf[c]
                                    /\ yielded'[c] = yielded[c]
  PROVE  FlowInv'
<1>1. FillInv' BY DEF FlowInv, FillInv
<1>2. ASSUME NEW c \in Actors PROVE Sent(c) \subseteq Sent(c)'
 <2>1. CASE c = a BY <2>1, SentInt DEF Sent
 <2>2. CASE c # a BY <2>2 DEF Sent
 <2> QED BY <2>1, <2>2
<1> QED BY <1>1, <1>2, FlowSame

\* A batch sent is added at the end of the actor's chain.
LEMMA FlowBatchSend ==
  ASSUME TypeInv, SendInv, FlowInv, NEW a \in Actors, BatchSend(a) PROVE FlowInv'
<1> DEFINE b == abuf[a]
           n == Len(batchCh)
<1>1. /\ batchCh' = Append(batchCh, b) /\ abuf' = [abuf EXCEPT ![a] = NoBuf]
      /\ UNCHANGED <<aerr, yielded, mem, cbuf, ci, out, cpc>> BY DEF BatchSend, ResetBatch, consVars
<1>2. /\ b \in Bufs /\ b # NoBuf /\ aerr[a] = NoErr
      /\ GoodBatch(mem[b]) /\ Own(mem[b]) = a /\ To(mem[b]) = yielded[a]
  BY DEF BatchSend, TypeInv, TypeOK, BufInv, SendInv, FlowInv, FillInv
<1>3. n \in Nat /\ DOMAIN batchCh = 1..n BY DEF TypeInv, TypeOK
<1>4. /\ DOMAIN batchCh' = 1..(n + 1)
      /\ \A i \in 1..n : batchCh'[i] = batchCh[i]
      /\ batchCh'[n + 1] = b BY <1>1, <1>2 DEF TypeInv, TypeOK
<1>5. \A c \in Actors : abuf'[c] = IF c = a THEN NoBuf ELSE abuf[c] BY <1>1 DEF TypeInv, TypeOK
<1> HIDE DEF b, n
<1>6. \A i \in 1..(n + 1) : i \in 1..n \/ i = n + 1 BY <1>3
<1>7. FillInv' /\ ReadInv' /\ InOrder' BY <1>1, <1>5 DEF FlowInv, FillInv, ReadInv, InOrder
<1>8. ChanInv' BY <1>1, <1>2, <1>3, <1>4, <1>6 DEF FlowInv, ChanInv
<1>9. ASSUME NEW c \in Actors PROVE Chain(Places(c), Starts, Ends, Consumed(c), Sent(c))'
 <2>1. Chain(Places(c), Starts, Ends, Consumed(c), Sent(c)) BY DEF FlowInv, ChainInv
 <2>2. Consumed(c)' = Consumed(c) BY <1>1 DEF Consumed
 <2>3. Places(c) \in SUBSET (1..n) BY <1>3 DEF Places
 <2>4. \A i \in 1..n : Starts'[i] = Starts[i] /\ Ends'[i] = Ends[i]
  <3> SUFFICES ASSUME NEW i \in 1..n PROVE Starts'[i] = Starts[i] /\ Ends'[i] = Ends[i] OBVIOUS
  <3>1. i \in 1..(n + 1) BY <1>3
  <3> QED BY <1>1, <1>3, <1>4, <3>1 DEF Starts, Ends
 <2>5. CASE c = a
  <3>1. Places(c)' = Places(c) \cup {n + 1} BY <1>1, <1>2, <1>3, <1>4, <1>6, <2>5, <2>3 DEF Places
  <3>2. n + 1 \in DOMAIN batchCh' BY <1>3, <1>4
  <3>3. Starts'[n + 1] = From(mem[b]) /\ Ends'[n + 1] = To(mem[b]) BY <1>1, <1>4, <3>2 DEF Starts, Ends
  <3>4. Sent(c) = {Starts'[n + 1]} BY <1>2, <2>5, <3>3 DEF Sent, b
  <3>5. Sent(c)' = {Ends'[n + 1]} BY <1>1, <1>2, <1>5, <2>5, <3>3 DEF Sent
  <3>6. Chain(Places(c) \cup {n + 1}, Starts', Ends', Consumed(c), {Ends'[n + 1]})
    BY <1>3, <2>1, <2>3, <2>4, <3>4, ChainAdd
  <3> QED BY <2>2, <3>1, <3>5, <3>6
 <2>6. CASE c # a
  <3>1. Places(c)' = Places(c) BY <1>1, <1>2, <1>3, <1>4, <1>6, <2>3, <2>6 DEF Places
  <3>2. Sent(c)' = Sent(c) BY <1>1, <1>5, <2>6 DEF Sent
  <3>3. Chain(Places(c), Starts', Ends', Consumed(c), Sent(c)) BY <2>1, <2>3, <2>4, ChainSame
  <3> QED BY <2>2, <3>1, <3>2, <3>3
 <2> QED BY <2>5, <2>6
<1> QED BY <1>7, <1>8, <1>9 DEF FlowInv, ChainInv

\* A nil is no batch of anyone.
LEMMA FlowSendLastNil ==
  ASSUME TypeInv, FlowInv, NEW a \in Actors, SendLastNil(a) PROVE FlowInv'
<1> DEFINE n == Len(batchCh)
<1>1. /\ batchCh' = Append(batchCh, NoBuf)
      /\ UNCHANGED <<aerr, abuf, yielded, mem, cbuf, ci, out, cpc>> BY DEF SendLastNil, consVars
<1>3. n \in Nat /\ DOMAIN batchCh = 1..n BY DEF TypeInv, TypeOK
<1>4. /\ DOMAIN batchCh' = 1..(n + 1)
      /\ \A i \in 1..n : batchCh'[i] = batchCh[i]
      /\ batchCh'[n + 1] = NoBuf BY <1>1 DEF TypeInv, TypeOK
<1> HIDE DEF n
<1>6. \A i \in 1..(n + 1) : i \in 1..n \/ i = n + 1 BY <1>3
<1>7. FillInv' /\ ReadInv' /\ InOrder' BY <1>1 DEF FlowInv, FillInv, ReadInv, InOrder
<1>8. ChanInv' BY <1>1, <1>3, <1>4, <1>6 DEF FlowInv, ChanInv
<1>9. ASSUME NEW c \in Actors PROVE Chain(Places(c), Starts, Ends, Consumed(c), Sent(c))'
 <2>1. Chain(Places(c), Starts, Ends, Consumed(c), Sent(c)) BY DEF FlowInv, ChainInv
 <2>2. Consumed(c)' = Consumed(c) /\ Sent(c)' = Sent(c) BY <1>1 DEF Consumed, Sent
 <2>3. Places(c) \in SUBSET (1..n) BY <1>3 DEF Places
 <2>4. \A i \in 1..n : Starts'[i] = Starts[i] /\ Ends'[i] = Ends[i]
  <3> SUFFICES ASSUME NEW i \in 1..n PROVE Starts'[i] = Starts[i] /\ Ends'[i] = Ends[i] OBVIOUS
  <3>1. i \in 1..(n + 1) BY <1>3
  <3> QED BY <1>1, <1>3, <1>4, <3>1 DEF Starts, Ends
 <2>5. Places(c)' = Places(c) BY <1>1, <1>3, <1>4, <1>6, <2>3 DEF Places
 <2>6. Chain(Places(c), Starts', Ends', Consumed(c), Sent(c)) BY <2>1, <2>3, <2>4, ChainSame
 <2> QED BY <2>2, <2>5, <2>6
<1> QED BY <1>7, <1>8, <1>9 DEF FlowInv, ChainInv

\* A receive takes the first place of BatchCh; a batch found there starts
\* where the rows yielded downstream end.
LEMMA FlowReceive ==
  ASSUME TypeInv, FlowInv, Receive PROVE FlowInv'
<1> DEFINE n == Len(batchCh)
           h == batchCh[1]
<1>1. /\ batchCh \in Seq(Bufs \cup {NoBuf}) /\ batchCh # <<>> /\ batchCh' = Tail(batchCh)
      /\ UNCHANGED <<aerr, abuf, yielded, mem, out>> BY DEF Receive, actorVars, TypeInv, TypeOK
<1>2. /\ n \in Nat /\ DOMAIN batchCh = 1..n /\ 1 \in 1..n /\ h \in Bufs \cup {NoBuf}
      /\ DOMAIN batchCh' = 1..(n - 1)
      /\ \A i \in 1..(n - 1) : i \in 1..n /\ i + 1 \in 1..n /\ batchCh'[i] = batchCh[i + 1] BY <1>1
<1>3. /\ h = NoBuf => cbuf' = cbuf /\ ci' = ci /\ cpc' # "cb"
      /\ h # NoBuf => cbuf' = h /\ ci' = 0 /\ cpc' = "cb"
      /\ cbuf = NoBuf BY DEF Receive, FlowInv, ReadInv
<1> HIDE DEF n, h
<1>4. FillInv' /\ InOrder' BY <1>1 DEF FlowInv, FillInv, InOrder
<1>5. ChanInv' BY <1>1, <1>2 DEF FlowInv, ChanInv
<1>6. h # NoBuf => GoodBatch(mem[h]) BY <1>2 DEF FlowInv, ChanInv, h
<1>7. ASSUME NEW a \in Actors
      PROVE  /\ 1 \in Places(a) => From(mem[h]) = Len(out[a])
             /\ Chain(Places(a), Starts, Ends, Consumed(a), Sent(a))'
 <2>1. Chain(Places(a), Starts, Ends, Consumed(a), Sent(a)) BY DEF FlowInv, ChainInv
 <2>2. Places(a) \in SUBSET (1..n) BY <1>2 DEF Places
 <2>3. Places(a)' \subseteq 1..(n - 1) BY <1>2 DEF Places
 <2>4. Places(a)' \in SUBSET (1..n) BY <1>2, <2>3
 <2>5. \A i \in 1..(n - 1) : i \in Places(a)' <=> i + 1 \in Places(a) BY <1>1, <1>2 DEF Places
 <2>6. \A i \in 1..n : i \in Places(a)' <=> i + 1 \in Places(a)
  <3> SUFFICES ASSUME NEW i \in 1..n PROVE i \in Places(a)' <=> i + 1 \in Places(a) OBVIOUS
  <3>1. CASE i \in 1..(n - 1) BY <2>5, <3>1
  <3>2. CASE i \notin 1..(n - 1)
   <4>1. i + 1 \notin 1..n BY <1>2, <3>2
   <4> QED BY <2>2, <2>3, <3>2, <4>1
  <3> QED BY <3>1, <3>2
 <2>7. \A i \in 1..(n - 1) : Starts'[i] = Starts[i + 1] /\ Ends'[i] = Ends[i + 1] BY <1>1, <1>2 DEF Starts, Ends
 <2>8. Starts[1] = From(mem[h]) /\ Ends[1] = To(mem[h]) BY <1>2 DEF Starts, Ends, h
 <2>9. 1 \in Places(a) <=> h # NoBuf /\ Own(mem[h]) = a BY <1>2 DEF Places, h
 <2>10. Consumed(a) = Len(out[a]) BY <1>3 DEF Consumed
 <2>11. Consumed(a)' = IF 1 \in Places(a) THEN Ends[1] ELSE Consumed(a) BY <1>1, <1>3, <2>8, <2>9, <2>10 DEF Consumed
 <2>12. Sent(a)' = Sent(a) BY <1>1 DEF Sent
 <2>13. \A i \in Places(a)' : Starts'[i] = Starts[i + 1] /\ Ends'[i] = Ends[i + 1] BY <2>3, <2>7
 <2>14. /\ 1 \in Places(a) => Starts[1] = Consumed(a)
        /\ Chain(Places(a)', Starts', Ends', Consumed(a)', Sent(a))
  <3>1. Shifted(n, Places(a), Starts, Ends, Places(a)', Starts', Ends') BY <1>2, <2>2, <2>4, <2>6, <2>13 DEF Shifted
  <3>2. /\ 1 \in Places(a) => Starts[1] = Consumed(a)
        /\ Chain(Places(a)', Starts', Ends', IF 1 \in Places(a) THEN Ends[1] ELSE Consumed(a), Sent(a))
    BY <2>1, <3>1, ChainShift
  <3> QED BY <2>11, <3>2
 <2> QED BY <2>8, <2>10, <2>12, <2>14
<1>8. ReadInv'
 <2>1. CASE h = NoBuf BY <1>3, <2>1 DEF ReadInv
 <2>2. CASE h # NoBuf
  <3>1. h \in Bufs /\ mem[h] \in Seq(Row) BY <1>2, <2>2 DEF TypeInv, TypeOK
  <3>2. Len(mem[h]) \in Nat /\ Own(mem[h]) \in Actors /\ From(mem[h]) \in Nat BY <1>6, <2>2, <3>1, BatchTypes
  <3>3. 1 \in Places(Own(mem[h])) BY <1>2, <2>2 DEF Places, h
  <3>4. From(mem[h]) = Len(out[Own(mem[h])]) BY <1>7, <3>2, <3>3
  <3> QED BY <1>1, <1>3, <1>6, <2>2, <3>2, <3>4 DEF ReadInv
 <2> QED BY <2>1, <2>2
<1> QED BY <1>4, <1>5, <1>7, <1>8 DEF FlowInv, ChainInv

\* The row yielded downstream is the next one of its actor.
LEMMA FlowYieldRow ==
  ASSUME TypeInv, FlowInv, YieldRow PROVE FlowInv'
<1> DEFINE rows == mem[cbuf]
           w == Own(rows)
<1>1. cbuf # NoBuf /\ rows \in Seq(Row) BY DEF YieldRow, TypeInv, TypeOK, BufInv
<1>2. GoodBatch(rows) /\ ci \in Nat /\ ci < Len(rows) /\ Len(out[w]) = From(rows) + ci
  BY <1>1 DEF YieldRow, FlowInv, ReadInv, TypeInv, TypeOK
<1>3. Len(rows) \in Nat /\ w \in Actors /\ From(rows) \in Nat BY <1>1, <1>2, BatchTypes
<1>4. rows[ci + 1] = <<w, From(rows) + (ci + 1)>>
 <2>1. ci + 1 \in 1..Len(rows) BY <1>2, <1>3
 <2> QED BY <1>2, <2>1 DEF GoodBatch
<1>5. /\ out' = [out EXCEPT ![w] = Append(@, From(rows) + (ci + 1))] /\ ci' = ci + 1
      /\ UNCHANGED <<aerr, abuf, yielded, mem, batchCh, cbuf, cpc>> BY <1>4 DEF YieldRow, actorVars, stageVars
<1> DEFINE o == out[w]
           m == From(rows) + (ci + 1)
<1>6. /\ o \in Seq(1..NRows) /\ Len(o) \in Nat
      /\ o = [i \in 1..Len(o) |-> i]
      /\ m = Len(o) + 1
 <2>1. o \in Seq(1..NRows) BY <1>3 DEF TypeInv, TypeOK
 <2>2. o = [i \in 1..Len(o) |-> i] BY <1>3 DEF FlowInv, InOrder
 <2>3. m = Len(o) + 1 BY <1>2, <1>3
 <2> QED BY <2>1, <2>2, <2>3
<1>7. out'[w] = Append(o, m) /\ \A c \in Actors : c # w => out'[c] = out[c] BY <1>3, <1>5 DEF TypeInv, TypeOK
<1>8. out'[w] = [i \in 1..Len(out'[w]) |-> i] /\ Len(out'[w]) = m
 <2> HIDE DEF o, m
 <2>1. /\ Append(o, m) \in Seq(Nat) /\ Len(Append(o, m)) = m
       /\ \A i \in 1..Len(o) : Append(o, m)[i] = o[i]
       /\ Append(o, m)[m] = m BY <1>6, AppendProperties
 <2>2. \A i \in 1..m : Append(o, m)[i] = i BY <1>6, <2>1
 <2>3. Append(o, m) = [i \in 1..m |-> i]
  <3> DEFINE s == Append(o, m)
  <3> HIDE DEF s
  <3>1. s \in Seq(Nat) /\ Len(s) = m /\ \A i \in 1..m : s[i] = i BY <2>1, <2>2 DEF s
  <3>2. s \in [1..m -> Nat] BY <3>1
  <3>3. s = [i \in 1..m |-> i] BY <3>1, <3>2
  <3> QED BY <3>3 DEF s
 <2> QED BY <1>7, <2>1, <2>3
<1>9. InOrder' BY <1>7, <1>8 DEF FlowInv, InOrder
<1>10. FillInv' /\ ChanInv' BY <1>5 DEF FlowInv, FillInv, ChanInv
<1>11. ReadInv' BY <1>2, <1>3, <1>5, <1>8 DEF FlowInv, ReadInv
<1>12. ASSUME NEW a \in Actors PROVE Chain(Places(a), Starts, Ends, Consumed(a), Sent(a))'
  BY <1>1, <1>5, <1>7, <1>12 DEF FlowInv, ChainInv, Consumed, Places, Starts, Ends, Sent
<1> QED BY <1>9, <1>10, <1>11, <1>12 DEF FlowInv, ChainInv

\* A batch goes back to the pool when its last row is out.
LEMMA FlowRecycle ==
  ASSUME TypeInv, FlowInv, RecycleAfterCallback PROVE FlowInv'
<1>1. /\ cbuf # NoBuf /\ cbuf' = NoBuf /\ cpc' = "recv" /\ ci = Len(mem[cbuf])
      /\ UNCHANGED <<aerr, abuf, yielded, mem, batchCh, out>> BY DEF RecycleAfterCallback, actorVars, TypeInv, BufInv
<1>2. Len(out[Own(mem[cbuf])]) = To(mem[cbuf]) BY <1>1 DEF FlowInv, ReadInv, To
<1>3. FillInv' /\ ChanInv' /\ ReadInv' /\ InOrder' BY <1>1 DEF FlowInv, FillInv, ChanInv, ReadInv, InOrder
<1>4. ASSUME NEW a \in Actors PROVE Chain(Places(a), Starts, Ends, Consumed(a), Sent(a))'
  BY <1>1, <1>2, <1>4 DEF FlowInv, ChainInv, Consumed, Places, Starts, Ends, Sent
<1> QED BY <1>3, <1>4 DEF FlowInv, ChainInv

\* The rows on their way are always in order and without a gap.
LEMMA Flow == Spec => []FlowInv
<1>1. Init => FlowInv
 <2> SUFFICES ASSUME Init PROVE FlowInv OBVIOUS
 <2>1. /\ \A a \in Actors : abuf[a] = NoBuf /\ aerr[a] = NoErr /\ yielded[a] = 0 /\ out[a] = <<>>
       /\ batchCh = <<>> /\ cbuf = NoBuf /\ cpc = "start" BY DEF Init, NewStage
 <2>2. DOMAIN batchCh = {} /\ Len(<<>>) = 0 /\ <<>> = [i \in 1..0 |-> i] BY <2>1
 <2>3. FillInv /\ ChanInv /\ ReadInv /\ InOrder BY <2>1, <2>2 DEF FillInv, ChanInv, ReadInv, InOrder
 <2>4. \A a \in Actors : Places(a) = {} /\ Consumed(a) = 0 /\ Sent(a) = {0} BY <2>1, <2>2 DEF Places, Consumed, Sent
 <2>5. ChainInv BY <2>4 DEF ChainInv, Chain
 <2> QED BY <2>3, <2>5 DEF FlowInv
<1>2. TypeInv /\ OneOwner /\ ErrInv /\ SendInv /\ FlowInv /\ [Next]_vars => FlowInv'
 <2> SUFFICES ASSUME TypeInv, OneOwner, ErrInv, SendInv, FlowInv, [Next]_vars PROVE FlowInv' OBVIOUS
 <2>1. ASSUME UNCHANGED <<aerr, abuf, yielded, mem, batchCh, cbuf, ci, out>>,
              cpc' = "cb" <=> cpc = "cb"
       PROVE  FlowInv' BY <2>1, FlowSame DEF FlowInv, FillInv, Sent
 <2>2. ASSUME NEW a \in Actors, YieldVals(a) PROVE FlowInv' BY <2>2, FlowYieldVals
 <2>3. ASSUME NEW a \in Actors, YieldValsDropped(a) PROVE FlowInv'
   BY <2>3, FlowFail DEF YieldValsDropped, stageVars, consVars, TypeInv, TypeOK
 <2>4. ASSUME NEW a \in Actors, YieldErr(a) PROVE FlowInv'
   BY <2>4, FlowFail, StageAssumption DEF YieldErr, consVars, TypeInv, TypeOK
 <2>5. ASSUME NEW a \in Actors, BatchStop(a) PROVE FlowInv'
   BY <2>5, FlowFail DEF BatchStop, ResetBatch, ErrInv, stageVars, consVars, TypeInv, TypeOK
 <2>6. ASSUME NEW a \in Actors, BatchSend(a) PROVE FlowInv' BY <2>6, FlowBatchSend
 <2>7. ASSUME NEW a \in Actors, SendLastNil(a) PROVE FlowInv' BY <2>7, FlowSendLastNil
 <2>8. ASSUME NEW a \in Actors, StartActor(a) \/ ActorReady(a) \/ YieldErrNil(a) \/ ActorReturn(a)
       PROVE  FlowInv' BY <2>1, <2>8 DEF StartActor, ActorReady, CanMeet, YieldErrNil, ActorReturn, stageVars, consVars
 <2>9. ASSUME YieldStageErr \/ UNCHANGED vars PROVE FlowInv'
   BY <2>1, <2>9 DEF YieldStageErr, vars, actorVars, stageVars, consVars
 <2>10. ASSUME Receive \/ YieldRow \/ RecycleAfterCallback PROVE FlowInv'
   BY <2>10, FlowReceive, FlowYieldRow, FlowRecycle
 <2> QED BY <2>2, <2>3, <2>4, <2>5, <2>6, <2>7, <2>8, <2>9, <2>10 DEF Next, ConsumerStep, ActorStep
<1> QED BY <1>1, <1>2, TypeInvariance, Ownership, ErrorFlow, Sending, PTL DEF Spec

\* Batches in BatchCh are not written to by an actor's YieldVals.
LEMMA ChanKept ==
  ASSUME TypeInv, OneOwner, NEW a \in Actors, YieldVals(a)
  PROVE  \A i \in DOMAIN batchCh : batchCh[i] # NoBuf => mem'[batchCh[i]] = mem[batchCh[i]]
<1>1. CASE abuf[a] # NoBuf BY <1>1 DEF YieldVals, OneOwner, TypeInv, TypeOK
<1>2. CASE abuf[a] = NoBuf
 <2>1. PICK b \in Bufs : AcquireBatch(b) /\ mem' = [mem EXCEPT ![b] = <<<<a, yielded[a] + 1>>>>]
   BY <1>2 DEF YieldVals, FirstSlot
 <2>2. \A i \in DOMAIN batchCh : batchCh[i] # b BY <2>1, AcquireFresh DEF Unowned
 <2> QED BY <2>1, <2>2 DEF TypeInv, TypeOK
<1> QED BY <1>1, <1>2

\* An actor's nil is behind all of its batches.
LEMMA Ending == Spec => []EndInv
<1>1. Init => EndInv BY DEF Init, NewStage, EndInv
<1>2. TypeInv /\ OneOwner /\ FlowInv /\ EndInv /\ [Next]_vars => EndInv'
 <2> SUFFICES ASSUME TypeInv, OneOwner, FlowInv, EndInv, [Next]_vars PROVE EndInv' OBVIOUS
 <2> DEFINE n == Len(batchCh)
 <2>1. n \in Nat /\ DOMAIN batchCh = 1..n BY DEF TypeInv, TypeOK
 <2>2. \A i \in DOMAIN batchCh : batchCh[i] # NoBuf => Own(mem[batchCh[i]]) \in Actors
   BY BatchTypes DEF TypeInv, TypeOK, FlowInv, ChanInv
 <2> HIDE DEF n
 <2>3. ASSUME UNCHANGED batchCh, \A c \in Actors : apc'[c] = "done" => apc[c] = "done",
              \A i \in DOMAIN batchCh : batchCh[i] # NoBuf => mem'[batchCh[i]] = mem[batchCh[i]]
       PROVE  EndInv' BY <2>2, <2>3 DEF EndInv
 <2>4. ASSUME NEW a \in Actors, YieldVals(a) PROVE EndInv'
   BY <2>4, <2>3, ChanKept DEF YieldVals, AfterAppend, TypeInv, TypeOK
 <2>5. ASSUME NEW a \in Actors,
              \/ StartActor(a) \/ ActorReady(a) \/ YieldValsDropped(a) \/ YieldErr(a)
              \/ YieldErrNil(a) \/ ActorReturn(a) \/ BatchStop(a)
       PROVE  EndInv'
   BY <2>5, <2>3 DEF StartActor, ActorReady, YieldValsDropped, YieldErr, YieldErrNil, ActorReturn,
      AfterOperator, BatchStop, stageVars, TypeInv, TypeOK
 <2>6. ASSUME YieldRow \/ RecycleAfterCallback \/ YieldStageErr \/ UNCHANGED vars PROVE EndInv'
   BY <2>3, <2>6 DEF YieldRow, RecycleAfterCallback, YieldStageErr, vars, actorVars, stageVars
 <2>7. ASSUME NEW a \in Actors, BatchSend(a) PROVE EndInv'
  <3>1. /\ batchCh' = Append(batchCh, abuf[a]) /\ UNCHANGED mem
        /\ abuf[a] \in Bufs /\ abuf[a] # NoBuf
        /\ apc' = [apc EXCEPT ![a] = "run"] BY <2>7 DEF BatchSend, TypeInv, TypeOK, BufInv
  <3>2. /\ DOMAIN batchCh' = 1..(n + 1)
        /\ \A i \in 1..n : batchCh'[i] = batchCh[i]
        /\ batchCh'[n + 1] = abuf[a] BY <3>1 DEF TypeInv, TypeOK, n
  <3>3. \A c \in Actors : apc'[c] = "done" => apc[c] = "done" /\ c # a BY <3>1 DEF TypeInv, TypeOK
  <3>4. Own(mem[abuf[a]]) = a BY <3>1 DEF FlowInv, FillInv
  <3> SUFFICES ASSUME NEW i \in 1..(n + 1), batchCh'[i] # NoBuf,
                      apc'[Own(mem[batchCh'[i]])] = "done"
               PROVE  \E j \in 1..(n + 1) : i < j /\ batchCh'[j] = NoBuf BY <3>1, <3>2 DEF EndInv
  <3>5. i # n + 1 BY <3>2, <3>3, <3>4
  <3>6. i \in 1..n BY <2>1, <3>5
  <3>7. apc[Own(mem[batchCh[i]])] = "done" /\ batchCh[i] # NoBuf BY <2>1, <2>2, <3>2, <3>3, <3>6
  <3>8. PICK j \in 1..n : i < j /\ batchCh[j] = NoBuf BY <2>1, <3>6, <3>7 DEF EndInv
  <3>9. j \in 1..(n + 1) /\ batchCh'[j] = NoBuf BY <2>1, <3>2, <3>8
  <3> QED BY <3>8, <3>9
 <2>8. ASSUME NEW a \in Actors, SendLastNil(a) PROVE EndInv'
  <3>1. batchCh' = Append(batchCh, NoBuf) BY <2>8 DEF SendLastNil
  <3>2. DOMAIN batchCh' = 1..(n + 1) /\ batchCh'[n + 1] = NoBuf BY <3>1 DEF TypeInv, TypeOK, n
  <3>3. \A i \in 1..(n + 1) : batchCh'[i] # NoBuf => i < n + 1 /\ n + 1 \in 1..(n + 1) BY <2>1, <3>2
  <3> QED BY <3>2, <3>3 DEF EndInv
 <2>9. ASSUME Receive PROVE EndInv'
  <3>1. /\ batchCh \in Seq(Bufs \cup {NoBuf}) /\ batchCh # <<>> /\ batchCh' = Tail(batchCh)
        /\ UNCHANGED <<apc, mem>> BY <2>9 DEF Receive, actorVars, TypeInv, TypeOK
  <3>2. /\ DOMAIN batchCh' = 1..(n - 1)
        /\ \A i \in 1..(n - 1) : i + 1 \in 1..n /\ batchCh'[i] = batchCh[i + 1] BY <3>1 DEF n
  <3> SUFFICES ASSUME NEW i \in 1..(n - 1), batchCh'[i] # NoBuf,
                      apc[Own(mem[batchCh'[i]])] = "done"
               PROVE  \E j \in 1..(n - 1) : i < j /\ batchCh'[j] = NoBuf BY <3>1, <3>2 DEF EndInv
  <3>3. PICK j \in 1..n : i + 1 < j /\ batchCh[j] = NoBuf BY <2>1, <3>2 DEF EndInv
  <3>4. j - 1 \in 1..(n - 1) /\ i < j - 1 /\ (j - 1) + 1 = j BY <2>1, <3>3
  <3>5. batchCh'[j - 1] = NoBuf BY <3>2, <3>3, <3>4
  <3> QED BY <3>4, <3>5
 <2> QED BY <2>4, <2>5, <2>6, <2>7, <2>8, <2>9 DEF Next, ConsumerStep, ActorStep
<1> QED BY <1>1, <1>2, TypeInvariance, Ownership, Flow, PTL DEF Spec

\* A consumer that reports no error has yielded every row.
LEMMA Completeness ==
  ASSUME TypeInv, CountInv, ErrInv, SendInv, FlowInv, EndInv PROVE Complete
<1> SUFFICES ASSUME cpc = "done", reported = NoErr, NEW a \in Actors
             PROVE  Len(out[a]) = yielded[a] BY DEF Complete
<1>1. \A c \in Actors : apc[c] = "done" /\ aerr[c] = NoErr BY AllFinished DEF ErrInv
<1>2. abuf[a] = NoBuf /\ cbuf = NoBuf BY <1>1 DEF SendInv, FlowInv, ReadInv
<1>3. Nils(batchCh) = {}
 <2>1. Finished = Actors BY <1>1 DEF Finished
 <2>2. IsFiniteSet(Nils(batchCh)) /\ Cardinality(Nils(batchCh)) \in Nat BY NilsAppend DEF TypeInv, TypeOK
 <2>3. Cardinality(Actors) \in Nat /\ nDone = Cardinality(Actors) BY StageAssumption, FS_CardinalityType DEF CountInv
 <2>4. Cardinality(Nils(batchCh)) = 0 BY <2>1, <2>2, <2>3 DEF CountInv
 <2> QED BY <2>2, <2>4, FS_EmptySet
<1>4. Places(a) = {} BY <1>1, <1>3 DEF Places, EndInv, Nils
<1>5. Consumed(a) \in Sent(a) BY <1>4 DEF FlowInv, ChainInv, Chain
<1> QED BY <1>1, <1>2, <1>5 DEF Consumed, Sent

-----------------------------------------------------------------------------
(* The buffers in use.                                                     *)

\* No more elements in a sequence than places.
LEMMA SeqSetSize ==
  ASSUME NEW S, NEW s \in Seq(S)
  PROVE  /\ IsFiniteSet(SeqSet(s)) /\ Cardinality(SeqSet(s)) \in Nat
         /\ Cardinality(SeqSet(s)) <= Len(s)
<1>1. /\ IsFiniteSet(1..Len(s)) /\ Cardinality(1..Len(s)) = Len(s)
      /\ Len(s) \in Nat /\ DOMAIN s = 1..Len(s) BY FS_Interval
<1>2. DOMAIN s = 1..Len(s) BY <1>1
<1>3. s \in [1..Len(s) -> SeqSet(s)] /\ \A t \in SeqSet(s) : \E i \in 1..Len(s) : s[i] = t BY <1>2 DEF SeqSet
<1>4. s \in Surjection(1..Len(s), SeqSet(s)) BY <1>3, Fun_IsSurj
<1> QED BY <1>1, <1>4, FS_Surjection, FS_CardinalityType

\* Finitely many buffers are held, and at most one per actor, per place of
\* BatchCh and in the callback while the pool is empty.
LEMMA HeldSize ==
  ASSUME NEW f \in [Actors -> Bufs \cup {NoBuf}], NEW ch \in Seq(Bufs \cup {NoBuf}),
         NEW cb \in Bufs \cup {NoBuf}, NEW rec \in Seq(Bufs)
  PROVE  LET A == {f[a] : a \in Actors}
             B == (A \cup SeqSet(ch) \cup SeqSet(rec) \cup {cb}) \ {NoBuf}
             C == (A \cup SeqSet(ch) \cup {cb}) \ {NoBuf}
         IN /\ IsFiniteSet(B) /\ Cardinality(B) \in Nat
            /\ IsFiniteSet(C) /\ Cardinality(C) \in Nat
            /\ Cardinality(C) <= Cardinality(Actors) + Len(ch) + (IF cb = NoBuf THEN 0 ELSE 1)
<1> DEFINE A == {f[a] : a \in Actors}
           AC == A \cup SeqSet(ch)
           ACR == AC \cup SeqSet(rec)
           B == (A \cup SeqSet(ch) \cup SeqSet(rec) \cup {cb}) \ {NoBuf}
           C == (A \cup SeqSet(ch) \cup {cb}) \ {NoBuf}
<1>1. /\ IsFiniteSet(A) /\ Cardinality(A) <= Cardinality(Actors)
      /\ Cardinality(A) \in Nat /\ Cardinality(Actors) \in Nat
 <2>1. IsFiniteSet(Actors) BY StageAssumption
 <2>2. f \in Surjection(Actors, A) BY Fun_IsSurj
 <2> QED BY <2>1, <2>2, FS_Surjection, FS_CardinalityType
<1>2. /\ IsFiniteSet(SeqSet(ch)) /\ Cardinality(SeqSet(ch)) \in Nat
      /\ Cardinality(SeqSet(ch)) <= Len(ch) /\ Len(ch) \in Nat /\ IsFiniteSet(SeqSet(rec)) BY SeqSetSize
<1> HIDE DEF A
<1>3. /\ IsFiniteSet(AC) /\ Cardinality(AC) \in Nat
      /\ Cardinality(AC) <= Cardinality(A) + Cardinality(SeqSet(ch))
 <2>1. /\ IsFiniteSet(AC)
       /\ Cardinality(AC) = Cardinality(A) + Cardinality(SeqSet(ch)) - Cardinality(A \cap SeqSet(ch))
   BY <1>1, <1>2, FS_Union
 <2>2. IsFiniteSet(A \cap SeqSet(ch)) /\ Cardinality(A \cap SeqSet(ch)) \in Nat
   BY <1>1, FS_Intersection, FS_CardinalityType
 <2> QED BY <1>1, <1>2, <2>1, <2>2, FS_CardinalityType
<1>4. IsFiniteSet(AC \cup SeqSet(rec)) BY <1>2, <1>3, FS_Union
<1> HIDE DEF AC, ACR
<1>5. IsFiniteSet(AC \cup {cb}) /\ Cardinality(AC \cup {cb}) \in Nat /\ Cardinality(AC \cup {cb}) <= Cardinality(AC) + 1
 <2>1. IsFiniteSet(AC \cup {cb}) BY <1>3, FS_AddElement
 <2>2. Cardinality(AC \cup {cb}) = IF cb \in AC THEN Cardinality(AC) ELSE Cardinality(AC) + 1 BY <1>3, FS_AddElement
 <2>3. Cardinality(AC \cup {cb}) <= Cardinality(AC) + 1 BY <1>3, <2>2
 <2> QED BY <2>1, <2>3, FS_CardinalityType
<1>6. IsFiniteSet(ACR \cup {cb}) BY <1>4, FS_AddElement DEF ACR
<1>7. IsFiniteSet(B) /\ Cardinality(B) \in Nat
 <2>1. B \in SUBSET (ACR \cup {cb}) BY DEF AC, ACR
 <2> QED BY <1>6, <2>1, FS_Subset, FS_CardinalityType
<1>8. C \in SUBSET (AC \cup {cb}) /\ (cb = NoBuf => C \in SUBSET AC) BY DEF AC
<1>9. IsFiniteSet(C) /\ Cardinality(C) \in Nat /\ Cardinality(C) <= Cardinality(AC) + (IF cb = NoBuf THEN 0 ELSE 1)
 <2>1. CASE cb = NoBuf
  <3>1. IsFiniteSet(C) /\ Cardinality(C) <= Cardinality(AC) BY <1>3, <1>8, <2>1, FS_Subset
  <3> HIDE DEF C
  <3> QED BY <1>3, <2>1, <3>1, FS_CardinalityType
 <2>2. CASE cb # NoBuf
  <3>1. IsFiniteSet(C) /\ Cardinality(C) <= Cardinality(AC \cup {cb}) BY <1>5, <1>8, FS_Subset
  <3>2. Cardinality(C) \in Nat BY <3>1, FS_CardinalityType
  <3> HIDE DEF C
  <3> QED BY <1>3, <1>5, <2>2, <3>1, <3>2
 <2> QED BY <2>1, <2>2
<1>10. Cardinality(C) <= Cardinality(Actors) + Len(ch) + (IF cb = NoBuf THEN 0 ELSE 1)
 <2> HIDE DEF C
 <2> QED BY <1>1, <1>2, <1>3, <1>9
<1> QED BY <1>7, <1>9, <1>10 DEF A

\* A send finds room in BatchCh, or a consumer that holds no batch.
LEMMA Load == Spec => []LoadInv
<1> USE StageAssumption
<1>1. Init => LoadInv BY DEF Init, NewStage, LoadInv
<1>2. TypeInv /\ FlowInv /\ LoadInv /\ [Next]_vars => LoadInv'
 <2> SUFFICES ASSUME TypeInv, FlowInv, LoadInv, [Next]_vars PROVE LoadInv' OBVIOUS
 <2> DEFINE n == Len(batchCh)
 <2>1. n \in Nat /\ BatchChSize \in Nat BY DEF TypeInv, TypeOK
 <2>2. ASSUME UNCHANGED <<batchCh, cbuf>> PROVE LoadInv' BY <2>2 DEF LoadInv
 <2>3. ASSUME NEW a \in Actors, BatchSend(a) \/ SendLastNil(a) PROVE LoadInv'
  <3>1. CanSend /\ UNCHANGED cbuf BY <2>3 DEF BatchSend, SendLastNil, consVars
  <3>2. Len(batchCh') = n + 1 BY <2>3, AppendProperties DEF TypeInv, TypeOK, BatchSend, SendLastNil
  <3>3. batchCh = <<>> => n = 0 OBVIOUS
  <3>4. cpc = "recv" => cbuf = NoBuf BY DEF FlowInv, ReadInv
  <3> HIDE DEF n
  <3>5. n < BatchChSize \/ (n = 0 /\ cbuf = NoBuf) BY <3>1, <3>3, <3>4 DEF CanSend, n
  <3> QED BY <2>1, <3>1, <3>2, <3>5 DEF LoadInv
 <2>4. ASSUME Receive PROVE LoadInv'
  <3>1. Len(batchCh') = n - 1 BY <2>4 DEF Receive, TypeInv, TypeOK
  <3>2. cbuf = NoBuf BY <2>4 DEF Receive, FlowInv, ReadInv
  <3> HIDE DEF n
  <3> QED BY <2>1, <3>1, <3>2 DEF LoadInv, n
 <2>5. ASSUME RecycleAfterCallback PROVE LoadInv' BY <2>5, <2>1 DEF RecycleAfterCallback, LoadInv
 <2>6. ASSUME NEW a \in Actors, YieldVals(a) PROVE LoadInv' BY <2>2, <2>6 DEF YieldVals, consVars
 <2>7. ASSUME NEW a \in Actors,
              \/ StartActor(a) \/ ActorReady(a) \/ YieldValsDropped(a) \/ YieldErr(a)
              \/ YieldErrNil(a) \/ ActorReturn(a) \/ BatchStop(a)
       PROVE  LoadInv'
   BY <2>2, <2>7 DEF StartActor, ActorReady, YieldValsDropped, YieldErr, YieldErrNil, ActorReturn,
                     BatchStop, stageVars, consVars
 <2>8. ASSUME YieldRow \/ YieldStageErr \/ UNCHANGED vars PROVE LoadInv'
   BY <2>2, <2>8 DEF YieldRow, YieldStageErr, vars, stageVars, consVars
 <2> QED BY <2>3, <2>4, <2>5, <2>6, <2>7, <2>8 DEF Next, ConsumerStep, ActorStep
<1> QED BY <1>1, <1>2, TypeInvariance, Flow, PTL DEF Spec

\* No step but an allocation adds to the buffers in use, and an allocation
\* happens only when the pool is empty.
LEMMA Bounded == Spec => []BuffersBounded
<1> USE StageAssumption
<1> DEFINE Bound == Cardinality(Actors) + BatchChSize + 1
<1>0. Cardinality(Actors) \in Nat /\ Bound \in Nat BY FS_CardinalityType
<1>1. Init => BuffersBounded
 <2> SUFFICES ASSUME Init PROVE BuffersBounded OBVIOUS
 <2>1. Held = {} BY DEF Init, NewStage, Held, SeqSet
 <2> QED BY <1>0, <2>1, FS_EmptySet DEF BuffersBounded
<1>2. TypeInv /\ TypeInv' /\ LoadInv' /\ BuffersBounded /\ [Next]_vars => BuffersBounded'
 <2> SUFFICES ASSUME TypeInv, TypeInv', LoadInv', BuffersBounded, [Next]_vars
              PROVE  BuffersBounded' OBVIOUS
 <2>0. batchCh \in Seq(Bufs \cup {NoBuf}) /\ recycled \in Seq(Bufs) BY DEF TypeInv, TypeOK
 <2>1. IsFiniteSet(Held) /\ Cardinality(Held) \in Nat BY HeldSize DEF TypeInv, TypeOK, Held
 <2>2. ASSUME Held' \subseteq Held PROVE BuffersBounded'
   BY <2>1, <2>2, FS_Subset, FS_CardinalityType, <1>0 DEF BuffersBounded
 <2>3. \A x : x \in Held <=> /\ x # NoBuf
                             /\ \/ \E a \in Actors : abuf[a] = x
                                \/ \E i \in DOMAIN batchCh : batchCh[i] = x
                                \/ \E i \in DOMAIN recycled : recycled[i] = x
                                \/ cbuf = x BY DEF Held, SeqSet
 <2>4. \A x : x \in Held' <=> /\ x # NoBuf
                              /\ \/ \E a \in Actors : abuf'[a] = x
                                 \/ \E i \in DOMAIN batchCh' : batchCh'[i] = x
                                 \/ \E i \in DOMAIN recycled' : recycled'[i] = x
                                 \/ cbuf' = x BY DEF Held, SeqSet
 <2>5. ASSUME UNCHANGED <<abuf, batchCh, recycled, cbuf>> PROVE BuffersBounded' BY <2>2, <2>3, <2>4, <2>5
 <2>6. ASSUME NEW a \in Actors, YieldVals(a) PROVE BuffersBounded'
  <3>1. UNCHANGED <<batchCh, cbuf>> BY <2>6 DEF YieldVals, consVars
  <3>2. CASE abuf[a] # NoBuf BY <2>5, <2>6, <3>1, <3>2 DEF YieldVals
  <3>3. CASE abuf[a] = NoBuf
   <4>1. PICK b \in Bufs : AcquireBatch(b) /\ abuf' = [abuf EXCEPT ![a] = b] BY <2>6, <3>3 DEF YieldVals
   <4>2. \A c \in Actors : abuf'[c] = IF c = a THEN b ELSE abuf[c] BY <4>1 DEF TypeInv, TypeOK
   <4>3. CASE recycled # <<>>
    <5>1. recycled \in Seq(Bufs) /\ Len(recycled) \in 1..Len(recycled) /\ DOMAIN recycled = 1..Len(recycled)
      BY <4>3 DEF TypeInv, TypeOK
    <5>2. b = recycled[Len(recycled)] /\ recycled' = SubSeq(recycled, 1, Len(recycled) - 1)
      BY <4>1, <4>3 DEF AcquireBatch
    <5>3. \A i \in DOMAIN recycled' : i \in DOMAIN recycled /\ recycled'[i] = recycled[i] BY <5>1, <5>2
    <5>4. b \in Held BY <2>3, <5>1, <5>2
    <5>5. Held' \subseteq Held BY <2>3, <2>4, <3>1, <4>2, <5>3, <5>4
    <5> QED BY <2>2, <5>5
   <4>4. CASE recycled = <<>>
    <5>1. recycled' = <<>> BY <4>1, <4>4 DEF AcquireBatch
    <5>2. SeqSet(recycled') = {} BY <5>1 DEF SeqSet
    <5> DEFINE C == ({abuf'[c] : c \in Actors} \cup SeqSet(batchCh') \cup {cbuf'}) \ {NoBuf}
    <5>3. Held' = C BY <5>2 DEF Held, SeqSet
    <5>4. /\ Cardinality(C) \in Nat
          /\ Cardinality(C) <= Cardinality(Actors) + Len(batchCh') + (IF cbuf' = NoBuf THEN 0 ELSE 1)
      BY HeldSize DEF TypeInv, TypeOK
    <5>5. Len(batchCh') \in Nat BY DEF TypeInv, TypeOK
    <5>6. Len(batchCh') + (IF cbuf' = NoBuf THEN 0 ELSE 1) <= BatchChSize + 1 BY DEF LoadInv
    <5> HIDE DEF C
    <5>7. Cardinality(C) <= Bound BY <1>0, <5>4, <5>5, <5>6
    <5> QED BY <5>3, <5>7 DEF BuffersBounded
   <4> QED BY <4>3, <4>4
  <3> QED BY <3>2, <3>3
 <2>7. ASSUME NEW a \in Actors, BatchSend(a) PROVE BuffersBounded'
  <3>1. /\ abuf' = [abuf EXCEPT ![a] = NoBuf] /\ UNCHANGED <<recycled, cbuf>>
        /\ batchCh' = Append(batchCh, abuf[a]) /\ abuf[a] \in Bufs \cup {NoBuf}
    BY <2>7 DEF BatchSend, ResetBatch, consVars, TypeInv, TypeOK
  <3>2. \A c \in Actors : abuf'[c] = IF c = a THEN NoBuf ELSE abuf[c] BY <3>1 DEF TypeInv, TypeOK
  <3>3. \A i \in DOMAIN batchCh' : batchCh'[i] = abuf[a] \/ (i \in DOMAIN batchCh /\ batchCh'[i] = batchCh[i])
    BY <2>0, <3>1
  <3> QED BY <2>2, <2>3, <2>4, <3>1, <3>2, <3>3
 <2>8. ASSUME NEW a \in Actors, SendLastNil(a) PROVE BuffersBounded'
  <3>1. UNCHANGED <<abuf, recycled, cbuf>> /\ batchCh' = Append(batchCh, NoBuf) BY <2>8 DEF SendLastNil, consVars
  <3>2. \A i \in DOMAIN batchCh' : batchCh'[i] = NoBuf \/ (i \in DOMAIN batchCh /\ batchCh'[i] = batchCh[i])
    BY <2>0, <3>1
  <3> QED BY <2>2, <2>3, <2>4, <3>1, <3>2
 <2>9. ASSUME NEW a \in Actors, BatchStop(a) PROVE BuffersBounded'
  <3>1. /\ abuf' = [abuf EXCEPT ![a] = NoBuf] /\ UNCHANGED <<batchCh, recycled, cbuf>>
    BY <2>9 DEF BatchStop, ResetBatch, stageVars, consVars
  <3>2. \A c \in Actors : abuf'[c] = IF c = a THEN NoBuf ELSE abuf[c] BY <3>1 DEF TypeInv, TypeOK
  <3> QED BY <2>2, <2>3, <2>4, <3>1, <3>2
 <2>10. ASSUME Receive PROVE BuffersBounded'
  <3>1. /\ batchCh \in Seq(Bufs \cup {NoBuf}) /\ batchCh # <<>> /\ batchCh' = Tail(batchCh)
        /\ UNCHANGED <<abuf, recycled>> /\ cbuf' \in {cbuf, batchCh[1]}
    BY <2>10 DEF Receive, RecycleReceived, actorVars, TypeInv, TypeOK
  <3>2. /\ 1 \in DOMAIN batchCh
        /\ \A i \in DOMAIN batchCh' : i + 1 \in DOMAIN batchCh /\ batchCh'[i] = batchCh[i + 1] BY <3>1
  <3> QED BY <2>2, <2>3, <2>4, <3>1, <3>2
 <2>11. ASSUME RecycleAfterCallback PROVE BuffersBounded'
  <3>1. /\ recycled' \in {recycled, Append(recycled, cbuf)} /\ cbuf' = NoBuf /\ cbuf \in Bufs
        /\ UNCHANGED <<abuf, batchCh>>
    BY <2>11 DEF RecycleAfterCallback, RecycleBatch, actorVars, TypeInv, TypeOK, BufInv
  <3>2. \A i \in DOMAIN recycled' : recycled'[i] = cbuf \/ (i \in DOMAIN recycled /\ recycled'[i] = recycled[i])
   <4>1. CASE recycled' = Append(recycled, cbuf) BY <2>0, <3>1, <4>1
   <4> QED BY <3>1, <4>1
  <3> QED BY <2>2, <2>3, <2>4, <3>1, <3>2
 <2>12. ASSUME NEW a \in Actors,
               \/ StartActor(a) \/ ActorReady(a) \/ YieldValsDropped(a)
               \/ YieldErr(a) \/ YieldErrNil(a) \/ ActorReturn(a)
        PROVE  BuffersBounded'
   BY <2>5, <2>12 DEF StartActor, ActorReady, YieldValsDropped, YieldErr, YieldErrNil,
                      ActorReturn, stageVars, consVars
 <2>13. ASSUME YieldRow \/ YieldStageErr \/ UNCHANGED vars PROVE BuffersBounded'
   BY <2>5, <2>13 DEF YieldRow, YieldStageErr, vars, actorVars, stageVars, consVars
 <2> QED BY <2>6, <2>7, <2>8, <2>9, <2>10, <2>11, <2>12, <2>13 DEF Next, ConsumerStep, ActorStep
<1> QED BY <1>1, <1>2, TypeInvariance, Load, PTL DEF Spec

\* Every actor's rows come out of the stage in the actor's order, without loss
\* in the middle or repetition, all of them when no error is reported, and
\* through a bounded number of batch buffers.
THEOREM Delivery == Spec => []RowsDelivered
<1>1. TypeInv /\ CountInv /\ ErrInv /\ SendInv /\ FlowInv /\ EndInv /\ BuffersBounded => RowsDelivered
  BY Completeness DEF RowsDelivered, FlowInv
<1> QED BY <1>1, TypeInvariance, Counting, ErrorFlow, Sending, Flow, Ending, Bounded, PTL
=============================================================================
