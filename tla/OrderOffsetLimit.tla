-------------------------- MODULE OrderOffsetLimit --------------------------
(***************************************************************************)
(* engine/op_order.go: ORDER BY, OFFSET and LIMIT.  With ORDER BY the rows *)
(* go into a max-heap that is kept at OFFSET + LIMIT rows and is sorted in *)
(* place at the end; without, they are counted through.                    *)
(*                                                                         *)
(* keys[i] is the tuple of sort keys of row i; 0 is MISSING, 1 is NULL and *)
(* other values follow in collation order.  The heap, a third-party store, *)
(* is a set of rows of which some greatest one is taken.                   *)
(***************************************************************************)
EXTENDS RowOps

VARIABLES
  olCfg,     \* [keys, dirs, offset, limit, fail]; dirs = <<>> without ORDER BY
  olPc,
  olI,       \* rows taken; without ORDER BY also lzExamined
  olHeap,
  olSorted,  \* the slots at the end of the heap that hold sorted rows
  olOut,
  olErr

orderVars == <<olCfg, olPc, olI, olHeap, olSorted, olOut, olErr>>

OrderInit(Cfgs) ==
  /\ olCfg \in Cfgs
  /\ olPc = "rows" /\ olI = 0
  /\ olHeap = {} /\ olSorted = <<>> /\ olOut = <<>> /\ olErr = FALSE

\* Mutant: the sum is not looked at for an overflow.
offsetPlusLimitWrapped == Wrap(olCfg.offset + olCfg.limit)

\* offset + limit, or MaxInt64 if it overflows.
offsetPlusLimit ==
  LET n == Wrap(olCfg.offset + olCfg.limit) IN IF n < 0 THEN MaxInt64 ELSE n

IsNullOrMissing(v) == v \in {0, 1}

\* MakeValsLessFunc, for one direction [asc, nulls]: -1, 0 or 1.  Explicit
\* NULLS FIRST or LAST places the null-ish values whatever the direction.
CompareBy(dir, a, b) ==
  IF dir.nulls # "natural" /\ IsNullOrMissing(a) # IsNullOrMissing(b)
  THEN IF IsNullOrMissing(a) = (dir.nulls = "first") THEN -1 ELSE 1
  ELSE IF a = b THEN 0 ELSE IF (a < b) = dir.asc THEN -1 ELSE 1

\* lzValsLessFunc: the first direction that tells the two apart decides.
ValsLess(ka, kb) ==
  \E d \in DOMAIN olCfg.dirs :
    /\ CompareBy(olCfg.dirs[d], ka[d], kb[d]) = -1
    /\ \A e \in 1..(d - 1) : CompareBy(olCfg.dirs[e], ka[e], kb[e]) = 0

RowLess(i, j) == ValsLess(olCfg.keys[i], olCfg.keys[j])
HeapMaxes(heap) == {r \in heap : \A q \in heap : ~RowLess(r, q)}

\* lzNeedPush: the heap is small, or empty, or the row is below its maximum.
NeedPush(i) ==
  Cardinality(olHeap) < offsetPlusLimit \/ olHeap = {} \/ \E m \in HeapMaxes(olHeap) : RowLess(i, m)

\* Mutant: the size before the push is compared.
HeapTooBigLate == Cardinality(olHeap) > offsetPlusLimit

\* After one more push the maximum is popped.
HeapTooBig == Cardinality(olHeap) + 1 > offsetPlusLimit

\* yieldVals with ORDER BY: push, and pop a maximum of a heap too big.
OrderPush ==
  LET i == olI + 1
      pushed == olHeap \cup {i}
  IN
  /\ olPc = "rows" /\ olCfg.dirs # <<>> /\ olI < Len(olCfg.keys)
  /\ olI' = i
  /\ IF ~NeedPush(i) THEN UNCHANGED olHeap
     ELSE IF HeapTooBig
          THEN \E m \in HeapMaxes(pushed) : olHeap' = pushed \ {m}
          ELSE olHeap' = pushed
  /\ UNCHANGED <<olCfg, olPc, olSorted, olOut, olErr>>

\* yieldVals without ORDER BY.
OrderPass ==
  /\ olPc = "rows" /\ olCfg.dirs = <<>> /\ olI < Len(olCfg.keys)
  /\ olI' = olI + 1
  /\ olOut' = IF olI >= olCfg.offset /\ olI < offsetPlusLimit THEN Append(olOut, olI + 1) ELSE olOut
  /\ UNCHANGED <<olCfg, olPc, olHeap, olSorted, olErr>>

\* yieldErr: with an error nothing is sorted or yielded.
OrderRowsEnd ==
  /\ olPc = "rows" /\ olI = Len(olCfg.keys)
  /\ olErr' = olCfg.fail
  /\ olPc' = IF olCfg.fail \/ olCfg.dirs = <<>> THEN "done" ELSE "sort"
  /\ UNCHANGED <<olCfg, olI, olHeap, olSorted, olOut>>

\* Sort(offset): the maximum moves to the front of the sorted slots, until
\* offset rows are left in the heap.
SortPop ==
  /\ olPc = "sort" /\ Cardinality(olHeap) > olCfg.offset
  /\ \E m \in HeapMaxes(olHeap) :
       /\ olHeap' = olHeap \ {m}
       /\ olSorted' = <<m>> \o olSorted
  /\ UNCHANGED <<olCfg, olPc, olI, olOut, olErr>>

\* The slots from offset on are yielded, limit of them at most.
OrderYield ==
  /\ olPc = "sort" /\ Cardinality(olHeap) <= olCfg.offset
  /\ olOut' = SubSeq(olSorted, 1, IF olCfg.limit < MaxInt64 THEN LeastOf({olCfg.limit, Len(olSorted)})
                                 ELSE Len(olSorted))
  /\ olPc' = "done"
  /\ UNCHANGED <<olCfg, olI, olHeap, olSorted, olErr>>

OrderNext == OrderPush \/ OrderPass \/ OrderRowsEnd \/ SortPop \/ OrderYield

OrderSpec(Cfgs) == OrderInit(Cfgs) /\ [][OrderNext]_orderVars

-----------------------------------------------------------------------------
(* Properties.                                                             *)

\* The number of rows that sort strictly before row i, and that do not sort
\* after it.
RankLow(i) == Cardinality({j \in DOMAIN olCfg.keys : RowLess(j, i)})
RankHigh(i) == Cardinality({j \in DOMAIN olCfg.keys : ~RowLess(i, j)})

\* The rows yielded are the slice that OFFSET and LIMIT cut out of a sorted
\* order of all rows: with ties, rows of mixed direction and explicit place
\* of NULLs, an OFFSET beyond the end, LIMIT 0 and OFFSET + LIMIT beyond
\* int64 (which no input has rows enough to reach).
OrderExact ==
  olPc = "done" /\ ~olErr =>
    LET n == Len(olCfg.keys)
        want == MostOf({0, LeastOf({olCfg.limit, n - olCfg.offset})})
    IN /\ Len(olOut) = want
       /\ Cardinality({olOut[p] : p \in DOMAIN olOut}) = want
       /\ \A p \in DOMAIN olOut :
            IF olCfg.dirs = <<>> THEN olOut[p] = olCfg.offset + p
            ELSE RankLow(olOut[p]) < olCfg.offset + p /\ olCfg.offset + p <= RankHigh(olOut[p])

\* The heap is bounded by OFFSET + LIMIT, not by the input.
OrderHeapBounded == Cardinality(olHeap) <= olCfg.offset + olCfg.limit

\* ORDER BY with OFFSET and LIMIT yields its slice out of a bounded heap
\* (OpOrderOffsetLimit).
OrderLimitExact == OrderExact /\ OrderHeapBounded
=============================================================================
