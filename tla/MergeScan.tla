----------------------------- MODULE MergeScan -----------------------------
(***************************************************************************)
(* engine/op_merge_scan.go: K sorted children presented as one stream in   *)
(* the order of an int64 key.  Three regimes: "concatenate" when the zone  *)
(* maps show disjoint ranges, a strict K-way "heap", and the watermarked   *)
(* merge of children that are only nearly sorted, which has a variant that *)
(* streams a single child.                                                 *)
(*                                                                         *)
(* Row <<c, i>> is the i-th row of child c and input[c][i] is its key; the *)
(* keyless rows that mergeParseKey rejects never reach the merge.  A child *)
(* is an OrderedStream: its rows in order, then perhaps its error.  The    *)
(* binary heaps are sets of which a least element is taken, ties being     *)
(* broken in any way.                                                      *)
(***************************************************************************)
EXTENDS RowOps

CONSTANT Regime   \* Params[1]: "concatenate", "heap" or "auto"

Int64 == MinInt64..MaxInt64

ASSUME MergeAssumption == Regime \in {"concatenate", "heap", "auto"}

\* A merge: its children and the parameters of the operator.
MergeConfigOK(cfg) ==
  /\ cfg.input \in Seq(Seq(Int64)) /\ cfg.input # <<>>
  /\ cfg.sortedness \in [DOMAIN cfg.input -> {"strict", "near", "none"}]
  /\ cfg.bounds \in [DOMAIN cfg.input -> 0..MaxInt64]
  /\ cfg.fails \subseteq DOMAIN cfg.input
  /\ cfg.policy \in {"error", "widen"}

VARIABLES
  input,       \* per child, the keys of its rows
  sortedness,  \* what each child is declared to be: "strict", "near", "none"
  bounds,      \* the declared disorder_bound of each child
  fails,       \* the children that end with an error
  zones,       \* per child, the zone map <<min_key, max_key>>, or none
  policy,      \* the late-record policy
  pc,
  pos,         \* rows of each child that the merge has consumed
  buf,         \* the reorder buffer
  effBound,    \* the effective disorder bound
  runningMax,  \* the largest key seen by the streaming variant
  wm,          \* the watermark that emitSafe was called with
  lastKey,
  emitted,
  out,         \* rows yielded downstream
  warned,      \* rows that a late-record warning was about
  err          \* execErr: "none", "order", "bound" or "child"

inVars  == <<input, sortedness, bounds, fails, zones, policy>>
mergeVars == <<inVars, pc, pos, buf, effBound, runningMax, wm, lastKey, emitted, out, warned, err>>

K == Len(input)
Children == DOMAIN input

Key(r) == input[r[1]][r[2]]
AllRows == UNION {{<<c, i>> : i \in DOMAIN input[c]} : c \in Children}

\* How far row r lies behind the largest key that its child yielded before.
Disorder(r) == MostOf({input[r[1]][i] : i \in 1..r[2]}) - Key(r)

\* a - b in int64 arithmetic.
Sub(a, b) == Wrap(a - b)

-----------------------------------------------------------------------------
(* MergeScanExec: the choice of a regime.                                  *)

\* A child that is not sorted needs the reorder buffer, in any regime.
mergeHasNear == \E c \in Children : sortedness[c] \in {"near", "none"}

\* The zone map of a child's actual keys; an empty child gives 0, 0.
ZoneOf(keys) ==
  LET S == {keys[i] : i \in DOMAIN keys} IN IF S = {} THEN <<0, 0>> ELSE <<LeastOf(S), MostOf(S)>>

MergeInit(Cfgs) ==
  /\ \E cfg \in Cfgs :
       /\ input = cfg.input /\ policy = cfg.policy /\ fails = cfg.fails
       /\ sortedness = cfg.sortedness /\ bounds = cfg.bounds
  /\ zones \in IF mergeHasNear THEN {<<>>}
               ELSE {<<>>, [c \in Children |-> <<0, 0>>], [c \in Children |-> ZoneOf(input[c])]}
  /\ pc = "choose"
  /\ pos = [c \in Children |-> 0]
  /\ buf = {} /\ out = <<>> /\ warned = {}
  /\ effBound = 0 /\ runningMax = MinInt64 /\ wm = MinInt64 /\ lastKey = 0
  /\ emitted = FALSE /\ err = "none"

\* "auto" proves max_key(child i) <= min_key(child i+1) from the zone maps.
mergeChooseRegime ==
  IF Regime # "auto" THEN Regime
  ELSE IF zones # <<>> /\ \A c \in 1..(K - 1) : zones[c][2] <= zones[c + 1][1]
       THEN "concatenate" ELSE "heap"

\* Mutant: the least bound of the near children.
mergeMinBound ==
  LET S == {bounds[c] : c \in {d \in Children : sortedness[d] # "strict"}} IN IF S = {} THEN 0 ELSE LeastOf(S)

\* The lag of the watermark: the largest bound of the near children.
mergeMaxBound == MostOf({0} \cup {bounds[c] : c \in {d \in Children : sortedness[d] # "strict"}})

MergeScanExec ==
  /\ pc = "choose"
  /\ pc' = CASE mergeHasNear /\ K = 1 -> "stream"
             [] mergeHasNear /\ K > 1 -> "kway"
             [] ~mergeHasNear -> mergeChooseRegime
  /\ effBound' = mergeMaxBound
  /\ UNCHANGED <<inVars, pos, buf, runningMax, wm, lastKey, emitted, out, warned, err>>

-----------------------------------------------------------------------------
(* What the regimes share.                                                 *)

Live == {c \in Children : pos[c] < Len(input[c])}
HeadKey(c) == input[c][pos[c] + 1]
HeadRow(c) == <<c, pos[c] + 1>>

Advance(c) == pos' = [pos EXCEPT ![c] = @ + 1]

\* The children that MergeHeap may have at its top.
Frontier == {c \in Live : \A d \in Live : HeadKey(c) <= HeadKey(d)}

\* Mutant: no tripwire.
OutOfOrderNever(k) == FALSE

\* The tripwire: key k lies below what was emitted last.
OutOfOrder(k) == emitted /\ k < lastKey

Yield(r) ==
  /\ out' = Append(out, r)
  /\ lastKey' = Key(r)
  /\ emitted' = TRUE

-----------------------------------------------------------------------------
(* mergeScanConcatenate: one child after the other.                        *)

Current == LeastOf({c \in Children : c \in Live} \cup {K + 1})

\* The first child that ends, with an error, before the current one.
FailedBefore == \E c \in fails : c < Current

ConcatenateYield ==
  /\ pc = "concatenate" /\ err = "none" /\ Current \in Children /\ ~FailedBefore
  /\ IF OutOfOrder(HeadKey(Current))
     THEN err' = "order" /\ UNCHANGED <<pos, out, lastKey, emitted>>
     ELSE Yield(HeadRow(Current)) /\ Advance(Current) /\ UNCHANGED err
  /\ UNCHANGED <<inVars, pc, buf, effBound, runningMax, wm, warned>>

\* A child's error, or the out-of-order error, breaks the loop.
ConcatenateEnd ==
  /\ pc = "concatenate"
  /\ err # "none" \/ FailedBefore \/ Current = K + 1
  /\ err' = IF err = "none" /\ FailedBefore THEN "child" ELSE err
  /\ pc' = "done"
  /\ UNCHANGED <<inVars, pos, buf, effBound, runningMax, wm, lastKey, emitted, out, warned>>

-----------------------------------------------------------------------------
(* mergeScanHeap: the strict K-way merge.                                  *)

HeapYield ==
  /\ pc = "heap" /\ err = "none" /\ Live # {}
  /\ \E c \in Frontier :
       IF OutOfOrder(HeadKey(c))
       THEN err' = "order" /\ UNCHANGED <<pos, out, lastKey, emitted>>
       ELSE Yield(HeadRow(c)) /\ Advance(c) /\ UNCHANGED err
  /\ UNCHANGED <<inVars, pc, buf, effBound, runningMax, wm, warned>>

HeapEnd ==
  /\ pc = "heap"
  /\ err # "none" \/ Live = {}
  /\ pc' = "release"
  /\ UNCHANGED <<inVars, pos, buf, effBound, runningMax, wm, lastKey, emitted, out, warned, err>>

-----------------------------------------------------------------------------
(* mergeScanWatermarked: the merge of nearly sorted children.              *)

\* Mutant: the disorder bound is subtracted twice.
LowerByTwice(k, bound) == MostOf({MinInt64, k - 2 * bound})

\* k - bound, which stays at MinInt64 where the subtraction underflows.
LowerBy(k, bound) ==
  LET d == Sub(k, bound) IN IF bound > 0 /\ d > k THEN MinInt64 ELSE d

\* A late row under "widen": the bound grows by what was seen of it.
Widen(k) ==
  LET grow == Sub(lastKey, k) IN IF grow > effBound THEN grow ELSE effBound

\* Bound validation when row r enters the reorder buffer.
Ingest(r, next) ==
  IF OutOfOrder(Key(r)) /\ policy = "error"
  THEN /\ err' = "bound"
       /\ pc' = "release"
       /\ UNCHANGED <<buf, effBound, warned>>
  ELSE /\ buf' = buf \cup {r}
       /\ pc' = next
       /\ IF OutOfOrder(Key(r))
          THEN /\ effBound' = Widen(Key(r))
               /\ warned' = warned \cup {r}
          ELSE UNCHANGED <<effBound, warned>>
       /\ UNCHANGED err

mergeWatermark(bound) ==
  LET live == {c \in Children : pos'[c] < Len(input[c])}
  IN IF live = {} THEN MaxInt64 ELSE LowerBy(LeastOf({input[c][pos'[c] + 1] : c \in live}), bound)

\* Pop the frontier child, validate its row, buffer it, and compute the new
\* watermark from the heads that are left.
KwayPop ==
  /\ pc = "kway" /\ Live # {}
  /\ \E c \in Frontier :
       /\ Advance(c)
       /\ Ingest(HeadRow(c), "emit")
       /\ wm' = mergeWatermark(effBound')
  /\ UNCHANGED <<inVars, runningMax, lastKey, emitted, out>>

\* mergeScanWatermarkedStream: a row of the only child arrives.
StreamArrive ==
  /\ pc = "stream" /\ Live # {}
  /\ runningMax' = MostOf({runningMax, HeadKey(1)})
  /\ wm' = LowerBy(runningMax', effBound)
  /\ pc' = "emit"
  /\ UNCHANGED <<inVars, pos, buf, effBound, lastKey, emitted, out, warned, err>>

\* The same row, after emitSafe, enters the buffer.
StreamIngest ==
  /\ pc = "ingest"
  /\ Advance(1)
  /\ Ingest(HeadRow(1), "stream")
  /\ UNCHANGED <<inVars, runningMax, wm, lastKey, emitted, out>>

\* MergeReorderBuffer: what PopMin may return, a row with the least key.
PopMin == {r \in buf : \A q \in buf : Key(r) <= Key(q)}

\* emitSafe pops a row with the least key that is not above the watermark.
EmitSafe ==
  /\ pc \in {"emit", "flush"}
  /\ \E r \in PopMin :
       /\ Key(r) <= wm
       /\ buf' = buf \ {r}
       /\ IF OutOfOrder(Key(r)) /\ policy = "error"
          THEN /\ err' = "order"
               /\ pc' = "release"
               /\ UNCHANGED <<out, lastKey, emitted, warned>>
          ELSE /\ Yield(r)
               /\ warned' = IF OutOfOrder(Key(r)) THEN warned \cup {r} ELSE warned
               /\ UNCHANGED <<pc, err>>
  /\ UNCHANGED <<inVars, pos, effBound, runningMax, wm>>

\* emitSafe is done: back to the loop, or on to the end after the flush.
EmitDone ==
  /\ pc \in {"emit", "flush"}
  /\ \A r \in buf : Key(r) > wm
  /\ pc' = CASE pc = "flush" -> "release"
             [] pc = "emit" /\ K = 1 -> "ingest"
             [] pc = "emit" /\ K > 1 -> "kway"
  /\ UNCHANGED <<inVars, pos, buf, effBound, runningMax, wm, lastKey, emitted, out, warned, err>>

\* Mutant: the tail of the buffer is forgotten.
FlushMarkLast == wm

\* The watermark of the last emitSafe: everything may go.
FlushMark == MaxInt64

\* The children are exhausted.  The streaming variant has its child's error
\* by now and does not flush; the K-way one learns of it in release().
Exhausted ==
  /\ pc \in {"kway", "stream"} /\ Live = {}
  /\ IF pc = "stream" /\ fails # {}
     THEN err' = "child" /\ pc' = "release" /\ UNCHANGED wm
     ELSE pc' = "flush" /\ wm' = FlushMark /\ UNCHANGED err
  /\ UNCHANGED <<inVars, pos, buf, effBound, runningMax, lastKey, emitted, out, warned>>

\* Mutant: an error of a producer is looked at only after an empty merge.
SurfacesErrEmpty == err = "none" /\ out = <<>>

\* release()'s error counts unless the merge has one of its own.
SurfacesErr == err = "none"

\* release() joins the producers and surfaces the first error of a child.  A
\* merge that broke off early may have stopped a child before its error.
Release ==
  /\ pc = "release"
  /\ err' = IF SurfacesErr /\ fails # {} THEN "child" ELSE err
  /\ pc' = "done"
  /\ UNCHANGED <<inVars, pos, buf, effBound, runningMax, wm, lastKey, emitted, out, warned>>

-----------------------------------------------------------------------------
MergeNext ==
  \/ MergeScanExec \/ ConcatenateYield \/ ConcatenateEnd \/ HeapYield \/ HeapEnd
  \/ KwayPop \/ StreamArrive \/ StreamIngest \/ EmitSafe \/ EmitDone \/ Exhausted \/ Release

MergeSpec(Cfgs) == MergeInit(Cfgs) /\ [][MergeNext]_mergeVars

-----------------------------------------------------------------------------
(* Properties.                                                             *)

\* A child keeps to its declaration: sorted, or never further behind its
\* largest key than its disorder bound.
Honest(c) ==
  \A i \in DOMAIN input[c] :
    Disorder(<<c, i>>) <= IF sortedness[c] = "strict" THEN 0 ELSE bounds[c]

HonestZones == zones = <<>> \/ \A c \in Children : zones[c] = ZoneOf(input[c])

\* With the "error" policy the output is sorted, whatever the children and
\* zone maps claimed and however they lied.
SortedOutput ==
  policy = "error" =>
    \A i, j \in DOMAIN out : i < j => Key(out[i]) <= Key(out[j])

\* A merge whose children and zone maps are honest never reports a violated
\* order or bound: the watermark holds back every row that could still be
\* overtaken, across children, at ties and where the subtraction underflows.
NoFalseAlarm ==
  /\ \A c \in Children : Honest(c)
  /\ Regime # "concatenate"
  /\ HonestZones
  => err \notin {"order", "bound"} /\ warned = {}

\* A merge that ends without error has yielded every row exactly once.
Complete ==
  pc = "done" /\ err = "none" =>
    /\ Len(out) = Cardinality(AllRows)
    /\ {out[i] : i \in DOMAIN out} = AllRows

\* A merge that has lost a child to an error never ends without an error.
ChildErrSurfaces == pc = "done" /\ fails # {} => err # "none"

\* The single-child variant buffers the reorder band only: no row that lies
\* further behind the largest key seen than the bound, so memory does not
\* grow with the keyspace.
BandOnly ==
  K = 1 /\ pc = "stream" /\ Honest(1) =>
    \A r \in buf, i \in 1..pos[1] : input[1][i] - Key(r) <= effBound

\* "widen" warns about every row that it emits out of order: op_merge_scan.go
\* calls the policy "best-effort ... never silent".
NeverSilent ==
  \A i, j \in DOMAIN out : i < j /\ Key(out[j]) < Key(out[i]) => out[j] \in warned

\* A merge ends with all rows in order, or with an error, and the single-child
\* variant does so within its reorder band.
MergeExact == SortedOutput /\ Complete /\ ChildErrSurfaces /\ BandOnly
=============================================================================
