------------------------------- MODULE Window -------------------------------
(***************************************************************************)
(* engine/op_window.go and base/agg_window.go: window functions.           *)
(* OpWindowPartition buffers the rows of one partition and passes them on  *)
(* when the partition key changes and at the end; OpWindowFrames keeps the *)
(* frame of the current row, whose edges are cursors that only move        *)
(* forward, and computes one function over it, by running state that rows  *)
(* enter and leave where it can and by a fold over the frame where not.    *)
(*                                                                         *)
(* Positions in a partition are from 0, as in the code; a frame is the     *)
(* half-open [beg, end) minus the excluded spans.                          *)
(***************************************************************************)
EXTENDS GroupBy

VARIABLES
  wnCfg,    \* [parted, rows, fn, num, type, beg, end, exclude, fail];
            \* a row is <<partition key, ORDER BY value, operand>>
  wnPc,     \* "rows", "drain", "done"
  wnI,      \* rows received
  wnHeap,   \* lzHeap: input positions of the buffered rows
  wnPart,   \* lzPartitionCurr
  wnId,     \* lzPartitionId, which is also lzHeap.Extra
  wnDrain,  \* rows of the heap passed on by the drain that is under way
  wnSeen,   \* lzPartitionId of OpWindowFrames
  wnFrame,  \* base.WindowFrame
  wnOut,    \* <<input position, result>>
  wnErr

windowVars == <<wnCfg, wnPc, wnI, wnHeap, wnPart, wnId, wnDrain, wnSeen, wnFrame, wnOut, wnErr>>

Unbounded == 100
NoId == -1      \* ^uint64(0)

Ranks == {"row_number", "rank", "dense_rank", "percent_rank", "cume_dist", "ntile"}
Offsets == {"first_value", "last_value", "nth_value", "lag", "lead"}

\* VisitWindowAggregate: a RANGE frame without an offset runs as GROUPS;
\* ranking, LAG and LEAD run over the whole partition.
FrameType ==
  IF wnCfg.fn \in Ranks \cup {"lag", "lead"} THEN "rows"
  ELSE IF wnCfg.type = "range" /\ {wnCfg.beg, wnCfg.end} \subseteq {0, Unbounded} THEN "groups"
  ELSE wnCfg.type
WholePartition == wnCfg.fn \in Ranks \cup {"lag", "lead"}
BegNum == IF WholePartition THEN Unbounded ELSE wnCfg.beg
EndNum == IF WholePartition THEN Unbounded ELSE wnCfg.end
Exclude == IF WholePartition THEN "no-others" ELSE wnCfg.exclude

PartLen == Len(wnHeap)
OrderAt(i) == wnCfg.rows[wnHeap[i + 1]][2]
OperandAt(i) == wnCfg.rows[wnHeap[i + 1]][3]

-----------------------------------------------------------------------------
(* WindowFrame: the edges of the frame.                                    *)

\* Is row k within the edge that FindGroupEdge looks for from row i?  By
\* equality in a GROUPS frame; by distance, from a number, in a RANGE frame.
\* A ROWS frame keeps no ORDER BY column: it looks for numbers in the row's
\* first column, which holds a document.
WithinEdge(i, k, dir) ==
  CASE FrameType = "rows" -> FALSE
    [] FrameType = "range" /\ IsNumber(OrderAt(i)) ->
         /\ IsNumber(OrderAt(k))
         /\ IF dir < 0 THEN OrderAt(k).n >= OrderAt(i).n + BegNum ELSE OrderAt(k).n <= OrderAt(i).n + EndNum
    [] OTHER -> OrderAt(k) = OrderAt(i)

FindGroupEdge(i, dir) ==
  IF dir < 0 THEN LeastOf({j \in 0..i : \A k \in j..(i - 1) : WithinEdge(i, k, dir)})
  ELSE MostOf({j \in i..(PartLen - 1) : \A k \in (i + 1)..j : WithinEdge(i, k, dir)})

\* The peer group of the current row, from the cache while the row is in it.
currentPeerGroup(f) ==
  IF f.pg # <<>> /\ f.pg[1] <= f.pos /\ f.pos <= f.pg[2] THEN f.pg
  ELSE <<FindGroupEdge(f.pos, -1), FindGroupEdge(f.pos, 1)>>

\* The edge of the group num groups away from the group pg, and whether there is such a group.
Stepped(s, num) == [at |-> s[1], steppedAll |-> s[2] = num]
StepFrom(pg, dir, num) ==
  LET step[k \in 0..num] ==
        IF k = 0 THEN <<IF dir < 0 THEN pg[1] ELSE pg[2], 0>>
        ELSE LET at == step[k - 1][1] + dir
             IN IF at < 0 \/ at >= PartLen \/ step[k - 1][2] < k - 1 THEN step[k - 1]
                ELSE <<FindGroupEdge(at, dir), k>>
  IN Stepped(step[num], num)
StepGroups(f, n) == IF n < 0 THEN StepFrom(currentPeerGroup(f), -1, -n) ELSE StepFrom(currentPeerGroup(f), 1, n)

\* The edges of a RANGE frame, by cursors that resume where they were.
edgeEnd(f) ==
  LET from == IF f.reEnd > f.pos THEN f.reEnd ELSE f.pos
  IN MostOf({j \in from..(PartLen - 1) : \A k \in (from + 1)..j : WithinEdge(f.pos, k, 1)})
edgeBeg(f) == LeastOf({j \in f.reBeg..f.pos : j = f.pos \/ WithinEdge(f.pos, j, -1)})

\* Mutant: a new partition keeps the cursors of the one before.
KeptCursors(f, pos) == [f EXCEPT !.pos = pos]

\* A new partition forgets the cursors.
MovedTo(f, pos) ==
  IF pos = 0 THEN [f EXCEPT !.pos = 0, !.pg = <<>>, !.reBeg = 0, !.reEnd = 0] ELSE [f EXCEPT !.pos = pos]

\* The first and the last row, where an edge may lie outside the partition.
GroupsBeg(step) == IF ~step.steppedAll /\ BegNum > 0 THEN PartLen ELSE step.at
FirstRow(f) ==
  CASE BegNum = Unbounded -> 0
    [] BegNum # Unbounded /\ FrameType = "rows" -> f.pos + BegNum
    [] BegNum # Unbounded /\ FrameType = "groups" -> GroupsBeg(StepGroups(f, BegNum))
    [] BegNum # Unbounded /\ FrameType = "range" -> edgeBeg(f)
GroupsEnd(step) == IF ~step.steppedAll /\ EndNum < 0 THEN -1 ELSE step.at
LastRow(f) ==
  CASE EndNum = Unbounded -> PartLen - 1
    [] EndNum # Unbounded /\ FrameType = "rows" -> f.pos + EndNum
    [] EndNum # Unbounded /\ FrameType = "groups" -> GroupsEnd(StepGroups(f, EndNum))
    [] EndNum # Unbounded /\ FrameType = "range" -> edgeEnd(f)

UsesPeers == (FrameType = "groups" /\ {BegNum, EndNum} # {Unbounded}) \/ Exclude \in {"group", "ties"}
WithEdges(f, beg, last, peers) ==
  [f EXCEPT
     !.pg = IF UsesPeers THEN peers ELSE @,
     !.reBeg = IF FrameType = "range" /\ BegNum # Unbounded THEN beg ELSE @,
     !.reEnd = IF FrameType = "range" /\ EndNum # Unbounded THEN last ELSE @,
     !.beg = IF beg < 0 THEN 0 ELSE beg,
     !.end = IF last + 1 > PartLen THEN PartLen ELSE last + 1,
     !.excludes = CASE Exclude = "no-others" -> <<>>
                    [] Exclude = "current-row" -> << <<f.pos, f.pos + 1>> >>
                    [] Exclude = "group" -> << <<peers[1], peers[2] + 1>> >>
                    [] Exclude = "ties" -> << <<peers[1], f.pos>>, <<f.pos + 1, peers[2] + 1>> >>]
EdgesOf(f) == WithEdges(f, FirstRow(f), LastRow(f), currentPeerGroup(f))
CurrentUpdate(f, pos) == EdgesOf(MovedTo(f, pos))

-----------------------------------------------------------------------------
(* Walking a frame.                                                        *)

\* Next and Prev: past the excluded spans, in their order and in reverse.
Skip(i, x, asc) == IF i >= x[1] /\ i < x[2] THEN (IF asc THEN x[2] ELSE x[1] - 1) ELSE i

StepPos(f, asc, i) ==
  LET xs == f.excludes
      from == IF asc THEN (IF i < f.beg THEN f.beg ELSE i + 1) ELSE (IF i >= f.end THEN f.end - 1 ELSE i - 1)
      at == CASE Len(xs) = 0 -> from
              [] Len(xs) = 1 -> Skip(from, xs[1], asc)
              [] Len(xs) = 2 -> IF asc THEN Skip(Skip(from, xs[1], asc), xs[2], asc)
                                ELSE Skip(Skip(from, xs[2], asc), xs[1], asc)
  IN <<at, IF asc THEN at < f.end ELSE at >= f.beg>>

\* The positions that num steps from start visit, as long as there are any.
Visited(f, asc, start, num) ==
  LET walk[k \in 0..num] ==
        IF k = 0 THEN <<<<>>, start, TRUE>>
        ELSE LET w == walk[k - 1]
                 s == StepPos(f, asc, w[2])
             IN IF w[3] /\ s[2] THEN <<Append(w[1], s[1]), s[1], TRUE>> ELSE <<w[1], w[2], FALSE>>
  IN walk[num][1]

\* StepToOffset: the num'th row from before the frame, from the current row
\* or from behind the frame.  A target outside the frame gives NULL.
StepToOffset(f) ==
  LET fn == wnCfg.fn
      num == IF fn \in {"first_value", "last_value"} THEN 1 ELSE wnCfg.num
      asc == fn \in {"first_value", "nth_value", "lead"}
      start == CASE fn \in {"first_value", "nth_value"} -> -1
                 [] fn = "last_value" -> MaxInt64
                 [] fn \in {"lag", "lead"} -> f.pos
      path == Visited(f, asc, start, num)
  IN IF Len(path) = num THEN <<OperandAt(path[num])>> ELSE <<Null>>

-----------------------------------------------------------------------------
(* Ranking.                                                                *)

RankMove(f) ==
  LET cur == OrderAt(f.pos)
      g == IF f.pos = 0 THEN [f EXCEPT !.rank = 0, !.dense = 0, !.prevOrder = <<>>] ELSE f
  IN IF g.prevOrder # <<cur>>
     THEN [g EXCEPT !.rank = f.pos + 1, !.dense = @ + 1, !.prevOrder = <<cur>>]
     ELSE g

\* Mutant: the larger buckets are not counted before the smaller ones.
ntileFlat(pos, n, tiles) == pos \div (IF n \div tiles = 0 THEN 1 ELSE n \div tiles) + 1

ntileBucket(pos, n, tiles) ==
  LET base == n \div tiles
      rem == n % tiles
      big == rem * (base + 1)
  IN IF pos < big THEN pos \div (base + 1) + 1 ELSE rem + (pos - big) \div base + 1

WindowRankValue(f) ==
  CASE wnCfg.fn = "row_number" -> <<Num(f.pos + 1)>>
    [] wnCfg.fn = "rank" -> <<Num(f.rank)>>
    [] wnCfg.fn = "dense_rank" -> <<Num(f.dense)>>
    [] wnCfg.fn = "percent_rank" -> IF PartLen > 1 THEN Quotient(f.rank - 1, PartLen - 1) ELSE Quotient(0, 1)
    [] wnCfg.fn = "cume_dist" ->
         Quotient(MostOf({j \in f.pos..(PartLen - 1) : \A k \in f.pos..j : OrderAt(k) = OrderAt(f.pos)}) + 1, PartLen)
    [] wnCfg.fn = "ntile" -> <<Num(ntileBucket(f.pos, PartLen, wnCfg.num))>>

-----------------------------------------------------------------------------
(* Aggregates over the frame.                                              *)

AggName == IF wnCfg.fn = "ratio_to_report" THEN "sum" ELSE wnCfg.fn

FoldOver(agg, acc0, positions) ==
  LET acc[i \in 0..Len(positions)] ==
        IF i = 0 THEN acc0 ELSE AggUpdate(agg, acc[i - 1], OperandAt(positions[i]))
  IN acc[Len(positions)]

Span(from, to) == [i \in 1..(IF to > from THEN to - from ELSE 0) |-> from + i - 1]
CountIn(s, Test(_)) == Cardinality({i \in DOMAIN s : Test(OperandAt(s[i]))})
SumIn(s) == LET n == SelectSeq(s, LAMBDA i : IsNumber(OperandAt(i)))
            IN SumOf([i \in DOMAIN n |-> OperandAt(n[i])])

\* The running state, empty at the first row of a partition.
NoSlide == [acc |-> AggInit(AggName), folded |-> 0, has |-> 0, num |-> 0, sum |-> 0, prevBeg |-> 0, prevEnd |-> 0,
            deque |-> <<>>, missing |-> FALSE]
SlideAt(f) == IF f.pos = 0 THEN NoSlide ELSE f.slide

\* A frame that begins with the partition only grows: fold the rows that are new.
Folded(s, new) == [s EXCEPT !.acc = FoldOver(AggName, s.acc, new), !.folded = @ + Len(new)]
Grow(f, s) == Folded(s, Visited(f, TRUE, s.folded - 1, PartLen))

\* Mutant: the rows that enter are counted from the frame's own start.
EnteredFromBeg(f, s) == Span(f.beg, f.end)

Entered(f, s) == Span(s.prevEnd, f.end)
Left(f, s) == Span(s.prevBeg, f.beg)

\* COUNT, SUM and AVG: add what entered, subtract what left.
SlideSums(f, s) ==
  LET in == Entered(f, s)
      out == Left(f, s)
  IN [s EXCEPT !.has = @ + CountIn(in, HasValue) - CountIn(out, HasValue),
               !.num = @ + CountIn(in, IsNumber) - CountIn(out, IsNumber),
               !.sum = @ + SumIn(in) - SumIn(out),
               !.prevBeg = f.beg, !.prevEnd = f.end]

\* MIN and MAX: what enters removes what it dominates from the back of the
\* deque, what is before the frame is removed from the front.
DominatedBy(v, w) == IF wnCfg.fn = "max" THEN ValLess(v, w) ELSE ValLess(w, v)
SlideDeque(f, s) ==
  LET in == Entered(f, s)
      enter[i \in 0..Len(in)] ==
        IF i = 0 THEN s.deque
        ELSE LET v == OperandAt(in[i])
             IN IF ~HasValue(v) THEN enter[i - 1]
                ELSE Append(SelectSeq(enter[i - 1], LAMBDA j : DominatedBy(v, OperandAt(j))), in[i])
  IN [s EXCEPT !.deque = SelectSeq(enter[Len(in)], LAMBDA j : j >= f.beg),
               !.missing = @ \/ CountIn(in, LAMBDA v : v = Missing) > 0,
               !.prevEnd = f.end]

Refold(f) == AggResult(AggName, FoldOver(AggName, AggInit(AggName), Visited(f, TRUE, -1, PartLen)))

Sliding == BegNum # Unbounded /\ Exclude = "no-others"

\* The running state behind the row of f, and the aggregate's result from it.
Slid(f) ==
  CASE BegNum = Unbounded /\ Exclude = "no-others" -> Grow(f, SlideAt(f))
    [] Sliding /\ wnCfg.fn \in {"min", "max"} -> SlideDeque(f, SlideAt(f))
    [] Sliding /\ wnCfg.fn \in {"count", "sum", "avg"} -> SlideSums(f, SlideAt(f))
    [] OTHER -> f.slide
SlidResult(f, s) ==
  CASE BegNum = Unbounded /\ Exclude = "no-others" -> AggResult(AggName, s.acc)
    [] Sliding /\ wnCfg.fn = "count" -> <<Num(s.has)>>
    [] Sliding /\ wnCfg.fn \in {"min", "max"} ->
         IF s.missing THEN Refold(f) ELSE IF s.deque = <<>> THEN <<Null>> ELSE <<OperandAt(s.deque[1])>>
    [] Sliding /\ wnCfg.fn = "sum" -> IF s.num = 0 THEN <<Null>> ELSE <<Num(s.sum)>>
    [] Sliding /\ wnCfg.fn = "avg" -> IF s.has = 0 THEN <<Null>> ELSE Quotient(s.sum, s.has)
    [] OTHER -> Refold(f)

WindowRatioValue(v, total) ==
  IF ~IsNumber(v) \/ ~IsNumber(total) \/ total.n = 0 THEN <<Null>> ELSE Quotient(v.n, total.n)

\* OpWindowFrames, for one row: the one function of the frame that has moved.
AggOver(f) ==
  IF wnCfg.fn = "ratio_to_report" THEN WindowRatioValue(OperandAt(f.pos), SlidResult(f, f.slide)[1]) ELSE SlidResult(f, f.slide)
FrameStep(f) ==
  CASE wnCfg.fn \in Ranks -> WindowRankValue(f)
    [] wnCfg.fn \in Offsets -> StepToOffset(f)
    [] OTHER -> AggOver(f)
MovedState(f) ==
  CASE wnCfg.fn \in Ranks -> RankMove(f)
    [] wnCfg.fn \in Offsets -> f
    [] OTHER -> [f EXCEPT !.slide = Slid(f)]

-----------------------------------------------------------------------------
(* OpWindowPartition.                                                      *)

NoFrame == [pos |-> -1, beg |-> 0, end |-> 0, excludes |-> <<>>, pg |-> <<>>, reBeg |-> 0, reEnd |-> 0,
            rank |-> 0, dense |-> 0, prevOrder |-> <<>>, slide |-> NoSlide]

WindowInit(Cfgs) ==
  /\ wnCfg \in Cfgs
  /\ wnPc = "rows" /\ wnI = 0
  /\ wnHeap = <<>> /\ wnPart = "" /\ wnId = 0 /\ wnDrain = 0
  /\ wnSeen = NoId /\ wnFrame = NoFrame
  /\ wnOut = <<>> /\ wnErr = FALSE

PartitionKey(row) == IF wnCfg.parted THEN row[1] ELSE ""
NextPart == IF wnI < Len(wnCfg.rows) THEN PartitionKey(wnCfg.rows[wnI + 1]) ELSE ""

\* yieldVals for a row of the partition that is buffered.
WindowPush ==
  /\ wnPc = "rows" /\ wnI < Len(wnCfg.rows)
  /\ NextPart = wnPart
  /\ wnI' = wnI + 1
  /\ wnHeap' = Append(wnHeap, wnI + 1)
  /\ UNCHANGED <<wnCfg, wnPc, wnPart, wnId, wnDrain, wnSeen, wnFrame, wnOut, wnErr>>

\* The first row of a new partition, and the end without an error, drain
\* the buffer first.
WindowDrainStart ==
  /\ wnPc = "rows"
  /\ IF wnI < Len(wnCfg.rows) THEN NextPart # wnPart ELSE ~wnCfg.fail
  /\ wnPc' = "drain" /\ wnDrain' = 0
  /\ UNCHANGED <<wnCfg, wnI, wnHeap, wnPart, wnId, wnSeen, wnFrame, wnOut, wnErr>>

\* One row of the drain, through OpWindowFrames: the frame moves, then its function.
WindowFrames ==
  /\ wnPc = "drain" /\ wnDrain < PartLen
  /\ wnDrain' = wnDrain + 1
  /\ wnSeen' = wnId
  /\ wnFrame' = MovedState(CurrentUpdate(wnFrame, IF wnSeen # wnId THEN 0 ELSE wnFrame.pos + 1))
  /\ wnOut' = Append(wnOut, <<wnHeap[wnDrain + 1], FrameStep(wnFrame')>>)
  /\ UNCHANGED <<wnCfg, wnPc, wnI, wnHeap, wnPart, wnId, wnErr>>

\* Behind the drain: the new partition has a new id, and the row that began
\* it is pushed; or the stream ends.
WindowDrained ==
  /\ wnPc = "drain" /\ wnDrain = PartLen
  /\ IF wnI < Len(wnCfg.rows)
     THEN /\ wnPart' = NextPart /\ wnId' = wnId + 1
          /\ wnHeap' = <<wnI + 1>> /\ wnI' = wnI + 1
          /\ wnPc' = "rows"
     ELSE /\ wnPc' = "done"
          /\ UNCHANGED <<wnPart, wnId, wnHeap, wnI>>
  /\ UNCHANGED <<wnCfg, wnDrain, wnSeen, wnFrame, wnOut, wnErr>>

\* The child's error goes on at once.
WindowFails ==
  /\ wnPc = "rows" /\ wnI = Len(wnCfg.rows) /\ wnCfg.fail
  /\ wnErr' = TRUE /\ wnPc' = "done"
  /\ UNCHANGED <<wnCfg, wnI, wnHeap, wnPart, wnId, wnDrain, wnSeen, wnFrame, wnOut>>

WindowNext == WindowPush \/ WindowDrainStart \/ WindowFrames \/ WindowDrained \/ WindowFails

WindowSpec(Cfgs) == WindowInit(Cfgs) /\ [][WindowNext]_windowVars

-----------------------------------------------------------------------------
(* Properties.                                                             *)

\* The rows of i's partition.
wnPeersOf(i) == {j \in DOMAIN wnCfg.rows : PartitionKey(wnCfg.rows[j]) = PartitionKey(wnCfg.rows[i])}
wnOrder(i) == wnCfg.rows[i][2]
wnGroupNo(i, j) ==
  LET between == {wnOrder(k) : k \in {k \in wnPeersOf(i) : k >= IF i < j THEN i ELSE j}
                                      \cap {k \in wnPeersOf(i) : k <= IF i < j THEN j ELSE i}}
  IN IF i < j THEN Cardinality(between) - 1 ELSE 1 - Cardinality(between)

\* What SQL says the frame of row i is.
FrameDefinition(i) ==
  LET near(d) == (wnCfg.beg = Unbounded \/ d >= wnCfg.beg) /\ (wnCfg.end = Unbounded \/ d <= wnCfg.end)
      included(j) ==
        CASE wnCfg.type = "rows" -> near(j - i)
          [] wnCfg.type = "groups" -> near(wnGroupNo(i, j))
          [] wnCfg.type = "range" ->
               IF FrameType = "groups" THEN near(wnGroupNo(i, j))
               ELSE IF IsNumber(wnOrder(i))
                    THEN \/ IsNumber(wnOrder(j)) /\ near(wnOrder(j).n - wnOrder(i).n)
                         \/ ~IsNumber(wnOrder(j)) /\ (IF j < i THEN wnCfg.beg ELSE wnCfg.end) = Unbounded
                    ELSE \/ wnOrder(j) = wnOrder(i)
                         \/ (IF j < i THEN wnCfg.beg ELSE wnCfg.end) = Unbounded
      excluded(j) ==
        CASE wnCfg.exclude = "no-others" -> FALSE
          [] wnCfg.exclude = "current-row" -> j = i
          [] wnCfg.exclude = "group" -> wnOrder(j) = wnOrder(i)
          [] wnCfg.exclude = "ties" -> wnOrder(j) = wnOrder(i) /\ j # i
  IN {j \in wnPeersOf(i) : included(j) /\ ~excluded(j)}

\* What SQL says the function of row i is.
WindowDefinition(i) ==
  LET P == wnPeersOf(i)
      frame == Ascending(FrameDefinition(i))
      vals == [x \in DOMAIN frame |-> wnCfg.rows[frame[x]][3]]
      at(s, n) == IF n \in DOMAIN s THEN <<s[n]>> ELSE <<Null>>
      whole == [x \in DOMAIN Ascending(P) |-> wnCfg.rows[Ascending(P)[x]][3]]
      no == Cardinality({j \in P : j <= i})
      before == {j \in P : j < i /\ wnOrder(j) # wnOrder(i)}
      upTo == {j \in P : j <= i \/ wnOrder(j) = wnOrder(i)}
  IN CASE wnCfg.fn = "row_number" -> <<Num(no)>>
       [] wnCfg.fn = "rank" -> <<Num(Cardinality(before) + 1)>>
       [] wnCfg.fn = "dense_rank" -> <<Num(Cardinality({wnOrder(j) : j \in before}) + 1)>>
       [] wnCfg.fn = "percent_rank" ->
            IF Cardinality(P) = 1 THEN Quotient(0, 1) ELSE Quotient(Cardinality(before), Cardinality(P) - 1)
       [] wnCfg.fn = "cume_dist" -> Quotient(Cardinality(upTo), Cardinality(P))
       [] wnCfg.fn = "first_value" -> at(vals, 1)
       [] wnCfg.fn = "last_value" -> at(vals, Len(vals))
       [] wnCfg.fn = "nth_value" -> at(vals, wnCfg.num)
       [] wnCfg.fn = "lag" -> at(whole, no - wnCfg.num)
       [] wnCfg.fn = "lead" -> at(whole, no + wnCfg.num)
       [] wnCfg.fn = "ratio_to_report" -> WindowRatioValue(wnCfg.rows[i][3], AggDefinition("sum", vals)[1])
       [] OTHER -> AggDefinition(wnCfg.fn, vals)

\* The frames that the code takes as SQL does.  The others are the subject of
\* CurrentRowIsPeers, ExcludesArePeers and SlidingAsFold, and RANGE frames
\* that lie wholly before or behind the current row.
FrameOrdinary ==
  \/ WholePartition
  \/ /\ FrameType = "rows" /\ (wnCfg.beg # Unbounded /\ wnCfg.end # Unbounded => wnCfg.beg <= wnCfg.end)
     /\ wnCfg.exclude \in {"no-others", "current-row"}
  \/ /\ FrameType = "range" /\ (wnCfg.beg = Unbounded \/ wnCfg.beg <= 0) /\ (wnCfg.end = Unbounded \/ wnCfg.end >= 0)
     /\ wnCfg.exclude \in {"no-others", "current-row"}
  \/ /\ FrameType = "groups" /\ (wnCfg.beg = Unbounded \/ wnCfg.beg < 0) /\ (wnCfg.end = Unbounded \/ wnCfg.end >= 0)

\* Every row comes out once, in order, with the function of exactly the rows
\* that SQL puts in its frame: the forward cursors of the frame's edges, the
\* state that rows enter and leave, and the change of partition in the
\* middle of the stream never show.
WindowExact ==
  wnPc = "done" /\ ~wnErr =>
    /\ Len(wnOut) = Len(wnCfg.rows)
    /\ \A n \in DOMAIN wnOut :
         /\ wnOut[n][1] = n
         /\ FrameOrdinary /\ wnCfg.fn # "ntile" => wnOut[n][2] = WindowDefinition(n)

\* NTILE deals a partition to its buckets in order, and the sizes of two
\* buckets differ by one at most, the larger ones first.
NtileFair ==
  wnPc = "done" /\ ~wnErr /\ wnCfg.fn = "ntile" =>
    LET bucket(i) == wnOut[i][2][1].n
        size(i, b) == Cardinality({j \in wnPeersOf(i) : bucket(j) = b})
    IN \A i \in DOMAIN wnOut :
         /\ bucket(i) \in 1..wnCfg.num
         /\ \A j \in wnPeersOf(i) : i <= j => bucket(i) <= bucket(j)
         /\ \A b, c \in 1..wnCfg.num : b < c => size(i, b) - size(i, c) \in {0, 1}

\* The cursors of a RANGE frame are where a scan outward from the current
\* row would end, whatever the bounds.
EdgesAsScan ==
  wnPc = "drain" /\ wnDrain > 0 /\ FrameType = "range" =>
    /\ BegNum # Unbounded => wnFrame.reBeg = FindGroupEdge(wnFrame.pos, -1)
    /\ EndNum # Unbounded => wnFrame.reEnd = FindGroupEdge(wnFrame.pos, 1)

\* In a RANGE or GROUPS frame CURRENT ROW stands for all peers of the row:
\* a frame that starts there has every one of them.
CurrentRowIsPeers ==
  wnPc = "drain" /\ wnDrain > 0 /\ FrameType = "groups" /\ BegNum = 0 /\ Exclude = "no-others" =>
    \A k \in 0..(PartLen - 1) : OrderAt(k) = OrderAt(wnFrame.pos) => wnFrame.beg <= k

\* EXCLUDE GROUP and EXCLUDE TIES exclude the rows equal to the current row
\* in the ORDER BY value, and no others.
ExcludesArePeers ==
  wnPc = "drain" /\ wnDrain > 0 /\ Exclude \in {"group", "ties"} =>
    \A k \in 0..(PartLen - 1) \ {wnFrame.pos} :
      (\E x \in DOMAIN wnFrame.excludes : k >= wnFrame.excludes[x][1] /\ k < wnFrame.excludes[x][2])
        <=> OrderAt(k) = OrderAt(wnFrame.pos)

\* The sliding COUNT is the count that a fold over the frame would give.
SlidingAsFold ==
  wnPc = "drain" /\ wnDrain > 0 /\ Sliding /\ wnCfg.fn = "count" => wnOut[Len(wnOut)][2] = Refold(wnFrame)

\* Groups and windows aggregate exactly their own rows (op_group.go,
\* op_window.go).
AggregatesExact == GroupExact /\ WindowExact /\ NtileFair /\ EdgesAsScan
=============================================================================
