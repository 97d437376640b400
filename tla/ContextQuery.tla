---------------------------- MODULE ContextQuery ----------------------------
(***************************************************************************)
(* glue/multiquery_context.go and engine/op_broadcast_context.go: a        *)
(* statement that flags rows near a match,                                 *)
(*   MAX(CASE WHEN p THEN 1 ELSE 0 END) OVER (PARTITION BY .. ORDER BY ..  *)
(*   ROWS BETWEEN b PRECEDING AND a FOLLOWING) = 1,                        *)
(* is recognised in its converted plan and run, with the others of its     *)
(* keyspace, partition and order, as an extractor over one sorted stream.  *)
(* An extractor remembers the rows that a later match may want and the     *)
(* number of rows that an earlier one still does.                          *)
(*                                                                         *)
(* A statement is the record of what the recogniser looks at; a row is     *)
(* [part, ord, hits, keep], hits being the predicates that hold of it.     *)
(***************************************************************************)
EXTENDS RowOps

VARIABLES
  cxCfg,     \* [stmts, rows]
  cxGroup,   \* the places of the statements that were recognised; their signature is the same
  cxSorted,  \* the rows as the extractors get them
  cxPc,      \* "compile", "sort", "rows", "done"
  cxAt,      \* rows that were fanned out
  cxPrev,    \* the partition of the last row
  cxBuf,     \* extractor -> buf
  cxAfter,   \* extractor -> afterLeft
  cxOut      \* the label results: [label, row], a row by its place in cxSorted

cxVars == <<cxCfg, cxGroup, cxSorted, cxPc, cxAt, cxPrev, cxBuf, cxAfter, cxOut>>

-----------------------------------------------------------------------------
(* The recogniser *)

contextFilterIsPositive(s) == s.flag >= 1

\* contextFromWindowFrames: MAX over one frame of rows with two numeric bounds, the first
\* not after and the second not before the row, of a CASE.
FrameOK(s) ==
  /\ s.func = "max" /\ s.unit = "rows" /\ s.exclude = "no-others" /\ s.bounded
  /\ -s.beg >= 0 /\ s.end >= 0
  /\ Len(s.whens) >= 1

\* contextSortExprs and the window's one partition column.
SortOK(s) == s.numPart = 1 /\ s.asc

\* contextFusedProjection: neither the whole derived row nor the flag itself.
ProjectionOK(s) == s.select = "columns"

recognizeContextEntry(s) ==
  /\ s.outer # "limit" /\ s.middle # "rename"
  /\ contextFilterIsPositive(s) /\ FrameOK(s) /\ SortOK(s) /\ ProjectionOK(s)

\* A match at m flags the rows from m - following to m + preceding.
BeforeMatch(s) == s.end
AfterMatch(s) == -s.beg
MatchPred(s) == s.whens[1].pred

CxInit(cfgs) ==
  /\ cxCfg \in cfgs
  /\ cxGroup = {} /\ cxSorted = <<>> /\ cxPc = "compile" /\ cxAt = 0 /\ cxPrev = 0 /\ cxBuf = <<>> /\ cxAfter = <<>> /\ cxOut = <<>>

\* What is not recognised runs alone and is not followed here.
ContextCompile ==
  /\ cxPc = "compile"
  /\ cxGroup' = {i \in DOMAIN cxCfg.stmts : recognizeContextEntry(cxCfg.stmts[i])}
  /\ cxPc' = "sort"
  /\ UNCHANGED <<cxCfg, cxSorted, cxAt, cxPrev, cxBuf, cxAfter, cxOut>>

RowPrecedes(r, q) == r.part < q.part \/ (r.part = q.part /\ r.ord < q.ord)
\* The rows in an order in which none precedes an earlier one; ties have any order.
Orders(rows) ==
  {p \in [DOMAIN rows -> DOMAIN rows] :
     \A i, j \in DOMAIN rows : i < j => p[i] # p[j] /\ ~RowPrecedes(rows[p[j]], rows[p[i]])}

\* buildContextBroadcast: the shared sort, which is left out for a group that is ordered by
\* the place of a record in its file: the scan of files yields it in that order.
SortRows ==
  /\ cxPc = "sort"
  /\ IF cxCfg.elide THEN cxSorted' = cxCfg.rows
     ELSE \E p \in Orders(cxCfg.rows) : cxSorted' = [n \in DOMAIN cxCfg.rows |-> cxCfg.rows[p[n]]]
  /\ cxBuf' = [i \in cxGroup |-> <<>>] /\ cxAfter' = [i \in cxGroup |-> 0]
  /\ cxPc' = "rows"
  /\ UNCHANGED <<cxCfg, cxGroup, cxAt, cxPrev, cxOut>>

\* As Flushed, but rows that are owed to a match are remembered as well.
FlushedTwice(s, buf, after, n, match) ==
  CASE match -> [emit |-> Append(buf, n), buf |-> <<>>, after |-> AfterMatch(s)]
    [] ~match /\ after > 0 -> [emit |-> <<n>>, buf |-> Append(buf, n), after |-> after - 1]
    [] OTHER -> [emit |-> <<>>, buf |-> IF Len(buf) < BeforeMatch(s) THEN Append(buf, n) ELSE Tail(Append(buf, n)), after |-> 0]

\* One extractor on one row: a match flushes what it remembers, a row that is owed to the
\* last match is emitted, and another is remembered for the next.
Flushed(s, buf, after, n, match) ==
  CASE match -> [emit |-> Append(buf, n), buf |-> <<>>, after |-> AfterMatch(s)]
    [] ~match /\ after > 0 -> [emit |-> <<n>>, buf |-> buf, after |-> after - 1]
    [] OTHER -> [emit |-> <<>>, buf |-> IF Len(buf) < BeforeMatch(s) THEN Append(buf, n) ELSE Tail(Append(buf, n)), after |-> 0]

\* As AtBoundary, but the windows go on into the next partition.
NeverBoundary(row) == FALSE
AtBoundary(row) == cxAt = 0 \/ row.part # cxPrev

\* A row is evaluated only for the extractors whose literal it holds.
MatchesRow(s, row) == MatchPred(s) \in row.hits

LabelResults(i, emit) == [j \in DOMAIN emit |-> [label |-> cxCfg.stmts[i].label, row |-> emit[j]]]

ContextRow ==
  /\ cxPc = "rows" /\ cxAt < Len(cxSorted)
  /\ LET row == cxSorted[cxAt + 1]
         fresh == AtBoundary(row)
         step == [i \in cxGroup |-> Flushed(cxCfg.stmts[i], IF fresh THEN <<>> ELSE cxBuf[i], IF fresh THEN 0 ELSE cxAfter[i],
                                           cxAt + 1, MatchesRow(cxCfg.stmts[i], row))]
     IN  /\ cxBuf' = [i \in cxGroup |-> step[i].buf]
         /\ cxAfter' = [i \in cxGroup |-> step[i].after]
         /\ cxOut' = cxOut \o Concat([i \in DOMAIN cxCfg.stmts |-> IF i \in cxGroup THEN LabelResults(i, step[i].emit) ELSE <<>>])
         /\ cxPrev' = row.part
  /\ cxAt' = cxAt + 1
  /\ UNCHANGED <<cxCfg, cxGroup, cxSorted, cxPc>>

ContextEnd ==
  /\ cxPc = "rows" /\ cxAt = Len(cxSorted)
  /\ cxPc' = "done"
  /\ UNCHANGED <<cxCfg, cxGroup, cxSorted, cxAt, cxPrev, cxBuf, cxAfter, cxOut>>

CxNext == ContextCompile \/ SortRows \/ ContextRow \/ ContextEnd
CxDone == cxPc = "done"

CxSpec(cfgs) == CxInit(cfgs) /\ [][CxNext]_cxVars

-----------------------------------------------------------------------------
(* Properties *)

\* The statement itself: the rows of the inner SELECT in the order of the window, the value
\* of the CASE, the maximum over the frame, and the outer WHERE.
CaseVal(s, row) ==
  LET arms == {i \in DOMAIN s.whens : s.whens[i].pred \in row.hits}
  IN  IF arms = {} THEN s.else ELSE s.whens[LeastOf(arms)].then
InnerRows(s) == {n \in 1..Len(cxSorted) : s.below => cxSorted[n].keep}
PlaceIn(s, n) == Cardinality({m \in InnerRows(s) : m < n /\ cxSorted[m].part = cxSorted[n].part})
FrameOf(s, n) ==
  {m \in InnerRows(s) : cxSorted[m].part = cxSorted[n].part /\ PlaceIn(s, m) - PlaceIn(s, n) \in s.beg..s.end}
FlagOf(s, n) == MostOf({CaseVal(s, cxSorted[m]) : m \in FrameOf(s, n)})
SelectedRows(s) == {n \in InnerRows(s) : FlagOf(s, n) = s.flag}

\* A statement that was lowered to an extractor yields the rows that its own window and
\* WHERE select, each once, however the windows of its matches overlap and whichever other
\* statements share the stream.
ContextExact ==
  cxPc = "done" =>
    \A i \in cxGroup :
      LET s == cxCfg.stmts[i]
          got == {n \in DOMAIN cxOut : cxOut[n].label = s.label}
      IN  {cxOut[n].row : n \in got} = SelectedRows(s) /\ Cardinality(got) = Cardinality(SelectedRows(s))

\* What an extractor remembers is bounded by its own context, whatever the stream's length.
ContextBounded == \A i \in DOMAIN cxBuf : Len(cxBuf[i]) <= BeforeMatch(cxCfg.stmts[i])

\* The context rows around the matches are exactly those asked for, out of a
\* bounded window.
ContextSound == ContextExact /\ ContextBounded
=============================================================================
