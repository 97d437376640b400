------------------------------ MODULE Columnar ------------------------------
(***************************************************************************)
(* Aggregates over Parquet columns.  SELECT <aggregates> FROM ks [WHERE p] *)
(* without GROUP BY is a group over a scan, or over a filter over a scan.  *)
(* When the plan is finished, maybeColumnarOptimizeChild may turn it into   *)
(* agg-metadata (answered from the footers alone) or into agg-columnar (the *)
(* column buffers are folded, batch by batch, under bitmaps); anything it   *)
(* cannot prove stays on the row path.                                      *)
(*                                                                         *)
(* A keyspace is a sequence of parts, a part a sequence of row groups, a    *)
(* row group a sequence of rows; a cell is [ok, v], ok FALSE for a null.    *)
(* Numbers are kept doubled, so that 2 * k is an integer and 2 * k + 1 is   *)
(* not: the INT64 columns hold even numbers only.                           *)
(***************************************************************************)
EXTENDS Integers, Sequences, FiniteSets, SequencesExt

CONSTANT
  CoBatch          \* parquetBatchRows: the rows of one batch

ASSUME CoBatchAssumption == CoBatch \in Nat \ {0}

VARIABLES
  coCfg,           \* the query and the keyspace
  coPc,            \* "plan", "metadata", "columnar", "row" or "done"
  coPred,          \* the clauses the pass extracted: [some, mode, clauses]
  coSpecs,         \* what each aggregate folds: [key, src]
  coPart,          \* the part the column batches are read from
  coAt,            \* the rows of that part already read
  coAcc,           \* the accumulators: [n, sum, nan]
  coOut            \* the row emitted, one value per aggregate

coVars == <<coCfg, coPc, coPred, coSpecs, coPart, coAt, coAcc, coOut>>

-----------------------------------------------------------------------------
\* The footer: per column, what the row groups' statistics add up to.
Flat(part) == FlattenSeq([g \in DOMAIN part.groups |-> part.groups[g].rows])
Valid(rows, f) == {i \in DOMAIN rows : rows[i][f].ok}
Smallest(S) == CHOOSE v \in S : \A w \in S : v <= w
Largest(S) == CHOOSE v \in S : \A w \in S : v >= w
Stat(known, v) == [known |-> known, v |-> v]
Unknown == Stat(FALSE, 0)

\* pickStat: the smaller or the larger of two statistics, unknown when either is
pickStat(a, b, wantMin) ==
  IF ~(a.known /\ b.known) THEN Unknown
  ELSE IF (a.v < b.v) = wantMin THEN a ELSE b

addCount(a, b) == IF a < 0 \/ b < 0 THEN -1 ELSE a + b

SumOf(s) == FoldSeq(LAMBDA a, b : a + b, 0, s)

GroupStat(g, f, wantMin) ==
  LET cells == {g.rows[i][f].v : i \in Valid(g.rows, f)} IN
  IF cells = {} \/ ~g.minMax THEN Unknown
  ELSE Stat(TRUE, IF wantMin THEN Smallest(cells) ELSE Largest(cells))

FoldStats(stats, wantMin) ==
  IF stats = <<>> \/ \E i \in DOMAIN stats : ~stats[i].known THEN Unknown
  ELSE FoldSeq(LAMBDA s, acc : pickStat(acc, s, wantMin), Head(stats), Tail(stats))

\* parquetSource.Columns, one column: a row group without a null count adds none
FileColumn(part, f, type) ==
  LET nulls == SelectSeq(part.groups, LAMBDA g : g.nullCount)
  IN [type |-> type,
      count |-> IF part.counted THEN Len(Flat(part)) ELSE -1,
      nullCount |-> IF nulls = <<>> THEN -1
                    ELSE SumOf([i \in DOMAIN nulls |-> Len(nulls[i].rows) - Cardinality(Valid(nulls[i].rows, f))]),
      min |-> FoldStats([g \in DOMAIN part.groups |-> GroupStat(part.groups[g], f, TRUE)], TRUE),
      max |-> FoldStats([g \in DOMAIN part.groups |-> GroupStat(part.groups[g], f, FALSE)], FALSE)]

mergeColumnMeta(a, b) ==
  [type |-> a.type, count |-> addCount(a.count, b.count), nullCount |-> addCount(a.nullCount, b.nullCount),
   min |-> pickStat(a.min, b.min, TRUE), max |-> pickStat(a.max, b.max, FALSE)]

\* walkSource.Columns: the parts' columns merged, nothing when the parts differ
\* in their columns or when there is no part
Columns(ks) ==
  IF ks.parts = <<>> \/ \E p \in DOMAIN ks.parts : ks.parts[p].columns # ks.parts[1].columns THEN <<>>
  ELSE [f \in ks.parts[1].columns |->
          LET each == [p \in DOMAIN ks.parts |-> FileColumn(ks.parts[p], f, ks.types[f])]
          IN FoldSeq(LAMBDA b, a : mergeColumnMeta(a, b), Head(each), Tail(each))]

Numeric == {"INT64", "DOUBLE"}

-----------------------------------------------------------------------------
\* The WHERE: a comparison, or a tree of ANDs or of ORs of comparisons.
ColTerm(t) == t.k = "col"
ConstTerm(t) == t.k = "const"
No == [ok |-> FALSE, clauses |-> <<>>]

\* comparisonExtract, comparisonOrient: field against number; cbq has already
\* written > and >= as < and <= with the operands exchanged
CmpOf(op, fieldFirst) ==
  CASE op = "lt" -> IF fieldFirst THEN "LT" ELSE "GT"
    [] op = "le" -> IF fieldFirst THEN "LE" ELSE "GE"
    [] OTHER -> "EQ"

comparisonExtract(e) ==
  IF e.k # "cmp" THEN No
  ELSE IF ColTerm(e.a) /\ ConstTerm(e.b) THEN [ok |-> TRUE, clauses |-> <<[field |-> e.a.f, op |-> CmpOf(e.op, TRUE), c |-> e.b.c]>>]
  ELSE IF ColTerm(e.b) /\ ConstTerm(e.a) THEN [ok |-> TRUE, clauses |-> <<[field |-> e.b.f, op |-> CmpOf(e.op, FALSE), c |-> e.a.c]>>]
  ELSE No

RECURSIVE flattenClauses(_, _)
flattenClauses(e, mode) ==
  IF e.k \in {"and", "or"}
  THEN LET l == flattenClauses(e.a, mode)
           r == flattenClauses(e.b, mode)
       IN IF e.k = mode /\ l.ok /\ r.ok THEN [ok |-> TRUE, clauses |-> l.clauses \o r.clauses] ELSE No
  ELSE comparisonExtract(e)

Integral(c) == c % 2 = 0

\* colPredicateExtract, and the type each clause's column imposes
Predicate(where, cols) ==
  LET mode == IF where.k = "or" THEN "or" ELSE "and"
      got == flattenClauses(where, mode)
      fits(cl) == /\ cl.field \in DOMAIN cols
                  /\ cols[cl.field].type \in Numeric
                  /\ cols[cl.field].type = "INT64" => Integral(cl.c)
  IN [ok |-> got.ok /\ \A i \in DOMAIN got.clauses : fits(got.clauses[i]),
      mode |-> mode, clauses |-> got.clauses]

-----------------------------------------------------------------------------
\* aggMetadataSpecs: every aggregate is one that the footers answer
FromMetadata(agg, cols) ==
  \/ /\ agg.fn = "count" /\ agg.src.k = "star"
     /\ DOMAIN cols # {}
     /\ \A f \in DOMAIN cols : cols[f].count >= 0
  \/ /\ agg.fn = "count" /\ agg.src.k = "col" /\ agg.src.f \in DOMAIN cols
     /\ cols[agg.src.f].count >= 0 /\ cols[agg.src.f].nullCount >= 0
  \/ /\ agg.fn \in {"min", "max"} /\ agg.src.k = "col" /\ agg.src.f \in DOMAIN cols
     /\ cols[agg.src.f].type \in Numeric
     /\ IF agg.fn = "min" THEN cols[agg.src.f].min.known ELSE cols[agg.src.f].max.known

\* parseAggOperandSpec, arithTermSpec: a numeric column, or + - * of two terms
\* that are numeric columns or constants, one of them at least a column
NumericTerm(t, cols) == (ColTerm(t) /\ t.f \in DOMAIN cols /\ cols[t.f].type \in Numeric) \/ ConstTerm(t)
FoldsColumn(agg, cols) ==
  /\ agg.fn \in {"sum", "avg", "count"}
  /\ \/ agg.src.k = "col" /\ NumericTerm(agg.src, cols)
     \/ /\ agg.src.k = "arith"
        /\ NumericTerm(agg.src.l, cols) /\ NumericTerm(agg.src.r, cols)
        /\ ~(ConstTerm(agg.src.l) /\ ConstTerm(agg.src.r))

NoPred == [some |-> FALSE, mode |-> "and", clauses |-> <<>>]
Acc0 == [n |-> 0, sum |-> 0, nan |-> TRUE]

\* maybeColumnarOptimizeChild: the group becomes one fused operator, or stays
CoPlan ==
  /\ coPc = "plan"
  /\ LET cols == Columns(coCfg.ks)
         aggs == coCfg.aggs
         filtered == coCfg.where.k # "none"
         pred == Predicate(coCfg.where, cols)
         able == ~coCfg.grouped /\ aggs # <<>> /\ cols # <<>> /\ (filtered => pred.ok)
     IN /\ coPred' = IF filtered THEN [some |-> TRUE, mode |-> pred.mode, clauses |-> pred.clauses] ELSE NoPred
        /\ coPc' = IF ~able THEN "row"
                   ELSE IF ~filtered /\ \A i \in DOMAIN aggs : FromMetadata(aggs[i], cols) THEN "metadata"
                   ELSE IF \A i \in DOMAIN aggs : FoldsColumn(aggs[i], cols) THEN "columnar"
                   ELSE "row"
        /\ coSpecs' = aggs
        /\ coAcc' = [i \in DOMAIN aggs |-> Acc0]
  /\ UNCHANGED <<coCfg, coPart, coAt, coOut>>

-----------------------------------------------------------------------------
CoNull == [k |-> "null", n |-> 0, d |-> 1]
Num(v) == [k |-> "num", n |-> v, d |-> 1]
Ratio(n, d) == [k |-> "num", n |-> n, d |-> d]
SameVal(a, b) == a.k = b.k /\ a.n * b.d = b.n * a.d

\* DatastoreAggMetadata: the answer of the footers (counts are doubled as all
\* numbers here are)
MetadataAnswer(agg, cols) ==
  CASE agg.fn = "count" /\ agg.src.k = "star" -> Num(2 * cols[CHOOSE f \in DOMAIN cols : TRUE].count)
    [] agg.fn = "count" /\ agg.src.k # "star" -> Num(2 * (cols[agg.src.f].count - cols[agg.src.f].nullCount))
    [] agg.fn = "min" -> Num(cols[agg.src.f].min.v)
    [] OTHER -> Num(cols[agg.src.f].max.v)

AggMetadata ==
  /\ coPc = "metadata"
  /\ coOut' = [i \in DOMAIN coSpecs |-> MetadataAnswer(coSpecs[i], Columns(coCfg.ks))]
  /\ coPc' = "done"
  /\ UNCHANGED <<coCfg, coPred, coSpecs, coPart, coAt, coAcc>>

-----------------------------------------------------------------------------
\* The kernels, over a batch of rows.  A bitmap is the set of its set lanes.
Compare(op, v, c) ==
  CASE op = "EQ" -> v = c [] op = "LT" -> v < c [] op = "LE" -> v <= c [] op = "GT" -> v > c [] OTHER -> v >= c

\* (bug) a null lane compared by what its buffer happens to hold
EvalClauseAnyLane(rows, cl) == {i \in DOMAIN rows : Compare(cl.op, rows[i][cl.field].v, cl.c)}

\* evalClause: the comparison's lanes, less those the column is null at (a null
\* lane's buffer holds some number too)
EvalClause(rows, cl) == {i \in DOMAIN rows : Compare(cl.op, rows[i][cl.field].v, cl.c)} \cap Valid(rows, cl.field)

Selection(rows, pred) ==
  LET masks == {EvalClause(rows, pred.clauses[i]) : i \in DOMAIN pred.clauses}
  IN IF pred.mode = "or" THEN UNION masks ELSE {i \in DOMAIN rows : \A m \in masks : i \in m}

Arith(op, a, b) == CASE op = "+" -> a + b [] op = "-" -> a - b [] OTHER -> (a * b) \div 2
TermAt(t, row) == IF ColTerm(t) THEN row[t.f].v ELSE t.c
TermValid(t, rows) == IF ColTerm(t) THEN Valid(rows, t.f) ELSE DOMAIN rows

\* aggSource: the lanes' numbers and the lanes that are valid
SourceAt(src, row) == IF src.k = "arith" THEN Arith(src.op, TermAt(src.l, row), TermAt(src.r, row)) ELSE row[src.f].v
SourceValid(src, rows) == IF src.k = "arith" THEN TermValid(src.l, rows) \cap TermValid(src.r, rows) ELSE Valid(rows, src.f)

LanesSum(src, rows, lanes) == SumOf([i \in DOMAIN rows |-> IF i \in lanes THEN SourceAt(src, rows[i]) ELSE 0])

\* sum_v_*, count_v, avg_v_*: every lane; a row clears SUM's no-input sentinel
FoldColumn(acc, src, rows) ==
  [n |-> acc.n + Len(rows), sum |-> acc.sum + LanesSum(src, rows, DOMAIN rows), nan |-> acc.nan /\ rows = <<>>]

\* MaskedSum*, MaskedCount, MaskedAvg*: the lanes set in the mask; the sentinel
\* is cleared even when none is
FoldMasked(acc, src, rows, lanes) ==
  [n |-> acc.n + Cardinality(lanes), sum |-> acc.sum + LanesSum(src, rows, lanes), nan |-> FALSE]

\* one turn of DatastoreAggColumnar's loop, for one aggregate
AggBatch(acc, agg, rows, pred) ==
  LET valid == SourceValid(agg.src, rows)
  IN IF ~pred.some /\ valid = DOMAIN rows THEN FoldColumn(acc, agg.src, rows)
     ELSE FoldMasked(acc, agg.src, rows, IF pred.some THEN Selection(rows, pred) \cap valid ELSE valid)

PartRows == Flat(coCfg.ks.parts[coPart])
Smaller(a, b) == IF a < b THEN a ELSE b
BatchEnd == Smaller(coAt + CoBatch, Len(PartRows))

\* walkSource.NextColumns hands the next batch of the part, and it is folded
NextColumns ==
  /\ coPc = "columnar" /\ coPart <= Len(coCfg.ks.parts) /\ coAt < Len(PartRows)
  /\ LET rows == SubSeq(PartRows, coAt + 1, BatchEnd)
     IN coAcc' = [i \in DOMAIN coAcc |-> AggBatch(coAcc[i], coSpecs[i], rows, coPred)]
  /\ coAt' = BatchEnd
  /\ UNCHANGED <<coCfg, coPc, coPred, coSpecs, coPart, coOut>>

NextPart ==
  /\ coPc = "columnar" /\ coPart <= Len(coCfg.ks.parts) /\ coAt = Len(PartRows)
  /\ coPart' = coPart + 1 /\ coAt' = 0
  /\ UNCHANGED <<coCfg, coPc, coPred, coSpecs, coAcc, coOut>>

\* CoResult of AggSum, AggCount and AggAvg
CoResult(fn, acc) ==
  CASE fn = "count" -> Num(2 * acc.n)
    [] fn = "sum" -> IF acc.nan THEN CoNull ELSE Num(acc.sum)
    [] OTHER -> IF acc.n = 0 THEN CoNull ELSE Ratio(acc.sum, acc.n)

EmitColumnar ==
  /\ coPc = "columnar" /\ coPart > Len(coCfg.ks.parts)
  /\ coOut' = [i \in DOMAIN coAcc |-> CoResult(coSpecs[i].fn, coAcc[i])]
  /\ coPc' = "done"
  /\ UNCHANGED <<coCfg, coPred, coSpecs, coPart, coAt, coAcc>>

-----------------------------------------------------------------------------
CoInit(Cfgs) ==
  /\ coCfg \in Cfgs /\ coPc = IF coCfg.aggs = <<>> THEN "done" ELSE "plan"
  /\ coPred = NoPred /\ coSpecs = <<>> /\ coPart = 1 /\ coAt = 0 /\ coAcc = <<>> /\ coOut = <<>>

CoNext == CoPlan \/ AggMetadata \/ NextColumns \/ NextPart \/ EmitColumnar

CoDone == coPc \in {"row", "done"}

-----------------------------------------------------------------------------
\* What the row path answers: every row of every part, the rows for which the
\* WHERE is true (not NULL), each aggregate over the values that are not NULL.
AllRows == FlattenSeq([p \in DOMAIN coCfg.ks.parts |-> Flat(coCfg.ks.parts[p])])
TermNull(t, row) == ColTerm(t) /\ ~row[t.f].ok
RECURSIVE Holds(_, _)
Holds(e, row) ==
  CASE e.k = "none" -> TRUE
    [] e.k = "and" -> Holds(e.a, row) /\ Holds(e.b, row)
    [] e.k = "or" -> Holds(e.a, row) \/ Holds(e.b, row)
    [] OTHER -> /\ ~TermNull(e.a, row) /\ ~TermNull(e.b, row)
                /\ Compare(IF e.op = "lt" THEN "LT" ELSE IF e.op = "le" THEN "LE" ELSE "EQ", TermAt(e.a, row), TermAt(e.b, row))
SourceNull(src, row) ==
  IF src.k = "arith" THEN TermNull(src.l, row) \/ TermNull(src.r, row) ELSE src.k = "col" /\ ~row[src.f].ok

RowAnswer(agg) ==
  LET rows == SelectSeq(AllRows, LAMBDA r : Holds(coCfg.where, r) /\ ~SourceNull(agg.src, r))
      vals == IF agg.src.k = "star" THEN <<>> ELSE [i \in DOMAIN rows |-> SourceAt(agg.src, rows[i])]
  IN CASE agg.fn = "count" -> Num(2 * Len(rows))
       [] rows = <<>> -> CoNull
       [] agg.fn = "sum" -> Num(SumOf(vals))
       [] agg.fn = "avg" -> Ratio(SumOf(vals), Len(vals))
       [] agg.fn = "min" -> Num(Smallest({vals[i] : i \in DOMAIN vals}))
       [] OTHER -> Num(Largest({vals[i] : i \in DOMAIN vals}))

\* The footers alone were read: no part was opened for its batches.
FromFooters == coPart = 1
\* Of a part's row groups, all carry their null counts or none does.
NullCountsWhole(part) == \A g, h \in DOMAIN part.groups : part.groups[g].nullCount = part.groups[h].nullCount
\* COUNT of a column by the null counts of some of its row groups.
CountedInPart(agg) ==
  /\ FromFooters /\ agg.fn = "count" /\ agg.src.k = "col"
  /\ \E p \in DOMAIN coCfg.ks.parts : ~NullCountsWhole(coCfg.ks.parts[p])

\* Whatever route the pass takes (DatastoreAggMetadata, DatastoreAggColumnar),
\* each aggregate is what the row path would have answered over the same files:
\* nulls, parts, batches, swapped comparisons, and statistics that are missing in
\* every file or in some.  The one exception is a COUNT that the footers answer
\* although only some row groups of a file carry a null count: the nulls of the
\* others are counted as values, so that it is never too small and at most all rows.
\* (SUM of no value at all is the business of EmptySumIsNull.)
ColumnarSame ==
  coPc = "done" => \A i \in DOMAIN coOut :
    \/ coSpecs[i].fn = "sum" /\ RowAnswer(coSpecs[i]) = CoNull
    \/ SameVal(coOut[i], RowAnswer(coSpecs[i]))
    \/ CountedInPart(coSpecs[i]) /\ coOut[i].n \in RowAnswer(coSpecs[i]).n..(2 * Len(AllRows))

\* SUM over no numeric input is NULL (AggSum's sentinel), by every route.
EmptySumIsNull ==
  coPc = "done" => \A i \in DOMAIN coOut :
    coSpecs[i].fn = "sum" /\ RowAnswer(coSpecs[i]) = CoNull => coOut[i] = CoNull

-----------------------------------------------------------------------------
(***************************************************************************)
(* SELECT id, VECTOR_DISTANCE(v, q, metric) AS d FROM ks ORDER BY d LIMIT k *)
(* over Parquet: maybeVectorColumnarFuse turns the projection below the     *)
(* ORDER BY and its scan into one vector-distance-columnar operator that    *)
(* reads the vector column as packed float32s and yields ordinary rows; the *)
(* ORDER BY and the projection above it stay.                               *)
(*                                                                         *)
(* A vector is a sequence of numbers, <<>> for an empty or a null list; a   *)
(* batch is a sequence of rows [id, null, vec].  Distances are squared      *)
(* euclidean, dot, or cosine, the last as the triple it is computed from.   *)
(***************************************************************************)

VARIABLES
  vfCfg,           \* the plan, the query vector and the keyspace's batches
  vfPc,            \* "plan", "scan", "row" or "done"
  vfSpecs,         \* per label of the projection: what the fused operator fills in
  vfQ,             \* the query vector, evaluated once
  vfAt,            \* batches read
  vfOut            \* rows yielded to the ORDER BY

vfVars == <<vfCfg, vfPc, vfSpecs, vfQ, vfAt, vfOut>>

-----------------------------------------------------------------------------
\* collectIdentifiers, rowIndependent: the query vector does not read the row
rowIndependent(q) == vfCfg.aliasKnown /\ ~q.readsRow

\* vectorDistanceParts: a bare vector column, a constant metric; the query is a
\* constant array of numbers, or an expression
DistanceParts(p) == p.k = "dist" /\ p.bareField /\ p.metricConst

\* the fill of one label of the projection, "no" when it forbids the rewrite
Spec1(p) ==
  CASE p.k = "pass" -> "pass"
    [] p.k = "dist" /\ DistanceParts(p) ->
         IF vfCfg.vecColumn /\ (vfCfg.q.const \/ rowIndependent(vfCfg.q)) THEN "dist" ELSE "no"
    [] p.k = "field" -> IF p.scalar THEN "scalar" ELSE "no"
    [] OTHER -> "no"

Dists(specs) == {i \in DOMAIN specs : specs[i] = "dist"}

\* (bug) what the ORDER BY reads is not looked at
PassUnreadByStrip(specs) == \A i \in DOMAIN specs : specs[i] = "pass" => i \notin vfCfg.keeps

\* orderRefsPassthrough, and the labels the projection above keeps: a passed
\* label the fused operator leaves MISSING must be read by neither
PassUnread(specs) ==
  \A i \in DOMAIN specs : specs[i] = "pass" => i \notin vfCfg.keeps /\ i \notin vfCfg.orderReads

Fuse ==
  /\ vfPc = "plan"
  /\ LET specs == [i \in DOMAIN vfCfg.aug |-> Spec1(vfCfg.aug[i])]
         ok == /\ \A i \in DOMAIN specs : specs[i] # "no"
               /\ Cardinality(Dists(specs)) = 1
               /\ PassUnread(specs)
     IN /\ vfPc' = IF ok THEN "scan" ELSE "row"
        /\ vfSpecs' = IF ok THEN specs ELSE <<>>
  /\ vfQ' = vfCfg.q.value
  /\ UNCHANGED <<vfCfg, vfAt, vfOut>>

-----------------------------------------------------------------------------
VfNull == [k |-> "null", v |-> <<>>]
VfMissing == [k |-> "missing", v |-> <<>>]
VfVal(v) == [k |-> "val", v |-> v]

Plus(s) == FoldSeq(LAMBDA a, b : a + b, 0, s)
Dot(a, b, dim) == Plus([j \in 1..dim |-> a[j] * b[j]])

\* VectorDistanceVFloat32: one row of width dim; NULL for cosine of a zero norm
\* and for an unknown metric
Distance(v, q, dim, metric) ==
  CASE metric = "l2_squared" -> VfVal(<<Plus([j \in 1..dim |-> (v[j] - q[j]) * (v[j] - q[j])])>>)
    [] metric = "dot" -> VfVal(<<-Dot(v, q, dim)>>)
    [] metric = "cosine" -> IF Dot(v, v, dim) = 0 \/ Dot(q, q, Len(q)) = 0 THEN VfNull
                            ELSE VfVal(<<Dot(v, q, dim), Dot(v, v, dim), Dot(q, q, Len(q))>>)
    [] OTHER -> VfNull

\* arrowVectorBatch: the vectors packed one after the other; the width of the
\* first that is not empty; regular when nothing is null and the packed length
\* is that of rows of that width
Packed(b) == FlattenSeq([r \in DOMAIN b |-> b[r].vec])
Dim(b) ==
  LET full == {r \in DOMAIN b : b[r].vec # <<>>}
  IN IF full = {} THEN 0 ELSE Len(b[CHOOSE r \in full : \A s \in full : r <= s].vec)
Regular(b) == /\ \A r \in DOMAIN b : ~b[r].null
              /\ Dim(b) > 0 /\ Len(Packed(b)) = Len(b) * Dim(b)

\* VectorColumnarScan: the distances of one batch
Distances(b, q, metric) ==
  [r \in DOMAIN b |->
     IF Len(q) # Dim(b) THEN VfNull
     ELSE IF Regular(b) THEN Distance(SubSeq(Packed(b), (r - 1) * Dim(b) + 1, r * Dim(b)), q, Dim(b), metric)
     ELSE IF b[r].vec = <<>> THEN VfNull
     ELSE Distance(b[r].vec, q, Len(b[r].vec), metric)]

\* DatastoreVectorColumnar: one row per source row, its labels filled in
Filled(spec, row, dist) ==
  CASE spec = "scalar" -> VfVal(<<row.id>>)
    [] spec = "dist" -> dist
    [] OTHER -> VfMissing

NextVectorBatch ==
  /\ vfPc = "scan" /\ vfAt < Len(vfCfg.batches)
  /\ LET b == vfCfg.batches[vfAt + 1]
         d == Distances(b, vfQ, vfCfg.metric)
     IN vfOut' = vfOut \o [r \in DOMAIN b |-> [i \in DOMAIN vfSpecs |-> Filled(vfSpecs[i], b[r], d[r])]]
  /\ vfAt' = vfAt + 1
  /\ UNCHANGED <<vfCfg, vfPc, vfSpecs, vfQ>>

ScanEnds ==
  /\ vfPc = "scan" /\ vfAt = Len(vfCfg.batches)
  /\ vfPc' = "done"
  /\ UNCHANGED <<vfCfg, vfSpecs, vfQ, vfAt, vfOut>>

-----------------------------------------------------------------------------
VfInit(Cfgs) ==
  /\ vfCfg \in Cfgs /\ vfPc = (IF vfCfg.aug = <<>> THEN "done" ELSE "plan")
  /\ vfSpecs = <<>> /\ vfQ = <<>> /\ vfAt = 0 /\ vfOut = <<>>

VfNext == Fuse \/ NextVectorBatch \/ ScanEnds

VfDone == vfPc \in {"row", "done"}

-----------------------------------------------------------------------------
\* What the projection yields on the row path: VECTOR_DISTANCE of a vector and
\* a query of different lengths, or of none, is NULL; the query may read the row.
RowQuery(row) == IF vfCfg.q.readsRow THEN row.vec ELSE vfCfg.q.value
RowDistance(row) ==
  LET q == RowQuery(row)
  IN IF row.null \/ row.vec = <<>> \/ Len(q) # Len(row.vec) THEN VfNull ELSE Distance(row.vec, q, Len(q), vfCfg.metric)
RowValue(p, row) ==
  CASE p.k = "pass" -> VfVal(<<row.id>> \o row.vec)
    [] p.k = "dist" -> RowDistance(row)
    [] OTHER -> VfVal(<<row.id>>)
SourceRows == FlattenSeq(vfCfg.batches)

\* The fused operator yields the rows of the projection it replaced, in order,
\* as far as the ORDER BY and the projection above read them (vector.go 49-222).
VectorFuseSame ==
  vfPc = "done" =>
    /\ Len(vfOut) = Len(SourceRows)
    /\ \A r \in DOMAIN vfOut : \A i \in vfCfg.keeps \cup vfCfg.orderReads :
         vfOut[r][i] = RowValue(vfCfg.aug[i], SourceRows[r])

\* The columnar and the fused routes answer what the row path would.
ColumnarExact == ColumnarSame /\ VectorFuseSame
=============================================================================
