------------------------------ MODULE GroupBy ------------------------------
(***************************************************************************)
(* base/agg.go: the aggregates, each an Init, an Update and a Result, used *)
(* by GROUP BY and by window functions.                                    *)
(*                                                                         *)
(* A value is [t, n]: its type and a number; values of different type are  *)
(* ordered by type.  Numbers are integers here.  A result is a sequence of *)
(* values: one value, the numerator and denominator of a quotient, or the  *)
(* elements of an array behind a tag.                                      *)
(***************************************************************************)
EXTENDS RowOps

Null == [t |-> "null", n |-> 0]
Missing == [t |-> "missing", n |-> 0]
Num(n) == [t |-> "number", n |-> n]
Quotient(a, b) == <<Num(a), Num(b)>>
Array(s) == <<[t |-> "array", n |-> 0]>> \o s

TypeRank(v) == CASE v.t = "missing" -> 0 [] v.t = "null" -> 1 [] v.t = "number" -> 2 [] v.t = "string" -> 3
ValLess(a, b) == TypeRank(a) < TypeRank(b) \/ (a.t = b.t /\ a.n < b.n)
HasValue(v) == v.t \notin {"missing", "null"}
IsNumber(v) == v.t = "number"

SumOf(s) ==
  LET sum[i \in 0..Len(s)] == IF i = 0 THEN 0 ELSE sum[i - 1] + s[i].n IN sum[Len(s)]
InSeq(v, s) == \E i \in DOMAIN s : s[i] = v

-----------------------------------------------------------------------------
(* base.Agg: Init, Update and Result of each aggregate.                    *)

\* sum keeps nothing (a NaN) until its first number; avg is a count and a
\* sum; min and max keep a value or nothing; the others keep the values that
\* count.
AggInit(agg) ==
  CASE agg \in {"count", "countn"} -> 0
    [] agg = "avg" -> <<0, 0>>
    [] OTHER -> <<>>

\* Does MIN or MAX look at the value?
Compares(v) == HasValue(v)

\* Mutant: the sentinel of an empty sum is not cleared but replaced.
AddToSumFirst(s, v) == IF s = <<>> THEN <<0>> ELSE <<s[1] + v.n>>

AddToSum(s, v) == IF s = <<>> THEN <<v.n>> ELSE <<s[1] + v.n>>

AggUpdate(agg, a, v) ==
  CASE agg = "count" -> IF HasValue(v) THEN a + 1 ELSE a
    [] agg = "countn" -> IF IsNumber(v) THEN a + 1 ELSE a
    [] agg = "sum" -> IF IsNumber(v) THEN AddToSum(a, v) ELSE a
    [] agg = "avg" -> <<IF HasValue(v) THEN a[1] + 1 ELSE a[1], IF IsNumber(v) THEN a[2] + v.n ELSE a[2]>>
    [] agg = "min" -> IF Compares(v) /\ (a = <<>> \/ ValLess(v, a[1])) THEN <<v>> ELSE a
    [] agg = "max" -> IF Compares(v) /\ (a = <<>> \/ ValLess(a[1], v)) THEN <<v>> ELSE a
    [] agg = "array_agg" -> IF v = Missing THEN a ELSE Append(a, v)
    [] agg \in {"count_distinct", "array_agg_distinct"} -> IF v = Missing \/ InSeq(v, a) THEN a ELSE Append(a, v)
    [] agg \in {"sum_distinct", "avg_distinct", "countn_distinct"} ->
         IF ~IsNumber(v) \/ InSeq(v, a) THEN a ELSE Append(a, v)
    [] agg \in {"median", "var_pop", "var_samp"} -> IF IsNumber(v) THEN Append(a, v) ELSE a

\* The middle value, or twice the mean of the two middle ones, over two.
MedianOf(s) ==
  LET n == Len(s)
      at(m) == CHOOSE v \in {s[i].n : i \in DOMAIN s} :
                 /\ Cardinality({i \in DOMAIN s : s[i].n < v}) < m
                 /\ m <= Cardinality({i \in DOMAIN s : s[i].n <= v})
  IN IF n % 2 = 1 THEN Quotient(2 * at(n \div 2 + 1), 2) ELSE Quotient(at(n \div 2) + at(n \div 2 + 1), 2)

\* The sum of squared deviations from the mean, times the count.
SquaresOf(s) ==
  LET sq == [i \in DOMAIN s |-> Num(s[i].n * s[i].n)]
  IN Len(s) * SumOf(sq) - SumOf(s) * SumOf(s)

AggResult(agg, a) ==
  LET orNull(r) == IF a = <<>> THEN <<Null>> ELSE r
  IN CASE agg \in {"count", "countn"} -> <<Num(a)>>
       [] agg = "sum" -> orNull(<<Num(a[1])>>)
       [] agg = "avg" -> IF a[1] = 0 THEN <<Null>> ELSE Quotient(a[2], a[1])
       [] agg \in {"min", "max"} -> orNull(a)
       [] agg \in {"array_agg", "array_agg_distinct"} -> orNull(Array(a))
       [] agg \in {"count_distinct", "countn_distinct"} -> <<Num(Len(a))>>
       [] agg = "sum_distinct" -> orNull(<<Num(SumOf(a))>>)
       [] agg = "avg_distinct" -> orNull(Quotient(SumOf(a), Len(a)))
       [] agg = "median" -> orNull(MedianOf(a))
       [] agg = "var_pop" -> orNull(Quotient(SquaresOf(a), Len(a) * Len(a)))
       [] agg = "var_samp" -> IF Len(a) < 2 THEN <<Null>> ELSE Quotient(SquaresOf(a), Len(a) * (Len(a) - 1))

-----------------------------------------------------------------------------
\* What SQL says of an aggregate, of the values vals.
AggDefinition(agg, vals) ==
  LET R == DOMAIN vals
      valued == {i \in R : HasValue(vals[i])}
      numbers == {i \in R : IsNumber(vals[i])}
      known == {i \in R : vals[i] # Missing}
      firsts(S) == {i \in S : \A j \in S : vals[i] = vals[j] => i <= j}
      listed(S) == LET s == Ascending(S) IN [x \in DOMAIN s |-> vals[s[x]]]
      sum(S) == SumOf(listed(S))
      orNull(S, r) == IF S = {} THEN <<Null>> ELSE r
      least(S) == CHOOSE v \in {vals[i] : i \in S} : \A i \in S : ~ValLess(vals[i], v)
      most(S) == CHOOSE v \in {vals[i] : i \in S} : \A i \in S : ~ValLess(v, vals[i])
  IN CASE agg = "count" -> <<Num(Cardinality(valued))>>
       [] agg = "countn" -> <<Num(Cardinality(numbers))>>
       [] agg = "sum" -> orNull(numbers, <<Num(sum(numbers))>>)
       [] agg = "min" -> orNull(valued, <<least(valued)>>)
       [] agg = "max" -> orNull(valued, <<most(valued)>>)
       [] agg = "array_agg" -> orNull(known, Array(listed(known)))
       [] agg = "array_agg_distinct" -> orNull(known, Array(listed(firsts(known))))
       [] agg = "count_distinct" -> <<Num(Cardinality(firsts(known)))>>
       [] agg = "countn_distinct" -> <<Num(Cardinality(firsts(numbers)))>>
       [] agg = "sum_distinct" -> orNull(numbers, <<Num(sum(firsts(numbers)))>>)
       [] agg = "avg_distinct" -> orNull(numbers, Quotient(sum(firsts(numbers)), Cardinality(firsts(numbers))))
       [] agg = "avg" -> orNull(valued, Quotient(sum(numbers), Cardinality(valued)))
       [] OTHER -> AggResult(agg, listed(numbers))

-----------------------------------------------------------------------------
(***************************************************************************)
(* engine/op_group.go and base/agg.go: GROUP BY, DISTINCT and aggregates.  *)
(* A map from group key to the accumulators of the group, one for each     *)
(* aggregate, is updated by every row and visited at the end.              *)
(***************************************************************************)

VARIABLES
  grCfg,   \* [grouped, aggs, rows, fail]; a row is <<key, value>>
  grPc,
  grI,
  grMap,   \* lzSet: group key -> accumulators
  grSeen,  \* the groups that the visitor has seen
  grOut,   \* <<key, results>>
  grErr

groupVars == <<grCfg, grPc, grI, grMap, grSeen, grOut, grErr>>

InitAll == [x \in DOMAIN grCfg.aggs |-> AggInit(grCfg.aggs[x])]
UpdateAll(accs, v) == [x \in DOMAIN accs |-> AggUpdate(grCfg.aggs[x], accs[x], v)]
ResultAll(accs) == [x \in DOMAIN accs |-> AggResult(grCfg.aggs[x], accs[x])]

-----------------------------------------------------------------------------
(* OpGroup.                                                                *)

\* The group key of all rows when there is no GROUP BY.
GroupKey(row) == IF grCfg.grouped THEN row[1] ELSE 0

\* A query without GROUP BY has its one group before the first row.
PreSeeded == grCfg.aggs # <<>> /\ ~grCfg.grouped

GroupInit(Cfgs) ==
  /\ grCfg \in Cfgs
  /\ grPc = "rows" /\ grI = 0
  /\ grMap = IF PreSeeded THEN [k \in {0} |-> InitAll] ELSE [k \in {} |-> <<>>]
  /\ grSeen = {} /\ grOut = <<>> /\ grErr = FALSE

\* yieldVals: Init a group not seen before, Update its accumulators.
GroupRow ==
  LET row == grCfg.rows[grI + 1]
      k == GroupKey(row)
      old == IF k \in DOMAIN grMap THEN grMap[k] ELSE InitAll
  IN
  /\ grPc = "rows" /\ grI < Len(grCfg.rows)
  /\ grI' = grI + 1
  /\ grMap' = [x \in DOMAIN grMap \cup {k} |-> IF x = k THEN UpdateAll(old, row[2]) ELSE grMap[x]]
  /\ UNCHANGED <<grCfg, grPc, grSeen, grOut, grErr>>

GroupRowsEnd ==
  /\ grPc = "rows" /\ grI = Len(grCfg.rows)
  /\ grErr' = grCfg.fail
  /\ grPc' = IF grCfg.fail THEN "done" ELSE "visit"
  /\ UNCHANGED <<grCfg, grI, grMap, grSeen, grOut>>

\* lzSetVisitor: the groups come in any order.
GroupVisit ==
  /\ grPc = "visit"
  /\ \E k \in DOMAIN grMap \ grSeen :
       /\ grSeen' = grSeen \cup {k}
       /\ grOut' = Append(grOut, <<k, ResultAll(grMap[k])>>)
  /\ UNCHANGED <<grCfg, grPc, grI, grMap, grErr>>

GroupVisitEnd ==
  /\ grPc = "visit" /\ grSeen = DOMAIN grMap
  /\ grPc' = "done"
  /\ UNCHANGED <<grCfg, grI, grMap, grSeen, grOut, grErr>>

GroupNext == GroupRow \/ GroupRowsEnd \/ GroupVisit \/ GroupVisitEnd

GroupSpec(Cfgs) == GroupInit(Cfgs) /\ [][GroupNext]_groupVars

-----------------------------------------------------------------------------
(* Properties.                                                             *)

\* The values of the rows of group k, in their order.
grGroup(k) ==
  LET rows == Ascending({i \in DOMAIN grCfg.rows : GroupKey(grCfg.rows[i]) = k})
  IN [x \in DOMAIN rows |-> grCfg.rows[rows[x]][2]]

\* Each group is yielded once, with the aggregates of exactly its own rows,
\* however the rows of the groups interleave; without GROUP BY there is one
\* row even of an empty input, with GROUP BY none.
GroupExact ==
  grPc = "done" /\ ~grErr =>
    LET keys == {GroupKey(grCfg.rows[i]) : i \in DOMAIN grCfg.rows}
                  \cup (IF grCfg.grouped \/ grCfg.aggs = <<>> THEN {} ELSE {0})
    IN /\ Len(grOut) = Cardinality(keys)
       /\ {grOut[n] : n \in DOMAIN grOut} =
            {<<k, [x \in DOMAIN grCfg.aggs |-> AggDefinition(grCfg.aggs[x], grGroup(k))]>> : k \in keys}
=============================================================================
