---------------------------- MODULE MCOperators ----------------------------
(***************************************************************************)
(* Instances of the row operators for TLC: one operator over one of its    *)
(* bounded inputs in each behaviour.                                       *)
(***************************************************************************)
EXTENDS Joins, OrderOffsetLimit, GroupBy, Window, MergeScan

VARIABLE operator

SeqsUpTo(n, S) == UNION {[1..i -> S] : i \in 0..n}
KeySorted(rows) == \A i \in 2..Len(rows) : rows[i - 1][1] <= rows[i][1]

-----------------------------------------------------------------------------
(* Merge joins: keys at both ends of int64, a left and a right side that   *)
(* may be out of order, two partitions that interleave.                    *)

EquiSides == SeqsUpTo(3, {0, 1, 3} \X {0})
PartSides == {s \in SeqsUpTo(3, {0, 1, 3} \X {1, 2}) : KeySorted(s)}
Extremes == {s \in SeqsUpTo(2, {MinInt64, 0, MaxInt64} \X {1, 2}) : KeySorted(s)}
Unsorted == {<< <<1, 1>>, <<0, 2>> >>, << <<1, 2>>, <<1, 1>>, <<0, 1>> >>}

MJ(left, right, asof, following, outer, parted, tol, stream, spilled, lfail, rfail) ==
  [left : left, right : right, asof : asof, following : following, outer : outer, parted : parted,
   tol : tol, stream : stream, spilled : spilled, lfail : lfail, rfail : rfail]

Equi == MJ(EquiSides, EquiSides, {"off"}, {FALSE}, BOOLEAN, {FALSE}, {0}, {FALSE}, {FALSE}, {FALSE}, {FALSE})
EquiFails == MJ({<< <<0, 0>>, <<1, 0>> >>}, {<< <<0, 0>>, <<0, 0>>, <<1, 0>> >>}, {"off"}, {FALSE},
                BOOLEAN, {FALSE}, {0}, {FALSE}, BOOLEAN, BOOLEAN, BOOLEAN)
Nearest == MJ({s \in PartSides : Len(s) = 2}, PartSides, {"asof", "soft"}, BOOLEAN, {TRUE}, {TRUE}, {1},
              BOOLEAN, {FALSE}, {FALSE}, {FALSE})
           \cup MJ(Extremes, Extremes, {"asof", "soft"}, BOOLEAN, {FALSE}, BOOLEAN, {1}, BOOLEAN, {FALSE}, {FALSE}, {FALSE})
NearestFails == MJ(Unsorted \cup {<< <<0, 1>>, <<1, 2>>, <<1, 1>> >>}, Unsorted \cup {<< <<0, 1>>, <<1, 2>>, <<3, 1>> >>},
                   {"asof", "soft"}, BOOLEAN, BOOLEAN, BOOLEAN, {0, 2}, BOOLEAN, BOOLEAN, BOOLEAN, BOOLEAN)
MergeJoinConfigs == Equi \cup EquiFails \cup Nearest \cup NearestFails

-----------------------------------------------------------------------------
(* Hash joins and set operators: keys that repeat and keys that are NULL.  *)

HashJoinConfigs ==
  [kind : {"joinHash-inner", "joinHash-leftOuter"}, left : SeqsUpTo(3, {1, 2, NullKey, MissingKey}),
   right : SeqsUpTo(3, {1, 3, NullKey}), labels : {1}, lfail : {FALSE}, rfail : {FALSE}]
  \cup
  [kind : {"joinHash-leftOuter", "except-all"}, left : {<<1, 2>>}, right : {<<1, 3>>, <<1, MissingKey>>}, labels : {1},
   lfail : BOOLEAN, rfail : BOOLEAN]
  \cup
  [kind : {"intersect-all", "intersect-distinct", "except-all", "except-distinct"},
   left : SeqsUpTo(3, {1, 2}), right : SeqsUpTo(3, {1, 3}), labels : {1, 110}, lfail : {FALSE}, rfail : {FALSE}]

Drives == SeqsUpTo(2, {10, 20} \X BOOLEAN)
NestedLoopConfigs ==
  {c \in [kind : {"joinNL", "nestNL", "joinKeys", "nestKeys", "unnest"}, outer : BOOLEAN,
          drives : SeqsUpTo(2, Drives), fails : {{}, {1}, {2}}] : c.fails \subseteq DOMAIN c.drives}

-----------------------------------------------------------------------------
(* ORDER BY / OFFSET / LIMIT: two directions with every place of NULLs,    *)
(* ties, and OFFSET + LIMIT beyond int64 (MaxInt64 is 7 here).             *)

Dirs == [asc : BOOLEAN, nulls : {"natural", "first", "last"}]
OrderConfigs ==
  {c \in [keys : SeqsUpTo(4, {0, 1, 2, 3} \X {0}), dirs : {<<d>> : d \in Dirs}, offset : {0, 1, 3, MaxInt64}, limit : {0, 1, 3, MaxInt64},
          fail : {FALSE}] : Len(c.keys) < 4 \/ c.offset = 1}
  \cup
  [keys : SeqsUpTo(3, {0, 2} \X {2, 3}), dirs : {<<>>} \cup {<<[asc |-> TRUE, nulls |-> "last"], [asc |-> FALSE, nulls |-> "natural"]>>},
   offset : {0, 1, 2, MaxInt64}, limit : {0, 1, 2, MaxInt64}, fail : BOOLEAN]

-----------------------------------------------------------------------------
(* Groups: every type of value, two groups that interleave.                *)

GroupAggs ==
  {<<"count", "countn", "sum", "avg", "min", "max", "array_agg", "median", "var_pop", "var_samp", "count_distinct",
     "countn_distinct", "array_agg_distinct", "sum_distinct", "avg_distinct">>, <<>>}
GroupConfigs ==
  [grouped : BOOLEAN, aggs : GroupAggs,
   rows : SeqsUpTo(3, {1, 2} \X {Missing, Null, Num(1), Num(3), [t |-> "string", n |-> 1]}), fail : {FALSE}]
  \cup [grouped : BOOLEAN, aggs : GroupAggs, rows : {<<>>, << <<1, Num(2)>>, <<2, Num(2)>> >>}, fail : {TRUE}]

-----------------------------------------------------------------------------
(* Windows: peers, NULL before numbers before a string in the ORDER BY     *)
(* column, two partitions, every kind of frame.                            *)

Str == [t |-> "string", n |-> 1]
Orders == {<<>>, <<Num(1)>>, <<Num(1), Num(1)>>, <<Null, Num(0), Num(1), Str>>, <<Null, Null, Num(1), Num(2)>>,
           <<Num(0), Num(1), Num(1), Num(3)>>, <<Num(0), Num(0), Num(2), Num(3)>>, <<Num(1), Num(1), Num(1), Num(2)>>,
           <<Num(0), Num(1), Num(2), Num(3)>>, <<Num(0), Num(2), Str, Str>>}
Operands == {<<Num(2), Num(1), Num(3), Num(1)>>, <<Null, Num(2), Str, Num(2)>>, <<Num(1), Missing, Num(3), Num(2)>>}
Windows(parts) ==
  {[i \in 1..Len(o) |-> <<parts[i], o[i], v[i]>>] : o \in Orders, v \in Operands}
OneWindow == Windows(<<"", "", "", "">>)
TwoWindows == Windows(<<"p", "p", "q", "q">>) \cup Windows(<<"p", "q", "q", "q">>)

Bounds == {<<"rows", b, e>> : b \in {Unbounded, -2, 0, 1}, e \in {Unbounded, -1, 0, 2}}
          \cup {<<"range", b, e>> : b \in {Unbounded, -1, 0, 1}, e \in {Unbounded, -1, 0, 1}}
          \cup {<<"groups", b, e>> : b \in {Unbounded, -1, 0, 1}, e \in {Unbounded, -3, -1, 0, 1}}
WN(parted, rows, fns, nums, frames, excludes, ends) ==
  {[parted |-> parted, rows |-> r, fn |-> f, num |-> n, type |-> b[1], beg |-> b[2], end |-> b[3],
    exclude |-> x, fail |-> e] : r \in rows, f \in fns, n \in nums, b \in frames, x \in excludes, e \in ends}
WindowConfigs ==
  WN(FALSE, OneWindow, {"count", "sum", "avg", "min", "max"}, {1}, Bounds, {"no-others"}, {FALSE})
  \cup WN(FALSE, OneWindow, {"array_agg", "first_value", "last_value"}, {1},
          {b \in Bounds : b[2] # 0 /\ b[3] # -1}, {"no-others", "current-row", "group", "ties"}, {FALSE})
  \cup WN(TRUE, TwoWindows, {"count", "ratio_to_report", "max"}, {1},
          {b \in Bounds : b[2] # -2 /\ b[3] \in {Unbounded, 0, 1}}, {"no-others"}, {FALSE})
  \cup WN(TRUE, TwoWindows, Ranks \cup {"nth_value", "lag", "lead"}, {1, 2, 3}, {<<"range", Unbounded, 0>>}, {"no-others"}, BOOLEAN)

-----------------------------------------------------------------------------
(* Merge scans: every input of a bounded length, any children that fail.   *)

KeyRows(n, keys) == UNION {[1..i -> keys] : i \in 0..n}
Pairs(S) == {<<x, y>> : x \in S, y \in S}
Merges(inputs, sorts, bound, policies) ==
  UNION {[input : {x}, sortedness : {sorts}, bounds : {bound}, fails : SUBSET DOMAIN x, policy : policies] : x \in inputs}

\* Two strict children, keys up to the largest.
StrictMerges == Merges(Pairs(KeyRows(3, {0, 1, MaxInt64})), <<"strict", "strict">>, <<0, 0>>, {"error"})

\* Two nearly sorted children with different bounds, and a nearly sorted one
\* with a strict one, keys at both ends of int64.
NearMerges ==
  Merges(Pairs(KeyRows(3, {5, 6, MaxInt64})), <<"near", "near">>, <<2, 1>>, {"error", "widen"})
  \cup Merges(Pairs(KeyRows(2, {MinInt64, -7, 6, MaxInt64})), <<"near", "strict">>, <<2, 0>>, {"error", "widen"})

\* A single child: the streaming variant.
StreamMerges == Merges({<<x>> : x \in KeyRows(5, {MinInt64, -7, 4, 5, MaxInt64})}, <<"near">>, <<2>>, {"error", "widen"})

MergeConfigs == StrictMerges \cup NearMerges \cup StreamMerges

-----------------------------------------------------------------------------
MergeJoinIdle == [left |-> <<>>, right |-> <<>>, asof |-> "off", following |-> FALSE, outer |-> FALSE, parted |-> FALSE,
                  tol |-> 0, stream |-> FALSE, spilled |-> FALSE, lfail |-> FALSE, rfail |-> FALSE]
HashJoinIdle == [kind |-> "joinHash-inner", left |-> <<>>, right |-> <<>>, labels |-> 1, lfail |-> FALSE, rfail |-> FALSE]
NestedLoopIdle == [kind |-> "joinNL", outer |-> FALSE, drives |-> <<>>, fails |-> {}]
OrderIdle == [keys |-> <<>>, dirs |-> <<>>, offset |-> 0, limit |-> 0, fail |-> FALSE]
WindowIdle == [parted |-> FALSE, rows |-> <<>>, fn |-> "count", num |-> 1, type |-> "rows", beg |-> 0, end |-> 0,
               exclude |-> "no-others", fail |-> FALSE]
GroupIdle == [grouped |-> FALSE, aggs |-> <<>>, rows |-> <<>>, fail |-> FALSE]
MergeIdle == [input |-> << <<>> >>, sortedness |-> <<"near">>, bounds |-> <<0>>, fails |-> {}, policy |-> "error"]

Init ==
  /\ operator \in {"mergeJoin", "hashJoin", "nestedLoop", "order", "group", "window", "merge"}
  /\ MergeJoinInit(IF operator = "mergeJoin" THEN MergeJoinConfigs ELSE {MergeJoinIdle})
  /\ HashJoinInit(IF operator = "hashJoin" THEN HashJoinConfigs ELSE {HashJoinIdle})
  /\ NestedLoopInit(IF operator = "nestedLoop" THEN NestedLoopConfigs ELSE {NestedLoopIdle})
  /\ OrderInit(IF operator = "order" THEN OrderConfigs ELSE {OrderIdle})
  /\ GroupInit(IF operator = "group" THEN GroupConfigs ELSE {GroupIdle})
  /\ WindowInit(IF operator = "window" THEN WindowConfigs ELSE {WindowIdle})
  /\ MergeInit(IF operator = "merge" THEN MergeConfigs ELSE {MergeIdle})

allVars == <<mergeJoinVars, hashJoinVars, nestedLoopVars, orderVars, groupVars, windowVars, mergeVars, operator>>

\* An operator that is done stays so; one that is not done can go on.
Done ==
  /\ CASE operator = "mergeJoin" -> mjPc = "done" [] operator = "hashJoin" -> hjPc = "done"
       [] operator = "nestedLoop" -> nlPc = "done" [] operator = "order" -> olPc = "done"
       [] operator = "group" -> grPc = "done" [] operator = "window" -> wnPc = "done"
       [] operator = "merge" -> pc = "done"
  /\ UNCHANGED allVars

Next ==
  \/ /\ operator = "mergeJoin" /\ MergeJoinNext
     /\ UNCHANGED <<hashJoinVars, nestedLoopVars, orderVars, groupVars, windowVars, mergeVars, operator>>
  \/ /\ operator = "hashJoin" /\ HashJoinNext
     /\ UNCHANGED <<mergeJoinVars, nestedLoopVars, orderVars, groupVars, windowVars, mergeVars, operator>>
  \/ /\ operator = "nestedLoop" /\ NestedLoopNext
     /\ UNCHANGED <<mergeJoinVars, hashJoinVars, orderVars, groupVars, windowVars, mergeVars, operator>>
  \/ /\ operator = "order" /\ OrderNext
     /\ UNCHANGED <<mergeJoinVars, hashJoinVars, nestedLoopVars, groupVars, windowVars, mergeVars, operator>>
  \/ /\ operator = "group" /\ GroupNext
     /\ UNCHANGED <<mergeJoinVars, hashJoinVars, nestedLoopVars, orderVars, windowVars, mergeVars, operator>>
  \/ /\ operator = "window" /\ WindowNext
     /\ UNCHANGED <<mergeJoinVars, hashJoinVars, nestedLoopVars, orderVars, groupVars, mergeVars, operator>>
  \/ /\ operator = "merge" /\ MergeNext
     /\ UNCHANGED <<mergeJoinVars, hashJoinVars, nestedLoopVars, orderVars, groupVars, windowVars, operator>>
  \/ Done

Spec == Init /\ [][Next]_allVars
=============================================================================
