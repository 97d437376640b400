---------------------------- MODULE OperatorProofs ----------------------------
(***************************************************************************)
(* Proofs about operators that put rows in order.                          *)
(*                                                                         *)
(* The merge scan (MergeScan): whatever the number of its children, their  *)
(* rows, bounds and zone maps, and whatever the width of the keys, its     *)
(* output is sorted and complete or it ends with an error, and it reports  *)
(* no disorder that its children do not have.                              *)
(*                                                                         *)
(* ORDER BY, OFFSET and LIMIT (OrderOffsetLimit): for any rows, keys,      *)
(* directions and counts, the rows yielded are the asked-for slice of the  *)
(* input in order, and the heap holds no more than OFFSET + LIMIT rows.    *)
(*                                                                         *)
(* The joins (Joins): for any rows, keys, partitions and tolerance, the    *)
(* merge join yields what the definition of the join asks for or fails,    *)
(* and it holds the right rows of its band only; the nested loop, the hash *)
(* join, INTERSECT and EXCEPT yield each row as often as they should.      *)
(*                                                                         *)
(* The contexts of matches (ContextQuery): for any pack of statements,     *)
(* windows and rows, an extractor yields what the window it replaces       *)
(* selects, each row once, and remembers no more rows than its context.    *)
(***************************************************************************)
EXTENDS MergeScan, OrderOffsetLimit, Joins, ContextQuery, FunctionTheorems, FiniteSetTheorems,
  WellFoundedInduction, SequenceTheorems, TLAPS

-----------------------------------------------------------------------------
(* Numbers.                                                                *)

LEMMA LeastNumber ==
  ASSUME NEW T \in SUBSET Nat, T # {}
  PROVE  \E x \in T : \A y \in T : x <= y
<1> DEFINE R == OpToRel(<, Nat)
<1>1. IsWellFoundedOn(R, Nat) BY NatLessThanWellFounded
<1> HIDE DEF R
<1>2. PICK x \in T : \A y \in T : ~(<<y, x>> \in R) BY <1>1, WFMin
<1>3. \A y \in T : <<y, x>> \in R <=> y < x BY DEF R, OpToRel
<1>4. \A y \in T : ~(y < x) /\ y \in Nat /\ x \in Nat BY <1>2, <1>3
<1>5. \A y \in T : x <= y BY <1>4
<1> QED BY <1>5

\* LeastOf and MostOf are elements, and bounds.
LEMMA MinMax ==
  ASSUME NEW a \in Int, NEW b \in Int, NEW S \in SUBSET (a..b), S # {}
  PROVE  /\ LeastOf(S) \in S /\ \A y \in S : LeastOf(S) <= y
         /\ MostOf(S) \in S /\ \A y \in S : y <= MostOf(S)
<1>1. \E x \in S : \A y \in S : x <= y
 <2> DEFINE T == {x - a : x \in S}
 <2>1. T \in SUBSET Nat /\ T # {}
  <3>1. \A x \in S : x - a \in Nat OBVIOUS
  <3> QED BY <3>1
 <2>2. PICK m \in T : \A y \in T : m <= y BY <2>1, LeastNumber
 <2>3. PICK x \in S : m = x - a OBVIOUS
 <2>4. \A y \in S : m <= y - a BY <2>2
 <2>5. \A y \in S : x <= y BY <2>3, <2>4
 <2> QED BY <2>5
<1>2. \E x \in S : \A y \in S : y <= x
 <2> DEFINE T == {b - x : x \in S}
 <2>1. T \in SUBSET Nat /\ T # {}
  <3>1. \A x \in S : b - x \in Nat OBVIOUS
  <3> QED BY <3>1
 <2>2. PICK m \in T : \A y \in T : m <= y BY <2>1, LeastNumber
 <2>3. PICK x \in S : m = b - x OBVIOUS
 <2>4. \A y \in S : m <= b - y BY <2>2
 <2>5. \A y \in S : y <= x BY <2>3, <2>4
 <2> QED BY <2>5
<1> QED BY <1>1, <1>2 DEF LeastOf, MostOf

\* The child that is being concatenated, and the end.
LEMMA CurrentFacts ==
  ASSUME K \in Nat \ {0}, Children = 1..K
  PROVE  /\ Current \in Children => Current \in Live
         /\ \A c \in Children : c \in Live => Current <= c
         /\ Current = K + 1 => Live = {}
<1> DEFINE S == {c \in Children : c \in Live} \cup {K + 1}
           n == K + 1
           one == 1
<1>1. one \in Int /\ n \in Int /\ S \in SUBSET (one..n) /\ S # {} /\ n \notin Children OBVIOUS
<1>2. Current = LeastOf(S) BY DEF Current
<1>3. \A c \in Children : c \in S <=> c \in Live BY <1>1
<1>4. Live \subseteq Children BY DEF Live
<1> HIDE DEF S, n, one
<1>5. LeastOf(S) \in S /\ \A y \in S : LeastOf(S) <= y BY <1>1, MinMax, Zenon
<1>6. Current = K + 1 => Live = {} BY <1>2, <1>3, <1>4, <1>5
<1> QED BY <1>2, <1>3, <1>5, <1>6

LEMMA Width ==
  /\ Half \in Nat /\ Half > 1 /\ MinInt64 \in Int /\ MaxInt64 \in Nat
  /\ MinInt64 = 0 - Half /\ MaxInt64 = Half - 1
  /\ Int64 \subseteq Int /\ 0 \in Int64 /\ MinInt64 \in Int64 /\ MaxInt64 \in Int64
  /\ \A k \in Int64 : MinInt64 <= k /\ k <= MaxInt64
BY WidthAssumption DEF MinInt64, MaxInt64, Int64

LEMMA MostOfTwo ==
  ASSUME NEW a \in Int64, NEW b \in Int64
  PROVE  MostOf({a, b}) \in {a, b} /\ a <= MostOf({a, b}) /\ b <= MostOf({a, b})
<1> DEFINE S == {a, b}
<1>1. S \in SUBSET (MinInt64..MaxInt64) /\ S # {} BY DEF Int64
<1>2. a \in S /\ b \in S OBVIOUS
<1> HIDE DEF S
<1>3. MostOf(S) \in S /\ \A y \in S : y <= MostOf(S) BY <1>1, MinMax, Width
<1> QED BY <1>2, <1>3 DEF S

\* The subtraction of the code is exact, unless it underflows.
LEMMA LowerByExact ==
  ASSUME NEW k \in Int64, NEW bound \in 0..MaxInt64
  PROVE  LowerBy(k, bound) = IF k - bound >= MinInt64 THEN k - bound ELSE MinInt64
<1> DEFINE n == 2 * Half
           x == k - bound - MinInt64
<1>1. n \in Nat \ {0} /\ x \in Int /\ x < n /\ -n <= x BY Width DEF Int64
<1>2. Sub(k, bound) = MinInt64 + (x % n) BY DEF Sub, Wrap
<1>3. CASE x >= 0
 <2>1. x % n = x
  <3> HIDE DEF x, n
  <3> QED BY <1>1, <1>3
 <2>2. Sub(k, bound) = k - bound /\ k - bound >= MinInt64 /\ ~(k - bound > k) BY <1>2, <1>3, <2>1, Width
 <2> QED BY <2>2, Width DEF LowerBy
<1>4. CASE x < 0
 <2>1. x % n = x + n
  <3> HIDE DEF x, n
  <3> QED BY <1>1, <1>4
 <2>2. Sub(k, bound) = k - bound + n /\ k - bound < MinInt64 BY <1>2, <1>4, <2>1, Width
 <2>3. bound > 0 /\ Sub(k, bound) > k BY <2>2, Width DEF Int64
 <2> QED BY <2>2, <2>3, Width DEF LowerBy
<1> QED BY <1>1, <1>3, <1>4

LEMMA SubType ==
  ASSUME NEW a \in Int64, NEW b \in Int64
  PROVE  Sub(a, b) \in Int64
<1> DEFINE n == 2 * Half
           x == a - b - MinInt64
<1>1. n \in Nat \ {0} /\ x \in Int BY Width DEF Int64
<1>2. x % n \in 0..(n - 1)
 <2> HIDE DEF x, n
 <2> QED BY <1>1
<1> QED BY <1>2, Width DEF Sub, Wrap, Int64

-----------------------------------------------------------------------------
(* The input.                                                              *)

InputOK ==
  /\ input \in Seq(Seq(Int64)) /\ input # <<>>
  /\ sortedness \in [Children -> {"strict", "near", "none"}]
  /\ bounds \in [Children -> 0..MaxInt64]
  /\ policy \in {"error", "widen"}
  /\ fails \subseteq Children

LEMMA InputFacts ==
  ASSUME InputOK
  PROVE  /\ K \in Nat \ {0} /\ Children = 1..K
         /\ \A c \in Children : /\ Len(input[c]) \in Nat /\ DOMAIN input[c] = 1..Len(input[c])
                                /\ \A i \in 1..Len(input[c]) : input[c][i] \in Int64
<1>1. input \in Seq(Seq(Int64)) /\ input # <<>> BY DEF InputOK
<1>2. K \in Nat \ {0} /\ Children = 1..K BY <1>1 DEF K, Children
<1>3. ASSUME NEW c \in Children PROVE input[c] \in Seq(Int64) BY <1>1, <1>2 DEF K, Children
<1>4. ASSUME NEW s \in Seq(Int64) PROVE Len(s) \in Nat /\ DOMAIN s = 1..Len(s) /\ \A i \in 1..Len(s) : s[i] \in Int64
  OBVIOUS
<1> QED BY <1>2, <1>3, <1>4

LEMMA RowFacts ==
  ASSUME InputOK
  PROVE  /\ \A r \in AllRows : /\ r[1] \in Children /\ r[2] \in 1..Len(input[r[1]]) /\ r = <<r[1], r[2]>>
                               /\ Key(r) \in Int64 /\ Key(r) = input[r[1]][r[2]]
         /\ \A c \in Children : \A i \in 1..Len(input[c]) : <<c, i>> \in AllRows /\ Key(<<c, i>>) = input[c][i]
<1>1. ASSUME NEW r \in AllRows
      PROVE  /\ r[1] \in Children /\ r[2] \in 1..Len(input[r[1]]) /\ r = <<r[1], r[2]>>
             /\ Key(r) \in Int64 /\ Key(r) = input[r[1]][r[2]]
 <2>0. PICK c \in Children : \E i \in DOMAIN input[c] : r = <<c, i>> BY DEF AllRows
 <2>1. PICK i \in DOMAIN input[c] : r = <<c, i>> BY <2>0
 <2> QED BY <2>1, InputFacts DEF Key
<1>2. ASSUME NEW c \in Children, NEW i \in 1..Len(input[c])
      PROVE  <<c, i>> \in AllRows /\ Key(<<c, i>>) = input[c][i] BY <1>2, InputFacts DEF AllRows, Key
<1> QED BY <1>1, <1>2

LEMMA InputKept ==
  ASSUME UNCHANGED inVars
  PROVE  /\ input' = input /\ K' = K /\ Children' = Children /\ AllRows' = AllRows
         /\ \A r : Key(r)' = Key(r)
         /\ InputOK' = InputOK /\ mergeHasNear' = mergeHasNear /\ mergeMaxBound' = mergeMaxBound
         /\ policy' = policy /\ fails' = fails /\ bounds' = bounds /\ sortedness' = sortedness /\ zones' = zones
<1> USE DEF inVars
<1>1. K' = K /\ Children' = Children /\ \A r : Key(r)' = Key(r) BY DEF K, Children, Key
<1>2. AllRows' = AllRows BY <1>1 DEF AllRows
<1>3. InputOK' = InputOK BY <1>1 DEF InputOK
<1>4. mergeHasNear' = mergeHasNear /\ mergeMaxBound' = mergeMaxBound BY <1>1 DEF mergeHasNear, mergeMaxBound
<1> QED BY <1>1, <1>2, <1>3, <1>4

-----------------------------------------------------------------------------
(* Rows: nothing is lost or doubled on the way from the children through   *)
(* the reorder buffer to the output.                                       *)

OutRows == {out[i] : i \in DOMAIN out}
Consumed == {r \in AllRows : r[2] <= pos[r[1]]}

PcNames == {"choose", "concatenate", "heap", "kway", "stream", "ingest", "emit", "flush", "release", "done"}

MergeTypes ==
  /\ InputOK /\ pc \in PcNames
  /\ pos \in [Children -> Nat] /\ \A c \in Children : pos[c] <= Len(input[c])
  /\ buf \subseteq AllRows /\ out \in Seq(AllRows)
  /\ effBound \in 0..MaxInt64 /\ runningMax \in Int64 /\ wm \in Int64 /\ lastKey \in Int64
  /\ emitted \in BOOLEAN /\ err \in {"none", "order", "bound", "child"}

Injective == \A i, j \in DOMAIN out : out[i] = out[j] => i = j

RowsInv ==
  /\ OutRows \cap buf = {} /\ OutRows \cup buf \subseteq Consumed
  /\ err = "none" => OutRows \cup buf = Consumed
  /\ Injective

ControlInv ==
  /\ pc \in {"choose", "concatenate", "heap"} => buf = {}
  /\ pc \in {"stream", "ingest"} => K = 1
  /\ pc = "kway" => K > 1
  /\ pc \in {"choose", "kway", "stream", "ingest", "emit", "flush"} => err = "none"
  /\ pc \in {"concatenate", "heap"} => err \in {"none", "order"}
  /\ pc = "ingest" \/ (pc = "emit" /\ K = 1) => 1 \in Live
  /\ pc = "flush" => Live = {} /\ wm = MaxInt64
  /\ pc = "release" /\ err = "none" => Live = {} /\ buf = {}
  /\ pc = "done" /\ err = "none" => Live = {} /\ buf = {} /\ fails = {}

OrderInv ==
  /\ emitted <=> out # <<>>
  /\ emitted => lastKey = Key(out[Len(out)])
  /\ SortedOutput

MergeInv == MergeTypes /\ RowsInv /\ ControlInv /\ OrderInv

LEMMA HeadFacts ==
  ASSUME MergeTypes, NEW c \in Live
  PROVE  /\ c \in Children /\ pos[c] \in Nat /\ pos[c] + 1 \in 1..Len(input[c])
         /\ HeadRow(c) \in AllRows /\ HeadRow(c) \notin Consumed /\ HeadRow(c) = <<c, pos[c] + 1>>
         /\ Key(HeadRow(c)) = HeadKey(c) /\ HeadKey(c) \in Int64
<1>1. InputOK /\ c \in Children /\ pos[c] < Len(input[c]) /\ pos[c] \in Nat BY DEF MergeTypes, Live
<1>2. Len(input[c]) \in Nat BY <1>1, InputFacts
<1>3. pos[c] + 1 \in 1..Len(input[c]) BY <1>1, <1>2
<1>4. HeadRow(c) \in AllRows /\ Key(HeadRow(c)) = input[c][pos[c] + 1] BY <1>1, <1>3, RowFacts DEF HeadRow
<1>5. HeadRow(c) \notin Consumed BY <1>1 DEF Consumed, HeadRow
<1> QED BY <1>1, <1>3, <1>4, <1>5, InputFacts DEF HeadKey, HeadRow

LEMMA AdvanceFacts ==
  ASSUME MergeTypes, NEW c \in Live, Advance(c), UNCHANGED inVars
  PROVE  /\ pos' \in [Children -> Nat] /\ \A d \in Children : pos'[d] <= Len(input[d])
         /\ pos'[c] = pos[c] + 1 /\ \A d \in Children : d # c => pos'[d] = pos[d]
         /\ Consumed' = Consumed \cup {HeadRow(c)}
<1>1. /\ c \in Children /\ pos[c] \in Nat /\ pos[c] + 1 \in 1..Len(input[c])
      /\ HeadRow(c) \in AllRows /\ HeadRow(c) = <<c, pos[c] + 1>> BY HeadFacts
<1>2. InputOK /\ pos \in [Children -> Nat] /\ \A d \in Children : pos[d] <= Len(input[d]) BY DEF MergeTypes
<1>3. pos' \in [Children -> Nat] /\ pos'[c] = pos[c] + 1 /\ \A d \in Children : d # c => pos'[d] = pos[d]
  BY <1>1, <1>2 DEF Advance
<1>4. \A d \in Children : pos'[d] <= Len(input[d]) BY <1>1, <1>2, <1>3
<1>5. Consumed' = {r \in AllRows : r[2] <= pos'[r[1]]} BY InputKept DEF Consumed
<1>6. ASSUME NEW r \in AllRows PROVE r[2] <= pos'[r[1]] <=> (r[2] <= pos[r[1]] \/ r = HeadRow(c))
 <2>1. r[1] \in Children /\ r[2] \in Int /\ r = <<r[1], r[2]>> BY <1>2, RowFacts
 <2>2. CASE r[1] = c BY <1>1, <1>3, <2>1, <2>2
 <2>3. CASE r[1] # c BY <1>1, <1>3, <2>1, <2>3
 <2> QED BY <2>2, <2>3
<1> QED BY <1>1, <1>3, <1>4, <1>5, <1>6 DEF Consumed

LEMMA YieldFacts ==
  ASSUME MergeTypes, OrderInv, Injective, NEW r \in AllRows, r \notin OutRows, Yield(r), UNCHANGED inVars,
         policy = "error" => ~OutOfOrder(Key(r))
  PROVE  /\ out' \in Seq(AllRows) /\ lastKey' \in Int64 /\ emitted' \in BOOLEAN
         /\ OutRows' = OutRows \cup {r} /\ Injective' /\ OrderInv'
<1> DEFINE n == Len(out)
<1>1. InputOK /\ out \in Seq(AllRows) BY DEF MergeTypes
<1>2. n \in Nat /\ DOMAIN out = 1..n /\ \A i \in 1..n : out[i] \in AllRows BY <1>1
<1>3. out' = Append(out, r) /\ lastKey' = Key(r) /\ emitted' = TRUE BY DEF Yield
<1>4. /\ out' \in Seq(AllRows) /\ Len(out') = n + 1 /\ out'[n + 1] = r /\ \A i \in 1..n : out'[i] = out[i]
  BY <1>1, <1>3, AppendProperties
<1>5. DOMAIN out' = 1..(n + 1) /\ out' # <<>> BY <1>2, <1>4
<1> HIDE DEF n
<1>6. \A i \in 1..(n + 1) : i \in 1..n \/ i = n + 1 BY <1>2
<1>7. n + 1 \in 1..(n + 1) /\ \A i \in 1..n : i \in 1..(n + 1) /\ i # n + 1 /\ i < n + 1 /\ ~(n + 1 < i) BY <1>2
<1>8. OutRows' = OutRows \cup {r}
 <2>1. \A x \in OutRows : \E i \in DOMAIN out' : out'[i] = x BY <1>2, <1>4, <1>5, <1>7 DEF OutRows
 <2>2. \A i \in DOMAIN out' : out'[i] \in OutRows \cup {r} BY <1>2, <1>4, <1>5, <1>6 DEF OutRows
 <2>3. r \in OutRows' BY <1>4, <1>5, <1>7 DEF OutRows
 <2> QED BY <2>1, <2>2, <2>3 DEF OutRows
<1>9. Injective'
 <2>1. \A i \in 1..n : out[i] # r BY <1>2 DEF OutRows
 <2> QED BY <1>2, <1>4, <1>5, <1>6, <2>1 DEF Injective
<1>10. SortedOutput'
 <2>1. SUFFICES ASSUME policy = "error", NEW i \in 1..(n + 1), NEW j \in 1..(n + 1), i < j
                PROVE  Key(out'[i]) <= Key(out'[j]) BY <1>5, InputKept DEF SortedOutput
 <2>2. i \in 1..n BY <1>2, <2>1
 <2>3. CASE j \in 1..n BY <1>2, <1>4, <2>1, <2>2, <2>3 DEF OrderInv, SortedOutput
 <2>4. CASE j = n + 1
  <3>1. emitted /\ lastKey = Key(out[n]) /\ n \in 1..n BY <1>2, <2>2 DEF OrderInv, n
  <3>2. ~(Key(r) < lastKey) BY <2>1, <3>1 DEF OutOfOrder
  <3>3. Key(r) \in Int /\ Key(out[i]) \in Int /\ Key(out[n]) \in Int BY <1>1, <1>2, <2>2, <3>1, RowFacts, Width
  <3>4. Key(out[i]) <= Key(out[n])
   <4>1. CASE i = n BY <3>3, <4>1
   <4>2. CASE i # n BY <1>2, <2>1, <2>2, <3>1, <4>2 DEF OrderInv, SortedOutput
   <4> QED BY <4>1, <4>2
  <3> QED BY <1>4, <2>2, <2>4, <3>1, <3>2, <3>3, <3>4
 <2> QED BY <1>6, <2>3, <2>4
<1>11. OrderInv' BY <1>3, <1>4, <1>5, <1>10, InputKept DEF OrderInv
<1>12. lastKey' \in Int64 /\ emitted' \in BOOLEAN BY <1>1, <1>3, RowFacts
<1> QED BY <1>4, <1>8, <1>9, <1>11, <1>12

LEMMA IngestFacts ==
  ASSUME MergeTypes, RowsInv, err = "none", NEW c \in Live, NEW next, Advance(c), Ingest(HeadRow(c), next),
         UNCHANGED <<inVars, out, lastKey, emitted>>
  PROVE  /\ buf' \subseteq AllRows /\ effBound' \in 0..MaxInt64 /\ effBound' >= effBound
         /\ (err' = "none" /\ pc' = next) \/ (err' = "bound" /\ pc' = "release")
         /\ RowsInv'
<1> DEFINE r == HeadRow(c)
<1>1. r \in AllRows /\ r \notin Consumed /\ Key(r) \in Int64 BY HeadFacts
<1>2. Consumed' = Consumed \cup {r} BY AdvanceFacts
<1>3. /\ OutRows \cap buf = {} /\ OutRows \cup buf = Consumed /\ Injective /\ buf \subseteq AllRows
      /\ effBound \in 0..MaxInt64 /\ lastKey \in Int64 BY DEF RowsInv, MergeTypes
<1>4. OutRows' = OutRows /\ Injective' BY <1>3 DEF OutRows, Injective
<1> HIDE DEF r
<1>5. CASE OutOfOrder(Key(r)) /\ policy = "error"
 <2>1. err' = "bound" /\ pc' = "release" /\ buf' = buf /\ effBound' = effBound BY <1>5 DEF Ingest, r
 <2>2. RowsInv' BY <1>2, <1>3, <1>4, <2>1 DEF RowsInv
 <2> QED BY <1>3, <2>1, <2>2
<1>6. CASE ~(OutOfOrder(Key(r)) /\ policy = "error")
 <2>1. err' = err /\ pc' = next /\ buf' = buf \cup {r} /\ (effBound' = effBound \/ effBound' = Widen(Key(r)))
   BY <1>6 DEF Ingest, r
 <2>2. Widen(Key(r)) \in 0..MaxInt64 /\ Widen(Key(r)) >= effBound BY <1>1, <1>3, SubType, Width DEF Widen, Int64
 <2>3. RowsInv' BY <1>1, <1>2, <1>3, <1>4, <2>1 DEF RowsInv
 <2>4. effBound' \in 0..MaxInt64 /\ effBound' >= effBound BY <1>3, <2>1, <2>2
 <2> QED BY <1>1, <1>3, <2>1, <2>3, <2>4
<1> QED BY <1>5, <1>6

LEMMA BoundType ==
  ASSUME InputOK
  PROVE  mergeMaxBound \in 0..MaxInt64 /\ \A c \in Children : sortedness[c] # "strict" => bounds[c] <= mergeMaxBound
<1> DEFINE S == {0} \cup {bounds[c] : c \in {d \in Children : sortedness[d] # "strict"}}
<1>1. S \in SUBSET (0..MaxInt64) /\ S # {} BY Width DEF InputOK
<1>2. MostOf(S) \in S /\ \A y \in S : y <= MostOf(S)
 <2> HIDE DEF S
 <2> QED BY <1>1, MinMax, Width
<1>3. mergeMaxBound = MostOf(S) BY DEF mergeMaxBound
<1> QED BY <1>1, <1>2, <1>3

\* A watermark is a key.
LEMMA WatermarkType ==
  ASSUME NEW k \in Int64, NEW bound \in 0..MaxInt64
  PROVE  LowerBy(k, bound) \in Int64
BY LowerByExact, Width DEF Int64

LEMMA mergeWatermarkType ==
  ASSUME InputOK, pos' \in [Children -> Nat], NEW bound \in 0..MaxInt64
  PROVE  /\ mergeWatermark(bound) \in Int64
         /\ \A c \in Children : pos'[c] < Len(input[c]) =>
              \E m \in Int64 : mergeWatermark(bound) = LowerBy(m, bound) /\ m <= input[c][pos'[c] + 1]
<1> DEFINE live == {c \in Children : pos'[c] < Len(input[c])}
           S == {input[c][pos'[c] + 1] : c \in live}
<1>1. mergeWatermark(bound) = IF live = {} THEN MaxInt64 ELSE LowerBy(LeastOf(S), bound) BY DEF mergeWatermark
<1>2. S \in SUBSET Int64
 <2>1. ASSUME NEW c \in live PROVE input[c][pos'[c] + 1] \in Int64
  <3>1. c \in Children /\ pos'[c] + 1 \in 1..Len(input[c]) BY InputFacts
  <3> QED BY <3>1, InputFacts
 <2> QED BY <2>1
<1>3. CASE live = {} BY <1>1, <1>3, Width
<1>4. CASE live # {}
 <2>1. S # {} BY <1>4
 <2>2. LeastOf(S) \in S /\ \A y \in S : LeastOf(S) <= y
  <3> HIDE DEF S
  <3> QED BY <1>2, <2>1, MinMax, Width DEF Int64
 <2>3. mergeWatermark(bound) = LowerBy(LeastOf(S), bound) /\ LeastOf(S) \in Int64 BY <1>1, <1>2, <1>4, <2>2
 <2>4. \A c \in live : LeastOf(S) <= input[c][pos'[c] + 1] BY <2>2
 <2> QED BY <2>3, <2>4, WatermarkType
<1> QED BY <1>3, <1>4

\* One step of the merge, in the parts that it can disturb.
LEMMA MergeStep ==
  ASSUME MergeInv, MergeNext
  PROVE  MergeInv'
<1>1. MergeTypes /\ RowsInv /\ ControlInv /\ OrderInv /\ Injective BY DEF MergeInv, RowsInv
<1>2. /\ InputOK /\ pc \in PcNames
      /\ pos \in [Children -> Nat] /\ (\A c \in Children : pos[c] <= Len(input[c]))
      /\ buf \subseteq AllRows /\ out \in Seq(AllRows)
      /\ effBound \in 0..MaxInt64 /\ runningMax \in Int64 /\ wm \in Int64 /\ lastKey \in Int64
      /\ emitted \in BOOLEAN /\ err \in {"none", "order", "bound", "child"} BY <1>1 DEF MergeTypes
<1>3. UNCHANGED inVars
  BY DEF MergeNext, MergeScanExec, ConcatenateYield, ConcatenateEnd, HeapYield, HeapEnd, KwayPop, StreamArrive,
         StreamIngest, EmitSafe, EmitDone, Exhausted, Release
<1>4. /\ input' = input /\ K' = K /\ Children' = Children /\ AllRows' = AllRows /\ InputOK' = InputOK
      /\ (\A r : Key(r)' = Key(r)) /\ policy' = policy /\ fails' = fails BY <1>3, InputKept
<1>5. K \in Nat \ {0} /\ Children = 1..K BY <1>2, InputFacts
<1>6. ASSUME pos' = pos PROVE Consumed' = Consumed /\ Live' = Live BY <1>4, <1>6 DEF Consumed, Live
<1>7. ASSUME out' = out PROVE OutRows' = OutRows /\ Injective' BY <1>1, <1>7 DEF OutRows, Injective
<1>8. ASSUME UNCHANGED <<out, emitted, lastKey>> PROVE OrderInv' BY <1>1, <1>4, <1>8 DEF OrderInv, SortedOutput
<1>9. ASSUME NEW r \in AllRows, Yield(r), r \notin OutRows, policy = "error" => ~OutOfOrder(Key(r))
      PROVE  /\ out' \in Seq(AllRows) /\ lastKey' \in Int64 /\ emitted' \in BOOLEAN
             /\ OutRows' = OutRows \cup {r} /\ Injective' /\ OrderInv' BY <1>1, <1>3, <1>9, YieldFacts
<1>10. CASE MergeScanExec
 <2>1. /\ pc = "choose" /\ pc' = (CASE mergeHasNear /\ K = 1 -> "stream"
                                  [] mergeHasNear /\ K > 1 -> "kway"
                                  [] ~mergeHasNear -> mergeChooseRegime)
       /\ effBound' = mergeMaxBound
       /\ UNCHANGED <<pos, buf, runningMax, wm, lastKey, emitted, out, err>> BY <1>10 DEF MergeScanExec
 <2>2. mergeChooseRegime \in {"concatenate", "heap"} BY MergeAssumption DEF mergeChooseRegime
 <2>3. pc' \in {"stream", "kway", "concatenate", "heap"} /\ (pc' = "stream" => K = 1) /\ (pc' = "kway" => K > 1)
  <3> HIDE DEF mergeHasNear, K
  <3>1. CASE mergeHasNear /\ K = 1 BY <2>1, <3>1
  <3>2. CASE mergeHasNear /\ K > 1 BY <2>1, <3>2
  <3>3. CASE ~mergeHasNear BY <2>1, <2>2, <3>3
  <3> QED BY <1>5, <3>1, <3>2, <3>3
 <2>4. MergeTypes' BY <1>2, <1>4, <2>1, <2>3, BoundType DEF MergeTypes, PcNames
 <2>5. RowsInv' BY <1>1, <1>6, <1>7, <2>1 DEF RowsInv
 <2>6. ControlInv' BY <1>1, <1>4, <2>1, <2>3 DEF ControlInv
 <2> QED BY <1>8, <2>1, <2>4, <2>5, <2>6 DEF MergeInv
<1>11. ASSUME NEW c \in Live, pc \in {"concatenate", "heap"}, err = "none", UNCHANGED <<pc, buf, effBound, runningMax, wm>>,
              IF OutOfOrder(HeadKey(c))
              THEN err' = "order" /\ UNCHANGED <<pos, out, lastKey, emitted>>
              ELSE Yield(HeadRow(c)) /\ Advance(c) /\ UNCHANGED err
       PROVE  MergeInv'
 <2>1. /\ HeadRow(c) \in AllRows /\ HeadRow(c) \notin Consumed /\ Key(HeadRow(c)) = HeadKey(c)
   BY <1>1, <1>11, HeadFacts
 <2>2. buf = {} BY <1>1, <1>11 DEF ControlInv
 <2>3. CASE OutOfOrder(HeadKey(c))
  <3>1. err' = "order" /\ UNCHANGED <<pos, out, lastKey, emitted>> BY <1>11, <2>3
  <3>2. MergeTypes' BY <1>2, <1>4, <1>11, <3>1 DEF MergeTypes
  <3>3. RowsInv' BY <1>1, <1>6, <1>7, <1>11, <3>1 DEF RowsInv
  <3>4. ControlInv' BY <1>11, <2>2, <3>1 DEF ControlInv
  <3> QED BY <1>8, <3>1, <3>2, <3>3, <3>4 DEF MergeInv
 <2>4. CASE ~OutOfOrder(HeadKey(c))
  <3>1. Yield(HeadRow(c)) /\ Advance(c) /\ err' = err BY <1>11, <2>4
  <3>2. HeadRow(c) \notin OutRows BY <1>1, <2>1 DEF RowsInv
  <3>3. /\ out' \in Seq(AllRows) /\ lastKey' \in Int64 /\ emitted' \in BOOLEAN
        /\ OutRows' = OutRows \cup {HeadRow(c)} /\ Injective' /\ OrderInv' BY <1>9, <2>1, <2>4, <3>1, <3>2
  <3>4. /\ pos' \in [Children -> Nat] /\ (\A d \in Children : pos'[d] <= Len(input[d]))
        /\ Consumed' = Consumed \cup {HeadRow(c)} BY <1>1, <1>3, <1>11, <3>1, AdvanceFacts
  <3>5. MergeTypes' BY <1>2, <1>4, <1>11, <3>1, <3>3, <3>4 DEF MergeTypes
  <3>6. RowsInv' BY <1>1, <1>11, <2>2, <3>3, <3>4 DEF RowsInv
  <3>7. ControlInv' BY <1>11, <2>2, <3>1 DEF ControlInv
  <3> QED BY <3>3, <3>5, <3>6, <3>7 DEF MergeInv
 <2> QED BY <2>3, <2>4
<1>12. CASE ConcatenateYield
 <2>1. Current \in Live
  <3>1. Current \in Children BY <1>12 DEF ConcatenateYield
  <3> QED BY <1>5, <3>1, CurrentFacts
 <2> QED BY <1>11, <1>12, <2>1 DEF ConcatenateYield
<1>13. CASE HeapYield
 <2>1. PICK c \in Frontier : IF OutOfOrder(HeadKey(c))
                             THEN err' = "order" /\ UNCHANGED <<pos, out, lastKey, emitted>>
                             ELSE Yield(HeadRow(c)) /\ Advance(c) /\ UNCHANGED err BY <1>13 DEF HeapYield
 <2>2. c \in Live BY DEF Frontier
 <2> QED BY <1>11, <1>13, <2>1, <2>2 DEF HeapYield
<1>14. CASE ConcatenateEnd
 <2>1. /\ pc = "concatenate" /\ (err # "none" \/ FailedBefore \/ Current = K + 1)
       /\ err' = (IF err = "none" /\ FailedBefore THEN "child" ELSE err) /\ pc' = "done"
       /\ UNCHANGED <<pos, buf, effBound, runningMax, wm, lastKey, emitted, out>> BY <1>14 DEF ConcatenateEnd
 <2>2. err' = "none" => Live = {} /\ fails = {}
  <3>1. SUFFICES ASSUME err = "none", ~FailedBefore, Current = K + 1 PROVE Live = {} /\ fails = {} BY <2>1
  <3>5. Live = {} BY <1>5, <3>1, CurrentFacts
  <3>6. fails = {} BY <1>2, <1>5, <3>1 DEF FailedBefore, InputOK
  <3> QED BY <3>5, <3>6
 <2>3. buf = {} BY <1>1, <2>1 DEF ControlInv
 <2>4. MergeTypes' BY <1>2, <1>4, <2>1 DEF MergeTypes, PcNames
 <2>5. RowsInv' BY <1>1, <1>6, <1>7, <2>1 DEF RowsInv
 <2>6. ControlInv' BY <1>4, <1>6, <2>1, <2>2, <2>3 DEF ControlInv
 <2> QED BY <1>8, <2>1, <2>4, <2>5, <2>6 DEF MergeInv
<1>15. CASE HeapEnd
 <2>1. /\ pc = "heap" /\ (err # "none" \/ Live = {}) /\ pc' = "release"
       /\ UNCHANGED <<pos, buf, effBound, runningMax, wm, lastKey, emitted, out, err>> BY <1>15 DEF HeapEnd
 <2>2. buf = {} BY <1>1, <2>1 DEF ControlInv
 <2>3. MergeTypes' BY <1>2, <1>4, <2>1 DEF MergeTypes, PcNames
 <2>4. RowsInv' BY <1>1, <1>6, <1>7, <2>1 DEF RowsInv
 <2>5. ControlInv' BY <1>4, <1>6, <2>1, <2>2 DEF ControlInv
 <2> QED BY <1>8, <2>1, <2>3, <2>4, <2>5 DEF MergeInv
<1>16. CASE KwayPop
 <2>1. PICK c \in Frontier : Advance(c) /\ Ingest(HeadRow(c), "emit") /\ wm' = mergeWatermark(effBound')
   BY <1>16 DEF KwayPop
 <2>2. c \in Live /\ pc = "kway" /\ UNCHANGED <<runningMax, lastKey, emitted, out>> BY <1>16 DEF Frontier, KwayPop
 <2>3. err = "none" /\ K > 1 BY <1>1, <2>2 DEF ControlInv
 <2>4. /\ buf' \subseteq AllRows /\ effBound' \in 0..MaxInt64
       /\ (err' = "none" /\ pc' = "emit") \/ (err' = "bound" /\ pc' = "release")
       /\ RowsInv' BY <1>1, <1>3, <2>1, <2>2, <2>3, IngestFacts
 <2>5. pos' \in [Children -> Nat] /\ \A d \in Children : pos'[d] <= Len(input[d])
   BY <1>1, <1>3, <2>1, <2>2, AdvanceFacts
 <2>6. wm' \in Int64 BY <1>2, <2>1, <2>4, <2>5, mergeWatermarkType
 <2>7. MergeTypes' BY <1>2, <1>4, <2>2, <2>4, <2>5, <2>6 DEF MergeTypes, PcNames
 <2>8. ControlInv' BY <1>4, <1>5, <2>3, <2>4 DEF ControlInv
 <2> QED BY <1>8, <2>2, <2>4, <2>7, <2>8 DEF MergeInv
<1>17. CASE StreamArrive
 <2>1. /\ pc = "stream" /\ Live # {} /\ runningMax' = MostOf({runningMax, HeadKey(1)})
       /\ wm' = LowerBy(runningMax', effBound) /\ pc' = "emit"
       /\ UNCHANGED <<pos, buf, effBound, lastKey, emitted, out, err>> BY <1>17 DEF StreamArrive
 <2>2. K = 1 /\ err = "none" /\ 1 \in Live BY <1>1, <1>5, <2>1 DEF ControlInv, Live
 <2>3. runningMax' \in Int64
  <3>1. HeadKey(1) \in Int64 BY <1>1, <2>2, HeadFacts
  <3>2. MostOf({runningMax, HeadKey(1)}) \in {runningMax, HeadKey(1)} BY <1>2, <3>1, MostOfTwo
  <3> QED BY <1>2, <2>1, <3>1, <3>2
 <2>4. wm' \in Int64 BY <1>2, <2>1, <2>3, WatermarkType
 <2>5. MergeTypes' BY <1>2, <1>4, <2>1, <2>3, <2>4 DEF MergeTypes, PcNames
 <2>6. RowsInv' BY <1>1, <1>6, <1>7, <2>1 DEF RowsInv
 <2>7. ControlInv' BY <1>4, <1>6, <2>1, <2>2 DEF ControlInv
 <2> QED BY <1>8, <2>1, <2>5, <2>6, <2>7 DEF MergeInv
<1>18. CASE StreamIngest
 <2>1. /\ pc = "ingest" /\ Advance(1) /\ Ingest(HeadRow(1), "stream")
       /\ UNCHANGED <<runningMax, wm, lastKey, emitted, out>> BY <1>18 DEF StreamIngest
 <2>2. K = 1 /\ err = "none" /\ 1 \in Live BY <1>1, <2>1 DEF ControlInv
 <2>3. /\ buf' \subseteq AllRows /\ effBound' \in 0..MaxInt64
       /\ (err' = "none" /\ pc' = "stream") \/ (err' = "bound" /\ pc' = "release")
       /\ RowsInv' BY <1>1, <1>3, <2>1, <2>2, IngestFacts
 <2>4. pos' \in [Children -> Nat] /\ \A d \in Children : pos'[d] <= Len(input[d])
   BY <1>1, <1>3, <2>1, <2>2, AdvanceFacts
 <2>5. MergeTypes' BY <1>2, <1>4, <2>1, <2>3, <2>4 DEF MergeTypes, PcNames
 <2>6. ControlInv' BY <1>4, <2>2, <2>3 DEF ControlInv
 <2> QED BY <1>8, <2>1, <2>3, <2>5, <2>6 DEF MergeInv
<1>19. CASE EmitSafe
 <2>1. PICK r \in PopMin :
         /\ Key(r) <= wm /\ buf' = buf \ {r}
         /\ IF OutOfOrder(Key(r)) /\ policy = "error"
            THEN err' = "order" /\ pc' = "release" /\ UNCHANGED <<out, lastKey, emitted>>
            ELSE Yield(r) /\ UNCHANGED <<pc, err>> BY <1>19 DEF EmitSafe
 <2>2. pc \in {"emit", "flush"} /\ UNCHANGED <<pos, effBound, runningMax, wm>> BY <1>19 DEF EmitSafe
 <2>3. r \in buf /\ r \in AllRows /\ r \notin OutRows BY <1>1, <1>2 DEF PopMin, RowsInv
 <2>5. CASE OutOfOrder(Key(r)) /\ policy = "error"
  <3>1. err' = "order" /\ pc' = "release" /\ UNCHANGED <<out, lastKey, emitted>> BY <2>1, <2>5
  <3>2. MergeTypes' BY <1>2, <1>4, <2>1, <2>2, <3>1 DEF MergeTypes, PcNames
  <3>3. RowsInv' BY <1>1, <1>6, <1>7, <2>1, <2>2, <3>1 DEF RowsInv
  <3>4. ControlInv' BY <3>1 DEF ControlInv
  <3> QED BY <1>8, <3>1, <3>2, <3>3, <3>4 DEF MergeInv
 <2>6. CASE ~(OutOfOrder(Key(r)) /\ policy = "error")
  <3>1. Yield(r) /\ UNCHANGED <<pc, err>> BY <2>1, <2>6
  <3>2. /\ out' \in Seq(AllRows) /\ lastKey' \in Int64 /\ emitted' \in BOOLEAN
        /\ OutRows' = OutRows \cup {r} /\ Injective' /\ OrderInv' BY <1>9, <2>3, <2>6, <3>1
  <3>3. MergeTypes' BY <1>2, <1>4, <2>1, <2>2, <3>1, <3>2 DEF MergeTypes
  <3>4. RowsInv' BY <1>1, <1>6, <2>1, <2>2, <2>3, <3>1, <3>2 DEF RowsInv
  <3>5. ControlInv' BY <1>1, <1>4, <1>6, <2>2, <3>1 DEF ControlInv
  <3> QED BY <3>2, <3>3, <3>4, <3>5 DEF MergeInv
 <2> QED BY <2>5, <2>6
<1>20. CASE EmitDone
 <2>1. /\ pc \in {"emit", "flush"} /\ (\A r \in buf : Key(r) > wm)
       /\ pc' = (CASE pc = "flush" -> "release"
                 [] pc = "emit" /\ K = 1 -> "ingest"
                 [] pc = "emit" /\ K > 1 -> "kway")
       /\ UNCHANGED <<pos, buf, effBound, runningMax, wm, lastKey, emitted, out, err>> BY <1>20 DEF EmitDone
 <2>2. /\ pc = "flush" => pc' = "release"
       /\ pc = "emit" /\ K = 1 => pc' = "ingest"
       /\ pc = "emit" /\ K > 1 => pc' = "kway" BY <1>5, <2>1
 <2>3. pc = "flush" => Live = {} /\ buf = {}
  <3>1. \A r \in buf : Key(r) <= MaxInt64 BY <1>2, RowFacts, Width
  <3> QED BY <1>1, <1>2, <2>1, <3>1, RowFacts, Width DEF ControlInv
 <2>4. K = 1 \/ K > 1 BY <1>5
 <2>5. MergeTypes' BY <1>2, <1>4, <2>1, <2>2, <2>4 DEF MergeTypes, PcNames
 <2>6. RowsInv' BY <1>1, <1>6, <1>7, <2>1 DEF RowsInv
 <2>7. ControlInv' BY <1>1, <1>4, <1>6, <2>1, <2>2, <2>3, <2>4 DEF ControlInv
 <2> QED BY <1>8, <2>1, <2>5, <2>6, <2>7 DEF MergeInv
<1>21. CASE Exhausted
 <2>1. /\ pc \in {"kway", "stream"} /\ Live = {}
       /\ \/ err' = "child" /\ pc' = "release" /\ wm' = wm
          \/ err' = err /\ pc' = "flush" /\ wm' = MaxInt64
       /\ UNCHANGED <<pos, buf, effBound, runningMax, lastKey, emitted, out>> BY <1>21 DEF Exhausted, FlushMark
 <2>2. err = "none" BY <1>1, <2>1 DEF ControlInv
 <2>3. MergeTypes' BY <1>2, <1>4, <2>1, Width DEF MergeTypes, PcNames
 <2>4. RowsInv' BY <1>1, <1>6, <1>7, <2>1, <2>2 DEF RowsInv
 <2>5. ControlInv' BY <1>4, <1>6, <2>1, <2>2 DEF ControlInv
 <2> QED BY <1>8, <2>1, <2>3, <2>4, <2>5 DEF MergeInv
<1>22. CASE Release
 <2>1. /\ pc = "release" /\ err' = (IF err = "none" /\ fails # {} THEN "child" ELSE err) /\ pc' = "done"
       /\ UNCHANGED <<pos, buf, effBound, runningMax, wm, lastKey, emitted, out>> BY <1>22 DEF Release, SurfacesErr
 <2>2. MergeTypes' BY <1>2, <1>4, <2>1 DEF MergeTypes, PcNames
 <2>3. RowsInv' BY <1>1, <1>6, <1>7, <2>1 DEF RowsInv
 <2>4. ControlInv' BY <1>1, <1>4, <1>6, <2>1 DEF ControlInv
 <2> QED BY <1>8, <2>1, <2>2, <2>3, <2>4 DEF MergeInv
<1> QED BY <1>10, <1>12, <1>13, <1>14, <1>15, <1>16, <1>17, <1>18, <1>19, <1>20, <1>21, <1>22 DEF MergeNext

LEMMA MergeStarts ==
  ASSUME NEW Cfgs, \A c \in Cfgs : MergeConfigOK(c), MergeInit(Cfgs)
  PROVE  MergeInv
<1>1. PICK cfg \in Cfgs : input = cfg.input /\ policy = cfg.policy /\ sortedness = cfg.sortedness /\ bounds = cfg.bounds /\ fails = cfg.fails
  BY DEF MergeInit
<1>2. InputOK BY <1>1 DEF MergeConfigOK, InputOK, Children
<1>3. /\ pc = "choose" /\ pos = [c \in Children |-> 0] /\ buf = {} /\ out = <<>>
      /\ effBound = 0 /\ runningMax = MinInt64 /\ wm = MinInt64 /\ lastKey = 0 /\ err = "none" BY DEF MergeInit
<1>4. emitted \in BOOLEAN /\ ~emitted BY Zenon DEF MergeInit
<1>5. \A c \in Children : Len(input[c]) \in Nat BY <1>2, InputFacts
<1>6. MergeTypes BY <1>2, <1>3, <1>4, <1>5, Width DEF MergeTypes, PcNames
<1>7. OutRows = {} /\ Injective BY <1>3 DEF OutRows, Injective
<1>8. Consumed = {} BY <1>2, <1>3, RowFacts DEF Consumed
<1>9. RowsInv BY <1>3, <1>7, <1>8 DEF RowsInv
<1>10. ControlInv BY <1>3 DEF ControlInv
<1>11. OrderInv BY <1>3, <1>4 DEF OrderInv, SortedOutput
<1> QED BY <1>6, <1>9, <1>10, <1>11 DEF MergeInv

LEMMA MergeInvariance ==
  ASSUME NEW Cfgs, \A c \in Cfgs : MergeConfigOK(c)
  PROVE  MergeSpec(Cfgs) => []MergeInv
<1>1. MergeInv /\ UNCHANGED mergeVars => MergeInv'
 <2> SUFFICES ASSUME MergeInv, UNCHANGED mergeVars PROVE MergeInv' OBVIOUS
 <2>1. UNCHANGED inVars /\ UNCHANGED <<pc, pos, buf, effBound, runningMax, wm, lastKey, emitted, out, err>>
   BY DEF mergeVars
 <2>2. /\ input' = input /\ K' = K /\ Children' = Children /\ AllRows' = AllRows /\ InputOK' = InputOK
       /\ (\A r : Key(r)' = Key(r)) /\ policy' = policy /\ fails' = fails BY <2>1, InputKept
 <2>3. MergeTypes' BY <2>1, <2>2 DEF MergeInv, MergeTypes
 <2>4. RowsInv' BY <2>1, <2>2 DEF MergeInv, RowsInv, OutRows, Consumed, Injective
 <2>5. ControlInv' BY <2>1, <2>2 DEF MergeInv, ControlInv, Live
 <2>6. OrderInv' BY <2>1, <2>2 DEF MergeInv, OrderInv, SortedOutput
 <2> QED BY <2>3, <2>4, <2>5, <2>6 DEF MergeInv
<1>2. MergeInv /\ [MergeNext]_mergeVars => MergeInv' BY <1>1, MergeStep
<1>3. MergeInit(Cfgs) => MergeInv BY MergeStarts
<1> QED BY <1>2, <1>3, PTL DEF MergeSpec

\* What the invariant says about a merge that has ended.
LEMMA MergeEnded ==
  ASSUME MergeInv
  PROVE  SortedOutput /\ Complete /\ ChildErrSurfaces
<1>1. SortedOutput BY DEF MergeInv, OrderInv
<1>2. ChildErrSurfaces BY DEF MergeInv, ControlInv, ChildErrSurfaces
<1>3. ASSUME pc = "done", err = "none"
      PROVE  Len(out) = Cardinality(AllRows) /\ {out[i] : i \in DOMAIN out} = AllRows
 <2>1. InputOK /\ out \in Seq(AllRows) /\ Live = {} /\ buf = {} /\ OutRows \cup buf = Consumed /\ Injective
       /\ pos \in [Children -> Nat] /\ \A c \in Children : pos[c] <= Len(input[c])
   BY <1>3 DEF MergeInv, MergeTypes, ControlInv, RowsInv
 <2>2. \A c \in Children : pos[c] = Len(input[c]) BY <2>1, InputFacts DEF Live
 <2>3. Consumed = AllRows BY <2>1, <2>2, RowFacts DEF Consumed
 <2>4. OutRows = AllRows BY <2>1, <2>3
 <2> DEFINE n == Len(out)
            T == AllRows
 <2>5. n \in Nat /\ DOMAIN out = 1..n /\ \A i \in 1..n : out[i] \in T BY <2>1
 <2>6. out \in [1..n -> T] BY <2>1
 <2> HIDE DEF n, T
 <2>7. out \in Bijection(1..n, T)
  <3>1. out \in Injection(1..n, T) BY <2>1, <2>5, <2>6 DEF Injective, Injection, IsInjective
  <3>2. out \in Surjection(1..n, T) BY <2>4, <2>5, <2>6 DEF OutRows, Surjection, T
  <3> QED BY <3>1, <3>2 DEF Bijection
 <2>8. Cardinality(T) = Cardinality(1..n) /\ IsFiniteSet(1..n) /\ Cardinality(1..n) = n
  <3>1. ExistsBijection(1..n, T) BY <2>7 DEF ExistsBijection
  <3>2. IsFiniteSet(1..n) /\ Cardinality(1..n) = n BY <2>5, FS_Interval
  <3> QED BY <3>1, <3>2, FS_Bijection
 <2> QED BY <2>4, <2>8 DEF OutRows, n, T
<1> QED BY <1>1, <1>2, <1>3 DEF Complete

-----------------------------------------------------------------------------
(* The watermark: no row below it is still to come.                        *)

Honesty == (\A c \in Children : Honest(c)) /\ Regime # "concatenate" /\ HonestZones

Unconsumed == AllRows \ Consumed

\* The single child's largest key so far.
Seen(n) ==
  /\ \A i \in 1..n : input[1][i] <= runningMax
  /\ runningMax = MinInt64 \/ \E i \in 1..n : input[1][i] = runningMax

BandInv ==
  /\ pc # "choose" => effBound >= mergeMaxBound
  /\ pc \in {"choose", "stream"} /\ K = 1 => Seen(pos[1])
  /\ pc \in {"emit", "ingest"} /\ K = 1 => Seen(pos[1] + 1) /\ wm = LowerBy(runningMax, effBound)
  /\ pc = "ingest" => \A r \in buf : Key(r) > wm
  /\ BandOnly

AlarmInv ==
  /\ pc \in {"heap", "concatenate"} => ~mergeHasNear
  /\ pc = "concatenate" /\ Regime # "concatenate" =>
       zones # <<>> /\ \A c \in 1..(K - 1) : zones[c][2] <= zones[c + 1][1]
  /\ Honesty =>
       /\ err \notin {"order", "bound"} /\ warned = {}
       /\ emitted => \A r \in Unconsumed \cup buf : Key(r) >= lastKey
       /\ pc \in {"emit", "flush"} => \A r \in Unconsumed : Key(r) >= wm

\* A child that keeps to its declaration is behind by no more than the bound.
LEMMA HonestRow ==
  ASSUME InputOK, NEW c \in Children, Honest(c), NEW i \in 1..Len(input[c]), NEW j \in 1..i
  PROVE  /\ input[c][j] \in Int64 /\ input[c][i] \in Int64
         /\ input[c][j] - input[c][i] <= mergeMaxBound
         /\ sortedness[c] = "strict" => input[c][j] <= input[c][i]
<1> DEFINE S == {input[c][k] : k \in 1..i}
<1>1. Len(input[c]) \in Nat /\ DOMAIN input[c] = 1..Len(input[c]) /\ \A k \in 1..Len(input[c]) : input[c][k] \in Int64
  BY InputFacts
<1>2. \A k \in 1..i : k \in 1..Len(input[c]) BY <1>1
<1>3. S \in SUBSET (MinInt64..MaxInt64) /\ input[c][j] \in S BY <1>1, <1>2 DEF Int64
<1>4. MostOf(S) \in S /\ \A y \in S : y <= MostOf(S)
 <2> HIDE DEF S
 <2> QED BY <1>3, MinMax, Width
<1>5. MostOf(S) - input[c][i] <= (IF sortedness[c] = "strict" THEN 0 ELSE bounds[c]) BY <1>1 DEF Honest, Disorder, Key
<1>6. MostOf(S) \in Int /\ input[c][j] \in Int64 /\ input[c][i] \in Int64 /\ input[c][j] <= MostOf(S)
  BY <1>1, <1>2, <1>3, <1>4, Width
<1>7. /\ mergeMaxBound \in 0..MaxInt64 /\ (sortedness[c] # "strict" => bounds[c] <= mergeMaxBound)
      /\ bounds[c] \in 0..MaxInt64 BY BoundType DEF InputOK
<1> DEFINE m == MostOf(S)
           x == input[c][j]
           y == input[c][i]
           b == bounds[c]
<1>8. m \in Int /\ x \in Int /\ y \in Int /\ mergeMaxBound \in Int /\ 0 <= mergeMaxBound /\ b \in Int /\ x <= m
 <2>1. mergeMaxBound \in Int /\ 0 <= mergeMaxBound /\ b \in Int BY <1>7
 <2>2. x \in Int /\ y \in Int BY <1>6, Width
 <2> QED BY <1>6, <2>1, <2>2
<1>9. sortedness[c] = "strict" => m - y <= 0 BY <1>5
<1>10. sortedness[c] # "strict" => m - y <= b /\ b <= mergeMaxBound BY <1>5, <1>7
<1> HIDE DEF m, x, y, b
<1>11. x - y <= mergeMaxBound /\ (sortedness[c] = "strict" => x <= y) BY <1>8, <1>9, <1>10
<1> QED BY <1>6, <1>11 DEF x, y

\* The zone map of a child spans its keys.
LEMMA ZoneFacts ==
  ASSUME InputOK, NEW c \in Children
  PROVE  /\ ZoneOf(input[c])[1] \in Int /\ ZoneOf(input[c])[2] \in Int /\ ZoneOf(input[c])[1] <= ZoneOf(input[c])[2]
         /\ \A i \in 1..Len(input[c]) : ZoneOf(input[c])[1] <= input[c][i] /\ input[c][i] <= ZoneOf(input[c])[2]
<1> DEFINE s == input[c]
           S == {s[i] : i \in DOMAIN s}
<1>1. Len(s) \in Nat /\ DOMAIN s = 1..Len(s) /\ \A k \in 1..Len(s) : s[k] \in Int64 BY InputFacts
<1>2. S \in SUBSET (MinInt64..MaxInt64) /\ \A k \in 1..Len(s) : s[k] \in S BY <1>1 DEF Int64
<1>3. ZoneOf(s) = IF S = {} THEN <<0, 0>> ELSE <<LeastOf(S), MostOf(S)>> BY DEF ZoneOf
<1> HIDE DEF s, S
<1>4. CASE S = {} BY <1>2, <1>3, <1>4 DEF s
<1>5. CASE S # {}
 <2>1. LeastOf(S) \in S /\ MostOf(S) \in S /\ \A y \in S : LeastOf(S) <= y /\ y <= MostOf(S)
   BY <1>2, <1>5, MinMax, Width
 <2>2. ZoneOf(s)[1] = LeastOf(S) /\ ZoneOf(s)[2] = MostOf(S) BY <1>3, <1>5
 <2>3. \A k \in 1..Len(s) : LeastOf(S) <= s[k] /\ s[k] <= MostOf(S) BY <1>2, <2>1
 <2>4. LeastOf(S) \in Int /\ MostOf(S) \in Int
  <3>1. \A y \in S : y \in Int BY <1>2
  <3> QED BY <2>1, <3>1
 <2>5. LeastOf(S) <= MostOf(S) BY <2>1
 <2> QED BY <2>2, <2>3, <2>4, <2>5 DEF s
<1> QED BY <1>4, <1>5

\* Zone maps that follow one another, also over children without rows.
LEMMA ZoneChain ==
  ASSUME InputOK, HonestZones, zones # <<>>, \A c \in 1..(K - 1) : zones[c][2] <= zones[c + 1][1],
         NEW c \in Children, NEW d \in Children, c < d
  PROVE  zones[c][2] <= zones[d][1]
<1> DEFINE Bad == {e \in Children : c < e /\ ~(zones[c][2] <= zones[e][1])}
<1>1. K \in Nat \ {0} /\ Children = 1..K BY InputFacts
<1>2. \A e \in Children : /\ zones[e][1] \in Int /\ zones[e][2] \in Int /\ zones[e][1] <= zones[e][2]
  BY ZoneFacts DEF HonestZones
<1>3. SUFFICES ASSUME Bad # {} PROVE FALSE OBVIOUS
<1>4. PICK e \in Bad : \A x \in Bad : e <= x
 <2>1. Bad \in SUBSET Nat BY <1>1
 <2> HIDE DEF Bad
 <2> QED BY <1>3, <2>1, LeastNumber
<1>5. e \in 1..K /\ c < e /\ e - 1 \in 1..(K - 1) /\ (e - 1) + 1 = e /\ c \in 1..K BY <1>1
<1>6. zones[e - 1][2] <= zones[e][1] BY <1>5
<1>7. CASE e - 1 = c BY <1>4, <1>6, <1>7
<1>8. CASE e - 1 # c
 <2>1. e - 1 \in Children /\ c < e - 1 BY <1>1, <1>5, <1>8
 <2>2. zones[c][2] <= zones[e - 1][1] BY <1>1, <1>4, <1>5, <2>1
 <2>3. zones[c][2] <= zones[e][1] BY <1>1, <1>2, <1>5, <1>6, <2>1, <2>2
 <2> QED BY <1>4, <2>3
<1> QED BY <1>7, <1>8

LEMMA HonestyKept ==
  ASSUME UNCHANGED inVars
  PROVE  Honesty' = Honesty /\ \A c : Honest(c)' = Honest(c)
<1>1. /\ input' = input /\ Children' = Children /\ bounds' = bounds /\ sortedness' = sortedness /\ zones' = zones
      /\ \A r : Key(r)' = Key(r) BY InputKept
<1>2. \A r : Disorder(r)' = Disorder(r) BY <1>1 DEF Disorder
<1>3. \A c : Honest(c)' = Honest(c) BY <1>1, <1>2 DEF Honest
<1>4. HonestZones' = HonestZones BY <1>1 DEF HonestZones
<1> QED BY <1>1, <1>3, <1>4 DEF Honesty

LEMMA UnconsumedFacts ==
  ASSUME MergeTypes, NEW r \in Unconsumed
  PROVE  /\ r[1] \in Live /\ r[1] \in Children /\ pos[r[1]] \in Nat /\ Len(input[r[1]]) \in Nat
         /\ r[2] \in 1..Len(input[r[1]]) /\ pos[r[1]] + 1 <= r[2]
         /\ Key(r) = input[r[1]][r[2]] /\ Key(r) \in Int64 /\ r \in AllRows
<1>1. InputOK /\ pos \in [Children -> Nat] /\ r \in AllRows /\ ~(r[2] <= pos[r[1]])
  BY DEF MergeTypes, Unconsumed, Consumed
<1>2. /\ r[1] \in Children /\ r[2] \in 1..Len(input[r[1]])
      /\ Key(r) \in Int64 /\ Key(r) = input[r[1]][r[2]] BY <1>1, RowFacts
<1>3. Len(input[r[1]]) \in Nat /\ pos[r[1]] \in Nat BY <1>1, <1>2, InputFacts
<1>4. pos[r[1]] + 1 <= r[2] /\ pos[r[1]] < Len(input[r[1]]) BY <1>1, <1>2, <1>3
<1> QED BY <1>1, <1>2, <1>3, <1>4 DEF Live

\* The rows of a sorted child are not below its head.
LEMMA HeadLeast ==
  ASSUME MergeTypes, NEW r \in Unconsumed, Honest(r[1]), ~mergeHasNear
  PROVE  HeadKey(r[1]) <= Key(r)
<1>1. /\ r[1] \in Children /\ pos[r[1]] \in Nat /\ Len(input[r[1]]) \in Nat
      /\ r[2] \in 1..Len(input[r[1]]) /\ pos[r[1]] + 1 <= r[2] /\ Key(r) = input[r[1]][r[2]] BY UnconsumedFacts
<1>2. InputOK BY DEF MergeTypes
<1>3. sortedness[r[1]] = "strict" BY <1>1, <1>2 DEF mergeHasNear, InputOK
<1>4. pos[r[1]] + 1 \in 1..r[2] BY <1>1
<1> QED BY <1>1, <1>2, <1>3, <1>4, HonestRow DEF HeadKey

\* Heap: no row is below the least head.
LEMMA HeapAhead ==
  ASSUME MergeTypes, \A c \in Children : Honest(c), ~mergeHasNear, NEW c \in Frontier
  PROVE  \A r \in Unconsumed : HeadKey(c) <= Key(r)
<1> SUFFICES ASSUME NEW r \in Unconsumed PROVE HeadKey(c) <= Key(r) OBVIOUS
<1>1. r[1] \in Live /\ r[1] \in Children /\ Key(r) \in Int64 BY UnconsumedFacts
<1>2. c \in Live /\ HeadKey(c) <= HeadKey(r[1]) BY <1>1 DEF Frontier
<1>3. HeadKey(r[1]) <= Key(r) BY <1>1, HeadLeast
<1>4. HeadKey(c) \in Int64 /\ HeadKey(r[1]) \in Int64 BY <1>1, <1>2, HeadFacts
<1>5. HeadKey(c) \in Int /\ HeadKey(r[1]) \in Int /\ Key(r) \in Int BY <1>1, <1>4, Width
<1> QED BY <1>2, <1>3, <1>5

\* Concatenation of disjoint ranges: no row is below the head of the current child.
LEMMA ConcatenateAhead ==
  ASSUME MergeTypes, \A c \in Children : Honest(c), ~mergeHasNear, HonestZones, zones # <<>>,
         \A c \in 1..(K - 1) : zones[c][2] <= zones[c + 1][1], Current \in Live
  PROVE  \A r \in Unconsumed : HeadKey(Current) <= Key(r)
<1> SUFFICES ASSUME NEW r \in Unconsumed PROVE HeadKey(Current) <= Key(r) OBVIOUS
<1> DEFINE c == Current
           d == r[1]
<1>1. d \in Live /\ d \in Children /\ Key(r) \in Int64 /\ r[2] \in 1..Len(input[d]) /\ Key(r) = input[d][r[2]]
  BY UnconsumedFacts
<1>2. InputOK /\ c \in Children /\ pos[c] + 1 \in 1..Len(input[c]) /\ HeadKey(c) \in Int64 BY HeadFacts DEF MergeTypes
<1>3. K \in Nat \ {0} /\ Children = 1..K BY <1>2, InputFacts
<1>4. c <= d /\ c \in Nat /\ d \in Nat BY <1>1, <1>2, <1>3, CurrentFacts
<1>5. CASE d = c BY <1>1, <1>5, HeadLeast
<1>6. CASE d # c
 <2>1. zones[c] = ZoneOf(input[c]) /\ zones[d] = ZoneOf(input[d]) BY <1>1, <1>2 DEF HonestZones
 <2>2. zones[c][2] <= zones[d][1] BY <1>1, <1>2, <1>4, <1>6, ZoneChain
 <2>3. HeadKey(c) <= zones[c][2] /\ zones[c][2] \in Int BY <1>2, <2>1, ZoneFacts DEF HeadKey
 <2>4. zones[d][1] <= Key(r) /\ zones[d][1] \in Int BY <1>1, <1>2, <2>1, ZoneFacts
 <2>5. HeadKey(c) \in Int /\ Key(r) \in Int BY <1>1, <1>2, Width
 <2> QED BY <2>2, <2>3, <2>4, <2>5
<1> QED BY <1>5, <1>6

\* LowerBy is not above what lies behind by no more than the bound.
LEMMA LowerBelow ==
  ASSUME NEW k \in Int64, NEW bound \in 0..MaxInt64, NEW x \in Int64, k - x <= bound
  PROVE  LowerBy(k, bound) <= x
BY LowerByExact, Width DEF Int64

LEMMA LowerAbove ==
  ASSUME NEW k \in Int64, NEW bound \in 0..MaxInt64, NEW x \in Int64, x > LowerBy(k, bound)
  PROVE  k - x <= bound
BY LowerByExact, Width DEF Int64

\* The K-way watermark: no row is below it.
LEMMA KwayAhead ==
  ASSUME MergeTypes', UNCHANGED inVars, InputOK, \A c \in Children : Honest(c),
         NEW bound \in 0..MaxInt64, bound >= mergeMaxBound
  PROVE  \A r \in Unconsumed' : mergeWatermark(bound) <= Key(r)
<1>1. input' = input /\ Children' = Children /\ AllRows' = AllRows /\ \A r : Key(r)' = Key(r) BY InputKept
<1>2. pos' \in [Children -> Nat] BY <1>1 DEF MergeTypes
<1>3. ASSUME NEW r \in Unconsumed' PROVE mergeWatermark(bound) <= Key(r)
 <2>1. r \in AllRows /\ ~(r[2] <= pos'[r[1]]) BY <1>1 DEF Unconsumed, Consumed
 <2> DEFINE c == r[1]
            p == pos'[c]
 <2>2. c \in Children /\ r[2] \in 1..Len(input[c]) /\ Key(r) = input[c][r[2]] /\ Key(r) \in Int64 BY <2>1, RowFacts
 <2>3. Len(input[c]) \in Nat /\ p \in Nat BY <1>2, <2>2, InputFacts
 <2>4. p + 1 \in 1..r[2] /\ p < Len(input[c]) BY <2>1, <2>2, <2>3
 <2>5. PICK m \in Int64 : mergeWatermark(bound) = LowerBy(m, bound) /\ m <= input[c][p + 1]
   BY <1>2, <2>2, <2>4, mergeWatermarkType
 <2>6. input[c][p + 1] - input[c][r[2]] <= mergeMaxBound /\ input[c][p + 1] \in Int64 BY <2>2, <2>4, HonestRow
 <2> DEFINE h == input[c][p + 1]
            k == Key(r)
 <2>7. h - k <= mergeMaxBound /\ h \in Int /\ k \in Int64 /\ m <= h BY <2>2, <2>5, <2>6, Width
 <2> HIDE DEF h, k
 <2>8. m - k <= bound
  <3>1. mergeMaxBound \in Int /\ bound \in Int /\ m \in Int /\ k \in Int BY <2>7, BoundType, Width
  <3> QED BY <2>7, <3>1
 <2>9. LowerBy(m, bound) <= k BY <2>7, <2>8, LowerBelow
 <2> QED BY <2>5, <2>9 DEF k
<1> QED BY <1>3

\* The watermark of a single child.
LEMMA StreamAhead ==
  ASSUME MergeTypes, K = 1, Honest(1), effBound >= mergeMaxBound, NEW m \in Int64,
         m = MinInt64 \/ \E i \in 1..(pos[1] + 1) : input[1][i] = m
  PROVE  \A r \in Unconsumed : LowerBy(m, effBound) <= Key(r)
<1> SUFFICES ASSUME NEW r \in Unconsumed PROVE LowerBy(m, effBound) <= Key(r) OBVIOUS
<1>1. InputOK /\ effBound \in 0..MaxInt64 BY DEF MergeTypes
<1>2. /\ r[1] \in Children /\ r[2] \in 1..Len(input[r[1]]) /\ pos[r[1]] + 1 <= r[2] /\ pos[r[1]] \in Nat
      /\ Key(r) = input[r[1]][r[2]] /\ Key(r) \in Int64 BY UnconsumedFacts
<1>3. r[1] = 1 BY <1>1, <1>2, InputFacts
<1>4. CASE m = MinInt64
 <2>1. m - Key(r) <= effBound BY <1>1, <1>2, <1>4, Width
 <2> QED BY <1>1, <1>2, <2>1, LowerBelow
<1>5. CASE \E i \in 1..(pos[1] + 1) : input[1][i] = m
 <2>1. PICK i \in 1..(pos[1] + 1) : input[1][i] = m BY <1>5
 <2>2. i \in 1..r[2] BY <1>2, <1>3, <2>1
 <2>3. m - Key(r) <= mergeMaxBound BY <1>1, <1>2, <1>3, <2>1, <2>2, HonestRow
 <2>4. m - Key(r) <= effBound
  <3>1. m \in Int /\ Key(r) \in Int BY <1>2, Width
  <3>2. mergeMaxBound \in Int /\ effBound \in Int BY <1>1, BoundType
  <3> QED BY <2>3, <3>1, <3>2
 <2> QED BY <1>1, <1>2, <2>4, LowerBelow
<1> QED BY <1>4, <1>5

LEMMA InVarsKept ==
  ASSUME MergeNext
  PROVE  UNCHANGED inVars
BY DEF MergeNext, MergeScanExec, ConcatenateYield, ConcatenateEnd, HeapYield, HeapEnd, KwayPop, StreamArrive,
       StreamIngest, EmitSafe, EmitDone, Exhausted, Release

\* The bound only grows.
LEMMA BoundGrows ==
  ASSUME MergeInv, BandInv, MergeNext
  PROVE  pc' # "choose" /\ effBound' >= mergeMaxBound
<1>1. MergeTypes /\ RowsInv /\ mergeMaxBound \in Int /\ effBound \in Int /\ (pc # "choose" => effBound >= mergeMaxBound)
  BY BoundType, Width DEF MergeInv, MergeTypes, BandInv
<1>3. CASE MergeScanExec
 <2>1. effBound' = mergeMaxBound /\ mergeHasNear \in BOOLEAN BY <1>3 DEF MergeScanExec, mergeHasNear
 <2>2. pc' \in {"stream", "kway", "concatenate", "heap"}
  <3>1. mergeChooseRegime \in {"concatenate", "heap"} BY MergeAssumption DEF mergeChooseRegime
  <3>2. K = 1 \/ K > 1 BY <1>1, InputFacts DEF MergeTypes
  <3> QED BY <1>3, <3>1, <3>2 DEF MergeScanExec
 <2> QED BY <1>1, <2>1, <2>2
<1>4. CASE KwayPop
 <2>1. PICK c \in Frontier : Advance(c) /\ Ingest(HeadRow(c), "emit") BY <1>4 DEF KwayPop
 <2>2. c \in Live /\ pc = "kway" /\ err = "none" /\ UNCHANGED <<inVars, out, lastKey, emitted>>
   BY <1>4 DEF Frontier, KwayPop, MergeInv, ControlInv
 <2>3. effBound' \in 0..MaxInt64 /\ effBound' >= effBound /\ pc' \in {"emit", "release"}
   BY <1>1, <2>1, <2>2, IngestFacts
 <2> QED BY <1>1, <2>2, <2>3
<1>5. CASE StreamIngest
 <2>1. Advance(1) /\ Ingest(HeadRow(1), "stream") /\ pc = "ingest" /\ UNCHANGED <<inVars, out, lastKey, emitted>>
   BY <1>5 DEF StreamIngest
 <2>2. 1 \in Live /\ err = "none" BY <2>1 DEF MergeInv, ControlInv
 <2>3. effBound' \in 0..MaxInt64 /\ effBound' >= effBound /\ pc' \in {"stream", "release"}
   BY <1>1, <2>1, <2>2, IngestFacts
 <2> QED BY <1>1, <2>1, <2>3
<1>6. CASE ConcatenateYield \/ ConcatenateEnd \/ HeapYield \/ HeapEnd \/ StreamArrive \/ EmitSafe \/ Exhausted \/ Release
 <2>1. effBound' = effBound /\ pc # "choose" /\ pc' # "choose"
   BY <1>6 DEF ConcatenateYield, ConcatenateEnd, HeapYield, HeapEnd, StreamArrive, EmitSafe, Exhausted, Release
 <2> QED BY <1>1, <2>1
<1>7. CASE EmitDone
 <2>1. K = 1 \/ K > 1 BY <1>1, InputFacts DEF MergeTypes
 <2>2. effBound' = effBound /\ pc # "choose" /\ pc' # "choose" BY <1>7, <2>1 DEF EmitDone
 <2> QED BY <1>1, <2>2
<1> QED BY <1>3, <1>4, <1>5, <1>6, <1>7 DEF MergeNext

\* One step, and the reorder band of the single-child variant.
LEMMA BandStep ==
  ASSUME MergeInv, BandInv, MergeNext
  PROVE  BandInv'
<1>1. /\ MergeTypes /\ InputOK /\ RowsInv /\ ControlInv
      /\ effBound \in 0..MaxInt64 /\ runningMax \in Int64 /\ wm \in Int64 /\ buf \subseteq AllRows
      /\ pos \in [Children -> Nat] BY DEF MergeInv, MergeTypes
<1>2. UNCHANGED inVars BY InVarsKept
<1>3. /\ input' = input /\ K' = K /\ Children' = Children /\ (\A r : Key(r)' = Key(r)) /\ mergeMaxBound' = mergeMaxBound
      /\ (\A c : Honest(c)' = Honest(c)) BY <1>2, InputKept, HonestyKept
<1>4. K \in Nat \ {0} /\ Children = 1..K BY <1>1, InputFacts
<1>5. pc' # "choose" /\ effBound' >= mergeMaxBound' BY <1>3, BoundGrows
<1>6. ASSUME K # 1 \/ pc' \notin {"choose", "stream", "emit", "ingest"}
      PROVE  BandInv'
 <2>1. pc' = "ingest" => K' = 1 BY MergeStep DEF MergeInv, ControlInv
 <2> QED BY <1>3, <1>5, <1>6, <2>1 DEF BandInv, BandOnly
<1>7. CASE MergeScanExec
 <2>1. /\ pc = "choose" /\ buf = {} /\ pos' = pos /\ buf' = buf /\ runningMax' = runningMax
       /\ pc' \notin {"emit", "ingest"}
  <3>1. pc = "choose" /\ buf = {} BY <1>1, <1>7 DEF MergeScanExec, ControlInv
  <3>2. mergeChooseRegime \in {"concatenate", "heap"} BY MergeAssumption DEF mergeChooseRegime
  <3>3. (K = 1 \/ K > 1) /\ mergeHasNear \in BOOLEAN BY <1>4 DEF mergeHasNear
  <3> QED BY <1>7, <3>1, <3>2, <3>3 DEF MergeScanExec
 <2>2. K = 1 => Seen(pos[1]) BY <2>1 DEF BandInv
 <2>3. K' = 1 => Seen(pos[1])' BY <1>3, <2>1, <2>2 DEF Seen
 <2> QED BY <1>5, <2>1, <2>3 DEF BandInv, BandOnly
<1>8. CASE StreamArrive
 <2>1. /\ pc = "stream" /\ pc' = "emit" /\ Live # {} /\ pos' = pos /\ effBound' = effBound
       /\ runningMax' = MostOf({runningMax, HeadKey(1)}) /\ wm' = LowerBy(runningMax', effBound)
   BY <1>8 DEF StreamArrive
 <2>2. K = 1 /\ 1 \in Live /\ Seen(pos[1]) BY <1>1, <1>4, <2>1 DEF ControlInv, BandInv, Live
 <2>3. HeadKey(1) \in Int64 /\ HeadKey(1) = input[1][pos[1] + 1] /\ pos[1] \in Nat BY <1>1, <2>2, HeadFacts DEF HeadKey
 <2> DEFINE p == pos[1]
            n == p + 1
            h == HeadKey(1)
            m == MostOf({runningMax, h})
 <2>4. m \in {runningMax, h} /\ runningMax <= m /\ h <= m BY <1>1, <2>3, MostOfTwo
 <2>5. n \in 1..n /\ (\A i \in 1..n : i \in 1..p \/ i = n) /\ (\A i \in 1..p : i \in 1..n) /\ n \in 1..Len(input[1])
   BY <1>1, <2>2, <2>3, HeadFacts
 <2>6. \A i \in 1..n : input[1][i] \in Int64 BY <1>1, <2>2, <2>5, InputFacts, HeadFacts
 <2>7. m \in Int /\ runningMax \in Int /\ \A i \in 1..n : input[1][i] \in Int BY <1>1, <2>3, <2>4, <2>6, Width
 <2>8. (\A i \in 1..p : input[1][i] <= runningMax) /\ (runningMax = MinInt64 \/ \E i \in 1..p : input[1][i] = runningMax)
   BY <2>2 DEF Seen
 <2>9. input[1][n] = h BY <2>3
 <2> HIDE DEF n, h, m, p
 <2>10. (\A i \in 1..n : input[1][i] <= m) /\ (m = MinInt64 \/ \E i \in 1..n : input[1][i] = m)
   BY <2>4, <2>5, <2>7, <2>8, <2>9
 <2>11. Seen(pos[1] + 1)' BY <1>3, <2>1, <2>10 DEF Seen, n, p, m, h
 <2>12. wm' = LowerBy(runningMax, effBound)' BY <2>1 DEF LowerBy, Sub, Wrap
 <2> QED BY <1>5, <2>1, <2>11, <2>12 DEF BandInv, BandOnly
<1>9. CASE StreamIngest /\ pc' = "stream"
 <2>1. /\ pc = "ingest" /\ Advance(1) /\ Ingest(HeadRow(1), "stream")
       /\ UNCHANGED <<inVars, runningMax, wm, out, lastKey, emitted>> BY <1>9 DEF StreamIngest
 <2>2. /\ K = 1 /\ 1 \in Live /\ err = "none" /\ Seen(pos[1] + 1) /\ wm = LowerBy(runningMax, effBound)
       /\ \A r \in buf : Key(r) > wm BY <1>1, <2>1 DEF ControlInv, BandInv
 <2>3. effBound' \in 0..MaxInt64 /\ effBound' >= effBound /\ pos'[1] = pos[1] + 1
   BY <1>1, <2>1, <2>2, IngestFacts, AdvanceFacts
 <2>4. buf' \subseteq buf \cup {HeadRow(1)} BY <2>1 DEF Ingest
 <2>5. Seen(pos[1])' BY <1>3, <2>1, <2>2, <2>3 DEF Seen
 <2> DEFINE n == pos[1] + 1
 <2>6. ASSUME Honest(1), NEW r \in buf', NEW i \in 1..n PROVE input[1][i] - Key(r) <= effBound'
  <3>1. /\ n \in 1..Len(input[1]) /\ HeadRow(1) \in AllRows /\ Key(HeadRow(1)) = input[1][n] /\ n \in Nat
        /\ Len(input[1]) \in Nat BY <1>1, <2>2, HeadFacts, InputFacts DEF HeadKey
  <3>2. i \in 1..Len(input[1]) /\ 1 \in Children BY <1>4, <3>1
  <3>3. input[1][i] \in Int64 /\ Key(r) \in Int64 BY <1>1, <2>4, <3>1, <3>2, InputFacts, RowFacts
  <3> DEFINE x == input[1][i]
             k == Key(r)
  <3>4. CASE r \in buf
   <4>1. k > LowerBy(runningMax, effBound) BY <2>2, <3>4
   <4>2. runningMax - k <= effBound BY <1>1, <3>3, <4>1, LowerAbove
   <4>3. x <= runningMax BY <2>2 DEF Seen
   <4>4. x \in Int /\ k \in Int /\ runningMax \in Int /\ effBound \in Int /\ effBound' \in Int
    <5>1. x \in Int /\ k \in Int /\ runningMax \in Int BY <1>1, <3>3, Width
    <5>2. effBound \in Int /\ effBound' \in Int BY <1>1, <2>3
    <5> QED BY <5>1, <5>2
   <4> HIDE DEF x, k
   <4>5. x - k <= effBound' BY <2>3, <4>2, <4>3, <4>4
   <4> QED BY <4>5 DEF x, k
  <3>5. CASE r = HeadRow(1)
   <4>1. x - k <= mergeMaxBound BY <1>1, <2>6, <3>1, <3>2, <3>5, HonestRow
   <4>2. x \in Int /\ k \in Int /\ mergeMaxBound \in Int /\ effBound' \in Int /\ effBound' >= mergeMaxBound
    <5>1. x \in Int /\ k \in Int BY <3>3, Width
    <5>2. effBound' \in Int /\ effBound' >= mergeMaxBound BY <1>3, <1>5, <2>3
    <5>3. mergeMaxBound \in Int BY <1>1, BoundType
    <5> QED BY <5>1, <5>2, <5>3
   <4> HIDE DEF x, k
   <4>3. x - k <= effBound' BY <4>1, <4>2
   <4> QED BY <4>3 DEF x, k
  <3> QED BY <2>4, <3>4, <3>5
 <2>7. BandOnly' BY <1>3, <2>3, <2>6 DEF BandOnly
 <2> QED BY <1>5, <1>9, <2>5, <2>7 DEF BandInv
<1>10. CASE (EmitSafe \/ EmitDone) /\ pc = "emit" /\ K = 1
 <2>1. UNCHANGED <<pos, effBound, runningMax, wm>> /\ Seen(pos[1] + 1) /\ wm = LowerBy(runningMax, effBound)
   BY <1>10 DEF EmitSafe, EmitDone, BandInv
 <2>2. Seen(pos[1] + 1)' /\ wm' = LowerBy(runningMax, effBound)' BY <1>3, <2>1 DEF Seen, LowerBy, Sub, Wrap
 <2>3. CASE EmitSafe
  <3>1. pc' \in {"emit", "release"} BY <1>10, <2>3 DEF EmitSafe
  <3> QED BY <1>5, <2>2, <3>1 DEF BandInv, BandOnly
 <2>4. CASE EmitDone
  <3>1. pc' = "ingest" /\ buf' = buf /\ wm' = wm /\ \A r \in buf : Key(r) > wm BY <1>10, <2>4 DEF EmitDone
  <3> QED BY <1>3, <1>5, <2>2, <3>1 DEF BandInv, BandOnly
 <2> QED BY <1>10, <2>3, <2>4
<1>11. CASE (EmitSafe \/ EmitDone) /\ ~(pc = "emit" /\ K = 1)
 <2>1. pc = "flush" => pc' \in {"flush", "release"} BY <1>11 DEF EmitSafe, EmitDone
 <2>2. pc \in {"emit", "flush"} BY <1>11 DEF EmitSafe, EmitDone
 <2> QED BY <1>6, <1>11, <2>1, <2>2
<1>12. CASE KwayPop BY <1>1, <1>6, <1>12, <1>4 DEF KwayPop, ControlInv
<1>13. CASE StreamIngest /\ pc' # "stream"
 <2>1. pc' = "release" BY <1>13 DEF StreamIngest, Ingest
 <2> QED BY <1>6, <2>1
<1>14. CASE ConcatenateYield \/ ConcatenateEnd \/ HeapYield \/ HeapEnd \/ Exhausted \/ Release
 <2>1. pc' \notin {"choose", "stream", "emit", "ingest"}
   BY <1>14 DEF ConcatenateYield, ConcatenateEnd, HeapYield, HeapEnd, Exhausted, Release
 <2> QED BY <1>6, <2>1
<1> QED BY <1>7, <1>8, <1>9, <1>10, <1>11, <1>12, <1>13, <1>14 DEF MergeNext

\* What is still to be consumed, when nothing or the head of a child is.
LEMMA UnconsumedStep ==
  ASSUME MergeTypes, UNCHANGED inVars
  PROVE  /\ pos' = pos => Unconsumed' = Unconsumed
         /\ \A c \in Live : HeadRow(c) \in Unconsumed /\ (Advance(c) => Unconsumed' = Unconsumed \ {HeadRow(c)})
<1>1. AllRows' = AllRows BY InputKept
<1>2. ASSUME pos' = pos PROVE Unconsumed' = Unconsumed BY <1>1, <1>2 DEF Unconsumed, Consumed
<1>3. ASSUME NEW c \in Live PROVE HeadRow(c) \in Unconsumed BY HeadFacts DEF Unconsumed
<1>4. ASSUME NEW c \in Live, Advance(c) PROVE Unconsumed' = Unconsumed \ {HeadRow(c)}
  BY <1>1, <1>4, AdvanceFacts DEF Unconsumed
<1> QED BY <1>2, <1>3, <1>4

\* The regime that is chosen suits the children.
LEMMA RegimeStep ==
  ASSUME MergeInv, AlarmInv, MergeNext, UNCHANGED inVars
  PROVE  /\ pc' \in {"heap", "concatenate"} => ~mergeHasNear'
         /\ pc' = "concatenate" /\ Regime # "concatenate" =>
              zones' # <<>> /\ \A c \in 1..(K' - 1) : zones'[c][2] <= zones'[c + 1][1]
<1>1. K' = K /\ zones' = zones /\ mergeHasNear' = mergeHasNear BY InputKept
<1>2. CASE MergeScanExec
 <2>1. (K = 1 \/ K > 1) /\ mergeHasNear \in BOOLEAN BY InputFacts DEF MergeInv, MergeTypes, mergeHasNear
 <2>2. CASE mergeHasNear
  <3>1. pc' \in {"stream", "kway"} BY <1>2, <2>1, <2>2 DEF MergeScanExec
  <3> QED BY <3>1
 <2>3. CASE ~mergeHasNear
  <3>1. pc' = mergeChooseRegime BY <1>2, <2>3 DEF MergeScanExec
  <3> QED BY <1>1, <2>3, <3>1 DEF mergeChooseRegime
 <2> QED BY <2>1, <2>2, <2>3
<1>3. CASE ~MergeScanExec
 <2>1. pc' = pc \/ pc' \notin {"heap", "concatenate"}
  <3>1. K = 1 \/ K > 1 BY InputFacts DEF MergeInv, MergeTypes
  <3>2. CASE ConcatenateYield \/ ConcatenateEnd \/ HeapYield \/ HeapEnd \/ StreamArrive \/ Exhausted \/ Release
    BY <3>2 DEF ConcatenateYield, ConcatenateEnd, HeapYield, HeapEnd, StreamArrive, Exhausted, Release
  <3>3. CASE KwayPop \/ StreamIngest BY <3>3 DEF KwayPop, StreamIngest, Ingest
  <3>4. CASE EmitSafe BY <3>4 DEF EmitSafe
  <3>5. CASE EmitDone BY <3>1, <3>5 DEF EmitDone
  <3> QED BY <1>3, <3>2, <3>3, <3>4, <3>5 DEF MergeNext
 <2> QED BY <1>1, <2>1 DEF AlarmInv
<1> QED BY <1>2, <1>3

\* One step of a merge whose children are honest.
LEMMA AlarmStep ==
  ASSUME MergeInv, BandInv, AlarmInv, MergeNext
  PROVE  AlarmInv'
<1>1. /\ MergeTypes /\ InputOK /\ RowsInv /\ ControlInv
      /\ effBound \in 0..MaxInt64 /\ runningMax \in Int64 /\ wm \in Int64 /\ lastKey \in Int64 /\ buf \subseteq AllRows
      /\ pos \in [Children -> Nat] BY DEF MergeInv, MergeTypes
<1>2. UNCHANGED inVars BY InVarsKept
<1>3. /\ input' = input /\ K' = K /\ Children' = Children /\ (\A r : Key(r)' = Key(r)) /\ mergeMaxBound' = mergeMaxBound
      /\ Honesty' = Honesty BY <1>2, InputKept, HonestyKept
<1>4. K \in Nat \ {0} /\ Children = 1..K BY <1>1, InputFacts
<1>5. SUFFICES ASSUME Honesty
               PROVE  /\ err' \notin {"order", "bound"} /\ warned' = {}
                      /\ emitted' => \A r \in Unconsumed' \cup buf' : Key(r) >= lastKey'
                      /\ pc' \in {"emit", "flush"} => \A r \in Unconsumed' : Key(r) >= wm'
  BY <1>2, <1>3, RegimeStep DEF AlarmInv
<1>6. /\ err \notin {"order", "bound"} /\ warned = {}
      /\ emitted => \A r \in Unconsumed \cup buf : Key(r) >= lastKey
      /\ pc \in {"emit", "flush"} => \A r \in Unconsumed : Key(r) >= wm
      /\ (\A c \in Children : Honest(c)) /\ HonestZones /\ Regime # "concatenate" BY <1>5 DEF AlarmInv, Honesty
<1>7. \A r \in AllRows : Key(r) \in Int64 /\ Key(r) \in Int BY <1>1, RowFacts, Width
<1>8. lastKey \in Int /\ wm \in Int /\ Unconsumed \subseteq AllRows BY <1>1, Width DEF Unconsumed
<1>9. \A r \in Unconsumed \cup buf : ~OutOfOrder(Key(r)) BY <1>1, <1>6, <1>7, <1>8 DEF OutOfOrder
<1>10. /\ pos' = pos => Unconsumed' = Unconsumed
       /\ \A c \in Live : HeadRow(c) \in Unconsumed /\ (Advance(c) => Unconsumed' = Unconsumed \ {HeadRow(c)})
  BY <1>1, <1>2, UnconsumedStep
<1>11. \A c \in Live : Key(HeadRow(c)) = HeadKey(c) /\ c \in Children BY <1>1, HeadFacts
<1>12. CASE MergeScanExec
 <2>1. UNCHANGED <<pos, buf, lastKey, emitted, warned, err>> BY <1>12 DEF MergeScanExec
 <2>2. pc' \notin {"emit", "flush"}
  <3>1. mergeChooseRegime \in {"concatenate", "heap"} BY MergeAssumption DEF mergeChooseRegime
  <3>2. (K = 1 \/ K > 1) /\ mergeHasNear \in BOOLEAN BY <1>4 DEF mergeHasNear
  <3> QED BY <1>12, <3>1, <3>2 DEF MergeScanExec
 <2> QED BY <1>6, <1>10, <2>1, <2>2
<1>13. ASSUME NEW c \in Live, pc \in {"concatenate", "heap"}, UNCHANGED <<pc, buf, warned>>,
              \A r \in Unconsumed : HeadKey(c) <= Key(r),
              IF OutOfOrder(HeadKey(c)) THEN err' = "order" /\ UNCHANGED <<pos, out, lastKey, emitted>>
              ELSE Yield(HeadRow(c)) /\ Advance(c) /\ UNCHANGED err
       PROVE  /\ err' \notin {"order", "bound"} /\ warned' = {}
              /\ emitted' => \A r \in Unconsumed' \cup buf' : Key(r) >= lastKey'
              /\ pc' \in {"emit", "flush"} => \A r \in Unconsumed' : Key(r) >= wm'
 <2>1. HeadRow(c) \in Unconsumed /\ Key(HeadRow(c)) = HeadKey(c) /\ ~OutOfOrder(HeadKey(c)) BY <1>9, <1>10, <1>11
 <2>2. Yield(HeadRow(c)) /\ Advance(c) /\ err' = err BY <1>13, <2>1
 <2>3. Unconsumed' \subseteq Unconsumed /\ lastKey' = HeadKey(c) /\ lastKey' \in Int
   BY <1>7, <1>8, <1>10, <2>1, <2>2 DEF Yield
 <2>4. buf' = {} BY <1>1, <1>13 DEF ControlInv
 <2>5. \A r \in Unconsumed' : Key(r) >= lastKey' BY <1>7, <1>8, <1>13, <2>3
 <2> QED BY <1>6, <1>13, <2>2, <2>4, <2>5
<1>14. CASE ConcatenateYield
 <2>1. pc = "concatenate" /\ Current \in Live BY <1>4, <1>14, CurrentFacts DEF ConcatenateYield
 <2>2. \A r \in Unconsumed : HeadKey(Current) <= Key(r) BY <1>1, <1>6, <2>1, ConcatenateAhead DEF AlarmInv
 <2> QED BY <1>13, <1>14, <2>1, <2>2 DEF ConcatenateYield
<1>15. CASE HeapYield
 <2>1. PICK c \in Frontier :
         IF OutOfOrder(HeadKey(c)) THEN err' = "order" /\ UNCHANGED <<pos, out, lastKey, emitted>>
         ELSE Yield(HeadRow(c)) /\ Advance(c) /\ UNCHANGED err BY <1>15 DEF HeapYield
 <2>2. c \in Live /\ pc = "heap" /\ UNCHANGED <<pc, buf, warned>> BY <1>15 DEF HeapYield, Frontier
 <2>3. \A r \in Unconsumed : HeadKey(c) <= Key(r) BY <1>1, <1>6, <2>2, HeapAhead DEF AlarmInv
 <2> QED BY <1>13, <2>1, <2>2, <2>3
<1>16. CASE ConcatenateEnd \/ HeapEnd \/ EmitDone \/ Release
 <2>1. /\ UNCHANGED <<pos, buf, lastKey, emitted, warned>> /\ err' \in {err, "child"}
       /\ pc' \notin {"emit", "flush"}
  <3>1. K = 1 \/ K > 1 BY <1>4
  <3> QED BY <1>16, <3>1 DEF ConcatenateEnd, HeapEnd, EmitDone, Release
 <2> QED BY <1>6, <1>10, <2>1
<1>17. ASSUME NEW c \in Live, NEW next, Advance(c), Ingest(HeadRow(c), next), UNCHANGED <<lastKey, emitted>>
       PROVE  /\ err' \notin {"order", "bound"} /\ warned' = {} /\ pc' = next /\ effBound' = effBound
              /\ emitted' => \A r \in Unconsumed' \cup buf' : Key(r) >= lastKey'
 <2>1. HeadRow(c) \in Unconsumed /\ ~OutOfOrder(Key(HeadRow(c))) /\ Unconsumed' = Unconsumed \ {HeadRow(c)}
   BY <1>9, <1>10, <1>17
 <2>2. UNCHANGED <<err, warned, effBound>> /\ pc' = next /\ buf' = buf \cup {HeadRow(c)} BY <1>17, <2>1 DEF Ingest
 <2> QED BY <1>6, <1>17, <2>1, <2>2
<1>18. CASE KwayPop
 <2>1. PICK c \in Frontier : Advance(c) /\ Ingest(HeadRow(c), "emit") /\ wm' = mergeWatermark(effBound')
   BY <1>18 DEF KwayPop
 <2>2. c \in Live /\ UNCHANGED <<lastKey, emitted>> /\ pc # "choose" BY <1>18 DEF KwayPop, Frontier
 <2>3. /\ err' \notin {"order", "bound"} /\ warned' = {} /\ effBound' = effBound
       /\ emitted' => \A r \in Unconsumed' \cup buf' : Key(r) >= lastKey' BY <1>17, <2>1, <2>2
 <2>4. wm' = mergeWatermark(effBound) /\ effBound >= mergeMaxBound BY <2>1, <2>2, <2>3 DEF BandInv
 <2>5. MergeTypes' BY MergeStep DEF MergeInv
 <2>6. \A r \in Unconsumed' : mergeWatermark(effBound) <= Key(r) BY <1>1, <1>2, <1>6, <2>4, <2>5, KwayAhead
 <2>7. wm' \in Int /\ Unconsumed' \subseteq AllRows
  <3>1. wm' \in Int64 BY <2>5 DEF MergeTypes
  <3> QED BY <1>2, <3>1, InputKept, Width DEF Unconsumed
 <2>8. \A r \in Unconsumed' : Key(r) >= wm' BY <1>7, <2>4, <2>6, <2>7
 <2> QED BY <2>3, <2>8
<1>19. CASE StreamIngest
 <2>1. Advance(1) /\ Ingest(HeadRow(1), "stream") /\ UNCHANGED <<lastKey, emitted>> /\ 1 \in Live
   BY <1>1, <1>19 DEF StreamIngest, ControlInv
 <2> QED BY <1>17, <2>1
<1>20. CASE StreamArrive
 <2>1. /\ pc = "stream" /\ UNCHANGED <<pos, buf, lastKey, emitted, warned, err>>
       /\ wm' = LowerBy(runningMax', effBound) /\ runningMax' = MostOf({runningMax, HeadKey(1)}) /\ Live # {}
   BY <1>20 DEF StreamArrive
 <2>2. K = 1 /\ 1 \in Live /\ effBound >= mergeMaxBound /\ Seen(pos[1])
   BY <1>1, <1>4, <2>1 DEF ControlInv, BandInv, Live
 <2>3. pc' = "emit" /\ Seen(pos[1] + 1)' /\ MergeTypes'
  <3>1. pc' = "emit" BY <1>20 DEF StreamArrive
  <3>2. BandInv' /\ MergeInv' BY BandStep, MergeStep
  <3> QED BY <1>3, <2>2, <3>1, <3>2 DEF BandInv, MergeInv
 <2>4. runningMax' = MinInt64 \/ \E i \in 1..(pos[1] + 1) : input[1][i] = runningMax' BY <1>3, <2>1, <2>3 DEF Seen
 <2>5. runningMax' \in Int64 /\ wm' \in Int64 BY <2>3 DEF MergeTypes
 <2>6. \A r \in Unconsumed : LowerBy(runningMax', effBound) <= Key(r)
   BY <1>1, <1>4, <1>6, <2>2, <2>4, <2>5, StreamAhead
 <2>7. \A r \in Unconsumed : Key(r) >= wm' BY <1>7, <1>8, <2>1, <2>5, <2>6, Width
 <2> QED BY <1>6, <1>10, <2>1, <2>7
<1>21. CASE EmitSafe
 <2>1. PICK r \in PopMin :
         /\ Key(r) <= wm /\ buf' = buf \ {r}
         /\ IF OutOfOrder(Key(r)) /\ policy = "error"
            THEN err' = "order" /\ pc' = "release" /\ UNCHANGED <<out, lastKey, emitted, warned>>
            ELSE /\ Yield(r)
                 /\ warned' = (IF OutOfOrder(Key(r)) THEN warned \cup {r} ELSE warned)
                 /\ UNCHANGED <<pc, err>> BY <1>21 DEF EmitSafe
 <2>2. r \in buf /\ (\A q \in buf : Key(r) <= Key(q)) /\ ~OutOfOrder(Key(r)) /\ UNCHANGED <<pos, wm>> /\ pc \in {"emit", "flush"}
   BY <1>9, <1>21 DEF PopMin, EmitSafe
 <2>3. lastKey' = Key(r) /\ UNCHANGED <<pc, err, warned>> BY <2>1, <2>2 DEF Yield
 <2>4. \A q \in Unconsumed : Key(q) >= Key(r) BY <1>1, <1>6, <1>7, <1>8, <2>1, <2>2
 <2>5. \A q \in buf' : Key(q) >= Key(r) BY <1>1, <1>7, <2>1, <2>2
 <2> QED BY <1>6, <1>10, <2>2, <2>3, <2>4, <2>5
<1>22. CASE Exhausted
 <2>1. Live = {} /\ UNCHANGED <<pos, buf, lastKey, emitted, warned>> /\ err' \in {err, "child"} BY <1>22 DEF Exhausted
 <2>2. Unconsumed = {} BY <1>1, <2>1, UnconsumedFacts
 <2> QED BY <1>6, <1>10, <2>1, <2>2
<1> QED BY <1>12, <1>14, <1>15, <1>16, <1>18, <1>19, <1>20, <1>21, <1>22 DEF MergeNext

LEMMA BandInit ==
  ASSUME NEW Cfgs, \A c \in Cfgs : MergeConfigOK(c), MergeInit(Cfgs)
  PROVE  BandInv /\ AlarmInv
<1>1. MergeInv BY MergeStarts
<1>2. K \in Nat \ {0} /\ Children = 1..K BY <1>1, InputFacts DEF MergeInv, MergeTypes
<1>3. /\ pc = "choose" /\ buf = {} /\ warned = {} /\ runningMax = MinInt64 /\ emitted = FALSE /\ err = "none"
      /\ pos = [c \in Children |-> 0] BY DEF MergeInit
<1>4. K = 1 => Seen(pos[1])
 <2>1. K = 1 => pos[1] = 0 BY <1>2, <1>3
 <2> QED BY <1>3, <2>1 DEF Seen
<1>5. BandInv BY <1>3, <1>4 DEF BandInv, BandOnly
<1>6. AlarmInv BY <1>3 DEF AlarmInv
<1> QED BY <1>5, <1>6

LEMMA BandStutter ==
  ASSUME BandInv, AlarmInv, UNCHANGED mergeVars
  PROVE  BandInv' /\ AlarmInv'
<1>1. UNCHANGED inVars /\ UNCHANGED <<pc, pos, buf, effBound, runningMax, wm, lastKey, emitted, out, warned, err>>
  BY DEF mergeVars
<1>2. /\ input' = input /\ K' = K /\ AllRows' = AllRows /\ Children' = Children /\ (\A r : Key(r)' = Key(r))
      /\ mergeMaxBound' = mergeMaxBound /\ mergeHasNear' = mergeHasNear /\ zones' = zones
      /\ Honesty' = Honesty /\ (\A c : Honest(c)' = Honest(c)) BY <1>1, InputKept, HonestyKept
<1>3. BandInv' BY <1>1, <1>2 DEF BandInv, BandOnly, Seen, LowerBy, Sub, Wrap
<1>4. Unconsumed' = Unconsumed BY <1>1, <1>2 DEF Unconsumed, Consumed
<1>5. AlarmInv' BY <1>1, <1>2, <1>4 DEF AlarmInv
<1> QED BY <1>3, <1>5

LEMMA AheadInvariance ==
  ASSUME NEW Cfgs, \A c \in Cfgs : MergeConfigOK(c)
  PROVE  MergeSpec(Cfgs) => [](MergeInv /\ BandInv /\ AlarmInv)
<1>1. MergeInv /\ BandInv /\ AlarmInv /\ [MergeNext]_mergeVars => BandInv' /\ AlarmInv'
  BY BandStep, AlarmStep, BandStutter
<1>2. MergeInit(Cfgs) => BandInv /\ AlarmInv BY BandInit
<1> QED BY <1>1, <1>2, MergeInvariance, PTL DEF MergeSpec

\* engine/op_merge_scan.go: whatever its children hold and claim, a merge that
\* ends without an error has yielded every row of every child once, under the
\* "error" policy its output is sorted, the error of a child is never lost,
\* and a single child is buffered within its reorder band only.
THEOREM SortedAndComplete ==
  ASSUME NEW Cfgs, \A c \in Cfgs : MergeConfigOK(c)
  PROVE  MergeSpec(Cfgs) => []MergeExact
<1>1. MergeInv /\ BandInv => MergeExact BY MergeEnded DEF MergeExact, BandInv
<1> QED BY <1>1, AheadInvariance, PTL

\* engine/op_merge_scan.go: over children that keep to their declared order,
\* bounds and zone maps no merge fails or warns, also where a watermark
\* underflows.
THEOREM AlarmsAreTrue ==
  ASSUME NEW Cfgs, \A c \in Cfgs : MergeConfigOK(c)
  PROVE  MergeSpec(Cfgs) => []NoFalseAlarm
<1>1. AlarmInv => NoFalseAlarm BY DEF AlarmInv, Honesty, NoFalseAlarm
<1> QED BY <1>1, AheadInvariance, PTL

-----------------------------------------------------------------------------
(* ORDER BY, OFFSET and LIMIT (OrderOffsetLimit).                          *)

Directions == [asc : BOOLEAN, nulls : {"natural", "first", "last"}]

\* What the conversion makes: a key per direction in every row, no negative
\* OFFSET or LIMIT, and no more rows than an int64 counts.
OrderConfigOK(c) ==
  /\ c.keys \in Seq(Seq(Nat)) /\ Len(c.keys) <= MaxInt64
  /\ c.dirs \in Seq(Directions)
  /\ \A i \in DOMAIN c.keys : Len(c.dirs) <= Len(c.keys[i])
  /\ c.offset \in 0..MaxInt64 /\ c.limit \in 0..MaxInt64 /\ c.fail \in BOOLEAN

LEMMA OrderNumbers ==
  ASSUME OrderConfigOK(olCfg)
  PROVE  /\ MaxInt64 \in Nat /\ olCfg.offset \in Nat /\ olCfg.limit \in Nat
         /\ olCfg.offset <= MaxInt64 /\ olCfg.limit <= MaxInt64
         /\ Len(olCfg.keys) \in Nat /\ DOMAIN olCfg.keys = 1..Len(olCfg.keys) /\ Len(olCfg.keys) <= MaxInt64
         /\ offsetPlusLimit = IF olCfg.offset + olCfg.limit <= MaxInt64 THEN olCfg.offset + olCfg.limit ELSE MaxInt64
<1> DEFINE n == olCfg.offset + olCfg.limit
           w == 2 * Half
           x == n - MinInt64
<1>1. /\ Half \in Nat /\ Half > 1 /\ MinInt64 = 0 - Half /\ MaxInt64 = Half - 1
      /\ olCfg.offset \in 0..MaxInt64 /\ olCfg.limit \in 0..MaxInt64
  BY WidthAssumption DEF MinInt64, MaxInt64, OrderConfigOK
<1>2. n \in Nat /\ n <= 2 * Half - 2 /\ w \in Nat \ {0} /\ x \in Nat /\ x = n + Half BY <1>1
<1>3. Wrap(n) = MinInt64 + (x % w) BY DEF Wrap
<1>4. n <= MaxInt64 => offsetPlusLimit = n
 <2> SUFFICES ASSUME n <= MaxInt64 PROVE offsetPlusLimit = n OBVIOUS
 <2>1. x < w BY <1>1, <1>2
 <2>2. x % w = x
  <3> HIDE DEF x, w
  <3> QED BY <1>2, <2>1
 <2>3. Wrap(n) = n BY <1>1, <1>2, <1>3, <2>2
 <2>4. offsetPlusLimit = n BY <1>2, <2>3 DEF offsetPlusLimit
 <2> QED BY <2>4
<1>5. n > MaxInt64 => offsetPlusLimit = MaxInt64
 <2> SUFFICES ASSUME n > MaxInt64 PROVE offsetPlusLimit = MaxInt64 OBVIOUS
 <2>1. w <= x /\ x < w + w BY <1>1, <1>2
 <2>2. x % w = x - w
  <3> HIDE DEF x, w
  <3> QED BY <1>2, <2>1
 <2>3. Wrap(n) < 0 BY <1>1, <1>2, <1>3, <2>2
 <2>4. offsetPlusLimit = MaxInt64 BY <2>3 DEF offsetPlusLimit
 <2> QED BY <2>4
<1>6. /\ olCfg.keys \in Seq(Seq(Nat)) /\ Len(olCfg.keys) <= MaxInt64 BY DEF OrderConfigOK
<1>7. Len(olCfg.keys) \in Nat /\ DOMAIN olCfg.keys = 1..Len(olCfg.keys) BY <1>6
<1> QED BY <1>1, <1>4, <1>5, <1>6, <1>7

\* One direction orders the values strictly and totally.
LEMMA CompareFacts ==
  ASSUME NEW dir \in Directions, NEW a \in Nat, NEW b \in Nat
  PROVE  /\ CompareBy(dir, a, a) = 0
         /\ CompareBy(dir, a, b) = 0 => a = b
         /\ a # b => CompareBy(dir, a, b) = -1 \/ CompareBy(dir, b, a) = -1
         /\ \A c \in Nat : CompareBy(dir, a, b) = -1 /\ CompareBy(dir, b, c) = -1 => CompareBy(dir, a, c) = -1
<1> USE DEF CompareBy, IsNullOrMissing, Directions
<1>1. CompareBy(dir, a, a) = 0 OBVIOUS
<1>2. CompareBy(dir, a, b) = 0 => a = b OBVIOUS
<1>3. a # b => CompareBy(dir, a, b) = -1 \/ CompareBy(dir, b, a) = -1 OBVIOUS
<1>4. \A c \in Nat : CompareBy(dir, a, b) = -1 /\ CompareBy(dir, b, c) = -1 => CompareBy(dir, a, c) = -1 OBVIOUS
<1> QED BY <1>1, <1>2, <1>3, <1>4

\* The keys of a row that count.
LEMMA KeyFacts ==
  ASSUME OrderConfigOK(olCfg), NEW i \in DOMAIN olCfg.keys
  PROVE  /\ DOMAIN olCfg.dirs = 1..Len(olCfg.dirs) /\ Len(olCfg.dirs) \in Nat
         /\ \A d \in DOMAIN olCfg.dirs : olCfg.dirs[d] \in Directions /\ olCfg.keys[i][d] \in Nat /\ d \in Nat
<1>1. olCfg.keys[i] \in Seq(Nat) /\ Len(olCfg.dirs) <= Len(olCfg.keys[i]) /\ olCfg.dirs \in Seq(Directions)
  BY DEF OrderConfigOK
<1> DEFINE k == olCfg.keys[i]
           ds == olCfg.dirs
<1>2. k \in Seq(Nat) /\ ds \in Seq(Directions) /\ Len(ds) <= Len(k) BY <1>1
<1> HIDE DEF k, ds
<1>3. /\ DOMAIN ds = 1..Len(ds) /\ Len(ds) \in Nat
      /\ \A d \in 1..Len(ds) : ds[d] \in Directions /\ k[d] \in Nat /\ d \in Nat BY <1>2
<1> QED BY <1>3 DEF k, ds

\* The rows are in a strict weak order.
LEMMA RowOrder ==
  ASSUME OrderConfigOK(olCfg), NEW i \in DOMAIN olCfg.keys, NEW j \in DOMAIN olCfg.keys, NEW k \in DOMAIN olCfg.keys
  PROVE  /\ ~RowLess(i, i)
         /\ RowLess(i, j) /\ RowLess(j, k) => RowLess(i, k)
         /\ RowLess(i, j) => RowLess(i, k) \/ RowLess(k, j)
<1> DEFINE D == DOMAIN olCfg.dirs
           L(d, a, b) == CompareBy(olCfg.dirs[d], olCfg.keys[a][d], olCfg.keys[b][d])
<1>1. /\ D \subseteq Nat /\ \A d \in D : \A e \in 1..(d - 1) : e \in D /\ e < d /\ e \in Nat
      /\ \A d \in D, e \in D : e < d => e \in 1..(d - 1) BY KeyFacts
<1>2. \A d \in D : olCfg.dirs[d] \in Directions BY KeyFacts
<1>3. \A a \in {i, j, k} : \A d \in D : olCfg.keys[a][d] \in Nat BY KeyFacts
<1>4. \A a, b \in {i, j, k} : \A d \in D : L(d, a, b) = 0 <=> olCfg.keys[a][d] = olCfg.keys[b][d]
  BY <1>2, <1>3, CompareFacts
<1>5. \A a, b, c \in {i, j, k} : \A d \in D : L(d, a, b) = -1 /\ L(d, b, c) = -1 => L(d, a, c) = -1
  BY <1>2, <1>3, CompareFacts
<1>6. \A a, b \in {i, j, k} : \A d \in D : L(d, a, b) # 0 => L(d, a, b) = -1 \/ L(d, b, a) = -1
  BY <1>2, <1>3, CompareFacts
<1>7. \A a, b : RowLess(a, b) <=> \E d \in D : L(d, a, b) = -1 /\ \A e \in 1..(d - 1) : L(e, a, b) = 0
  BY DEF RowLess, ValsLess
<1>8. \A a, b, c \in {i, j, k} : \A d \in D :
        /\ (L(d, a, b) = 0 /\ L(d, b, c) = 0 => L(d, a, c) = 0)
        /\ (L(d, a, b) = 0 /\ L(d, b, c) = -1 => L(d, a, c) = -1)
        /\ (L(d, a, b) = -1 /\ L(d, b, c) = 0 => L(d, a, c) = -1)
        /\ (L(d, a, b) = 0 => L(d, b, a) = 0)
        /\ L(d, a, a) = 0 BY <1>4
<1> HIDE DEF D, L
<1>9. ~RowLess(i, i) BY <1>7, <1>8
<1>10. RowLess(i, j) /\ RowLess(j, k) => RowLess(i, k)
 <2> SUFFICES ASSUME RowLess(i, j), RowLess(j, k) PROVE RowLess(i, k) OBVIOUS
 <2>1. PICK d \in D : L(d, i, j) = -1 /\ \A e \in 1..(d - 1) : L(e, i, j) = 0 BY <1>7
 <2>2. PICK f \in D : L(f, j, k) = -1 /\ \A e \in 1..(f - 1) : L(e, j, k) = 0 BY <1>7
 <2>3. d \in Nat /\ f \in Nat BY <1>1
 <2>4. CASE d = f
  <3>1. L(d, i, k) = -1 BY <1>5, <2>1, <2>2, <2>4
  <3>2. \A e \in 1..(d - 1) : L(e, i, k) = 0 BY <1>1, <1>8, <2>1, <2>2, <2>4
  <3> QED BY <1>7, <3>1, <3>2
 <2>5. CASE d < f
  <3>1. L(d, i, k) = -1 BY <1>1, <1>8, <2>1, <2>2, <2>5
  <3>2. \A e \in 1..(d - 1) : e \in D /\ e \in 1..(f - 1) BY <1>1, <2>3, <2>5
  <3>3. \A e \in 1..(d - 1) : L(e, i, k) = 0 BY <1>8, <2>1, <2>2, <3>2
  <3> QED BY <1>7, <3>1, <3>3
 <2>6. CASE f < d
  <3>1. L(f, i, k) = -1 BY <1>1, <1>8, <2>1, <2>2, <2>6
  <3>2. \A e \in 1..(f - 1) : e \in D /\ e \in 1..(d - 1) BY <1>1, <2>3, <2>6
  <3>3. \A e \in 1..(f - 1) : L(e, i, k) = 0 BY <1>8, <2>1, <2>2, <3>2
  <3> QED BY <1>7, <3>1, <3>3
 <2> QED BY <2>3, <2>4, <2>5, <2>6
<1>11. RowLess(i, j) => RowLess(i, k) \/ RowLess(k, j)
 <2> SUFFICES ASSUME RowLess(i, j) PROVE RowLess(i, k) \/ RowLess(k, j) OBVIOUS
 <2>1. PICK d \in D : L(d, i, j) = -1 /\ \A e \in 1..(d - 1) : L(e, i, j) = 0 BY <1>7
 <2> DEFINE T == {e \in D : e <= d /\ L(e, i, k) # 0}
 <2>2. CASE T = {}
  <3>1. L(d, i, k) = 0 /\ \A e \in 1..(d - 1) : e \in D /\ L(e, i, k) = 0 BY <1>1, <2>2
  <3>2. L(d, k, j) = -1 BY <1>8, <2>1, <3>1
  <3>3. \A e \in 1..(d - 1) : L(e, k, j) = 0 BY <1>8, <2>1, <3>1
  <3> QED BY <1>7, <3>2, <3>3
 <2>3. CASE T # {}
  <3>1. T \in SUBSET Nat BY <1>1
  <3>2. PICK e \in T : \A f \in T : e <= f BY <2>3, <3>1, LeastNumber
  <3>3. e \in D /\ e \in Nat /\ d \in Nat /\ e <= d /\ L(e, i, k) # 0 BY <1>1, <3>2
  <3>4. \A f \in 1..(e - 1) : f \in D /\ f \in 1..(d - 1) /\ L(f, i, k) = 0 BY <1>1, <3>2, <3>3
  <3>5. CASE L(e, i, k) = -1 BY <1>7, <3>3, <3>4, <3>5
  <3>6. CASE L(e, k, i) = -1
   <4>1. L(e, k, j) = -1
    <5>1. CASE e = d BY <1>5, <2>1, <3>3, <3>6, <5>1
    <5>2. CASE e # d
     <6>1. e \in 1..(d - 1) BY <1>1, <3>3, <5>2
     <6> QED BY <1>8, <2>1, <3>3, <3>6, <6>1
    <5> QED BY <5>1, <5>2
   <4>2. \A f \in 1..(e - 1) : L(f, k, j) = 0 BY <1>8, <2>1, <3>4
   <4> QED BY <1>7, <3>3, <4>1, <4>2
  <3> QED BY <1>6, <3>3, <3>5, <3>6
 <2> QED BY <2>2, <2>3
<1> QED BY <1>9, <1>10, <1>11

\* A heap that holds a row has a maximum.
LEMMA HeapHasMax ==
  ASSUME OrderConfigOK(olCfg), NEW heap \in SUBSET (DOMAIN olCfg.keys), heap # {}
  PROVE  HeapMaxes(heap) # {}
<1> DEFINE Above(r) == {q \in heap : RowLess(r, q)}
           T == {Cardinality(Above(r)) : r \in heap}
<1>1. IsFiniteSet(heap)
 <2>1. IsFiniteSet(DOMAIN olCfg.keys)
  <3>1. DOMAIN olCfg.keys = 1..Len(olCfg.keys) /\ Len(olCfg.keys) \in Int BY OrderNumbers
  <3>2. IsFiniteSet(1..Len(olCfg.keys)) BY <3>1, FS_Interval
  <3> QED BY <3>1, <3>2
 <2> QED BY <2>1, FS_Subset
<1>2. ASSUME NEW r \in heap PROVE IsFiniteSet(Above(r)) /\ Cardinality(Above(r)) \in Nat
 <2>1. Above(r) \in SUBSET heap OBVIOUS
 <2> HIDE DEF Above
 <2> QED BY <1>1, <2>1, FS_Subset, FS_CardinalityType
<1>3. T \in SUBSET Nat /\ T # {} BY <1>2
<1>4. PICK least \in T : \A t \in T : least <= t BY <1>3, LeastNumber
<1>5. PICK m \in heap : least = Cardinality(Above(m)) OBVIOUS
<1>6. \A r \in heap : Cardinality(Above(m)) <= Cardinality(Above(r)) BY <1>4, <1>5
<1>7. ASSUME NEW q \in heap, RowLess(m, q) PROVE FALSE
 <2>1. q \in Above(m) /\ q \notin Above(q) BY <1>7, RowOrder
 <2>2. Above(q) \in SUBSET Above(m) BY <1>7, RowOrder
 <2> HIDE DEF Above
 <2>3. Cardinality(Above(q)) <= Cardinality(Above(m)) /\ (Cardinality(Above(q)) = Cardinality(Above(m)) => Above(q) = Above(m))
   BY <1>2, <2>2, FS_Subset
 <2>4. Cardinality(Above(q)) \in Nat /\ Cardinality(Above(m)) \in Nat /\ Cardinality(Above(m)) <= Cardinality(Above(q))
   BY <1>2, <1>6
 <2> QED BY <2>1, <2>3, <2>4
<1> QED BY <1>7 DEF HeapMaxes

-----------------------------------------------------------------------------
(* The heap holds the least rows seen, and the sorted slots the greatest   *)
(* of those.                                                               *)

Slots == {olSorted[p] : p \in DOMAIN olSorted}
Kept == olHeap \cup Slots
LeftOut == (1..olI) \ Kept

OrderTypes ==
  /\ OrderConfigOK(olCfg) /\ olPc \in {"rows", "sort", "done"}
  /\ olI \in 0..Len(olCfg.keys) /\ (olPc # "rows" => olI = Len(olCfg.keys))
  /\ olHeap \subseteq 1..olI /\ olSorted \in Seq(1..olI) /\ olErr \in BOOLEAN

KeptInv ==
  /\ Slots \cap olHeap = {} /\ \A p, q \in DOMAIN olSorted : olSorted[p] = olSorted[q] => p = q
  /\ Cardinality(olHeap) + Len(olSorted) <= offsetPlusLimit
  /\ LeftOut # {} => Cardinality(olHeap) + Len(olSorted) = offsetPlusLimit
  /\ \A r \in LeftOut, h \in Kept : ~RowLess(r, h)

SortedInv ==
  /\ \A p, q \in DOMAIN olSorted : p < q => ~RowLess(olSorted[q], olSorted[p])
  /\ \A p \in DOMAIN olSorted, h \in olHeap : ~RowLess(olSorted[p], h)
  /\ olPc = "rows" => olSorted = <<>>
  /\ olSorted # <<>> => Cardinality(olHeap) >= olCfg.offset

\* What is yielded of the sorted slots.
Yielded == IF olCfg.limit <= Len(olSorted) THEN olCfg.limit ELSE Len(olSorted)

SlicedInv ==
  olPc = "done" /\ ~olErr => Cardinality(olHeap) <= olCfg.offset /\ olOut = SubSeq(olSorted, 1, Yielded)

\* Without ORDER BY: how many of the first i rows are yielded.
Passed(i) ==
  IF i <= olCfg.offset THEN 0 ELSE IF i <= olCfg.offset + olCfg.limit THEN i - olCfg.offset ELSE olCfg.limit

PassInv ==
  /\ olHeap = {} /\ olSorted = <<>> /\ olPc # "sort"
  /\ olOut \in Seq(Nat) /\ Len(olOut) = Passed(olI)
  /\ \A p \in DOMAIN olOut : olOut[p] = olCfg.offset + p

SliceInv ==
  /\ OrderTypes
  /\ olCfg.dirs # <<>> => KeptInv /\ SortedInv /\ SlicedInv
  /\ olCfg.dirs = <<>> => PassInv

LEMMA OrderBounds ==
  ASSUME OrderTypes
  PROVE  /\ olI \in Nat /\ 1..olI \subseteq DOMAIN olCfg.keys /\ IsFiniteSet(1..olI)
         /\ IsFiniteSet(olHeap) /\ Cardinality(olHeap) \in Nat /\ offsetPlusLimit \in Nat
         /\ Len(olSorted) \in Nat /\ DOMAIN olSorted = 1..Len(olSorted)
         /\ \A p \in 1..Len(olSorted) : olSorted[p] \in 1..olI
         /\ Slots \subseteq 1..olI /\ Kept \subseteq 1..olI
<1>1. /\ OrderConfigOK(olCfg) /\ olI \in 0..Len(olCfg.keys) /\ olHeap \in SUBSET (1..olI) /\ olSorted \in Seq(1..olI)
  BY DEF OrderTypes
<1>2. olI \in Nat /\ 1..olI \subseteq DOMAIN olCfg.keys /\ offsetPlusLimit \in Nat BY <1>1, OrderNumbers
<1>3. IsFiniteSet(1..olI) BY <1>2, FS_Interval
<1>4. IsFiniteSet(olHeap) /\ Cardinality(olHeap) \in Nat BY <1>1, <1>3, FS_Subset, FS_CardinalityType
<1>5. Len(olSorted) \in Nat /\ DOMAIN olSorted = 1..Len(olSorted) /\ \A p \in 1..Len(olSorted) : olSorted[p] \in 1..olI
  BY <1>1
<1>6. Slots \subseteq 1..olI /\ Kept \subseteq 1..olI BY <1>1, <1>5 DEF Slots, Kept
<1> QED BY <1>2, <1>3, <1>4, <1>5, <1>6

LEMMA OrderKept ==
  ASSUME UNCHANGED olCfg
  PROVE  /\ olCfg' = olCfg /\ OrderConfigOK(olCfg)' = OrderConfigOK(olCfg) /\ offsetPlusLimit' = offsetPlusLimit
         /\ \A i, j : RowLess(i, j)' = RowLess(i, j)
         /\ \A i : Passed(i)' = Passed(i)
BY DEF OrderConfigOK, offsetPlusLimit, RowLess, ValsLess, Passed

\* A row enters the heap, or displaces a maximum, or is no row of the slice.
LEMMA OrderPushStep ==
  ASSUME SliceInv, OrderPush
  PROVE  SliceInv'
<1> DEFINE i == olI + 1
           pushed == olHeap \cup {i}
           k == offsetPlusLimit
<1>1. /\ olPc = "rows" /\ olCfg.dirs # <<>> /\ olI < Len(olCfg.keys) /\ olI' = i
      /\ UNCHANGED <<olCfg, olPc, olSorted, olOut, olErr>> BY DEF OrderPush
<1>2. /\ OrderTypes /\ OrderConfigOK(olCfg) /\ olSorted = <<>>
      /\ Cardinality(olHeap) <= k /\ (LeftOut # {} => Cardinality(olHeap) = k)
      /\ \A r \in LeftOut, h \in olHeap : ~RowLess(r, h)
      /\ Slots = {} /\ LeftOut = (1..olI) \ olHeap /\ Kept = olHeap
 <2>1. OrderTypes /\ KeptInv /\ olSorted = <<>> /\ OrderConfigOK(olCfg) BY <1>1 DEF SliceInv, SortedInv, OrderTypes
 <2>2. Slots = {} /\ Len(olSorted) = 0 BY <2>1 DEF Slots
 <2>3. Kept = olHeap /\ LeftOut = (1..olI) \ olHeap BY <2>2 DEF Kept, LeftOut
 <2>4. Cardinality(olHeap) \in Nat BY <2>1, OrderBounds
 <2> QED BY <2>1, <2>2, <2>3, <2>4 DEF KeptInv
<1>3. /\ olI \in Nat /\ i \in 1..Len(olCfg.keys) /\ 1..i \subseteq DOMAIN olCfg.keys /\ 1..i = (1..olI) \cup {i} /\ i \notin 1..olI
      /\ IsFiniteSet(olHeap) /\ Cardinality(olHeap) \in Nat /\ k \in Nat /\ olHeap \subseteq 1..olI
 <2>1. olI \in Nat /\ Len(olCfg.keys) \in Nat /\ DOMAIN olCfg.keys = 1..Len(olCfg.keys)
   BY <1>2, OrderBounds, OrderNumbers
 <2>2. i \in 1..Len(olCfg.keys) /\ 1..i \subseteq DOMAIN olCfg.keys /\ 1..i = (1..olI) \cup {i} /\ i \notin 1..olI
   BY <1>1, <2>1
 <2> QED BY <1>2, <2>1, <2>2, OrderBounds DEF OrderTypes
<1> HIDE DEF i, k
<1>4. IsFiniteSet(pushed) /\ Cardinality(pushed) = Cardinality(olHeap) + 1 /\ pushed \subseteq 1..i
  BY <1>3, FS_AddElement
<1>5. \A a, b, c \in 1..i : /\ ~RowLess(a, a)
                            /\ (RowLess(a, b) /\ RowLess(b, c) => RowLess(a, c))
                            /\ (RowLess(a, b) => RowLess(a, c) \/ RowLess(c, b)) BY <1>2, <1>3, RowOrder
<1>6. SUFFICES /\ olHeap' \subseteq 1..i
               /\ Cardinality(olHeap') <= k
               /\ (1..i) \ olHeap' # {} => Cardinality(olHeap') = k
               /\ \A r \in (1..i) \ olHeap', h \in olHeap' : ~RowLess(r, h)
 <2>1. olSorted' = <<>> /\ Slots' = {} /\ Kept' = olHeap' /\ LeftOut' = (1..i) \ olHeap' /\ Len(olSorted') = 0
   BY <1>1, <1>2 DEF Slots, Kept, LeftOut
 <2>2. OrderTypes' BY <1>1, <1>2, <1>3, <1>6, <2>1, OrderKept DEF OrderTypes
 <2>3. Cardinality(olHeap') \in Nat
  <3>1. i \in Int /\ olHeap' \in SUBSET (1..i) BY <1>3, <1>6
  <3>2. IsFiniteSet(1..i) BY <3>1, FS_Interval
  <3>3. IsFiniteSet(olHeap') BY <3>1, <3>2, FS_Subset
  <3> QED BY <3>3, FS_CardinalityType
 <2>4. KeptInv' BY <1>1, <1>6, <2>1, <2>3, OrderKept DEF KeptInv, k
 <2>5. SortedInv' /\ SlicedInv' BY <1>1, <2>1 DEF SortedInv, SlicedInv
 <2> QED BY <1>1, <2>2, <2>4, <2>5 DEF SliceInv
<1>7. CASE ~NeedPush(i)
 <2>1. olHeap' = olHeap BY <1>7 DEF OrderPush, i
 <2>2. Cardinality(olHeap) = k /\ olHeap # {} /\ \A m \in HeapMaxes(olHeap) : ~RowLess(i, m)
   BY <1>2, <1>3, <1>7 DEF NeedPush, k
 <2>3. PICK m \in HeapMaxes(olHeap) : TRUE
  <3>1. olHeap \in SUBSET (DOMAIN olCfg.keys) BY <1>3
  <3> QED BY <1>2, <2>2, <3>1, HeapHasMax
 <2>4. m \in olHeap /\ (\A q \in olHeap : ~RowLess(m, q)) /\ ~RowLess(i, m) BY <2>2, <2>3 DEF HeapMaxes
 <2>5. \A h \in olHeap : ~RowLess(i, h)
  <3>1. i \in 1..i /\ olHeap \subseteq 1..i BY <1>3
  <3> QED BY <1>5, <2>4, <3>1
 <2>6. \A r \in (1..i) \ olHeap : r \in LeftOut \/ r = i BY <1>2, <1>3
 <2> QED BY <1>2, <1>3, <2>1, <2>2, <2>5, <2>6
<1>8. CASE NeedPush(i) /\ ~HeapTooBig
 <2>1. olHeap' = pushed BY <1>8 DEF OrderPush, i
 <2>2. Cardinality(olHeap) + 1 <= k BY <1>3, <1>8 DEF HeapTooBig, k
 <2>3. LeftOut = {} BY <1>2, <1>3, <2>2
 <2>4. (1..i) \ pushed = {} BY <1>2, <1>3, <2>3
 <2> QED BY <1>4, <2>1, <2>2, <2>4
<1>9. CASE NeedPush(i) /\ HeapTooBig
 <2>1. PICK m \in HeapMaxes(pushed) : olHeap' = pushed \ {m} BY <1>9 DEF OrderPush, i
 <2>2. m \in pushed /\ \A q \in pushed : ~RowLess(m, q) BY <2>1 DEF HeapMaxes
 <2>3. Cardinality(olHeap') = Cardinality(olHeap)
  <3> HIDE DEF pushed
  <3>1. Cardinality(pushed \ {m}) = Cardinality(pushed) - 1 BY <1>4, <2>2, FS_RemoveElement
  <3> QED BY <1>3, <1>4, <2>1, <3>1
 <2>4. Cardinality(olHeap) = k BY <1>2, <1>3, <1>9 DEF HeapTooBig, k
 <2>5. olHeap = {} \/ \E x \in HeapMaxes(olHeap) : RowLess(i, x) BY <1>3, <1>9, <2>4 DEF NeedPush, k
 <2>6. ASSUME NEW r \in (1..i) \ olHeap', NEW h \in olHeap' PROVE ~RowLess(r, h)
  <3>1. h \in pushed /\ (h \in olHeap \/ h = i) BY <2>1
  <3>2. r = m \/ r \in LeftOut BY <1>2, <1>3, <2>1
  <3>3. CASE r = m BY <2>2, <3>1, <3>3
  <3>4. CASE r \in LeftOut /\ h \in olHeap BY <1>2, <3>4
  <3>5. CASE r \in LeftOut /\ h = i
   <4>1. olHeap # {} BY <2>1, <2>2, <3>5
   <4>2. PICK x \in HeapMaxes(olHeap) : RowLess(i, x) BY <2>5, <4>1
   <4>3. x \in olHeap /\ ~RowLess(r, x) BY <1>2, <3>5, <4>2 DEF HeapMaxes
   <4>4. r \in 1..i /\ i \in 1..i /\ x \in 1..i BY <1>3, <4>3
   <4> QED BY <1>5, <3>5, <4>2, <4>3, <4>4
  <3> QED BY <3>1, <3>2, <3>3, <3>4, <3>5
 <2>7. olHeap' \subseteq 1..i BY <1>4, <2>1
 <2>8. Cardinality(olHeap') <= k /\ Cardinality(olHeap') = k BY <1>3, <2>3, <2>4
 <2>9. \A r \in (1..i) \ olHeap', h \in olHeap' : ~RowLess(r, h) BY <2>6
 <2> QED BY <2>7, <2>8, <2>9
<1> QED BY <1>7, <1>8, <1>9

\* The maximum of the heap moves to the front of the sorted slots.
LEMMA SortPopStep ==
  ASSUME SliceInv, SortPop
  PROVE  SliceInv'
<1> DEFINE n == Len(olSorted)
<1>1. PICK m \in HeapMaxes(olHeap) : olHeap' = olHeap \ {m} /\ olSorted' = <<m>> \o olSorted BY DEF SortPop
<1>2. /\ olPc = "sort" /\ Cardinality(olHeap) > olCfg.offset /\ UNCHANGED <<olCfg, olPc, olI, olOut, olErr>>
  BY DEF SortPop
<1>3. olCfg.dirs # <<>> /\ OrderTypes /\ KeptInv /\ SortedInv /\ OrderConfigOK(olCfg) /\ olSorted \in Seq(1..olI)
  BY <1>2 DEF SliceInv, PassInv, OrderTypes
<1>4. m \in olHeap /\ (\A q \in olHeap : ~RowLess(m, q)) /\ m \in 1..olI BY <1>1, <1>3 DEF HeapMaxes, OrderTypes
<1>5. /\ n \in Nat /\ DOMAIN olSorted = 1..n /\ IsFiniteSet(olHeap) /\ Cardinality(olHeap) \in Nat
      /\ olCfg.offset \in Nat /\ \A p \in 1..n : olSorted[p] \in 1..olI BY <1>3, OrderBounds, OrderNumbers
<1>6. /\ olSorted' \in Seq(1..olI) /\ Len(olSorted') = n + 1 /\ olSorted'[1] = m
      /\ \A p \in 2..(n + 1) : olSorted'[p] = olSorted[p - 1]
 <2>1. <<m>> \in Seq(1..olI) /\ Len(<<m>>) = 1 /\ <<m>>[1] = m BY <1>4
 <2>2. /\ olSorted' \in Seq(1..olI) /\ Len(olSorted') = 1 + n
       /\ \A p \in 1..(1 + n) : olSorted'[p] = IF p <= 1 THEN <<m>>[p] ELSE olSorted[p - 1]
   BY <1>1, <1>3, <2>1, ConcatProperties
 <2> QED BY <1>5, <2>1, <2>2
<1>7. DOMAIN olSorted' = 1..(n + 1) /\ olSorted' # <<>> BY <1>5, <1>6
<1> HIDE DEF n
<1>8. \A p \in 1..(n + 1) : p = 1 \/ (p \in 2..(n + 1) /\ p - 1 \in 1..n) BY <1>5
<1>9. /\ Slots' = Slots \cup {m} /\ \A p \in 1..n : p + 1 \in 2..(n + 1) /\ olSorted'[p + 1] = olSorted[p]
 <2>1. \A p \in 1..n : p + 1 \in 2..(n + 1) /\ p + 1 \in 1..(n + 1) /\ olSorted'[p + 1] = olSorted[p] BY <1>5, <1>6
 <2>2. \A x \in Slots : x \in Slots' BY <1>5, <1>7, <2>1 DEF Slots
 <2>3. 1 \in 1..(n + 1) /\ m \in Slots' BY <1>5, <1>6, <1>7 DEF Slots
 <2>4. \A x \in Slots' : x \in Slots \cup {m}
  <3>1. ASSUME NEW p \in 1..(n + 1) PROVE olSorted'[p] \in Slots \cup {m}
   <4>1. CASE p = 1 BY <1>6, <4>1
   <4>2. CASE p # 1 BY <1>5, <1>6, <1>8, <4>2 DEF Slots
   <4> QED BY <4>1, <4>2
  <3> QED BY <1>7, <3>1 DEF Slots
 <2> QED BY <2>1, <2>2, <2>3, <2>4
<1>10. Kept' = Kept /\ LeftOut' = LeftOut BY <1>1, <1>2, <1>4, <1>9 DEF Kept, LeftOut
<1>11. Cardinality(olHeap') = Cardinality(olHeap) - 1 BY <1>1, <1>4, <1>5, FS_RemoveElement
<1>12. OrderTypes' BY <1>1, <1>2, <1>3, <1>6, OrderKept DEF OrderTypes
<1>13. m \notin Slots /\ \A p \in 1..n : olSorted[p] # m /\ olSorted[p] \in Slots BY <1>3, <1>4, <1>5 DEF KeptInv, Slots
<1>14. KeptInv'
 <2>1. Slots' \cap olHeap' = {} BY <1>1, <1>3, <1>4, <1>9 DEF KeptInv
 <2>2. \A p, q \in DOMAIN olSorted' : olSorted'[p] = olSorted'[q] => p = q
  <3> SUFFICES ASSUME NEW p \in 1..(n + 1), NEW q \in 1..(n + 1), olSorted'[p] = olSorted'[q] PROVE p = q BY <1>7
  <3>1. CASE p = 1 \/ q = 1 BY <1>6, <1>8, <1>13, <3>1
  <3>2. CASE p # 1 /\ q # 1
   <4>1. p - 1 \in 1..n /\ q - 1 \in 1..n /\ olSorted[p - 1] = olSorted[q - 1] BY <1>6, <1>8, <3>2
   <4>2. p - 1 = q - 1 BY <1>3, <1>5, <4>1 DEF KeptInv
   <4> QED BY <1>5, <4>2
  <3> QED BY <3>1, <3>2
 <2>3. Cardinality(olHeap') + Len(olSorted') = Cardinality(olHeap) + Len(olSorted) BY <1>5, <1>6, <1>11 DEF n
 <2>4. Kept' = Kept /\ LeftOut' = LeftOut /\ offsetPlusLimit' = offsetPlusLimit /\ \A i, j : RowLess(i, j)' = RowLess(i, j)
   BY <1>2, <1>10, OrderKept
 <2> QED BY <1>3, <2>1, <2>2, <2>3, <2>4 DEF KeptInv
<1>15. SortedInv'
 <2>1. \A i, j : RowLess(i, j)' = RowLess(i, j) BY <1>2, OrderKept
 <2>2. ASSUME NEW p \in 1..(n + 1), NEW q \in 1..(n + 1), p < q PROVE ~RowLess(olSorted'[q], olSorted'[p])
  <3>1. q \in 2..(n + 1) /\ q - 1 \in 1..n /\ olSorted'[q] = olSorted[q - 1] BY <1>5, <1>6, <1>8, <2>2
  <3>2. CASE p = 1 BY <1>3, <1>4, <1>5, <1>6, <3>1, <3>2 DEF SortedInv
  <3>3. CASE p # 1
   <4>1. p - 1 \in 1..n /\ olSorted'[p] = olSorted[p - 1] /\ p - 1 < q - 1 BY <1>5, <1>6, <1>8, <2>2, <3>3
   <4> QED BY <1>3, <1>5, <3>1, <4>1 DEF SortedInv
  <3> QED BY <3>2, <3>3
 <2>3. ASSUME NEW p \in 1..(n + 1), NEW h \in olHeap' PROVE ~RowLess(olSorted'[p], h)
  <3>1. h \in olHeap BY <1>1
  <3>2. CASE p = 1 BY <1>4, <1>6, <3>1, <3>2
  <3>3. CASE p # 1 BY <1>3, <1>5, <1>6, <1>8, <3>1, <3>3 DEF SortedInv
  <3> QED BY <3>2, <3>3
 <2>4. Cardinality(olHeap') >= olCfg'.offset BY <1>2, <1>5, <1>11
 <2> QED BY <1>2, <1>7, <2>1, <2>2, <2>3, <2>4 DEF SortedInv
<1>16. SlicedInv' BY <1>2 DEF SlicedInv
<1> QED BY <1>2, <1>3, <1>12, <1>14, <1>15, <1>16 DEF SliceInv

\* LeastOf and MostOf of two numbers.
LEMMA OfTwo ==
  ASSUME NEW a \in Int, NEW b \in Int
  PROVE  LeastOf({a, b}) = (IF a <= b THEN a ELSE b) /\ MostOf({a, b}) = (IF a <= b THEN b ELSE a)
<1>1. \E x \in {a, b} : \A y \in {a, b} : x <= y OBVIOUS
<1>2. LeastOf({a, b}) \in {a, b} /\ \A y \in {a, b} : LeastOf({a, b}) <= y BY <1>1 DEF LeastOf
<1>3. \E x \in {a, b} : \A y \in {a, b} : y <= x OBVIOUS
<1>4. MostOf({a, b}) \in {a, b} /\ \A y \in {a, b} : y <= MostOf({a, b}) BY <1>3 DEF MostOf
<1> HIDE DEF LeastOf, MostOf
<1> QED BY <1>2, <1>4

LEMMA OrderYieldStep ==
  ASSUME SliceInv, OrderYield
  PROVE  SliceInv'
<1>1. /\ olPc = "sort" /\ Cardinality(olHeap) <= olCfg.offset /\ olPc' = "done" /\ UNCHANGED <<olCfg, olI, olHeap, olSorted, olErr>>
      /\ olOut' = SubSeq(olSorted, 1, IF olCfg.limit < MaxInt64 THEN LeastOf({olCfg.limit, Len(olSorted)}) ELSE Len(olSorted))
  BY DEF OrderYield
<1>2. OrderTypes /\ OrderConfigOK(olCfg) /\ olCfg.dirs # <<>> /\ KeptInv /\ SortedInv
  BY <1>1 DEF SliceInv, OrderTypes, PassInv
<1>3. /\ Len(olSorted) \in Nat /\ olCfg.limit \in Nat /\ olCfg.limit <= MaxInt64 /\ MaxInt64 \in Nat
      /\ Len(olSorted) <= MaxInt64
 <2>1. Cardinality(olHeap) \in Nat /\ Len(olSorted) \in Nat /\ offsetPlusLimit \in Nat BY <1>2, OrderBounds
 <2>2. Cardinality(olHeap) + Len(olSorted) <= offsetPlusLimit BY <1>2 DEF KeptInv
 <2>3. offsetPlusLimit <= MaxInt64 /\ olCfg.limit \in Nat /\ olCfg.limit <= MaxInt64 /\ MaxInt64 \in Nat
   BY <1>2, OrderNumbers
 <2> QED BY <2>1, <2>2, <2>3
<1>4. olOut' = SubSeq(olSorted, 1, Yielded)
 <2>1. LeastOf({olCfg.limit, Len(olSorted)}) = IF olCfg.limit <= Len(olSorted) THEN olCfg.limit ELSE Len(olSorted)
   BY <1>3, OfTwo
 <2>2. (IF olCfg.limit < MaxInt64 THEN LeastOf({olCfg.limit, Len(olSorted)}) ELSE Len(olSorted)) = Yielded
  <3>1. CASE olCfg.limit < MaxInt64 BY <2>1, <3>1 DEF Yielded
  <3>2. CASE ~(olCfg.limit < MaxInt64)
   <4>1. olCfg.limit <= Len(olSorted) => olCfg.limit = Len(olSorted) BY <1>3, <3>2
   <4> QED BY <3>2, <4>1 DEF Yielded
  <3> QED BY <3>1, <3>2
 <2> QED BY <1>1, <2>2
<1>5. OrderTypes' BY <1>1, <1>2, OrderKept DEF OrderTypes
<1>6. Slots' = Slots /\ Kept' = Kept /\ LeftOut' = LeftOut /\ Yielded' = Yielded
  BY <1>1 DEF Slots, Kept, LeftOut, Yielded
<1>7. KeptInv' BY <1>1, <1>2, <1>6, OrderKept DEF KeptInv
<1>8. SortedInv' BY <1>1, <1>2, OrderKept DEF SortedInv
<1>9. SlicedInv' BY <1>1, <1>4, <1>6 DEF SlicedInv
<1> QED BY <1>1, <1>2, <1>5, <1>7, <1>8, <1>9 DEF SliceInv

LEMMA OrderRowsEndStep ==
  ASSUME SliceInv, OrderRowsEnd
  PROVE  SliceInv'
<1>1. /\ olPc = "rows" /\ olI = Len(olCfg.keys) /\ olErr' = olCfg.fail
      /\ olPc' = (IF olCfg.fail \/ olCfg.dirs = <<>> THEN "done" ELSE "sort")
      /\ UNCHANGED <<olCfg, olI, olHeap, olSorted, olOut>> BY DEF OrderRowsEnd
<1>2. OrderTypes /\ OrderConfigOK(olCfg) BY DEF SliceInv, OrderTypes
<1>3. olCfg.fail \in BOOLEAN BY <1>2 DEF OrderConfigOK
<1>4. OrderTypes' BY <1>1, <1>2, <1>3, OrderKept DEF OrderTypes
<1>5. Slots' = Slots /\ Kept' = Kept /\ LeftOut' = LeftOut BY <1>1 DEF Slots, Kept, LeftOut
<1>6. CASE olCfg.dirs # <<>>
 <2>1. KeptInv /\ SortedInv BY <1>6 DEF SliceInv
 <2>2. KeptInv' BY <1>1, <1>5, <2>1, OrderKept DEF KeptInv
 <2>3. SortedInv' /\ SlicedInv' BY <1>1, <1>3, <1>6, <2>1, OrderKept DEF SortedInv, SlicedInv
 <2> QED BY <1>1, <1>4, <1>6, <2>2, <2>3 DEF SliceInv
<1>7. CASE olCfg.dirs = <<>>
 <2>1. PassInv' BY <1>1, <1>7, OrderKept DEF SliceInv, PassInv
 <2> QED BY <1>1, <1>4, <1>7, <2>1 DEF SliceInv
<1> QED BY <1>6, <1>7

\* Without ORDER BY a row is counted, and yielded within OFFSET and LIMIT.
LEMMA OrderPassStep ==
  ASSUME SliceInv, OrderPass
  PROVE  SliceInv'
<1>1. /\ olPc = "rows" /\ olCfg.dirs = <<>> /\ olI < Len(olCfg.keys) /\ olI' = olI + 1
      /\ olOut' = (IF olI >= olCfg.offset /\ olI < offsetPlusLimit THEN Append(olOut, olI + 1) ELSE olOut)
      /\ UNCHANGED <<olCfg, olPc, olHeap, olSorted, olErr>> BY DEF OrderPass
<1>2. OrderTypes /\ OrderConfigOK(olCfg) /\ PassInv BY <1>1 DEF SliceInv, OrderTypes
<1>3. /\ olI \in Nat /\ olCfg.offset \in Nat /\ olCfg.limit \in Nat /\ Len(olCfg.keys) \in Nat
      /\ olI < offsetPlusLimit <=> olI < olCfg.offset + olCfg.limit BY <1>1, <1>2, OrderBounds, OrderNumbers
<1>4. OrderTypes'
 <2>1. olI + 1 \in 0..Len(olCfg.keys) BY <1>1, <1>3
 <2>2. olHeap' = {} /\ olSorted' = <<>> BY <1>1, <1>2 DEF PassInv
 <2>3. olSorted' \in Seq(1..olI') BY <2>2
 <2> QED BY <1>1, <1>2, <2>1, <2>2, <2>3, OrderKept DEF OrderTypes
<1>5. olOut \in Seq(Nat) /\ Len(olOut) = Passed(olI) /\ DOMAIN olOut = 1..Passed(olI) /\ \A p \in DOMAIN olOut : olOut[p] = olCfg.offset + p
  BY <1>2 DEF PassInv
<1>6. olOut' \in Seq(Nat) /\ Len(olOut') = Passed(olI') /\ \A p \in DOMAIN olOut' : olOut'[p] = olCfg.offset + p
 <2>1. CASE olI >= olCfg.offset /\ olI < offsetPlusLimit
  <3>1. olOut' = Append(olOut, olI + 1) /\ olI + 1 \in Nat BY <1>1, <1>3, <2>1
  <3>2. Passed(olI) = olI - olCfg.offset /\ Passed(olI') = olI + 1 - olCfg.offset /\ Passed(olI) \in Nat
    BY <1>1, <1>3, <2>1 DEF Passed
  <3>3. /\ olOut' \in Seq(Nat) /\ Len(olOut') = Len(olOut) + 1 /\ olOut'[Len(olOut) + 1] = olI + 1
        /\ \A p \in 1..Len(olOut) : olOut'[p] = olOut[p] BY <1>5, <3>1, AppendProperties
  <3>4. DOMAIN olOut' = 1..(Passed(olI) + 1) BY <1>5, <3>3
  <3>5. ASSUME NEW p \in 1..(Passed(olI) + 1) PROVE olOut'[p] = olCfg.offset + p
   <4>1. CASE p = Passed(olI) + 1 BY <1>3, <1>5, <3>2, <3>3, <4>1
   <4>2. CASE p # Passed(olI) + 1
    <5>1. p \in 1..Passed(olI) BY <3>2, <4>2
    <5> QED BY <1>5, <3>3, <5>1
   <4> QED BY <4>1, <4>2
  <3>6. Len(olOut') = Passed(olI') BY <1>1, <1>3, <1>5, <3>2, <3>3
  <3> QED BY ONLY <3>3, <3>4, <3>5, <3>6
 <2>2. CASE ~(olI >= olCfg.offset /\ olI < offsetPlusLimit)
  <3>1. olOut' = olOut BY <1>1, <2>2
  <3>2. Passed(olI') = Passed(olI) BY <1>1, <1>3, <2>2 DEF Passed
  <3> QED BY <1>5, <3>1, <3>2
 <2> QED BY <2>1, <2>2
<1>7. PassInv' BY <1>1, <1>2, <1>6, OrderKept DEF PassInv
<1> QED BY <1>1, <1>4, <1>7 DEF SliceInv

LEMMA SliceInvariance ==
  ASSUME NEW Cfgs, \A c \in Cfgs : OrderConfigOK(c)
  PROVE  OrderSpec(Cfgs) => []SliceInv
<1>1. OrderInit(Cfgs) => SliceInv
 <2> SUFFICES ASSUME OrderInit(Cfgs) PROVE SliceInv OBVIOUS
 <2>1. /\ OrderConfigOK(olCfg) /\ olPc = "rows" /\ olI = 0 /\ olHeap = {} /\ olSorted = <<>> /\ olOut = <<>> /\ olErr = FALSE
   BY DEF OrderInit
 <2>2. Len(olCfg.keys) \in Nat /\ olCfg.offset \in Nat /\ offsetPlusLimit \in Nat /\ Cardinality({}) = 0
   BY <2>1, OrderNumbers, FS_EmptySet
 <2>3. OrderTypes
  <3>1. olSorted \in Seq(1..olI) /\ 0 \in 0..Len(olCfg.keys) BY <2>1, <2>2
  <3> QED BY <2>1, <3>1 DEF OrderTypes
 <2>4. Slots = {} /\ LeftOut = {} /\ Kept = {} BY <2>1 DEF Slots, LeftOut, Kept
 <2>5. KeptInv BY <2>1, <2>2, <2>4 DEF KeptInv
 <2>6. SortedInv /\ SlicedInv BY <2>1 DEF SortedInv, SlicedInv
 <2>7. PassInv BY <2>1, <2>2 DEF PassInv, Passed
 <2> QED BY <2>3, <2>5, <2>6, <2>7 DEF SliceInv
<1>2. SliceInv /\ [OrderNext]_orderVars => SliceInv'
 <2> SUFFICES ASSUME SliceInv, [OrderNext]_orderVars PROVE SliceInv' OBVIOUS
 <2>1. CASE UNCHANGED orderVars
  <3>1. UNCHANGED <<olCfg, olPc, olI, olHeap, olSorted, olOut, olErr>> BY <2>1 DEF orderVars
  <3>2. Slots' = Slots /\ Kept' = Kept /\ LeftOut' = LeftOut /\ Yielded' = Yielded
    BY <3>1 DEF Slots, Kept, LeftOut, Yielded
  <3>3. OrderTypes' = OrderTypes BY <3>1, OrderKept DEF OrderTypes
  <3>4. KeptInv => KeptInv' BY <3>1, <3>2, OrderKept DEF KeptInv
  <3>5. SortedInv => SortedInv' BY <3>1, OrderKept DEF SortedInv
  <3>6. SlicedInv' = SlicedInv BY <3>1, <3>2 DEF SlicedInv
  <3>7. PassInv => PassInv' BY <3>1, OrderKept DEF PassInv
  <3> QED BY <3>1, <3>3, <3>4, <3>5, <3>6, <3>7 DEF SliceInv
 <2> QED BY <2>1, OrderPushStep, OrderPassStep, OrderRowsEndStep, SortPopStep, OrderYieldStep DEF OrderNext
<1> QED BY <1>1, <1>2, PTL DEF OrderSpec

-----------------------------------------------------------------------------
(* The slice.                                                              *)

\* The values of a list without repetition.
LEMMA AllDistinct ==
  ASSUME NEW s, NEW k \in Nat, NEW T, \A p \in 1..k : s[p] \in T, \A t \in T : \E p \in 1..k : t = s[p],
         \A p, q \in 1..k : s[p] = s[q] => p = q
  PROVE  IsFiniteSet(T) /\ Cardinality(T) = k
<1> DEFINE f == [p \in 1..k |-> s[p]]
<1>1. f \in Bijection(1..k, T)
 <2>1. f \in [1..k -> T] /\ \A p \in 1..k : f[p] = s[p] OBVIOUS
 <2>2. \A p, q \in 1..k : f[p] = f[q] => p = q BY <2>1
 <2>3. \A t \in T : \E p \in 1..k : f[p] = t BY <2>1
 <2> HIDE DEF f
 <2> QED BY <2>1, <2>2, <2>3 DEF Bijection, Injection, Surjection, IsInjective
<1>2. ExistsBijection(1..k, T) BY <1>1 DEF ExistsBijection
<1>3. IsFiniteSet(1..k) /\ Cardinality(1..k) = k BY FS_Interval
<1> QED BY <1>2, <1>3, FS_Bijection

\* The rank of a sorted slot, once OFFSET rows are left in the heap.
LEMMA SlotRank ==
  ASSUME SliceInv, olCfg.dirs # <<>>, olPc = "done", Cardinality(olHeap) = olCfg.offset, NEW p \in 1..Len(olSorted)
  PROVE  RankLow(olSorted[p]) < olCfg.offset + p /\ olCfg.offset + p <= RankHigh(olSorted[p])
<1> DEFINE x == olSorted[p]
           First(k) == {olSorted[q] : q \in 1..k}
           R == DOMAIN olCfg.keys
<1>1. OrderTypes /\ OrderConfigOK(olCfg) /\ KeptInv /\ SortedInv /\ olI = Len(olCfg.keys) BY DEF SliceInv, OrderTypes
<1>2. /\ R = 1..olI /\ IsFiniteSet(R) /\ IsFiniteSet(olHeap) /\ olHeap \subseteq R /\ olCfg.offset \in Nat
      /\ Len(olSorted) \in Nat /\ DOMAIN olSorted = 1..Len(olSorted) /\ x \in R
      /\ \A q \in 1..Len(olSorted) : olSorted[q] \in R /\ olSorted[q] \in Slots
 <2>1. R = 1..olI BY <1>1, OrderNumbers
 <2>2. Len(olSorted) \in Nat /\ DOMAIN olSorted = 1..Len(olSorted) /\ \A q \in 1..Len(olSorted) : olSorted[q] \in 1..olI
   BY <1>1, OrderBounds
 <2> QED BY <1>1, <2>1, <2>2, OrderBounds, OrderNumbers DEF OrderTypes, Slots
<1>3. p \in Nat /\ p >= 1 /\ p <= Len(olSorted) /\ p - 1 \in Nat BY <1>2
<1>4. ASSUME NEW k \in 0..p
      PROVE  IsFiniteSet(olHeap \cup First(k)) /\ Cardinality(olHeap \cup First(k)) = olCfg.offset + k
 <2>1. k \in Nat /\ \A q \in 1..k : q \in 1..Len(olSorted) BY <1>2, <1>3
 <2>2. \A q, r \in 1..k : olSorted[q] = olSorted[r] => q = r BY <1>1, <1>2, <2>1 DEF KeptInv
 <2>3. IsFiniteSet(First(k)) /\ Cardinality(First(k)) = k
  <3> DEFINE T == First(k)
  <3>1. (\A q \in 1..k : olSorted[q] \in T) /\ (\A t \in T : \E q \in 1..k : t = olSorted[q]) OBVIOUS
  <3> HIDE DEF T
  <3>2. k \in Nat BY <2>1
  <3> DEFINE s == olSorted
  <3>3. /\ \A q \in 1..k : s[q] \in T
        /\ \A t \in T : \E q \in 1..k : t = s[q]
        /\ \A q, r \in 1..k : s[q] = s[r] => q = r BY <2>2, <3>1
  <3> HIDE DEF s
  <3>4. IsFiniteSet(T) /\ Cardinality(T) = k BY ONLY <3>2, <3>3, AllDistinct
  <3> QED BY <3>4 DEF T
 <2>4. olHeap \cap First(k) = {} BY <1>1, <1>2, <2>1 DEF KeptInv
 <2> HIDE DEF First
 <2>6. Cardinality(olHeap \cap First(k)) = 0 BY <2>4, FS_EmptySet
 <2>5. /\ IsFiniteSet(olHeap \cup First(k))
       /\ Cardinality(olHeap \cup First(k)) = Cardinality(olHeap) + Cardinality(First(k)) - Cardinality(olHeap \cap First(k))
   BY <1>2, <2>3, FS_Union
 <2> QED BY <1>2, <2>1, <2>3, <2>5, <2>6
<1>5. RankLow(x) <= olCfg.offset + (p - 1)
 <2> DEFINE S == {j \in R : RowLess(j, x)}
            T == olHeap \cup First(p - 1)
 <2>1. ASSUME NEW j \in R, RowLess(j, x) PROVE j \in T
  <3>1. x \in Kept /\ j \notin LeftOut BY <1>1, <1>2, <2>1 DEF KeptInv, Kept
  <3>2. j \in olHeap \/ \E q \in 1..Len(olSorted) : j = olSorted[q] BY <1>2, <3>1 DEF LeftOut, Kept, Slots
  <3>3. ASSUME NEW q \in 1..Len(olSorted), j = olSorted[q] PROVE q \in 1..(p - 1)
   <4>1. ~(p < q) BY <1>1, <1>2, <2>1, <3>3 DEF SortedInv
   <4>2. q # p BY <1>1, <1>2, <2>1, <3>3, RowOrder
   <4> QED BY <1>2, <1>3, <4>1, <4>2
  <3> QED BY <3>2, <3>3
 <2>2. S \in SUBSET T BY <2>1
 <2>3. IsFiniteSet(T) /\ Cardinality(T) = olCfg.offset + (p - 1)
  <3>1. p - 1 \in 0..p BY <1>3
  <3> HIDE DEF First
  <3> QED BY <1>4, <3>1
 <2> HIDE DEF S, T
 <2>4. Cardinality(S) <= Cardinality(T) BY <2>2, <2>3, FS_Subset
 <2> QED BY <2>3, <2>4 DEF RankLow, S
<1>6. RankHigh(x) >= olCfg.offset + p
 <2> DEFINE S == {j \in R : ~RowLess(x, j)}
            T == olHeap \cup First(p)
 <2>1. ASSUME NEW j \in T PROVE j \in R /\ ~RowLess(x, j)
  <3>1. CASE j \in olHeap BY <1>1, <1>2, <3>1 DEF SortedInv
  <3>2. ASSUME NEW q \in 1..p, j = olSorted[q] PROVE j \in R /\ ~RowLess(x, j)
   <4>1. q \in 1..Len(olSorted) /\ (q = p \/ q < p) /\ j \in R BY <1>2, <1>3, <3>2
   <4>2. CASE q = p BY <1>1, <1>2, <3>2, <4>1, <4>2, RowOrder
   <4>3. CASE q < p BY <1>1, <1>2, <3>2, <4>1, <4>3 DEF SortedInv
   <4> QED BY <4>1, <4>2, <4>3
  <3> QED BY <3>1, <3>2
 <2>2. T \in SUBSET S /\ S \in SUBSET R BY <2>1
 <2>3. Cardinality(T) = olCfg.offset + p
  <3>1. p \in 0..p BY <1>3
  <3> HIDE DEF First
  <3> QED BY <1>4, <3>1
 <2> HIDE DEF S, T
 <2>4. IsFiniteSet(S) BY <1>2, <2>2, FS_Subset
 <2>5. Cardinality(T) <= Cardinality(S) BY <2>2, <2>4, FS_Subset
 <2> QED BY <2>3, <2>5 DEF RankHigh, S
<1>7. RankLow(x) \in Nat
 <2> DEFINE S == {j \in R : RowLess(j, x)}
 <2>1. S \in SUBSET R OBVIOUS
 <2> HIDE DEF S
 <2>2. IsFiniteSet(S) /\ Cardinality(S) \in Nat BY <1>2, <2>1, FS_Subset, FS_CardinalityType
 <2> QED BY <2>2 DEF RankLow, S
<1>8. RankLow(x) < olCfg.offset + p BY <1>2, <1>3, <1>5, <1>7
<1> QED BY <1>6, <1>8

\* How many rows OFFSET and LIMIT let through.
Wanted ==
  IF Len(olCfg.keys) <= olCfg.offset THEN 0
  ELSE IF Len(olCfg.keys) <= olCfg.offset + olCfg.limit THEN Len(olCfg.keys) - olCfg.offset ELSE olCfg.limit

LEMMA WantedIs ==
  ASSUME OrderConfigOK(olCfg)
  PROVE  Wanted = MostOf({0, LeastOf({olCfg.limit, Len(olCfg.keys) - olCfg.offset})}) /\ Wanted \in Nat
<1> DEFINE n == Len(olCfg.keys)
           o == olCfg.offset
           l == olCfg.limit
<1>1. n \in Nat /\ o \in Nat /\ l \in Nat BY OrderNumbers
<1> DEFINE x == LeastOf({l, n - o})
           zero == 0
<1>2. Wanted = IF n <= o THEN 0 ELSE IF n <= o + l THEN n - o ELSE l BY DEF Wanted
<1> HIDE DEF n, o, l
<1>3. n - o \in Int /\ l \in Int BY <1>1
<1>4. x = (IF l <= n - o THEN l ELSE n - o) BY <1>3, OfTwo
<1>5. x \in Int /\ zero \in Int BY <1>3, <1>4
<1> HIDE DEF x, zero
<1>6. MostOf({zero, x}) = (IF zero <= x THEN x ELSE zero) BY <1>5, OfTwo
<1>7. Wanted = MostOf({zero, x}) /\ Wanted \in Nat BY <1>1, <1>2, <1>4, <1>5, <1>6 DEF zero
<1> QED BY <1>7 DEF n, o, l, x, zero

LEMMA SliceOfSorted ==
  ASSUME SliceInv, olCfg.dirs # <<>>, olPc = "done", ~olErr
  PROVE  /\ olOut = SubSeq(olSorted, 1, Wanted) /\ Wanted <= Len(olSorted)
         /\ Wanted > 0 => Cardinality(olHeap) = olCfg.offset
<1>1. OrderTypes /\ OrderConfigOK(olCfg) /\ KeptInv /\ SortedInv /\ SlicedInv /\ olI = Len(olCfg.keys)
  BY DEF SliceInv, OrderTypes
<1> DEFINE n == Len(olCfg.keys)
           o == olCfg.offset
           l == olCfg.limit
           h == Cardinality(olHeap)
           s == Len(olSorted)
<1>2. /\ n \in Nat /\ o \in Nat /\ l \in Nat /\ n <= MaxInt64 /\ MaxInt64 \in Nat /\ h \in Nat /\ s \in Nat
      /\ offsetPlusLimit = IF o + l <= MaxInt64 THEN o + l ELSE MaxInt64 BY <1>1, OrderBounds, OrderNumbers
<1>3. h <= o /\ h + s <= offsetPlusLimit /\ (LeftOut # {} => h + s = offsetPlusLimit) /\ (olSorted # <<>> => h >= o)
  BY <1>1 DEF SlicedInv, KeptInv, SortedInv
<1>4. h + s <= n /\ (LeftOut = {} => h + s = n)
 <2>1. Slots = {olSorted[p] : p \in 1..s} /\ \A p, q \in 1..s : olSorted[p] = olSorted[q] => p = q
   BY <1>1, OrderBounds DEF Slots, KeptInv
 <2>2. IsFiniteSet(Slots) /\ Cardinality(Slots) = s
  <3>1. (\A p \in 1..s : olSorted[p] \in Slots) /\ (\A t \in Slots : \E p \in 1..s : t = olSorted[p]) BY <2>1
  <3> HIDE DEF s
  <3> QED BY <1>2, <2>1, <3>1, AllDistinct
 <2>3. olHeap \cap Slots = {} /\ IsFiniteSet(olHeap) BY <1>1, OrderBounds DEF KeptInv
 <2>4. Cardinality(Kept) = h + s - Cardinality(olHeap \cap Slots) BY <2>2, <2>3, FS_Union DEF Kept
 <2>5. Cardinality(Kept) = h + s
  <3>1. Cardinality(olHeap \cap Slots) = 0 BY <2>3, FS_EmptySet
  <3> QED BY <1>2, <2>4, <3>1
 <2>6. IsFiniteSet(1..n) /\ Cardinality(1..n) = n
  <3> HIDE DEF n
  <3>1. 1 \in Int /\ n \in Int /\ n \in Nat BY <1>2
  <3>2. IsFiniteSet(1..n) /\ Cardinality(1..n) = IF 1 > n THEN 0 ELSE n - 1 + 1 BY <3>1, FS_Interval
  <3> QED BY <3>1, <3>2
 <2>7. Kept \in SUBSET (1..n) BY <1>1, OrderBounds
 <2>8. Cardinality(Kept) <= n BY <2>6, <2>7, FS_Subset
 <2>9. LeftOut = {} => Kept = 1..n BY <1>1, <2>7 DEF LeftOut
 <2> QED BY <2>5, <2>6, <2>8, <2>9
<1>5. s = 0 \/ olSorted # <<>> OBVIOUS
<1>6. Yielded = (IF l <= s THEN l ELSE s) /\ olOut = SubSeq(olSorted, 1, Yielded) BY <1>1 DEF Yielded, SlicedInv
<1>7. Wanted = IF n <= o THEN 0 ELSE IF n <= o + l THEN n - o ELSE l BY DEF Wanted
<1>8. h + s = n \/ (h + s = offsetPlusLimit /\ h + s <= n) BY <1>3, <1>4
<1>9. s = 0 \/ h = o
 <2>1. s = 0 \/ h >= o BY <1>3, <1>5
 <2> QED BY <1>2, <1>3, <2>1
<1> HIDE DEF n, o, l, h, s
<1>10. h <= o BY <1>3
<1>11. Wanted = (IF l <= s THEN l ELSE s) /\ (Wanted > 0 => h = o)
 <2>1. CASE h + s = n
  <3>1. n <= offsetPlusLimit BY <1>2, <1>3, <2>1
  <3> QED BY <1>2, <1>7, <1>9, <1>10, <2>1, <3>1
 <2>2. CASE h + s = offsetPlusLimit /\ h + s <= n BY <1>2, <1>7, <1>9, <1>10, <2>2
 <2> QED BY <1>8, <2>1, <2>2
<1>12. Wanted = Yielded /\ Wanted <= s BY <1>2, <1>6, <1>11
<1> QED BY <1>6, <1>11, <1>12 DEF h, o, s

\* engine/op_order.go: whatever the rows, the directions, the place of NULLs,
\* OFFSET and LIMIT, and the width of their sum, an operator that ends without
\* an error has yielded the slice of a sorted order of all rows, out of a heap
\* of no more than OFFSET + LIMIT rows.
THEOREM SliceOfOrder ==
  ASSUME NEW Cfgs, \A c \in Cfgs : OrderConfigOK(c)
  PROVE  OrderSpec(Cfgs) => []OrderLimitExact
<1>1. ASSUME SliceInv PROVE OrderHeapBounded
 <2>1. OrderTypes /\ OrderConfigOK(olCfg) BY <1>1 DEF SliceInv, OrderTypes
 <2>2. /\ offsetPlusLimit \in Nat /\ offsetPlusLimit <= olCfg.offset + olCfg.limit
       /\ Cardinality(olHeap) \in Nat /\ Len(olSorted) \in Nat
  <3>1. offsetPlusLimit \in Nat /\ Cardinality(olHeap) \in Nat /\ Len(olSorted) \in Nat BY <2>1, OrderBounds
  <3> QED BY <2>1, <3>1, OrderNumbers
 <2>3. CASE olCfg.dirs # <<>>
  <3>1. Cardinality(olHeap) + Len(olSorted) <= offsetPlusLimit BY <1>1, <2>3 DEF SliceInv, KeptInv
  <3>2. olCfg.offset \in Nat /\ olCfg.limit \in Nat BY <2>1, OrderNumbers
  <3> QED BY <2>2, <3>1, <3>2 DEF OrderHeapBounded
 <2>4. CASE olCfg.dirs = <<>>
  <3>1. Cardinality(olHeap) = 0 BY <1>1, <2>4, FS_EmptySet DEF SliceInv, PassInv
  <3>2. olCfg.offset \in Nat /\ olCfg.limit \in Nat BY <2>1, OrderNumbers
  <3> QED BY <3>1, <3>2 DEF OrderHeapBounded
 <2> QED BY <2>3, <2>4
<1>2. ASSUME SliceInv, olPc = "done", ~olErr
      PROVE  /\ Len(olOut) = Wanted /\ DOMAIN olOut = 1..Wanted /\ (\A p, q \in 1..Wanted : olOut[p] = olOut[q] => p = q)
             /\ \A p \in 1..Wanted :
                  IF olCfg.dirs = <<>> THEN olOut[p] = olCfg.offset + p
                  ELSE RankLow(olOut[p]) < olCfg.offset + p /\ olCfg.offset + p <= RankHigh(olOut[p])
 <2>1. OrderTypes /\ OrderConfigOK(olCfg) /\ olI = Len(olCfg.keys) BY <1>2 DEF SliceInv, OrderTypes
 <2>2. Wanted \in Nat /\ olCfg.offset \in Nat BY <2>1, WantedIs, OrderNumbers
 <2>3. CASE olCfg.dirs = <<>>
  <3>1. PassInv /\ Passed(olI) = Wanted BY <1>2, <2>1, <2>3 DEF SliceInv, Passed, Wanted
  <3>2. /\ olOut \in Seq(Nat) /\ Len(olOut) = Wanted /\ \A p \in DOMAIN olOut : olOut[p] = olCfg.offset + p
    BY <3>1 DEF PassInv
  <3>3. DOMAIN olOut = 1..Wanted BY <3>2
  <3>4. \A p, q \in 1..Wanted : olOut[p] = olOut[q] => p = q BY <2>2, <3>2, <3>3
  <3> QED BY <2>3, <3>2, <3>3, <3>4
 <2>4. CASE olCfg.dirs # <<>>
  <3>1. olOut = SubSeq(olSorted, 1, Wanted) /\ Wanted <= Len(olSorted) /\ (Wanted > 0 => Cardinality(olHeap) = olCfg.offset)
    BY <1>2, <2>4, SliceOfSorted
  <3>2. Len(olSorted) \in Nat /\ DOMAIN olSorted = 1..Len(olSorted) /\ \A p \in 1..Len(olSorted) : olSorted[p] \in 1..olI
    BY <2>1, OrderBounds
  <3>3. \A p \in 1..Wanted : p \in 1..Len(olSorted) /\ olSorted[p] \in 1..olI BY <2>2, <3>1, <3>2
  <3>4. /\ olOut \in Seq(1..olI) /\ Len(olOut) = (IF 1 <= Wanted THEN Wanted - 1 + 1 ELSE 0)
        /\ \A p \in 1..(Wanted - 1 + 1) : olOut[p] = olSorted[1 + p - 1] BY <2>2, <3>1, <3>3, SubSeqProperties
  <3>5. Len(olOut) = Wanted /\ DOMAIN olOut = 1..Wanted /\ \A p \in 1..Wanted : olOut[p] = olSorted[p] BY <2>2, <3>4
  <3>6. \A p, q \in 1..Wanted : olOut[p] = olOut[q] => p = q BY <1>2, <2>4, <3>2, <3>3, <3>5 DEF SliceInv, KeptInv
  <3>7. ASSUME NEW p \in 1..Wanted PROVE RankLow(olOut[p]) < olCfg.offset + p /\ olCfg.offset + p <= RankHigh(olOut[p])
   <4>1. Wanted > 0 /\ p \in 1..Len(olSorted) /\ olOut[p] = olSorted[p] BY <2>2, <3>3, <3>5
   <4> QED BY <1>2, <2>4, <3>1, <4>1, SlotRank
  <3> QED BY <2>4, <3>5, <3>6, <3>7
 <2> QED BY <2>3, <2>4
<1>3. ASSUME SliceInv, olPc = "done", ~olErr PROVE Cardinality({olOut[p] : p \in DOMAIN olOut}) = Wanted
 <2>1. OrderConfigOK(olCfg) BY <1>3 DEF SliceInv, OrderTypes
 <2>2. Wanted \in Nat BY <2>1, WantedIs
 <2>3. DOMAIN olOut = 1..Wanted /\ \A p, q \in 1..Wanted : olOut[p] = olOut[q] => p = q BY <1>2, <1>3
 <2>4. Cardinality({olOut[p] : p \in 1..Wanted}) = Wanted
  <3> DEFINE T == {olOut[p] : p \in 1..Wanted}
  <3>1. (\A p \in 1..Wanted : olOut[p] \in T) /\ (\A t \in T : \E p \in 1..Wanted : t = olOut[p]) OBVIOUS
  <3> HIDE DEF T
  <3>2. Cardinality(T) = Wanted BY <2>2, <2>3, <3>1, AllDistinct
  <3> QED BY <3>2 DEF T
 <2> QED BY <2>3, <2>4
<1>4. ASSUME SliceInv PROVE OrderExact
 <2>1. Wanted = MostOf({0, LeastOf({olCfg.limit, Len(olCfg.keys) - olCfg.offset})})
   BY <1>4, WantedIs DEF SliceInv, OrderTypes
 <2> QED BY <1>2, <1>3, <1>4, <2>1 DEF OrderExact
<1>5. SliceInv => OrderLimitExact BY <1>1, <1>4 DEF OrderLimitExact
<1> QED BY <1>5, SliceInvariance, PTL

\* A number of 1..v is one of the first m, or m is not the last.
LEMMA NextNumber ==
  ASSUME NEW m \in Nat, NEW n \in Nat, NEW v \in Nat, n <= v, n > 0
  PROVE  n \in 1..m \/ (m + 1 <= n /\ n > m /\ m < v /\ m + 1 \in 1..v)
OBVIOUS

-----------------------------------------------------------------------------
(* Concatenations.                                                         *)

\* The first n of a sequence.
Upto(ss, n) == [i \in 1..n |-> ss[i]]

\* f lists the concatenations of the first sequences of ss, up to n of them.
CatOf(f, ss, n) == f = [i \in 0..n |-> IF i = 0 THEN <<>> ELSE f[i - 1] \o ss[i]]

\* Such a list exists ...
LEMMA CatExists ==
  ASSUME NEW ss, NEW n \in Nat
  PROVE  \E f : CatOf(f, ss, n)
<1> DEFINE T == {k \in Nat : ~\E f : CatOf(f, ss, k)}
<1>1. SUFFICES ASSUME T # {} PROVE FALSE OBVIOUS
<1>2. PICK k \in T : \A y \in T : k <= y BY <1>1, LeastNumber
<1>3. k # 0
 <2> DEFINE f == [i \in 0..0 |-> <<>>]
 <2>1. CatOf(f, ss, 0) BY DEF CatOf
 <2> QED BY <1>2, <2>1
<1>4. k - 1 \in Nat /\ k - 1 \notin T /\ k \in Nat BY <1>2, <1>3
<1>5. PICK f : CatOf(f, ss, k - 1) BY <1>4
<1> DEFINE g == [i \in 0..k |-> IF i = k THEN f[k - 1] \o ss[k] ELSE f[i]]
           h == [i \in 0..k |-> IF i = 0 THEN <<>> ELSE g[i - 1] \o ss[i]]
<1>6. \A i \in 0..(k - 1) : f[i] = IF i = 0 THEN <<>> ELSE f[i - 1] \o ss[i] BY <1>5 DEF CatOf
<1>7. ASSUME NEW i \in 0..k PROVE g[i] = h[i]
 <2>1. CASE i = 0 BY <1>3, <1>4, <1>6, <2>1
 <2>2. CASE i # 0 /\ i = k
  <3>1. g[i - 1] = f[i - 1] /\ g[i] = f[k - 1] \o ss[k] BY <1>4, <2>2
  <3> QED BY <2>2, <3>1
 <2>3. CASE i # 0 /\ i # k
  <3>1. g[i - 1] = f[i - 1] /\ g[i] = f[i] /\ i \in 0..(k - 1) BY <1>4, <2>3
  <3> QED BY <1>6, <2>3, <3>1
 <2> QED BY <2>1, <2>2, <2>3
<1>8. g = h BY <1>7
<1>9. CatOf(g, ss, k) BY <1>8 DEF CatOf
<1> QED BY <1>2, <1>9

\* ... there is one only, also for a longer sequence that begins the same ...
LEMMA CatUnique ==
  ASSUME NEW ss, NEW rr, NEW m \in Nat, NEW n \in Nat, NEW f, NEW g, CatOf(f, ss, m), CatOf(g, rr, n),
         m <= n, \A i \in 1..m : ss[i] = rr[i]
  PROVE  \A i \in 0..m : f[i] = g[i]
<1> DEFINE T == {k \in 0..m : f[k] # g[k]}
<1>1. SUFFICES ASSUME T # {} PROVE FALSE OBVIOUS
<1>2. PICK k \in T : \A y \in T : k <= y
 <2>1. T \in SUBSET Nat OBVIOUS
 <2> QED BY <1>1, <2>1, LeastNumber
<1>3. /\ \A i \in 0..m : f[i] = IF i = 0 THEN <<>> ELSE f[i - 1] \o ss[i]
      /\ \A i \in 0..n : g[i] = IF i = 0 THEN <<>> ELSE g[i - 1] \o rr[i] BY DEF CatOf
<1>4. k \in 0..m /\ k \in 0..n /\ f[k] # g[k] BY <1>2
<1>5. k # 0 BY <1>3, <1>4
<1>6. k - 1 \in 0..m /\ k - 1 \notin T /\ k \in 1..m BY <1>2, <1>4, <1>5
<1>7. f[k - 1] = g[k - 1] /\ ss[k] = rr[k] BY <1>6
<1> QED BY <1>3, <1>4, <1>5, <1>7

\* ... and Concat is its last.
LEMMA ConcatIs ==
  ASSUME NEW ss, Len(ss) \in Nat
  PROVE  \E f : CatOf(f, ss, Len(ss)) /\ Concat(ss) = f[Len(ss)]
<1>1. \E f : CatOf(f, ss, Len(ss)) BY CatExists
<1> QED BY <1>1 DEF Concat, CatOf

\* The concatenation of the first sequences grows by the next one.
LEMMA ConcatGrows ==
  ASSUME NEW ss, NEW n \in Nat
  PROVE  /\ Concat(Upto(ss, 0)) = <<>>
         /\ Concat(Upto(ss, n + 1)) = Concat(Upto(ss, n)) \o ss[n + 1]
<1>1. Len(Upto(ss, 0)) = 0 /\ Len(Upto(ss, n)) = n /\ Len(Upto(ss, n + 1)) = n + 1 BY DEF Upto
<1>2. PICK f : CatOf(f, Upto(ss, n + 1), n + 1) /\ Concat(Upto(ss, n + 1)) = f[n + 1] BY <1>1, ConcatIs
<1>3. PICK g : CatOf(g, Upto(ss, n), n) /\ Concat(Upto(ss, n)) = g[n] BY <1>1, ConcatIs
<1>4. PICK h : CatOf(h, Upto(ss, 0), 0) /\ Concat(Upto(ss, 0)) = h[0] BY <1>1, ConcatIs
<1>5. h[0] = <<>> BY <1>4 DEF CatOf
<1>6. f[n + 1] = f[n] \o Upto(ss, n + 1)[n + 1]
 <2>1. \A i \in 0..(n + 1) : f[i] = IF i = 0 THEN <<>> ELSE f[i - 1] \o Upto(ss, n + 1)[i] BY <1>2 DEF CatOf
 <2>2. n + 1 \in 0..(n + 1) /\ n + 1 # 0 /\ (n + 1) - 1 = n OBVIOUS
 <2> QED BY <2>1, <2>2
<1>7. g[n] = f[n]
 <2>0. n + 1 \in Nat /\ n <= n + 1 OBVIOUS
 <2>1. \A i \in 1..n : Upto(ss, n)[i] = Upto(ss, n + 1)[i] BY DEF Upto
 <2>2. \A i \in 0..n : g[i] = f[i] BY <1>2, <1>3, <2>0, <2>1, CatUnique
 <2> QED BY <2>2
<1>8. Upto(ss, n + 1)[n + 1] = ss[n + 1] BY DEF Upto
<1> QED BY <1>2, <1>3, <1>4, <1>5, <1>6, <1>7, <1>8

\* All of a sequence is the first of them, up to its length.
LEMMA UptoAll ==
  ASSUME NEW n \in Nat, NEW ss, ss = [i \in 1..n |-> ss[i]]
  PROVE  Upto(ss, n) = ss
BY DEF Upto

-----------------------------------------------------------------------------
(* Sets of numbers in order.                                               *)

\* The elements of S that are less than x, and S in the order of their number.
Under(S, x) == {y \in S : y < x}
ByRank(S) == [k \in 1..Cardinality(S) |-> CHOOSE x \in S : Cardinality(Under(S, x)) = k - 1]

\* The number of elements under one is its rank.
LEMMA UnderFacts ==
  ASSUME NEW S \in SUBSET Nat, IsFiniteSet(S), NEW x \in S
  PROVE  /\ Cardinality(Under(S, x)) \in 0..(Cardinality(S) - 1)
         /\ \A y \in S : x < y => Cardinality(Under(S, x)) < Cardinality(Under(S, y))
<1>1. IsFiniteSet(S \ {x}) /\ Cardinality(S \ {x}) = Cardinality(S) - 1 /\ Cardinality(S) \in Nat
  BY FS_RemoveElement, FS_CardinalityType
<1>2. \A y \in S : IsFiniteSet(Under(S, y)) /\ Cardinality(Under(S, y)) \in Nat
 <2>1. \A y \in S : Under(S, y) \in SUBSET S BY DEF Under
 <2> QED BY <2>1, FS_Subset, FS_CardinalityType
<1>3. Under(S, x) \in SUBSET (S \ {x}) BY DEF Under
<1>4. Cardinality(Under(S, x)) <= Cardinality(S) - 1 BY <1>1, <1>3, FS_Subset
<1>5. ASSUME NEW y \in S, x < y PROVE Cardinality(Under(S, x)) < Cardinality(Under(S, y))
 <2>0. \A z \in S : z < x => z < y BY <1>5
 <2>4. ~(x < x) OBVIOUS
 <2>5. \A z : z \in Under(S, x) \cup {x} => z \in Under(S, y) BY <1>5, <2>0 DEF Under
 <2>1. x \notin Under(S, x) /\ Under(S, x) \cup {x} \in SUBSET Under(S, y) BY <2>4, <2>5 DEF Under
 <2>2. Cardinality(Under(S, x) \cup {x}) = Cardinality(Under(S, x)) + 1 BY <1>2, <2>1, FS_AddElement
 <2>3. Cardinality(Under(S, x) \cup {x}) <= Cardinality(Under(S, y)) BY <1>2, <2>1, FS_Subset
 <2> QED BY <1>2, <2>2, <2>3
<1> QED BY <1>1, <1>2, <1>4, <1>5

\* The elements by their rank, which are all of them in order.
LEMMA ByRankFacts ==
  ASSUME NEW S \in SUBSET Nat, IsFiniteSet(S)
  PROVE  /\ Cardinality(S) \in Nat /\ DOMAIN ByRank(S) = 1..Cardinality(S) /\ Len(ByRank(S)) = Cardinality(S)
         /\ \A k \in 1..Cardinality(S) : ByRank(S)[k] \in S /\ Cardinality(Under(S, ByRank(S)[k])) = k - 1
         /\ \A i, j \in 1..Cardinality(S) : i < j => ByRank(S)[i] < ByRank(S)[j]
         /\ \A x \in S : \E k \in 1..Cardinality(S) : ByRank(S)[k] = x
<1> DEFINE n == Cardinality(S)
           rank == [x \in S |-> Cardinality(Under(S, x))]
<1>1. n \in Nat BY FS_CardinalityType
<1>2. \A x \in S : Cardinality(Under(S, x)) \in 0..(n - 1) BY UnderFacts
<1>3. \A x, y \in S : Cardinality(Under(S, x)) = Cardinality(Under(S, y)) => x = y
 <2> SUFFICES ASSUME NEW x \in S, NEW y \in S, Cardinality(Under(S, x)) = Cardinality(Under(S, y)), x # y PROVE FALSE
   OBVIOUS
 <2>1. x < y \/ y < x OBVIOUS
 <2>2. Cardinality(Under(S, x)) < Cardinality(Under(S, y)) \/ Cardinality(Under(S, y)) < Cardinality(Under(S, x))
   BY <2>1, UnderFacts
 <2> QED BY <1>1, <1>2, <2>2
<1>4. \A k \in 1..n : \E x \in S : Cardinality(Under(S, x)) = k - 1
 <2>1. rank \in Injection(S, 0..(n - 1)) BY <1>2, <1>3 DEF Injection, IsInjective
 <2>2. IsFiniteSet(0..(n - 1)) /\ Cardinality(0..(n - 1)) = n
  <3>1. 0 \in Int /\ n - 1 \in Int BY <1>1
  <3>2. IsFiniteSet(0..(n - 1)) /\ Cardinality(0..(n - 1)) = IF 0 > n - 1 THEN 0 ELSE (n - 1) - 0 + 1
    BY <3>1, FS_Interval
  <3> QED BY <1>1, <3>2
 <2>3. rank \in Surjection(S, 0..(n - 1)) BY <2>1, <2>2, FS_Injection
 <2>4. \A z \in 0..(n - 1) : \E x \in S : rank[x] = z BY <2>3 DEF Surjection
 <2> QED
  <3> SUFFICES ASSUME NEW k \in 1..n PROVE \E x \in S : Cardinality(Under(S, x)) = k - 1 OBVIOUS
  <3>1. k - 1 \in 0..(n - 1) BY <1>1
  <3> QED BY <2>4, <3>1
<1>5. \A k \in 1..n : ByRank(S)[k] \in S /\ Cardinality(Under(S, ByRank(S)[k])) = k - 1 BY <1>4 DEF ByRank, Under
<1>6. DOMAIN ByRank(S) = 1..n /\ Len(ByRank(S)) = n BY <1>1 DEF ByRank
<1>7. \A i, j \in 1..n : i < j => ByRank(S)[i] < ByRank(S)[j]
 <2> SUFFICES ASSUME NEW i \in 1..n, NEW j \in 1..n, i < j, ~(ByRank(S)[i] < ByRank(S)[j]) PROVE FALSE OBVIOUS
 <2> DEFINE a == ByRank(S)[i]
            b == ByRank(S)[j]
 <2>1. a \in S /\ b \in S /\ Cardinality(Under(S, a)) = i - 1 /\ Cardinality(Under(S, b)) = j - 1 /\ ~(a < b) BY <1>5
 <2> HIDE DEF a, b
 <2>2. b < a \/ a = b BY <2>1
 <2>3. Cardinality(Under(S, b)) < Cardinality(Under(S, a)) \/ a = b BY <2>1, <2>2, UnderFacts
 <2> QED BY <1>1, <2>1, <2>3
<1>8. ASSUME NEW x \in S PROVE \E k \in 1..n : ByRank(S)[k] = x
 <2>1. Cardinality(Under(S, x)) + 1 \in 1..n /\ (Cardinality(Under(S, x)) + 1) - 1 = Cardinality(Under(S, x))
   BY <1>1, <1>2
 <2> QED BY <1>3, <1>5, <2>1
<1> QED BY <1>1, <1>5, <1>6, <1>7, <1>8

\* Ascending lists each element of a finite set of numbers once, in order.
LEMMA AscendingFacts ==
  ASSUME NEW S \in SUBSET Nat, IsFiniteSet(S)
  PROVE  /\ Cardinality(S) \in Nat /\ Ascending(S) \in [1..Cardinality(S) -> S] /\ Len(Ascending(S)) = Cardinality(S)
         /\ \A i, j \in 1..Cardinality(S) : i < j => Ascending(S)[i] < Ascending(S)[j]
         /\ \A x \in S : \E k \in 1..Cardinality(S) : Ascending(S)[k] = x
<1> DEFINE n == Cardinality(S)
           a == Ascending(S)
<1>1. n \in Nat BY FS_CardinalityType
<1>2. /\ DOMAIN ByRank(S) = 1..n /\ \A k \in 1..n : ByRank(S)[k] \in S
      /\ \A i, j \in 1..n : i < j => ByRank(S)[i] < ByRank(S)[j] BY ByRankFacts
<1>3. ByRank(S) \in [1..n -> S] BY <1>2 DEF ByRank
<1>4. \E s \in [1..Cardinality(S) -> S] : \A i, j \in DOMAIN s : i < j => s[i] < s[j] BY <1>2, <1>3
<1>5. a \in [1..n -> S] /\ \A i, j \in DOMAIN a : i < j => a[i] < a[j] BY <1>4 DEF Ascending
<1> HIDE DEF a
<1>6. \A i, j \in 1..n : i < j => a[i] < a[j] BY <1>5
<1>7. a \in Injection(1..n, S)
 <2> SUFFICES ASSUME NEW i \in 1..n, NEW j \in 1..n, a[i] = a[j], i # j PROVE FALSE BY <1>5 DEF Injection, IsInjective
 <2>1. i < j \/ j < i BY <1>1
 <2>2. a[i] \in Nat /\ (a[i] < a[j] \/ a[j] < a[i]) BY <1>5, <1>6, <2>1
 <2> QED BY <2>2
<1>8. IsFiniteSet(1..n) /\ Cardinality(1..n) = n BY <1>1, FS_Interval
<1>9. a \in Surjection(1..n, S) BY <1>7, <1>8, FS_Injection
<1>10. \A x \in S : \E k \in 1..n : a[k] = x BY <1>9 DEF Surjection
<1>11. Len(a) = n BY <1>1, <1>5
<1> QED BY <1>1, <1>5, <1>6, <1>10, <1>11 DEF a

\* No element, and one.
LEMMA AscendingSmall ==
  /\ Ascending({}) = <<>>
  /\ \A x \in Nat : Ascending({x}) = <<x>>
<1>1. Ascending({}) = <<>>
 <2>1. IsFiniteSet({}) /\ Cardinality({}) = 0 /\ {} \in SUBSET Nat BY FS_EmptySet
 <2>2. Ascending({}) \in [1..0 -> {}] BY <2>1, AscendingFacts
 <2> QED BY <2>2
<1>2. ASSUME NEW x \in Nat PROVE Ascending({x}) = <<x>>
 <2> DEFINE S == {x}
            a == Ascending(S)
 <2>1. IsFiniteSet(S) /\ Cardinality(S) = 1 /\ S \in SUBSET Nat BY FS_Singleton
 <2>2. a \in [1..1 -> S] BY <2>1, AscendingFacts
 <2> HIDE DEF a
 <2>3. a[1] = x /\ DOMAIN a = 1..1 BY <2>2
 <2>4. a = <<x>> BY <2>2, <2>3
 <2> QED BY <2>4 DEF a
<1> QED BY <1>1, <1>2

\* A part of the numbers up to n is a finite set of numbers.
LEMMA PartFinite ==
  ASSUME NEW n \in Nat, NEW S \in SUBSET (1..n)
  PROVE  S \in SUBSET Nat /\ IsFiniteSet(S)
<1>1. IsFiniteSet(1..n) BY FS_Interval
<1>2. IsFiniteSet(S) BY <1>1, FS_Subset
<1>3. S \in SUBSET Nat OBVIOUS
<1> QED BY <1>2, <1>3

-----------------------------------------------------------------------------
(* The merge join.                                                         *)

\* Rows <<key, partition>> with keys of int64, and a tolerance that is not
\* negative (splitLookback and splitLookahead take no other).
KeyedRows(s) == Len(s) \in Nat /\ DOMAIN s = 1..Len(s) /\ \A i \in 1..Len(s) : s[i][1] \in MinInt64..MaxInt64
MergeJoinConfigOK(c) == KeyedRows(c.left) /\ KeyedRows(c.right) /\ c.tol \in 0..MaxInt64

\* The key of the last left row, and the right rows that are not broken off.
LastKey == mjLeft[mjL][1]
Whole == mjVisible = Len(mjRight)

\* The width of the keys.
LEMMA KeyWidth ==
  /\ Half \in Nat /\ Half > 1 /\ MinInt64 = 0 - Half /\ MaxInt64 = Half - 1
  /\ \A k \in MinInt64..MaxInt64 : k \in Int /\ Wrap(k) = k
<1>1. Half \in Nat /\ Half > 1 /\ MinInt64 = 0 - Half /\ MaxInt64 = Half - 1 BY WidthAssumption DEF MinInt64, MaxInt64
<1>2. ASSUME NEW k \in MinInt64..MaxInt64 PROVE k \in Int /\ Wrap(k) = k
 <2>1. k \in Int /\ k - MinInt64 \in 0..(2 * Half - 1) BY <1>1
 <2>2. \A x \in 0..(2 * Half - 1) : x % (2 * Half) = x BY <1>1
 <2>3. (k - MinInt64) % (2 * Half) = k - MinInt64 BY <2>1, <2>2
 <2> QED BY <1>1, <2>1, <2>3 DEF Wrap
<1> QED BY <1>1, <1>2

\* The rows in front of the first one that is out of order are in order.
LEMMA VisibleFacts ==
  ASSUME MergeJoinConfigOK(mjCfg)
  PROVE  /\ Len(mjRight) \in Nat /\ mjVisible \in 0..Len(mjRight)
         /\ \A j \in 1..Len(mjRight) : RKey(j) \in Int
         /\ \A i, j \in 1..mjVisible : i <= j => RKey(i) <= RKey(j)
<1> DEFINE len == Len(mjRight)
           lo == 0
<1>1. len \in Nat /\ \A j \in 1..len : RKey(j) \in Int
 <2>1. KeyedRows(mjRight) BY DEF MergeJoinConfigOK, mjRight
 <2> QED BY <2>1, KeyWidth DEF KeyedRows, RKey
<1>2. mjSorted \in SUBSET (lo..len) /\ lo \in mjSorted /\ lo \in Int BY <1>1 DEF mjSorted
<1>3. mjVisible \in mjSorted
 <2> HIDE DEF len, lo
 <2>1. mjSorted # {} /\ len \in Int BY <1>1, <1>2
 <2>2. MostOf(mjSorted) \in mjSorted BY <1>2, <2>1, MinMax
 <2> QED BY <2>2 DEF mjVisible
<1>4. mjVisible \in 0..len /\ \A j \in 2..mjVisible : RKey(j - 1) <= RKey(j) BY <1>3 DEF mjSorted, RKey
<1> HIDE DEF len
<1>5. ASSUME NEW i \in 1..mjVisible, NEW j \in 1..mjVisible, i <= j PROVE RKey(i) <= RKey(j)
 <2> DEFINE T == {k \in i..mjVisible : ~(RKey(i) <= RKey(k))}
 <2>1. SUFFICES ASSUME T # {} PROVE FALSE BY <1>4, <1>5
 <2>2. PICK k \in T : \A y \in T : k <= y
  <3>1. T \in SUBSET Nat BY <1>4
  <3> QED BY <2>1, <3>1, LeastNumber
 <2>3. k \in i..mjVisible /\ ~(RKey(i) <= RKey(k)) /\ RKey(i) \in Int /\ RKey(k) \in Int BY <1>1, <1>4, <2>2
 <2>4. k # i BY <2>3
 <2>5. k - 1 \in i..mjVisible /\ k - 1 \notin T /\ k \in 2..mjVisible /\ k - 1 \in 1..len
   BY <1>1, <1>4, <2>2, <2>3, <2>4
 <2>6. RKey(i) <= RKey(k - 1) /\ RKey(k - 1) <= RKey(k) /\ RKey(k - 1) \in Int BY <1>1, <1>4, <2>5
 <2> QED BY <2>3, <2>6
<1> QED BY <1>1, <1>4, <1>5 DEF len

\* The right pointer passes the rows that it may, and stops at the next.
LEMMA AdvanceOverFacts ==
  ASSUME mjVisible \in Nat, mjR \in 0..mjVisible, NEW rows
  PROVE  /\ AdvanceOver(rows) \in mjR..mjVisible
         /\ \A j \in (mjR + 1)..AdvanceOver(rows) : j \in rows
         /\ AdvanceOver(rows) < mjVisible => AdvanceOver(rows) + 1 \notin rows
<1> DEFINE T == {n \in mjR..mjVisible : n < mjVisible => n + 1 \notin rows}
<1>1. mjVisible \in T /\ T \in SUBSET Nat OBVIOUS
<1>2. PICK n \in T : \A y \in T : n <= y BY <1>1, LeastNumber
<1>3. n \in mjR..mjVisible /\ (n < mjVisible => n + 1 \notin rows) BY <1>2
<1>4. ASSUME NEW j \in (mjR + 1)..n PROVE j \in rows
 <2>1. j - 1 \in mjR..mjVisible /\ ~(n <= j - 1) /\ (j - 1) + 1 = j BY <1>3
 <2>2. j - 1 \notin T BY <1>2, <2>1
 <2> QED BY <2>1, <2>2
<1> HIDE DEF T
<1>5. (mjR + 1)..n \subseteq rows BY <1>4
<1>6. \E m \in mjR..mjVisible : (mjR + 1)..m \subseteq rows /\ (m < mjVisible => m + 1 \notin rows) BY <1>3, <1>5
<1> DEFINE a == AdvanceOver(rows)
<1>7. a \in mjR..mjVisible /\ (mjR + 1)..a \subseteq rows /\ (a < mjVisible => a + 1 \notin rows)
  BY <1>6 DEF AdvanceOver
<1> QED BY <1>7

\* The configuration is kept, and what it alone determines.
LEMMA MergeCfgKept ==
  ASSUME mjCfg' = mjCfg
  PROVE  /\ mjLeft' = mjLeft /\ mjRight' = mjRight /\ mjVisible' = mjVisible /\ mjRightErr' = mjRightErr
         /\ mjStreams' = mjStreams /\ mjInRange' = mjInRange /\ mjParts' = mjParts /\ Whole' = Whole
         /\ \A j : RKey(j)' = RKey(j) /\ RPart(j)' = RPart(j)
         /\ \A i : JoinMatches(i)' = JoinMatches(i)
<1>1. mjLeft' = mjLeft /\ mjRight' = mjRight BY DEF mjLeft, mjRight
<1>2. mjVisible' = mjVisible BY <1>1 DEF mjVisible, mjSorted
<1>3. \A j : RKey(j)' = RKey(j) /\ RPart(j)' = RPart(j) BY <1>1 DEF RKey, RPart, mergeJoinPartKey
<1>4. mjRightErr' = mjRightErr BY <1>1, <1>2 DEF mjRightErr
<1>5. mjStreams' = mjStreams /\ mjInRange' = mjInRange /\ mjParts' = mjParts /\ Whole' = Whole
  BY <1>1, <1>2 DEF mjStreams, mjInRange, mjParts, Whole
<1>6. \A i : JoinMatches(i)' = JoinMatches(i) BY <1>1 DEF JoinMatches, RKey, RPart, mergeJoinPartKey
<1> QED BY <1>1, <1>2, <1>3, <1>4, <1>5, <1>6

\* The right rows of partition p whose key is at most k, and at least k.
Preceding(p, k) == {j \in 1..Len(mjRight) : RPart(j) = p /\ RKey(j) <= k}
Following(p, k) == {j \in 1..Len(mjRight) : RPart(j) = p /\ k <= RKey(j)}

\* The matches of a row, with the definitions of its key and partition.
LEMMA MatchesAre ==
  ASSUME MergeJoinConfigOK(mjCfg), NEW i \in 1..Len(mjLeft), NEW k, NEW p, k = mjLeft[i][1],
         p = mergeJoinPartKey(mjLeft[i])
  PROVE  /\ mjCfg.asof = "off" => JoinMatches(i) = {j \in 1..Len(mjRight) : RKey(j) = k}
         /\ mjCfg.asof # "off" /\ ~mjCfg.following =>
              \A j : j \in JoinMatches(i) <=>
                /\ j \in Preceding(p, k)
                /\ mjCfg.asof = "soft" => k - RKey(j) <= mjCfg.tol /\ RKey(j) - k <= mjCfg.tol
                /\ \A h \in Preceding(p, k) : RKey(h) < RKey(j) \/ (RKey(h) = RKey(j) /\ h <= j)
         /\ mjCfg.asof # "off" /\ mjCfg.following =>
              \A j : j \in JoinMatches(i) <=>
                /\ j \in Following(p, k)
                /\ mjCfg.asof = "soft" => k - RKey(j) <= mjCfg.tol /\ RKey(j) - k <= mjCfg.tol
                /\ \A h \in Following(p, k) : RKey(j) < RKey(h) \/ (RKey(h) = RKey(j) /\ j <= h)
<1>1. DOMAIN mjRight = 1..Len(mjRight) /\ \A j \in 1..Len(mjRight) : RKey(j) \in Int
  BY VisibleFacts DEF MergeJoinConfigOK, KeyedRows, mjRight
<1>2. mjCfg.asof = "off" => JoinMatches(i) = {j \in 1..Len(mjRight) : RKey(j) = k} BY <1>1 DEF JoinMatches
<1>3. mjCfg.asof # "off" /\ ~mjCfg.following =>
        JoinMatches(i) =
          {j \in {j \in Preceding(p, k) : mjCfg.asof = "soft" => (k - RKey(j) <= mjCfg.tol /\ RKey(j) - k <= mjCfg.tol)} :
             \A h \in Preceding(p, k) : RKey(h) < RKey(j) \/ (RKey(h) = RKey(j) /\ h <= j)}
  BY <1>1 DEF JoinMatches, Preceding
<1>4. Following(p, k) = {j \in DOMAIN mjRight : RPart(j) = p /\ RKey(j) >= k}
 <2>1. k \in Int BY KeyWidth DEF MergeJoinConfigOK, KeyedRows, mjLeft
 <2> QED BY <1>1, <2>1 DEF Following
<1>5. mjCfg.asof # "off" /\ mjCfg.following =>
        JoinMatches(i) =
          {j \in {j \in Following(p, k) : mjCfg.asof = "soft" => (k - RKey(j) <= mjCfg.tol /\ RKey(j) - k <= mjCfg.tol)} :
             \A h \in Following(p, k) : RKey(j) < RKey(h) \/ (RKey(h) = RKey(j) /\ j <= h)} BY <1>4 DEF JoinMatches
<1>6. mjCfg.asof # "off" /\ ~mjCfg.following =>
        \A j : j \in JoinMatches(i) <=>
          /\ j \in Preceding(p, k)
          /\ mjCfg.asof = "soft" => k - RKey(j) <= mjCfg.tol /\ RKey(j) - k <= mjCfg.tol
          /\ \A h \in Preceding(p, k) : RKey(h) < RKey(j) \/ (RKey(h) = RKey(j) /\ h <= j) BY <1>3
<1>7. mjCfg.asof # "off" /\ mjCfg.following =>
        \A j : j \in JoinMatches(i) <=>
          /\ j \in Following(p, k)
          /\ mjCfg.asof = "soft" => k - RKey(j) <= mjCfg.tol /\ RKey(j) - k <= mjCfg.tol
          /\ \A h \in Following(p, k) : RKey(j) < RKey(h) \/ (RKey(h) = RKey(j) /\ j <= h) BY <1>5
<1> QED BY <1>2, <1>6, <1>7

\* Keys of the two sides: numbers, whose distance is what the code computes.
LEMMA MergeKeys ==
  ASSUME MergeJoinConfigOK(mjCfg), NEW i \in 1..Len(mjLeft)
  PROVE  /\ mjLeft[i][1] \in Int /\ mjCfg.tol \in Nat
         /\ mjInRange => /\ Wrap(mjLeft[i][1] + mjCfg.tol) = mjLeft[i][1] + mjCfg.tol
                         /\ \A j \in 1..Len(mjRight) :
                              /\ WithinTolerance(mjLeft[i][1] - RKey(j)) <=>
                                   (mjCfg.asof = "soft" => mjLeft[i][1] - RKey(j) <= mjCfg.tol)
                              /\ WithinTolerance(RKey(j) - mjLeft[i][1]) <=>
                                   (mjCfg.asof = "soft" => RKey(j) - mjLeft[i][1] <= mjCfg.tol)
<1>1. /\ DOMAIN mjLeft = 1..Len(mjLeft) /\ DOMAIN mjRight = 1..Len(mjRight) /\ mjCfg.tol \in 0..MaxInt64
      /\ mjLeft[i][1] \in MinInt64..MaxInt64 /\ \A j \in 1..Len(mjRight) : RKey(j) \in MinInt64..MaxInt64
  BY DEF MergeJoinConfigOK, KeyedRows, mjLeft, mjRight, RKey
<1>2. mjLeft[i][1] \in Int /\ mjCfg.tol \in Nat /\ \A j \in 1..Len(mjRight) : RKey(j) \in Int BY <1>1, KeyWidth
<1>3. mjInRange => mjLeft[i][1] + mjCfg.tol <= MaxInt64 /\ \A j \in 1..Len(mjRight) : mjLeft[i][1] - RKey(j) \in -MaxInt64..MaxInt64
  BY <1>1 DEF mjInRange, RKey
<1> DEFINE k == mjLeft[i][1]
           t == mjCfg.tol
<1>4. k \in MinInt64..MaxInt64 /\ k \in Int /\ t \in Nat BY <1>1, <1>2
<1>5. mjInRange => k + t <= MaxInt64 /\ \A j \in 1..Len(mjRight) : k - RKey(j) \in -MaxInt64..MaxInt64 BY <1>3
<1> HIDE DEF k, t
<1>6. mjInRange => Wrap(k + t) = k + t
 <2>1. mjInRange => k + t \in MinInt64..MaxInt64 BY <1>4, <1>5, KeyWidth
 <2> QED BY <2>1, KeyWidth
<1>7. ASSUME mjInRange, NEW j \in 1..Len(mjRight) PROVE Wrap(k - RKey(j)) = k - RKey(j) /\ Wrap(RKey(j) - k) = RKey(j) - k
 <2>1. RKey(j) \in Int /\ k - RKey(j) \in -MaxInt64..MaxInt64 BY <1>2, <1>5, <1>7
 <2>2. k - RKey(j) \in MinInt64..MaxInt64 /\ RKey(j) - k \in MinInt64..MaxInt64 BY <1>4, <2>1, KeyWidth
 <2> QED BY <2>2, KeyWidth
<1>8. ASSUME mjInRange, NEW j \in 1..Len(mjRight)
      PROVE  /\ WithinTolerance(k - RKey(j)) <=> (mjCfg.asof = "soft" => k - RKey(j) <= t)
             /\ WithinTolerance(RKey(j) - k) <=> (mjCfg.asof = "soft" => RKey(j) - k <= t)
  BY <1>7, <1>8 DEF WithinTolerance, t
<1> QED BY <1>2, <1>6, <1>8 DEF k, t

\* By equality: the rows of the key follow the pointer.
LEMMA EquiMatches ==
  ASSUME MergeJoinConfigOK(mjCfg), Whole, mjCfg.asof = "off", NEW i \in 1..Len(mjLeft), NEW k, k = mjLeft[i][1],
         NEW r \in 0..mjVisible, \A j \in 1..r : RKey(j) < k, r < mjVisible => ~(RKey(r + 1) < k)
  PROVE  {j \in (r + 1)..mjVisible : \A h \in (r + 1)..j : RKey(h) = k} = JoinMatches(i)
<1>1. /\ mjVisible \in Nat /\ Len(mjRight) = mjVisible /\ \A j \in 1..mjVisible : RKey(j) \in Int
      /\ \A g, h \in 1..mjVisible : g <= h => RKey(g) <= RKey(h) BY VisibleFacts DEF Whole
<1>2. k \in Int BY MergeKeys
<1>3. JoinMatches(i) = {j \in 1..mjVisible : RKey(j) = k}
 <2> DEFINE p == mergeJoinPartKey(mjLeft[i])
 <2>1. JoinMatches(i) = {j \in 1..Len(mjRight) : RKey(j) = k} BY MatchesAre
 <2> QED BY <1>1, <2>1
<1>4. ASSUME NEW j \in 1..mjVisible, RKey(j) = k PROVE j \in (r + 1)..mjVisible /\ \A h \in (r + 1)..j : RKey(h) = k
 <2>1. j \notin 1..r BY <1>2, <1>4
 <2>2. j \in (r + 1)..mjVisible BY <1>1, <2>1
 <2>3. r + 1 \in 1..mjVisible /\ k <= RKey(r + 1) BY <1>1, <1>2, <2>2
 <2>4. ASSUME NEW h \in (r + 1)..j PROVE RKey(h) = k
  <3>1. h \in 1..mjVisible /\ r + 1 <= h /\ h <= j BY <1>1, <2>2
  <3>2. RKey(r + 1) <= RKey(h) /\ RKey(h) <= RKey(j) /\ RKey(h) \in Int /\ RKey(r + 1) \in Int BY <1>1, <2>3, <3>1
  <3> QED BY <1>2, <1>4, <2>3, <3>2
 <2> QED BY <2>2, <2>4
<1>5. ASSUME NEW j \in (r + 1)..mjVisible, \A h \in (r + 1)..j : RKey(h) = k PROVE j \in 1..mjVisible /\ RKey(j) = k
 <2>1. j \in (r + 1)..j /\ j \in 1..mjVisible BY <1>1
 <2> QED BY <1>5, <2>1
<1> QED BY <1>3, <1>4, <1>5

\* Nearest before: the last row of the partition that the pointer has passed.
LEMMA PrecedingMatches ==
  ASSUME MergeJoinConfigOK(mjCfg), Whole, mjInRange, mjCfg.asof # "off", ~mjCfg.following,
         NEW i \in 1..Len(mjLeft), NEW k, NEW p, k = mjLeft[i][1], p = mergeJoinPartKey(mjLeft[i]),
         NEW h, h = 0 => Preceding(p, k) = {},
         h # 0 => h \in Preceding(p, k) /\ \A j \in Preceding(p, k) : j <= h
  PROVE  JoinMatches(i) = IF h # 0 /\ WithinTolerance(k - RKey(h)) THEN {h} ELSE {}
<1>1. /\ mjVisible \in Nat /\ Len(mjRight) = mjVisible /\ \A j \in 1..mjVisible : RKey(j) \in Int
      /\ \A a, b \in 1..mjVisible : a <= b => RKey(a) <= RKey(b) BY VisibleFacts DEF Whole
<1>2. k \in Int /\ mjCfg.tol \in Nat BY MergeKeys
<1>3. \A j \in Preceding(p, k) : j \in 1..mjVisible /\ RKey(j) <= k /\ RKey(j) \in Int BY <1>1 DEF Preceding
<1>4. ASSUME h # 0 PROVE WithinTolerance(k - RKey(h)) <=> (mjCfg.asof = "soft" => k - RKey(h) <= mjCfg.tol)
  BY <1>1, <1>3, <1>4, MergeKeys
<1>5. ASSUME NEW j \in JoinMatches(i) PROVE h # 0 /\ j = h /\ WithinTolerance(k - RKey(h))
 <2>1. /\ j \in Preceding(p, k)
       /\ mjCfg.asof = "soft" => k - RKey(j) <= mjCfg.tol
       /\ \A g \in Preceding(p, k) : RKey(g) < RKey(j) \/ (RKey(g) = RKey(j) /\ g <= j) BY MatchesAre
 <2>2. h # 0 /\ h \in Preceding(p, k) /\ j <= h BY <2>1
 <2>3. RKey(j) <= RKey(h) /\ RKey(j) \in Int /\ RKey(h) \in Int /\ j \in Int /\ h \in Int BY <1>1, <1>3, <2>1, <2>2
 <2>4. j = h BY <2>1, <2>2, <2>3
 <2> QED BY <1>4, <2>1, <2>2, <2>4
<1>6. ASSUME h # 0, WithinTolerance(k - RKey(h)) PROVE h \in JoinMatches(i)
 <2>1. h \in Preceding(p, k) /\ \A j \in Preceding(p, k) : j <= h BY <1>6
 <2>2. RKey(h) - k <= mjCfg.tol /\ (mjCfg.asof = "soft" => k - RKey(h) <= mjCfg.tol) BY <1>2, <1>3, <1>4, <1>6, <2>1
 <2>3. \A g \in Preceding(p, k) : RKey(g) < RKey(h) \/ (RKey(g) = RKey(h) /\ g <= h)
  <3>1. \A g \in Preceding(p, k) : RKey(g) <= RKey(h) /\ RKey(g) \in Int /\ RKey(h) \in Int /\ g <= h
    BY <1>1, <1>3, <2>1
  <3> QED BY <3>1
 <2> QED BY <2>1, <2>2, <2>3, MatchesAre
<1> QED BY <1>5, <1>6

\* Nearest after: the first row of the partition that is not below the key.
LEMMA FollowingMatches ==
  ASSUME MergeJoinConfigOK(mjCfg), Whole, mjInRange, mjCfg.asof # "off", mjCfg.following,
         NEW i \in 1..Len(mjLeft), NEW k, NEW p, k = mjLeft[i][1], p = mergeJoinPartKey(mjLeft[i]),
         NEW h, h = 0 => Following(p, k) = {},
         h # 0 => h \in Following(p, k) /\ \A j \in Following(p, k) : h <= j
  PROVE  JoinMatches(i) = IF h # 0 /\ WithinTolerance(RKey(h) - k) THEN {h} ELSE {}
<1>1. /\ mjVisible \in Nat /\ Len(mjRight) = mjVisible /\ \A j \in 1..mjVisible : RKey(j) \in Int
      /\ \A a, b \in 1..mjVisible : a <= b => RKey(a) <= RKey(b) BY VisibleFacts DEF Whole
<1>2. k \in Int /\ mjCfg.tol \in Nat BY MergeKeys
<1>3. \A j \in Following(p, k) : j \in 1..mjVisible /\ k <= RKey(j) /\ RKey(j) \in Int BY <1>1 DEF Following
<1>4. ASSUME h # 0 PROVE WithinTolerance(RKey(h) - k) <=> (mjCfg.asof = "soft" => RKey(h) - k <= mjCfg.tol)
  BY <1>1, <1>3, <1>4, MergeKeys
<1>5. ASSUME NEW j \in JoinMatches(i) PROVE h # 0 /\ j = h /\ WithinTolerance(RKey(h) - k)
 <2>1. /\ j \in Following(p, k)
       /\ mjCfg.asof = "soft" => RKey(j) - k <= mjCfg.tol
       /\ \A g \in Following(p, k) : RKey(j) < RKey(g) \/ (RKey(g) = RKey(j) /\ j <= g) BY MatchesAre
 <2>2. h # 0 /\ h \in Following(p, k) /\ h <= j BY <2>1
 <2>3. RKey(h) <= RKey(j) /\ RKey(j) \in Int /\ RKey(h) \in Int /\ j \in Int /\ h \in Int BY <1>1, <1>3, <2>1, <2>2
 <2>4. j = h BY <2>1, <2>2, <2>3
 <2> QED BY <1>4, <2>1, <2>2, <2>4
<1>6. ASSUME h # 0, WithinTolerance(RKey(h) - k) PROVE h \in JoinMatches(i)
 <2>1. h \in Following(p, k) /\ \A j \in Following(p, k) : h <= j BY <1>6
 <2>2. k - RKey(h) <= mjCfg.tol /\ (mjCfg.asof = "soft" => RKey(h) - k <= mjCfg.tol) BY <1>2, <1>3, <1>4, <1>6, <2>1
 <2>3. \A g \in Following(p, k) : RKey(h) < RKey(g) \/ (RKey(g) = RKey(h) /\ h <= g)
  <3>1. \A g \in Following(p, k) : RKey(h) <= RKey(g) /\ RKey(g) \in Int /\ RKey(h) \in Int /\ h <= g
    BY <1>1, <1>3, <2>1
  <3> QED BY <3>1
 <2> QED BY <2>1, <2>2, <2>3, MatchesAre
<1> QED BY <1>5, <1>6

-----------------------------------------------------------------------------
(* The inductive invariant of the merge join.                              *)

\* What the join yields for left row i, and for all.
Joined(i, m) ==
  IF m # <<>> THEN [n \in DOMAIN m |-> <<i, m[n]>>] ELSE IF mjCfg.outer THEN << <<i, 0>> >> ELSE <<>>
Asked == [i \in DOMAIN mjLeft |-> Joined(i, Ascending(JoinMatches(i)))]

\* Which step a configuration takes.
ByKey == mjCfg.asof = "off" \/ (mjCfg.following /\ ~mjCfg.parted)
ByHeld == mjCfg.asof # "off" /\ ~mjCfg.following
ByIndex == mjCfg.asof # "off" /\ mjCfg.following /\ mjCfg.parted /\ ~mjStreams
ByQueue == mjCfg.following /\ mjCfg.parted /\ mjStreams

Idxs(p) == Ascending({j \in 1..mjVisible : RPart(j) = p})

\* h is the last of the first r right rows that is of partition p, if any.
LastOf(h, p, r) ==
  /\ h = 0 => \A j \in 1..r : RPart(j) # p
  /\ h # 0 => h \in 1..r /\ RPart(h) = p /\ \A j \in 1..r : RPart(j) = p => j <= h

MergeJoinTypes ==
  /\ MergeJoinConfigOK(mjCfg)
  /\ mjPc \in {"exec", "left", "done"}
  /\ mjL \in 0..Len(mjLeft) /\ mjR \in 0..mjVisible
  /\ mjL = 0 => mjR = 0

KeyInv == ByKey => \A j \in 1..mjR : RKey(j) < LastKey

HeldInv ==
  ByHeld =>
    /\ \A j \in 1..mjR : RKey(j) <= LastKey
    /\ mjHeld = [p \in mjParts |-> mjHeld[p]]
    /\ \A p \in mjParts : LastOf(mjHeld[p], p, mjR)

IndexInv ==
  ByIndex =>
    /\ mjHeld = [p \in mjParts |-> mjHeld[p]]
    /\ \A p \in mjParts :
         /\ mjHeld[p] \in 0..Len(Idxs(p))
         /\ \A n \in 1..mjHeld[p] : mjL > 0 /\ RKey(Idxs(p)[n]) < LastKey

QueueInv ==
  mjPend = [p \in mjParts |->
    IF ByQueue THEN {j \in 1..mjR : RPart(j) = p /\ RKey(j) >= LastKey} ELSE {}]

JoinBandInv == ByQueue /\ mjInRange => \A j \in 1..mjR : RKey(j) <= LastKey + mjCfg.tol

JoinedInv == mjErr = "none" /\ mjInRange /\ Whole => mjOut = Concat(Upto(Asked, mjL))

JoinErrInv ==
  /\ mjPc = "exec" => mjErr = "none" /\ mjL = 0
  /\ mjPc = "left" /\ ~mjStreams => mjRightErr = "none"
  /\ mjPc = "done" /\ mjErr = "none" =>
       mjL = Len(mjLeft) /\ ((mjStreams => mjPeeked) => mjRightErr = "none")

MergeJoinInv ==
  MergeJoinTypes /\ KeyInv /\ HeldInv /\ IndexInv /\ QueueInv /\ JoinBandInv /\ JoinedInv /\ JoinErrInv

\* The definitions that the configuration determines.
LEMMA AskedKept ==
  ASSUME mjCfg' = mjCfg
  PROVE  /\ Asked' = Asked /\ ByKey' = ByKey /\ ByHeld' = ByHeld /\ ByIndex' = ByIndex /\ ByQueue' = ByQueue
         /\ \A p : Idxs(p)' = Idxs(p)
         /\ MergeJoinConfigOK(mjCfg') <=> MergeJoinConfigOK(mjCfg)
<1>1. mjLeft' = mjLeft /\ mjVisible' = mjVisible /\ mjStreams' = mjStreams BY MergeCfgKept
<1>2. (\A i : JoinMatches(i)' = JoinMatches(i)) /\ (\A j : RPart(j)' = RPart(j)) BY MergeCfgKept
<1>3. Asked' = Asked BY <1>1, <1>2 DEF Asked, Joined
<1>4. ByKey' = ByKey /\ ByHeld' = ByHeld /\ ByIndex' = ByIndex /\ ByQueue' = ByQueue
  BY <1>1 DEF ByKey, ByHeld, ByIndex, ByQueue
<1>5. \A p : Idxs(p)' = Idxs(p) BY <1>1, <1>2 DEF Idxs
<1> QED BY <1>3, <1>4, <1>5

\* The left row that is taken: a number for its key, not below the last, and
\* a partition of its own.
LEMMA LeftRow ==
  ASSUME MergeJoinTypes, TakeLeft
  PROVE  /\ mjL \in Nat /\ mjL + 1 \in 1..Len(mjLeft) /\ mjL' = mjL + 1 /\ mjCfg' = mjCfg /\ mjPc = "left" /\ mjPc' = "left"
         /\ mjErr = "none" /\ mjKey \in Int /\ mjKey = mjLeft[mjL + 1][1] /\ LastKey' = mjKey
         /\ mjPart = mergeJoinPartKey(mjLeft[mjL + 1]) /\ mjPart \in mjParts
         /\ mjL > 0 => LastKey \in Int /\ LastKey <= mjKey
<1>1. mjL \in Nat /\ Len(mjLeft) \in Nat /\ mjL < Len(mjLeft) /\ mjL' = mjL + 1 /\ mjCfg' = mjCfg /\ DOMAIN mjLeft = 1..Len(mjLeft)
  BY DEF MergeJoinTypes, TakeLeft, MergeJoinConfigOK, KeyedRows, mjLeft
<1>2. mjL + 1 \in 1..Len(mjLeft) /\ (mjL > 0 => mjL \in 1..Len(mjLeft)) /\ MergeJoinConfigOK(mjCfg)
  BY <1>1 DEF MergeJoinTypes
<1>3. mjKey \in Int /\ (mjL > 0 => LastKey \in Int /\ LastKey <= mjKey)
  BY <1>2, MergeKeys DEF mjKey, LastKey, TakeLeft, mjOrderOK
<1>4. LastKey' = mjKey BY <1>1 DEF LastKey, mjKey, mjLeft
<1>5. mjPart \in mjParts BY <1>1, <1>2 DEF mjPart, mergeJoinPartKey, mjParts
<1> QED BY <1>1, <1>2, <1>3, <1>4, <1>5 DEF TakeLeft, mjKey, mjPart

\* Emit yields what is asked for, or fails.
LEMMA EmitStep ==
  ASSUME MergeJoinInv, TakeLeft, NEW m, Emit(m), mjInRange /\ Whole => m = Ascending(JoinMatches(mjL + 1))
  PROVE  JoinedInv' /\ JoinErrInv'
<1>1. /\ mjL \in Nat /\ mjL + 1 \in 1..Len(mjLeft) /\ mjL' = mjL + 1 /\ mjCfg' = mjCfg /\ mjPc = "left" /\ mjPc' = "left"
      /\ mjErr = "none" BY LeftRow DEF MergeJoinInv
<1>2. /\ Asked' = Asked /\ mjInRange' = mjInRange /\ Whole' = Whole /\ mjStreams' = mjStreams /\ mjRightErr' = mjRightErr
  BY <1>1, AskedKept, MergeCfgKept
<1>3. JoinErrInv' BY <1>1, <1>2 DEF MergeJoinInv, JoinErrInv
<1>4. ASSUME mjErr' = "none", mjInRange, Whole PROVE mjOut' = Concat(Upto(Asked, mjL + 1))
 <2>1. mjOut' = mjOut \o Joined(mjL + 1, m) BY <1>4 DEF Emit, Joined
 <2>2. Joined(mjL + 1, m) = Asked[mjL + 1]
  <3>1. DOMAIN mjLeft = 1..Len(mjLeft) BY DEF MergeJoinInv, MergeJoinTypes, MergeJoinConfigOK, KeyedRows, mjLeft
  <3> QED BY <1>1, <1>4, <3>1 DEF Asked
 <2>3. mjOut = Concat(Upto(Asked, mjL)) BY <1>1, <1>4 DEF MergeJoinInv, JoinedInv
 <2>4. Concat(Upto(Asked, mjL + 1)) = Concat(Upto(Asked, mjL)) \o Asked[mjL + 1] BY <1>1, ConcatGrows
 <2> QED BY <2>1, <2>2, <2>3, <2>4
<1>5. JoinedInv' BY <1>1, <1>2, <1>4 DEF JoinedInv
<1> QED BY <1>3, <1>5

\* A left row that is taken leaves the types in order.
LEMMA TypesStep ==
  ASSUME MergeJoinTypes, TakeLeft, mjR' \in 0..mjVisible
  PROVE  MergeJoinTypes'
<1>1. mjL \in Nat /\ mjL + 1 \in 1..Len(mjLeft) /\ mjL' = mjL + 1 /\ mjCfg' = mjCfg /\ mjPc' = "left" BY LeftRow
<1>2. mjLeft' = mjLeft /\ mjVisible' = mjVisible /\ MergeJoinConfigOK(mjCfg') BY <1>1, MergeCfgKept DEF MergeJoinTypes
<1>3. mjL + 1 # 0 /\ mjL + 1 \in 0..Len(mjLeft) BY <1>1
<1> QED BY <1>1, <1>2, <1>3 DEF MergeJoinTypes

\* The pointer after a step: what it has passed, and where it stopped.
LEMMA PointerStep ==
  ASSUME MergeJoinTypes, TakeLeft, NEW rows, mjR' = AdvanceOver(rows)
  PROVE  /\ mjVisible \in Nat /\ mjR \in 0..mjVisible /\ mjR' \in mjR..mjVisible /\ mjR' \in 0..mjVisible
         /\ \A j \in 1..mjR' : j \in 1..mjR \/ j \in (mjR + 1)..mjR'
         /\ \A j \in (mjR + 1)..mjR' : j \in rows /\ j \in 1..mjVisible
         /\ mjR' < mjVisible => mjR' + 1 \notin rows /\ mjR' + 1 \in 1..mjVisible
         /\ mjVisible <= Len(mjRight) /\ \A j \in 1..mjVisible : RKey(j) \in Int /\ j \in 1..Len(mjRight)
         /\ \A i, j \in 1..mjVisible : i <= j => RKey(i) <= RKey(j)
<1>1. /\ Len(mjRight) \in Nat /\ mjVisible \in 0..Len(mjRight)
      /\ \A j \in 1..Len(mjRight) : RKey(j) \in Int
      /\ \A i, j \in 1..mjVisible : i <= j => RKey(i) <= RKey(j) BY VisibleFacts DEF MergeJoinTypes
<1>2. mjVisible \in Nat /\ mjR \in 0..mjVisible BY <1>1 DEF MergeJoinTypes
<1>3. /\ mjR' \in mjR..mjVisible /\ \A j \in (mjR + 1)..mjR' : j \in rows
      /\ mjR' < mjVisible => mjR' + 1 \notin rows BY <1>2, AdvanceOverFacts
<1>4. /\ mjR' \in 0..mjVisible /\ \A j \in 1..mjR' : j \in 1..mjR \/ j \in (mjR + 1)..mjR'
      /\ \A j \in (mjR + 1)..mjR' : j \in 1..mjVisible
      /\ mjR' < mjVisible => mjR' + 1 \in 1..mjVisible BY <1>2, <1>3
<1>5. \A j \in 1..mjVisible : RKey(j) \in Int /\ j \in 1..Len(mjRight) BY <1>1
<1> QED BY <1>1, <1>2, <1>3, <1>4, <1>5

\* The equality join.
LEMMA EquiStep ==
  ASSUME MergeJoinInv, StepEqui
  PROVE  MergeJoinInv'
<1> DEFINE rows == {j \in DOMAIN mjRight : Below(mjKey, RKey(j))}
           m == Ascending({j \in (mjR' + 1)..mjVisible : \A i \in (mjR' + 1)..j : RKey(i) = mjKey})
<1>1. /\ TakeLeft /\ mjR' = AdvanceOver(rows) /\ Emit(m) /\ mjCfg.asof = "off" /\ MergeJoinTypes
      /\ mjHeld' = mjHeld /\ mjPend' = mjPend BY DEF StepEqui, MergeJoinInv
<1>2. /\ mjL \in Nat /\ mjL + 1 \in 1..Len(mjLeft) /\ mjL' = mjL + 1 /\ mjCfg' = mjCfg
      /\ mjKey \in Int /\ mjKey = mjLeft[mjL + 1][1] /\ LastKey' = mjKey /\ MergeJoinConfigOK(mjCfg)
      /\ mjL > 0 => LastKey \in Int /\ LastKey <= mjKey BY <1>1, LeftRow DEF MergeJoinTypes
<1>3. \A j \in rows : RKey(j) < mjKey BY DEF Below
<1>4. \A j : j \in 1..Len(mjRight) /\ j \notin rows => ~(RKey(j) < mjKey)
 <2>1. DOMAIN mjRight = 1..Len(mjRight) BY <1>2 DEF MergeJoinConfigOK, KeyedRows, mjRight
 <2> QED BY <2>1 DEF Below
<1> HIDE DEF rows, m
<1>5. /\ mjVisible \in Nat /\ mjR \in 0..mjVisible /\ mjR' \in 0..mjVisible
      /\ \A j \in 1..mjR' : j \in 1..mjR \/ j \in (mjR + 1)..mjR'
      /\ \A j \in (mjR + 1)..mjR' : j \in rows
      /\ mjR' < mjVisible => mjR' + 1 \notin rows /\ mjR' + 1 \in 1..mjVisible
      /\ \A j \in 1..mjVisible : RKey(j) \in Int /\ j \in 1..Len(mjRight) BY <1>1, PointerStep
<1>6. \A j \in 1..mjR' : RKey(j) < mjKey
 <2>1. ASSUME NEW j \in 1..mjR PROVE RKey(j) < mjKey
  <3>1. mjL > 0 /\ RKey(j) < LastKey /\ j \in 1..mjVisible
    BY <1>1, <1>2, <1>5 DEF MergeJoinInv, KeyInv, ByKey, MergeJoinTypes
  <3> QED BY <1>2, <1>5, <3>1
 <2> QED BY <1>3, <1>5, <2>1
<1>7. mjR' < mjVisible => ~(RKey(mjR' + 1) < mjKey) BY <1>4, <1>5
<1>8. mjInRange /\ Whole => m = Ascending(JoinMatches(mjL + 1))
 <2>1. ASSUME Whole PROVE {j \in (mjR' + 1)..mjVisible : \A i \in (mjR' + 1)..j : RKey(i) = mjKey} = JoinMatches(mjL + 1)
  <3>1. PICK r, k, i : r = mjR' /\ k = mjKey /\ i = mjL + 1 OBVIOUS
  <3>2. MergeJoinConfigOK(mjCfg) /\ mjCfg.asof = "off" /\ i \in 1..Len(mjLeft) /\ k = mjLeft[i][1] BY <1>1, <1>2, <3>1
  <3>3. r \in 0..mjVisible /\ (\A j \in 1..r : RKey(j) < k) /\ (r < mjVisible => ~(RKey(r + 1) < k))
    BY <1>5, <1>6, <1>7, <3>1
  <3>4. {j \in (r + 1)..mjVisible : \A h \in (r + 1)..j : RKey(h) = k} = JoinMatches(i)
    BY <2>1, <3>2, <3>3, EquiMatches
  <3> QED BY <3>1, <3>4
 <2> QED BY <2>1 DEF m
<1>9. JoinedInv' /\ JoinErrInv' BY <1>1, <1>8, EmitStep
<1>10. MergeJoinTypes' BY <1>1, <1>5, TypesStep
<1>11. /\ \A j : RKey(j)' = RKey(j) /\ RPart(j)' = RPart(j)
       /\ ByKey' = ByKey /\ ByHeld' = ByHeld /\ ByIndex' = ByIndex /\ ByQueue' = ByQueue /\ mjParts' = mjParts
  BY <1>2, AskedKept, MergeCfgKept
<1>12. ByKey /\ ~ByHeld /\ ~ByIndex /\ ~ByQueue BY <1>1 DEF ByKey, ByHeld, ByIndex, ByQueue, mjStreams
<1>13. KeyInv' BY <1>2, <1>6, <1>11 DEF KeyInv
<1>14. HeldInv' /\ IndexInv' /\ JoinBandInv' BY <1>11, <1>12 DEF HeldInv, IndexInv, JoinBandInv
<1>15. QueueInv' BY <1>1, <1>11, <1>12 DEF MergeJoinInv, QueueInv
<1> QED BY <1>9, <1>10, <1>13, <1>14, <1>15 DEF MergeJoinInv

\* The row of each partition that is held, when the nearest precedes.
LEMMA PrecedingStep ==
  ASSUME MergeJoinInv, StepPreceding
  PROVE  MergeJoinInv'
<1> DEFINE rows == {j \in DOMAIN mjRight : RKey(j) <= mjKey}
           passed(p) == {j \in (mjR + 1)..mjR' : RPart(j) = p}
           h == mjHeld'[mjPart]
           m == IF h # 0 /\ WithinTolerance(mjKey - RKey(h)) THEN <<h>> ELSE <<>>
<1>1. /\ TakeLeft /\ mjR' = AdvanceOver(rows) /\ Emit(m) /\ mjCfg.asof # "off" /\ ~mjCfg.following /\ MergeJoinTypes
      /\ mjHeld' = [p \in mjParts |-> IF passed(p) = {} THEN mjHeld[p] ELSE MostOf(passed(p))]
      /\ mjPend' = mjPend BY DEF StepPreceding, MergeJoinInv
<1>2. /\ mjL \in Nat /\ mjL + 1 \in 1..Len(mjLeft) /\ mjL' = mjL + 1 /\ mjCfg' = mjCfg
      /\ mjKey \in Int /\ mjKey = mjLeft[mjL + 1][1] /\ LastKey' = mjKey /\ MergeJoinConfigOK(mjCfg)
      /\ mjPart = mergeJoinPartKey(mjLeft[mjL + 1]) /\ mjPart \in mjParts
      /\ mjL > 0 => LastKey \in Int /\ LastKey <= mjKey BY <1>1, LeftRow DEF MergeJoinTypes
<1>3. \A j \in rows : RKey(j) <= mjKey OBVIOUS
<1>4. \A j : j \in 1..Len(mjRight) /\ j \notin rows => ~(RKey(j) <= mjKey)
  BY <1>2 DEF MergeJoinConfigOK, KeyedRows, mjRight
<1> HIDE DEF rows
<1>5. /\ mjVisible \in Nat /\ mjR \in 0..mjVisible /\ mjR' \in 0..mjVisible /\ mjR' \in mjR..mjVisible
      /\ \A j \in 1..mjR' : j \in 1..mjR \/ j \in (mjR + 1)..mjR'
      /\ \A j \in (mjR + 1)..mjR' : j \in rows
      /\ mjR' < mjVisible => mjR' + 1 \notin rows /\ mjR' + 1 \in 1..mjVisible
      /\ \A j \in 1..mjVisible : RKey(j) \in Int /\ j \in 1..Len(mjRight)
      /\ \A i, j \in 1..mjVisible : i <= j => RKey(i) <= RKey(j) BY <1>1, PointerStep
<1>6. \A j \in 1..mjR' : RKey(j) <= mjKey
 <2>1. ASSUME NEW j \in 1..mjR PROVE RKey(j) <= mjKey
  <3>1. mjL > 0 /\ RKey(j) <= LastKey /\ j \in 1..mjVisible
    BY <1>1, <1>2, <1>5 DEF MergeJoinInv, HeldInv, ByHeld, MergeJoinTypes
  <3> QED BY <1>2, <1>5, <3>1
 <2> QED BY <1>3, <1>5, <2>1
<1>7. \A p \in mjParts : LastOf(mjHeld'[p], p, mjR')
 <2> SUFFICES ASSUME NEW p \in mjParts PROVE LastOf(mjHeld'[p], p, mjR') OBVIOUS
 <2>1. LastOf(mjHeld[p], p, mjR) BY <1>1 DEF MergeJoinInv, HeldInv, ByHeld
 <2>2. CASE passed(p) = {}
  <3>1. mjHeld'[p] = mjHeld[p] BY <1>1, <2>2
  <3>2. \A j \in 1..mjR' : RPart(j) = p => j \in 1..mjR BY <1>5, <2>2
  <3>3. \A j \in 1..mjR : j \in 1..mjR' BY <1>5
  <3> QED BY <2>1, <3>1, <3>2, <3>3 DEF LastOf
 <2>3. CASE passed(p) # {}
  <3> DEFINE lo == mjR + 1
             hi == mjR'
             S == passed(p)
  <3>1. lo \in Int /\ hi \in Int /\ S \in SUBSET (lo..hi) /\ S # {} BY <1>5, <2>3
  <3>2. \A j \in S : RPart(j) = p /\ j \in (mjR + 1)..mjR' OBVIOUS
  <3>3. \A j \in (mjR + 1)..mjR' : RPart(j) = p => j \in S OBVIOUS
  <3>4. mjHeld'[p] = MostOf(S) BY <1>1, <2>3
  <3> HIDE DEF lo, hi, S
  <3>5. MostOf(S) \in S /\ \A y \in S : y <= MostOf(S) BY <3>1, MinMax
  <3> DEFINE x == MostOf(S)
  <3>6. x \in (mjR + 1)..mjR' /\ RPart(x) = p /\ \A y \in (mjR + 1)..mjR' : RPart(y) = p => y <= x BY <3>2, <3>3, <3>5
  <3> HIDE DEF x
  <3>7. x # 0 /\ x \in 1..mjR' /\ \A y \in 1..mjR : y <= x BY <1>5, <3>6
  <3>8. LastOf(x, p, mjR') BY <1>5, <3>6, <3>7 DEF LastOf
  <3> QED BY <3>4, <3>8 DEF x
 <2> QED BY <2>2, <2>3
<1>8. mjInRange /\ Whole => m = Ascending(JoinMatches(mjL + 1))
 <2> SUFFICES ASSUME mjInRange, Whole PROVE m = Ascending(JoinMatches(mjL + 1)) OBVIOUS
 <2>1. LastOf(h, mjPart, mjR') BY <1>2, <1>7
 <2> HIDE DEF h
 <2>2. Len(mjRight) = mjVisible BY DEF Whole
 <2>3. ASSUME NEW j \in 1..mjVisible, RKey(j) <= mjKey PROVE j \in 1..mjR'
  <3>1. mjR' \in Nat /\ mjVisible \in Nat /\ j \in Nat /\ j <= mjVisible /\ j > 0 BY <1>5
  <3>2. j \in 1..mjR' \/ (mjR' + 1 <= j /\ mjR' < mjVisible /\ mjR' + 1 \in 1..mjVisible) BY <3>1, NextNumber
  <3> SUFFICES ASSUME mjR' + 1 <= j, mjR' < mjVisible, mjR' + 1 \in 1..mjVisible PROVE FALSE BY <3>2
  <3>3. RKey(mjR' + 1) <= RKey(j) /\ ~(RKey(mjR' + 1) <= mjKey) BY <1>4, <1>5
  <3> QED BY <1>2, <1>5, <2>3, <3>3
 <2>4. \A j \in 1..mjR' : j \in 1..mjVisible BY <1>5
 <2>5. \A j : j \in Preceding(mjPart, mjKey) <=> j \in 1..mjR' /\ RPart(j) = mjPart
   BY <1>6, <2>2, <2>3, <2>4 DEF Preceding
 <2>6. h = 0 => Preceding(mjPart, mjKey) = {} BY <2>1, <2>5 DEF LastOf
 <2>7. h # 0 => h \in Preceding(mjPart, mjKey) /\ \A j \in Preceding(mjPart, mjKey) : j <= h BY <2>1, <2>5 DEF LastOf
 <2>8. JoinMatches(mjL + 1) = IF h # 0 /\ WithinTolerance(mjKey - RKey(h)) THEN {h} ELSE {}
   BY <1>1, <1>2, <2>6, <2>7, PrecedingMatches
 <2>9. h # 0 => h \in Nat BY <1>5, <2>1 DEF LastOf
 <2> QED BY <2>8, <2>9, AscendingSmall
<1> HIDE DEF m
<1>9. JoinedInv' /\ JoinErrInv' BY <1>1, <1>8, EmitStep
<1>10. MergeJoinTypes' BY <1>1, <1>5, TypesStep
<1>11. /\ \A j : RKey(j)' = RKey(j) /\ RPart(j)' = RPart(j)
       /\ ByKey' = ByKey /\ ByHeld' = ByHeld /\ ByIndex' = ByIndex /\ ByQueue' = ByQueue /\ mjParts' = mjParts
  BY <1>2, AskedKept, MergeCfgKept
<1>12. ~ByKey /\ ByHeld /\ ~ByIndex /\ ~ByQueue BY <1>1 DEF ByKey, ByHeld, ByIndex, ByQueue
<1>13. HeldInv'
 <2>1. mjHeld' = [p \in mjParts |-> mjHeld'[p]] BY <1>1
 <2>2. \A p \in mjParts : LastOf(mjHeld[p], p, mjR)' BY <1>7, <1>11 DEF LastOf
 <2> QED BY <1>2, <1>6, <1>11, <2>1, <2>2 DEF HeldInv
<1>14. KeyInv' /\ IndexInv' /\ JoinBandInv' BY <1>11, <1>12 DEF KeyInv, IndexInv, JoinBandInv
<1>15. QueueInv' BY <1>1, <1>11, <1>12 DEF MergeJoinInv, QueueInv
<1> QED BY <1>9, <1>10, <1>13, <1>14, <1>15 DEF MergeJoinInv

\* Without a queue, the nearest row that follows: the index moves to the first
\* right row that is not below the key.
LEMMA FollowingStep ==
  ASSUME MergeJoinInv, StepFollowing
  PROVE  MergeJoinInv'
<1> DEFINE rows == {j \in DOMAIN mjRight : Below(mjKey, RKey(j))}
           n == mjR' + 1
           m == IF mjR' < mjVisible /\ WithinTolerance(RKey(n) - mjKey) THEN <<n>> ELSE <<>>
<1>1. /\ TakeLeft /\ mjR' = AdvanceOver(rows) /\ Emit(m) /\ mjCfg.asof # "off" /\ mjCfg.following /\ ~mjCfg.parted
      /\ MergeJoinTypes /\ mjHeld' = mjHeld /\ mjPend' = mjPend BY DEF StepFollowing, MergeJoinInv
<1>2. /\ mjL \in Nat /\ mjL + 1 \in 1..Len(mjLeft) /\ mjL' = mjL + 1 /\ mjCfg' = mjCfg
      /\ mjKey \in Int /\ mjKey = mjLeft[mjL + 1][1] /\ LastKey' = mjKey /\ MergeJoinConfigOK(mjCfg)
      /\ mjPart = mergeJoinPartKey(mjLeft[mjL + 1])
      /\ mjL > 0 => LastKey \in Int /\ LastKey <= mjKey BY <1>1, LeftRow DEF MergeJoinTypes
<1>3. \A j \in rows : RKey(j) < mjKey BY DEF Below
<1>4. \A j : j \in 1..Len(mjRight) /\ j \notin rows => ~(RKey(j) < mjKey)
 <2>1. DOMAIN mjRight = 1..Len(mjRight) BY <1>2 DEF MergeJoinConfigOK, KeyedRows, mjRight
 <2> QED BY <2>1 DEF Below
<1> HIDE DEF rows
<1>5. /\ mjVisible \in Nat /\ mjR \in 0..mjVisible /\ mjR' \in 0..mjVisible
      /\ \A j \in 1..mjR' : j \in 1..mjR \/ j \in (mjR + 1)..mjR'
      /\ \A j \in (mjR + 1)..mjR' : j \in rows
      /\ mjR' < mjVisible => mjR' + 1 \notin rows /\ mjR' + 1 \in 1..mjVisible
      /\ \A j \in 1..mjVisible : RKey(j) \in Int /\ j \in 1..Len(mjRight)
      /\ \A i, j \in 1..mjVisible : i <= j => RKey(i) <= RKey(j) BY <1>1, PointerStep
<1>6. \A j \in 1..mjR' : RKey(j) < mjKey
 <2>1. ASSUME NEW j \in 1..mjR PROVE RKey(j) < mjKey
  <3>1. mjL > 0 /\ RKey(j) < LastKey /\ j \in 1..mjVisible
    BY <1>1, <1>2, <1>5 DEF MergeJoinInv, KeyInv, ByKey, MergeJoinTypes
  <3> QED BY <1>2, <1>5, <3>1
 <2> QED BY <1>3, <1>5, <2>1
<1>7. mjInRange /\ Whole => m = Ascending(JoinMatches(mjL + 1))
 <2> SUFFICES ASSUME mjInRange, Whole PROVE m = Ascending(JoinMatches(mjL + 1)) OBVIOUS
 <2> DEFINE h == IF mjR' < mjVisible THEN n ELSE 0
 <2>1. /\ Len(mjRight) = mjVisible /\ mjR' \in Nat /\ n \in Nat /\ n # 0 /\ mjPart = 0 /\ \A j : RPart(j) = 0
   BY <1>1, <1>2, <1>5 DEF Whole, mergeJoinPartKey, RPart
 <2>2. \A j : j \in Following(mjPart, mjKey) => j \in 1..mjVisible /\ n <= j /\ mjR' < mjVisible
  <3> SUFFICES ASSUME NEW j \in 1..mjVisible, mjKey <= RKey(j) PROVE n <= j /\ mjR' < mjVisible BY <2>1 DEF Following
  <3>1. ~(RKey(j) < mjKey)
   <4>1. RKey(j) \in Int /\ mjKey \in Int BY <1>2, <1>5
   <4> QED BY <4>1
  <3>2. j \notin 1..mjR' BY <1>6, <3>1
  <3>3. j \in Nat /\ j > 0 /\ j <= mjVisible BY <1>5
  <3> QED BY <1>5, <2>1, <3>2, <3>3, NextNumber DEF n
 <2>3. mjR' < mjVisible => n \in Following(mjPart, mjKey)
  <3> SUFFICES ASSUME mjR' < mjVisible PROVE n \in Following(mjPart, mjKey) OBVIOUS
  <3>1. n \in 1..mjVisible /\ ~(RKey(n) < mjKey) /\ RKey(n) \in Int BY <1>4, <1>5
  <3>2. mjKey <= RKey(n) BY <1>2, <3>1
  <3> QED BY <2>1, <3>1, <3>2 DEF Following
 <2> HIDE DEF n
 <2>4. h = 0 => Following(mjPart, mjKey) = {} BY <2>1, <2>2
 <2>5. h # 0 => h \in Following(mjPart, mjKey) /\ \A j \in Following(mjPart, mjKey) : h <= j BY <2>2, <2>3
 <2>6. (h # 0 <=> mjR' < mjVisible) /\ (h # 0 => h = n) BY <2>1
 <2> HIDE DEF h
 <2>7. JoinMatches(mjL + 1) = IF h # 0 /\ WithinTolerance(RKey(h) - mjKey) THEN {h} ELSE {}
   BY <1>1, <1>2, <2>4, <2>5, FollowingMatches
 <2>8. JoinMatches(mjL + 1) = IF mjR' < mjVisible /\ WithinTolerance(RKey(n) - mjKey) THEN {n} ELSE {} BY <2>6, <2>7
 <2> QED BY <2>1, <2>8, AscendingSmall
<1> HIDE DEF m
<1>9. JoinedInv' /\ JoinErrInv' BY <1>1, <1>7, EmitStep
<1>10. MergeJoinTypes' BY <1>1, <1>5, TypesStep
<1>11. /\ \A j : RKey(j)' = RKey(j) /\ RPart(j)' = RPart(j)
       /\ ByKey' = ByKey /\ ByHeld' = ByHeld /\ ByIndex' = ByIndex /\ ByQueue' = ByQueue /\ mjParts' = mjParts
  BY <1>2, AskedKept, MergeCfgKept
<1>12. ~ByHeld /\ ~ByIndex /\ ~ByQueue BY <1>1 DEF ByHeld, ByIndex, ByQueue
<1>13. KeyInv' BY <1>2, <1>6, <1>11 DEF KeyInv
<1>14. HeldInv' /\ IndexInv' /\ JoinBandInv' BY <1>11, <1>12 DEF HeldInv, IndexInv, JoinBandInv
<1>15. QueueInv' BY <1>1, <1>11, <1>12 DEF MergeJoinInv, QueueInv
<1> QED BY <1>9, <1>10, <1>13, <1>14, <1>15 DEF MergeJoinInv

\* The rows of a partition, in order.
LEMMA IdxsFacts ==
  ASSUME mjVisible \in Nat, NEW p
  PROVE  /\ Len(Idxs(p)) \in Nat
         /\ \A n \in 1..Len(Idxs(p)) : Idxs(p)[n] \in 1..mjVisible /\ RPart(Idxs(p)[n]) = p
         /\ \A a, b \in 1..Len(Idxs(p)) : a < b => Idxs(p)[a] < Idxs(p)[b]
         /\ \A j \in 1..mjVisible : RPart(j) = p => \E n \in 1..Len(Idxs(p)) : Idxs(p)[n] = j
<1> DEFINE S == {j \in 1..mjVisible : RPart(j) = p}
<1>1. S \in SUBSET (1..mjVisible) /\ Idxs(p) = Ascending(S) BY DEF Idxs
<1>2. \A j : j \in S <=> j \in 1..mjVisible /\ RPart(j) = p OBVIOUS
<1> HIDE DEF S
<1>3. S \in SUBSET Nat /\ IsFiniteSet(S) BY <1>1, PartFinite
<1>4. /\ Cardinality(S) \in Nat /\ Ascending(S) \in [1..Cardinality(S) -> S] /\ Len(Ascending(S)) = Cardinality(S)
      /\ \A i, j \in 1..Cardinality(S) : i < j => Ascending(S)[i] < Ascending(S)[j]
      /\ \A x \in S : \E k \in 1..Cardinality(S) : Ascending(S)[k] = x BY <1>3, AscendingFacts
<1> QED BY <1>1, <1>2, <1>4

\* The index of each partition, when the nearest follows.
LEMMA PartIdxStep ==
  ASSUME MergeJoinInv, StepFollowingPartIdx
  PROVE  MergeJoinInv'
<1> DEFINE idxs == Idxs(mjPart)
           from == mjHeld[mjPart]
           to == Len(idxs)
           T == {n \in from..to : n < to => RKey(idxs[n + 1]) >= mjKey}
           c == LeastOf(T)
           m == IF c < to /\ WithinTolerance(RKey(idxs[c + 1]) - mjKey) THEN <<idxs[c + 1]>> ELSE <<>>
<1>1. /\ TakeLeft /\ mjR' = mjR /\ Emit(m) /\ mjCfg.asof # "off" /\ mjCfg.following /\ mjCfg.parted /\ ~mjStreams
      /\ MergeJoinTypes /\ mjHeld' = [mjHeld EXCEPT ![mjPart] = c] /\ mjPend' = mjPend
  BY DEF StepFollowingPartIdx, MergeJoinInv, Idxs
<1>2. /\ mjL \in Nat /\ mjL + 1 \in 1..Len(mjLeft) /\ mjL' = mjL + 1 /\ mjCfg' = mjCfg
      /\ mjKey \in Int /\ mjKey = mjLeft[mjL + 1][1] /\ LastKey' = mjKey /\ MergeJoinConfigOK(mjCfg)
      /\ mjPart = mergeJoinPartKey(mjLeft[mjL + 1]) /\ mjPart \in mjParts
      /\ mjL > 0 => LastKey \in Int /\ LastKey <= mjKey BY <1>1, LeftRow DEF MergeJoinTypes
<1>3. /\ mjVisible \in Nat /\ mjR \in 0..mjVisible
      /\ \A j \in 1..mjVisible : RKey(j) \in Int /\ j \in 1..Len(mjRight)
      /\ \A i, j \in 1..mjVisible : i <= j => RKey(i) <= RKey(j) BY <1>1, <1>2, VisibleFacts DEF MergeJoinTypes
<1>4. ~ByKey /\ ~ByHeld /\ ByIndex /\ ~ByQueue BY <1>1 DEF ByKey, ByHeld, ByIndex, ByQueue
<1>5. /\ mjHeld = [p \in mjParts |-> mjHeld[p]]
      /\ \A p \in mjParts :
           /\ mjHeld[p] \in 0..Len(Idxs(p))
           /\ \A n \in 1..mjHeld[p] : mjL > 0 /\ RKey(Idxs(p)[n]) < LastKey BY <1>4 DEF MergeJoinInv, IndexInv
<1>6. /\ to \in Nat
      /\ \A n \in 1..to : idxs[n] \in 1..mjVisible /\ RPart(idxs[n]) = mjPart
      /\ \A a, b \in 1..to : a < b => idxs[a] < idxs[b]
      /\ \A j \in 1..mjVisible : RPart(j) = mjPart => \E n \in 1..to : idxs[n] = j BY <1>3, IdxsFacts
<1>7. from \in 0..to BY <1>2, <1>5
<1>8. \A p \in mjParts : \A n \in 1..mjHeld[p] : RKey(Idxs(p)[n]) < mjKey
 <2> SUFFICES ASSUME NEW p \in mjParts, NEW n \in 1..mjHeld[p] PROVE RKey(Idxs(p)[n]) < mjKey OBVIOUS
 <2>1. mjL > 0 /\ RKey(Idxs(p)[n]) < LastKey /\ n \in 1..Len(Idxs(p))
  <3>1. mjHeld[p] \in 0..Len(Idxs(p)) /\ Len(Idxs(p)) \in Nat BY <1>3, <1>5, IdxsFacts
  <3> QED BY <1>5, <3>1
 <2>2. RKey(Idxs(p)[n]) \in Int BY <1>3, <2>1, IdxsFacts
 <2> QED BY <1>2, <2>1, <2>2
<1> HIDE DEF idxs, from, to
<1>9. c \in from..to /\ (c < to => RKey(idxs[c + 1]) >= mjKey) /\ \A y \in T : c <= y
 <2>1. to \in T /\ T \in SUBSET (from..to) /\ from \in Int /\ to \in Int BY <1>6, <1>7
 <2>2. T # {} BY <2>1
 <2>3. c \in T /\ \A y \in T : c <= y
  <3> HIDE DEF T
  <3> QED BY <2>1, <2>2, MinMax
 <2> QED BY <2>3
<1>10. \A n \in 1..c : RKey(idxs[n]) < mjKey
 <2> SUFFICES ASSUME NEW n \in 1..c PROVE RKey(idxs[n]) < mjKey OBVIOUS
 <2>1. CASE n <= from
  <3>1. n \in 1..from BY <1>6, <1>7, <1>9, <2>1
  <3> QED BY <1>2, <1>8, <3>1 DEF from, idxs
 <2>2. CASE ~(n <= from)
  <3>1. n - 1 \in from..to /\ ~(c <= n - 1) /\ n - 1 < to /\ (n - 1) + 1 = n /\ n \in 1..to BY <1>6, <1>7, <1>9, <2>2
  <3>2. n - 1 \notin T BY <1>9, <3>1
  <3>3. ~(RKey(idxs[n]) >= mjKey) BY <3>1, <3>2
  <3>4. RKey(idxs[n]) \in Int BY <1>3, <1>6, <3>1
  <3> QED BY <1>2, <3>3, <3>4
 <2> QED BY <2>1, <2>2
<1> HIDE DEF T, c
<1>11. mjInRange /\ Whole => m = Ascending(JoinMatches(mjL + 1))
 <2> SUFFICES ASSUME mjInRange, Whole PROVE m = Ascending(JoinMatches(mjL + 1)) OBVIOUS
 <2> DEFINE f == idxs[c + 1]
            h == IF c < to THEN f ELSE 0
 <2>1. Len(mjRight) = mjVisible /\ c \in Nat BY <1>6, <1>7, <1>9 DEF Whole
 <2>2. c < to => f \in 1..mjVisible /\ RPart(f) = mjPart /\ mjKey <= RKey(f) /\ f \in Nat /\ f # 0
  <3> SUFFICES ASSUME c < to PROVE f \in 1..mjVisible /\ RPart(f) = mjPart /\ mjKey <= RKey(f) BY <1>3
  <3>1. c + 1 \in 1..to /\ RKey(f) >= mjKey BY <1>6, <1>9, <2>1
  <3>2. f \in 1..mjVisible /\ RPart(f) = mjPart BY <1>6, <3>1
  <3> QED BY <1>2, <1>3, <3>1, <3>2
 <2>3. \A j : j \in Following(mjPart, mjKey) => c < to /\ f <= j
  <3> SUFFICES ASSUME NEW j \in 1..mjVisible, RPart(j) = mjPart, mjKey <= RKey(j) PROVE c < to /\ f <= j
    BY <2>1 DEF Following
  <3>1. PICK n \in 1..to : idxs[n] = j BY <1>6
  <3>2. ~(RKey(idxs[n]) < mjKey) BY <1>2, <1>3, <3>1
  <3>3. n \notin 1..c BY <1>10, <3>2
  <3>4. c < n /\ c < to /\ c + 1 \in 1..to BY <1>6, <2>1, <3>1, <3>3
  <3>5. c + 1 = n \/ c + 1 < n BY <1>6, <2>1, <3>1, <3>4
  <3>6. f = j \/ f < j BY <1>6, <3>1, <3>4, <3>5
  <3>7. f \in Int /\ j \in Int BY <1>3, <2>2, <3>4
  <3> QED BY <3>4, <3>6, <3>7
 <2>4. c < to => f \in Following(mjPart, mjKey) BY <2>1, <2>2 DEF Following
 <2> HIDE DEF f
 <2>5. h = 0 => Following(mjPart, mjKey) = {} BY <2>2, <2>3
 <2>6. h # 0 => h \in Following(mjPart, mjKey) /\ \A j \in Following(mjPart, mjKey) : h <= j BY <2>3, <2>4
 <2>7. (h # 0 <=> c < to) /\ (h # 0 => h = f) BY <2>2
 <2> HIDE DEF h
 <2>11. MergeJoinConfigOK(mjCfg) /\ mjCfg.asof # "off" /\ mjCfg.following /\ mjL + 1 \in 1..Len(mjLeft) BY <1>1, <1>2
 <2>12. mjKey = mjLeft[mjL + 1][1] /\ mjPart = mergeJoinPartKey(mjLeft[mjL + 1]) BY <1>2
 <2>8. JoinMatches(mjL + 1) = IF h # 0 /\ WithinTolerance(RKey(h) - mjKey) THEN {h} ELSE {}
   BY <2>5, <2>6, <2>11, <2>12, FollowingMatches
 <2>9. JoinMatches(mjL + 1) = IF c < to /\ WithinTolerance(RKey(f) - mjKey) THEN {f} ELSE {} BY <2>7, <2>8
 <2>10. m = IF c < to /\ WithinTolerance(RKey(f) - mjKey) THEN <<f>> ELSE <<>> BY DEF f
 <2> HIDE DEF m
 <2> QED BY <2>2, <2>9, <2>10, AscendingSmall
<1> HIDE DEF m
<1>12. JoinedInv' /\ JoinErrInv' BY <1>1, <1>11, EmitStep
<1>13. MergeJoinTypes' BY <1>1, <1>3, TypesStep
<1>14. /\ (\A j : RKey(j)' = RKey(j) /\ RPart(j)' = RPart(j)) /\ \A p : Idxs(p)' = Idxs(p)
       /\ ByKey' = ByKey /\ ByHeld' = ByHeld /\ ByIndex' = ByIndex /\ ByQueue' = ByQueue /\ mjParts' = mjParts
  BY <1>2, AskedKept, MergeCfgKept
<1>15. IndexInv'
 <2>1. /\ mjHeld' = [p \in mjParts |-> mjHeld'[p]] /\ mjHeld'[mjPart] = c
       /\ \A p \in mjParts : p # mjPart => mjHeld'[p] = mjHeld[p] BY <1>1, <1>2, <1>5
 <2>2. \A p \in mjParts : mjHeld'[p] \in 0..Len(Idxs(p))
  <3>1. c \in 0..Len(Idxs(mjPart)) BY <1>6, <1>7, <1>9 DEF to, idxs
  <3> QED BY <1>5, <2>1, <3>1
 <2>3. \A p \in mjParts : \A n \in 1..mjHeld'[p] : RKey(Idxs(p)[n]) < mjKey BY <1>8, <1>10, <2>1 DEF idxs
 <2>4. mjL' > 0 BY <1>2
 <2> QED BY <1>2, <1>14, <2>1, <2>2, <2>3, <2>4 DEF IndexInv
<1>16. HeldInv' /\ KeyInv' /\ JoinBandInv' BY <1>4, <1>14 DEF HeldInv, KeyInv, JoinBandInv
<1>17. QueueInv' BY <1>1, <1>4, <1>14 DEF MergeJoinInv, QueueInv
<1> QED BY <1>12, <1>13, <1>15, <1>16, <1>17 DEF MergeJoinInv

\* With a queue per partition, the rows of the band that follow.
LEMMA FollowingQueueStep ==
  ASSUME MergeJoinInv, StepFollowingQueue
  PROVE  MergeJoinInv'
<1> DEFINE rows == {j \in DOMAIN mjRight : RKey(j) <= Wrap(mjKey + mjCfg.tol)}
           passed(p) == {j \in (mjR + 1)..mjR' : RPart(j) = p}
           q == mjPend'[mjPart]
           m == IF q # {} THEN <<LeastOf(q)>> ELSE <<>>
<1>1. /\ TakeLeft /\ mjR' = AdvanceOver(rows) /\ Emit(m) /\ mjCfg.following /\ mjCfg.parted /\ mjStreams
      /\ MergeJoinTypes /\ mjHeld' = mjHeld /\ mjPend' = [p \in mjParts |-> Pruned(mjPend[p] \cup passed(p))]
  BY DEF StepFollowingQueue, MergeJoinInv
<1>2. /\ mjL \in Nat /\ mjL + 1 \in 1..Len(mjLeft) /\ mjL' = mjL + 1 /\ mjCfg' = mjCfg
      /\ mjKey \in Int /\ mjKey = mjLeft[mjL + 1][1] /\ LastKey' = mjKey /\ MergeJoinConfigOK(mjCfg)
      /\ mjPart = mergeJoinPartKey(mjLeft[mjL + 1]) /\ mjPart \in mjParts
      /\ mjL > 0 => LastKey \in Int /\ LastKey <= mjKey BY <1>1, LeftRow DEF MergeJoinTypes
<1>3. \A j \in rows : RKey(j) <= Wrap(mjKey + mjCfg.tol) OBVIOUS
<1>4. \A j : j \in 1..Len(mjRight) /\ j \notin rows => ~(RKey(j) <= Wrap(mjKey + mjCfg.tol))
  BY <1>2 DEF MergeJoinConfigOK, KeyedRows, mjRight
<1> HIDE DEF rows
<1>5. /\ mjVisible \in Nat /\ mjR \in 0..mjVisible /\ mjR' \in 0..mjVisible /\ mjR' \in mjR..mjVisible
      /\ \A j \in 1..mjR' : j \in 1..mjR \/ j \in (mjR + 1)..mjR'
      /\ \A j \in (mjR + 1)..mjR' : j \in rows /\ j \in 1..mjVisible
      /\ mjR' < mjVisible => mjR' + 1 \notin rows /\ mjR' + 1 \in 1..mjVisible
      /\ \A j \in 1..mjVisible : RKey(j) \in Int /\ j \in 1..Len(mjRight)
      /\ \A i, j \in 1..mjVisible : i <= j => RKey(i) <= RKey(j) BY <1>1, PointerStep
<1>6. mjCfg.tol \in Nat /\ (mjInRange => Wrap(mjKey + mjCfg.tol) = mjKey + mjCfg.tol) BY <1>2, MergeKeys
<1>7. ~ByKey /\ ~ByHeld /\ ~ByIndex /\ ByQueue /\ mjCfg.asof = "soft"
  BY <1>1 DEF ByKey, ByHeld, ByIndex, ByQueue, mjStreams
<1>8. \A j \in 1..mjR : j \in 1..mjVisible /\ mjL > 0 /\ j \in 1..mjR' BY <1>1, <1>2, <1>5 DEF MergeJoinTypes
<1>9. mjInRange => \A j \in 1..mjR' : RKey(j) <= mjKey + mjCfg.tol
 <2> SUFFICES ASSUME mjInRange, NEW j \in 1..mjR' PROVE RKey(j) <= mjKey + mjCfg.tol OBVIOUS
 <2>1. CASE j \in 1..mjR
  <3>1. RKey(j) <= LastKey + mjCfg.tol /\ RKey(j) \in Int /\ mjL > 0
    BY <1>5, <1>7, <1>8, <2>1 DEF MergeJoinInv, JoinBandInv
  <3> QED BY <1>2, <1>6, <3>1
 <2>2. CASE j \in (mjR + 1)..mjR' BY <1>3, <1>5, <1>6, <2>2
 <2> QED BY <1>5, <2>1, <2>2
<1>10. \A p \in mjParts : mjPend'[p] = {j \in 1..mjR' : RPart(j) = p /\ RKey(j) >= mjKey}
 <2> SUFFICES ASSUME NEW p \in mjParts PROVE mjPend'[p] = {j \in 1..mjR' : RPart(j) = p /\ RKey(j) >= mjKey} OBVIOUS
 <2>1. mjPend[p] = {j \in 1..mjR : RPart(j) = p /\ RKey(j) >= LastKey} BY <1>7 DEF MergeJoinInv, QueueInv
 <2>2. mjPend'[p] = {j \in mjPend[p] \cup passed(p) : RKey(j) >= mjKey} BY <1>1 DEF Pruned
 <2>3. ASSUME NEW j \in mjPend'[p] PROVE j \in 1..mjR' /\ RPart(j) = p /\ RKey(j) >= mjKey
  <3>1. j \in 1..mjR \/ j \in (mjR + 1)..mjR' BY <2>1, <2>2
  <3>2. j \in 1..mjR' BY <1>5, <1>8, <3>1
  <3> QED BY <2>1, <2>2, <3>2
 <2>4. ASSUME NEW j \in 1..mjR', RPart(j) = p, RKey(j) >= mjKey PROVE j \in mjPend'[p]
  <3>1. CASE j \in 1..mjR
   <4>0. RKey(j) \in Int /\ LastKey \in Int /\ mjKey \in Int /\ LastKey <= mjKey /\ RKey(j) >= mjKey
     BY <1>2, <1>5, <1>8, <2>4, <3>1
   <4>1. RKey(j) >= LastKey BY ONLY <4>0
   <4> QED BY <2>1, <2>2, <2>4, <3>1, <4>1
  <3>2. CASE j \in (mjR + 1)..mjR' BY <2>2, <2>4, <3>2
  <3> QED BY <1>5, <3>1, <3>2
 <2> QED BY <2>3, <2>4
<1>11. mjInRange /\ Whole => m = Ascending(JoinMatches(mjL + 1))
 <2> SUFFICES ASSUME mjInRange, Whole PROVE m = Ascending(JoinMatches(mjL + 1)) OBVIOUS
 <2>1. Len(mjRight) = mjVisible /\ mjR' \in Nat BY <1>5 DEF Whole
 <2>2. \A j : j \in q <=> j \in 1..mjR' /\ RPart(j) = mjPart /\ RKey(j) >= mjKey BY <1>2, <1>10
 <2> HIDE DEF q
 <2>3. \A j : j \in q => j \in Following(mjPart, mjKey)
  <3> SUFFICES ASSUME NEW j \in 1..mjR', RPart(j) = mjPart, RKey(j) >= mjKey PROVE j \in Following(mjPart, mjKey)
    BY <2>2
  <3>1. j \in 1..mjVisible /\ RKey(j) \in Int BY <1>5
  <3>2. mjKey <= RKey(j) BY <1>2, <3>1
  <3> QED BY <2>1, <3>1, <3>2 DEF Following
 <2>4. \A j \in Following(mjPart, mjKey) : j \in 1..mjVisible /\ (j \in q \/ (j > mjR' /\ RKey(j) > mjKey + mjCfg.tol))
  <3> SUFFICES ASSUME NEW j \in 1..mjVisible, RPart(j) = mjPart, mjKey <= RKey(j), j \notin q
               PROVE j > mjR' /\ RKey(j) > mjKey + mjCfg.tol BY <2>1 DEF Following
  <3>1. RKey(j) \in Int /\ RKey(j) >= mjKey BY <1>2, <1>5
  <3>2. j \notin 1..mjR' BY <2>2, <3>1
  <3>3. j \in Nat /\ j > 0 /\ j <= mjVisible BY <1>5
  <3>4. j > mjR' /\ mjR' + 1 <= j /\ mjR' < mjVisible /\ mjR' + 1 \in 1..mjVisible
    BY <1>5, <2>1, <3>2, <3>3, NextNumber
  <3>5. RKey(mjR' + 1) \in Int /\ ~(RKey(mjR' + 1) <= mjKey + mjCfg.tol) /\ RKey(mjR' + 1) <= RKey(j)
    BY <1>4, <1>5, <1>6, <3>4
  <3>7. RKey(j) > mjKey + mjCfg.tol BY <1>2, <1>6, <3>1, <3>5
  <3> QED BY <3>4, <3>7
 <2>5. CASE q # {}
  <3> DEFINE h == LeastOf(q)
             one == 1
             top == mjR'
  <3>1. one \in Int /\ top \in Int /\ q \in SUBSET (one..top) BY <2>1, <2>2
  <3> HIDE DEF one, top
  <3>2. h \in q /\ \A y \in q : h <= y BY <2>5, <3>1, MinMax
  <3> HIDE DEF h
  <3>3. h \in Following(mjPart, mjKey) /\ h \in 1..mjR' /\ RKey(h) \in Int /\ h # 0 /\ h \in Nat
    BY <1>5, <2>2, <2>3, <3>2
  <3>4. \A j \in Following(mjPart, mjKey) : h <= j
   <4> SUFFICES ASSUME NEW j \in Following(mjPart, mjKey), j \notin q PROVE h <= j BY <3>2
   <4>1. j > mjR' /\ j \in Nat BY <2>4
   <4> QED BY <2>1, <3>3, <4>1
  <3>5. JoinMatches(mjL + 1) = IF h # 0 /\ WithinTolerance(RKey(h) - mjKey) THEN {h} ELSE {}
   <4>1. MergeJoinConfigOK(mjCfg) /\ mjCfg.asof # "off" /\ mjCfg.following /\ mjL + 1 \in 1..Len(mjLeft)
     BY <1>1, <1>2, <1>7
   <4>2. mjKey = mjLeft[mjL + 1][1] /\ mjPart = mergeJoinPartKey(mjLeft[mjL + 1]) BY <1>2
   <4> QED BY <3>3, <3>4, <4>1, <4>2, FollowingMatches
  <3>6. WithinTolerance(RKey(h) - mjKey)
   <4>1. RKey(h) <= mjKey + mjCfg.tol /\ h \in 1..Len(mjRight) BY <1>5, <1>9, <2>1, <3>3
   <4>2. RKey(h) - mjKey <= mjCfg.tol BY <1>2, <1>6, <3>3, <4>1
   <4> QED BY <1>2, <4>1, <4>2, MergeKeys
  <3> QED BY <2>5, <3>3, <3>5, <3>6, AscendingSmall DEF h
 <2>6. CASE q = {}
  <3>1. JoinMatches(mjL + 1) = {}
   <4> SUFFICES ASSUME NEW j \in JoinMatches(mjL + 1) PROVE FALSE OBVIOUS
   <4>1. j \in Following(mjPart, mjKey) /\ RKey(j) - mjKey <= mjCfg.tol BY <1>1, <1>2, <1>7, MatchesAre
   <4>2. RKey(j) \in Int /\ RKey(j) > mjKey + mjCfg.tol BY <1>5, <2>4, <2>6, <4>1
   <4> QED BY <1>2, <1>6, <4>1, <4>2
  <3> QED BY <2>6, <3>1, AscendingSmall
 <2> QED BY <2>5, <2>6
<1> HIDE DEF m
<1>12. JoinedInv' /\ JoinErrInv' BY <1>1, <1>11, EmitStep
<1>13. MergeJoinTypes' BY <1>1, <1>5, TypesStep
<1>14. /\ \A j : RKey(j)' = RKey(j) /\ RPart(j)' = RPart(j)
       /\ ByKey' = ByKey /\ ByHeld' = ByHeld /\ ByIndex' = ByIndex /\ ByQueue' = ByQueue /\ mjParts' = mjParts
       /\ mjInRange' = mjInRange BY <1>2, AskedKept, MergeCfgKept
<1>15. KeyInv' /\ HeldInv' /\ IndexInv' BY <1>7, <1>14 DEF KeyInv, HeldInv, IndexInv
<1>16. JoinBandInv' BY <1>2, <1>9, <1>14 DEF JoinBandInv
<1>17. QueueInv'
 <2>1. mjPend' = [p \in mjParts |-> mjPend'[p]] BY <1>1
 <2>2. mjPend' = [p \in mjParts |-> {j \in 1..mjR' : RPart(j) = p /\ RKey(j) >= mjKey}] BY <1>10, <2>1
 <2> QED BY <1>2, <1>7, <1>14, <2>2 DEF QueueInv
<1> QED BY <1>12, <1>13, <1>15, <1>16, <1>17 DEF MergeJoinInv

\* The steps that take no left row keep what the rows were matched with.
LEMMA NoRowStep ==
  ASSUME MergeJoinInv, UNCHANGED <<mjCfg, mjL, mjR, mjHeld, mjPend, mjPeeked, mjOut>>
  PROVE  /\ KeyInv' /\ HeldInv' /\ IndexInv' /\ QueueInv' /\ JoinBandInv'
         /\ (mjErr' = "none" => mjErr = "none") => JoinedInv'
         /\ mjPc' \in {"exec", "left", "done"} => MergeJoinTypes'
<1>1. /\ (\A j : RKey(j)' = RKey(j) /\ RPart(j)' = RPart(j)) /\ mjLeft' = mjLeft /\ mjVisible' = mjVisible
      /\ (\A p : Idxs(p)' = Idxs(p)) /\ Asked' = Asked /\ mjInRange' = mjInRange /\ Whole' = Whole
      /\ ByKey' = ByKey /\ ByHeld' = ByHeld /\ ByIndex' = ByIndex /\ ByQueue' = ByQueue /\ mjParts' = mjParts
  BY AskedKept, MergeCfgKept
<1>2. LastKey' = LastKey BY <1>1 DEF LastKey
<1>3. KeyInv' /\ JoinBandInv' BY <1>1, <1>2 DEF MergeJoinInv, KeyInv, JoinBandInv
<1>4. HeldInv' BY <1>1, <1>2 DEF MergeJoinInv, HeldInv, LastOf
<1>5. IndexInv' BY <1>1, <1>2 DEF MergeJoinInv, IndexInv
<1>6. QueueInv' BY <1>1, <1>2 DEF MergeJoinInv, QueueInv
<1>7. (mjErr' = "none" => mjErr = "none") => JoinedInv' BY <1>1 DEF MergeJoinInv, JoinedInv
<1>8. mjPc' \in {"exec", "left", "done"} => MergeJoinTypes' BY <1>1 DEF MergeJoinInv, MergeJoinTypes
<1> QED BY <1>3, <1>4, <1>5, <1>6, <1>7, <1>8

\* Every step preserves the invariant.
LEMMA MergeJoinStep ==
  ASSUME MergeJoinInv, [MergeJoinNext]_mergeJoinVars
  PROVE  MergeJoinInv'
<1>1. CASE MergeJoinExec
 <2>1. UNCHANGED <<mjCfg, mjL, mjR, mjHeld, mjPend, mjPeeked, mjOut>> /\ mjPc = "exec" BY <1>1 DEF MergeJoinExec
 <2>2. mjPc' \in {"exec", "left", "done"} /\ mjErr = "none" /\ mjL = 0
   BY <1>1 DEF MergeJoinExec, MergeJoinInv, JoinErrInv
 <2>3. JoinErrInv'
  <3>1. mjStreams' = mjStreams /\ mjRightErr' = mjRightErr BY <2>1, MergeCfgKept
  <3>2. CASE ~mjStreams /\ mjRightErr # "none"
   <4>1. mjErr' = mjRightErr /\ mjPc' = "done" BY <1>1, <3>2 DEF MergeJoinExec
   <4> QED BY <3>1, <3>2, <4>1 DEF JoinErrInv
  <3>3. CASE ~(~mjStreams /\ mjRightErr # "none")
   <4>1. mjPc' = "left" BY <1>1, <3>3 DEF MergeJoinExec
   <4> QED BY <3>1, <3>3, <4>1 DEF JoinErrInv
  <3> QED BY <3>2, <3>3
 <2> QED BY <2>1, <2>2, <2>3, NoRowStep DEF MergeJoinInv
<1>2. CASE LeftOutOfOrder
 <2>1. UNCHANGED <<mjCfg, mjL, mjR, mjHeld, mjPend, mjPeeked, mjOut>> /\ mjPc' = mjPc /\ mjErr' = "left order" /\ mjPc = "left"
   BY <1>2 DEF LeftOutOfOrder
 <2>2. JoinErrInv'
  <3>1. mjStreams' = mjStreams /\ mjRightErr' = mjRightErr BY <2>1, MergeCfgKept
  <3> QED BY <2>1, <3>1 DEF JoinErrInv, MergeJoinInv
 <2> QED BY <2>1, <2>2, NoRowStep DEF MergeJoinInv
<1>3. CASE LeftEnd
 <2> DEFINE own == IF mjErr = "none" /\ mjCfg.lfail THEN "left" ELSE mjErr
            W == IF mjStreams THEN {WaitErr} \cup (IF mjPeeked THEN {} ELSE {mjRightErr}) ELSE {"none"}
 <2>1. UNCHANGED <<mjCfg, mjL, mjR, mjHeld, mjPend, mjPeeked, mjOut>> /\ mjPc = "left" /\ mjPc' = "done"
   BY <1>3 DEF LeftEnd
 <2>2. PICK w \in W : mjErr' = IF own = "none" THEN w ELSE own BY <1>3 DEF LeftEnd
 <2>3. mjErr' = "none" => mjErr = "none" /\ mjL = Len(mjLeft) /\ w = "none" BY <1>3, <2>2 DEF LeftEnd
 <2>4. JoinErrInv'
  <3>1. mjStreams' = mjStreams /\ mjRightErr' = mjRightErr /\ mjLeft' = mjLeft BY <2>1, MergeCfgKept
  <3>2. mjStreams /\ mjPeeked /\ mjErr' = "none" => mjRightErr = "none" BY <2>2, <2>3 DEF WaitErr
  <3>3. ~mjStreams => mjRightErr = "none" BY <2>1 DEF MergeJoinInv, JoinErrInv
  <3> QED BY <2>1, <2>3, <3>1, <3>2, <3>3 DEF JoinErrInv
 <2> QED BY <2>1, <2>3, <2>4, NoRowStep DEF MergeJoinInv
<1>4. CASE UNCHANGED mergeJoinVars
 <2>1. UNCHANGED <<mjCfg, mjL, mjR, mjHeld, mjPend, mjPeeked, mjOut>> /\ mjPc' = mjPc /\ mjErr' = mjErr
   BY <1>4 DEF mergeJoinVars
 <2>2. JoinErrInv'
  <3>1. mjStreams' = mjStreams /\ mjRightErr' = mjRightErr /\ mjLeft' = mjLeft BY <2>1, MergeCfgKept
  <3> QED BY <2>1, <3>1 DEF JoinErrInv, MergeJoinInv
 <2>3. mjPc' \in {"exec", "left", "done"} BY <2>1 DEF MergeJoinInv, MergeJoinTypes
 <2> QED BY <2>1, <2>2, <2>3, NoRowStep DEF MergeJoinInv
<1> QED
  BY <1>1, <1>2, <1>3, <1>4, EquiStep, PrecedingStep, FollowingStep, PartIdxStep, FollowingQueueStep DEF MergeJoinNext

\* The initial states satisfy it.
LEMMA MergeJoinStarts ==
  ASSUME NEW Cfgs, \A c \in Cfgs : MergeJoinConfigOK(c), MergeJoinInit(Cfgs)
  PROVE  MergeJoinInv
<1>1. /\ MergeJoinConfigOK(mjCfg) /\ mjPc = "exec" /\ mjErr = "none" /\ mjL = 0 /\ mjR = 0
      /\ mjHeld = [p \in mjParts |-> 0] /\ mjPend = [p \in mjParts |-> {}] /\ mjOut = <<>> BY DEF MergeJoinInit
<1>2. MergeJoinTypes
 <2>1. mjVisible \in Nat BY <1>1, VisibleFacts
 <2>2. Len(mjLeft) \in Nat BY <1>1 DEF MergeJoinConfigOK, KeyedRows, mjLeft
 <2> QED BY <1>1, <2>1, <2>2 DEF MergeJoinTypes
<1>3. \A j : j \notin 1..mjR BY <1>1
<1>4. KeyInv /\ HeldInv /\ QueueInv /\ JoinBandInv BY <1>1, <1>3 DEF KeyInv, HeldInv, QueueInv, JoinBandInv, LastOf
<1>5. IndexInv
 <2>1. \A p : Len(Idxs(p)) \in Nat BY <1>1, VisibleFacts, IdxsFacts
 <2>2. \A n : n \notin 1..0 OBVIOUS
 <2> QED BY <1>1, <2>1, <2>2 DEF IndexInv
<1>6. JoinedInv BY <1>1, ConcatGrows DEF JoinedInv
<1>7. JoinErrInv BY <1>1 DEF JoinErrInv
<1> QED BY <1>2, <1>4, <1>5, <1>6, <1>7 DEF MergeJoinInv

\* engine/op_merge_join.go: whatever the rows, keys, partitions, tolerance and
\* kind of the join, materialised or streamed, a merge join that ends without
\* an error has yielded the rows of its definition; a broken right side is
\* never taken for one that ended; and the queues hold the band only.
THEOREM MergeJoinIsSound ==
  ASSUME NEW Cfgs, \A c \in Cfgs : MergeJoinConfigOK(c)
  PROVE  MergeJoinSpec(Cfgs) => []MergeJoinSound
<1>1. MergeJoinInv => MergeJoinSound
 <2> SUFFICES ASSUME MergeJoinInv PROVE MergeJoinSound OBVIOUS
 <2>1. MergeJoinExact
  <3> SUFFICES ASSUME mjPc = "done", mjErr = "none", mjInRange, mjStreams => Whole PROVE mjOut = JoinReference
    BY DEF MergeJoinExact, Whole
  <3>1. mjL = Len(mjLeft) /\ ((mjStreams => mjPeeked) => mjRightErr = "none") BY DEF MergeJoinInv, JoinErrInv
  <3>2. Whole
   <4>1. ~mjStreams => mjRightErr = "none" BY <3>1
   <4>2. mjVisible \in 0..Len(mjRight) /\ Len(mjRight) \in Nat BY VisibleFacts DEF MergeJoinInv, MergeJoinTypes
   <4>3. mjRightErr = "none" => ~(mjVisible < Len(mjRight)) BY DEF mjRightErr
   <4> QED BY <4>1, <4>2, <4>3 DEF Whole
  <3>3. mjOut = Concat(Upto(Asked, Len(mjLeft))) BY <3>1, <3>2 DEF MergeJoinInv, JoinedInv
  <3>4. Upto(Asked, Len(mjLeft)) = Asked
    BY DEF Upto, Asked, MergeJoinInv, MergeJoinTypes, MergeJoinConfigOK, KeyedRows, mjLeft
  <3>5. JoinReference = Concat(Asked) BY DEF JoinReference, Asked, Joined
  <3> QED BY <3>3, <3>4, <3>5
 <2>2. BrokenRightSurfaces BY DEF BrokenRightSurfaces, MergeJoinInv, JoinErrInv
 <2>3. JoinBandOnly
  <3> SUFFICES ASSUME mjL > 0, mjInRange, NEW p \in mjParts, NEW j \in mjPend[p]
               PROVE RKey(j) - LastKey \in 0..mjCfg.tol BY DEF JoinBandOnly, LastKey
  <3>1. ByQueue /\ j \in 1..mjR /\ RKey(j) >= LastKey BY DEF MergeJoinInv, QueueInv
  <3>2. RKey(j) <= LastKey + mjCfg.tol BY <3>1 DEF MergeJoinInv, JoinBandInv
  <3>3. mjL \in 1..Len(mjLeft) /\ MergeJoinConfigOK(mjCfg) BY DEF MergeJoinInv, MergeJoinTypes
  <3>4. LastKey \in Int /\ mjCfg.tol \in Nat BY <3>3, MergeKeys DEF LastKey
  <3>5. RKey(j) \in Int BY <3>1, <3>3, VisibleFacts DEF MergeJoinInv, MergeJoinTypes
  <3> QED BY <3>1, <3>2, <3>4, <3>5
 <2> QED BY <2>1, <2>2, <2>3 DEF MergeJoinSound
<1>2. MergeJoinInit(Cfgs) => MergeJoinInv BY MergeJoinStarts
<1>3. MergeJoinInv /\ [MergeJoinNext]_mergeJoinVars => MergeJoinInv' BY MergeJoinStep
<1> QED BY <1>1, <1>2, <1>3, PTL DEF MergeJoinSpec

\* Concatenations of sequences over T are sequences over T, and each is a
\* prefix of those that are longer.
LEMMA ConcatType ==
  ASSUME NEW T, NEW ss, NEW n \in Nat, \A i \in 1..n : ss[i] \in Seq(T)
  PROVE  \A k \in 0..n : Concat(Upto(ss, k)) \in Seq(T)
<1> DEFINE B == {k \in 0..n : Concat(Upto(ss, k)) \notin Seq(T)}
<1>1. SUFFICES ASSUME B # {} PROVE FALSE OBVIOUS
<1>2. PICK k \in B : \A y \in B : k <= y
 <2>1. B \in SUBSET Nat OBVIOUS
 <2> QED BY <1>1, <2>1, LeastNumber
<1>3. k \in 0..n /\ Concat(Upto(ss, k)) \notin Seq(T) BY <1>2
<1>4. k # 0
 <2>1. Concat(Upto(ss, 0)) = <<>> /\ <<>> \in Seq(T) BY ConcatGrows
 <2>2. Concat(Upto(ss, 0)) \in Seq(T) BY <2>1
 <2> QED BY <1>3, <2>2
<1>5. k - 1 \in 0..n /\ k - 1 \notin B /\ k \in 1..n /\ k - 1 \in Nat /\ (k - 1) + 1 = k BY <1>2, <1>3, <1>4
<1>6. Concat(Upto(ss, k - 1)) \in Seq(T) BY <1>5
<1>7. Concat(Upto(ss, (k - 1) + 1)) = Concat(Upto(ss, k - 1)) \o ss[(k - 1) + 1] BY <1>5, ConcatGrows
<1>8. Concat(Upto(ss, k)) = Concat(Upto(ss, k - 1)) \o ss[k] BY <1>5, <1>7
<1> QED BY <1>3, <1>5, <1>6, <1>8

\* The sequence s begins the sequence t.
Begins(T, s, t) == \E x \in Seq(T) : t = s \o x

\* A shorter concatenation begins a longer one.
LEMMA ConcatPrefix ==
  ASSUME NEW T, NEW ss, NEW n \in Nat, \A i \in 1..n : ss[i] \in Seq(T), NEW m \in 0..n
  PROVE  \A k \in m..n : Begins(T, Concat(Upto(ss, m)), Concat(Upto(ss, k)))
<1> USE DEF Begins
<1> DEFINE B == {k \in m..n : ~\E x \in Seq(T) : Concat(Upto(ss, k)) = Concat(Upto(ss, m)) \o x}
<1>1. SUFFICES ASSUME B # {} PROVE FALSE OBVIOUS
<1>2. PICK k \in B : \A y \in B : k <= y
 <2>1. B \in SUBSET Nat OBVIOUS
 <2> QED BY <1>1, <2>1, LeastNumber
<1>3. k \in m..n /\ ~\E x \in Seq(T) : Concat(Upto(ss, k)) = Concat(Upto(ss, m)) \o x BY <1>2
<1>4. Concat(Upto(ss, m)) \in Seq(T) BY ConcatType
<1>5. k # m
 <2>1. <<>> \in Seq(T) /\ Concat(Upto(ss, m)) = Concat(Upto(ss, m)) \o <<>> BY <1>4
 <2> QED BY <1>3, <2>1
<1>6. k - 1 \in m..n /\ k - 1 \notin B /\ k \in 1..n /\ k - 1 \in Nat /\ (k - 1) + 1 = k
 <2>1. k \in m..n /\ k # m /\ m \in Nat BY <1>3, <1>5
 <2>2. k - 1 \in m..n /\ k \in 1..n /\ k - 1 \in Nat /\ (k - 1) + 1 = k /\ ~(k <= k - 1) BY <2>1
 <2> QED BY <1>2, <2>2
<1>7. PICK x \in Seq(T) : Concat(Upto(ss, k - 1)) = Concat(Upto(ss, m)) \o x BY <1>6
<1>8. Concat(Upto(ss, (k - 1) + 1)) = Concat(Upto(ss, k - 1)) \o ss[(k - 1) + 1] BY <1>6, ConcatGrows
<1>9. Concat(Upto(ss, k)) = (Concat(Upto(ss, m)) \o x) \o ss[k] /\ ss[k] \in Seq(T) BY <1>6, <1>7, <1>8
<1>10. x \o ss[k] \in Seq(T) BY <1>9
<1>11. (Concat(Upto(ss, m)) \o x) \o ss[k] = Concat(Upto(ss, m)) \o (x \o ss[k])
 <2> DEFINE a == Concat(Upto(ss, m))
            b == ss[k]
 <2>1. a \in Seq(T) /\ x \in Seq(T) /\ b \in Seq(T) BY <1>4, <1>9
 <2> HIDE DEF a, b
 <2>2. (a \o x) \o b = a \o (x \o b) BY ONLY <2>1, ConcatAssociative
 <2> QED BY <2>2 DEF a, b
<1> QED BY <1>3, <1>9, <1>10, <1>11

\* So is each of the whole.
LEMMA ConcatPrefixes ==
  ASSUME NEW T, NEW ss, NEW n \in Nat, \A i \in 1..n : ss[i] \in Seq(T)
  PROVE  \A m \in 0..n : Begins(T, Concat(Upto(ss, m)), Concat(Upto(ss, n)))
<1> SUFFICES ASSUME NEW m \in 0..n
             PROVE  Begins(T, Concat(Upto(ss, m)), Concat(Upto(ss, n))) OBVIOUS
<1>1. \A k \in m..n : Begins(T, Concat(Upto(ss, m)), Concat(Upto(ss, k))) BY ConcatPrefix
<1>2. n \in m..n OBVIOUS
<1> QED BY <1>1, <1>2

\* The front of a concatenation.
LEMMA PrefixOf ==
  ASSUME NEW T, NEW s \in Seq(T), NEW t \in Seq(T)
  PROVE  SubSeq(s \o t, 1, Len(s)) = s
<1> DEFINE u == SubSeq(s \o t, 1, Len(s))
           n == Len(s)
<1>1. s \o t \in Seq(T) /\ Len(s \o t) = n + Len(t) /\ n \in Nat /\ Len(t) \in Nat /\ \A i \in 1..n : (s \o t)[i] = s[i]
  OBVIOUS
<1>2. \A i \in 1..n : (s \o t)[i] \in T BY <1>1
<1>3. /\ u \in Seq(T) /\ Len(u) = (IF 1 <= n THEN n - 1 + 1 ELSE 0) /\ \A i \in 1..(n - 1 + 1) : u[i] = (s \o t)[1 + i - 1]
  BY <1>1, <1>2, SubSeqProperties
<1> HIDE DEF u
<1>4. Len(u) = n /\ \A i \in 1..n : u[i] = s[i] BY <1>1, <1>3
<1> QED BY <1>3, <1>4, SeqEqual DEF u

-----------------------------------------------------------------------------
(* The nested loop.                                                        *)

\* Left rows whose right drivers yield rows of R, some of which may fail.
NestedLoopConfigOK(c, R) ==
  /\ c.drives \in Seq(Seq(R \X BOOLEAN))
  /\ c.fails \in SUBSET (1..Len(c.drives))

\* What the first j right rows of left row i match, as sequences of one or none.
Matched(i) == [n \in DOMAIN nlCfg.drives[i] |-> IF Truthy(nlCfg.drives[i][n]) THEN <<nlCfg.drives[i][n][1]>> ELSE <<>>]
Partners(i, j) == Concat(Upto(Matched(i), j))
PairRows(i, m) == [n \in DOMAIN m |-> <<i, m[n]>>]
NlAsked == [i \in DOMAIN nlCfg.drives |-> NestedLoopRows(i)]
AskedUpto(i) == Concat(Upto(NlAsked, i))
NlRows(R) == Nat \X (R \cup Seq(R) \cup {0})

LoopInv(R) ==
  /\ NestedLoopConfigOK(nlCfg, R)
  /\ nlPc \in {"left", "right", "done"}
  /\ nlI \in 0..Len(nlCfg.drives)
  /\ nlOut \in Seq(NlRows(R))
  /\ nlErr \in BOOLEAN
  /\ nlPc = "right" =>
       /\ nlI \in 1..Len(nlCfg.drives) /\ nlJ \in 0..Len(Drive) /\ ~nlErr
       /\ nlHad = (Partners(nlI, nlJ) # <<>>)
       /\ isNest => nlNest = Partners(nlI, nlJ) /\ nlOut = AskedUpto(nlI - 1)
       /\ ~isNest => nlOut = AskedUpto(nlI - 1) \o PairRows(nlI, Partners(nlI, nlJ))
       /\ \A k \in 1..(nlI - 1) : k \notin nlCfg.fails
  /\ nlPc # "right" =>
       /\ ~nlErr => nlOut = AskedUpto(nlI) /\ \A k \in 1..nlI : k \notin nlCfg.fails
       /\ nlErr => nlI \in nlCfg.fails /\ \E x \in Seq(NlRows(R)) : AskedUpto(nlI) = nlOut \o x
  /\ nlPc = "done" /\ ~nlErr => nlI = Len(nlCfg.drives)

\* A left row and its right rows.
LEMMA DriveFacts ==
  ASSUME NEW R, NestedLoopConfigOK(nlCfg, R), NEW i \in 1..Len(nlCfg.drives)
  PROVE  /\ Len(nlCfg.drives) \in Nat /\ DOMAIN nlCfg.drives = 1..Len(nlCfg.drives)
         /\ Len(nlCfg.drives[i]) \in Nat /\ DOMAIN nlCfg.drives[i] = 1..Len(nlCfg.drives[i])
         /\ \A n \in 1..Len(nlCfg.drives[i]) : nlCfg.drives[i][n][1] \in R /\ Matched(i)[n] \in Seq(R)
         /\ \A n \in 0..Len(nlCfg.drives[i]) : Partners(i, n) \in Seq(R)
         /\ Partners(i, 0) = <<>>
         /\ \A n \in 0..(Len(nlCfg.drives[i]) - 1) : Partners(i, n + 1) = Partners(i, n) \o Matched(i)[n + 1]
         /\ NestedLoopRows(i) =
              LET m == Partners(i, Len(nlCfg.drives[i]))
              IN IF m = <<>> THEN IF nlCfg.outer THEN << <<i, IF isNest THEN <<>> ELSE 0>> >> ELSE <<>>
                 ELSE IF isNest THEN << <<i, m>> >> ELSE PairRows(i, m)
<1> DEFINE d == nlCfg.drives[i]
<1>1. nlCfg.drives \in Seq(Seq(R \X BOOLEAN)) BY DEF NestedLoopConfigOK
<1>2. /\ Len(nlCfg.drives) \in Nat /\ DOMAIN nlCfg.drives = 1..Len(nlCfg.drives) /\ d \in Seq(R \X BOOLEAN) BY <1>1
<1>3. Len(d) \in Nat /\ DOMAIN d = 1..Len(d) /\ \A n \in 1..Len(d) : d[n] \in R \X BOOLEAN BY <1>2
<1>4. Matched(i) = [n \in 1..Len(d) |-> IF Truthy(d[n]) THEN <<d[n][1]>> ELSE <<>>] BY <1>3 DEF Matched
<1>5. \A n \in 1..Len(d) : d[n][1] \in R /\ Matched(i)[n] \in Seq(R) BY <1>3, <1>4
<1>6. \A n \in 0..Len(d) : Partners(i, n) \in Seq(R) BY <1>3, <1>5, ConcatType DEF Partners
<1>7. /\ Partners(i, 0) = <<>>
      /\ \A n \in Nat : Partners(i, n + 1) = Partners(i, n) \o Matched(i)[n + 1] BY ConcatGrows DEF Partners
<1>8. Partners(i, Len(d)) = Concat(Matched(i)) BY <1>3, <1>4 DEF Partners, Upto
<1>9. Concat(Matched(i)) = Concat([n \in DOMAIN d |-> IF Truthy(d[n]) THEN <<d[n][1]>> ELSE <<>>]) BY DEF Matched
<1>10. NestedLoopRows(i) =
         LET m == Concat(Matched(i))
         IN IF m = <<>> THEN IF nlCfg.outer THEN << <<i, IF isNest THEN <<>> ELSE 0>> >> ELSE <<>>
            ELSE IF isNest THEN << <<i, m>> >> ELSE PairRows(i, m) BY <1>9 DEF NestedLoopRows, PairRows
<1>11. NestedLoopRows(i) =
         LET m == Partners(i, Len(d))
         IN IF m = <<>> THEN IF nlCfg.outer THEN << <<i, IF isNest THEN <<>> ELSE 0>> >> ELSE <<>>
            ELSE IF isNest THEN << <<i, m>> >> ELSE PairRows(i, m) BY <1>8, <1>10
<1>12. \A n \in 0..(Len(d) - 1) : Partners(i, n + 1) = Partners(i, n) \o Matched(i)[n + 1]
 <2>1. \A n \in 0..(Len(d) - 1) : n \in Nat BY <1>3
 <2> QED BY <1>7, <2>1
<1> QED BY <1>2, <1>3, <1>5, <1>6, <1>7, <1>11, <1>12

\* A sequence with one more element.
LEMMA OneMore ==
  ASSUME NEW T, NEW s \in Seq(T), NEW v \in T
  PROVE  /\ s \o <<v>> \in Seq(T) /\ Len(s) \in Nat /\ Len(s \o <<v>>) = Len(s) + 1
         /\ (\A n \in 1..Len(s) : (s \o <<v>>)[n] = s[n]) /\ (s \o <<v>>)[Len(s) + 1] = v
         /\ s \o <<v>> = [n \in 1..(Len(s) + 1) |-> (s \o <<v>>)[n]]
         /\ s \o <<v>> # <<>> /\ Append(s, v) = s \o <<v>>
OBVIOUS

\* Rows of pairs.
LEMMA PairFacts ==
  ASSUME NEW R, NEW i \in Nat, NEW m \in Seq(R)
  PROVE  /\ PairRows(i, m) \in Seq(NlRows(R)) /\ PairRows(i, <<>>) = <<>>
         /\ \A v \in R : PairRows(i, m \o <<v>>) = PairRows(i, m) \o << <<i, v>> >>
<1>1. Len(m) \in Nat /\ DOMAIN m = 1..Len(m) /\ \A n \in 1..Len(m) : m[n] \in R OBVIOUS
<1>2. \A n \in 1..Len(m) : <<i, m[n]>> \in NlRows(R) BY <1>1 DEF NlRows
<1>3. PairRows(i, m) = [n \in 1..Len(m) |-> <<i, m[n]>>] BY <1>1 DEF PairRows
<1>4. PairRows(i, m) \in Seq(NlRows(R)) /\ Len(PairRows(i, m)) = Len(m) /\ \A n \in 1..Len(m) : PairRows(i, m)[n] = <<i, m[n]>>
 <2>1. \A n \in 1..Len(m) : PairRows(i, m)[n] = <<i, m[n]>> BY <1>3
 <2>2. PairRows(i, m) \in Seq(NlRows(R)) BY <1>1, <1>2, <1>3
 <2>3. Len(PairRows(i, m)) = Len(m) BY <1>1, <1>3
 <2> QED BY <2>1, <2>2, <2>3
<1>5. PairRows(i, <<>>) = <<>> BY DEF PairRows
<1>6. ASSUME NEW v \in R PROVE PairRows(i, m \o <<v>>) = PairRows(i, m) \o << <<i, v>> >>
 <2> DEFINE a == m \o <<v>>
            x == << <<i, v>> >>
            b == PairRows(i, m) \o x
            N == NlRows(R)
 <2>1. a \in Seq(R) /\ Len(a) = Len(m) + 1 /\ (\A n \in 1..Len(m) : a[n] = m[n]) /\ a[Len(m) + 1] = v BY OneMore
 <2>2. <<i, v>> \in N BY DEF NlRows
 <2>3. PairRows(i, a) = [n \in 1..(Len(m) + 1) |-> <<i, a[n]>>] BY <1>1, <2>1 DEF PairRows
 <2> DEFINE p == PairRows(i, m)
            y == <<i, v>>
 <2>9. p \in Seq(N) /\ y \in N /\ Len(p) = Len(m) /\ \A n \in 1..Len(m) : p[n] = <<i, m[n]>> BY <1>4, <2>2
 <2> HIDE DEF p, y, N
 <2>10. /\ Len(p \o <<y>>) = Len(m) + 1 /\ (\A n \in 1..Len(m) : (p \o <<y>>)[n] = p[n])
        /\ (p \o <<y>>)[Len(m) + 1] = y /\ p \o <<y>> = [n \in 1..(Len(m) + 1) |-> (p \o <<y>>)[n]]
  <3>1. /\ Len(p \o <<y>>) = Len(p) + 1 /\ (\A n \in 1..Len(p) : (p \o <<y>>)[n] = p[n])
        /\ (p \o <<y>>)[Len(p) + 1] = y /\ p \o <<y>> = [n \in 1..(Len(p) + 1) |-> (p \o <<y>>)[n]]
   <4>1. p \in Seq(N) /\ y \in N BY <2>9
   <4>2. Len(p \o <<y>>) = Len(p) + 1 BY ONLY <4>1, OneMore
   <4>3. \A n \in 1..Len(p) : (p \o <<y>>)[n] = p[n] BY ONLY <4>1, OneMore
   <4>4. (p \o <<y>>)[Len(p) + 1] = y BY ONLY <4>1, OneMore
   <4>5. p \o <<y>> = [n \in 1..(Len(p) + 1) |-> (p \o <<y>>)[n]] BY ONLY <4>1
   <4> QED BY ONLY <4>2, <4>3, <4>4, <4>5
  <3> QED BY <2>9, <3>1
 <2>4. /\ (\A n \in 1..Len(m) : b[n] = <<i, m[n]>>) /\ b[Len(m) + 1] = <<i, v>>
       /\ b = [n \in 1..(Len(m) + 1) |-> b[n]] BY <2>9, <2>10 DEF p, y
 <2> HIDE DEF a, b
 <2>5. \A n \in 1..(Len(m) + 1) : n \in 1..Len(m) \/ n = Len(m) + 1 BY <1>1
 <2>6. \A n \in 1..(Len(m) + 1) : b[n] = <<i, a[n]>> BY <2>1, <2>4, <2>5
 <2>8. PairRows(i, a) = b BY <2>3, <2>4, <2>6
 <2> QED BY <2>8 DEF a, b, x
<1> QED BY <1>4, <1>5, <1>6

\* What a left row is asked for, as rows.
LEMMA AskedFacts ==
  ASSUME NEW R, NestedLoopConfigOK(nlCfg, R)
  PROVE  /\ \A i \in 1..Len(nlCfg.drives) : NestedLoopRows(i) \in Seq(NlRows(R)) /\ NlAsked[i] = NestedLoopRows(i)
         /\ \A i \in 0..Len(nlCfg.drives) : AskedUpto(i) \in Seq(NlRows(R))
         /\ \A i \in 1..Len(nlCfg.drives) : AskedUpto(i) = AskedUpto(i - 1) \o NestedLoopRows(i)
         /\ AskedUpto(0) = <<>>
         /\ AskedUpto(Len(nlCfg.drives)) = Concat(NlAsked)
         /\ \A m \in 0..Len(nlCfg.drives) : \E x \in Seq(NlRows(R)) : AskedUpto(Len(nlCfg.drives)) = AskedUpto(m) \o x
<1> DEFINE n == Len(nlCfg.drives)
<1>1. n \in Nat /\ DOMAIN nlCfg.drives = 1..n BY DEF NestedLoopConfigOK
<1>2. \A i \in 1..n : NlAsked[i] = NestedLoopRows(i) BY <1>1 DEF NlAsked
<1>3. ASSUME NEW i \in 1..n PROVE NestedLoopRows(i) \in Seq(NlRows(R))
 <2> DEFINE m == Partners(i, Len(nlCfg.drives[i]))
            x == <<i, IF isNest THEN <<>> ELSE 0>>
 <2>1. /\ Len(nlCfg.drives[i]) \in Nat /\ m \in Seq(R) /\ i \in Nat
       /\ NestedLoopRows(i) = IF m = <<>> THEN IF nlCfg.outer THEN <<x>> ELSE <<>>
                              ELSE IF isNest THEN << <<i, m>> >> ELSE PairRows(i, m) BY <1>1, DriveFacts
 <2> HIDE DEF m
 <2>2. PairRows(i, m) \in Seq(NlRows(R)) BY <2>1, PairFacts
 <2>3. x \in NlRows(R) /\ <<i, m>> \in NlRows(R)
  <3>1. <<>> \in Seq(R) OBVIOUS
  <3> QED BY <2>1, <3>1 DEF NlRows
 <2> HIDE DEF x
 <2>4. <<x>> \in Seq(NlRows(R)) /\ << <<i, m>> >> \in Seq(NlRows(R)) /\ <<>> \in Seq(NlRows(R)) BY <2>3
 <2> QED BY <2>1, <2>2, <2>4
<1>4. \A i \in 1..n : NlAsked[i] \in Seq(NlRows(R)) BY <1>2, <1>3
<1> HIDE DEF n
<1>5. \A i \in 0..n : AskedUpto(i) \in Seq(NlRows(R)) BY <1>1, <1>4, ConcatType DEF AskedUpto
<1>6. AskedUpto(0) = <<>> BY ConcatGrows DEF AskedUpto
<1>7. ASSUME NEW i \in 1..n PROVE AskedUpto(i) = AskedUpto(i - 1) \o NestedLoopRows(i)
 <2>1. i - 1 \in Nat /\ (i - 1) + 1 = i BY <1>1
 <2>2. Concat(Upto(NlAsked, (i - 1) + 1)) = Concat(Upto(NlAsked, i - 1)) \o NlAsked[(i - 1) + 1] BY <2>1, ConcatGrows
 <2> QED BY <1>2, <2>1, <2>2 DEF AskedUpto
<1>8. AskedUpto(n) = Concat(NlAsked) BY <1>1 DEF AskedUpto, Upto, NlAsked
<1>9. \A m \in 0..n : \E x \in Seq(NlRows(R)) : AskedUpto(n) = AskedUpto(m) \o x
 <2> DEFINE T == NlRows(R)
 <2>1. n \in Nat /\ \A i \in 1..n : NlAsked[i] \in Seq(T) BY <1>1, <1>4
 <2> HIDE DEF T
 <2>2. \A m \in 0..n : Begins(T, Concat(Upto(NlAsked, m)), Concat(Upto(NlAsked, n))) BY <2>1, ConcatPrefixes
 <2> QED BY <2>2 DEF AskedUpto, T, Begins
<1> QED BY <1>2, <1>3, <1>5, <1>6, <1>7, <1>8, <1>9 DEF n

\* The configuration is kept, and what it alone determines.
LEMMA LoopCfgKept ==
  ASSUME nlCfg' = nlCfg
  PROVE  /\ \A i : AskedUpto(i)' = AskedUpto(i) /\ NestedLoopRows(i)' = NestedLoopRows(i) /\ Matched(i)' = Matched(i)
         /\ \A i, j : Partners(i, j)' = Partners(i, j)
         /\ isNest' = isNest /\ \A r : Truthy(r)' = Truthy(r)
<1>1. isNest' = isNest /\ \A r : Truthy(r)' = Truthy(r) BY DEF isNest, Truthy, Unconditional
<1>2. \A i : Matched(i)' = Matched(i) /\ NestedLoopRows(i)' = NestedLoopRows(i) BY <1>1 DEF Matched, NestedLoopRows
<1>3. \A i, j : Partners(i, j)' = Partners(i, j) BY <1>2 DEF Partners
<1>4. NlAsked' = NlAsked BY <1>2 DEF NlAsked
<1>5. \A i : AskedUpto(i)' = AskedUpto(i) BY <1>4 DEF AskedUpto
<1> QED BY <1>1, <1>2, <1>3, <1>5

\* The next left row.
LEMMA LeftValsStep ==
  ASSUME NEW R, LoopInv(R), LeftVals
  PROVE  LoopInv(R)'
<1>1. /\ nlPc = "left" /\ nlI < Len(nlCfg.drives) /\ ~nlErr /\ nlI' = nlI + 1 /\ nlJ' = 0 /\ nlHad' = FALSE /\ nlNest' = <<>>
      /\ nlPc' = "right" /\ nlCfg' = nlCfg /\ nlOut' = nlOut /\ nlErr' = nlErr BY DEF LeftVals, HadInnerReset
<1>2. /\ NestedLoopConfigOK(nlCfg, R) /\ nlI \in 0..Len(nlCfg.drives) /\ nlOut \in Seq(NlRows(R)) /\ nlErr \in BOOLEAN
      /\ nlOut = AskedUpto(nlI) /\ \A k \in 1..nlI : k \notin nlCfg.fails BY <1>1 DEF LoopInv
<1> DEFINE i == nlI + 1
<1>3. Len(nlCfg.drives) \in Nat /\ i \in 1..Len(nlCfg.drives) /\ i - 1 = nlI /\ i \in Nat
  BY <1>1, <1>2 DEF NestedLoopConfigOK
<1>4. Len(nlCfg.drives[i]) \in Nat /\ Partners(i, 0) = <<>> BY <1>2, <1>3, DriveFacts
<1>5. nlOut = nlOut \o PairRows(i, <<>>)
 <2>1. PairRows(i, <<>>) = <<>> BY DEF PairRows
 <2> QED BY <1>2, <2>1
<1>6. /\ \A k : AskedUpto(k)' = AskedUpto(k) /\ \A h, j : Partners(h, j)' = Partners(h, j)
      /\ isNest' = isNest BY <1>1, LoopCfgKept
<1>7. Drive' = nlCfg.drives[i] BY <1>1 DEF Drive
<1>8. /\ Partners(nlI, nlJ)' = <<>> /\ AskedUpto(nlI - 1)' = nlOut
 <2>1. Partners(nlI, nlJ)' = Partners(i, 0) BY <1>1, LoopCfgKept DEF Partners, Matched, Truthy, Unconditional
 <2>2. AskedUpto(nlI - 1)' = AskedUpto(i - 1) BY <1>1, LoopCfgKept DEF AskedUpto, NlAsked
 <2> QED BY <1>2, <1>3, <1>4, <2>1, <2>2
<1>9. PairRows(nlI, Partners(nlI, nlJ))' = PairRows(i, <<>>) BY <1>1, <1>8 DEF PairRows
<1>10. i \in 1..Len(nlCfg.drives) /\ 0 \in 0..Len(nlCfg.drives[i]) /\ i \in 0..Len(nlCfg.drives) BY <1>3, <1>4
<1>11. \A k \in 1..(i - 1) : k \notin nlCfg.fails BY <1>2, <1>3
<1> HIDE DEF i
<1>12. nlI' = i BY <1>1 DEF i
<1>13. NestedLoopConfigOK(nlCfg, R)' BY <1>1, <1>2 DEF NestedLoopConfigOK
<1> QED BY <1>1, <1>2, <1>5, <1>6, <1>7, <1>8, <1>9, <1>10, <1>11, <1>12, <1>13 DEF LoopInv

\* A right row of the current left row.
LEMMA RightValsStep ==
  ASSUME NEW R, LoopInv(R), RightVals
  PROVE  LoopInv(R)'
<1> DEFINE i == nlI
           j == nlJ
           d == nlCfg.drives[i]
           r == d[j + 1]
           v == r[1]
           got == Partners(i, j)
           N == NlRows(R)
<1>1. /\ nlPc = "right" /\ j < Len(d) /\ nlJ' = j + 1 /\ nlCfg' = nlCfg /\ nlPc' = nlPc /\ nlI' = i /\ nlErr' = nlErr
      /\ Truthy(r) => /\ nlHad' = TRUE
                      /\ nlNest' = IF isNest THEN Append(nlNest, v) ELSE nlNest
                      /\ nlOut' = IF isNest THEN nlOut ELSE Append(nlOut, <<i, v>>)
      /\ ~Truthy(r) => nlHad' = nlHad /\ nlNest' = nlNest /\ nlOut' = nlOut BY DEF RightVals, Drive
<1>2. /\ NestedLoopConfigOK(nlCfg, R) /\ i \in 1..Len(nlCfg.drives) /\ i \in 0..Len(nlCfg.drives) /\ nlOut \in Seq(N) /\ nlErr \in BOOLEAN
      /\ j \in 0..Len(d) /\ ~nlErr /\ nlHad = (got # <<>>)
      /\ isNest => nlNest = got /\ nlOut = AskedUpto(i - 1)
      /\ ~isNest => nlOut = AskedUpto(i - 1) \o PairRows(i, got)
      /\ \A k \in 1..(i - 1) : k \notin nlCfg.fails BY <1>1 DEF LoopInv, Drive
<1>3. /\ Len(nlCfg.drives) \in Nat /\ Len(d) \in Nat /\ DOMAIN d = 1..Len(d)
      /\ \A n \in 1..Len(d) : d[n][1] \in R
      /\ \A n \in 0..Len(d) : Partners(i, n) \in Seq(R)
      /\ \A n \in 0..(Len(d) - 1) : Partners(i, n + 1) = Partners(i, n) \o Matched(i)[n + 1] BY <1>2, DriveFacts
<1>4. j + 1 \in 1..Len(d) /\ j + 1 \in 0..Len(d) /\ j \in 0..(Len(d) - 1) /\ i \in Nat BY <1>1, <1>2, <1>3
<1>5. v \in R /\ got \in Seq(R) /\ Partners(i, j + 1) = got \o (IF Truthy(r) THEN <<v>> ELSE <<>>)
 <2>1. Matched(i)[j + 1] = IF Truthy(r) THEN <<v>> ELSE <<>> BY <1>3, <1>4 DEF Matched
 <2> QED BY <1>2, <1>3, <1>4, <2>1
<1>6. AskedUpto(i - 1) \in Seq(N) /\ PairRows(i, got) \in Seq(N) /\ <<i, v>> \in N
 <2>1. i - 1 \in 0..Len(nlCfg.drives) BY <1>2, <1>3
 <2>2. AskedUpto(i - 1) \in Seq(N) BY <1>2, <2>1, AskedFacts
 <2>3. PairRows(i, got) \in Seq(N) BY <1>4, <1>5, PairFacts
 <2> QED BY <1>4, <1>5, <2>2, <2>3 DEF NlRows
<1> DEFINE more == Partners(i, j + 1)
<1> HIDE DEF got, more, N
<1>7. /\ nlHad' = (more # <<>>) /\ nlOut' \in Seq(N)
      /\ isNest => nlNest' = more /\ nlOut' = AskedUpto(i - 1)
      /\ ~isNest => nlOut' = AskedUpto(i - 1) \o PairRows(i, more)
 <2>1. CASE ~Truthy(r)
  <3>1. more = got
   <4>1. more = got \o <<>> BY <1>5, <2>1 DEF more
   <4> QED BY <1>5, <4>1
  <3> QED BY <1>1, <1>2, <2>1, <3>1
 <2>2. CASE Truthy(r)
  <3>1. more = got \o <<v>> BY <1>5, <2>2 DEF more
  <3>2. more # <<>> /\ Append(got, v) = more
   <4>1. v \in R /\ got \in Seq(R) BY <1>5
   <4> HIDE DEF v
   <4>2. got \o <<v>> # <<>> BY <4>1, OneMore
   <4>3. Append(got, v) = got \o <<v>> BY <4>1, OneMore
   <4> QED BY <3>1, <4>2, <4>3
  <3>3. PairRows(i, more) = PairRows(i, got) \o << <<i, v>> >> BY <1>4, <1>5, <3>1, PairFacts
  <3>4. CASE isNest BY <1>1, <1>2, <2>2, <3>2, <3>4
  <3>5. CASE ~isNest
   <4> DEFINE a == AskedUpto(i - 1)
              b == PairRows(i, got)
              y == <<i, v>>
   <4>1. a \in Seq(N) /\ b \in Seq(N) /\ y \in N /\ nlOut = a \o b /\ nlOut' = Append(nlOut, y)
     BY <1>1, <1>2, <1>6, <2>2, <3>5
   <4> HIDE DEF a, b, y
   <4>2. <<y>> \in Seq(N) BY <4>1
   <4>3. nlOut' = (a \o b) \o <<y>> /\ nlOut' \in Seq(N)
    <5> DEFINE ab == a \o b
    <5>1. ab \in Seq(N) /\ nlOut' = Append(ab, y) BY <4>1
    <5> HIDE DEF ab
    <5>2. ab \in Seq(N) /\ y \in N BY <4>1, <5>1
    <5>3. ab \o <<y>> \in Seq(N) /\ Append(ab, y) = ab \o <<y>> BY ONLY <5>2, OneMore
    <5> QED BY <5>1, <5>3 DEF ab
   <4>4. (a \o b) \o <<y>> = a \o (b \o <<y>>) BY <4>1, <4>2, ConcatAssociative
   <4>5. nlOut' = a \o PairRows(i, more) BY <3>3, <4>3, <4>4 DEF b, y
   <4> QED BY <1>1, <2>2, <3>2, <3>5, <4>3, <4>5 DEF a
  <3> QED BY <3>4, <3>5
 <2> QED BY <2>1, <2>2
<1>8. /\ Partners(nlI, nlJ)' = more /\ AskedUpto(nlI - 1)' = AskedUpto(i - 1) /\ isNest' = isNest /\ Drive' = d
 <2>1. Partners(nlI, nlJ)' = Partners(i, j + 1) BY <1>1, LoopCfgKept DEF Partners, Matched, Truthy, Unconditional
 <2>2. AskedUpto(nlI - 1)' = AskedUpto(i - 1) BY <1>1, LoopCfgKept DEF AskedUpto, NlAsked
 <2> QED BY <1>1, <2>1, <2>2, LoopCfgKept DEF more, Drive
<1>9. PairRows(nlI, Partners(nlI, nlJ))' = PairRows(i, more) BY <1>1, <1>8 DEF PairRows
<1>10. NestedLoopConfigOK(nlCfg, R)' /\ NlRows(R)' = N BY <1>1, <1>2 DEF NestedLoopConfigOK, N
<1> HIDE DEF i, j, d, r, v
<1>11. nlI' = i /\ nlI = i /\ nlJ' = j + 1 BY <1>1 DEF i, j
<1> QED BY <1>1, <1>2, <1>4, <1>7, <1>8, <1>9, <1>10, <1>11 DEF LoopInv, N

\* The end of the right rows, with an error or without.
LEMMA RightEndStep ==
  ASSUME NEW R, LoopInv(R), RightEnd
  PROVE  LoopInv(R)'
<1> DEFINE i == nlI
           d == nlCfg.drives[i]
           got == Partners(i, Len(d))
           N == NlRows(R)
           nest == IF isNest /\ nlNest # <<>> /\ ~nlErr' THEN << <<i, nlNest>> >> ELSE <<>>
           outer == IF OuterYields THEN << <<i, IF isNest THEN <<>> ELSE 0>> >> ELSE <<>>
<1>1. /\ nlPc = "right" /\ nlJ = Len(d) /\ nlErr' = (nlErr \/ i \in nlCfg.fails) /\ nlPc' = "left" /\ nlCfg' = nlCfg /\ nlI' = i
      /\ nlOut' = (nlOut \o nest) \o outer BY DEF RightEnd, Drive
<1>2. /\ NestedLoopConfigOK(nlCfg, R) /\ i \in 1..Len(nlCfg.drives) /\ i \in 0..Len(nlCfg.drives) /\ nlOut \in Seq(N) /\ nlErr \in BOOLEAN
      /\ ~nlErr /\ nlHad = (got # <<>>)
      /\ isNest => nlNest = got /\ nlOut = AskedUpto(i - 1)
      /\ ~isNest => nlOut = AskedUpto(i - 1) \o PairRows(i, got)
      /\ \A k \in 1..(i - 1) : k \notin nlCfg.fails BY <1>1 DEF LoopInv, Drive
<1>3. /\ Len(nlCfg.drives) \in Nat /\ Len(d) \in Nat /\ \A n \in 0..Len(d) : Partners(i, n) \in Seq(R)
      /\ NestedLoopRows(i) =
           IF got = <<>> THEN IF nlCfg.outer THEN << <<i, IF isNest THEN <<>> ELSE 0>> >> ELSE <<>>
           ELSE IF isNest THEN << <<i, got>> >> ELSE PairRows(i, got) BY <1>2, DriveFacts
<1>4. got \in Seq(R) /\ i \in Nat BY <1>2, <1>3
<1>5. /\ AskedUpto(i - 1) \in Seq(N) /\ NestedLoopRows(i) \in Seq(N) /\ AskedUpto(i) = AskedUpto(i - 1) \o NestedLoopRows(i)
      /\ PairRows(i, got) \in Seq(N) /\ PairRows(i, <<>>) = <<>>
 <2>1. i - 1 \in 0..Len(nlCfg.drives) BY <1>2, <1>3
 <2>2. AskedUpto(i - 1) \in Seq(N) /\ NestedLoopRows(i) \in Seq(N) /\ AskedUpto(i) = AskedUpto(i - 1) \o NestedLoopRows(i)
   BY <1>2, <2>1, AskedFacts
 <2> QED BY <1>4, <2>2, PairFacts
<1>6. OuterYields <=> nlCfg.outer /\ ~nlHad /\ ~nlErr' BY DEF OuterYields
<1> DEFINE base == AskedUpto(i - 1)
<1>7. \E x \in Seq(N) : AskedUpto(i) = nlOut' \o x /\ nlOut' \in Seq(N) /\ (~nlErr' => AskedUpto(i) = nlOut')
 <2> HIDE DEF got, N, base
 <2>0. base \in Seq(N) /\ (base \o <<>>) = base /\ <<>> \in Seq(N) BY <1>5 DEF base
 <2>1. CASE nlErr'
  <3>1. nest = <<>> /\ outer = <<>> BY <1>6, <2>1
  <3>2. nlOut' = nlOut
   <4>1. nlOut \in Seq(N) BY <1>2
   <4>2. nlOut \o <<>> = nlOut BY <4>1
   <4>3. nlOut' = (nlOut \o <<>>) \o <<>> BY <1>1, <3>1
   <4> QED BY <4>2, <4>3
  <3>3. CASE isNest BY <1>2, <1>5, <2>1, <3>2, <3>3 DEF base
  <3>4. CASE ~isNest /\ got = <<>>
   <4>1. nlOut' = base BY <1>2, <1>5, <2>0, <3>2, <3>4 DEF base
   <4> QED BY <1>2, <1>5, <2>1, <3>2, <4>1 DEF base
  <3>5. CASE ~isNest /\ got # <<>>
   <4>1. nlOut' = AskedUpto(i) BY <1>2, <1>3, <1>5, <3>2, <3>5
   <4>2. nlOut' \in Seq(N) /\ nlOut' = nlOut' \o <<>> BY <1>2, <3>2
   <4> QED BY <2>0, <4>1, <4>2
  <3> QED BY <3>3, <3>4, <3>5
 <2>2. CASE ~nlErr'
  <3>1. CASE got = <<>>
   <4>1. nest = <<>> /\ nlOut = base BY <1>2, <1>5, <2>0, <3>1 DEF base
   <4>2. outer = NestedLoopRows(i) BY <1>2, <1>3, <1>6, <2>2, <3>1
   <4>5. nlOut \o nest = base BY <2>0, <4>1
   <4>3. nlOut' = base \o NestedLoopRows(i) BY <1>1, <4>2, <4>5
   <4>4. AskedUpto(i) = nlOut' /\ AskedUpto(i) \in Seq(N) /\ nlOut' \o <<>> = nlOut'
    <5>1. AskedUpto(i) = nlOut' BY <1>5, <4>3 DEF base
    <5>2. AskedUpto(i) \in Seq(N)
     <6>1. base \o NestedLoopRows(i) \in Seq(N) BY <1>5 DEF base
     <6> QED BY <4>3, <5>1, <6>1
    <5>3. AskedUpto(i) \o <<>> = AskedUpto(i) BY <5>2
    <5> QED BY <5>1, <5>2, <5>3
   <4> QED BY <2>0, <4>4
  <3>2. CASE got # <<>>
   <4>1. outer = <<>> BY <1>2, <1>6, <3>2
   <4>2. nlOut \o nest = base \o NestedLoopRows(i)
    <5>1. CASE isNest
     <6>1. nest = NestedLoopRows(i) BY <1>2, <1>3, <2>2, <3>2, <5>1
     <6> QED BY <1>2, <5>1, <6>1 DEF base
    <5>2. CASE ~isNest
     <6>1. nest = <<>> /\ NestedLoopRows(i) = PairRows(i, got) BY <1>3, <3>2, <5>2
     <6>2. nlOut \o <<>> = nlOut BY <1>2
     <6> QED BY <1>2, <5>2, <6>1, <6>2 DEF base
    <5> QED BY <5>1, <5>2
   <4>3. AskedUpto(i) \in Seq(N) /\ AskedUpto(i) \o <<>> = AskedUpto(i) BY <1>5
   <4>4. nlOut' = AskedUpto(i) BY <1>1, <1>5, <4>1, <4>2, <4>3 DEF base
   <4> QED BY <2>0, <4>3, <4>4
  <3> QED BY <3>1, <3>2
 <2> QED BY <2>1, <2>2
<1>8. AskedUpto(nlI)' = AskedUpto(i) /\ NestedLoopConfigOK(nlCfg, R)' /\ NlRows(R)' = N
  BY <1>1, <1>2, LoopCfgKept DEF AskedUpto, NlAsked, NestedLoopConfigOK
<1>9. ~nlErr' => \A k \in 1..i : k \notin nlCfg.fails
 <2>1. \A k \in 1..i : k \in 1..(i - 1) \/ k = i BY <1>4
 <2> QED BY <1>1, <1>2, <2>1
<1>10. nlErr' => i \in nlCfg.fails BY <1>1, <1>2
<1>11. nlErr' \in BOOLEAN BY <1>1
<1> HIDE DEF i, nest, outer, N
<1>12. nlI' = i BY <1>1 DEF i
<1> QED BY <1>1, <1>2, <1>7, <1>8, <1>9, <1>10, <1>11, <1>12 DEF LoopInv

\* The end of the left side.
LEMMA LeftDoneStep ==
  ASSUME NEW R, LoopInv(R), LeftDone \/ UNCHANGED nestedLoopVars
  PROVE  LoopInv(R)'
<1>1. /\ nlCfg' = nlCfg /\ nlI' = nlI /\ nlJ' = nlJ /\ nlHad' = nlHad /\ nlNest' = nlNest /\ nlOut' = nlOut /\ nlErr' = nlErr
      /\ nlPc' = nlPc \/ (nlPc = "left" /\ nlPc' = "done" /\ (nlI = Len(nlCfg.drives) \/ nlErr))
  BY DEF LeftDone, nestedLoopVars
<1>2. /\ AskedUpto(nlI)' = AskedUpto(nlI) /\ AskedUpto(nlI - 1)' = AskedUpto(nlI - 1)
      /\ Partners(nlI, nlJ)' = Partners(nlI, nlJ) /\ isNest' = isNest /\ Drive' = Drive
  BY <1>1, LoopCfgKept DEF AskedUpto, NlAsked, Partners, Matched, Truthy, Unconditional, Drive
<1>3. PairRows(nlI, Partners(nlI, nlJ))' = PairRows(nlI, Partners(nlI, nlJ)) BY <1>1, <1>2 DEF PairRows
<1>4. NestedLoopConfigOK(nlCfg, R)' <=> NestedLoopConfigOK(nlCfg, R) BY <1>1 DEF NestedLoopConfigOK
<1>5. CASE nlPc' = nlPc BY <1>1, <1>2, <1>3, <1>4, <1>5 DEF LoopInv
<1>6. CASE nlPc = "left" /\ nlPc' = "done" /\ (nlI = Len(nlCfg.drives) \/ nlErr) BY <1>1, <1>2, <1>4, <1>6 DEF LoopInv
<1> QED BY <1>1, <1>5, <1>6

\* The initial states satisfy the invariant.
LEMMA LoopStarts ==
  ASSUME NEW R, NEW Cfgs, \A c \in Cfgs : NestedLoopConfigOK(c, R), NestedLoopInit(Cfgs)
  PROVE  LoopInv(R)
<1>1. NestedLoopConfigOK(nlCfg, R) /\ nlPc = "left" /\ nlI = 0 /\ nlOut = <<>> /\ nlErr = FALSE BY DEF NestedLoopInit
<1>2. Len(nlCfg.drives) \in Nat BY <1>1 DEF NestedLoopConfigOK
<1>3. AskedUpto(0) = <<>> BY <1>1, AskedFacts
<1>4. <<>> \in Seq(NlRows(R)) OBVIOUS
<1>5. 0 \in 0..Len(nlCfg.drives) /\ \A k \in 1..0 : k \notin nlCfg.fails BY <1>2
<1>6. nlOut \in Seq(NlRows(R)) /\ nlErr \in BOOLEAN /\ nlOut = AskedUpto(nlI) /\ nlI \in 0..Len(nlCfg.drives)
      /\ \A k \in 1..nlI : k \notin nlCfg.fails BY <1>1, <1>3, <1>4, <1>5
<1> QED BY <1>1, <1>6 DEF LoopInv

\* The invariant says that the loop is exact.
LEMMA LoopExact ==
  ASSUME NEW R, LoopInv(R)
  PROVE  NestedLoopExact
<1> SUFFICES ASSUME nlPc = "done"
             PROVE  /\ nlErr = (nlCfg.fails # {})
                    /\ IF nlErr THEN nlOut = SubSeq(Concat(NlAsked), 1, Len(nlOut)) ELSE nlOut = Concat(NlAsked)
  BY DEF NestedLoopExact, NlAsked
<1>1. /\ NestedLoopConfigOK(nlCfg, R) /\ nlI \in 0..Len(nlCfg.drives) /\ nlOut \in Seq(NlRows(R)) /\ nlErr \in BOOLEAN
      /\ ~nlErr => nlI = Len(nlCfg.drives) /\ nlOut = AskedUpto(nlI) /\ \A k \in 1..nlI : k \notin nlCfg.fails
      /\ nlErr => nlI \in nlCfg.fails /\ \E x \in Seq(NlRows(R)) : AskedUpto(nlI) = nlOut \o x BY DEF LoopInv
<1>2. AskedUpto(Len(nlCfg.drives)) = Concat(NlAsked) BY <1>1, AskedFacts
<1>3. CASE ~nlErr
 <2>1. nlCfg.fails = {} BY <1>1, <1>3 DEF NestedLoopConfigOK
 <2> QED BY <1>1, <1>2, <1>3, <2>1
<1>4. CASE nlErr
 <2>1. PICK x \in Seq(NlRows(R)) : AskedUpto(nlI) = nlOut \o x BY <1>1, <1>4
 <2>2. PICK y \in Seq(NlRows(R)) : AskedUpto(Len(nlCfg.drives)) = AskedUpto(nlI) \o y BY <1>1, AskedFacts
 <2> DEFINE N == NlRows(R)
 <2>3. nlOut \in Seq(N) /\ x \in Seq(N) /\ y \in Seq(N) BY <1>1
 <2> HIDE DEF N
 <2>4. Concat(NlAsked) = nlOut \o (x \o y) /\ x \o y \in Seq(N)
  <3>1. (nlOut \o x) \o y = nlOut \o (x \o y) BY <2>3, ConcatAssociative
  <3> QED BY <1>2, <2>1, <2>2, <2>3, <3>1
 <2>5. SubSeq(nlOut \o (x \o y), 1, Len(nlOut)) = nlOut BY <2>3, <2>4, PrefixOf
 <2> QED BY <1>1, <1>4, <2>4, <2>5
<1> QED BY <1>1, <1>3, <1>4

-----------------------------------------------------------------------------
(* How often a value occurs in a sequence.                                 *)

Times(s, x) == Cardinality({n \in DOMAIN s : s[n] = x})

\* A count is a number, zero for what does not occur.
LEMMA TimesType ==
  ASSUME NEW T, NEW s \in Seq(T), NEW x
  PROVE  /\ Times(s, x) \in Nat /\ IsFiniteSet({n \in 1..Len(s) : s[n] = x})
         /\ Times(s, x) = Cardinality({n \in 1..Len(s) : s[n] = x})
         /\ Times(s, x) = 0 <=> \A n \in 1..Len(s) : s[n] # x
<1> DEFINE S == {n \in 1..Len(s) : s[n] = x}
<1>1. Len(s) \in Nat /\ DOMAIN s = 1..Len(s) OBVIOUS
<1>2. Times(s, x) = Cardinality(S) BY <1>1 DEF Times
<1>3. IsFiniteSet(S)
 <2>1. 1 \in Int /\ Len(s) \in Int BY <1>1
 <2>2. IsFiniteSet(1..Len(s)) /\ S \subseteq 1..Len(s) BY <2>1, FS_Interval
 <2> QED BY <2>2, FS_Subset
<1>4. Cardinality(S) \in Nat /\ (Cardinality(S) = 0 <=> S = {}) BY <1>3, FS_CardinalityType, FS_EmptySet
<1>5. S = {} <=> \A n \in 1..Len(s) : s[n] # x OBVIOUS
<1> QED BY <1>2, <1>3, <1>4, <1>5

\* Nothing occurs in an empty sequence.
LEMMA TimesEmpty ==
  ASSUME NEW x
  PROVE  Times(<<>>, x) = 0
<1>1. {n \in DOMAIN <<>> : <<>>[n] = x} = {} OBVIOUS
<1>2. Cardinality({}) = 0 BY FS_EmptySet
<1> QED BY <1>1, <1>2 DEF Times

\* One element.
LEMMA TimesOne ==
  ASSUME NEW y, NEW x
  PROVE  Times(<<y>>, x) = IF y = x THEN 1 ELSE 0
<1> DEFINE s == <<y>>
<1>1. DOMAIN s = {1} /\ s[1] = y OBVIOUS
<1> HIDE DEF s
<1>2. Cardinality({}) = 0 /\ Cardinality({1}) = 1 BY FS_EmptySet, FS_Singleton
<1>3. CASE y = x
 <2>1. {n \in DOMAIN s : s[n] = x} = {1} BY <1>1, <1>3
 <2> QED BY <1>2, <1>3, <2>1 DEF Times, s
<1>4. CASE y # x
 <2>1. {n \in DOMAIN s : s[n] = x} = {} BY <1>1, <1>4
 <2> QED BY <1>2, <1>4, <2>1 DEF Times, s
<1> QED BY <1>3, <1>4

\* Two sequences, one after the other.
LEMMA TimesConcat ==
  ASSUME NEW T, NEW s \in Seq(T), NEW t \in Seq(T), NEW x
  PROVE  Times(s \o t, x) = Times(s, x) + Times(t, x)
<1> DEFINE u == s \o t
           m == Len(s)
           n == Len(t)
           A == {i \in 1..m : s[i] = x}
           B == {i \in 1..n : t[i] = x}
           C == {i \in 1..(m + n) : u[i] = x}
           D == {i + m : i \in B}
<1>1. /\ m \in Nat /\ n \in Nat /\ u \in Seq(T) /\ Len(u) = m + n
      /\ (\A i \in 1..m : u[i] = s[i]) /\ \A i \in 1..n : u[i + m] = t[i]
 <2>1. s \o t \in Seq(T) /\ Len(s \o t) = Len(s) + Len(t) OBVIOUS
 <2>2. \A i \in 1..m : u[i] = s[i] OBVIOUS
 <2>3. \A i \in 1..n : u[i + m] = t[i] OBVIOUS
 <2> QED BY <2>1, <2>2, <2>3
<1>2. /\ IsFiniteSet(A) /\ IsFiniteSet(B) /\ Times(s, x) = Cardinality(A) /\ Times(t, x) = Cardinality(B)
      /\ Times(u, x) = Cardinality(C) /\ Times(s, x) \in Nat /\ Times(t, x) \in Nat
 <2> HIDE DEF u
 <2>1. IsFiniteSet(A) /\ Times(s, x) = Cardinality(A) /\ Times(s, x) \in Nat BY TimesType
 <2>2. IsFiniteSet(B) /\ Times(t, x) = Cardinality(B) /\ Times(t, x) \in Nat BY TimesType
 <2>3. Times(u, x) = Cardinality({i \in 1..Len(u) : u[i] = x}) BY <1>1, TimesType
 <2> QED BY <1>1, <2>1, <2>2, <2>3
<1> HIDE DEF u, m, n
<1>3. C = A \cup D /\ A \cap D = {}
 <2>1. \A i \in C : i \in A \/ i \in D
  <3> SUFFICES ASSUME NEW i \in C, i \notin A PROVE i \in D OBVIOUS
  <3>1. i \in 1..(m + n) /\ ~(i \in 1..m) BY <1>1
  <3>2. i - m \in 1..n /\ (i - m) + m = i BY <1>1, <3>1
  <3>3. t[i - m] = x BY <1>1, <3>2
  <3> QED BY <3>2, <3>3
 <2>2. \A i \in A : i \in C BY <1>1
 <2>3. \A i \in B : i + m \in C /\ i + m \notin A BY <1>1
 <2> QED BY <2>1, <2>2, <2>3
<1>4. IsFiniteSet(D) /\ Cardinality(D) = Cardinality(B)
 <2> DEFINE f == [i \in B |-> i + m]
 <2>1. f \in Bijection(B, D)
  <3>1. f \in [B -> D] OBVIOUS
  <3>2. \A a, b \in B : f[a] = f[b] => a = b BY <1>1
  <3>3. \A d \in D : \E b \in B : f[b] = d OBVIOUS
  <3> QED BY <3>1, <3>2, <3>3, Fun_IsBij
 <2> HIDE DEF f, D, B
 <2>2. ExistsBijection(B, D) BY <2>1 DEF ExistsBijection
 <2> QED BY <1>2, <2>2, FS_Bijection
<1>5. Cardinality(C) = Cardinality(A) + Cardinality(D)
 <2>1. Cardinality(A \cup D) = Cardinality(A) + Cardinality(D) - Cardinality(A \cap D) BY <1>2, <1>4, FS_Union
 <2>2. Cardinality(A \cap D) = 0 BY <1>3, FS_EmptySet
 <2>3. Cardinality(C) = Cardinality(A \cup D) /\ Cardinality(A) \in Nat /\ Cardinality(B) \in Nat BY <1>2, <1>3
 <2>4. Cardinality(D) \in Nat BY <1>4, <2>3
 <2> HIDE DEF A, C, D
 <2> QED BY <2>1, <2>2, <2>3, <2>4
<1> QED BY <1>2, <1>4, <1>5 DEF u

\* One more element, after a sequence and before it.
LEMMA TimesUpto ==
  ASSUME NEW T, NEW s \in Seq(T), NEW n \in 0..(Len(s) - 1), NEW x
  PROVE  Times(Upto(s, n + 1), x) = Times(Upto(s, n), x) + (IF s[n + 1] = x THEN 1 ELSE 0)
<1> DEFINE a == Upto(s, n)
           v == s[n + 1]
<1>1. /\ n \in Nat /\ a \in Seq(T) /\ Len(a) = n /\ v \in T /\ n + 1 \in 1..Len(s)
      /\ \A i \in 1..n : a[i] = s[i] BY DEF Upto
<1>2. Upto(s, n + 1) = a \o <<v>>
 <2> DEFINE b == Upto(s, n + 1)
            c == a \o <<v>>
 <2>1. /\ b \in Seq(T) /\ Len(b) = n + 1 /\ \A i \in 1..(n + 1) : b[i] = s[i] BY <1>1 DEF Upto
 <2>2. /\ c \in Seq(T) /\ Len(c) = n + 1 /\ (\A i \in 1..n : c[i] = s[i]) /\ c[n + 1] = s[n + 1]
  <3> HIDE DEF a
  <3>1. c \in Seq(T) /\ Len(c) = n + 1 BY <1>1
  <3>2. \A i \in 1..n : c[i] = a[i] BY <1>1
  <3>3. c[n + 1] = v BY <1>1
  <3> QED BY <1>1, <3>1, <3>2, <3>3
 <2> HIDE DEF b, c
 <2>3. \A i \in 1..(n + 1) : i \in 1..n \/ i = n + 1 BY <1>1
 <2>4. \A i \in 1..(n + 1) : b[i] = c[i] BY <2>1, <2>2, <2>3
 <2> QED BY <2>1, <2>2, <2>4, SeqEqual DEF b, c
<1> HIDE DEF a, v
<1>3. <<v>> \in Seq(T) BY <1>1
<1>4. Times(a \o <<v>>, x) = Times(a, x) + Times(<<v>>, x) BY <1>1, <1>3, TimesConcat
<1>5. Times(<<v>>, x) = IF v = x THEN 1 ELSE 0 BY TimesOne
<1> QED BY <1>2, <1>4, <1>5 DEF a, v

\* Nothing occurs in the first none.
LEMMA UptoNone ==
  ASSUME NEW s, NEW x
  PROVE  Times(Upto(s, 0), x) = 0
<1>1. {n \in DOMAIN Upto(s, 0) : Upto(s, 0)[n] = x} = {} BY DEF Upto
<1>2. Cardinality({}) = 0 BY FS_EmptySet
<1> QED BY <1>1, <1>2 DEF Times

\* A row for each element of a chain.
RowsOf(c, j) == [n \in DOMAIN c |-> <<c[n], j>>]

\* How often each of them occurs.
LEMMA TimesPairs ==
  ASSUME NEW c \in Seq(Nat), NEW j, NEW i, NEW h
  PROVE  Times(RowsOf(c, j), <<i, h>>) = IF h = j THEN Times(c, i) ELSE 0
<1> DEFINE s == RowsOf(c, j)
<1>1. DOMAIN s = DOMAIN c /\ \A n \in DOMAIN c : s[n] = <<i, h>> <=> c[n] = i /\ j = h BY DEF RowsOf
<1> HIDE DEF s
<1>2. CASE h = j
 <2>1. {n \in DOMAIN s : s[n] = <<i, h>>} = {n \in DOMAIN c : c[n] = i} BY <1>1, <1>2
 <2> QED BY <1>2, <2>1 DEF Times, s
<1>3. CASE h # j
 <2>1. {n \in DOMAIN s : s[n] = <<i, h>>} = {} BY <1>1, <1>3
 <2> QED BY <1>3, <2>1, FS_EmptySet DEF Times, s
<1> QED BY <1>2, <1>3

\* The same row m times.
LEMMA TimesRepeat ==
  ASSUME NEW m \in Int, NEW k, NEW x
  PROVE  Times([n \in 1..m |-> <<k>>], <<x>>) = IF x = k /\ m > 0 THEN m ELSE 0
<1> DEFINE s == [n \in 1..m |-> <<k>>]
<1>1. DOMAIN s = 1..m /\ \A n \in 1..m : s[n] = <<x>> <=> x = k OBVIOUS
<1> HIDE DEF s
<1>2. Cardinality({}) = 0 /\ Cardinality(1..m) = IF m > 0 THEN m ELSE 0
 <2>1. 1 \in Int OBVIOUS
 <2>2. Cardinality(1..m) = IF 1 > m THEN 0 ELSE m - 1 + 1 BY <2>1, FS_Interval
 <2> QED BY <2>2, FS_EmptySet
<1>3. CASE x = k
 <2>1. {n \in DOMAIN s : s[n] = <<x>>} = 1..m BY <1>1, <1>3
 <2> QED BY <1>2, <1>3, <2>1 DEF Times, s
<1>4. CASE x # k
 <2>1. {n \in DOMAIN s : s[n] = <<x>>} = {} BY <1>1, <1>4
 <2> QED BY <1>2, <1>4, <2>1 DEF Times, s
<1> QED BY <1>3, <1>4

-----------------------------------------------------------------------------
(* The hash join and the set operators.                                    *)

\* Two sides of rows with keys of Keys.
HashJoinConfigOK(c, Keys) ==
  /\ c.kind \in {"joinHash-inner", "joinHash-leftOuter", "intersect-all", "intersect-distinct", "except-all", "except-distinct"}
  /\ c.left \in Seq(Keys) /\ c.right \in Seq(Keys)

HjRows(Keys) == (Nat \X Nat) \cup {<<k>> : k \in Keys}
HjEntries == [joins : Nat, lefts : Nat, chain : Seq(Nat)]

\* The rows taken from either side.
Filled == IF hjPc = "fill" THEN hjI ELSE Len(hjLeft)
Probed == IF hjPc = "fill" THEN 0 ELSE hjI

\* The matches that an entry counts after p right rows.
JoinsOf(k, p) == IF joinCount /\ ValHasValue(k) THEN Times(Upto(hjRight, p), k) ELSE 0

\* The entry of key k after f left rows and p right rows.
EntryIs(e, k, f, p) ==
  /\ e \in HjEntries
  /\ e.lefts = Times(Upto(hjLeft, f), k)
  /\ e.joins = JoinsOf(k, p)
  /\ \A i \in 1..Len(hjLeft) : Times(e.chain, i) = IF i <= f /\ hjLeft[i] = k THEN 1 ELSE 0
  /\ \A n \in DOMAIN e.chain : e.chain[n] \in 1..Len(hjLeft)

MapIs(f, p) ==
  /\ hjMap = [k \in DOMAIN hjMap |-> hjMap[k]]
  /\ DOMAIN hjMap = {hjLeft[i] : i \in {h \in 1..f : KeyOK(hjLeft[h])}}
  /\ \A k \in DOMAIN hjMap : EntryIs(hjMap[k], k, f, p)

\* Left row i and right row j have equal keys with a value.
Mates(i, j) == hjLeft[i] = hjRight[j] /\ ValHasValue(hjLeft[i])
Unjoined(i) == hjLeft[i] \in hjVisited /\ hjMap[hjLeft[i]].joins = 0

\* What a join has yielded after p right rows.
JoinOut(p) ==
  isJoin =>
    /\ \A n \in DOMAIN hjOut : hjOut[n][1] \in 1..Len(hjLeft)
    /\ \A i \in 1..Len(hjLeft), j \in 1..Len(hjRight) :
         Times(hjOut, <<i, j>>) = IF j <= p /\ Mates(i, j) THEN 1 ELSE 0
    /\ \A i \in 1..Len(hjLeft) : Times(hjOut, <<i, 0>>) = IF Unjoined(i) THEN 1 ELSE 0

\* What a set operator has yielded of key k after p right rows: INTERSECT in
\* the course of them, EXCEPT when it has visited the key.
Due(k, p) ==
  LET m == Times(hjLeft, k)
      n == Times(Upto(hjRight, p), k)
  IN IF opIntersect THEN IF leftCount THEN IF n <= m THEN n ELSE m
                         ELSE IF m > 0 /\ n > 0 THEN 1 ELSE 0
     ELSE IF k \notin hjVisited THEN 0
     ELSE IF leftCount THEN IF n <= m THEN m - n ELSE 0
     ELSE IF n = 0 THEN 1 ELSE 0

SetOut(Keys, p) ==
  ~isJoin /\ hjCfg.labels % 256 # 110 => \A k \in Keys : Times(hjOut, <<k>>) = Due(k, p)

HashPhase ==
  /\ hjPc \in {"fill", "probe", "visit", "done"} /\ hjI \in Nat /\ hjVisited \subseteq DOMAIN hjMap
  /\ hjPc = "fill" => hjI <= Len(hjLeft)
  /\ hjPc = "probe" => hjI <= Len(hjRight)
  /\ hjPc \in {"fill", "probe"} \/ ~yieldsUnjoined => hjVisited = {}
  /\ hjPc = "visit" => yieldsUnjoined /\ hjI = Len(hjRight)
  /\ hjPc = "done" /\ hjErr = "none" => hjI = Len(hjRight) /\ (yieldsUnjoined => hjVisited = DOMAIN hjMap)

HashInv(Keys) ==
  /\ HashJoinConfigOK(hjCfg, Keys)
  /\ hjOut \in Seq(HjRows(Keys))
  /\ HashPhase
  /\ MapIs(Filled, Probed)
  /\ JoinOut(Probed)
  /\ SetOut(Keys, Probed)

\* The sides of a configuration.
LEMMA SideFacts ==
  ASSUME NEW Keys, HashJoinConfigOK(hjCfg, Keys)
  PROVE  /\ hjLeft \in Seq(Keys) /\ Len(hjLeft) \in Nat /\ DOMAIN hjLeft = 1..Len(hjLeft)
         /\ hjRight \in Seq(Keys) /\ Len(hjRight) \in Nat /\ DOMAIN hjRight = 1..Len(hjRight)
         /\ \A i \in 1..Len(hjLeft) : hjLeft[i] \in Keys
         /\ \A j \in 1..Len(hjRight) : hjRight[j] \in Keys
<1>1. hjLeft \in Seq(Keys) /\ hjRight \in Seq(Keys) BY DEF HashJoinConfigOK, hjLeft, hjRight
<1> HIDE DEF hjLeft, hjRight
<1> QED BY <1>1

\* The configuration is kept, and what it alone determines.
LEMMA HashCfgKept ==
  ASSUME hjCfg' = hjCfg
  PROVE  /\ hjLeft' = hjLeft /\ hjRight' = hjRight /\ isJoin' = isJoin /\ joinCount' = joinCount /\ leftCount' = leftCount
         /\ opIntersect' = opIntersect /\ yieldsUnjoined' = yieldsUnjoined
         /\ \A k : KeyOK(k)' = KeyOK(k) /\ ValHasValue(k)' = ValHasValue(k) /\ CanonicalErr(k)' = CanonicalErr(k)
         /\ \A e, k, f, p : EntryIs(e, k, f, p)' = EntryIs(e, k, f, p)
         /\ \A i, j : Mates(i, j)' = Mates(i, j)
<1>1. /\ hjLeft' = hjLeft /\ hjRight' = hjRight /\ isJoin' = isJoin /\ joinCount' = joinCount /\ leftCount' = leftCount
      /\ opIntersect' = opIntersect /\ yieldsUnjoined' = yieldsUnjoined
  BY DEF hjLeft, hjRight, isJoin, joinCount, leftCount, opIntersect, yieldsUnjoined
<1>2. \A k : ValHasValue(k)' = ValHasValue(k) /\ CanonicalErr(k)' = CanonicalErr(k)
  BY <1>1 DEF ValHasValue, CanonicalErr
<1>3. \A k : KeyOK(k)' = KeyOK(k) BY <1>2 DEF KeyOK
<1>4. \A k, p : JoinsOf(k, p)' = JoinsOf(k, p) BY <1>1, <1>2 DEF JoinsOf
<1>5. \A e, k, f, p : EntryIs(e, k, f, p)' = EntryIs(e, k, f, p) BY <1>1, <1>4 DEF EntryIs
<1>6. \A i, j : Mates(i, j)' = Mates(i, j) BY <1>1, <1>2 DEF Mates
<1> QED BY <1>1, <1>2, <1>3, <1>5, <1>6

\* An entry without rows.
LEMMA EntryNone ==
  ASSUME NEW Keys, HashJoinConfigOK(hjCfg, Keys), NEW f \in 0..Len(hjLeft), NEW k, \A i \in 1..f : hjLeft[i] # k
  PROVE  EntryIs([joins |-> 0, lefts |-> 0, chain |-> <<>>], k, f, 0)
<1> DEFINE e == [joins |-> 0, lefts |-> 0, chain |-> <<>>]
<1>1. hjLeft \in Seq(Keys) /\ Len(hjLeft) \in Nat BY SideFacts
<1>2. Times(Upto(hjLeft, f), k) = 0
 <2> DEFINE s == Upto(hjLeft, f)
 <2>1. s \in Seq(Keys) /\ Len(s) = f /\ \A i \in 1..f : s[i] = hjLeft[i] BY <1>1 DEF Upto
 <2> HIDE DEF s
 <2>2. \A n \in 1..Len(s) : s[n] # k BY <2>1
 <2>3. Times(s, k) = 0 BY <2>1, <2>2, TimesType
 <2> QED BY <2>3 DEF s
<1>3. JoinsOf(k, 0) = 0 BY UptoNone DEF JoinsOf
<1>4. e \in HjEntries /\ e.chain = <<>> /\ e.lefts = 0 /\ e.joins = 0
 <2>1. <<>> \in Seq(Nat) OBVIOUS
 <2> QED BY <2>1 DEF HjEntries
<1>5. \A i \in 1..Len(hjLeft) : Times(e.chain, i) = IF i <= f /\ hjLeft[i] = k THEN 1 ELSE 0
 <2> SUFFICES ASSUME NEW i \in 1..Len(hjLeft) PROVE Times(e.chain, i) = IF i <= f /\ hjLeft[i] = k THEN 1 ELSE 0
   OBVIOUS
 <2>1. i <= f => i \in 1..f BY <1>1
 <2>2. Times(e.chain, i) = 0 BY <1>4, TimesEmpty
 <2> QED BY <2>1, <2>2
<1> HIDE DEF e
<1>6. \A n \in DOMAIN e.chain : e.chain[n] \in 1..Len(hjLeft) BY <1>4
<1> QED BY <1>2, <1>3, <1>4, <1>5, <1>6 DEF EntryIs, e

\* A left row of another key leaves an entry as it is.
LEMMA EntryOther ==
  ASSUME NEW Keys, HashJoinConfigOK(hjCfg, Keys), NEW f \in 0..(Len(hjLeft) - 1), NEW k, NEW e, NEW p, EntryIs(e, k, f, p), hjLeft[f + 1] # k
  PROVE  EntryIs(e, k, f + 1, p)
<1>1. hjLeft \in Seq(Keys) /\ Len(hjLeft) \in Nat BY SideFacts
<1>2. Times(Upto(hjLeft, f + 1), k) = Times(Upto(hjLeft, f), k) + 0 BY <1>1, TimesUpto
<1>3. \A i \in 1..Len(hjLeft) : (i <= f + 1 /\ hjLeft[i] = k) <=> (i <= f /\ hjLeft[i] = k)
 <2>1. \A i \in 1..Len(hjLeft) : i <= f + 1 <=> i <= f \/ i = f + 1 BY <1>1
 <2> QED BY <2>1
<1>4. e.lefts = Times(Upto(hjLeft, f), k) /\ e.lefts \in Nat BY DEF EntryIs, HjEntries
<1>5. e.lefts = Times(Upto(hjLeft, f + 1), k) BY <1>2, <1>4
<1> QED BY <1>3, <1>5 DEF EntryIs

\* A left row of the key makes its chain and its count longer.
LEMMA EntryMore ==
  ASSUME NEW Keys, HashJoinConfigOK(hjCfg, Keys), NEW f \in 0..(Len(hjLeft) - 1), NEW k, NEW e, EntryIs(e, k, f, 0), hjLeft[f + 1] = k
  PROVE  EntryIs([joins |-> 0, lefts |-> e.lefts + 1, chain |-> <<f + 1>> \o e.chain], k, f + 1, 0)
<1> DEFINE g == [joins |-> 0, lefts |-> e.lefts + 1, chain |-> <<f + 1>> \o e.chain]
           c == e.chain
           d == <<f + 1>> \o c
<1>1. hjLeft \in Seq(Keys) /\ Len(hjLeft) \in Nat /\ f \in Nat /\ f + 1 \in Nat /\ f + 1 \in 1..Len(hjLeft) BY SideFacts
<1>2. Times(Upto(hjLeft, f + 1), k) = Times(Upto(hjLeft, f), k) + 1 BY <1>1, TimesUpto
<1>3. /\ e.lefts = Times(Upto(hjLeft, f), k) /\ e.lefts \in Nat /\ c \in Seq(Nat)
      /\ \A i \in 1..Len(hjLeft) : Times(c, i) = IF i <= f /\ hjLeft[i] = k THEN 1 ELSE 0
      /\ \A n \in DOMAIN c : c[n] \in 1..Len(hjLeft) BY DEF EntryIs, HjEntries
<1> HIDE DEF c
<1>4. <<f + 1>> \in Seq(Nat) BY <1>1
<1>5. d \in Seq(Nat) BY <1>3, <1>4
<1>6. g \in HjEntries /\ g.joins = 0 /\ g.lefts = e.lefts + 1 /\ g.chain = d BY <1>3, <1>5 DEF HjEntries, c
<1>7. JoinsOf(k, 0) = 0 BY UptoNone DEF JoinsOf
<1>8. ASSUME NEW i \in 1..Len(hjLeft) PROVE Times(d, i) = IF i <= f + 1 /\ hjLeft[i] = k THEN 1 ELSE 0
 <2>1. Times(d, i) = Times(<<f + 1>>, i) + Times(c, i)
  <3> DEFINE a == <<f + 1>>
  <3>1. a \in Seq(Nat) /\ c \in Seq(Nat) BY <1>3, <1>4
  <3> HIDE DEF a
  <3>2. Times(a \o c, i) = Times(a, i) + Times(c, i) BY <3>1, TimesConcat
  <3> QED BY <3>2 DEF a
 <2>2. Times(<<f + 1>>, i) = IF f + 1 = i THEN 1 ELSE 0 BY TimesOne
 <2>3. i <= f + 1 <=> i <= f \/ i = f + 1 BY <1>1
 <2>4. ~(i <= f /\ i = f + 1) BY <1>1
 <2>5. CASE i = f + 1 BY <1>3, <2>1, <2>2, <2>3, <2>4, <2>5
 <2>6. CASE i # f + 1 BY <1>3, <2>1, <2>2, <2>3, <2>6
 <2> QED BY <2>5, <2>6
<1>9. \A n \in DOMAIN d : d[n] \in 1..Len(hjLeft)
 <2>1. /\ Len(c) \in Nat /\ DOMAIN c = 1..Len(c) /\ Len(d) = Len(c) + 1 /\ DOMAIN d = 1..(Len(c) + 1) /\ d[1] = f + 1
       /\ \A n \in 2..(Len(c) + 1) : d[n] = c[n - 1] BY <1>1, <1>3
 <2> HIDE DEF d
 <2>2. \A n \in 1..(Len(c) + 1) : n = 1 \/ (n \in 2..(Len(c) + 1) /\ n - 1 \in 1..Len(c)) BY <2>1
 <2> QED BY <1>1, <1>3, <2>1, <2>2
<1> HIDE DEF g, d
<1>10. g.lefts = Times(Upto(hjLeft, f + 1), k) BY <1>2, <1>3, <1>6
<1>11. EntryIs(g, k, f + 1, 0) BY <1>6, <1>7, <1>8, <1>9, <1>10 DEF EntryIs
<1> QED BY <1>11 DEF g

\* The matches of a key grow by the right rows that have it.
LEMMA JoinsGrow ==
  ASSUME NEW Keys, HashJoinConfigOK(hjCfg, Keys), NEW p \in 0..(Len(hjRight) - 1), NEW k
  PROVE  /\ JoinsOf(k, p) \in Nat
         /\ JoinsOf(k, p + 1) = JoinsOf(k, p) + (IF joinCount /\ ValHasValue(k) /\ hjRight[p + 1] = k THEN 1 ELSE 0)
<1>1. hjRight \in Seq(Keys) /\ Len(hjRight) \in Nat BY SideFacts
<1>2. Times(Upto(hjRight, p + 1), k) = Times(Upto(hjRight, p), k) + IF hjRight[p + 1] = k THEN 1 ELSE 0
  BY <1>1, TimesUpto
<1>3. Times(Upto(hjRight, p), k) \in Nat
 <2>1. Upto(hjRight, p) \in Seq(Keys) BY <1>1 DEF Upto
 <2> QED BY <2>1, TimesType
<1> QED BY <1>2, <1>3 DEF JoinsOf

\* A right row of the key counts as a match.
LEMMA EntryProbed ==
  ASSUME NEW Keys, HashJoinConfigOK(hjCfg, Keys), NEW p \in 0..(Len(hjRight) - 1), NEW k, NEW e, NEW f, EntryIs(e, k, f, p)
  PROVE  IF joinCount /\ ValHasValue(k) /\ hjRight[p + 1] = k THEN EntryIs([e EXCEPT !.joins = @ + 1], k, f, p + 1)
         ELSE EntryIs(e, k, f, p + 1)
<1> DEFINE g == [e EXCEPT !.joins = @ + 1]
<1>1. /\ JoinsOf(k, p) \in Nat
      /\ JoinsOf(k, p + 1) = JoinsOf(k, p) + (IF joinCount /\ ValHasValue(k) /\ hjRight[p + 1] = k THEN 1 ELSE 0)
  BY JoinsGrow
<1>2. e \in HjEntries /\ e.joins = JoinsOf(k, p) BY DEF EntryIs
<1>3. CASE joinCount /\ ValHasValue(k) /\ hjRight[p + 1] = k
 <2>1. g \in HjEntries /\ g.joins = e.joins + 1 /\ g.lefts = e.lefts /\ g.chain = e.chain BY <1>2 DEF HjEntries
 <2> HIDE DEF g
 <2>2. g.joins = JoinsOf(k, p + 1) BY <1>1, <1>2, <1>3, <2>1
 <2>3. EntryIs(g, k, f, p + 1) BY <2>1, <2>2 DEF EntryIs
 <2> QED BY <1>3, <2>3 DEF g
<1>4. CASE ~(joinCount /\ ValHasValue(k) /\ hjRight[p + 1] = k)
 <2>1. JoinsOf(k, p + 1) = JoinsOf(k, p) BY <1>1, <1>4
 <2>2. EntryIs(e, k, f, p + 1) BY <1>2, <2>1 DEF EntryIs
 <2> QED BY <1>4, <2>2
<1> QED BY <1>3, <1>4

\* The probe map while the left side fills it.
LEMMA FillMapStep ==
  ASSUME NEW Keys, NEW f \in 0..(Len(hjLeft) - 1), HashJoinConfigOK(hjCfg, Keys), MapIs(f, 0), hjI = f, FillProbeMap
  PROVE  MapIs(f + 1, 0)'
<1> DEFINE i == f + 1
           k == hjLeft[f + 1]
           old == IF k \in DOMAIN hjMap THEN hjMap[k] ELSE [joins |-> 0, lefts |-> 0, chain |-> <<>>]
           new == [joins |-> 0, lefts |-> old.lefts + 1, chain |-> <<i>> \o old.chain]
           D == DOMAIN hjMap
           E == DOMAIN hjMap \cup {k}
<1>1. /\ hjCfg' = hjCfg
      /\ hjMap' = IF KeyOK(k) THEN [x \in E |-> IF x = k THEN new ELSE hjMap[x]] ELSE hjMap BY DEF FillProbeMap
<1>2. hjLeft' = hjLeft /\ (\A x : KeyOK(x)' = KeyOK(x)) /\ \A e, x, g, p : EntryIs(e, x, g, p)' = EntryIs(e, x, g, p)
  BY <1>1, HashCfgKept
<1>3. /\ hjMap = [x \in D |-> hjMap[x]]
      /\ D = {hjLeft[h] : h \in {h \in 1..f : KeyOK(hjLeft[h])}}
      /\ \A x \in D : EntryIs(hjMap[x], x, f, 0) BY DEF MapIs
<1>4. Len(hjLeft) \in Nat /\ f \in Nat /\ i \in 1..Len(hjLeft) /\ f \in 0..Len(hjLeft)
      /\ \A h \in 1..i : h \in 1..f \/ h = i BY SideFacts
<1>5. /\ (\A h \in 1..f : h \in 1..i) /\ i \in 1..i BY <1>4
<1> DEFINE B == {hjLeft[h] : h \in {h \in 1..i : KeyOK(hjLeft[h])}}
<1>6. B = IF KeyOK(k) THEN E ELSE D
 <2> HIDE DEF D
 <2>1. \A x \in D : x \in B BY <1>3, <1>5
 <2>2. \A x \in B : x \in D \/ (x = k /\ KeyOK(k)) BY <1>3, <1>4
 <2>3. KeyOK(k) => k \in B BY <1>5
 <2> QED BY <2>1, <2>2, <2>3 DEF D
<1>7. \A x \in D : KeyOK(x) BY <1>3
<1>8. SUFFICES /\ hjMap' = [x \in DOMAIN hjMap' |-> hjMap'[x]]
               /\ DOMAIN hjMap' = B
               /\ \A x \in DOMAIN hjMap' : EntryIs(hjMap'[x], x, i, 0) BY <1>2 DEF MapIs
<1> HIDE DEF B
<1>9. CASE ~KeyOK(k)
 <2>1. hjMap' = hjMap BY <1>1, <1>9
 <2>2. \A x \in D : EntryIs(hjMap[x], x, i, 0)
  <3> SUFFICES ASSUME NEW x \in D PROVE EntryIs(hjMap[x], x, i, 0) OBVIOUS
  <3>1. k # x BY <1>7, <1>9
  <3> QED BY <1>3, <3>1, EntryOther
 <2> QED BY <1>3, <1>6, <1>9, <2>1, <2>2
<1>10. CASE KeyOK(k)
 <2>1. hjMap' = [x \in E |-> IF x = k THEN new ELSE hjMap[x]] BY <1>1, <1>10
 <2>2. DOMAIN hjMap' = E /\ hjMap'[k] = new /\ \A x \in E : x # k => hjMap'[x] = hjMap[x] BY <2>1
 <2>3. \A x \in E : x # k => EntryIs(hjMap'[x], x, i, 0)
  <3> SUFFICES ASSUME NEW x \in E, x # k PROVE EntryIs(hjMap'[x], x, i, 0) OBVIOUS
  <3>1. EntryIs(hjMap[x], x, f, 0) BY <1>3
  <3>2. EntryIs(hjMap[x], x, i, 0) BY <3>1, EntryOther
  <3> QED BY <2>2, <3>2
 <2>4. EntryIs(old, k, f, 0)
  <3>1. CASE k \in D BY <1>3, <3>1
  <3>2. CASE k \notin D
   <4>1. \A h \in 1..f : hjLeft[h] # k BY <1>3, <1>10, <3>2
   <4>2. EntryIs([joins |-> 0, lefts |-> 0, chain |-> <<>>], k, f, 0) BY <1>4, <4>1, EntryNone
   <4> QED BY <3>2, <4>2
  <3> QED BY <3>1, <3>2
 <2>5. EntryIs(new, k, i, 0)
  <3> HIDE DEF old
  <3>1. EntryIs(old, k, f, 0) /\ hjLeft[f + 1] = k BY <2>4
  <3> QED BY <3>1, EntryMore
 <2>6. hjMap' = [x \in DOMAIN hjMap' |-> hjMap'[x]] BY <2>1
 <2> HIDE DEF new, E
 <2>7. \A x \in DOMAIN hjMap' : EntryIs(hjMap'[x], x, i, 0) BY <2>2, <2>3, <2>5
 <2> QED BY <1>6, <1>10, <2>2, <2>6, <2>7
<1> QED BY <1>9, <1>10

\* The probe map while right rows match its entries.
LEMMA ProbeMapStep ==
  ASSUME NEW Keys, NEW f, NEW p \in 0..(Len(hjRight) - 1), HashJoinConfigOK(hjCfg, Keys), MapIs(f, p), hjI = p, Probe
  PROVE  MapIs(f, p + 1)'
<1> DEFINE k == hjRight[p + 1]
           hit == ~CanonicalErr(k) /\ ValHasValue(k) /\ k \in DOMAIN hjMap
           D == DOMAIN hjMap
<1>1. /\ hjCfg' = hjCfg
      /\ hjMap' = IF hit /\ joinCount THEN [hjMap EXCEPT ![k].joins = @ + 1] ELSE hjMap BY DEF Probe
<1>2. hjLeft' = hjLeft /\ (\A x : KeyOK(x)' = KeyOK(x)) /\ \A e, x, g, q : EntryIs(e, x, g, q)' = EntryIs(e, x, g, q)
  BY <1>1, HashCfgKept
<1>3. /\ hjMap = [x \in D |-> hjMap[x]]
      /\ D = {hjLeft[h] : h \in {h \in 1..f : KeyOK(hjLeft[h])}}
      /\ \A x \in D : EntryIs(hjMap[x], x, f, p) BY DEF MapIs
<1>4. hit <=> ValHasValue(k) /\ k \in D
 <2>1. \A x \in D : ~CanonicalErr(x) BY <1>3 DEF KeyOK
 <2> QED BY <2>1
<1>5. \A x \in D : IF joinCount /\ ValHasValue(x) /\ k = x THEN EntryIs([hjMap[x] EXCEPT !.joins = @ + 1], x, f, p + 1)
                   ELSE EntryIs(hjMap[x], x, f, p + 1) BY <1>3, EntryProbed
<1> HIDE DEF hit
<1>6. /\ hjMap' = [x \in D |-> hjMap'[x]] /\ DOMAIN hjMap' = D
      /\ \A x \in D : hjMap'[x] = IF joinCount /\ ValHasValue(x) /\ k = x THEN [hjMap[x] EXCEPT !.joins = @ + 1] ELSE hjMap[x]
 <2>1. CASE hit /\ joinCount
  <3>1. k \in D /\ ValHasValue(k) /\ hjMap' = [hjMap EXCEPT ![k].joins = @ + 1] BY <1>1, <1>4, <2>1
  <3>2. hjMap' = [hjMap EXCEPT ![k] = [hjMap[k] EXCEPT !.joins = @ + 1]] BY <3>1
  <3>3. hjMap' = [x \in D |-> IF x = k THEN [hjMap[k] EXCEPT !.joins = @ + 1] ELSE hjMap[x]] BY <1>3, <3>2
  <3>4. \A x \in D : hjMap'[x] = IF x = k THEN [hjMap[k] EXCEPT !.joins = @ + 1] ELSE hjMap[x] BY <3>3
  <3>5. hjMap' = [x \in D |-> hjMap'[x]] /\ DOMAIN hjMap' = D BY <3>3
  <3>6. \A x \in D : hjMap'[x] = IF joinCount /\ ValHasValue(x) /\ k = x THEN [hjMap[x] EXCEPT !.joins = @ + 1] ELSE hjMap[x]
    BY <2>1, <3>1, <3>4
  <3> QED BY <3>5, <3>6
 <2>2. CASE ~(hit /\ joinCount)
  <3>1. hjMap' = hjMap BY <1>1, <2>2
  <3>2. \A x \in D : ~(joinCount /\ ValHasValue(x) /\ k = x) BY <1>4, <2>2
  <3> QED BY <1>3, <3>1, <3>2
 <2> QED BY <2>1, <2>2
<1> HIDE DEF k
<1>7. \A x \in D : EntryIs(hjMap'[x], x, f, p + 1) BY <1>5, <1>6
<1>8. /\ hjMap' = [x \in DOMAIN hjMap' |-> hjMap'[x]]
      /\ DOMAIN hjMap' = {hjLeft[h] : h \in {h \in 1..f : KeyOK(hjLeft[h])}}
      /\ \A x \in DOMAIN hjMap' : EntryIs(hjMap'[x], x, f, p + 1)
 <2> HIDE DEF D
 <2> QED BY <1>3, <1>6, <1>7
<1> QED BY <1>2, <1>8 DEF MapIs

\* Every element of u is one of s or of t.
FromEither(u, s, t) == \A n \in DOMAIN u : (\E m \in DOMAIN s : u[n] = s[m]) \/ (\E m \in DOMAIN t : u[n] = t[m])

\* The elements of two sequences, one after the other.
LEMMA ConcatElements ==
  ASSUME NEW T, NEW s \in Seq(T), NEW t \in Seq(T)
  PROVE  s \o t \in Seq(T) /\ FromEither(s \o t, s, t)
<1> DEFINE u == s \o t
<1>1. /\ Len(s) \in Nat /\ Len(t) \in Nat /\ u \in Seq(T) /\ Len(u) = Len(s) + Len(t) /\ DOMAIN u = 1..(Len(s) + Len(t))
      /\ DOMAIN s = 1..Len(s) /\ DOMAIN t = 1..Len(t) OBVIOUS
<1>2. \A n \in 1..Len(s) : u[n] = s[n] OBVIOUS
<1>3. \A n \in 1..Len(t) : u[n + Len(s)] = t[n] OBVIOUS
<1> HIDE DEF u
<1>4. ASSUME NEW n \in DOMAIN u PROVE (\E m \in DOMAIN s : u[n] = s[m]) \/ (\E m \in DOMAIN t : u[n] = t[m])
 <2>1. CASE n <= Len(s)
  <3>1. n \in 1..Len(s) BY <1>1, <2>1
  <3> QED BY <1>1, <1>2, <3>1
 <2>2. CASE ~(n <= Len(s))
  <3>1. n - Len(s) \in 1..Len(t) /\ (n - Len(s)) + Len(s) = n BY <1>1, <2>2
  <3>2. u[n] = t[n - Len(s)] BY <1>3, <3>1
  <3> QED BY <1>1, <3>1, <3>2
 <2> QED BY <2>1, <2>2
<1> QED BY <1>1, <1>4 DEF u, FromEither

\* Among rows, those of left row i and row j if its key is k, once each.
ChainTimes(rows, k, j) ==
  \A i \in 1..Len(hjLeft) : \A h : Times(rows, <<i, h>>) = IF h = j /\ hjLeft[i] = k THEN 1 ELSE 0

\* The rows that an entry's chain yields for row j of the other side.
LEMMA ChainRows ==
  ASSUME NEW Keys, HashJoinConfigOK(hjCfg, Keys), NEW e, NEW k, NEW p, NEW j \in Nat, EntryIs(e, k, Len(hjLeft), p)
  PROVE  /\ RowsOf(e.chain, j) \in Seq(HjRows(Keys))
         /\ \A n \in DOMAIN RowsOf(e.chain, j) : RowsOf(e.chain, j)[n][1] \in 1..Len(hjLeft)
         /\ ChainTimes(RowsOf(e.chain, j), k, j)
<1> DEFINE c == e.chain
           s == RowsOf(c, j)
<1>1. /\ c \in Seq(Nat)
      /\ \A i \in 1..Len(hjLeft) : Times(c, i) = IF i <= Len(hjLeft) /\ hjLeft[i] = k THEN 1 ELSE 0
      /\ \A n \in DOMAIN c : c[n] \in 1..Len(hjLeft) BY DEF EntryIs, HjEntries
<1>2. Len(hjLeft) \in Nat BY SideFacts
<1> HIDE DEF c
<1>3. s \in Seq(HjRows(Keys))
 <2>1. Len(c) \in Nat /\ DOMAIN c = 1..Len(c) /\ \A n \in 1..Len(c) : c[n] \in Nat BY <1>1
 <2>2. \A n \in 1..Len(c) : <<c[n], j>> \in HjRows(Keys) BY <2>1 DEF HjRows
 <2>3. s = [n \in 1..Len(c) |-> <<c[n], j>>] BY <2>1 DEF RowsOf
 <2> DEFINE T == HjRows(Keys)
 <2> HIDE DEF T
 <2>4. s \in [1..Len(c) -> T] BY <2>2, <2>3 DEF T
 <2>5. s \in Seq(T) BY <2>1, <2>4
 <2> QED BY <2>5 DEF T
<1>4. \A n \in DOMAIN s : s[n][1] \in 1..Len(hjLeft) BY <1>1 DEF RowsOf
<1>5. ASSUME NEW i \in 1..Len(hjLeft), NEW h PROVE Times(s, <<i, h>>) = IF h = j /\ hjLeft[i] = k THEN 1 ELSE 0
 <2>1. Times(s, <<i, h>>) = IF h = j THEN Times(c, i) ELSE 0 BY <1>1, TimesPairs
 <2>2. i <= Len(hjLeft) BY <1>2
 <2> QED BY <1>1, <2>1, <2>2
<1> QED BY <1>3, <1>4, <1>5 DEF c, ChainTimes

\* What a matching right row makes a join yield.
LEMMA ProbeJoinOut ==
  ASSUME NEW Keys, NEW p \in 0..(Len(hjRight) - 1), HashJoinConfigOK(hjCfg, Keys), MapIs(Len(hjLeft), p), JoinOut(p),
         hjOut \in Seq(HjRows(Keys)), hjVisited = {}, hjI = p, Probe, isJoin
  PROVE  JoinOut(p + 1)' /\ hjOut' \in Seq(HjRows(Keys))
<1> DEFINE j == p + 1
           k == hjRight[p + 1]
           hit == ~CanonicalErr(k) /\ ValHasValue(k) /\ k \in DOMAIN hjMap
           c == hjMap[k].chain
           add == RowsOf(c, j)
           T == HjRows(Keys)
<1>1. /\ hjCfg' = hjCfg /\ hjVisited' = {} /\ hjOut' = IF hit THEN hjOut \o add ELSE hjOut
  BY DEF Probe, MatchYields, RowsOf
<1>2. hjLeft' = hjLeft /\ hjRight' = hjRight /\ isJoin' = isJoin /\ \A i, h : Mates(i, h)' = Mates(i, h)
  BY <1>1, HashCfgKept
<1>3. /\ \A n \in DOMAIN hjOut : hjOut[n][1] \in 1..Len(hjLeft)
      /\ \A i \in 1..Len(hjLeft), h \in 1..Len(hjRight) : Times(hjOut, <<i, h>>) = IF h <= p /\ Mates(i, h) THEN 1 ELSE 0
      /\ \A i \in 1..Len(hjLeft) : Times(hjOut, <<i, 0>>) = IF Unjoined(i) THEN 1 ELSE 0 BY DEF JoinOut
<1>4. \A i : ~Unjoined(i) /\ ~Unjoined(i)' BY <1>1 DEF Unjoined
<1>5. /\ Len(hjRight) \in Nat /\ Len(hjLeft) \in Nat /\ p \in Nat /\ j \in Nat /\ j # 0 /\ j \in 1..Len(hjRight) /\ ~(j <= p)
      /\ \A h \in 1..Len(hjRight) : h <= j <=> h <= p \/ h = j BY SideFacts
<1>6. hit <=> ValHasValue(k) /\ \E i \in 1..Len(hjLeft) : hjLeft[i] = k
 <2>1. DOMAIN hjMap = {hjLeft[h] : h \in {h \in 1..Len(hjLeft) : KeyOK(hjLeft[h])}} BY DEF MapIs
 <2>2. ValHasValue(k) => ~CanonicalErr(k) /\ KeyOK(k) BY DEF ValHasValue, CanonicalErr, KeyOK
 <2> QED BY <2>1, <2>2
<1>7. \A i \in 1..Len(hjLeft) : Mates(i, j) <=> hit /\ hjLeft[i] = k BY <1>6 DEF Mates
<1> HIDE DEF hit
<1>8. /\ hjOut' \in Seq(T) /\ \A n \in DOMAIN hjOut' : hjOut'[n][1] \in 1..Len(hjLeft)
      /\ \A i \in 1..Len(hjLeft) : \A h : Times(hjOut', <<i, h>>) = Times(hjOut, <<i, h>>) + IF hit /\ h = j /\ hjLeft[i] = k THEN 1 ELSE 0
 <2>1. \A i \in 1..Len(hjLeft) : \A h : Times(hjOut, <<i, h>>) \in Nat BY TimesType
 <2>2. CASE ~hit BY <1>1, <1>3, <2>1, <2>2
 <2>3. CASE hit
  <3>1. EntryIs(hjMap[k], k, Len(hjLeft), p) BY <2>3 DEF MapIs, hit
  <3>2. /\ add \in Seq(T) /\ \A n \in DOMAIN add : add[n][1] \in 1..Len(hjLeft)
        /\ \A i \in 1..Len(hjLeft) : \A h : Times(add, <<i, h>>) = IF h = j /\ hjLeft[i] = k THEN 1 ELSE 0
   <4> DEFINE e == hjMap[k]
   <4>1. j \in Nat /\ EntryIs(e, k, Len(hjLeft), p) /\ add = RowsOf(e.chain, j) BY <1>5, <3>1
   <4> HIDE DEF e, add, j, k
   <4>2. RowsOf(e.chain, j) \in Seq(HjRows(Keys)) BY <4>1, ChainRows
   <4>3. \A n \in DOMAIN RowsOf(e.chain, j) : RowsOf(e.chain, j)[n][1] \in 1..Len(hjLeft) BY <4>1, ChainRows
   <4>4. ChainTimes(RowsOf(e.chain, j), k, j) BY <4>1, ChainRows
   <4> QED BY <4>1, <4>2, <4>3, <4>4 DEF ChainTimes
  <3>3. hjOut' = hjOut \o add /\ hjOut \in Seq(T) BY <1>1, <2>3
  <3> HIDE DEF add, T, c, j, k
  <3>4. hjOut \o add \in Seq(T) /\ FromEither(hjOut \o add, hjOut, add)
   <4>1. add \in Seq(T) /\ hjOut \in Seq(T) BY <3>2, <3>3
   <4> QED BY <4>1, ConcatElements
  <3>5. \A n \in DOMAIN hjOut' : hjOut'[n][1] \in 1..Len(hjLeft) BY <1>3, <3>2, <3>3, <3>4 DEF FromEither
  <3>6. ASSUME NEW i \in 1..Len(hjLeft), NEW h
        PROVE  Times(hjOut', <<i, h>>) = Times(hjOut, <<i, h>>) + IF hit /\ h = j /\ hjLeft[i] = k THEN 1 ELSE 0
   <4>1. Times(hjOut \o add, <<i, h>>) = Times(hjOut, <<i, h>>) + Times(add, <<i, h>>) BY <3>2, <3>3, TimesConcat
   <4> QED BY <2>3, <3>2, <3>3, <4>1
  <3> QED BY <3>3, <3>4, <3>5, <3>6
 <2> QED BY <2>2, <2>3
<1> HIDE DEF j, k, T
<1>9. \A i \in 1..Len(hjLeft), h \in 1..Len(hjRight) : Times(hjOut', <<i, h>>) = IF h <= j /\ Mates(i, h) THEN 1 ELSE 0
 <2> SUFFICES ASSUME NEW i \in 1..Len(hjLeft), NEW h \in 1..Len(hjRight)
              PROVE  Times(hjOut', <<i, h>>) = IF h <= j /\ Mates(i, h) THEN 1 ELSE 0 OBVIOUS
 <2>1. Times(hjOut, <<i, h>>) = IF h <= p /\ Mates(i, h) THEN 1 ELSE 0 BY <1>3
 <2>2. Times(hjOut', <<i, h>>) = Times(hjOut, <<i, h>>) + IF hit /\ h = j /\ hjLeft[i] = k THEN 1 ELSE 0 BY <1>8
 <2>3. CASE h = j
  <3>1. Mates(i, h) <=> hit /\ hjLeft[i] = k BY <1>7, <2>3
  <3>2. h <= j /\ ~(h <= p) BY <1>5, <2>3
  <3> QED BY <2>1, <2>2, <2>3, <3>1, <3>2
 <2>4. CASE h # j
  <3>1. h <= j <=> h <= p BY <1>5, <2>4
  <3> QED BY <2>1, <2>2, <2>4, <3>1
 <2> QED BY <2>3, <2>4
<1>10. \A i \in 1..Len(hjLeft) : Times(hjOut', <<i, 0>>) = IF Unjoined(i)' THEN 1 ELSE 0
 <2> SUFFICES ASSUME NEW i \in 1..Len(hjLeft) PROVE Times(hjOut', <<i, 0>>) = 0 BY <1>4
 <2>1. Times(hjOut, <<i, 0>>) = 0 BY <1>3, <1>4
 <2> QED BY <1>5, <1>8, <2>1
<1>11. JoinOut(p + 1)' BY <1>2, <1>8, <1>9, <1>10 DEF JoinOut, j
<1> QED BY <1>8, <1>11 DEF T

\* What the visit of a key makes an outer join yield.
LEMMA VisitJoinOut ==
  ASSUME NEW Keys, NEW p, HashJoinConfigOK(hjCfg, Keys), MapIs(Len(hjLeft), p), JoinOut(p), hjOut \in Seq(HjRows(Keys)), Visit, isJoin
  PROVE  JoinOut(p)' /\ hjOut' \in Seq(HjRows(Keys))
<1> DEFINE T == HjRows(Keys)
<1>1. PICK k \in DOMAIN hjMap \ hjVisited :
        hjVisited' = hjVisited \cup {k} /\ hjOut' = hjOut \o VisitYields(k, hjMap[k]) BY DEF Visit
<1> DEFINE e == hjMap[k]
           c == e.chain
           add == RowsOf(c, 0)
<1>2. hjCfg' = hjCfg /\ hjMap' = hjMap /\ hjOut' = hjOut \o (IF e.joins = 0 THEN add ELSE <<>>)
  BY <1>1 DEF Visit, VisitYields, RowsOf
<1>3. hjLeft' = hjLeft /\ hjRight' = hjRight /\ isJoin' = isJoin /\ \A i, h : Mates(i, h)' = Mates(i, h)
  BY <1>2, HashCfgKept
<1>4. /\ \A n \in DOMAIN hjOut : hjOut[n][1] \in 1..Len(hjLeft)
      /\ \A i \in 1..Len(hjLeft), h \in 1..Len(hjRight) : Times(hjOut, <<i, h>>) = IF h <= p /\ Mates(i, h) THEN 1 ELSE 0
      /\ \A i \in 1..Len(hjLeft) : Times(hjOut, <<i, 0>>) = IF Unjoined(i) THEN 1 ELSE 0 BY DEF JoinOut
<1>5. \A i : Unjoined(i)' <=> Unjoined(i) \/ (hjLeft[i] = k /\ e.joins = 0) BY <1>1, <1>2, <1>3 DEF Unjoined
<1>6. \A i : hjLeft[i] = k => ~Unjoined(i) BY <1>1 DEF Unjoined
<1>7. Len(hjRight) \in Nat BY SideFacts
<1>8. /\ hjOut' \in Seq(T) /\ \A n \in DOMAIN hjOut' : hjOut'[n][1] \in 1..Len(hjLeft)
      /\ \A i \in 1..Len(hjLeft) : \A h : Times(hjOut', <<i, h>>) = Times(hjOut, <<i, h>>) + IF e.joins = 0 /\ h = 0 /\ hjLeft[i] = k THEN 1 ELSE 0
 <2>1. \A i \in 1..Len(hjLeft) : \A h : Times(hjOut, <<i, h>>) \in Nat BY TimesType
 <2>2. CASE e.joins # 0
  <3>1. hjOut' = hjOut
   <4>1. hjOut' = hjOut \o <<>> BY <1>2, <2>2
   <4>2. hjOut \o <<>> = hjOut OBVIOUS
   <4> QED BY <4>1, <4>2
  <3> QED BY <1>4, <2>1, <2>2, <3>1
 <2>3. CASE e.joins = 0
  <3>1. EntryIs(e, k, Len(hjLeft), p) /\ 0 \in Nat BY <1>1 DEF MapIs
  <3>2. add \in Seq(T) /\ (\A n \in DOMAIN add : add[n][1] \in 1..Len(hjLeft)) /\ ChainTimes(add, k, 0)
   <4> HIDE DEF e
   <4>1. RowsOf(e.chain, 0) \in Seq(HjRows(Keys)) BY <3>1, ChainRows
   <4>2. \A n \in DOMAIN RowsOf(e.chain, 0) : RowsOf(e.chain, 0)[n][1] \in 1..Len(hjLeft) BY <3>1, ChainRows
   <4>3. ChainTimes(RowsOf(e.chain, 0), k, 0) BY <3>1, ChainRows
   <4> QED BY <4>1, <4>2, <4>3
  <3>3. hjOut' = hjOut \o add /\ hjOut \in Seq(T) BY <1>2, <2>3
  <3> HIDE DEF add, T, c
  <3>4. hjOut \o add \in Seq(T) /\ FromEither(hjOut \o add, hjOut, add)
   <4>1. add \in Seq(T) /\ hjOut \in Seq(T) BY <3>2, <3>3
   <4> QED BY <4>1, ConcatElements
  <3>5. \A n \in DOMAIN hjOut' : hjOut'[n][1] \in 1..Len(hjLeft) BY <1>4, <3>2, <3>3, <3>4 DEF FromEither
  <3>6. ASSUME NEW i \in 1..Len(hjLeft), NEW h
        PROVE  Times(hjOut', <<i, h>>) = Times(hjOut, <<i, h>>) + IF e.joins = 0 /\ h = 0 /\ hjLeft[i] = k THEN 1 ELSE 0
   <4>1. Times(hjOut \o add, <<i, h>>) = Times(hjOut, <<i, h>>) + Times(add, <<i, h>>) BY <3>2, <3>3, TimesConcat
   <4> QED BY <2>3, <3>2, <3>3, <4>1 DEF ChainTimes
  <3> QED BY <3>3, <3>4, <3>5, <3>6
 <2> QED BY <2>2, <2>3
<1> HIDE DEF e, T
<1>9. \A i \in 1..Len(hjLeft), h \in 1..Len(hjRight) : Times(hjOut', <<i, h>>) = IF h <= p /\ Mates(i, h) THEN 1 ELSE 0
 <2> SUFFICES ASSUME NEW i \in 1..Len(hjLeft), NEW h \in 1..Len(hjRight)
              PROVE  Times(hjOut', <<i, h>>) = IF h <= p /\ Mates(i, h) THEN 1 ELSE 0 OBVIOUS
 <2>1. h # 0 BY <1>7
 <2>2. Times(hjOut', <<i, h>>) = Times(hjOut, <<i, h>>) + 0 BY <1>8, <2>1
 <2>3. Times(hjOut, <<i, h>>) = IF h <= p /\ Mates(i, h) THEN 1 ELSE 0 BY <1>4
 <2> QED BY <2>2, <2>3
<1>10. \A i \in 1..Len(hjLeft) : Times(hjOut', <<i, 0>>) = IF Unjoined(i)' THEN 1 ELSE 0
 <2> SUFFICES ASSUME NEW i \in 1..Len(hjLeft) PROVE Times(hjOut', <<i, 0>>) = IF Unjoined(i)' THEN 1 ELSE 0 OBVIOUS
 <2>1. Times(hjOut, <<i, 0>>) = IF Unjoined(i) THEN 1 ELSE 0 BY <1>4
 <2>2. Times(hjOut', <<i, 0>>) = Times(hjOut, <<i, 0>>) + IF e.joins = 0 /\ hjLeft[i] = k THEN 1 ELSE 0 BY <1>8
 <2>3. CASE e.joins = 0 /\ hjLeft[i] = k BY <1>5, <1>6, <2>1, <2>2, <2>3
 <2>4. CASE ~(e.joins = 0 /\ hjLeft[i] = k) BY <1>5, <2>1, <2>2, <2>4
 <2> QED BY <2>3, <2>4
<1>11. JoinOut(p)' BY <1>3, <1>8, <1>9, <1>10 DEF JoinOut
<1> QED BY <1>8, <1>11 DEF T

\* Of the keys of a set operator: an entry for each of the left side.
LEMMA SetKeys ==
  ASSUME NEW Keys, HashJoinConfigOK(hjCfg, Keys), NEW p, MapIs(Len(hjLeft), p), ~isJoin, hjCfg.labels % 256 # 110
  PROVE  /\ joinCount /\ \A k : ValHasValue(k) /\ ~CanonicalErr(k)
         /\ \A k : Times(hjLeft, k) \in Nat /\ Times(Upto(hjRight, 0), k) = 0
         /\ \A k : k \in DOMAIN hjMap <=> Times(hjLeft, k) > 0
         /\ \A k \in DOMAIN hjMap : hjMap[k].lefts = Times(hjLeft, k) /\ hjMap[k].joins = Times(Upto(hjRight, p), k)
<1>1. joinCount /\ \A k : ValHasValue(k) /\ ~CanonicalErr(k) BY DEF joinCount, isJoin, ValHasValue, CanonicalErr
<1>2. \A k : KeyOK(k) BY <1>1 DEF KeyOK
<1>3. hjLeft \in Seq(Keys) /\ Len(hjLeft) \in Nat BY SideFacts
<1>4. Upto(hjLeft, Len(hjLeft)) = hjLeft
 <2>1. hjLeft = [i \in 1..Len(hjLeft) |-> hjLeft[i]] BY <1>3
 <2> QED BY <1>3, <2>1 DEF Upto
<1>5. \A k : Times(hjLeft, k) \in Nat /\ (Times(hjLeft, k) = 0 <=> \A n \in 1..Len(hjLeft) : hjLeft[n] # k)
  BY <1>3, TimesType
<1>6. DOMAIN hjMap = {hjLeft[h] : h \in {h \in 1..Len(hjLeft) : KeyOK(hjLeft[h])}} /\ \A k \in DOMAIN hjMap : EntryIs(hjMap[k], k, Len(hjLeft), p)
  BY DEF MapIs
<1>7. \A k : k \in DOMAIN hjMap <=> \E n \in 1..Len(hjLeft) : hjLeft[n] = k BY <1>2, <1>6
<1>8. \A k : k \in DOMAIN hjMap <=> Times(hjLeft, k) > 0
 <2>1. \A k : k \in DOMAIN hjMap <=> Times(hjLeft, k) # 0 BY <1>5, <1>7
 <2> QED BY <1>5, <2>1
<1>9. \A k \in DOMAIN hjMap : hjMap[k].lefts = Times(hjLeft, k) /\ hjMap[k].joins = Times(Upto(hjRight, p), k)
  BY <1>1, <1>4, <1>6 DEF EntryIs, JoinsOf
<1> QED BY <1>1, <1>5, <1>8, <1>9, UptoNone

\* What a right row makes a set operator yield.
LEMMA ProbeSetOut ==
  ASSUME NEW Keys, NEW p \in 0..(Len(hjRight) - 1), HashJoinConfigOK(hjCfg, Keys), MapIs(Len(hjLeft), p), SetOut(Keys, p),
         hjOut \in Seq(HjRows(Keys)), hjVisited = {}, hjI = p, Probe, ~isJoin
  PROVE  SetOut(Keys, p + 1)' /\ hjOut' \in Seq(HjRows(Keys))
<1> DEFINE k == hjRight[p + 1]
           e == hjMap[k]
           hit == ~CanonicalErr(k) /\ ValHasValue(k) /\ k \in DOMAIN hjMap
           yes == hit /\ opIntersect /\ Intersects(e, e.joins + 1)
           T == HjRows(Keys)
           row == <<k>>
<1>1. /\ hjCfg' = hjCfg /\ hjVisited' = {} /\ hjOut' = IF hit THEN hjOut \o (IF opIntersect /\ Intersects(e, e.joins + 1) THEN <<row>> ELSE <<>>) ELSE hjOut
  BY DEF Probe, MatchYields
<1>2. hjLeft' = hjLeft /\ hjRight' = hjRight /\ isJoin' = isJoin /\ opIntersect' = opIntersect /\ leftCount' = leftCount
  BY <1>1, HashCfgKept
<1>3. hjRight \in Seq(Keys) /\ k \in Keys /\ Len(hjRight) \in Nat BY SideFacts
<1>4. row \in T BY <1>3 DEF HjRows
<1> HIDE DEF hit, T, e, row
<1>5. hjOut' \in Seq(T) /\ hjOut \in Seq(T) /\ hjOut' = hjOut \o (IF yes THEN <<row>> ELSE <<>>)
 <2>1. hjOut \in Seq(T) BY DEF T
 <2>2. hjOut \o <<>> = hjOut BY <2>1
 <2>3. hjOut' = hjOut \o (IF yes THEN <<row>> ELSE <<>>) BY <1>1, <2>2
 <2>4. hjOut \o <<row>> \in Seq(T) /\ hjOut \o <<>> \in Seq(T) BY <1>4, <2>1
 <2> QED BY <2>1, <2>3, <2>4
<1> HIDE DEF yes
<1>6. \A x : Times(hjOut', <<x>>) = Times(hjOut, <<x>>) + IF yes /\ x = k THEN 1 ELSE 0
 <2> SUFFICES ASSUME NEW x PROVE Times(hjOut', <<x>>) = Times(hjOut, <<x>>) + IF yes /\ x = k THEN 1 ELSE 0 OBVIOUS
 <2> DEFINE z == <<x>>
            add == IF yes THEN <<row>> ELSE <<>>
 <2>1. add \in Seq(T) BY <1>4
 <2>2. z = row <=> x = k BY DEF row
 <2> HIDE DEF z
 <2>3. Times(add, z) = IF yes /\ x = k THEN 1 ELSE 0
  <3>1. Times(<<row>>, z) = IF row = z THEN 1 ELSE 0 BY TimesOne
  <3>2. Times(<<>>, z) = 0 BY TimesEmpty
  <3> QED BY <2>2, <3>1, <3>2
 <2> HIDE DEF add
 <2>4. Times(hjOut \o add, z) = Times(hjOut, z) + Times(add, z) BY <1>5, <2>1, TimesConcat
 <2> QED BY <1>5, <2>3, <2>4 DEF add, z
<1>7. SUFFICES ASSUME hjCfg.labels % 256 # 110
               PROVE  \A x \in Keys : Times(hjOut', <<x>>) = Due(x, p + 1)' BY <1>1, <1>5 DEF SetOut, T
<1>8. /\ joinCount /\ (\A x : ValHasValue(x) /\ ~CanonicalErr(x))
      /\ \A x : Times(hjLeft, x) \in Nat
      /\ \A x : x \in DOMAIN hjMap <=> Times(hjLeft, x) > 0
      /\ \A x \in DOMAIN hjMap : hjMap[x].lefts = Times(hjLeft, x) /\ hjMap[x].joins = Times(Upto(hjRight, p), x)
  BY <1>7, SetKeys
<1>9. SUFFICES ASSUME NEW x \in Keys PROVE Times(hjOut', <<x>>) = Due(x, p + 1)' OBVIOUS
<1> DEFINE m == Times(hjLeft, x)
           n == Times(Upto(hjRight, p), x)
           q == Times(Upto(hjRight, p + 1), x)
<1>10. m \in Nat /\ n \in Nat /\ q = n + IF x = k THEN 1 ELSE 0
 <2>1. Upto(hjRight, p) \in Seq(Keys) BY <1>3 DEF Upto
 <2>2. n \in Nat BY <2>1, TimesType
 <2>3. q = n + IF k = x THEN 1 ELSE 0 BY <1>3, TimesUpto
 <2> QED BY <1>8, <2>2, <2>3
<1>11. /\ Due(x, p) = IF opIntersect THEN IF leftCount THEN IF n <= m THEN n ELSE m ELSE IF m > 0 /\ n > 0 THEN 1 ELSE 0 ELSE 0
       /\ Due(x, p + 1)' = IF opIntersect THEN IF leftCount THEN IF q <= m THEN q ELSE m ELSE IF m > 0 /\ q > 0 THEN 1 ELSE 0 ELSE 0
  BY <1>1, <1>2 DEF Due
<1>12. Times(hjOut, <<x>>) = Due(x, p) BY <1>7 DEF SetOut
<1>13. yes /\ x = k <=> x = k /\ m > 0 /\ opIntersect /\ IF leftCount THEN m >= n + 1 ELSE n + 1 = 1
 <2>1. CASE x = k /\ m > 0
  <3>1. hit /\ e.lefts = m /\ e.joins = n BY <1>8, <2>1 DEF hit, e
  <3> QED BY <2>1, <3>1 DEF yes, Intersects
 <2>2. CASE x = k /\ ~(m > 0)
  <3>1. ~hit BY <1>8, <2>2 DEF hit
  <3> QED BY <2>2, <3>1 DEF yes
 <2> QED BY <2>1, <2>2
<1> HIDE DEF m, n, q, k
<1>14. Times(hjOut', <<x>>) = Due(x, p) + IF yes /\ x = k THEN 1 ELSE 0 BY <1>6, <1>12
<1>15. CASE x # k
 <2>1. q = n BY <1>10, <1>15
 <2>2. Due(x, p) = Due(x, p + 1)' /\ Due(x, p) \in Nat BY <1>10, <1>11, <2>1
 <2> QED BY <1>14, <1>15, <2>2
<1>16. CASE x = k
 <2>1. q = n + 1 BY <1>10, <1>16
 <2>2. CASE ~opIntersect BY <1>11, <1>13, <1>14, <2>2
 <2>3. CASE opIntersect /\ leftCount
  <3>1. yes <=> m >= n + 1 BY <1>10, <1>13, <1>16, <2>3
  <3>2. Due(x, p) = (IF n <= m THEN n ELSE m) /\ Due(x, p + 1)' = (IF n + 1 <= m THEN n + 1 ELSE m)
    BY <1>11, <2>1, <2>3
  <3> QED BY <1>10, <1>14, <1>16, <3>1, <3>2
 <2>4. CASE opIntersect /\ ~leftCount
  <3>1. yes <=> m > 0 /\ n = 0 BY <1>10, <1>13, <1>16, <2>4
  <3>2. Due(x, p) = (IF m > 0 /\ n > 0 THEN 1 ELSE 0) /\ Due(x, p + 1)' = (IF m > 0 /\ n + 1 > 0 THEN 1 ELSE 0)
    BY <1>11, <2>1, <2>4
  <3> QED BY <1>10, <1>14, <1>16, <3>1, <3>2
 <2> QED BY <2>2, <2>3, <2>4
<1> QED BY <1>15, <1>16

\* What the visit of a key makes EXCEPT yield.
LEMMA VisitSetOut ==
  ASSUME NEW Keys, NEW p \in Nat, p <= Len(hjRight), HashJoinConfigOK(hjCfg, Keys), MapIs(Len(hjLeft), p), SetOut(Keys, p),
         hjOut \in Seq(HjRows(Keys)), yieldsUnjoined, Visit, ~isJoin
  PROVE  SetOut(Keys, p)' /\ hjOut' \in Seq(HjRows(Keys))
<1> DEFINE T == HjRows(Keys)
<1>1. PICK k \in DOMAIN hjMap \ hjVisited :
        hjVisited' = hjVisited \cup {k} /\ hjOut' = hjOut \o VisitYields(k, hjMap[k]) BY DEF Visit
<1> DEFINE e == hjMap[k]
           d == e.lefts - e.joins
           add == IF leftCount THEN [n \in 1..d |-> <<k>>] ELSE IF e.joins = 0 THEN << <<k>> >> ELSE <<>>
<1>2. hjCfg' = hjCfg /\ hjMap' = hjMap /\ hjOut' = hjOut \o add BY <1>1 DEF Visit, VisitYields
<1>3. hjLeft' = hjLeft /\ hjRight' = hjRight /\ isJoin' = isJoin /\ opIntersect' = opIntersect /\ leftCount' = leftCount
  BY <1>2, HashCfgKept
<1>4. ~opIntersect BY DEF yieldsUnjoined, opIntersect
<1>5. hjRight \in Seq(Keys) /\ Len(hjRight) \in Nat /\ Len(hjLeft) \in Nat /\ hjLeft \in Seq(Keys) BY SideFacts
<1>6. EntryIs(e, k, Len(hjLeft), p) /\ k \in DOMAIN hjMap BY <1>1 DEF MapIs
<1>7. d \in Int /\ e.lefts \in Nat /\ e.joins \in Nat /\ k \in Keys
 <2>1. e.lefts \in Nat /\ e.joins \in Nat BY <1>6 DEF EntryIs, HjEntries
 <2>2. k \in Keys BY <1>6, SideFacts DEF MapIs
 <2> QED BY <2>1, <2>2
<1>8. add \in Seq(T)
 <2>1. <<k>> \in T BY <1>7 DEF HjRows
 <2> DEFINE row == <<k>>
 <2> HIDE DEF T, row, d
 <2>2. row \in T BY <2>1 DEF row
 <2>3. [n \in 1..d |-> row] \in Seq(T)
  <3>1. \E q \in Nat : 1..d = 1..q
   <4>1. CASE d > 0 BY <1>7, <4>1
   <4>2. CASE ~(d > 0)
    <5>1. 1..d = 1..0 /\ 0 \in Nat BY <1>7, <4>2
    <5> QED BY <5>1
   <4> QED BY <4>1, <4>2
  <3>2. PICK q \in Nat : 1..d = 1..q BY <3>1
  <3> DEFINE s == [n \in 1..d |-> row]
  <3>3. s \in [1..q -> T] BY <2>2, <3>2
  <3> HIDE DEF s
  <3>4. s \in Seq(T) BY <3>3
  <3> QED BY <3>4 DEF s
 <2>4. <<row>> \in Seq(T) /\ <<>> \in Seq(T) BY <2>2
 <2> QED BY <2>3, <2>4 DEF row
<1>9. hjOut' \in Seq(T) /\ \A x : Times(hjOut', <<x>>) = Times(hjOut, <<x>>) + Times(add, <<x>>)
 <2> HIDE DEF add
 <2>1. hjOut \in Seq(T) /\ add \in Seq(T) BY <1>8
 <2> HIDE DEF T
 <2>2. \A x : Times(hjOut \o add, <<x>>) = Times(hjOut, <<x>>) + Times(add, <<x>>) BY <2>1, TimesConcat
 <2>3. hjOut \o add \in Seq(T) BY <2>1
 <2> QED BY <1>2, <2>2, <2>3
<1>10. \A x : Times(add, <<x>>) = IF x = k THEN IF leftCount THEN IF d > 0 THEN d ELSE 0 ELSE IF e.joins = 0 THEN 1 ELSE 0 ELSE 0
 <2> SUFFICES ASSUME NEW x
              PROVE  Times(add, <<x>>) = IF x = k THEN IF leftCount THEN IF d > 0 THEN d ELSE 0 ELSE IF e.joins = 0 THEN 1 ELSE 0 ELSE 0
   OBVIOUS
 <2> HIDE DEF d, e
 <2>1. CASE leftCount
  <3>1. Times([n \in 1..d |-> <<k>>], <<x>>) = IF x = k /\ d > 0 THEN d ELSE 0 BY <1>7, TimesRepeat
  <3>2. add = [n \in 1..d |-> <<k>>] BY <2>1
  <3> HIDE DEF add
  <3>3. Times(add, <<x>>) = IF x = k /\ d > 0 THEN d ELSE 0 BY <3>1, <3>2
  <3> QED BY <2>1, <3>3
 <2>2. CASE ~leftCount /\ e.joins = 0
  <3>1. Times(<< <<k>> >>, <<x>>) = IF <<k>> = <<x>> THEN 1 ELSE 0 BY TimesOne
  <3>2. <<k>> = <<x>> <=> x = k OBVIOUS
  <3>3. add = << <<k>> >> BY <2>2
  <3> HIDE DEF add
  <3>4. Times(add, <<x>>) = IF x = k THEN 1 ELSE 0 BY <3>1, <3>2, <3>3
  <3> QED BY <2>2, <3>4
 <2>3. CASE ~leftCount /\ e.joins # 0
  <3>1. add = <<>> BY <2>3
  <3> HIDE DEF add
  <3>2. Times(add, <<x>>) = 0 BY <3>1, TimesEmpty
  <3> QED BY <2>3, <3>2
 <2> QED BY <2>1, <2>2, <2>3
<1> HIDE DEF add, T
<1>11. SUFFICES ASSUME hjCfg.labels % 256 # 110, NEW x \in Keys
                PROVE  Times(hjOut', <<x>>) = Due(x, p)' BY <1>2, <1>9 DEF SetOut, T
<1> DEFINE m == Times(hjLeft, x)
           n == Times(Upto(hjRight, p), x)
<1>12. Due(x, p) = (IF x \notin hjVisited THEN 0 ELSE IF leftCount THEN IF n <= m THEN m - n ELSE 0 ELSE IF n = 0 THEN 1 ELSE 0)
  BY <1>4 DEF Due
<1>13. Due(x, p)' = (IF x \notin hjVisited' THEN 0 ELSE IF leftCount THEN IF n <= m THEN m - n ELSE 0 ELSE IF n = 0 THEN 1 ELSE 0)
  BY <1>3, <1>4 DEF Due
<1>14. Times(hjOut, <<x>>) = Due(x, p) BY <1>11 DEF SetOut
<1>15. m \in Nat /\ n \in Nat
 <2>1. Upto(hjRight, p) \in Seq(Keys) BY <1>5 DEF Upto
 <2> QED BY <1>5, <2>1, TimesType
<1> HIDE DEF m, n
<1>16. CASE x # k
 <2>1. Times(hjOut', <<x>>) = Times(hjOut, <<x>>) + 0 BY <1>9, <1>10, <1>16
 <2>2. x \in hjVisited' <=> x \in hjVisited BY <1>1, <1>16
 <2>3. Due(x, p)' = Due(x, p) /\ Due(x, p) \in Nat BY <1>12, <1>13, <1>15, <2>2
 <2> QED BY <1>14, <2>1, <2>3
<1>17. CASE x = k
 <2>1. e.lefts = m /\ e.joins = n
  <3>1. hjMap[x].lefts = m /\ hjMap[x].joins = n BY <1>6, <1>11, <1>17, SetKeys DEF m, n
  <3> QED BY <1>17, <3>1
 <2>2. x \notin hjVisited /\ x \in hjVisited' BY <1>1, <1>17
 <2>3. Times(hjOut, <<x>>) = 0 BY <1>12, <1>14, <2>2
 <2>4. d = m - n BY <2>1
 <2> HIDE DEF d, e
 <2>5. Times(hjOut', <<x>>) = 0 + IF leftCount THEN IF d > 0 THEN d ELSE 0 ELSE IF n = 0 THEN 1 ELSE 0
   BY <1>9, <1>10, <1>17, <2>1, <2>3
 <2>6. Due(x, p)' = IF leftCount THEN IF n <= m THEN m - n ELSE 0 ELSE IF n = 0 THEN 1 ELSE 0 BY <1>13, <2>2
 <2> QED BY <1>15, <2>4, <2>5, <2>6
<1> QED BY <1>16, <1>17

\* The phases of the operator.
LEMMA HashPhaseStep ==
  ASSUME NEW Keys, HashInv(Keys), HashJoinNext
  PROVE  HashPhase'
<1>1. hjCfg' = hjCfg /\ HashPhase BY DEF HashInv, HashJoinNext, FillProbeMap, FillEnd, Probe, ProbeEnd, Visit, VisitEnd
<1>2. hjLeft' = hjLeft /\ hjRight' = hjRight /\ yieldsUnjoined' = yieldsUnjoined BY <1>1, HashCfgKept
<1>3. Len(hjLeft) \in Nat /\ Len(hjRight) \in Nat BY SideFacts DEF HashInv
<1>4. CASE FillProbeMap
 <2>1. hjPc = "fill" /\ hjPc' = "fill" /\ hjI < Len(hjLeft) /\ hjI' = hjI + 1 /\ hjVisited' = hjVisited /\ hjErr' = hjErr
   BY <1>4 DEF FillProbeMap
 <2>2. hjVisited = {} /\ hjI \in Nat BY <1>1, <2>1 DEF HashPhase
 <2> QED BY <1>2, <1>3, <2>1, <2>2 DEF HashPhase
<1>5. CASE FillEnd
 <2>1. hjPc = "fill" /\ hjI' = 0 /\ hjVisited' = hjVisited /\ hjMap' = hjMap
       /\ (\/ hjErr' = "left" /\ hjPc' = "done"
           \/ hjPc' = "probe") BY <1>5 DEF FillEnd
 <2>2. hjVisited = {} BY <1>1, <2>1 DEF HashPhase
 <2> QED BY <1>2, <1>3, <2>1, <2>2 DEF HashPhase
<1>6. CASE Probe
 <2>1. hjPc = "probe" /\ hjPc' = "probe" /\ hjI < Len(hjRight) /\ hjI' = hjI + 1 /\ hjVisited' = hjVisited
   BY <1>6 DEF Probe
 <2>2. hjVisited = {} /\ hjI \in Nat BY <1>1, <2>1 DEF HashPhase
 <2> QED BY <1>2, <1>3, <2>1, <2>2 DEF HashPhase
<1>7. CASE ProbeEnd
 <2>1. /\ hjPc = "probe" /\ hjI = Len(hjRight) /\ hjI' = hjI /\ hjVisited' = hjVisited /\ hjMap' = hjMap
       /\ \/ hjErr' = "right" /\ hjPc' = "done"
          \/ hjPc' = IF yieldsUnjoined THEN "visit" ELSE "done" BY <1>7 DEF ProbeEnd
 <2>2. hjVisited = {} BY <1>1, <2>1 DEF HashPhase
 <2> QED BY <1>2, <1>3, <2>1, <2>2 DEF HashPhase
<1>8. CASE Visit
 <2>1. PICK k \in DOMAIN hjMap \ hjVisited : hjVisited' = hjVisited \cup {k} BY <1>8 DEF Visit
 <2>2. hjPc = "visit" /\ hjPc' = "visit" /\ hjI' = hjI /\ hjMap' = hjMap BY <1>8 DEF Visit
 <2> QED BY <1>1, <1>2, <1>3, <2>1, <2>2 DEF HashPhase
<1>9. CASE VisitEnd
 <2>1. hjPc = "visit" /\ hjPc' = "done" /\ hjI' = hjI /\ hjMap' = hjMap /\ hjVisited' = hjVisited /\ hjVisited = DOMAIN hjMap
   BY <1>9 DEF VisitEnd
 <2> QED BY <1>1, <1>2, <1>3, <2>1 DEF HashPhase
<1> QED BY <1>4, <1>5, <1>6, <1>7, <1>8, <1>9 DEF HashJoinNext

\* While nothing is taken, yielded or visited, all is as it was.
LEMMA HashSame ==
  ASSUME NEW Keys, NEW f, NEW p, hjCfg' = hjCfg, hjMap' = hjMap, hjOut' = hjOut, hjVisited' = hjVisited
  PROVE  /\ MapIs(f, p)' = MapIs(f, p)
         /\ JoinOut(p)' = JoinOut(p)
         /\ SetOut(Keys, p)' = SetOut(Keys, p)
<1>1. /\ hjLeft' = hjLeft /\ hjRight' = hjRight /\ isJoin' = isJoin /\ opIntersect' = opIntersect /\ leftCount' = leftCount
      /\ \A k : KeyOK(k)' = KeyOK(k)
      /\ \A e, k, g, q : EntryIs(e, k, g, q)' = EntryIs(e, k, g, q)
      /\ \A i, j : Mates(i, j)' = Mates(i, j) BY HashCfgKept
<1>2. MapIs(f, p)' = MapIs(f, p) BY <1>1 DEF MapIs
<1>3. \A i : Unjoined(i)' = Unjoined(i) BY <1>1 DEF Unjoined
<1>4. JoinOut(p)' = JoinOut(p) BY <1>1, <1>3 DEF JoinOut
<1>5. \A k : Due(k, p)' = Due(k, p) BY <1>1 DEF Due
<1>6. SetOut(Keys, p)' = SetOut(Keys, p) BY <1>1, <1>5 DEF SetOut
<1> QED BY <1>2, <1>4, <1>6

\* Every step preserves the invariant.
LEMMA HashJoinStep ==
  ASSUME NEW Keys, HashInv(Keys), HashJoinNext
  PROVE  HashInv(Keys)'
<1>1. /\ HashJoinConfigOK(hjCfg, Keys) /\ hjOut \in Seq(HjRows(Keys)) /\ HashPhase
      /\ MapIs(Filled, Probed) /\ JoinOut(Probed) /\ SetOut(Keys, Probed) BY DEF HashInv
<1>2. hjCfg' = hjCfg BY DEF HashJoinNext, FillProbeMap, FillEnd, Probe, ProbeEnd, Visit, VisitEnd
<1>3. /\ HashJoinConfigOK(hjCfg, Keys)' /\ hjLeft' = hjLeft /\ hjRight' = hjRight
      /\ isJoin' = isJoin BY <1>1, <1>2, HashCfgKept DEF HashJoinConfigOK
<1>4. HashPhase' BY HashPhaseStep
<1>5. Len(hjLeft) \in Nat /\ Len(hjRight) \in Nat /\ hjI \in Nat BY <1>1, SideFacts DEF HashPhase
<1>6. CASE FillProbeMap
 <2>1. PICK f \in Nat : f = hjI BY <1>5
 <2>2. /\ hjPc = "fill" /\ hjPc' = "fill" /\ f < Len(hjLeft) /\ hjI' = f + 1 /\ hjOut' = hjOut /\ hjVisited' = hjVisited
   BY <1>6, <2>1 DEF FillProbeMap
 <2>3. f \in 0..(Len(hjLeft) - 1) /\ hjVisited = {} BY <1>1, <1>5, <2>1, <2>2 DEF HashPhase
 <2>4. Filled = f /\ Probed = 0 /\ Filled' = f + 1 /\ Probed' = 0 BY <1>3, <2>1, <2>2 DEF Filled, Probed
 <2>5. MapIs(f, 0) BY <1>1, <2>4
 <2>6. MapIs(f + 1, 0)' BY <1>1, <1>6, <2>1, <2>3, <2>5, FillMapStep
 <2>7. JoinOut(0)' = JoinOut(0) /\ SetOut(Keys, 0)' = SetOut(Keys, 0)
  <3>1. \A i : Unjoined(i)' = Unjoined(i) BY <2>2, <2>3 DEF Unjoined
  <3>2. \A i, j : Mates(i, j)' = Mates(i, j) BY <1>2, HashCfgKept
  <3>3. \A k : Due(k, 0)' = Due(k, 0) BY <1>2, <1>3, <2>2, HashCfgKept DEF Due
  <3> QED BY <1>2, <1>3, <2>2, <3>1, <3>2, <3>3 DEF JoinOut, SetOut
 <2>8. MapIs(Filled, Probed)' /\ JoinOut(Probed)' /\ SetOut(Keys, Probed)'
  <3>1. MapIs(Filled, Probed)' BY <2>4, <2>6 DEF MapIs
  <3>2. JoinOut(Probed)' BY <1>1, <2>4, <2>7 DEF JoinOut
  <3>3. SetOut(Keys, Probed)' BY <1>1, <2>4, <2>7 DEF SetOut, Due
  <3> QED BY <3>1, <3>2, <3>3
 <2> QED BY <1>1, <1>3, <1>4, <2>2, <2>8 DEF HashInv, HjRows
<1>7. CASE Probe
 <2>1. PICK p \in Nat : p = hjI BY <1>5
 <2>2. hjPc = "probe" /\ hjPc' = "probe" /\ p < Len(hjRight) /\ hjI' = p + 1 BY <1>7, <2>1 DEF Probe
 <2>3. p \in 0..(Len(hjRight) - 1) /\ hjVisited = {} BY <1>1, <1>5, <2>1, <2>2 DEF HashPhase
 <2>4. Filled = Len(hjLeft) /\ Probed = p /\ Filled' = Len(hjLeft) /\ Probed' = p + 1
   BY <1>3, <2>1, <2>2 DEF Filled, Probed
 <2>5. MapIs(Len(hjLeft), p) /\ JoinOut(p) /\ SetOut(Keys, p) BY <1>1, <2>4
 <2>6. MapIs(Filled, Probed)'
  <3>1. PICK f \in Nat : f = Len(hjLeft) BY <1>5
  <3>2. MapIs(f, p + 1)' BY <1>1, <1>7, <2>1, <2>3, <2>5, <3>1, ProbeMapStep
  <3> QED BY <2>4, <3>1, <3>2 DEF MapIs
 <2>7. JoinOut(p + 1)' /\ SetOut(Keys, p + 1)' /\ hjOut' \in Seq(HjRows(Keys))
  <3>1. CASE isJoin
   <4>1. JoinOut(p + 1)' /\ hjOut' \in Seq(HjRows(Keys)) BY <1>1, <1>7, <2>1, <2>3, <2>5, <3>1, ProbeJoinOut
   <4>2. SetOut(Keys, p + 1)' BY <1>3, <3>1 DEF SetOut
   <4> QED BY <4>1, <4>2
  <3>2. CASE ~isJoin
   <4>1. SetOut(Keys, p + 1)' /\ hjOut' \in Seq(HjRows(Keys)) BY <1>1, <1>7, <2>1, <2>3, <2>5, <3>2, ProbeSetOut
   <4>2. JoinOut(p + 1)' BY <1>3, <3>2 DEF JoinOut
   <4> QED BY <4>1, <4>2
  <3> QED BY <3>1, <3>2
 <2>8. JoinOut(Probed)' /\ SetOut(Keys, Probed)'
  <3>1. JoinOut(Probed)' BY <2>4, <2>7 DEF JoinOut
  <3>2. SetOut(Keys, Probed)' BY <2>4, <2>7 DEF SetOut, Due
  <3> QED BY <3>1, <3>2
 <2> QED BY <1>3, <1>4, <2>6, <2>7, <2>8 DEF HashInv, HjRows
<1>8. CASE Visit
 <2>1. PICK p \in Nat : p = hjI BY <1>5
 <2>2. hjPc = "visit" /\ hjPc' = "visit" /\ hjI' = p /\ hjMap' = hjMap /\ yieldsUnjoined /\ p <= Len(hjRight)
  <3>1. hjPc = "visit" /\ hjPc' = "visit" /\ hjI' = p /\ hjMap' = hjMap BY <1>8, <2>1 DEF Visit
  <3> QED BY <1>1, <1>5, <2>1, <3>1 DEF HashPhase
 <2>4. Filled = Len(hjLeft) /\ Probed = p /\ Filled' = Len(hjLeft) /\ Probed' = p
   BY <1>3, <2>1, <2>2 DEF Filled, Probed
 <2>5. MapIs(Len(hjLeft), p) /\ JoinOut(p) /\ SetOut(Keys, p) BY <1>1, <2>4
 <2>6. MapIs(Filled, Probed)' BY <1>2, <1>3, <2>2, <2>4, <2>5, HashCfgKept DEF MapIs
 <2>7. JoinOut(p)' /\ SetOut(Keys, p)' /\ hjOut' \in Seq(HjRows(Keys))
  <3>1. CASE isJoin
   <4>1. JoinOut(p)' /\ hjOut' \in Seq(HjRows(Keys)) BY <1>1, <1>8, <2>5, <3>1, VisitJoinOut
   <4>2. SetOut(Keys, p)' BY <1>3, <3>1 DEF SetOut
   <4> QED BY <4>1, <4>2
  <3>2. CASE ~isJoin
   <4>1. SetOut(Keys, p)' /\ hjOut' \in Seq(HjRows(Keys)) BY <1>1, <1>8, <2>2, <2>5, <3>2, VisitSetOut
   <4>2. JoinOut(p)' BY <1>3, <3>2 DEF JoinOut
   <4> QED BY <4>1, <4>2
  <3> QED BY <3>1, <3>2
 <2>8. JoinOut(Probed)' /\ SetOut(Keys, Probed)'
  <3>1. JoinOut(Probed)' BY <2>4, <2>7 DEF JoinOut
  <3>2. SetOut(Keys, Probed)' BY <2>4, <2>7 DEF SetOut, Due
  <3> QED BY <3>1, <3>2
 <2> QED BY <1>3, <1>4, <2>6, <2>7, <2>8 DEF HashInv, HjRows
<1>9. CASE FillEnd \/ ProbeEnd \/ VisitEnd
 <2>1. hjMap' = hjMap /\ hjOut' = hjOut /\ hjVisited' = hjVisited BY <1>9 DEF FillEnd, ProbeEnd, VisitEnd
 <2>2. Filled' = Filled /\ Probed' = Probed
  <3>1. CASE FillEnd
   <4>1. hjPc = "fill" /\ hjI = Len(hjLeft) /\ hjI' = 0 /\ hjPc' # "fill" BY <3>1 DEF FillEnd
   <4> QED BY <1>3, <4>1 DEF Filled, Probed
  <3>2. CASE ProbeEnd
   <4>1. hjPc = "probe" /\ hjI' = hjI /\ hjPc' # "fill" BY <3>2 DEF ProbeEnd
   <4> QED BY <1>3, <4>1 DEF Filled, Probed
  <3>3. CASE VisitEnd
   <4>1. hjPc = "visit" /\ hjI' = hjI /\ hjPc' # "fill" BY <3>3 DEF VisitEnd
   <4> QED BY <1>3, <4>1 DEF Filled, Probed
  <3> QED BY <1>9, <3>1, <3>2, <3>3
 <2>3. PICK f, p : f = Filled /\ p = Probed OBVIOUS
 <2>4. MapIs(f, p)' = MapIs(f, p) /\ JoinOut(p)' = JoinOut(p) /\ SetOut(Keys, p)' = SetOut(Keys, p)
   BY <1>2, <2>1, HashSame
 <2>5. MapIs(Filled, Probed)' BY <1>1, <2>2, <2>3, <2>4 DEF MapIs
 <2>6. JoinOut(Probed)' BY <1>1, <2>2, <2>3, <2>4 DEF JoinOut
 <2>7. SetOut(Keys, Probed)' BY <1>1, <2>2, <2>3, <2>4 DEF SetOut, Due
 <2> QED BY <1>1, <1>3, <1>4, <2>1, <2>5, <2>6, <2>7 DEF HashInv, HjRows
<1> QED BY <1>6, <1>7, <1>8, <1>9 DEF HashJoinNext

\* So does a step that changes nothing.
LEMMA HashStutter ==
  ASSUME NEW Keys, HashInv(Keys), UNCHANGED hashJoinVars
  PROVE  HashInv(Keys)'
<1>1. hjCfg' = hjCfg /\ hjPc' = hjPc /\ hjI' = hjI /\ hjMap' = hjMap /\ hjVisited' = hjVisited /\ hjOut' = hjOut /\ hjErr' = hjErr
  BY DEF hashJoinVars
<1>2. hjLeft' = hjLeft /\ hjRight' = hjRight /\ yieldsUnjoined' = yieldsUnjoined BY <1>1, HashCfgKept
<1>3. Filled' = Filled /\ Probed' = Probed BY <1>1, <1>2 DEF Filled, Probed
<1>4. PICK f, p : f = Filled /\ p = Probed OBVIOUS
<1>5. MapIs(f, p)' = MapIs(f, p) /\ JoinOut(p)' = JoinOut(p) /\ SetOut(Keys, p)' = SetOut(Keys, p) BY <1>1, HashSame
<1>6. MapIs(Filled, Probed)' BY <1>3, <1>4, <1>5 DEF HashInv, MapIs
<1>7. JoinOut(Probed)' BY <1>3, <1>4, <1>5 DEF HashInv, JoinOut
<1>8. SetOut(Keys, Probed)' BY <1>3, <1>4, <1>5 DEF HashInv, SetOut, Due
<1>9. HashPhase' BY <1>1, <1>2 DEF HashInv, HashPhase
<1>10. HashJoinConfigOK(hjCfg, Keys)' /\ (hjOut \in Seq(HjRows(Keys)))' BY <1>1 DEF HashInv, HashJoinConfigOK, HjRows
<1> QED BY <1>6, <1>7, <1>8, <1>9, <1>10 DEF HashInv

\* The initial states satisfy it.
LEMMA HashJoinStarts ==
  ASSUME NEW Keys, NEW Cfgs, \A c \in Cfgs : HashJoinConfigOK(c, Keys), HashJoinInit(Cfgs)
  PROVE  HashInv(Keys)
<1>1. HashJoinConfigOK(hjCfg, Keys) /\ hjPc = "fill" /\ hjI = 0 /\ hjMap = [k \in {} |-> 0] /\ hjVisited = {} /\ hjOut = <<>> /\ hjErr = "none"
  BY DEF HashJoinInit
<1>2. Len(hjLeft) \in Nat /\ Len(hjRight) \in Nat BY <1>1, SideFacts
<1>3. Filled = 0 /\ Probed = 0 BY <1>1 DEF Filled, Probed
<1>4. HashPhase BY <1>1, <1>2 DEF HashPhase
<1>5. DOMAIN hjMap = {} /\ hjMap = [k \in DOMAIN hjMap |-> hjMap[k]] BY <1>1
<1>6. MapIs(0, 0) BY <1>5 DEF MapIs
<1>7. \A x : Times(hjOut, x) = 0 BY <1>1, TimesEmpty
<1>8. JoinOut(0)
 <2>1. \A i : ~Unjoined(i) BY <1>1 DEF Unjoined
 <2>2. \A j \in 1..Len(hjRight) : ~(j <= 0) BY <1>2
 <2>3. DOMAIN hjOut = {} BY <1>1
 <2> QED BY <1>7, <2>1, <2>2, <2>3 DEF JoinOut
<1>9. SetOut(Keys, 0)
 <2> SUFFICES ASSUME NEW k \in Keys PROVE Due(k, 0) = 0 BY <1>7 DEF SetOut
 <2> DEFINE m == Times(hjLeft, k)
            n == Times(Upto(hjRight, 0), k)
 <2>1. n = 0 BY UptoNone
 <2>2. m \in Nat BY <1>1, SideFacts, TimesType
 <2>3. Due(k, 0) = IF opIntersect THEN IF leftCount THEN IF n <= m THEN n ELSE m
                        ELSE IF m > 0 /\ n > 0 THEN 1 ELSE 0
                   ELSE 0 BY <1>1 DEF Due
 <2> HIDE DEF m, n
 <2> QED BY <2>1, <2>2, <2>3
<1>10. hjOut \in Seq(HjRows(Keys)) BY <1>1
<1> QED BY <1>1, <1>3, <1>4, <1>6, <1>8, <1>9, <1>10 DEF HashInv

\* The invariant says that a join is exact ...
LEMMA HashJoinIsExact ==
  ASSUME NEW Keys, HashInv(Keys)
  PROVE  HashJoinExact
<1> SUFFICES ASSUME hjPc = "done", hjErr = "none", isJoin
             PROVE  /\ \A i \in DOMAIN hjLeft, j \in DOMAIN hjRight \cup {0} :
                         hjLeft[i] # MissingKey => hjTimes(<<i, j>>) = JoinTimes(i, j)
                    /\ \A n \in DOMAIN hjOut : hjOut[n][1] \in DOMAIN hjLeft BY DEF HashJoinExact
<1>1. /\ HashJoinConfigOK(hjCfg, Keys) /\ HashPhase /\ MapIs(Filled, Probed) /\ JoinOut(Probed) BY DEF HashInv
<1>2. /\ hjLeft \in Seq(Keys) /\ Len(hjLeft) \in Nat /\ DOMAIN hjLeft = 1..Len(hjLeft)
      /\ hjRight \in Seq(Keys) /\ Len(hjRight) \in Nat /\ DOMAIN hjRight = 1..Len(hjRight) BY <1>1, SideFacts
<1>3. Filled = Len(hjLeft) /\ Probed = Len(hjRight) /\ IF yieldsUnjoined THEN hjVisited = DOMAIN hjMap ELSE hjVisited = {}
  BY <1>1 DEF HashPhase, Filled, Probed
<1>4. /\ \A n \in DOMAIN hjOut : hjOut[n][1] \in 1..Len(hjLeft)
      /\ \A i \in 1..Len(hjLeft), j \in 1..Len(hjRight) : Times(hjOut, <<i, j>>) = IF j <= Len(hjRight) /\ Mates(i, j) THEN 1 ELSE 0
      /\ \A i \in 1..Len(hjLeft) : Times(hjOut, <<i, 0>>) = IF Unjoined(i) THEN 1 ELSE 0 BY <1>1, <1>3 DEF JoinOut
<1>5. \A k : ValHasValue(k) <=> k \notin {NullKey, MissingKey} BY DEF ValHasValue
<1>6. \A x : hjTimes(x) = Times(hjOut, x) BY DEF hjTimes, Times
<1>7. ASSUME NEW i \in 1..Len(hjLeft), NEW j \in 1..Len(hjRight) PROVE hjTimes(<<i, j>>) = JoinTimes(i, j)
 <2>1. j # 0 /\ j <= Len(hjRight) BY <1>2
 <2>2. JoinTimes(i, j) = IF Mates(i, j) THEN 1 ELSE 0 BY <1>5, <2>1 DEF JoinTimes, Mates
 <2> QED BY <1>4, <1>6, <2>1, <2>2
<1>8. ASSUME NEW i \in 1..Len(hjLeft), hjLeft[i] # MissingKey PROVE hjTimes(<<i, 0>>) = JoinTimes(i, 0)
 <2> DEFINE k == hjLeft[i]
 <2>1. hjTimes(<<i, 0>>) = IF Unjoined(i) THEN 1 ELSE 0 BY <1>4, <1>6
 <2>2. JoinTimes(i, 0) = IF hjCfg.kind = "joinHash-leftOuter" /\ ~\E h \in 1..Len(hjRight) : k = hjRight[h] /\ ValHasValue(k) THEN 1 ELSE 0
   BY <1>2, <1>5 DEF JoinTimes
 <2>3. CASE hjCfg.kind = "joinHash-leftOuter"
  <3>1. yieldsUnjoined /\ joinCount BY <2>3 DEF yieldsUnjoined, joinCount
  <3>2. KeyOK(k) BY <1>8, <2>3 DEF KeyOK, CanonicalErr
  <3>3. k \in DOMAIN hjMap /\ EntryIs(hjMap[k], k, Len(hjLeft), Len(hjRight)) BY <1>1, <1>3, <3>2 DEF MapIs
  <3>4. Upto(hjRight, Len(hjRight)) = hjRight
   <4>1. hjRight = [n \in 1..Len(hjRight) |-> hjRight[n]] BY <1>2
   <4> QED BY <4>1 DEF Upto
  <3>5. hjMap[k].joins = IF ValHasValue(k) THEN Times(hjRight, k) ELSE 0 BY <3>1, <3>3, <3>4 DEF EntryIs, JoinsOf
  <3>6. Times(hjRight, k) = 0 <=> \A n \in 1..Len(hjRight) : hjRight[n] # k BY <1>2, TimesType
  <3>7. Unjoined(i) <=> ~\E h \in 1..Len(hjRight) : k = hjRight[h] /\ ValHasValue(k)
    BY <1>3, <3>1, <3>3, <3>5, <3>6 DEF Unjoined
  <3> QED BY <2>1, <2>2, <2>3, <3>7
 <2>4. CASE hjCfg.kind # "joinHash-leftOuter"
  <3>1. ~yieldsUnjoined BY <2>4 DEF yieldsUnjoined, isJoin
  <3>2. ~Unjoined(i) BY <1>3, <3>1 DEF Unjoined
  <3> QED BY <2>1, <2>2, <2>4, <3>2
 <2> QED BY <2>3, <2>4
<1> QED BY <1>2, <1>4, <1>7, <1>8

\* The least and the most of two numbers.
LEMMA OfTwoNumbers ==
  ASSUME NEW a \in Int, NEW b \in Int
  PROVE  LeastOf({a, b}) = (IF a <= b THEN a ELSE b) /\ MostOf({a, b}) = (IF a <= b THEN b ELSE a)
<1> DEFINE S == {a, b}
           x == IF a <= b THEN a ELSE b
           y == IF a <= b THEN b ELSE a
<1>1. x \in Int /\ y \in Int /\ S \in SUBSET (x..y) /\ S # {} /\ x \in S /\ y \in S /\ \A z \in S : z \in Int /\ x <= z /\ z <= y
  OBVIOUS
<1> HIDE DEF S, x, y
<1>2. /\ LeastOf(S) \in S /\ \A z \in S : LeastOf(S) <= z
      /\ MostOf(S) \in S /\ \A z \in S : z <= MostOf(S) BY <1>1, MinMax
<1>3. LeastOf(S) \in Int /\ LeastOf(S) <= x /\ x <= LeastOf(S) BY <1>1, <1>2
<1>4. MostOf(S) \in Int /\ MostOf(S) <= y /\ y <= MostOf(S) BY <1>1, <1>2
<1>5. \A u, v \in Int : u <= v /\ v <= u => u = v OBVIOUS
<1>6. LeastOf(S) = x BY <1>1, <1>3, <1>5
<1>7. MostOf(S) = y BY <1>1, <1>4, <1>5
<1> QED BY <1>6, <1>7 DEF S, x, y

\* The least of two numbers and one.
LEMMA LeastOfThree ==
  ASSUME NEW m \in Nat, NEW n \in Nat
  PROVE  LeastOf({m, n, 1}) = IF m > 0 /\ n > 0 THEN 1 ELSE 0
<1> DEFINE S == {m, n, 1}
           x == 0
           y == m + n + 1
<1>1. x \in Int /\ y \in Int /\ S \in SUBSET (x..y) /\ S # {} OBVIOUS
<1> HIDE DEF S, x, y
<1>2. LeastOf(S) \in S /\ \A z \in S : LeastOf(S) <= z BY <1>1, MinMax
<1> QED BY <1>2 DEF S

\* ... and that INTERSECT and EXCEPT are.
LEMMA SetOpIsExact ==
  ASSUME NEW Keys, HashInv(Keys)
  PROVE  SetOpExact
<1> SUFFICES ASSUME hjPc = "done", hjErr = "none", ~isJoin, hjCfg.labels % 256 # 110,
                    NEW k \in {hjLeft[i] : i \in DOMAIN hjLeft} \cup {hjRight[j] : j \in DOMAIN hjRight}
             PROVE  hjTimes(<<k>>) = SetTimes(k) BY DEF SetOpExact
<1>1. /\ HashJoinConfigOK(hjCfg, Keys) /\ HashPhase /\ MapIs(Filled, Probed) /\ SetOut(Keys, Probed) BY DEF HashInv
<1>2. /\ hjLeft \in Seq(Keys) /\ Len(hjLeft) \in Nat /\ DOMAIN hjLeft = 1..Len(hjLeft)
      /\ hjRight \in Seq(Keys) /\ Len(hjRight) \in Nat /\ DOMAIN hjRight = 1..Len(hjRight) /\ k \in Keys
  BY <1>1, SideFacts
<1>3. Filled = Len(hjLeft) /\ Probed = Len(hjRight) /\ (yieldsUnjoined => hjVisited = DOMAIN hjMap)
  BY <1>1 DEF HashPhase, Filled, Probed
<1>4. Upto(hjRight, Len(hjRight)) = hjRight
 <2>1. hjRight = [n \in 1..Len(hjRight) |-> hjRight[n]] BY <1>2
 <2> QED BY <2>1 DEF Upto
<1> DEFINE m == Times(hjLeft, k)
           n == Times(hjRight, k)
<1>5. m \in Nat /\ n \in Nat BY <1>2, TimesType
<1>6. hjTimes(<<k>>) = Due(k, Len(hjRight)) BY <1>1, <1>2, <1>3 DEF SetOut, hjTimes, Times
<1>7. Due(k, Len(hjRight)) =
        IF opIntersect THEN IF leftCount THEN IF n <= m THEN n ELSE m ELSE IF m > 0 /\ n > 0 THEN 1 ELSE 0
        ELSE IF k \notin hjVisited THEN 0
        ELSE IF leftCount THEN IF n <= m THEN m - n ELSE 0 ELSE IF n = 0 THEN 1 ELSE 0 BY <1>4 DEF Due
<1>8. k \in DOMAIN hjMap <=> m > 0 BY <1>1, <1>3, SetKeys
<1>9. hjKeyTimes(hjLeft, k) = m /\ hjKeyTimes(hjRight, k) = n BY DEF hjKeyTimes, Times
<1> HIDE DEF m, n
<1>10. LeastOf({m, n}) = (IF m <= n THEN m ELSE n) /\ LeastOf({m, n, 1}) = (IF m > 0 /\ n > 0 THEN 1 ELSE 0)
  BY <1>5, OfTwoNumbers, LeastOfThree
<1>11. MostOf({m - n, 0}) = IF m - n <= 0 THEN 0 ELSE m - n
 <2> DEFINE a == m - n
            b == 0
 <2>1. a \in Int /\ b \in Int BY <1>5
 <2> HIDE DEF a, b
 <2>2. MostOf({a, b}) = IF a <= b THEN b ELSE a BY <2>1, OfTwoNumbers
 <2> QED BY <2>2 DEF a, b
<1>12. CASE hjCfg.kind = "intersect-all"
 <2>1. SetTimes(k) = LeastOf({m, n}) /\ opIntersect /\ leftCount BY <1>9, <1>12 DEF SetTimes, opIntersect, leftCount
 <2> QED BY <1>5, <1>6, <1>7, <1>10, <2>1
<1>13. CASE hjCfg.kind = "intersect-distinct"
 <2>1. SetTimes(k) = LeastOf({m, n, 1}) /\ opIntersect /\ ~leftCount
   BY <1>9, <1>13 DEF SetTimes, opIntersect, leftCount
 <2> QED BY <1>6, <1>7, <1>10, <2>1
<1>14. CASE hjCfg.kind = "except-all"
 <2>1. SetTimes(k) = MostOf({m - n, 0}) /\ ~opIntersect /\ leftCount /\ yieldsUnjoined
   BY <1>9, <1>14 DEF SetTimes, opIntersect, leftCount, yieldsUnjoined
 <2> QED BY <1>3, <1>5, <1>6, <1>7, <1>8, <1>11, <2>1
<1>15. CASE hjCfg.kind = "except-distinct"
 <2>1. SetTimes(k) = (IF m > 0 /\ n = 0 THEN 1 ELSE 0) /\ ~opIntersect /\ ~leftCount /\ yieldsUnjoined
   BY <1>9, <1>15 DEF SetTimes, opIntersect, leftCount, yieldsUnjoined
 <2> QED BY <1>3, <1>5, <1>6, <1>7, <1>8, <2>1
<1>16. hjCfg.kind \in {"intersect-all", "intersect-distinct", "except-all", "except-distinct"}
  BY <1>1 DEF HashJoinConfigOK, isJoin
<1> QED BY <1>12, <1>13, <1>14, <1>15, <1>16

\* engine/op_join_nl.go, engine/op_join_hash.go: whatever the rows and their
\* keys, a nested loop yields the rows of its definition in order, or a prefix
\* of them and the error; a hash join yields each pair of rows with equal keys
\* once, and each left row without partner once if it is an outer join; and
\* INTERSECT and EXCEPT yield each row as often as SQL counts it.
THEOREM JoinsAreExact ==
  ASSUME NEW Keys, NEW HashCfgs, \A c \in HashCfgs : HashJoinConfigOK(c, Keys),
         NEW R, NEW LoopCfgs, \A c \in LoopCfgs : NestedLoopConfigOK(c, R)
  PROVE  HashJoinSpec(HashCfgs) /\ NestedLoopSpec(LoopCfgs) => []JoinsExact
<1>1. HashJoinInit(HashCfgs) => HashInv(Keys) BY HashJoinStarts
<1>2. HashInv(Keys) /\ [HashJoinNext]_hashJoinVars => HashInv(Keys)' BY HashJoinStep, HashStutter
<1>3. HashInv(Keys) => HashJoinExact /\ SetOpExact BY HashJoinIsExact, SetOpIsExact
<1>4. NestedLoopInit(LoopCfgs) => LoopInv(R) BY LoopStarts
<1>5. LoopInv(R) /\ [NestedLoopNext]_nestedLoopVars => LoopInv(R)'
  BY LeftValsStep, RightValsStep, RightEndStep, LeftDoneStep DEF NestedLoopNext
<1>6. LoopInv(R) => NestedLoopExact BY LoopExact
<1>7. HashInv(Keys) /\ LoopInv(R) => JoinsExact BY <1>3, <1>6 DEF JoinsExact
<1> QED BY <1>1, <1>2, <1>4, <1>5, <1>7, PTL DEF HashJoinSpec, NestedLoopSpec

-----------------------------------------------------------------------------
(* Contexts.  A match flags rows before and after it, of its partition;    *)
(* after t rows an extractor has emitted those that are flagged by a match *)
(* among them, it owes the next ones, and it remembers the last rows that  *)
(* a later match may still flag.                                           *)

\* The rows of a partition follow each other.
Contiguous(rows) ==
  \A i, j, k \in 1..Len(rows) : i < j /\ j < k /\ rows[i].part = rows[k].part => rows[j].part = rows[i].part

\* A match at m has n in its context.
InContext(s, rows, m, n) ==
  MatchesRow(s, rows[m]) /\ rows[m].part = rows[n].part /\ n <= m + AfterMatch(s) /\ m <= n + BeforeMatch(s)
Flagged(s, rows, t) == {n \in 1..t : \E m \in 1..t : InContext(s, rows, m, n)}

\* The last l numbers up to t.
LastOnes(t, l) == [j \in 1..l |-> t - l + j]

\* What an extractor remembers and owes after t rows, in the partition q.
Extractor(s, rows, t, q, kept, after) ==
  /\ after \in Nat
  /\ kept = LastOnes(t, Len(kept)) /\ Len(kept) \in 0..t /\ Len(kept) <= BeforeMatch(s)
  /\ after > 0 => kept = <<>> /\ \E m \in 1..t : MatchesRow(s, rows[m]) /\ rows[m].part = q /\ m + AfterMatch(s) = t + after
  /\ \A m \in 1..t : MatchesRow(s, rows[m]) /\ rows[m].part = q => m + AfterMatch(s) <= t + after
  /\ \A n \in 1..t : n > t - Len(kept) => rows[n].part = q /\ n \notin Flagged(s, rows, t)
  /\ \A n \in 1..t : rows[n].part = q /\ n + BeforeMatch(s) > t /\ n \notin Flagged(s, rows, t) => n > t - Len(kept)

\* A frame of numbers around its row, as the recogniser demands.
Framed(s) == BeforeMatch(s) \in Nat /\ AfterMatch(s) \in Nat

\* An extractor that starts a partition remembers and owes nothing.
LEMMA FreshExtractor ==
  ASSUME NEW s, NEW rows, NEW t \in Nat, NEW q, Framed(s), \A n \in 1..t : rows[n].part # q
  PROVE  Extractor(s, rows, t, q, <<>>, 0)
<1>1. Len(<<>>) = 0 /\ LastOnes(t, 0) = <<>> BY DEF LastOnes
<1> QED BY <1>1 DEF Extractor, Framed

\* What the next row adds: rows that it flags, and itself when an earlier match flags it.
LEMMA FlaggedGrows ==
  ASSUME NEW s, NEW rows, NEW t \in Nat
  PROVE  /\ Flagged(s, rows, t) \subseteq Flagged(s, rows, t + 1)
         /\ \A n \in Flagged(s, rows, t) : n \in 1..t
         /\ \A n \in Flagged(s, rows, t + 1) :
              n \in Flagged(s, rows, t) \/ InContext(s, rows, t + 1, n) \/ (n = t + 1 /\ \E m \in 1..t : InContext(s, rows, m, n))
<1>1. \A n \in 1..(t + 1) : n \in 1..t \/ n = t + 1 OBVIOUS
<1>2. \A n \in 1..t : n \in 1..(t + 1) OBVIOUS
<1> QED BY <1>1, <1>2 DEF Flagged

\* On one row an extractor emits the rows, each for the first time, that are flagged by
\* now, and goes on as it should.
LEMMA ExtractorStep ==
  ASSUME NEW s, NEW rows, NEW t \in Nat, NEW kept, NEW after, Framed(s),
         Extractor(s, rows, t, rows[t + 1].part, kept, after)
  PROVE  LET f == Flushed(s, kept, after, t + 1, MatchesRow(s, rows[t + 1]))
         IN  /\ Extractor(s, rows, t + 1, rows[t + 1].part, f.buf, f.after)
             /\ Len(f.emit) \in 0..(t + 1) /\ f.emit = LastOnes(t + 1, Len(f.emit))
             /\ \A n \in 1..t : n > t + 1 - Len(f.emit) => n \notin Flagged(s, rows, t)
             /\ Flagged(s, rows, t + 1) = Flagged(s, rows, t) \cup {n \in 1..(t + 1) : n > t + 1 - Len(f.emit)}
<1> DEFINE q == rows[t + 1].part
           l == Len(kept)
           f == Flushed(s, kept, after, t + 1, MatchesRow(s, rows[t + 1]))
           B == BeforeMatch(s)
           A == AfterMatch(s)
<1>0. B \in Nat /\ A \in Nat /\ t + 1 \in 1..(t + 1) BY DEF Framed
<1>1. /\ after \in Nat /\ l \in 0..t /\ l <= B /\ kept = LastOnes(t, l)
      /\ after > 0 => kept = <<>> /\ \E m \in 1..t : MatchesRow(s, rows[m]) /\ rows[m].part = q /\ m + A = t + after
      /\ \A m \in 1..t : MatchesRow(s, rows[m]) /\ rows[m].part = q => m + A <= t + after
      /\ \A n \in 1..t : n > t - l => rows[n].part = q /\ n \notin Flagged(s, rows, t)
      /\ \A n \in 1..t : rows[n].part = q /\ n + B > t /\ n \notin Flagged(s, rows, t) => n > t - l BY DEF Extractor
<1>2. /\ kept \in Seq(Nat) /\ \A j \in 1..l : kept[j] = t - l + j
 <2>1. LastOnes(t, l) \in Seq(Nat) /\ \A j \in 1..l : LastOnes(t, l)[j] = t - l + j BY <1>1 DEF LastOnes
 <2> QED BY <1>1, <2>1
<1>3. Append(kept, t + 1) = LastOnes(t + 1, l + 1) /\ Len(Append(kept, t + 1)) = l + 1
 <2> DEFINE a == Append(kept, t + 1)
            b == LastOnes(t + 1, l + 1)
 <2>1. a \in Seq(Nat) /\ Len(a) = l + 1 /\ (\A j \in 1..l : a[j] = t - l + j) /\ a[l + 1] = t + 1 BY <1>1, <1>2
 <2>2. b \in Seq(Nat) /\ Len(b) = l + 1 /\ \A j \in 1..(l + 1) : b[j] = (t + 1) - (l + 1) + j BY <1>1 DEF LastOnes
 <2> HIDE DEF a, b, l
 <2>3. \A j \in 1..(l + 1) : a[j] = b[j]
  <3> SUFFICES ASSUME NEW j \in 1..(l + 1) PROVE a[j] = b[j] OBVIOUS
  <3>1. CASE j = l + 1 BY <1>1, <2>1, <2>2, <3>1
  <3>2. CASE j # l + 1
   <4>1. j \in 1..l /\ (t + 1) - (l + 1) + j = t - l + j BY <1>1, <3>2
   <4> QED BY <2>1, <2>2, <4>1
  <3> QED BY <3>1, <3>2
 <2>4. a = b BY <2>1, <2>2, <2>3, SeqEqual
 <2> QED BY <2>1, <2>4 DEF a, b
<1>4. Len(<<>>) = 0 /\ LastOnes(t + 1, 0) = <<>> BY DEF LastOnes
<1>5. /\ Flagged(s, rows, t) \subseteq Flagged(s, rows, t + 1)
      /\ \A n \in Flagged(s, rows, t) : n \in 1..t
      /\ \A n \in Flagged(s, rows, t + 1) :
           n \in Flagged(s, rows, t) \/ InContext(s, rows, t + 1, n) \/ (n = t + 1 /\ \E m \in 1..t : InContext(s, rows, m, n))
  BY FlaggedGrows
<1>6. \A n \in 1..(t + 1) : n \in 1..t \/ n = t + 1 OBVIOUS
<1>7. CASE MatchesRow(s, rows[t + 1])
 <2>1. f.emit = Append(kept, t + 1) /\ f.buf = <<>> /\ f.after = A BY <1>7 DEF Flushed
 <2>2. \A n \in 1..(t + 1) : n > t - l => n \in Flagged(s, rows, t + 1)
  <3> SUFFICES ASSUME NEW n \in 1..(t + 1), n > t - l PROVE n \in Flagged(s, rows, t + 1) OBVIOUS
  <3>1. rows[n].part = q BY <1>1, <1>6
  <3>2. n <= (t + 1) + A /\ t + 1 <= n + B BY <1>0, <1>1
  <3> QED BY <1>0, <1>7, <3>1, <3>2 DEF Flagged, InContext
 <2>3. \A n \in Flagged(s, rows, t + 1) : n \in Flagged(s, rows, t) \/ (n \in 1..(t + 1) /\ n > t - l)
  <3> SUFFICES ASSUME NEW n \in Flagged(s, rows, t + 1), n \notin Flagged(s, rows, t)
               PROVE  n \in 1..(t + 1) /\ n > t - l OBVIOUS
  <3>1. n \in 1..(t + 1) BY DEF Flagged
  <3>2. CASE n = t + 1 BY <1>1, <3>1, <3>2
  <3>3. CASE n \in 1..t
   <4>1. rows[n].part = q /\ t + 1 <= n + B BY <1>5, <3>3 DEF InContext
   <4> QED BY <1>0, <1>1, <3>1, <3>3, <4>1
  <3> QED BY <1>6, <3>1, <3>2, <3>3
 <2>4. Extractor(s, rows, t + 1, q, <<>>, A)
  <3>1. \A m \in 1..(t + 1) : m + A <= (t + 1) + A BY <1>0
  <3>2. \A n \in 1..(t + 1) : ~(n > t + 1 - 0) OBVIOUS
  <3>3. \A n \in 1..(t + 1) : rows[n].part = q /\ n + B > t + 1 /\ n \notin Flagged(s, rows, t + 1) => FALSE
   <4> SUFFICES ASSUME NEW n \in 1..(t + 1), rows[n].part = q, n + B > t + 1, n \notin Flagged(s, rows, t + 1)
                PROVE  FALSE OBVIOUS
   <4>1. n \notin Flagged(s, rows, t) /\ ~(n > t - l) BY <1>5, <2>2
   <4>2. CASE n = t + 1 BY <1>1, <4>1, <4>2
   <4>3. CASE n \in 1..t BY <1>0, <1>1, <4>1, <4>3
   <4> QED BY <1>6, <4>2, <4>3
  <3> QED BY <1>0, <1>4, <1>7, <3>1, <3>2, <3>3 DEF Extractor
 <2>5. l + 1 \in 0..(t + 1) /\ t + 1 - (l + 1) = t - l BY <1>1
 <2>6. \A n \in 1..t : n > t - l => n \notin Flagged(s, rows, t) BY <1>1
 <2>7. Flagged(s, rows, t + 1) = Flagged(s, rows, t) \cup {n \in 1..(t + 1) : n > t - l} BY <1>5, <2>2, <2>3
 <2> QED BY <1>3, <2>1, <2>4, <2>5, <2>6, <2>7
<1>8. CASE ~MatchesRow(s, rows[t + 1]) /\ after > 0
 <2>1. f.emit = <<t + 1>> /\ f.buf = kept /\ f.after = after - 1 /\ kept = <<>> /\ l = 0 BY <1>1, <1>8 DEF Flushed
 <2>2. PICK m \in 1..t : MatchesRow(s, rows[m]) /\ rows[m].part = q /\ m + A = t + after BY <1>1, <1>8
 <2>3. t + 1 \in Flagged(s, rows, t + 1)
  <3>1. t + 1 <= m + A /\ m <= (t + 1) + B /\ m \in 1..(t + 1) BY <1>0, <1>1, <1>8, <2>2
  <3> QED BY <1>0, <2>2, <3>1 DEF Flagged, InContext
 <2>4. \A n \in Flagged(s, rows, t + 1) : n \in Flagged(s, rows, t) \/ n = t + 1 BY <1>5, <1>8 DEF InContext
 <2>5. Extractor(s, rows, t + 1, q, <<>>, after - 1)
  <3>1. after - 1 \in Nat /\ m \in 1..(t + 1) /\ m + A = (t + 1) + (after - 1) BY <1>0, <1>1, <1>8, <2>2
  <3>2. \A k \in 1..(t + 1) : MatchesRow(s, rows[k]) /\ rows[k].part = q => k + A <= (t + 1) + (after - 1)
   <4>1. (t + 1) + (after - 1) = t + after BY <1>1
   <4> QED BY <1>1, <1>6, <1>8, <4>1
  <3>3. \A n \in 1..(t + 1) : ~(n > t + 1 - 0) OBVIOUS
  <3>4. \A n \in 1..(t + 1) : rows[n].part = q /\ n + B > t + 1 /\ n \notin Flagged(s, rows, t + 1) => FALSE
   <4> SUFFICES ASSUME NEW n \in 1..(t + 1), rows[n].part = q, n + B > t + 1, n \notin Flagged(s, rows, t + 1)
                PROVE  FALSE OBVIOUS
   <4>1. n # t + 1 /\ n \in 1..t /\ n \notin Flagged(s, rows, t) BY <1>5, <1>6, <2>3
   <4> QED BY <1>0, <1>1, <2>1, <4>1
  <3>5. 0 \in 0..(t + 1) /\ 0 <= B BY <1>0
  <3> QED BY <1>4, <2>2, <3>1, <3>2, <3>3, <3>4, <3>5 DEF Extractor
 <2>6. Len(<<t + 1>>) = 1 /\ LastOnes(t + 1, 1) = <<t + 1>> /\ 1 \in 0..(t + 1)
  <3>1. LastOnes(t + 1, 1) = [j \in 1..1 |-> t + 1] BY DEF LastOnes
  <3>2. <<t + 1>> = [j \in 1..1 |-> t + 1] OBVIOUS
  <3> QED BY <3>1, <3>2
 <2>7. \A n \in 1..t : ~(n > t + 1 - 1) OBVIOUS
 <2>8. \A n \in 1..(t + 1) : n > t + 1 - 1 <=> n = t + 1 OBVIOUS
 <2>9. Flagged(s, rows, t + 1) = Flagged(s, rows, t) \cup {n \in 1..(t + 1) : n > t + 1 - 1}
   BY <1>0, <1>5, <2>3, <2>4, <2>8
 <2> QED BY <2>1, <2>5, <2>6, <2>7, <2>9
<1>9. CASE ~MatchesRow(s, rows[t + 1]) /\ ~(after > 0)
 <2> DEFINE a == Append(kept, t + 1)
            u == IF l < B THEN a ELSE Tail(a)
            k == IF l < B THEN l + 1 ELSE l
 <2>1. f.emit = <<>> /\ f.buf = u /\ f.after = 0 /\ after = 0 BY <1>1, <1>9 DEF Flushed
 <2>2. Flagged(s, rows, t + 1) = Flagged(s, rows, t)
  <3>1. \A m \in 1..t : ~InContext(s, rows, m, t + 1)
   <4> SUFFICES ASSUME NEW m \in 1..t, InContext(s, rows, m, t + 1) PROVE FALSE OBVIOUS
   <4>1. MatchesRow(s, rows[m]) /\ rows[m].part = q /\ t + 1 <= m + A BY DEF InContext
   <4>2. m + A <= t + 0 BY <1>1, <2>1, <4>1
   <4> QED BY <1>0, <4>1, <4>2
  <3>2. \A n : ~InContext(s, rows, t + 1, n) BY <1>9 DEF InContext
  <3> QED BY <1>5, <3>1, <3>2
 <2>3. t + 1 \notin Flagged(s, rows, t + 1) BY <1>5, <2>2
 <2>4. k \in 0..(t + 1) /\ k <= B /\ (l < B => k = l + 1) /\ (~(l < B) => k = l /\ l = B) BY <1>0, <1>1
 <2>5. u = LastOnes(t + 1, k) /\ Len(u) = k
  <3>1. CASE l < B BY <1>3, <3>1
  <3>2. CASE ~(l < B)
   <4>1. a \in Seq(Nat) /\ Len(a) = l + 1 /\ \A j \in 1..(l + 1) : a[j] = (t + 1) - (l + 1) + j
     BY <1>1, <1>2, <1>3 DEF LastOnes
   <4> DEFINE b == LastOnes(t + 1, l)
   <4>2. b \in Seq(Nat) /\ Len(b) = l /\ \A j \in 1..l : b[j] = (t + 1) - l + j BY <1>1 DEF LastOnes
   <4> HIDE DEF a, b, l
   <4>3. a # <<>> /\ Tail(a) \in Seq(Nat) /\ Len(Tail(a)) = l BY <1>1, <4>1
   <4>4. \A j \in 1..l : Tail(a)[j] = a[j + 1] BY <1>1, <4>1, <4>3
   <4>5. \A j \in 1..l : Tail(a)[j] = b[j]
    <5> SUFFICES ASSUME NEW j \in 1..l PROVE Tail(a)[j] = b[j] OBVIOUS
    <5>1. j + 1 \in 1..(l + 1) /\ (t + 1) - (l + 1) + (j + 1) = (t + 1) - l + j BY <1>1
    <5> QED BY <4>1, <4>2, <4>4, <5>1
   <4>6. Tail(a) = b BY <4>2, <4>3, <4>5, SeqEqual
   <4> QED BY <3>2, <4>3, <4>6 DEF b
  <3> QED BY <3>1, <3>2
 <2> HIDE DEF u, k
 <2>6. Extractor(s, rows, t + 1, q, u, 0)
  <3>1. \A m \in 1..(t + 1) : MatchesRow(s, rows[m]) /\ rows[m].part = q => m + A <= (t + 1) + 0
   <4> SUFFICES ASSUME NEW m \in 1..(t + 1), MatchesRow(s, rows[m]), rows[m].part = q PROVE m + A <= (t + 1) + 0
     OBVIOUS
   <4>1. m \in 1..t BY <1>6, <1>9
   <4>2. m + A <= t + 0 BY <1>1, <2>1, <4>1
   <4> QED BY <1>0, <4>1, <4>2
  <3>2. \A n \in 1..(t + 1) : n > t + 1 - k => rows[n].part = q /\ n \notin Flagged(s, rows, t + 1)
   <4> SUFFICES ASSUME NEW n \in 1..(t + 1), n > t + 1 - k PROVE rows[n].part = q /\ n \notin Flagged(s, rows, t + 1)
     OBVIOUS
   <4>1. CASE n = t + 1 BY <2>3, <4>1
   <4>2. CASE n \in 1..t
    <5>1. n > t - l BY <1>0, <1>1, <2>4, <4>2
    <5> QED BY <1>1, <2>2, <4>2, <5>1
   <4> QED BY <1>6, <4>1, <4>2
  <3>3. \A n \in 1..(t + 1) : rows[n].part = q /\ n + B > t + 1 /\ n \notin Flagged(s, rows, t + 1) => n > t + 1 - k
   <4> SUFFICES ASSUME NEW n \in 1..(t + 1), rows[n].part = q, n + B > t + 1, n \notin Flagged(s, rows, t + 1)
                PROVE  n > t + 1 - k OBVIOUS
   <4>1. CASE ~(l < B) BY <1>0, <1>1, <2>4, <4>1
   <4>2. CASE l < B /\ n = t + 1 BY <1>0, <1>1, <2>4, <4>2
   <4>3. CASE l < B /\ n \in 1..t
    <5>1. n > t - l BY <1>0, <1>1, <2>2, <4>3
    <5> QED BY <1>1, <2>4, <4>3, <5>1
   <4> QED BY <1>6, <4>1, <4>2, <4>3
  <3> QED BY <2>4, <2>5, <3>1, <3>2, <3>3 DEF Extractor
 <2>7. \A n \in 1..(t + 1) : ~(n > t + 1 - 0) OBVIOUS
 <2>8. {n \in 1..(t + 1) : n > t + 1 - 0} = {} /\ \A n \in 1..t : ~(n > t + 1 - 0) BY <2>7
 <2>9. 0 \in 0..(t + 1) OBVIOUS
 <2> QED BY <1>4, <2>1, <2>2, <2>6, <2>8, <2>9
<1> QED BY <1>7, <1>8, <1>9

\* The window of a statement that was recognised.  The CASE has the value that the WHERE
\* asks for under its first WHEN, and a lesser one otherwise, and nothing filters the rows
\* of the window; the recogniser takes both for granted.
StatementOK(s, rows) ==
  /\ s.beg \in Int /\ s.end \in Int /\ s.flag \in Int
  /\ Len(s.whens) \in Nat /\ DOMAIN s.whens = 1..Len(s.whens)
  /\ s.whens[1].then = s.flag
  /\ s.else \in Int /\ s.else < s.flag
  /\ \A w \in 2..Len(s.whens) : s.whens[w].then \in Int /\ s.whens[w].then < s.flag
  /\ s.below => \A n \in 1..Len(rows) : rows[n].keep

ContextConfigOK(c) ==
  /\ Len(c.stmts) \in Nat /\ DOMAIN c.stmts = 1..Len(c.stmts)
  /\ \A i, j \in DOMAIN c.stmts : c.stmts[i].label = c.stmts[j].label => i = j
  /\ Len(c.rows) \in Nat /\ DOMAIN c.rows = 1..Len(c.rows) /\ \A n \in 1..Len(c.rows) : c.rows[n].part \in Int
  /\ c.elide => Contiguous(c.rows)
  /\ \A i \in DOMAIN c.stmts : recognizeContextEntry(c.stmts[i]) => StatementOK(c.stmts[i], c.rows)

\* The CASE has the value of the flag for the rows that match, and for no other.
LEMMA CaseIsFlag ==
  ASSUME NEW s, NEW rows, StatementOK(s, rows), Len(s.whens) >= 1, NEW row
  PROVE  /\ CaseVal(s, row) \in Int /\ CaseVal(s, row) <= s.flag
         /\ CaseVal(s, row) = s.flag <=> MatchesRow(s, row)
<1> DEFINE arms == {i \in DOMAIN s.whens : s.whens[i].pred \in row.hits}
<1>1. /\ s.flag \in Int /\ Len(s.whens) \in Nat /\ DOMAIN s.whens = 1..Len(s.whens) /\ s.whens[1].then = s.flag
      /\ s.else \in Int /\ s.else < s.flag
      /\ \A w \in 2..Len(s.whens) : s.whens[w].then \in Int /\ s.whens[w].then < s.flag BY DEF StatementOK
<1>2. MatchesRow(s, row) <=> 1 \in arms BY <1>1 DEF MatchesRow, MatchPred
<1>3. CaseVal(s, row) = IF arms = {} THEN s.else ELSE s.whens[LeastOf(arms)].then BY DEF CaseVal
<1>4. arms \in SUBSET (1..Len(s.whens)) BY <1>1
<1> HIDE DEF arms
<1>5. CASE arms = {} BY <1>1, <1>2, <1>3, <1>5
<1>6. CASE arms # {}
 <2>1. LeastOf(arms) \in arms /\ \A y \in arms : LeastOf(arms) <= y
   BY <1>1, <1>4, <1>6, 1 \in Int, Len(s.whens) \in Int, MinMax
 <2>2. LeastOf(arms) \in 1..Len(s.whens) BY <1>4, <2>1
 <2>3. CASE 1 \in arms
  <3>1. LeastOf(arms) = 1 BY <2>1, <2>2, <2>3
  <3> QED BY <1>1, <1>2, <1>3, <1>6, <2>3, <3>1
 <2>4. CASE 1 \notin arms
  <3>1. LeastOf(arms) \in 2..Len(s.whens) BY <1>1, <2>1, <2>2, <2>4
  <3> QED BY <1>1, <1>2, <1>3, <1>6, <2>4, <3>1
 <2> QED BY <2>3, <2>4
<1> QED BY <1>5, <1>6

\* The greatest of some integers up to g is g when g is one of them.
LEMMA MostIsTop ==
  ASSUME NEW g \in Int, NEW V \in SUBSET Int, \A v \in V : v <= g, V # {}
  PROVE  MostOf(V) = g <=> g \in V
<1>1. CASE g \in V
 <2>1. \A m \in V : (\A y \in V : y <= m) => m = g BY <1>1
 <2>2. MostOf(V) = g BY <1>1, <2>1 DEF MostOf
 <2> QED BY <1>1, <2>2
<1>2. CASE g \notin V
 <2> DEFINE T == {g - v : v \in V}
 <2>1. T \in SUBSET Nat /\ T # {}
  <3>1. \A v \in V : g - v \in Nat OBVIOUS
  <3> QED BY <3>1
 <2>2. PICK d \in T : \A y \in T : d <= y BY <2>1, LeastNumber
 <2>3. PICK x \in V : d = g - x OBVIOUS
 <2>4. \A y \in V : y <= x
  <3> SUFFICES ASSUME NEW y \in V PROVE y <= x OBVIOUS
  <3>1. g - x <= g - y BY <2>2, <2>3
  <3> QED BY <3>1
 <2>5. MostOf(V) \in V BY <2>4 DEF MostOf
 <2> QED BY <1>2, <2>5
<1> QED BY <1>1, <1>2

\* The rows of a partition have the places of their numbers, up to a constant.
LEMMA PlacesAreNumbers ==
  ASSUME NEW s, Len(cxSorted) \in Nat, Contiguous(cxSorted), InnerRows(s) = 1..Len(cxSorted),
         NEW n \in 1..Len(cxSorted), NEW m \in 1..Len(cxSorted), cxSorted[m].part = cxSorted[n].part
  PROVE  PlaceIn(s, m) \in Nat /\ PlaceIn(s, m) - PlaceIn(s, n) = m - n
<1> DEFINE q == cxSorted[n].part
           P == {k \in 1..Len(cxSorted) : cxSorted[k].part = q}
<1>1. PICK f \in P : \A k \in P : f <= k
 <2>1. P \in SUBSET Nat /\ n \in P OBVIOUS
 <2> QED BY <2>1, LeastNumber
<1>2. ASSUME NEW k \in P PROVE PlaceIn(s, k) = k - f /\ k - f \in Nat
 <2> DEFINE S == {j \in InnerRows(s) : j < k /\ cxSorted[j].part = cxSorted[k].part}
 <2>1. S = f..(k - 1)
  <3>1. \A j \in S : j \in f..(k - 1)
   <4> SUFFICES ASSUME NEW j \in S PROVE j \in f..(k - 1) OBVIOUS
   <4>1. j \in P /\ j < k /\ j \in 1..Len(cxSorted) OBVIOUS
   <4>2. f <= j /\ f \in Int /\ k \in Int BY <1>1, <4>1
   <4> QED BY <4>1, <4>2
  <3>2. \A j \in f..(k - 1) : j \in S
   <4> SUFFICES ASSUME NEW j \in f..(k - 1) PROVE j \in S OBVIOUS
   <4>1. f \in 1..Len(cxSorted) /\ k \in 1..Len(cxSorted) /\ cxSorted[f].part = q /\ cxSorted[k].part = q BY <1>1
   <4>2. j \in 1..Len(cxSorted) /\ j < k BY <4>1
   <4>3. cxSorted[j].part = q
    <5>1. CASE j = f BY <4>1, <5>1
    <5>2. CASE j # f
     <6>1. f < j BY <4>1, <5>2
     <6> QED BY <4>1, <4>2, <6>1 DEF Contiguous
    <5> QED BY <5>1, <5>2
   <4> QED BY <4>1, <4>2, <4>3
  <3> QED BY <3>1, <3>2
 <2>2. f \in Int /\ k - 1 \in Int /\ f <= k BY <1>1
 <2>3. Cardinality(f..(k - 1)) = k - f
  <3>1. Cardinality(f..(k - 1)) = IF f > k - 1 THEN 0 ELSE (k - 1) - f + 1 BY <2>2, FS_Interval
  <3> QED BY <2>2, <3>1
 <2>4. PlaceIn(s, k) = Cardinality(S) BY DEF PlaceIn
 <2> HIDE DEF S
 <2> QED BY <2>1, <2>2, <2>3, <2>4
<1>3. n \in P /\ m \in P OBVIOUS
<1> HIDE DEF P
<1>4. PlaceIn(s, m) = m - f /\ PlaceIn(s, n) = n - f /\ m - f \in Nat /\ n - f \in Nat BY <1>2, <1>3
<1>5. f \in Int BY <1>1 DEF P
<1> QED BY <1>4, <1>5

\* What the statement selects is what its matches flag.
LEMMA SelectedAreFlagged ==
  ASSUME NEW s, recognizeContextEntry(s), StatementOK(s, cxSorted), Len(cxSorted) \in Nat, Contiguous(cxSorted)
  PROVE  SelectedRows(s) = Flagged(s, cxSorted, Len(cxSorted))
<1> DEFINE N == 1..Len(cxSorted)
<1>1. InnerRows(s) = N BY DEF InnerRows, StatementOK
<1>2. s.beg \in Int /\ s.end \in Int /\ s.flag \in Int /\ -s.beg >= 0 /\ s.end >= 0 /\ Len(s.whens) >= 1
  BY DEF StatementOK, recognizeContextEntry, FrameOK
<1>3. ASSUME NEW n \in N
      PROVE  FlagOf(s, n) = s.flag <=> \E m \in N : InContext(s, cxSorted, m, n)
 <2> DEFINE F == FrameOf(s, n)
            V == {CaseVal(s, cxSorted[m]) : m \in F}
 <2>1. ASSUME NEW m \in N
       PROVE  m \in F <=> cxSorted[m].part = cxSorted[n].part /\ n <= m + AfterMatch(s) /\ m <= n + BeforeMatch(s)
  <3>1. CASE cxSorted[m].part = cxSorted[n].part
   <4>1. PlaceIn(s, m) - PlaceIn(s, n) = m - n BY <1>1, <3>1, PlacesAreNumbers
   <4>2. m \in F <=> m - n \in s.beg..s.end BY <1>1, <3>1, <4>1 DEF FrameOf
   <4>3. m - n \in s.beg..s.end <=> n <= m + (-s.beg) /\ m <= n + s.end BY <1>2
   <4> QED BY <3>1, <4>2, <4>3 DEF AfterMatch, BeforeMatch
  <3>2. CASE cxSorted[m].part # cxSorted[n].part BY <3>2 DEF FrameOf
  <3> QED BY <3>1, <3>2
 <2>2. F \subseteq N BY <1>1 DEF FrameOf
 <2>3. n \in F
  <3>1. n <= n + AfterMatch(s) /\ n <= n + BeforeMatch(s) BY <1>2 DEF AfterMatch, BeforeMatch
  <3> QED BY <2>1, <3>1
 <2> HIDE DEF F
 <2>4. \A m : CaseVal(s, cxSorted[m]) \in Int /\ CaseVal(s, cxSorted[m]) <= s.flag
              /\ (CaseVal(s, cxSorted[m]) = s.flag <=> MatchesRow(s, cxSorted[m])) BY <1>2, CaseIsFlag
 <2>5. V \in SUBSET Int /\ V # {} /\ \A v \in V : v <= s.flag BY <2>3, <2>4
 <2>6. FlagOf(s, n) = s.flag <=> s.flag \in V
  <3>1. FlagOf(s, n) = MostOf(V) BY DEF FlagOf, F
  <3> HIDE DEF V
  <3>2. MostOf(V) = s.flag <=> s.flag \in V BY <1>2, <2>5, MostIsTop
  <3> QED BY <3>1, <3>2
 <2>7. s.flag \in V <=> \E m \in F : MatchesRow(s, cxSorted[m]) BY <2>4
 <2>8. (\E m \in F : MatchesRow(s, cxSorted[m])) <=> \E m \in N : InContext(s, cxSorted, m, n)
   BY <2>1, <2>2 DEF InContext
 <2> QED BY <2>6, <2>7, <2>8
<1> QED BY <1>1, <1>3 DEF SelectedRows, Flagged

\* The label result of a row, and all of them.
ResultOf(i, n) == [label |-> cxCfg.stmts[i].label, row |-> n]
Results == {ResultOf(i, n) : i \in DOMAIN cxCfg.stmts, n \in Nat}

\* When one sequence only has x, their concatenation has it as often.
LEMMA TimesInOne ==
  ASSUME NEW T, NEW ss, NEW n \in Nat, \A j \in 1..n : ss[j] \in Seq(T), NEW x, NEW i \in 1..n,
         \A j \in 1..n : j # i => Times(ss[j], x) = 0
  PROVE  Times(Concat(Upto(ss, n)), x) = Times(ss[i], x)
<1> DEFINE B == {k \in 0..n : Times(Concat(Upto(ss, k)), x) # IF i <= k THEN Times(ss[i], x) ELSE 0}
<1>1. SUFFICES ASSUME B # {} PROVE FALSE OBVIOUS
<1>2. PICK k \in B : \A y \in B : k <= y
 <2>1. B \in SUBSET Nat OBVIOUS
 <2> QED BY <1>1, <2>1, LeastNumber
<1>3. k \in 0..n /\ Times(Concat(Upto(ss, k)), x) # IF i <= k THEN Times(ss[i], x) ELSE 0 BY <1>2
<1>4. k # 0
 <2>1. Times(Concat(Upto(ss, 0)), x) = 0 BY ConcatGrows, TimesEmpty
 <2> QED BY <1>3, <2>1
<1>5. k - 1 \in 0..n /\ k - 1 \notin B /\ k \in 1..n /\ k - 1 \in Nat /\ (k - 1) + 1 = k
 <2>1. k - 1 \in 0..n /\ k \in 1..n /\ k - 1 \in Nat /\ (k - 1) + 1 = k /\ ~(k <= k - 1) BY <1>3, <1>4
 <2> QED BY <1>2, <2>1
<1>6. Times(Concat(Upto(ss, k - 1)), x) = IF i <= k - 1 THEN Times(ss[i], x) ELSE 0 BY <1>5
<1>7. Concat(Upto(ss, k)) = Concat(Upto(ss, k - 1)) \o ss[k]
 <2>1. Concat(Upto(ss, (k - 1) + 1)) = Concat(Upto(ss, k - 1)) \o ss[(k - 1) + 1] BY <1>5, ConcatGrows
 <2> QED BY <1>5, <2>1
<1>8. Concat(Upto(ss, k - 1)) \in Seq(T) /\ ss[k] \in Seq(T) BY <1>5, ConcatType
<1>9. Times(Concat(Upto(ss, k)), x) = Times(Concat(Upto(ss, k - 1)), x) + Times(ss[k], x) BY <1>7, <1>8, TimesConcat
<1>10. Times(ss[k], x) \in Nat BY <1>8, TimesType
<1>11. i \in Int /\ k \in Int BY <1>3
<1>12. CASE k = i BY <1>3, <1>6, <1>9, <1>10, <1>11, <1>12
<1>13. CASE k # i
 <2>1. Times(ss[k], x) = 0 /\ (i <= k <=> i <= k - 1) BY <1>5, <1>11, <1>13
 <2>2. Times(Concat(Upto(ss, k - 1)), x) \in Nat BY <1>8, TimesType
 <2> QED BY <1>3, <1>6, <1>9, <2>1, <2>2
<1> QED BY <1>12, <1>13

\* The last rows as results ...
LEMMA LabelledIs ==
  ASSUME NEW i \in DOMAIN cxCfg.stmts, NEW t \in Nat, NEW l \in 0..t, NEW s, s = LabelResults(i, LastOnes(t, l))
  PROVE  s \in Seq(Results) /\ DOMAIN s = 1..l /\ \A j \in 1..l : s[j] = ResultOf(i, t - l + j)
<1>1. s = [j \in 1..l |-> ResultOf(i, t - l + j)] BY DEF LabelResults, LastOnes, ResultOf
<1>2. \A j \in 1..l : t - l + j \in Nat OBVIOUS
<1>3. \A j \in 1..l : ResultOf(i, t - l + j) \in Results BY <1>2 DEF Results
<1> QED BY <1>1, <1>3

\* ... are there once each ...
LEMMA TimesLabelled ==
  ASSUME NEW i \in DOMAIN cxCfg.stmts, NEW t \in Nat, NEW l \in 0..t, NEW n \in Nat
  PROVE  Times(LabelResults(i, LastOnes(t, l)), ResultOf(i, n)) = IF n \in 1..t /\ n > t - l THEN 1 ELSE 0
<1> DEFINE s == LabelResults(i, LastOnes(t, l))
<1>1. DOMAIN s = 1..l /\ \A j \in 1..l : s[j] = ResultOf(i, t - l + j) BY LabelledIs
<1> HIDE DEF s
<1>2. \A m : ResultOf(i, m) = ResultOf(i, n) <=> m = n BY DEF ResultOf
<1>3. {j \in DOMAIN s : s[j] = ResultOf(i, n)} = {j \in 1..l : t - l + j = n} BY <1>1, <1>2
<1>4. CASE n \in 1..t /\ n > t - l
 <2>1. {j \in 1..l : t - l + j = n} = {n - (t - l)}
  <3>1. n - (t - l) \in 1..l /\ \A j \in 1..l : t - l + j = n <=> j = n - (t - l) BY <1>4
  <3> QED BY <3>1
 <2> QED BY <1>3, <1>4, <2>1, FS_Singleton DEF Times, s
<1>5. CASE ~(n \in 1..t /\ n > t - l)
 <2>1. {j \in 1..l : t - l + j = n} = {} BY <1>5
 <2> QED BY <1>3, <1>5, <2>1, FS_EmptySet DEF Times, s
<1> QED BY <1>4, <1>5

\* ... and no other statement's are.
LEMMA TimesUnlabelled ==
  ASSUME NEW i \in DOMAIN cxCfg.stmts, NEW t \in Nat, NEW l \in 0..t, NEW k \in DOMAIN cxCfg.stmts, NEW n,
         cxCfg.stmts[k].label # cxCfg.stmts[i].label
  PROVE  Times(LabelResults(i, LastOnes(t, l)), ResultOf(k, n)) = 0
<1> DEFINE s == LabelResults(i, LastOnes(t, l))
<1>1. DOMAIN s = 1..l /\ \A j \in 1..l : s[j] = ResultOf(i, t - l + j) BY LabelledIs
<1> HIDE DEF s
<1>2. \A m : ResultOf(i, m) # ResultOf(k, n) BY DEF ResultOf
<1>3. {j \in DOMAIN s : s[j] = ResultOf(k, n)} = {} BY <1>1, <1>2
<1> QED BY <1>3, FS_EmptySet DEF Times, s

-----------------------------------------------------------------------------
(* The stream.                                                             *)

\* The rows as the extractors get them.
Streamed ==
  /\ Len(cxSorted) \in Nat /\ Contiguous(cxSorted)
  /\ \A i \in cxGroup : StatementOK(cxCfg.stmts[i], cxSorted)

\* What has been yielded, and what the extractors keep.
Extracted ==
  /\ cxAt \in 0..Len(cxSorted)
  /\ cxAt > 0 => cxPrev = cxSorted[cxAt].part
  /\ DOMAIN cxBuf = cxGroup
  /\ \A i \in cxGroup : Extractor(cxCfg.stmts[i], cxSorted, cxAt, cxPrev, cxBuf[i], cxAfter[i])
  /\ cxOut \in Seq(Results)
  /\ \A i \in cxGroup, n \in Nat :
       Times(cxOut, ResultOf(i, n)) = IF n \in Flagged(cxCfg.stmts[i], cxSorted, cxAt) THEN 1 ELSE 0

ContextInv ==
  /\ ContextConfigOK(cxCfg)
  /\ cxPc \in {"compile", "sort", "rows", "done"}
  /\ cxPc \in {"compile", "sort"} => cxAt = 0 /\ cxBuf = <<>> /\ cxOut = <<>>
  /\ cxPc # "compile" => cxGroup = {i \in DOMAIN cxCfg.stmts : recognizeContextEntry(cxCfg.stmts[i])}
  /\ cxPc \in {"rows", "done"} => Streamed /\ Extracted
  /\ cxPc = "done" => cxAt = Len(cxSorted)

\* A statement that was recognised looks at no more than a number of rows on each side.
LEMMA RecognisedFramed ==
  ASSUME NEW s, NEW rows, recognizeContextEntry(s), StatementOK(s, rows)
  PROVE  Framed(s)
BY DEF Framed, recognizeContextEntry, FrameOK, StatementOK, BeforeMatch, AfterMatch

\* The rows in the order p.
Reordered(rows, p) == [n \in DOMAIN rows |-> rows[p[n]]]

\* Sorted rows have their partitions one after the other.
LEMMA SortedContiguous ==
  ASSUME NEW rows, Len(rows) \in Nat, DOMAIN rows = 1..Len(rows), \A n \in 1..Len(rows) : rows[n].part \in Int,
         NEW p, p \in Orders(rows)
  PROVE  /\ Len(Reordered(rows, p)) = Len(rows) /\ Contiguous(Reordered(rows, p))
         /\ \A n \in 1..Len(rows) : \E m \in 1..Len(rows) : Reordered(rows, p)[n] = rows[m]
<1> DEFINE N == 1..Len(rows)
           sorted == Reordered(rows, p)
<1>1. \A n \in N : p[n] \in N /\ sorted[n] = rows[p[n]] BY DEF Orders, Reordered
<1>2. Len(sorted) = Len(rows) BY DEF Reordered
<1> HIDE DEF sorted
<1>3. \A i, j \in N : i < j => ~(sorted[j].part < sorted[i].part)
 <2>1. \A i, j \in N : i < j => ~RowPrecedes(rows[p[j]], rows[p[i]]) BY DEF Orders
 <2> QED BY ONLY <1>1, <2>1 DEF RowPrecedes
<1>4. \A n \in N : sorted[n].part \in Int BY <1>1
<1>5. Contiguous(sorted)
 <2> SUFFICES ASSUME NEW i \in N, NEW j \in N, NEW k \in N, i < j, j < k, sorted[i].part = sorted[k].part
              PROVE  sorted[j].part = sorted[i].part BY <1>2 DEF Contiguous
 <2>1. ~(sorted[j].part < sorted[i].part) /\ ~(sorted[k].part < sorted[j].part) BY <1>3
 <2>2. sorted[i].part \in Int /\ sorted[j].part \in Int /\ sorted[k].part \in Int BY <1>4
 <2> QED BY <2>1, <2>2
<1> QED BY <1>1, <1>2, <1>5 DEF sorted

\* The sort, or the scan in its place, brings the partitions one after the other.
LEMMA SortRowsStep ==
  ASSUME ContextInv, SortRows
  PROVE  ContextInv'
<1>1. /\ cxPc = "sort" /\ cxPc' = "rows" /\ cxCfg' = cxCfg /\ cxGroup' = cxGroup /\ cxAt' = cxAt /\ cxPrev' = cxPrev
      /\ cxOut' = cxOut /\ cxBuf' = [i \in cxGroup |-> <<>>] /\ cxAfter' = [i \in cxGroup |-> 0]
      /\ cxAt = 0 /\ cxOut = <<>> /\ ContextConfigOK(cxCfg)
      /\ cxGroup = {i \in DOMAIN cxCfg.stmts : recognizeContextEntry(cxCfg.stmts[i])} BY DEF ContextInv, SortRows
<1>2. /\ Len(cxSorted') \in Nat /\ Contiguous(cxSorted')
      /\ \A n \in 1..Len(cxSorted') : \E m \in 1..Len(cxCfg.rows) : cxSorted'[n] = cxCfg.rows[m]
 <2>1. Len(cxCfg.rows) \in Nat /\ DOMAIN cxCfg.rows = 1..Len(cxCfg.rows) /\ \A n \in 1..Len(cxCfg.rows) : cxCfg.rows[n].part \in Int
   BY <1>1 DEF ContextConfigOK
 <2>2. CASE cxCfg.elide
  <3>1. cxSorted' = cxCfg.rows /\ Contiguous(cxCfg.rows) BY <1>1, <2>2 DEF SortRows, ContextConfigOK
  <3> QED BY <2>1, <3>1
 <2>3. CASE ~cxCfg.elide
  <3>1. PICK p \in Orders(cxCfg.rows) : cxSorted' = Reordered(cxCfg.rows, p) BY <2>3 DEF SortRows, Reordered
  <3>2. /\ Len(Reordered(cxCfg.rows, p)) = Len(cxCfg.rows) /\ Contiguous(Reordered(cxCfg.rows, p))
        /\ \A n \in 1..Len(cxCfg.rows) : \E m \in 1..Len(cxCfg.rows) : Reordered(cxCfg.rows, p)[n] = cxCfg.rows[m]
   <4> DEFINE rows == cxCfg.rows
   <4>1. Len(rows) \in Nat /\ DOMAIN rows = 1..Len(rows) /\ (\A n \in 1..Len(rows) : rows[n].part \in Int) /\ p \in Orders(rows)
     BY <2>1, <3>1
   <4> HIDE DEF rows
   <4>2. /\ Len(Reordered(rows, p)) = Len(rows) /\ Contiguous(Reordered(rows, p))
         /\ \A n \in 1..Len(rows) : \E m \in 1..Len(rows) : Reordered(rows, p)[n] = rows[m] BY <4>1, SortedContiguous
   <4> QED BY <4>2 DEF rows
  <3> QED BY <2>1, <3>1, <3>2
 <2> QED BY <2>2, <2>3
<1>3. ASSUME NEW i \in cxGroup PROVE StatementOK(cxCfg.stmts[i], cxSorted') /\ Framed(cxCfg.stmts[i])
 <2>1. StatementOK(cxCfg.stmts[i], cxCfg.rows) /\ recognizeContextEntry(cxCfg.stmts[i]) BY <1>1 DEF ContextConfigOK
 <2>2. StatementOK(cxCfg.stmts[i], cxSorted') BY <1>2, <2>1 DEF StatementOK
 <2> QED BY <2>1, <2>2, RecognisedFramed
<1>4. Streamed' BY <1>1, <1>2, <1>3 DEF Streamed
<1>5. ASSUME NEW i \in cxGroup
      PROVE  /\ Extractor(cxCfg.stmts[i], cxSorted', 0, cxPrev, <<>>, 0)
             /\ Flagged(cxCfg.stmts[i], cxSorted', 0) = {}
 <2>1. \A n \in 1..0 : cxSorted'[n].part # cxPrev OBVIOUS
 <2>2. Extractor(cxCfg.stmts[i], cxSorted', 0, cxPrev, <<>>, 0) BY <1>3, <2>1, 0 \in Nat, FreshExtractor
 <2> QED BY <2>2 DEF Flagged
<1>6. Extracted'
 <2>1. <<>> \in Seq(Results') /\ 0 \in 0..Len(cxSorted') /\ ~(0 > 0) BY <1>2
 <2>2. \A i \in cxGroup : cxBuf'[i] = <<>> /\ cxAfter'[i] = 0 BY <1>1
 <2>3. \A x : Times(<<>>, x) = 0 BY TimesEmpty
 <2> QED BY <1>1, <1>5, <2>1, <2>2, <2>3 DEF Extracted
<1> QED BY <1>1, <1>4, <1>6 DEF ContextInv

\* What an extractor makes of the next row.
Extracts(i) ==
  Flushed(cxCfg.stmts[i], IF AtBoundary(cxSorted[cxAt + 1]) THEN <<>> ELSE cxBuf[i],
          IF AtBoundary(cxSorted[cxAt + 1]) THEN 0 ELSE cxAfter[i], cxAt + 1, MatchesRow(cxCfg.stmts[i], cxSorted[cxAt + 1]))

\* What all of them yield.
NewResults == [i \in DOMAIN cxCfg.stmts |-> IF i \in cxGroup THEN LabelResults(i, Extracts(i).emit) ELSE <<>>]

\* Each extractor emits, for the first time, the rows that are flagged by now.
LEMMA ExtractsRight ==
  ASSUME Streamed, Extracted, cxAt < Len(cxSorted), NEW i \in cxGroup, recognizeContextEntry(cxCfg.stmts[i])
  PROVE  LET s == cxCfg.stmts[i]
             t == cxAt
             f == Extracts(i)
         IN  /\ t \in Nat /\ Extractor(s, cxSorted, t + 1, cxSorted[t + 1].part, f.buf, f.after)
             /\ Len(f.emit) \in 0..(t + 1) /\ f.emit = LastOnes(t + 1, Len(f.emit))
             /\ \A n \in 1..t : n > t + 1 - Len(f.emit) => n \notin Flagged(s, cxSorted, t)
             /\ Flagged(s, cxSorted, t + 1) = Flagged(s, cxSorted, t) \cup {n \in 1..(t + 1) : n > t + 1 - Len(f.emit)}
<1> DEFINE s == cxCfg.stmts[i]
           t == cxAt
           q == cxSorted[t + 1].part
           fresh == AtBoundary(cxSorted[t + 1])
           kept == IF fresh THEN <<>> ELSE cxBuf[i]
           after == IF fresh THEN 0 ELSE cxAfter[i]
<1>1. /\ Len(cxSorted) \in Nat /\ Contiguous(cxSorted) /\ StatementOK(s, cxSorted) /\ t \in Nat /\ t + 1 \in 1..Len(cxSorted)
      /\ t > 0 => cxPrev = cxSorted[t].part
      /\ Extractor(s, cxSorted, t, cxPrev, cxBuf[i], cxAfter[i]) BY DEF Streamed, Extracted
<1>2. Framed(s) BY <1>1, RecognisedFramed
<1>3. Extractor(s, cxSorted, t, q, kept, after)
 <2>1. CASE fresh
  <3>1. \A n \in 1..t : cxSorted[n].part # q
   <4> SUFFICES ASSUME NEW n \in 1..t, cxSorted[n].part = q PROVE FALSE OBVIOUS
   <4>1. t > 0 /\ t \in 1..Len(cxSorted) /\ n \in 1..Len(cxSorted) /\ cxSorted[t].part # q
     BY <1>1, <2>1 DEF AtBoundary
   <4>2. n < t /\ t < t + 1 BY <1>1, <4>1
   <4>3. cxSorted[t].part = cxSorted[n].part BY <1>1, <4>1, <4>2 DEF Contiguous
   <4> QED BY <4>1, <4>3
  <3>2. Extractor(s, cxSorted, t, q, <<>>, 0) BY <1>1, <1>2, <3>1, FreshExtractor
  <3> QED BY <2>1, <3>2
 <2>2. CASE ~fresh
  <3>1. q = cxPrev BY <2>2 DEF AtBoundary
  <3> QED BY <1>1, <2>2, <3>1
 <2> QED BY <2>1, <2>2
<1>4. Extracts(i) = Flushed(s, kept, after, t + 1, MatchesRow(s, cxSorted[t + 1])) BY DEF Extracts
<1> HIDE DEF s, t, kept, after, fresh
<1>5. LET f == Flushed(s, kept, after, t + 1, MatchesRow(s, cxSorted[t + 1]))
      IN  /\ Extractor(s, cxSorted, t + 1, cxSorted[t + 1].part, f.buf, f.after)
          /\ Len(f.emit) \in 0..(t + 1) /\ f.emit = LastOnes(t + 1, Len(f.emit))
          /\ \A n \in 1..t : n > t + 1 - Len(f.emit) => n \notin Flagged(s, cxSorted, t)
          /\ Flagged(s, cxSorted, t + 1) = Flagged(s, cxSorted, t) \cup {n \in 1..(t + 1) : n > t + 1 - Len(f.emit)}
 <2>1. t \in Nat /\ Framed(s) /\ Extractor(s, cxSorted, t, cxSorted[t + 1].part, kept, after) BY <1>1, <1>2, <1>3
 <2> QED BY ONLY <2>1, ExtractorStep
<1> QED BY <1>1, <1>4, <1>5 DEF s, t

\* On one row each result is yielded that is flagged for the first time, and no other.
LEMMA NewResultsRight ==
  ASSUME ContextConfigOK(cxCfg), Streamed, Extracted, cxAt < Len(cxSorted),
         cxGroup = {i \in DOMAIN cxCfg.stmts : recognizeContextEntry(cxCfg.stmts[i])}
  PROVE  /\ Concat(NewResults) \in Seq(Results)
         /\ \A i \in cxGroup, n \in Nat :
              Times(Concat(NewResults), ResultOf(i, n)) =
                IF n \in Flagged(cxCfg.stmts[i], cxSorted, cxAt + 1) /\ n \notin Flagged(cxCfg.stmts[i], cxSorted, cxAt) THEN 1 ELSE 0
<1> DEFINE N == Len(cxCfg.stmts)
           ss == NewResults
<1>1. N \in Nat /\ DOMAIN cxCfg.stmts = 1..N /\ cxAt \in Nat /\ cxAt + 1 \in Nat
      /\ \A i, j \in DOMAIN cxCfg.stmts : cxCfg.stmts[i].label = cxCfg.stmts[j].label => i = j
  BY DEF ContextConfigOK, Extracted
<1>2. ASSUME NEW i \in cxGroup
      PROVE  Len(Extracts(i).emit) \in 0..(cxAt + 1) /\ Extracts(i).emit = LastOnes(cxAt + 1, Len(Extracts(i).emit))
  BY ExtractsRight
<1>3. ASSUME NEW i \in 1..N PROVE ss[i] \in Seq(Results)
 <2>1. CASE i \in cxGroup
  <3> DEFINE l == Len(Extracts(i).emit)
  <3>1. l \in 0..(cxAt + 1) /\ Extracts(i).emit = LastOnes(cxAt + 1, l) /\ i \in DOMAIN cxCfg.stmts
    BY <1>1, <1>2, <2>1
  <3>2. ss[i] = LabelResults(i, Extracts(i).emit) BY <1>1, <2>1 DEF NewResults
  <3> HIDE DEF l, ss
  <3>3. LabelResults(i, LastOnes(cxAt + 1, l)) \in Seq(Results) BY <1>1, <3>1, LabelledIs
  <3> QED BY <3>1, <3>2, <3>3
 <2>2. CASE i \notin cxGroup BY <1>1, <2>2 DEF NewResults
 <2> QED BY <2>1, <2>2
<1>4. Upto(ss, N) = ss
 <2>1. ss = [i \in 1..N |-> ss[i]] BY <1>1 DEF NewResults
 <2> HIDE DEF ss, N
 <2> QED BY <1>1, <2>1, UptoAll
<1>5. Concat(ss) \in Seq(Results)
 <2>1. \A k \in 0..N : Concat(Upto(ss, k)) \in Seq(Results)
  <3> HIDE DEF ss, N
  <3> QED BY <1>1, <1>3, ConcatType
 <2>2. N \in 0..N BY <1>1
 <2> QED BY <1>4, <2>1, <2>2
<1>6. ASSUME NEW i \in cxGroup, NEW n \in Nat
      PROVE  Times(Concat(ss), ResultOf(i, n)) =
               IF n \in Flagged(cxCfg.stmts[i], cxSorted, cxAt + 1) /\ n \notin Flagged(cxCfg.stmts[i], cxSorted, cxAt) THEN 1 ELSE 0
 <2> DEFINE x == ResultOf(i, n)
            l == Len(Extracts(i).emit)
            F == Flagged(cxCfg.stmts[i], cxSorted, cxAt)
            G == Flagged(cxCfg.stmts[i], cxSorted, cxAt + 1)
 <2>1. i \in 1..N /\ i \in DOMAIN cxCfg.stmts /\ recognizeContextEntry(cxCfg.stmts[i]) BY <1>1
 <2>2. ASSUME NEW j \in 1..N, j # i PROVE Times(ss[j], x) = 0
  <3>1. CASE j \in cxGroup
   <4> DEFINE k == Len(Extracts(j).emit)
   <4>1. k \in 0..(cxAt + 1) /\ Extracts(j).emit = LastOnes(cxAt + 1, k) /\ j \in DOMAIN cxCfg.stmts
     BY <1>1, <1>2, <3>1
   <4>2. ss[j] = LabelResults(j, Extracts(j).emit) BY <1>1, <3>1 DEF NewResults
   <4>3. cxCfg.stmts[i].label # cxCfg.stmts[j].label BY <1>1, <2>1, <2>2, <4>1
   <4> HIDE DEF k, ss
   <4>4. Times(LabelResults(j, LastOnes(cxAt + 1, k)), x) = 0 BY <1>1, <2>1, <4>1, <4>3, TimesUnlabelled
   <4> QED BY <4>1, <4>2, <4>4
  <3>2. CASE j \notin cxGroup
   <4>1. ss[j] = <<>> BY <1>1, <3>2 DEF NewResults
   <4> HIDE DEF ss, x
   <4> QED BY <4>1, TimesEmpty
  <3> QED BY <3>1, <3>2
 <2>3. Times(Concat(Upto(ss, N)), x) = Times(ss[i], x)
  <3>1. N \in Nat /\ (\A j \in 1..N : ss[j] \in Seq(Results)) /\ \A j \in 1..N : j # i => Times(ss[j], x) = 0
   <4> HIDE DEF ss, N, x
   <4> QED BY <1>1, <1>3, <2>2
  <3>2. i \in 1..N BY <2>1
  <3> HIDE DEF ss, N, x
  <3> QED BY <3>1, <3>2, TimesInOne
 <2>4. /\ l \in 0..(cxAt + 1) /\ Extracts(i).emit = LastOnes(cxAt + 1, l)
       /\ \A k \in 1..cxAt : k > cxAt + 1 - l => k \notin F
       /\ G = F \cup {k \in 1..(cxAt + 1) : k > cxAt + 1 - l} BY <2>1, ExtractsRight
 <2>5. Times(ss[i], x) = IF n \in 1..(cxAt + 1) /\ n > cxAt + 1 - l THEN 1 ELSE 0
  <3>1. ss[i] = LabelResults(i, Extracts(i).emit) BY <2>1 DEF NewResults
  <3> HIDE DEF l, ss
  <3>2. Times(LabelResults(i, LastOnes(cxAt + 1, l)), x) = IF n \in 1..(cxAt + 1) /\ n > cxAt + 1 - l THEN 1 ELSE 0
    BY <1>1, <2>1, <2>4, TimesLabelled
  <3> QED BY <2>4, <3>1, <3>2
 <2>6. \A k \in F : k \in 1..cxAt BY <1>1, FlaggedGrows
 <2>7. n \in G /\ n \notin F <=> n \in 1..(cxAt + 1) /\ n > cxAt + 1 - l
  <3> HIDE DEF F, G, l
  <3> QED BY <1>1, <2>4, <2>6
 <2> HIDE DEF F, G, l, x
 <2>8. Times(Concat(ss), x) = IF n \in G /\ n \notin F THEN 1 ELSE 0 BY <1>4, <2>3, <2>5, <2>7
 <2> QED BY <2>8 DEF F, G, x
<1> QED BY <1>5, <1>6

\* One row, fanned out to all extractors.
LEMMA ContextRowStep ==
  ASSUME ContextInv, ContextRow
  PROVE  ContextInv'
<1>1. /\ cxPc = "rows" /\ cxPc' = cxPc /\ cxCfg' = cxCfg /\ cxGroup' = cxGroup /\ cxSorted' = cxSorted /\ cxAt' = cxAt + 1
      /\ cxPrev' = cxSorted[cxAt + 1].part /\ cxAt < Len(cxSorted) /\ Streamed /\ Extracted /\ ContextConfigOK(cxCfg)
      /\ cxGroup = {i \in DOMAIN cxCfg.stmts : recognizeContextEntry(cxCfg.stmts[i])} BY DEF ContextInv, ContextRow
<1>2. /\ cxBuf' = [i \in cxGroup |-> Extracts(i).buf] /\ cxAfter' = [i \in cxGroup |-> Extracts(i).after]
      /\ cxOut' = cxOut \o Concat(NewResults)
 <2> DEFINE step == [i \in cxGroup |-> Extracts(i)]
 <2>1. /\ cxBuf' = [i \in cxGroup |-> step[i].buf] /\ cxAfter' = [i \in cxGroup |-> step[i].after]
       /\ cxOut' = cxOut \o Concat([i \in DOMAIN cxCfg.stmts |-> IF i \in cxGroup THEN LabelResults(i, step[i].emit) ELSE <<>>])
   BY DEF ContextRow, Extracts
 <2>2. \A i \in cxGroup : step[i] = Extracts(i) OBVIOUS
 <2> HIDE DEF step
 <2>3. [i \in DOMAIN cxCfg.stmts |-> IF i \in cxGroup THEN LabelResults(i, step[i].emit) ELSE <<>>] = NewResults
   BY <2>2 DEF NewResults
 <2> QED BY <2>1, <2>2, <2>3
<1>3. Streamed' BY <1>1 DEF Streamed
<1>4. /\ Concat(NewResults) \in Seq(Results)
      /\ \A i \in cxGroup, n \in Nat :
           Times(Concat(NewResults), ResultOf(i, n)) =
             IF n \in Flagged(cxCfg.stmts[i], cxSorted, cxAt + 1) /\ n \notin Flagged(cxCfg.stmts[i], cxSorted, cxAt) THEN 1 ELSE 0
  BY <1>1, NewResultsRight
<1>5. Extracted'
 <2>1. cxAt \in Nat /\ cxAt + 1 \in 0..Len(cxSorted) /\ cxAt + 1 > 0 /\ cxOut \in Seq(Results)
   BY <1>1 DEF Extracted, Streamed
 <2>2. cxOut' \in Seq(Results) BY <1>2, <1>4, <2>1
 <2>3. Results' = Results /\ \A i, n : ResultOf(i, n)' = ResultOf(i, n) BY <1>1 DEF Results, ResultOf
 <2>4. ASSUME NEW i \in cxGroup
       PROVE  Extractor(cxCfg.stmts[i], cxSorted, cxAt + 1, cxPrev', cxBuf'[i], cxAfter'[i])
  <3>1. Extractor(cxCfg.stmts[i], cxSorted, cxAt + 1, cxSorted[cxAt + 1].part, Extracts(i).buf, Extracts(i).after)
    BY <1>1, ExtractsRight
  <3> QED BY <1>1, <1>2, <3>1
 <2>5. ASSUME NEW i \in cxGroup, NEW n \in Nat
       PROVE  Times(cxOut', ResultOf(i, n)) = IF n \in Flagged(cxCfg.stmts[i], cxSorted, cxAt + 1) THEN 1 ELSE 0
  <3>1. Times(cxOut', ResultOf(i, n)) = Times(cxOut, ResultOf(i, n)) + Times(Concat(NewResults), ResultOf(i, n))
    BY <1>2, <1>4, <2>1, TimesConcat
  <3>2. Times(cxOut, ResultOf(i, n)) = IF n \in Flagged(cxCfg.stmts[i], cxSorted, cxAt) THEN 1 ELSE 0
    BY <1>1 DEF Extracted
  <3>3. n \in Flagged(cxCfg.stmts[i], cxSorted, cxAt) => n \in Flagged(cxCfg.stmts[i], cxSorted, cxAt + 1)
    BY <2>1, FlaggedGrows
  <3> QED BY <1>4, <3>1, <3>2, <3>3
 <2>6. DOMAIN cxBuf' = cxGroup BY <1>2
 <2> QED BY <1>1, <2>1, <2>2, <2>3, <2>4, <2>5, <2>6 DEF Extracted
<1> QED BY <1>1, <1>3, <1>5 DEF ContextInv

\* Every step keeps the invariant.
LEMMA ContextStep ==
  ContextInv /\ [CxNext]_cxVars => ContextInv'
<1> SUFFICES ASSUME ContextInv, [CxNext]_cxVars PROVE ContextInv' OBVIOUS
<1>1. CASE ContextCompile
 <2>1. /\ cxPc = "compile" /\ cxPc' = "sort" /\ cxCfg' = cxCfg /\ cxAt' = cxAt /\ cxBuf' = cxBuf /\ cxOut' = cxOut
       /\ cxGroup' = {i \in DOMAIN cxCfg.stmts : recognizeContextEntry(cxCfg.stmts[i])} BY <1>1 DEF ContextCompile
 <2> QED BY <2>1 DEF ContextInv
<1>2. CASE SortRows BY <1>2, SortRowsStep
<1>3. CASE ContextRow BY <1>3, ContextRowStep
<1>4. CASE ContextEnd
 <2>1. /\ cxPc = "rows" /\ cxPc' = "done" /\ cxAt = Len(cxSorted) /\ cxCfg' = cxCfg /\ cxGroup' = cxGroup
       /\ cxSorted' = cxSorted /\ cxAt' = cxAt /\ cxPrev' = cxPrev /\ cxBuf' = cxBuf /\ cxAfter' = cxAfter /\ cxOut' = cxOut
   BY <1>4 DEF ContextEnd
 <2> QED BY <2>1 DEF ContextInv, Streamed, Extracted, Results, ResultOf
<1>5. CASE UNCHANGED cxVars BY <1>5 DEF cxVars, ContextInv, Streamed, Extracted, Results, ResultOf
<1> QED BY <1>1, <1>2, <1>3, <1>4, <1>5 DEF CxNext

\* At the end the results are those of the windows; what is remembered is bounded.
LEMMA ContextIs ==
  ContextInv => ContextSound
<1> SUFFICES ASSUME ContextInv PROVE ContextExact /\ ContextBounded BY DEF ContextSound
<1>1. ContextBounded
 <2>1. CASE cxPc \in {"compile", "sort"}
  <3>1. DOMAIN cxBuf = {} BY <2>1 DEF ContextInv
  <3> QED BY <3>1 DEF ContextBounded
 <2>2. CASE cxPc \notin {"compile", "sort"} BY <2>2 DEF ContextInv, Extracted, Extractor, ContextBounded
 <2> QED BY <2>1, <2>2
<1>2. ContextExact
 <2> SUFFICES ASSUME cxPc = "done", NEW i \in cxGroup
              PROVE  LET s == cxCfg.stmts[i]
                         got == {n \in DOMAIN cxOut : cxOut[n].label = s.label}
                     IN  {cxOut[n].row : n \in got} = SelectedRows(s) /\ Cardinality(got) = Cardinality(SelectedRows(s))
   BY DEF ContextExact
 <2> DEFINE s == cxCfg.stmts[i]
            got == {n \in DOMAIN cxOut : cxOut[n].label = s.label}
            W == Flagged(s, cxSorted, cxAt)
 <2>1. /\ ContextConfigOK(cxCfg) /\ Streamed /\ Extracted /\ cxAt = Len(cxSorted) /\ i \in DOMAIN cxCfg.stmts /\ recognizeContextEntry(s)
   BY DEF ContextInv
 <2>2. SelectedRows(s) = W BY <2>1, SelectedAreFlagged DEF Streamed
 <2>3. /\ cxOut \in Seq(Results) /\ Len(cxOut) \in Nat /\ DOMAIN cxOut = 1..Len(cxOut)
       /\ \A n \in Nat : Times(cxOut, ResultOf(i, n)) = IF n \in W THEN 1 ELSE 0 BY <2>1 DEF Extracted
 <2>4. \A n \in W : n \in Nat BY DEF Flagged
 <2>5. ASSUME NEW k \in got PROVE cxOut[k].row \in Nat /\ cxOut[k] = ResultOf(i, cxOut[k].row)
  <3>1. cxOut[k] \in Results BY <2>3
  <3>2. PICK j \in DOMAIN cxCfg.stmts, n \in Nat : cxOut[k] = ResultOf(j, n) BY <3>1 DEF Results
  <3>3. cxOut[k].label = cxCfg.stmts[j].label /\ cxOut[k].row = n BY <3>2 DEF ResultOf
  <3>4. i = j BY <2>1, <3>3 DEF ContextConfigOK
  <3> QED BY <3>2, <3>3, <3>4
 <2>6. ASSUME NEW n \in Nat PROVE {k \in 1..Len(cxOut) : cxOut[k] = ResultOf(i, n)} = {k \in got : cxOut[k].row = n}
  <3>1. ResultOf(i, n).row = n /\ ResultOf(i, n).label = s.label BY DEF ResultOf
  <3> QED BY <2>3, <2>5, <3>1
 <2> HIDE DEF got, W
 <2>7. ASSUME NEW n \in Nat PROVE n \in W <=> \E k \in got : cxOut[k].row = n
  <3>1. Times(cxOut, ResultOf(i, n)) = 0 <=> \A k \in 1..Len(cxOut) : cxOut[k] # ResultOf(i, n) BY <2>3, TimesType
  <3> QED BY <2>3, <2>6, <3>1
 <2>8. {cxOut[k].row : k \in got} = W BY <2>4, <2>5, <2>7
 <2>9. ASSUME NEW k \in got, NEW m \in got, cxOut[k].row = cxOut[m].row PROVE k = m
  <3> DEFINE n == cxOut[k].row
             S == {j \in 1..Len(cxOut) : cxOut[j] = ResultOf(i, n)}
  <3>1. n \in Nat /\ k \in S /\ m \in S BY <2>5, <2>6, <2>9
  <3>2. Times(cxOut, ResultOf(i, n)) = 1 BY <2>3, <2>7, <3>1
  <3>3. IsFiniteSet(S) /\ Cardinality(S) = 1 BY <2>3, <3>2, TimesType
  <3> HIDE DEF S
  <3>4. PICK y : S = {y} BY <3>3, FS_Singleton
  <3> QED BY <3>1, <3>4
 <2>10. IsFiniteSet(W)
  <3>1. cxAt \in Nat BY <2>1 DEF Extracted
  <3>2. IsFiniteSet(1..cxAt) /\ W \subseteq 1..cxAt BY <3>1, 1 \in Int, cxAt \in Int, FS_Interval DEF W, Flagged
  <3> QED BY <3>2, FS_Subset
 <2>11. IsFiniteSet(got)
  <3>1. IsFiniteSet(1..Len(cxOut)) /\ got \subseteq 1..Len(cxOut)
    BY <2>3, 1 \in Int, Len(cxOut) \in Int, FS_Interval DEF got
  <3> QED BY <3>1, FS_Subset
 <2>12. Cardinality(got) = Cardinality(W)
  <3> DEFINE f == [k \in got |-> cxOut[k].row]
  <3>1. f \in Bijection(got, W)
   <4>1. f \in [got -> W] BY <2>8
   <4>2. \A a, b \in got : f[a] = f[b] => a = b BY <2>9
   <4>3. \A d \in W : \E b \in got : f[b] = d BY <2>8
   <4> HIDE DEF f
   <4> QED BY <4>1, <4>2, <4>3, Fun_IsBij
  <3> HIDE DEF f
  <3>2. ExistsBijection(got, W) BY <3>1 DEF ExistsBijection
  <3> QED BY <2>10, <2>11, <3>2, FS_Bijection
 <2> QED BY <2>2, <2>8, <2>12 DEF got
<1> QED BY <1>1, <1>2

\* A statement that was lowered to an extractor yields the rows that its own window and
\* WHERE select, each once, and remembers no more rows than its context, whatever the
\* statements that share the stream, the windows, the rows and the order of their ties.
THEOREM ContextIsSound ==
  ASSUME NEW cfgs, \A c \in cfgs : ContextConfigOK(c)
  PROVE  CxSpec(cfgs) => []ContextSound
<1>1. CxInit(cfgs) => ContextInv BY DEF CxInit, ContextInv
<1>2. ContextInv /\ [CxNext]_cxVars => ContextInv' BY ContextStep
<1>3. ContextInv => ContextSound BY ContextIs
<1> QED BY <1>1, <1>2, <1>3, PTL DEF CxSpec
=============================================================================
