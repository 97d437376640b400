--------------------------- MODULE AggregateProofs ---------------------------
(***************************************************************************)
(* Proofs about aggregates over groups and windows of rows.                *)
(*                                                                         *)
(* GROUP BY (GroupBy): for any rows and any of the aggregates, each group  *)
(* is yielded once, with the aggregates of exactly its own rows.           *)
(*                                                                         *)
(* Window functions (Window): each row is passed on once, in order, and    *)
(* the forward cursors of a RANGE frame are where a scan would end.        *)
(***************************************************************************)
EXTENDS OperatorProofs, Window

-----------------------------------------------------------------------------
(* Groups and their aggregates.                                            *)

\* The values of a column.  There is one MISSING.
AggValue == {v \in [t : {"missing", "null", "number", "string"}, n : Int] : v.t = "missing" => v = Missing}

AggNames == {"count", "countn", "sum", "avg", "min", "max", "array_agg", "count_distinct", "countn_distinct",
             "array_agg_distinct", "sum_distinct", "avg_distinct", "median", "var_pop", "var_samp"}

\* A finite set of numbers has one sequence in order.
LEMMA AscendingUnique ==
  ASSUME NEW S \in SUBSET Nat, IsFiniteSet(S), NEW s \in [1..Cardinality(S) -> S],
         \A i, j \in 1..Cardinality(S) : i < j => s[i] < s[j]
  PROVE  s = Ascending(S)
<1> DEFINE n == Cardinality(S)
           a == Ascending(S)
           T == {k \in 1..n : s[k] # a[k]}
<1>1. /\ n \in Nat /\ a \in [1..n -> S] /\ (\A i, j \in 1..n : i < j => a[i] < a[j])
      /\ \A x \in S : \E k \in 1..n : a[k] = x BY AscendingFacts
<1>2. s \in [1..n -> S] /\ \A i, j \in 1..n : i < j => s[i] < s[j] OBVIOUS
<1>3. \A x \in S : \E k \in 1..n : s[k] = x
 <2>1. s \in Injection(1..n, S)
  <3> SUFFICES ASSUME NEW i \in 1..n, NEW j \in 1..n, s[i] = s[j], i # j PROVE FALSE
    BY <1>2 DEF Injection, IsInjective
  <3>1. i < j \/ j < i BY <1>1
  <3>2. s[i] \in Nat /\ (s[i] < s[j] \/ s[j] < s[i]) BY <1>2, <3>1
  <3> QED BY <3>2
 <2>2. IsFiniteSet(1..n) /\ Cardinality(1..n) = n BY <1>1, FS_Interval
 <2>3. s \in Surjection(1..n, S) BY <2>1, <2>2, FS_Injection
 <2> QED BY <2>3 DEF Surjection
<1> HIDE DEF a, n
<1>4. T = {}
 <2> SUFFICES ASSUME T # {} PROVE FALSE OBVIOUS
 <2>1. T \in SUBSET Nat BY <1>1
 <2>2. PICK k \in T : \A y \in T : k <= y BY <2>1, LeastNumber
 <2>3. k \in 1..n /\ s[k] # a[k] /\ s[k] \in S /\ a[k] \in S /\ \A i \in 1..n : i < k => s[i] = a[i]
  <3>1. \A i \in 1..n : i < k => i \notin T BY <1>1, <2>1, <2>2
  <3> QED BY <1>1, <1>2, <2>2, <3>1
 <2>4. PICK i \in 1..n : a[i] = s[k] BY <1>1, <2>3
 <2>5. PICK j \in 1..n : s[j] = a[k] BY <1>3, <2>3
 <2>6. i \in Int /\ j \in Int /\ k \in Int /\ s[k] \in Int /\ a[k] \in Int
  <3>1. i \in Int /\ j \in Int /\ k \in Int BY <1>1, <2>3
  <3>2. \A x \in S : x \in Int OBVIOUS
  <3> QED BY <2>3, <3>1, <3>2
 <2>7. k < i /\ k < j
  <3>1. ~(i < k)
   <4> SUFFICES ASSUME i < k PROVE FALSE OBVIOUS
   <4>1. s[i] = s[k] /\ s[i] < s[k] BY <1>2, <2>3, <2>4
   <4> QED BY <2>6, <4>1
  <3>2. ~(j < k)
   <4> SUFFICES ASSUME j < k PROVE FALSE OBVIOUS
   <4>1. a[j] = a[k] /\ a[j] < a[k] BY <1>1, <2>3, <2>5
   <4> QED BY <2>6, <4>1
  <3> QED BY <2>3, <2>4, <2>5, <2>6, <3>1, <3>2
 <2>8. a[k] < s[k] /\ s[k] < a[k] BY <1>1, <2>3, <2>7, <1>2, <2>4, <2>5
 <2> QED BY <2>6, <2>8
<1>5. \A k \in 1..n : s[k] = a[k] BY <1>4
<1>6. s = a
 <2>1. s = [k \in 1..n |-> s[k]] /\ a = [k \in 1..n |-> a[k]] BY <1>1, <1>2
 <2> QED BY <1>5, <2>1
<1> QED BY <1>6 DEF a

\* One more number that is greater than all comes last.
LEMMA AscendingMore ==
  ASSUME NEW n \in Nat, NEW S \in SUBSET (1..n)
  PROVE  Ascending(S \cup {n + 1}) = Append(Ascending(S), n + 1)
<1> DEFINE m == n + 1
           c == Cardinality(S)
           a == Ascending(S)
           A == S \cup {m}
           s == Append(a, m)
<1>1. S \in SUBSET Nat /\ IsFiniteSet(S) /\ m \in Nat /\ m \notin S /\ \A x \in S : x < m
 <2>1. S \in SUBSET Nat /\ IsFiniteSet(S) BY PartFinite
 <2>2. \A x \in S : x \in Int /\ x < m OBVIOUS
 <2> QED BY <2>1, <2>2
<1>2. /\ c \in Nat /\ a \in [1..c -> S] /\ Len(a) = c /\ (\A i, j \in 1..c : i < j => a[i] < a[j])
  BY <1>1, AscendingFacts
<1>3. A \in SUBSET Nat /\ IsFiniteSet(A) /\ Cardinality(A) = c + 1 BY <1>1, FS_AddElement
<1> HIDE DEF m, a, c
<1>5. /\ s \in [1..(c + 1) -> A] /\ s[c + 1] = m /\ \A i \in 1..c : s[i] = a[i] /\ s[i] \in S
 <2>1. a \in Seq(A) BY <1>2
 <2>2. s \in Seq(A) /\ Len(s) = c + 1 /\ s[c + 1] = m /\ \A i \in 1..c : s[i] = a[i] BY <1>2, <2>1, AppendProperties
 <2> HIDE DEF s
 <2>3. DOMAIN s = 1..(c + 1) /\ \A i \in 1..(c + 1) : s[i] \in A BY <1>2, <2>2
 <2>4. s = [i \in 1..(c + 1) |-> s[i]] BY <1>2, <2>2
 <2> QED BY <1>2, <2>2, <2>3, <2>4
<1>6. ASSUME NEW i \in 1..(c + 1), NEW j \in 1..(c + 1), i < j PROVE s[i] < s[j]
 <2>1. i \in 1..c BY <1>2, <1>6
 <2>2. CASE j \in 1..c BY <1>2, <1>5, <1>6, <2>1, <2>2
 <2>3. CASE j = c + 1 BY <1>1, <1>5, <2>1, <2>3
 <2> QED BY <1>2, <2>2, <2>3
<1> HIDE DEF s, A
<1>7. s = Ascending(A) BY <1>3, <1>5, <1>6, AscendingUnique
<1> QED BY <1>7 DEF s, A, a, m

\* The values at the places of S, in order.
Listed(vals, S) == LET s == Ascending(S) IN [x \in DOMAIN s |-> vals[s[x]]]

\* None at no places.
LEMMA ListedNone ==
  ASSUME NEW vals
  PROVE  Listed(vals, {}) = <<>>
<1>1. DOMAIN <<>> = {} /\ Ascending({}) = <<>> BY AscendingSmall
<1>2. Listed(vals, {}) = [x \in {} |-> vals[Ascending({})[x]]] BY <1>1 DEF Listed
<1> QED BY <1>2

\* There are as many as places, none of an empty set, and one more at a later place comes last.
LEMMA ListedFacts ==
  ASSUME NEW vals \in Seq(AggValue), NEW S \in SUBSET (1..Len(vals)), NEW v \in AggValue
  PROVE  /\ Listed(vals, S) \in Seq(AggValue) /\ Len(Listed(vals, S)) = Cardinality(S) /\ Cardinality(S) \in Nat
         /\ Listed(vals, S) = <<>> <=> S = {}
         /\ InSeq(v, Listed(vals, S)) <=> \E i \in S : vals[i] = v
         /\ Listed(Append(vals, v), S) = Listed(vals, S)
         /\ Listed(Append(vals, v), S \cup {Len(vals) + 1}) = Append(Listed(vals, S), v)
         /\ Cardinality(S \cup {Len(vals) + 1}) = Cardinality(S) + 1
<1> DEFINE n == Len(vals)
           more == Append(vals, v)
           a == Ascending(S)
           c == Cardinality(S)
<1>1. n \in Nat /\ S \in SUBSET Nat /\ IsFiniteSet(S) /\ \A i \in 1..n : vals[i] \in AggValue
 <2>1. n \in Nat OBVIOUS
 <2>2. \A i \in 1..n : vals[i] \in AggValue OBVIOUS
 <2> QED BY <2>1, <2>2, PartFinite
<1>2. more \in Seq(AggValue) /\ Len(more) = n + 1 /\ more[n + 1] = v /\ \A i \in 1..n : more[i] = vals[i]
  BY AppendProperties
<1>3. /\ c \in Nat /\ a \in [1..c -> S] /\ Len(a) = c /\ DOMAIN a = 1..c
      /\ \A x \in S : \E k \in 1..c : a[k] = x BY <1>1, AscendingFacts
<1>4. Ascending(S \cup {n + 1}) = Append(a, n + 1) BY <1>1, AscendingMore
<1>5. Cardinality(S \cup {n + 1}) = c + 1
 <2>1. n + 1 \notin S
  <3>1. \A x \in S : x \in 1..n OBVIOUS
  <3> QED BY <1>1, <3>1
 <2> QED BY <1>1, <2>1, FS_AddElement
<1>6. c = 0 <=> S = {} BY <1>1, FS_EmptySet
<1>7. S \in SUBSET (1..n) OBVIOUS
<1> HIDE DEF n, more, a, c
<1>8. Listed(vals, S) = [x \in 1..c |-> vals[a[x]]] BY <1>3 DEF Listed, a
<1>9. Listed(vals, S) \in Seq(AggValue) /\ Len(Listed(vals, S)) = c /\ DOMAIN Listed(vals, S) = 1..c
 <2>1. \A x \in 1..c : vals[a[x]] \in AggValue BY <1>1, <1>3, <1>7
 <2> DEFINE l == [x \in 1..c |-> vals[a[x]]]
 <2>2. l \in Seq(AggValue) /\ Len(l) = c /\ DOMAIN l = 1..c BY <1>3, <2>1
 <2> QED BY <1>8, <2>2
<1>10. Listed(vals, S) = <<>> <=> S = {}
 <2> DEFINE l == Listed(vals, S)
 <2>1. l \in Seq(AggValue) /\ Len(l) = c BY <1>9
 <2> HIDE DEF l
 <2>2. l = <<>> <=> c = 0 BY <2>1
 <2> QED BY <1>6, <2>2 DEF l
<1>11. InSeq(v, Listed(vals, S)) <=> \E i \in S : vals[i] = v
 <2>1. \A x \in 1..c : Listed(vals, S)[x] = vals[a[x]] /\ a[x] \in S BY <1>3, <1>8
 <2>2. ASSUME NEW i \in S PROVE \E x \in 1..c : Listed(vals, S)[x] = vals[i] BY <1>3, <2>1
 <2>3. InSeq(v, Listed(vals, S)) <=> \E x \in 1..c : Listed(vals, S)[x] = v BY <1>9 DEF InSeq
 <2> QED BY <2>1, <2>2, <2>3
<1>12. Listed(more, S) = Listed(vals, S) BY <1>2, <1>3, <1>7, <1>8 DEF Listed, a
<1>13. Listed(more, S \cup {n + 1}) = Append(Listed(vals, S), v)
 <2> DEFINE b == Append(a, n + 1)
            l == Listed(vals, S)
 <2>1. a \in Seq(Nat) /\ n + 1 \in Nat
  <3>1. \A x \in 1..c : a[x] \in Nat BY <1>1, <1>3
  <3> QED BY <1>1, <1>3, <3>1
 <2>2. b \in Seq(Nat) /\ Len(b) = c + 1 /\ b[c + 1] = n + 1 /\ \A i \in 1..c : b[i] = a[i]
   BY <1>3, <2>1, AppendProperties
 <2>3. DOMAIN b = 1..(c + 1) BY <2>2
 <2>4. Listed(more, S \cup {n + 1}) = [x \in DOMAIN b |-> more[b[x]]] BY <1>4 DEF Listed
 <2>5. Append(l, v) \in Seq(AggValue) /\ Len(Append(l, v)) = c + 1 /\ Append(l, v)[c + 1] = v /\ \A i \in 1..c : Append(l, v)[i] = l[i]
   BY <1>9, AppendProperties
 <2> HIDE DEF b
 <2>6. ASSUME NEW x \in 1..(c + 1) PROVE more[b[x]] = Append(l, v)[x]
  <3>1. CASE x = c + 1 BY <1>2, <2>2, <2>5, <3>1
  <3>2. CASE x \in 1..c
   <4>1. b[x] = a[x] /\ a[x] \in 1..n BY <1>3, <1>7, <2>2, <3>2
   <4>2. l[x] = vals[a[x]] BY <1>8, <3>2
   <4> HIDE DEF l
   <4> QED BY <1>2, <2>5, <3>2, <4>1, <4>2
  <3>3. x = c + 1 \/ x \in 1..c BY <1>3
  <3> QED BY <3>1, <3>2, <3>3
 <2> HIDE DEF l
 <2>7. Append(l, v) = [x \in 1..(c + 1) |-> Append(l, v)[x]]
  <3> DEFINE q == Append(l, v)
  <3>1. q \in [1..(c + 1) -> AggValue] BY <2>5, LenProperties
  <3> HIDE DEF q
  <3>2. q = [x \in 1..(c + 1) |-> q[x]] BY <3>1
  <3> QED BY <3>2 DEF q
 <2> QED BY <2>3, <2>4, <2>6, <2>7 DEF l
<1> QED BY <1>3, <1>5, <1>9, <1>10, <1>11, <1>12, <1>13 DEF n, more, c

-----------------------------------------------------------------------------
\* f lists the sums of the first elements of s, up to n of them.
SumsOf(f, s, n) == f = [i \in 0..n |-> IF i = 0 THEN 0 ELSE f[i - 1] + s[i].n]

\* Such a list exists, ...
LEMMA SumsExist ==
  ASSUME NEW s, NEW n \in Nat
  PROVE  \E f : SumsOf(f, s, n)
<1> DEFINE T == {k \in Nat : ~\E f : SumsOf(f, s, k)}
<1>1. SUFFICES ASSUME T # {} PROVE FALSE OBVIOUS
<1>2. PICK k \in T : \A y \in T : k <= y BY <1>1, LeastNumber
<1>3. k # 0
 <2> DEFINE f == [i \in 0..0 |-> 0]
 <2>1. SumsOf(f, s, 0) BY DEF SumsOf
 <2> QED BY <1>2, <2>1
<1>4. k - 1 \in Nat /\ k - 1 \notin T /\ k \in Nat BY <1>2, <1>3
<1>5. PICK f : SumsOf(f, s, k - 1) BY <1>4
<1> DEFINE g == [i \in 0..k |-> IF i = k THEN f[k - 1] + s[k].n ELSE f[i]]
           h == [i \in 0..k |-> IF i = 0 THEN 0 ELSE g[i - 1] + s[i].n]
<1>6. \A i \in 0..(k - 1) : f[i] = IF i = 0 THEN 0 ELSE f[i - 1] + s[i].n BY <1>5 DEF SumsOf
<1>7. ASSUME NEW i \in 0..k PROVE g[i] = h[i]
 <2>1. CASE i = 0 BY <1>3, <1>4, <1>6, <2>1
 <2>2. CASE i # 0 /\ i = k BY <1>4, <2>2
 <2>3. CASE i # 0 /\ i # k BY <1>4, <2>3, <1>6
 <2> QED BY <2>1, <2>2, <2>3
<1>8. g = h BY <1>7
<1>9. SumsOf(g, s, k) BY <1>8 DEF SumsOf
<1> QED BY <1>2, <1>9

\* ... there is one only, also for a longer sequence that begins the same, ...
LEMMA SumsUnique ==
  ASSUME NEW s, NEW r, NEW m \in Nat, NEW n \in Nat, NEW f, NEW g, SumsOf(f, s, m), SumsOf(g, r, n),
         m <= n, \A i \in 1..m : s[i] = r[i]
  PROVE  \A i \in 0..m : f[i] = g[i]
<1> DEFINE T == {k \in 0..m : f[k] # g[k]}
<1>1. SUFFICES ASSUME T # {} PROVE FALSE OBVIOUS
<1>2. PICK k \in T : \A y \in T : k <= y
 <2>1. T \in SUBSET Nat OBVIOUS
 <2> QED BY <1>1, <2>1, LeastNumber
<1>3. /\ \A i \in 0..m : f[i] = IF i = 0 THEN 0 ELSE f[i - 1] + s[i].n
      /\ \A i \in 0..n : g[i] = IF i = 0 THEN 0 ELSE g[i - 1] + r[i].n BY DEF SumsOf
<1>4. k \in 0..m /\ k \in 0..n /\ f[k] # g[k] BY <1>2
<1>5. k # 0 BY <1>3, <1>4
<1>6. k - 1 \in 0..m /\ k - 1 \notin T /\ k \in 1..m BY <1>2, <1>4, <1>5
<1>7. f[k - 1] = g[k - 1] /\ s[k] = r[k] BY <1>6
<1> QED BY <1>3, <1>4, <1>5, <1>7

\* ... and one more element adds to the sum.
LEMMA SumGrows ==
  ASSUME NEW V, NEW s \in Seq(V), NEW v \in V
  PROVE  /\ SumOf(<<>>) = 0
         /\ SumOf(Append(s, v)) = SumOf(s) + v.n
<1> DEFINE n == Len(s)
           t == Append(s, v)
<1>1. n \in Nat /\ Len(t) = n + 1 /\ t[n + 1] = v /\ \A i \in 1..n : t[i] = s[i] BY AppendProperties
<1>2. ASSUME NEW r, Len(r) \in Nat PROVE \E f : SumsOf(f, r, Len(r)) /\ SumOf(r) = f[Len(r)]
 <2>1. \E f : SumsOf(f, r, Len(r)) BY <1>2, SumsExist
 <2> QED BY <2>1 DEF SumOf, SumsOf
<1>3. SumOf(<<>>) = 0
 <2>1. Len(<<>>) = 0 OBVIOUS
 <2>2. PICK f : SumsOf(f, <<>>, 0) /\ SumOf(<<>>) = f[0] BY <1>2, <2>1
 <2> QED BY <2>2 DEF SumsOf
<1> HIDE DEF t, n
<1>4. PICK f : SumsOf(f, t, n + 1) /\ SumOf(t) = f[n + 1] BY <1>1, <1>2
<1>5. PICK g : SumsOf(g, s, n) /\ SumOf(s) = g[n] BY <1>1, <1>2 DEF n
<1>6. f[n + 1] = f[n] + t[n + 1].n BY <1>4, <1>1 DEF SumsOf
<1>7. g[n] = f[n]
 <2>1. n + 1 \in Nat /\ n <= n + 1 /\ \A i \in 1..n : s[i] = t[i] BY <1>1
 <2>2. \A i \in 0..n : g[i] = f[i]
  <3> DEFINE k == n + 1
  <3>1. /\ n \in Nat /\ k \in Nat /\ n <= k /\ SumsOf(g, s, n) /\ SumsOf(f, t, k)
        /\ \A i \in 1..n : s[i] = t[i] BY <1>1, <1>4, <1>5, <2>1
  <3> HIDE DEF k
  <3> QED BY ONLY <3>1, SumsUnique
 <2> QED BY <1>1, <2>2
<1> QED BY <1>1, <1>3, <1>4, <1>5, <1>6, <1>7 DEF t, n

\* The places that an aggregate looks at, and the first place of each value among those of S.
ValuedIn(vals) == {i \in DOMAIN vals : HasValue(vals[i])}
NumbersIn(vals) == {i \in DOMAIN vals : IsNumber(vals[i])}
KnownIn(vals) == {i \in DOMAIN vals : vals[i] # Missing}
FirstsIn(vals, S) == {i \in S : \A j \in S : vals[i] = vals[j] => i <= j}

\* The least and the greatest of the values at the places of S.
LeastIn(vals, S) == CHOOSE v \in {vals[i] : i \in S} : \A i \in S : ~ValLess(vals[i], v)
MostIn(vals, S) == CHOOSE v \in {vals[i] : i \in S} : \A i \in S : ~ValLess(v, vals[i])

\* What the accumulator of an aggregate is after the values vals.
AccOf(agg, vals) ==
  CASE agg = "count" -> Cardinality(ValuedIn(vals))
    [] agg = "countn" -> Cardinality(NumbersIn(vals))
    [] agg = "sum" -> IF NumbersIn(vals) = {} THEN <<>> ELSE <<SumOf(Listed(vals, NumbersIn(vals)))>>
    [] agg = "avg" -> <<Cardinality(ValuedIn(vals)), SumOf(Listed(vals, NumbersIn(vals)))>>
    [] agg = "min" -> IF ValuedIn(vals) = {} THEN <<>> ELSE <<LeastIn(vals, ValuedIn(vals))>>
    [] agg = "max" -> IF ValuedIn(vals) = {} THEN <<>> ELSE <<MostIn(vals, ValuedIn(vals))>>
    [] agg = "array_agg" -> Listed(vals, KnownIn(vals))
    [] agg \in {"count_distinct", "array_agg_distinct"} -> Listed(vals, FirstsIn(vals, KnownIn(vals)))
    [] agg \in {"sum_distinct", "avg_distinct", "countn_distinct"} -> Listed(vals, FirstsIn(vals, NumbersIn(vals)))
    [] agg \in {"median", "var_pop", "var_samp"} -> Listed(vals, NumbersIn(vals))

\* One more value is at a place of its own.
LEMMA PlacesGrow ==
  ASSUME NEW V, NEW vals \in Seq(V), NEW v \in V
  PROVE  /\ ValuedIn(vals) \in SUBSET (1..Len(vals)) /\ NumbersIn(vals) \in SUBSET (1..Len(vals))
         /\ KnownIn(vals) \in SUBSET (1..Len(vals))
         /\ ValuedIn(Append(vals, v)) = ValuedIn(vals) \cup (IF HasValue(v) THEN {Len(vals) + 1} ELSE {})
         /\ NumbersIn(Append(vals, v)) = NumbersIn(vals) \cup (IF IsNumber(v) THEN {Len(vals) + 1} ELSE {})
         /\ KnownIn(Append(vals, v)) = KnownIn(vals) \cup (IF v # Missing THEN {Len(vals) + 1} ELSE {})
<1> DEFINE n == Len(vals)
           t == Append(vals, v)
<1>1. n \in Nat /\ DOMAIN vals = 1..n OBVIOUS
<1>2. t \in Seq(V) /\ Len(t) = n + 1 /\ t[n + 1] = v /\ \A i \in 1..n : t[i] = vals[i] BY AppendProperties
<1> HIDE DEF t
<1>3. DOMAIN t = (1..n) \cup {n + 1} BY <1>1, <1>2
<1> HIDE DEF n
<1>4. ValuedIn(t) = ValuedIn(vals) \cup (IF HasValue(v) THEN {n + 1} ELSE {}) BY <1>1, <1>2, <1>3 DEF ValuedIn
<1>5. NumbersIn(t) = NumbersIn(vals) \cup (IF IsNumber(v) THEN {n + 1} ELSE {}) BY <1>1, <1>2, <1>3 DEF NumbersIn
<1>6. KnownIn(t) = KnownIn(vals) \cup (IF v # Missing THEN {n + 1} ELSE {}) BY <1>1, <1>2, <1>3 DEF KnownIn
<1> QED BY <1>1, <1>4, <1>5, <1>6 DEF n, t, ValuedIn, NumbersIn, KnownIn

\* First places are places, some if there is a place; the values there are all the values; and
\* the place of one more value is a first one if the value is new.
LEMMA FirstsGrow ==
  ASSUME NEW V, NEW vals \in Seq(V), NEW v \in V, NEW S \in SUBSET (1..Len(vals))
  PROVE  /\ FirstsIn(vals, S) \in SUBSET (1..Len(vals))
         /\ FirstsIn(vals, S) = {} <=> S = {}
         /\ (\E i \in FirstsIn(vals, S) : vals[i] = v) <=> \E i \in S : vals[i] = v
         /\ FirstsIn(Append(vals, v), S) = FirstsIn(vals, S)
         /\ FirstsIn(Append(vals, v), S \cup {Len(vals) + 1}) =
              FirstsIn(vals, S) \cup (IF \E i \in S : vals[i] = v THEN {} ELSE {Len(vals) + 1})
<1> DEFINE n == Len(vals)
           t == Append(vals, v)
<1>1. n \in Nat /\ S \in SUBSET Nat /\ \A i \in S : i \in 1..n /\ i < n + 1 /\ ~(n + 1 <= i)
 <2>1. n \in Nat /\ S \in SUBSET (1..n) BY LenProperties
 <2> HIDE DEF n
 <2> QED BY <2>1
<1>2. t[n + 1] = v /\ \A i \in S : t[i] = vals[i] BY AppendProperties, <1>1
<1>3. ASSUME NEW x \in V, \E i \in S : vals[i] = x PROVE \E i \in FirstsIn(vals, S) : vals[i] = x
 <2> DEFINE T == {i \in S : vals[i] = x}
 <2>1. T \in SUBSET Nat /\ T # {} BY <1>1, <1>3
 <2>2. PICK i \in T : \A j \in T : i <= j BY <2>1, LeastNumber
 <2> QED BY <2>2 DEF FirstsIn
<1>4. FirstsIn(vals, S) \in SUBSET S BY DEF FirstsIn
<1>5. FirstsIn(vals, S) = {} <=> S = {}
 <2>1. ASSUME NEW i \in S PROVE FirstsIn(vals, S) # {}
  <3>1. vals[i] \in V BY <1>1
  <3> QED BY <1>3, <3>1
 <2> QED BY <1>4, <2>1
<1>6. FirstsIn(t, S) = FirstsIn(vals, S) BY <1>2 DEF FirstsIn
<1> HIDE DEF n, t
<1>7. FirstsIn(t, S \cup {n + 1}) = FirstsIn(vals, S) \cup (IF \E i \in S : vals[i] = v THEN {} ELSE {n + 1})
 <2> DEFINE A == FirstsIn(t, S \cup {n + 1})
 <2>1. ASSUME NEW i \in S PROVE i \in A <=> i \in FirstsIn(vals, S)
  <3>1. i <= n + 1 BY <1>1
  <3> QED BY <1>2, <3>1 DEF FirstsIn
 <2>2. n + 1 \in A <=> ~\E i \in S : vals[i] = v BY <1>1, <1>2 DEF FirstsIn
 <2>3. A \in SUBSET (S \cup {n + 1}) /\ n + 1 \notin S BY <1>1 DEF FirstsIn
 <2> HIDE DEF A
 <2> QED BY <1>4, <2>1, <2>2, <2>3 DEF A
<1> QED BY <1>1, <1>3, <1>4, <1>5, <1>6, <1>7 DEF n, t

\* Values are in order.
LEMMA ValOrder ==
  ASSUME NEW a \in AggValue, NEW b \in AggValue, NEW c \in AggValue
  PROVE  /\ ~ValLess(a, a) /\ (ValLess(a, b) /\ ValLess(b, c) => ValLess(a, c))
         /\ a = b \/ ValLess(a, b) \/ ValLess(b, a)
<1>1. \A x \in AggValue : /\ x.t \in {"missing", "null", "number", "string"} /\ x.n \in Int /\ x = [t |-> x.t, n |-> x.n]
                          /\ TypeRank(x) \in 0..3 BY DEF AggValue, TypeRank
<1>2. \A x, y \in AggValue : TypeRank(x) = TypeRank(y) <=> x.t = y.t BY <1>1 DEF TypeRank
<1>3. \A x, y \in AggValue : x.t = y.t /\ x.n = y.n => x = y BY <1>1
<1>4. ~ValLess(a, a) BY <1>1 DEF ValLess
<1>5. ValLess(a, b) /\ ValLess(b, c) => ValLess(a, c) BY <1>1, <1>2 DEF ValLess
<1>6. a = b \/ ValLess(a, b) \/ ValLess(b, a) BY <1>1, <1>2, <1>3 DEF ValLess
<1> QED BY <1>4, <1>5, <1>6

\* x is before y, in the order of MAX or of MIN.
Better(max, x, y) == IF max THEN ValLess(y, x) ELSE ValLess(x, y)
IsBest(max, vals, S, v) == (\E i \in S : v = vals[i]) /\ \A i \in S : ~Better(max, vals[i], v)

\* Among the values at some places there is a best one, and only one.
LEMMA BestExists ==
  ASSUME NEW max \in BOOLEAN, NEW vals \in Seq(AggValue), NEW S \in SUBSET (1..Len(vals))
  PROVE  /\ S # {} => \E x \in AggValue : IsBest(max, vals, S, x)
         /\ \A x, y : IsBest(max, vals, S, x) /\ IsBest(max, vals, S, y) => x = y
<1> DEFINE n == Len(vals)
<1>1. n \in Nat /\ \A i \in S : i \in 1..n /\ vals[i] \in AggValue OBVIOUS
<1>3. \A a, b, c \in AggValue : /\ ~Better(max, a, a) /\ (Better(max, a, b) /\ Better(max, b, c) => Better(max, a, c))
                                /\ a = b \/ Better(max, a, b) \/ Better(max, b, a) BY ValOrder DEF Better
<1> HIDE DEF n
<1>4. ASSUME NEW x, NEW y, IsBest(max, vals, S, x), IsBest(max, vals, S, y) PROVE x = y
  BY <1>1, <1>4, <1>3 DEF IsBest
<1>7. ASSUME S # {} PROVE \E x \in AggValue : IsBest(max, vals, S, x)
 <2> DEFINE part(m) == S \cap (1..m)
            T == {m \in 0..n : part(m) # {} /\ ~\E x : IsBest(max, vals, part(m), x)}
 <2>1. T = {}
  <3> SUFFICES ASSUME T # {} PROVE FALSE OBVIOUS
  <3>1. T \in SUBSET Nat BY <1>1
  <3>2. PICK m \in T : \A k \in T : m <= k BY <3>1, LeastNumber
  <3>3. m \in 0..n /\ part(m) # {} /\ ~\E x : IsBest(max, vals, part(m), x) BY <3>2
  <3>4. m # 0
   <4>1. 1..0 = {} OBVIOUS
   <4> QED BY <3>3, <4>1
  <3>5. m - 1 \in 0..n /\ m - 1 \notin T /\ part(m) \in SUBSET (part(m - 1) \cup {m}) /\ part(m - 1) \in SUBSET part(m)
   <4>1. m - 1 \in 0..n /\ m - 1 < m BY <1>1, <3>3, <3>4
   <4>2. m - 1 \notin T
    <5> HIDE DEF T
    <5> QED BY <3>1, <3>2, <4>1
   <4>3. \A i \in 1..m : i \in 1..(m - 1) \/ i = m BY <1>1, <3>3
   <4>4. \A i \in 1..(m - 1) : i \in 1..m BY <1>1, <3>3
   <4> QED BY <4>1, <4>2, <4>3, <4>4
  <3>6. m \in S
   <4> SUFFICES ASSUME m \notin S PROVE FALSE OBVIOUS
   <4>1. part(m) = part(m - 1) BY <3>5
   <4> QED BY <3>3, <3>5, <4>1
  <3>7. vals[m] \in AggValue /\ m \in part(m) /\ part(m) = part(m - 1) \cup {m} /\ \A i \in part(m - 1) : vals[i] \in AggValue
    BY <1>1, <3>3, <3>4, <3>5, <3>6
  <3> HIDE DEF part
  <3>8. CASE part(m - 1) = {} BY <1>3, <3>7, <3>8, <3>3 DEF IsBest
  <3>9. CASE part(m - 1) # {}
   <4>1. PICK x : IsBest(max, vals, part(m - 1), x) BY <3>5, <3>9
   <4>2. x \in AggValue /\ (\E i \in part(m - 1) : x = vals[i]) /\ \A i \in part(m - 1) : ~Better(max, vals[i], x)
     BY <3>7, <4>1 DEF IsBest
   <4>3. CASE Better(max, vals[m], x) BY <1>3, <3>7, <4>2, <4>3, <3>3 DEF IsBest
   <4>4. CASE ~Better(max, vals[m], x) BY <3>7, <4>2, <4>4, <3>3 DEF IsBest
   <4> QED BY <4>3, <4>4
  <3> QED BY <3>8, <3>9
 <2>2. part(n) = S /\ n \in 0..n
  <3>1. \A i \in S : i \in 1..n BY <1>1
  <3>2. S \cap (1..n) = S BY <3>1
  <3> HIDE DEF T
  <3> QED BY <1>1, <3>2
 <2>3. PICK x : IsBest(max, vals, S, x) BY <1>7, <2>1, <2>2
 <2>4. x \in AggValue BY <1>1, <2>3 DEF IsBest
 <2> QED BY <2>3, <2>4
<1> QED BY <1>4, <1>7

\* One more value is the best if it is the first or better than the one before.
LEMMA BestGrows ==
  ASSUME NEW max \in BOOLEAN, NEW vals \in Seq(AggValue), NEW v \in AggValue, NEW S \in SUBSET (1..Len(vals))
  PROVE  /\ S = {} => IsBest(max, Append(vals, v), S \cup {Len(vals) + 1}, v)
         /\ \A x : IsBest(max, vals, S, x) =>
              IsBest(max, Append(vals, v), S \cup {Len(vals) + 1}, IF Better(max, v, x) THEN v ELSE x)
<1> DEFINE n == Len(vals)
           t == Append(vals, v)
<1>1. n \in Nat /\ \A i \in S : i \in 1..n /\ vals[i] \in AggValue OBVIOUS
<1>2. t[n + 1] = v /\ \A i \in S : t[i] = vals[i] BY AppendProperties
<1>3. \A a, b, c \in AggValue : /\ ~Better(max, a, a) /\ (Better(max, a, b) /\ Better(max, b, c) => Better(max, a, c))
                                /\ a = b \/ Better(max, a, b) \/ Better(max, b, a) BY ValOrder DEF Better
<1> HIDE DEF n, t
<1>5. S = {} => IsBest(max, t, S \cup {n + 1}, v) BY <1>2, <1>3 DEF IsBest
<1>6. ASSUME NEW x, IsBest(max, vals, S, x) PROVE IsBest(max, t, S \cup {n + 1}, IF Better(max, v, x) THEN v ELSE x)
 <2>1. x \in AggValue /\ (\E i \in S : x = vals[i]) /\ \A i \in S : ~Better(max, vals[i], x) BY <1>1, <1>6 DEF IsBest
 <2>2. CASE Better(max, v, x) BY <1>1, <1>3, <2>1, <2>2, <1>2 DEF IsBest
 <2>3. CASE ~Better(max, v, x) BY <1>2, <2>1, <2>3 DEF IsBest
 <2> QED BY <2>2, <2>3
<1> QED BY <1>5, <1>6 DEF n, t

\* LeastIn and MostIn are these best values.
LEMMA LeastMost ==
  ASSUME NEW vals \in Seq(AggValue), NEW S \in SUBSET (1..Len(vals))
  PROVE  /\ S # {} => IsBest(FALSE, vals, S, LeastIn(vals, S)) /\ IsBest(TRUE, vals, S, MostIn(vals, S))
         /\ \A x : IsBest(FALSE, vals, S, x) => LeastIn(vals, S) = x
         /\ \A x : IsBest(TRUE, vals, S, x) => MostIn(vals, S) = x
<1>2. ASSUME NEW x, IsBest(FALSE, vals, S, x) PROVE IsBest(FALSE, vals, S, LeastIn(vals, S))
  BY <1>2 DEF IsBest, Better, LeastIn
<1>3. ASSUME NEW x, IsBest(TRUE, vals, S, x) PROVE IsBest(TRUE, vals, S, MostIn(vals, S))
  BY <1>3 DEF IsBest, Better, MostIn
<1>4. \A max \in BOOLEAN : /\ S # {} => \E x \in AggValue : IsBest(max, vals, S, x)
                           /\ \A x, y : IsBest(max, vals, S, x) /\ IsBest(max, vals, S, y) => x = y BY BestExists
<1> QED BY <1>2, <1>3, <1>4

\* One more value, in the least and the greatest.
LEMMA LeastMostGrow ==
  ASSUME NEW vals \in Seq(AggValue), NEW v \in AggValue, NEW S \in SUBSET (1..Len(vals))
  PROVE  /\ LeastIn(Append(vals, v), S \cup {Len(vals) + 1}) =
              IF S = {} \/ ValLess(v, LeastIn(vals, S)) THEN v ELSE LeastIn(vals, S)
         /\ MostIn(Append(vals, v), S \cup {Len(vals) + 1}) =
              IF S = {} \/ ValLess(MostIn(vals, S), v) THEN v ELSE MostIn(vals, S)
         /\ LeastIn(Append(vals, v), S) = LeastIn(vals, S)
         /\ MostIn(Append(vals, v), S) = MostIn(vals, S)
<1> DEFINE n == Len(vals)
           t == Append(vals, v)
           A == S \cup {n + 1}
<1>1. n \in Nat /\ t \in Seq(AggValue) /\ Len(t) = n + 1 /\ \A i \in S : t[i] = vals[i] BY AppendProperties
<1>2. A \in SUBSET (1..Len(t)) /\ S \in SUBSET (1..Len(t))
 <2>1. \A i \in A : i \in 1..(n + 1) OBVIOUS
 <2> HIDE DEF t, n
 <2> QED BY <1>1, <2>1
<1>3. ASSUME NEW max \in BOOLEAN, NEW x, S # {} => IsBest(max, vals, S, x)
      PROVE  IsBest(max, t, A, IF S = {} \/ Better(max, v, x) THEN v ELSE x)
 <2>1. CASE S = {} BY <2>1, BestGrows
 <2>2. CASE S # {} BY <1>3, <2>2, BestGrows
 <2> QED BY <2>1, <2>2
<1>4. S # {} => IsBest(FALSE, vals, S, LeastIn(vals, S)) /\ IsBest(TRUE, vals, S, MostIn(vals, S)) BY LeastMost
<1>5. IsBest(FALSE, t, A, IF S = {} \/ ValLess(v, LeastIn(vals, S)) THEN v ELSE LeastIn(vals, S))
  BY <1>3, <1>4 DEF Better
<1>6. IsBest(TRUE, t, A, IF S = {} \/ ValLess(MostIn(vals, S), v) THEN v ELSE MostIn(vals, S)) BY <1>3, <1>4 DEF Better
<1>7. {t[i] : i \in S} = {vals[i] : i \in S} BY <1>1
<1>8. LeastIn(t, S) = LeastIn(vals, S) /\ MostIn(t, S) = MostIn(vals, S) BY <1>1, <1>7 DEF LeastIn, MostIn
<1> HIDE DEF t, A
<1>9. /\ LeastIn(t, A) = IF S = {} \/ ValLess(v, LeastIn(vals, S)) THEN v ELSE LeastIn(vals, S)
      /\ MostIn(t, A) = IF S = {} \/ ValLess(MostIn(vals, S), v) THEN v ELSE MostIn(vals, S)
  BY <1>1, <1>2, <1>5, <1>6, LeastMost
<1> QED BY <1>8, <1>9 DEF t, A, n

\* An accumulator begins as that of no values, ...
LEMMA AccStarts ==
  ASSUME NEW agg \in AggNames
  PROVE  AggInit(agg) = AccOf(agg, <<>>)
<1>1. /\ ValuedIn(<<>>) = {} /\ NumbersIn(<<>>) = {} /\ KnownIn(<<>>) = {} /\ FirstsIn(<<>>, {}) = {}
      /\ Cardinality({}) = 0 BY FS_EmptySet DEF ValuedIn, NumbersIn, KnownIn, FirstsIn
<1>2. Listed(<<>>, {}) = <<>> BY ListedNone
<1>3. SumOf(<<>>) = 0
 <2>1. <<>> \in Seq({Missing}) /\ Missing \in {Missing} OBVIOUS
 <2> QED BY <2>1, SumGrows
<1>4. CASE agg \in {"count", "countn"} BY <1>1, <1>4 DEF AggInit, AccOf
<1>5. CASE agg = "avg" BY <1>1, <1>2, <1>3, <1>5 DEF AggInit, AccOf
<1>6. CASE agg \in {"sum", "min", "max"} BY <1>1, <1>6 DEF AggInit, AccOf
<1>7. CASE agg \in {"array_agg", "count_distinct", "array_agg_distinct", "sum_distinct", "avg_distinct", "countn_distinct",
                    "median", "var_pop", "var_samp"} BY <1>1, <1>2, <1>7 DEF AggInit, AccOf
<1> QED BY <1>4, <1>5, <1>6, <1>7 DEF AggNames

\* ... each value updates it to that of one value more, ...
LEMMA AccUpdates ==
  ASSUME NEW agg \in AggNames, NEW vals \in Seq(AggValue), NEW v \in AggValue
  PROVE  AggUpdate(agg, AccOf(agg, vals), v) = AccOf(agg, Append(vals, v))
<1> DEFINE n == Len(vals)
           t == Append(vals, v)
           A == ValuedIn(vals)
           N == NumbersIn(vals)
           W == KnownIn(vals)
<1>1. /\ A \in SUBSET (1..n) /\ N \in SUBSET (1..n) /\ W \in SUBSET (1..n)
      /\ ValuedIn(t) = A \cup (IF HasValue(v) THEN {n + 1} ELSE {})
      /\ NumbersIn(t) = N \cup (IF IsNumber(v) THEN {n + 1} ELSE {})
      /\ KnownIn(t) = W \cup (IF v # Missing THEN {n + 1} ELSE {}) BY PlacesGrow
<1>2. ASSUME NEW S \in SUBSET (1..n)
      PROVE  /\ Listed(vals, S) \in Seq(AggValue) /\ (InSeq(v, Listed(vals, S)) <=> \E i \in S : vals[i] = v)
             /\ Listed(t, S) = Listed(vals, S) /\ Listed(t, S \cup {n + 1}) = Append(Listed(vals, S), v)
             /\ Cardinality(S \cup {n + 1}) = Cardinality(S) + 1
 <2>1. /\ Listed(vals, S) \in Seq(AggValue) /\ Len(Listed(vals, S)) = Cardinality(S) /\ Cardinality(S) \in Nat
       /\ Listed(vals, S) = <<>> <=> S = {}
       /\ InSeq(v, Listed(vals, S)) <=> \E i \in S : vals[i] = v
       /\ Listed(t, S) = Listed(vals, S)
       /\ Listed(t, S \cup {n + 1}) = Append(Listed(vals, S), v)
       /\ Cardinality(S \cup {n + 1}) = Cardinality(S) + 1 BY ListedFacts
 <2> QED BY <2>1
<1>3. ASSUME NEW S \in SUBSET (1..n)
      PROVE  /\ FirstsIn(vals, S) \in SUBSET (1..n)
             /\ (\E i \in FirstsIn(vals, S) : vals[i] = v) <=> \E i \in S : vals[i] = v
             /\ FirstsIn(t, S) = FirstsIn(vals, S)
             /\ FirstsIn(t, S \cup {n + 1}) = FirstsIn(vals, S) \cup (IF \E i \in S : vals[i] = v THEN {} ELSE {n + 1})
  BY FirstsGrow
<1>4. ASSUME NEW S \in SUBSET (1..n)
      PROVE  Listed(t, FirstsIn(t, S)) = Listed(vals, FirstsIn(vals, S))
             /\ Listed(t, FirstsIn(t, S \cup {n + 1})) =
                  IF InSeq(v, Listed(vals, FirstsIn(vals, S))) THEN Listed(vals, FirstsIn(vals, S))
                  ELSE Append(Listed(vals, FirstsIn(vals, S)), v)
 <2> DEFINE F == FirstsIn(vals, S)
 <2>1. /\ F \in SUBSET (1..n) /\ ((\E i \in F : vals[i] = v) <=> \E i \in S : vals[i] = v)
       /\ FirstsIn(t, S) = F /\ FirstsIn(t, S \cup {n + 1}) = F \cup (IF \E i \in S : vals[i] = v THEN {} ELSE {n + 1})
   BY <1>3
 <2> HIDE DEF F, t, n
 <2>2. /\ InSeq(v, Listed(vals, F)) <=> \E i \in F : vals[i] = v
       /\ Listed(t, F) = Listed(vals, F) /\ Listed(t, F \cup {n + 1}) = Append(Listed(vals, F), v) BY <1>2, <2>1
 <2>3. F \cup {} = F OBVIOUS
 <2>4. CASE \E i \in S : vals[i] = v BY <2>1, <2>2, <2>3, <2>4 DEF F
 <2>5. CASE ~\E i \in S : vals[i] = v BY <2>1, <2>2, <2>5 DEF F
 <2> QED BY <2>4, <2>5
<1>5. ASSUME NEW S \in SUBSET (1..n) PROVE SumOf(Listed(t, S \cup {n + 1})) = SumOf(Listed(vals, S)) + v.n
  BY <1>2, SumGrows, <1>5
<1>6. SumOf(<<>>) = 0 /\ Listed(vals, {}) = <<>> BY ListedNone, SumGrows
<1>7. /\ LeastIn(t, A \cup {n + 1}) = IF A = {} \/ ValLess(v, LeastIn(vals, A)) THEN v ELSE LeastIn(vals, A)
      /\ MostIn(t, A \cup {n + 1}) = IF A = {} \/ ValLess(MostIn(vals, A), v) THEN v ELSE MostIn(vals, A)
      /\ LeastIn(t, A) = LeastIn(vals, A)
      /\ MostIn(t, A) = MostIn(vals, A)
 <2>1. A \in SUBSET (1..n) BY <1>1
 <2> HIDE DEF A
 <2> QED BY <2>1, LeastMostGrow
<1>8. /\ IsNumber(v) => HasValue(v) /\ v # Missing
      /\ HasValue(v) => v # Missing
      /\ A \cup {} = A /\ N \cup {} = N /\ W \cup {} = W /\ A \cup {n + 1} # {} /\ N \cup {n + 1} # {}
  BY DEF IsNumber, HasValue, Missing
<1>9. Listed(t, A) = Listed(vals, A) /\ Listed(t, N) = Listed(vals, N) /\ Listed(t, W) = Listed(vals, W) BY <1>1, <1>2
<1>10. /\ Cardinality(A \cup {n + 1}) = Cardinality(A) + 1 /\ Cardinality(N \cup {n + 1}) = Cardinality(N) + 1
       /\ SumOf(Listed(t, N \cup {n + 1})) = SumOf(Listed(vals, N)) + v.n
       /\ Listed(t, N \cup {n + 1}) = Append(Listed(vals, N), v) /\ Listed(t, W \cup {n + 1}) = Append(Listed(vals, W), v)
  BY <1>1, <1>2, <1>5
<1>11. /\ Listed(t, FirstsIn(t, N)) = Listed(vals, FirstsIn(vals, N)) /\ Listed(t, FirstsIn(t, W)) = Listed(vals, FirstsIn(vals, W))
       /\ Listed(t, FirstsIn(t, N \cup {n + 1})) =
            (IF InSeq(v, Listed(vals, FirstsIn(vals, N))) THEN Listed(vals, FirstsIn(vals, N))
             ELSE Append(Listed(vals, FirstsIn(vals, N)), v))
       /\ Listed(t, FirstsIn(t, W \cup {n + 1})) =
            (IF InSeq(v, Listed(vals, FirstsIn(vals, W))) THEN Listed(vals, FirstsIn(vals, W))
             ELSE Append(Listed(vals, FirstsIn(vals, W)), v)) BY <1>1, <1>4
<1> SUFFICES AggUpdate(agg, AccOf(agg, vals), v) = AccOf(agg, t) OBVIOUS
<1> HIDE DEF t, A, N, W, n
<1>12. CASE agg = "count" BY <1>1, <1>8, <1>10, <1>12 DEF AggUpdate, AccOf, A
<1>13. CASE agg = "countn" BY <1>1, <1>8, <1>10, <1>13 DEF AggUpdate, AccOf, N
<1>14. CASE agg = "sum"
 <2>1. AccOf(agg, vals) = IF N = {} THEN <<>> ELSE <<SumOf(Listed(vals, N))>> BY <1>14 DEF AccOf, N
 <2>2. AccOf(agg, t) = IF NumbersIn(t) = {} THEN <<>> ELSE <<SumOf(Listed(t, NumbersIn(t)))>> BY <1>14 DEF AccOf
 <2>3. \A a : AggUpdate(agg, a, v) = IF IsNumber(v) THEN AddToSum(a, v) ELSE a BY <1>14 DEF AggUpdate
 <2>4. CASE ~IsNumber(v) BY <1>1, <1>8, <1>9, <2>1, <2>2, <2>3, <2>4
 <2>5. CASE IsNumber(v) /\ N = {} BY <1>6, <1>10, <2>5, <1>1, <1>8, <2>1, <2>2, <2>3 DEF AggValue, AddToSum
 <2>6. CASE IsNumber(v) /\ N # {}
  <3>1. \A x : <<x>> # <<>> /\ <<x>>[1] = x OBVIOUS
  <3> QED BY <1>1, <1>8, <1>10, <2>1, <2>2, <2>3, <2>6, <3>1 DEF AddToSum
 <2> QED BY <2>4, <2>5, <2>6
<1>15. CASE agg = "avg" BY <1>15, <1>1, <1>8, <1>10, <1>9 DEF AccOf, A, N, AggUpdate
<1>16. CASE agg = "min" BY <1>16, <1>1, <1>7, <1>8 DEF AccOf, A, AggUpdate, Compares
<1>17. CASE agg = "max" BY <1>17, <1>1, <1>7, <1>8 DEF AccOf, A, AggUpdate, Compares
<1>18. CASE agg = "array_agg" BY <1>1, <1>8, <1>9, <1>10, <1>18 DEF AggUpdate, AccOf, W
<1>19. CASE agg \in {"count_distinct", "array_agg_distinct"} BY <1>1, <1>8, <1>11, <1>19 DEF AggUpdate, AccOf, W
<1>20. CASE agg \in {"sum_distinct", "avg_distinct", "countn_distinct"}
  BY <1>1, <1>8, <1>11, <1>20 DEF AggUpdate, AccOf, N
<1>21. CASE agg \in {"median", "var_pop", "var_samp"} BY <1>1, <1>8, <1>9, <1>10, <1>21 DEF AggUpdate, AccOf, N
<1> QED BY <1>12, <1>13, <1>14, <1>15, <1>16, <1>17, <1>18, <1>19, <1>20, <1>21 DEF AggNames

\* ... and its result is what SQL says of the values.
LEMMA AccResults ==
  ASSUME NEW agg \in AggNames, NEW vals \in Seq(AggValue)
  PROVE  AggResult(agg, AccOf(agg, vals)) = AggDefinition(agg, vals)
<1> DEFINE n == Len(vals)
           A == ValuedIn(vals)
           N == NumbersIn(vals)
           W == KnownIn(vals)
<1>1. Missing \in AggValue BY DEF AggValue, Missing
<1>2. A \in SUBSET (1..n) /\ N \in SUBSET (1..n) /\ W \in SUBSET (1..n) BY <1>1, PlacesGrow
<1>3. ASSUME NEW S \in SUBSET (1..n)
      PROVE  /\ (Listed(vals, S) = <<>> <=> S = {}) /\ Len(Listed(vals, S)) = Cardinality(S)
             /\ FirstsIn(vals, S) \in SUBSET (1..n) /\ (FirstsIn(vals, S) = {} <=> S = {})
 <2>1. Listed(vals, S) = <<>> <=> S = {} BY <1>1, ListedFacts
 <2>2. Len(Listed(vals, S)) = Cardinality(S) BY <1>1, ListedFacts
 <2>3. FirstsIn(vals, S) \in SUBSET (1..n) /\ (FirstsIn(vals, S) = {} <=> S = {}) BY <1>1, FirstsGrow
 <2> QED BY <2>1, <2>2, <2>3
<1>4. ASSUME NEW S \in SUBSET (1..n)
      PROVE  /\ Listed(vals, FirstsIn(vals, S)) = <<>> <=> S = {}
             /\ Len(Listed(vals, FirstsIn(vals, S))) = Cardinality(FirstsIn(vals, S)) BY <1>3, <1>4
<1>5. IsFiniteSet(A) /\ Cardinality(A) \in Nat /\ (Cardinality(A) = 0 <=> A = {})
  BY <1>2, PartFinite, FS_CardinalityType, FS_EmptySet
<1>6. \A x, y : <<x>> # <<>> /\ <<x>>[1] = x /\ <<x, y>>[1] = x /\ <<x, y>>[2] = y OBVIOUS
<1> HIDE DEF n, A, N, W
<1>7. CASE agg = "count"
  BY <1>7, <1>2, <1>3, <1>4, <1>5, <1>6 DEF AggDefinition, ValuedIn, A, AggResult, AccOf
<1>8. CASE agg = "countn"
  BY <1>8, <1>2, <1>3, <1>4, <1>5, <1>6 DEF AggDefinition, NumbersIn, N, AggResult, AccOf
<1>9. CASE agg = "sum"
  BY <1>9, <1>2, <1>3, <1>4, <1>5, <1>6 DEF AggDefinition, NumbersIn, N, Listed, AggResult, AccOf
<1>10. CASE agg = "avg"
  BY <1>10, <1>2, <1>3, <1>4, <1>5, <1>6 DEF AggDefinition, ValuedIn, NumbersIn, A, N, Listed, AggResult,
     AccOf
<1>11. CASE agg = "min"
  BY <1>11, <1>2, <1>3, <1>4, <1>5, <1>6 DEF AggDefinition, ValuedIn, A, LeastIn, AggResult, AccOf
<1>12. CASE agg = "max"
  BY <1>12, <1>2, <1>3, <1>4, <1>5, <1>6 DEF AggDefinition, ValuedIn, A, MostIn, AggResult, AccOf
<1>13. CASE agg = "array_agg"
  BY <1>13, <1>2, <1>3, <1>4, <1>5, <1>6 DEF AggDefinition, KnownIn, W, Listed, AggResult, AccOf
<1>14. CASE agg = "array_agg_distinct"
  BY <1>14, <1>2, <1>3, <1>4, <1>5, <1>6 DEF AggDefinition, KnownIn, W, Listed, FirstsIn, AggResult, AccOf
<1>15. CASE agg = "count_distinct"
  BY <1>15, <1>2, <1>3, <1>4, <1>5, <1>6 DEF AggDefinition, KnownIn, W, FirstsIn, AggResult, AccOf
<1>16. CASE agg = "countn_distinct"
  BY <1>16, <1>2, <1>3, <1>4, <1>5, <1>6 DEF AggDefinition, NumbersIn, N, FirstsIn, AggResult, AccOf
<1>17. CASE agg = "sum_distinct"
  BY <1>17, <1>2, <1>3, <1>4, <1>5, <1>6 DEF AggDefinition, NumbersIn, N, Listed, FirstsIn, AggResult, AccOf
<1>18. CASE agg = "avg_distinct"
  BY <1>18, <1>2, <1>3, <1>4, <1>5, <1>6 DEF AggDefinition, NumbersIn, N, Listed, FirstsIn, AggResult, AccOf
<1>19. CASE agg \in {"median", "var_pop", "var_samp"} BY <1>19 DEF AggDefinition, Listed, NumbersIn, AccOf
<1> QED BY <1>7, <1>8, <1>9, <1>10, <1>11, <1>12, <1>13, <1>14, <1>15, <1>16, <1>17, <1>18, <1>19 DEF AggNames

\* Known aggregates, and rows <<group key, value>>.
GroupConfigOK(c) ==
  /\ c.aggs \in Seq(AggNames) /\ c.grouped \in BOOLEAN /\ c.fail \in BOOLEAN
  /\ Len(c.rows) \in Nat /\ DOMAIN c.rows = 1..Len(c.rows) /\ \A i \in 1..Len(c.rows) : c.rows[i][2] \in AggValue

\* Of the first n rows: their values, those of group k and their values, and the groups.
ColumnUpto(n) == [i \in 1..n |-> grCfg.rows[i][2]]
PlacesOf(k, n) == {i \in 1..n : GroupKey(grCfg.rows[i]) = k}
ValuesOf(k, n) == Listed(ColumnUpto(n), PlacesOf(k, n))
GroupsUpto(n) == {GroupKey(grCfg.rows[i]) : i \in 1..n} \cup (IF PreSeeded THEN {0} ELSE {})

\* What is asked of group k, and of all groups.
GroupRowOf(k) == <<k, [x \in DOMAIN grCfg.aggs |-> AggDefinition(grCfg.aggs[x], ValuesOf(k, Len(grCfg.rows)))]>>
GroupRows == {GroupRowOf(k) : k \in GroupsUpto(Len(grCfg.rows))}

\* The map holds the groups so far, with the accumulators of their own values; what has been
\* visited has been yielded, once.
GroupMapInv ==
  /\ DOMAIN grMap = GroupsUpto(grI)
  /\ \A k \in DOMAIN grMap : grMap[k] = [x \in DOMAIN grCfg.aggs |-> AccOf(grCfg.aggs[x], ValuesOf(k, grI))]
GroupOutInv ==
  /\ grSeen \subseteq DOMAIN grMap /\ IsFiniteSet(grSeen) /\ Len(grOut) = Cardinality(grSeen)
  /\ grOut \in Seq(GroupRows)
  /\ {grOut[n] : n \in DOMAIN grOut} = {GroupRowOf(k) : k \in grSeen}
GroupPcInv ==
  /\ grPc \in {"rows", "visit", "done"} /\ grI \in 0..Len(grCfg.rows)
  /\ grPc = "rows" => grSeen = {} /\ grOut = <<>>
  /\ grPc = "visit" => grI = Len(grCfg.rows)
  /\ grPc = "done" /\ ~grErr => grI = Len(grCfg.rows) /\ grSeen = DOMAIN grMap
GroupInv == GroupConfigOK(grCfg) /\ GroupMapInv /\ GroupOutInv /\ GroupPcInv

\* One more row is of one group, whose values it ends.
LEMMA GroupGrows ==
  ASSUME GroupConfigOK(grCfg), NEW n \in Nat, n < Len(grCfg.rows)
  PROVE  /\ grCfg.rows[n + 1][2] \in AggValue
         /\ GroupsUpto(n + 1) = GroupsUpto(n) \cup {GroupKey(grCfg.rows[n + 1])}
         /\ \A k : /\ ValuesOf(k, n) \in Seq(AggValue)
                   /\ k \notin GroupsUpto(n) => ValuesOf(k, n) = <<>>
                   /\ ValuesOf(k, n + 1) = IF k = GroupKey(grCfg.rows[n + 1]) THEN Append(ValuesOf(k, n), grCfg.rows[n + 1][2])
                                           ELSE ValuesOf(k, n)
<1> DEFINE v == grCfg.rows[n + 1][2]
           key == GroupKey(grCfg.rows[n + 1])
           c == ColumnUpto(n)
           S(k) == PlacesOf(k, n)
<1>1. Len(grCfg.rows) \in Nat /\ n + 1 \in 1..Len(grCfg.rows) /\ \A i \in 1..n : i \in 1..Len(grCfg.rows)
  BY DEF GroupConfigOK
<1>2. v \in AggValue /\ \A i \in 1..n : grCfg.rows[i][2] \in AggValue BY <1>1 DEF GroupConfigOK
<1>3. \A i : i \in 1..(n + 1) <=> i \in 1..n \/ i = n + 1 OBVIOUS
<1>4. GroupsUpto(n + 1) = GroupsUpto(n) \cup {key} BY <1>3 DEF GroupsUpto
<1>5. c \in Seq(AggValue) /\ Len(c) = n BY <1>2 DEF ColumnUpto
<1>6. ColumnUpto(n + 1) = Append(c, v)
 <2>1. Append(c, v) \in Seq(AggValue) /\ Len(Append(c, v)) = n + 1 /\ Append(c, v)[n + 1] = v /\ \A i \in 1..n : Append(c, v)[i] = c[i]
   BY <1>2, <1>5, AppendProperties
 <2>2. ColumnUpto(n + 1) \in Seq(AggValue) /\ Len(ColumnUpto(n + 1)) = n + 1
  <3>1. \A i \in 1..(n + 1) : grCfg.rows[i][2] \in AggValue BY <1>2, <1>3
  <3> QED BY <3>1 DEF ColumnUpto
 <2>3. \A i \in 1..(n + 1) : Append(c, v)[i] = ColumnUpto(n + 1)[i] BY <1>3, <2>1 DEF ColumnUpto
 <2> HIDE DEF c, v
 <2> QED BY <2>1, <2>2, <2>3, SeqEqual
<1>7. ASSUME NEW k
      PROVE  /\ ValuesOf(k, n) \in Seq(AggValue)
             /\ k \notin GroupsUpto(n) => ValuesOf(k, n) = <<>>
             /\ ValuesOf(k, n + 1) = IF k = key THEN Append(ValuesOf(k, n), v) ELSE ValuesOf(k, n)
 <2>1. S(k) \in SUBSET (1..Len(c)) BY <1>5 DEF PlacesOf
 <2>2. PlacesOf(k, n + 1) = IF k = key THEN S(k) \cup {n + 1} ELSE S(k)
  <3>1. CASE k = key BY <1>3, <3>1 DEF PlacesOf
  <3>2. CASE k # key BY <1>3, <3>2 DEF PlacesOf
  <3> QED BY <3>1, <3>2
 <2>3. k \notin GroupsUpto(n) => S(k) = {} BY DEF GroupsUpto, PlacesOf
 <2> HIDE DEF c, v, S
 <2>4. /\ Listed(c, S(k)) \in Seq(AggValue) /\ Listed(Append(c, v), S(k)) = Listed(c, S(k))
       /\ Listed(Append(c, v), S(k) \cup {n + 1}) = Append(Listed(c, S(k)), v)
  <3> DEFINE P == S(k)
  <3>1. c \in Seq(AggValue) /\ v \in AggValue /\ P \in SUBSET (1..Len(c)) BY <1>2, <1>5, <2>1
  <3> HIDE DEF P
  <3>2. /\ Listed(c, P) \in Seq(AggValue) /\ Len(Listed(c, P)) = Cardinality(P) /\ Cardinality(P) \in Nat
        /\ Listed(c, P) = <<>> <=> P = {}
        /\ InSeq(v, Listed(c, P)) <=> \E i \in P : c[i] = v
        /\ Listed(Append(c, v), P) = Listed(c, P)
        /\ Listed(Append(c, v), P \cup {Len(c) + 1}) = Append(Listed(c, P), v)
        /\ Cardinality(P \cup {Len(c) + 1}) = Cardinality(P) + 1 BY ONLY <3>1, ListedFacts
  <3> QED BY <1>5, <3>2 DEF P
 <2>5. Listed(c, {}) = <<>> BY ListedNone
 <2>6. ValuesOf(k, n) = Listed(c, S(k)) /\ ValuesOf(k, n + 1) = Listed(Append(c, v), PlacesOf(k, n + 1))
   BY <1>6 DEF ValuesOf, c, S
 <2> QED BY <2>2, <2>3, <2>4, <2>5, <2>6
<1> QED BY <1>2, <1>4, <1>7

\* What is said of a number of rows is said of the same rows after a step.
LEMMA GroupKept ==
  ASSUME grCfg' = grCfg
  PROVE  /\ GroupConfigOK(grCfg)' = GroupConfigOK(grCfg) /\ GroupsUpto(grI)' = GroupsUpto(grI')
         /\ GroupRows' = GroupRows /\ \A k : GroupRowOf(k)' = GroupRowOf(k) /\ ValuesOf(k, grI)' = ValuesOf(k, grI')
<1>1. GroupConfigOK(grCfg)' = GroupConfigOK(grCfg) BY DEF GroupConfigOK
<1>2. \A n : GroupsUpto(n)' = GroupsUpto(n) BY DEF GroupsUpto, GroupKey, PreSeeded
<1>3. \A k, n : ValuesOf(k, n)' = ValuesOf(k, n) BY DEF ValuesOf, ColumnUpto, PlacesOf, GroupKey
<1>4. GroupsUpto(grI)' = GroupsUpto(grI') /\ \A k : ValuesOf(k, grI)' = ValuesOf(k, grI')
  BY DEF ValuesOf, ColumnUpto, PlacesOf, GroupsUpto, GroupKey, PreSeeded
<1>5. \A k : GroupRowOf(k)' = GroupRowOf(k) BY <1>3 DEF GroupRowOf
<1>6. GroupRows' = GroupRows BY <1>2, <1>5 DEF GroupRows
<1> QED BY <1>1, <1>4, <1>5, <1>6

\* The first groups are none, or the one of a query without GROUP BY, which has no values yet.
LEMMA GroupStarts ==
  ASSUME NEW Cfgs, \A c \in Cfgs : GroupConfigOK(c), GroupInit(Cfgs)
  PROVE  GroupInv
<1>1. GroupConfigOK(grCfg) BY DEF GroupInit
<1>2. grCfg.aggs \in Seq(AggNames) /\ \A x \in DOMAIN grCfg.aggs : grCfg.aggs[x] \in AggNames BY <1>1 DEF GroupConfigOK
<1>3. \A k : ValuesOf(k, 0) = <<>>
 <2> SUFFICES ASSUME NEW k PROVE ValuesOf(k, 0) = <<>> OBVIOUS
 <2>1. 1..0 = {} OBVIOUS
 <2>2. PlacesOf(k, 0) = {} BY <2>1 DEF PlacesOf
 <2> QED BY <2>2, ListedNone DEF ValuesOf
<1>4. InitAll = [x \in DOMAIN grCfg.aggs |-> AccOf(grCfg.aggs[x], <<>>)] BY <1>2, AccStarts DEF InitAll
<1>5. GroupsUpto(0) = IF PreSeeded THEN {0} ELSE {} BY DEF GroupsUpto
<1>6. GroupMapInv BY <1>3, <1>4, <1>5 DEF GroupInit, GroupMapInv
<1>7. GroupOutInv BY FS_EmptySet DEF GroupInit, GroupOutInv
<1>8. GroupPcInv BY <1>1 DEF GroupInit, GroupPcInv, GroupConfigOK
<1> QED BY <1>1, <1>6, <1>7, <1>8 DEF GroupInv

\* A row updates the accumulators of its own group.
LEMMA GroupRowStep ==
  ASSUME GroupInv, GroupRow
  PROVE  GroupInv'
<1> DEFINE n == grI
           row == grCfg.rows[n + 1]
           key == GroupKey(row)
           old == IF key \in DOMAIN grMap THEN grMap[key] ELSE InitAll
           accs(k) == [x \in DOMAIN grCfg.aggs |-> AccOf(grCfg.aggs[x], ValuesOf(k, n))]
<1>1. /\ grPc = "rows" /\ n < Len(grCfg.rows) /\ grI' = n + 1 /\ grCfg' = grCfg /\ UNCHANGED <<grPc, grSeen, grOut, grErr>>
      /\ grMap' = [x \in DOMAIN grMap \cup {key} |-> IF x = key THEN UpdateAll(old, row[2]) ELSE grMap[x]]
  BY DEF GroupRow
<1>2. GroupConfigOK(grCfg) /\ n \in Nat /\ n + 1 \in 0..Len(grCfg.rows) /\ grSeen = {} /\ grOut = <<>>
  BY <1>1 DEF GroupInv, GroupPcInv, GroupConfigOK
<1>3. \A x \in DOMAIN grCfg.aggs : grCfg.aggs[x] \in AggNames BY <1>2 DEF GroupConfigOK
<1>4. /\ row[2] \in AggValue /\ GroupsUpto(n + 1) = GroupsUpto(n) \cup {key}
      /\ \A k : /\ ValuesOf(k, n) \in Seq(AggValue) /\ (k \notin GroupsUpto(n) => ValuesOf(k, n) = <<>>)
                /\ ValuesOf(k, n + 1) = IF k = key THEN Append(ValuesOf(k, n), row[2]) ELSE ValuesOf(k, n)
  BY <1>1, <1>2, GroupGrows
<1>5. DOMAIN grMap = GroupsUpto(n) /\ \A k \in DOMAIN grMap : grMap[k] = accs(k) BY DEF GroupInv, GroupMapInv
<1>6. old = accs(key)
 <2>1. CASE key \in DOMAIN grMap BY <1>5, <2>1
 <2>2. CASE key \notin DOMAIN grMap
  <3>1. ValuesOf(key, n) = <<>> BY <1>4, <1>5, <2>2
  <3> QED BY <1>3, <2>2, <3>1, AccStarts DEF InitAll
 <2> QED BY <2>1, <2>2
<1> HIDE DEF old, key, row
<1>7. UpdateAll(old, row[2]) = [x \in DOMAIN grCfg.aggs |-> AccOf(grCfg.aggs[x], ValuesOf(key, n + 1))]
  BY <1>3, <1>4, AccUpdates, <1>6 DEF UpdateAll
<1>8. GroupMapInv'
 <2>1. DOMAIN grMap' = GroupsUpto(n + 1) BY <1>1, <1>4, <1>5
 <2>2. ASSUME NEW k \in DOMAIN grMap' PROVE grMap'[k] = [x \in DOMAIN grCfg.aggs |-> AccOf(grCfg.aggs[x], ValuesOf(k, n + 1))]
  <3>1. CASE k = key BY <1>1, <1>7, <3>1
  <3>2. CASE k # key BY <1>1, <1>4, <3>2, <1>5
  <3> QED BY <3>1, <3>2
 <2>3. GroupsUpto(grI)' = GroupsUpto(n + 1) /\ \A k : ValuesOf(k, grI)' = ValuesOf(k, n + 1) BY <1>1, GroupKept
 <2>4. \A k \in DOMAIN grMap' : grMap'[k] = [x \in DOMAIN grCfg.aggs |-> AccOf(grCfg.aggs[x], ValuesOf(k, grI)')]
   BY <2>2, <2>3
 <2>5. grCfg' = grCfg BY <1>1
 <2> QED BY ONLY <2>1, <2>3, <2>4, <2>5 DEF GroupMapInv
<1>9. GroupOutInv' BY <1>1, <1>2, FS_EmptySet DEF GroupOutInv
<1>10. GroupPcInv' BY <1>1, <1>2 DEF GroupPcInv
<1> QED BY <1>1, <1>2, <1>8, <1>9, <1>10, GroupKept DEF GroupInv

\* A visit yields the results of one group more.
LEMMA GroupVisitStep ==
  ASSUME GroupInv, GroupVisit
  PROVE  GroupInv'
<1>1. PICK k \in DOMAIN grMap \ grSeen :
        grSeen' = grSeen \cup {k} /\ grOut' = Append(grOut, <<k, ResultAll(grMap[k])>>) BY DEF GroupVisit
<1>2. grPc = "visit" /\ UNCHANGED <<grCfg, grPc, grI, grMap, grErr>> BY DEF GroupVisit
<1>3. /\ GroupConfigOK(grCfg) /\ GroupMapInv /\ GroupOutInv /\ GroupPcInv
      /\ grI = Len(grCfg.rows) /\ Len(grCfg.rows) \in Nat BY <1>2 DEF GroupInv, GroupPcInv, GroupConfigOK
<1>4. \A x \in DOMAIN grCfg.aggs : grCfg.aggs[x] \in AggNames BY <1>3 DEF GroupConfigOK
<1>5. ValuesOf(k, grI) \in Seq(AggValue)
 <2>1. ValuesOf(k, Len(grCfg.rows)) \in Seq(AggValue)
  <3> DEFINE c == ColumnUpto(Len(grCfg.rows))
             S == PlacesOf(k, Len(grCfg.rows))
  <3>1. c \in Seq(AggValue) /\ Len(c) = Len(grCfg.rows) BY <1>3 DEF ColumnUpto, GroupConfigOK
  <3>2. S \in SUBSET (1..Len(c)) /\ Missing \in AggValue BY <3>1 DEF PlacesOf, AggValue, Missing
  <3> HIDE DEF c, S
  <3>3. Listed(c, S) \in Seq(AggValue) BY <3>1, <3>2, ListedFacts
  <3> QED BY <3>3 DEF c, S, ValuesOf
 <2> QED BY <1>3, <2>1
<1>6. ResultAll(grMap[k]) = [x \in DOMAIN grCfg.aggs |-> AggDefinition(grCfg.aggs[x], ValuesOf(k, grI))]
  BY <1>3, <1>4, <1>5, AccResults DEF GroupMapInv, ResultAll
<1>7. grOut' = Append(grOut, GroupRowOf(k)) /\ GroupRowOf(k) \in GroupRows
  BY <1>3, <1>1, <1>6 DEF GroupMapInv, GroupRowOf, GroupRows
<1>8. GroupOutInv'
 <2>1. /\ grSeen \subseteq DOMAIN grMap /\ IsFiniteSet(grSeen) /\ Len(grOut) = Cardinality(grSeen) /\ grOut \in Seq(GroupRows)
       /\ {grOut[n] : n \in DOMAIN grOut} = {GroupRowOf(j) : j \in grSeen} BY <1>3 DEF GroupOutInv
 <2>2. IsFiniteSet(grSeen') /\ Cardinality(grSeen') = Cardinality(grSeen) + 1 /\ grSeen' \subseteq DOMAIN grMap'
   BY <1>1, <1>2, <2>1, FS_AddElement
 <2>3. /\ grOut' \in Seq(GroupRows) /\ Len(grOut') = Len(grOut) + 1 /\ grOut'[Len(grOut) + 1] = GroupRowOf(k)
       /\ (\A n \in 1..Len(grOut) : grOut'[n] = grOut[n]) /\ Len(grOut) \in Nat /\ DOMAIN grOut = 1..Len(grOut)
   BY <1>7, <2>1, AppendProperties
 <2>4. DOMAIN grOut' = DOMAIN grOut \cup {Len(grOut) + 1} BY <2>3
 <2>5. {grOut'[n] : n \in DOMAIN grOut'} = {grOut[n] : n \in DOMAIN grOut} \cup {GroupRowOf(k)} BY <2>3, <2>4
 <2>6. {grOut'[n] : n \in DOMAIN grOut'} = {GroupRowOf(j) : j \in grSeen'} BY <1>1, <2>1, <2>5
 <2>7. GroupRows' = GroupRows /\ \A j : GroupRowOf(j)' = GroupRowOf(j) BY <1>2, GroupKept
 <2>8. {GroupRowOf(j) : j \in grSeen}' = {GroupRowOf(j) : j \in grSeen'} BY <2>7
 <2> QED BY <2>1, <2>2, <2>3, <2>6, <2>7, <2>8 DEF GroupOutInv
<1>9. GroupMapInv' /\ GroupConfigOK(grCfg)' BY <1>2, <1>3, GroupKept DEF GroupMapInv
<1>10. GroupPcInv' BY <1>2, <1>3 DEF GroupPcInv
<1> QED BY <1>8, <1>9, <1>10 DEF GroupInv

\* No other step changes the map or what has been yielded.
LEMMA GroupStep ==
  ASSUME GroupInv, [GroupNext]_groupVars
  PROVE  GroupInv'
<1>1. ASSUME UNCHANGED <<grCfg, grI, grMap, grSeen, grOut>>, GroupPcInv' PROVE GroupInv'
 <2>1. GroupConfigOK(grCfg) /\ GroupMapInv /\ GroupOutInv BY DEF GroupInv
 <2>2. GroupMapInv' /\ GroupConfigOK(grCfg)' BY <1>1, <2>1, GroupKept DEF GroupMapInv
 <2>3. GroupRows' = GroupRows /\ \A j : GroupRowOf(j)' = GroupRowOf(j) BY <1>1, GroupKept
 <2>4. GroupOutInv' BY <1>1, <2>1, <2>3 DEF GroupOutInv
 <2> QED BY <1>1, <2>2, <2>4 DEF GroupInv
<1>2. CASE GroupRowsEnd BY <1>2, <1>1 DEF GroupRowsEnd, GroupInv, GroupConfigOK, GroupPcInv
<1>3. CASE GroupVisitEnd BY <1>3, <1>1 DEF GroupVisitEnd, GroupInv, GroupPcInv
<1>4. CASE UNCHANGED groupVars BY <1>4, <1>1 DEF groupVars, GroupInv, GroupPcInv
<1> QED BY <1>2, <1>3, <1>4, GroupRowStep, GroupVisitStep DEF GroupNext

\* engine/op_group.go, base/agg.go, base/agg_ext.go: GROUP BY yields each group
\* once, with what SQL says of the values of its own rows, whatever the rows,
\* their groups and the aggregates; without GROUP BY there is one group.
THEOREM GroupsAreExact ==
  ASSUME NEW Cfgs, \A c \in Cfgs : GroupConfigOK(c)
  PROVE  GroupSpec(Cfgs) => []GroupExact
<1>1. ASSUME GroupInv PROVE GroupExact
 <2> SUFFICES ASSUME grPc = "done", ~grErr PROVE GroupExact BY DEF GroupExact
 <2> DEFINE n == Len(grCfg.rows)
            keys == {GroupKey(grCfg.rows[i]) : i \in DOMAIN grCfg.rows}
                      \cup (IF grCfg.grouped \/ grCfg.aggs = <<>> THEN {} ELSE {0})
 <2>1. /\ GroupConfigOK(grCfg) /\ grI = n /\ grSeen = DOMAIN grMap /\ n \in Nat /\ DOMAIN grCfg.rows = 1..n
       /\ DOMAIN grMap = GroupsUpto(grI) BY <1>1 DEF GroupInv, GroupPcInv, GroupConfigOK, GroupMapInv
 <2>2. GroupsUpto(n) = keys BY <2>1 DEF GroupsUpto, PreSeeded
 <2>3. \A k : grGroup(k) = ValuesOf(k, n)
  <3> SUFFICES ASSUME NEW k PROVE grGroup(k) = ValuesOf(k, n) OBVIOUS
  <3> DEFINE S == PlacesOf(k, n)
             a == Ascending(S)
  <3>1. S = {i \in DOMAIN grCfg.rows : GroupKey(grCfg.rows[i]) = k} BY <2>1 DEF PlacesOf
  <3>2. S \in SUBSET (1..n) BY DEF PlacesOf
  <3>3. S \in SUBSET Nat /\ IsFiniteSet(S) BY <2>1, <3>2, PartFinite
  <3> HIDE DEF S
  <3>4. a \in [1..Cardinality(S) -> S] BY <3>3, AscendingFacts
  <3> HIDE DEF a
  <3>5. \A x \in DOMAIN a : grCfg.rows[a[x]][2] = ColumnUpto(n)[a[x]] BY <3>2, <3>4 DEF ColumnUpto
  <3>6. grGroup(k) = [x \in DOMAIN a |-> grCfg.rows[a[x]][2]] BY <3>1 DEF grGroup, a
  <3>7. ValuesOf(k, n) = [x \in DOMAIN a |-> ColumnUpto(n)[a[x]]] BY DEF ValuesOf, Listed, a, S
  <3> QED BY <3>5, <3>6, <3>7
 <2>4. Len(grOut) = Cardinality(grSeen) /\ {grOut[m] : m \in DOMAIN grOut} = {GroupRowOf(k) : k \in grSeen}
   BY <1>1 DEF GroupInv, GroupOutInv
 <2>5. \A k : GroupRowOf(k) = <<k, [x \in DOMAIN grCfg.aggs |-> AggDefinition(grCfg.aggs[x], grGroup(k))]>>
   BY <2>3 DEF GroupRowOf
 <2>6. grSeen = keys BY <2>1, <2>2
 <2> HIDE DEF n
 <2>7. Len(grOut) = Cardinality(keys)
       /\ {grOut[m] : m \in DOMAIN grOut} = {<<k, [x \in DOMAIN grCfg.aggs |-> AggDefinition(grCfg.aggs[x], grGroup(k))]>> : k \in keys}
   BY <2>4, <2>5, <2>6
 <2> QED BY <2>7 DEF GroupExact
<1>2. GroupInit(Cfgs) => GroupInv BY GroupStarts
<1>3. GroupInv /\ [GroupNext]_groupVars => GroupInv' BY GroupStep
<1> QED BY <1>1, <1>2, <1>3, PTL DEF GroupSpec

-----------------------------------------------------------------------------
(* Windows.                                                                *)

\* The rows of a partition come in the order of their ORDER BY values.
WindowConfigOK(c) ==
  LET part(i) == IF c.parted THEN c.rows[i][1] ELSE ""
  IN /\ Len(c.rows) \in Nat /\ c.beg \in Int /\ c.end \in Int
     /\ \A i \in 1..Len(c.rows) : c.rows[i][2] \in AggValue
     /\ \A i, j \in 1..Len(c.rows) : i < j /\ part(i) = part(j) => ~ValLess(c.rows[j][2], c.rows[i][2])

\* A value between two others is of their type and no further from either, or equal to both.
LEMMA Between ==
  ASSUME NEW a \in AggValue, NEW b \in AggValue, NEW c \in AggValue, ~ValLess(b, a), ~ValLess(c, b)
  PROVE  /\ a = c => b = a
         /\ IsNumber(a) /\ IsNumber(c) => IsNumber(b)
         /\ IsNumber(a) /\ IsNumber(b) => a.n <= b.n
         /\ a.n \in Int /\ b.n \in Int /\ c.n \in Int
<1>1. a = c => b = a BY ValOrder
<1>2. /\ a.n \in Int /\ b.n \in Int /\ c.n \in Int
      /\ {a.t, b.t, c.t} \subseteq {"missing", "null", "number", "string"} BY DEF AggValue
<1>3. IsNumber(a) /\ IsNumber(b) => a.n <= b.n BY <1>2 DEF IsNumber, ValLess
<1>4. IsNumber(a) /\ IsNumber(c) => IsNumber(b) BY <1>2 DEF IsNumber, ValLess, TypeRank
<1> QED BY <1>1, <1>2, <1>3, <1>4

\* The partition that is buffered, by ORDER BY values, and the rows within an edge of row i.
PartOrdered ==
  /\ PartLen \in Nat
  /\ \A i \in 0..(PartLen - 1) : OrderAt(i) \in AggValue
  /\ \A i, j \in 0..(PartLen - 1) : i <= j => ~ValLess(OrderAt(j), OrderAt(i))
WithinOf(i, dir) == {k \in 0..(PartLen - 1) : WithinEdge(i, k, dir)}

\* What is behind an edge reaches up to the row; and as the row moves on, no row comes to be within
\* the edge behind it, and none ahead of it ceases to be.
LEMMA EdgesMove ==
  ASSUME PartOrdered, FrameType = "range", BegNum \in Int, EndNum \in Int, NEW i \in 0..(PartLen - 1)
  PROVE  /\ \A j, k \in 0..(i - 1) : j \in WithinOf(i, -1) /\ j <= k => k \in WithinOf(i, -1)
         /\ i > 0 => \A j \in 0..(i - 2) : j \in WithinOf(i, -1) => j \in WithinOf(i - 1, -1)
         /\ i > 0 => \A k \in (i + 1)..(PartLen - 1) : k \in WithinOf(i - 1, 1) => k \in WithinOf(i, 1)
<1> DEFINE O(k) == OrderAt(k)
           m == PartLen - 1
<1>1. /\ PartLen \in Nat /\ \A k \in 0..m : O(k) \in AggValue
      /\ \A j, k, l \in 0..m : j <= k /\ k <= l =>
           /\ O(j) = O(l) => O(k) = O(j)
           /\ IsNumber(O(j)) /\ IsNumber(O(l)) => IsNumber(O(k))
           /\ IsNumber(O(j)) /\ IsNumber(O(k)) => O(j).n <= O(k).n
           /\ O(j).n \in Int /\ O(k).n \in Int /\ O(l).n \in Int BY Between DEF PartOrdered
<1>2. \A j, k : /\ WithinEdge(j, k, -1) <=> IF IsNumber(O(j)) THEN IsNumber(O(k)) /\ O(k).n >= O(j).n + BegNum ELSE O(k) = O(j)
                /\ WithinEdge(j, k, 1) <=> IF IsNumber(O(j)) THEN IsNumber(O(k)) /\ O(k).n <= O(j).n + EndNum ELSE O(k) = O(j)
  BY DEF WithinEdge
<1> HIDE DEF O
<1>3. ASSUME NEW j \in 0..(i - 1), NEW k \in 0..(i - 1), j \in WithinOf(i, -1), j <= k PROVE k \in WithinOf(i, -1)
  BY <1>1, <1>3, <1>2 DEF WithinOf
<1>4. ASSUME i > 0, NEW j \in 0..(i - 2), j \in WithinOf(i, -1) PROVE j \in WithinOf(i - 1, -1)
  BY <1>1, <1>4, <1>2 DEF WithinOf
<1>5. ASSUME i > 0, NEW k \in (i + 1)..m, k \in WithinOf(i - 1, 1) PROVE k \in WithinOf(i, 1)
  BY <1>1, <1>5, <1>2 DEF WithinOf
<1> QED BY <1>3, <1>4, <1>5

\* The edges of row i, and the cursors that find them.
LEMMA EdgesFound ==
  ASSUME PartOrdered, FrameType = "range", BegNum \in Int, EndNum \in Int, NEW i \in 0..(PartLen - 1)
  PROVE  /\ FindGroupEdge(i, -1) \in 0..i /\ \A j \in 0..(FindGroupEdge(i, -1) - 1) : j \notin WithinOf(i, -1)
         /\ FindGroupEdge(i, 1) \in i..(PartLen - 1) /\ \A k \in (i + 1)..FindGroupEdge(i, 1) : k \in WithinOf(i, 1)
         /\ \A r \in 0..i : (\A j \in 0..(r - 1) : j \notin WithinOf(i, -1)) =>
              FindGroupEdge(i, -1) = LeastOf({j \in r..i : j = i \/ WithinEdge(i, j, -1)})
         /\ \A r \in i..(PartLen - 1) : (\A k \in (i + 1)..r : k \in WithinOf(i, 1)) =>
              FindGroupEdge(i, 1) = MostOf({j \in r..(PartLen - 1) : \A k \in (r + 1)..j : WithinEdge(i, k, 1)})
<1> DEFINE m == PartLen - 1
           B == WithinOf(i, -1)
           A == WithinOf(i, 1)
<1>1. i \in Nat /\ m \in Nat /\ 0 \in 0..i /\ i \in i..m
      /\ (\A j \in 0..(0 - 1) : j \notin B) /\ \A k \in (i + 1)..i : k \in A BY DEF PartOrdered
<1>2. \A j, k \in 0..(i - 1) : j \in B /\ j <= k => k \in B BY EdgesMove
<1>3. \A k \in 0..m : (k \in B <=> WithinEdge(i, k, -1)) /\ (k \in A <=> WithinEdge(i, k, 1)) BY DEF WithinOf
<1>4. ASSUME NEW r \in 0..i, \A j \in 0..(r - 1) : j \notin B
      PROVE  /\ FindGroupEdge(i, -1) \in 0..i /\ \A j \in 0..(FindGroupEdge(i, -1) - 1) : j \notin B
             /\ FindGroupEdge(i, -1) = LeastOf({j \in r..i : j = i \/ WithinEdge(i, j, -1)})
 <2> DEFINE S == {j \in 0..i : \A k \in j..(i - 1) : WithinEdge(i, k, -1)}
            T == {j \in r..i : j = i \/ WithinEdge(i, j, -1)}
 <2>1. \A j \in 0..i : \A k \in j..(i - 1) : k \in 0..m BY <1>1
 <2>2. \A j : j \in S <=> j \in 0..i /\ \A k \in j..(i - 1) : k \in B BY <1>3, <2>1
 <2>3. \A j : j \in T <=> j \in r..i /\ (j = i \/ j \in B) BY <1>1, <1>3
 <2>4. FindGroupEdge(i, -1) = LeastOf(S) BY DEF FindGroupEdge
 <2> DEFINE a == LeastOf(S)
            b == LeastOf(T)
 <2> HIDE DEF S, T, B
 <2>5. /\ i \in S /\ S \in SUBSET (0..i) /\ i \in T /\ T \in SUBSET (0..i) /\ \A j \in T : j \in S
       /\ \A j \in 0..i : j \in B => j \in S
       /\ \A j \in S : j < i => j \in B
       /\ \A j \in 0..i : j = i \/ j \in B => j >= r /\ j \in T BY <1>1, <1>2, <1>4, <2>2, <2>3
 <2>6. a \in S /\ (\A j \in S : a <= j) /\ b \in T /\ \A j \in T : b <= j
  <3>1. 0 \in Int /\ i \in Int /\ S # {} /\ T # {} BY <1>1, <2>5
  <3> QED BY <2>5, <3>1, MinMax
 <2> HIDE DEF a, b
 <2>7. a \in 0..i /\ b \in 0..i /\ a \in T /\ b \in S BY <2>5, <2>6
 <2>8. a = b BY <2>6, <2>7
 <2>9. \A j \in 0..(a - 1) : j \in 0..i /\ ~(a <= j) BY <2>7
 <2>10. \A j \in 0..(a - 1) : j \notin B BY <2>5, <2>6, <2>9
 <2> QED BY <2>4, <2>7, <2>8, <2>10 DEF T, a, b
<1>5. ASSUME NEW r \in i..m, \A k \in (i + 1)..r : k \in A
      PROVE  /\ FindGroupEdge(i, 1) \in i..m /\ \A k \in (i + 1)..FindGroupEdge(i, 1) : k \in A
             /\ FindGroupEdge(i, 1) = MostOf({j \in r..m : \A k \in (r + 1)..j : WithinEdge(i, k, 1)})
 <2> DEFINE S == {j \in i..m : \A k \in (i + 1)..j : WithinEdge(i, k, 1)}
            T == {j \in r..m : \A k \in (r + 1)..j : WithinEdge(i, k, 1)}
 <2>1. /\ \A j \in i..m : \A k \in (i + 1)..j : k \in 0..m
       /\ \A j \in r..m : \A k \in (r + 1)..j : k \in 0..m BY <1>1
 <2>2. \A j : j \in S <=> j \in i..m /\ \A k \in (i + 1)..j : k \in A BY <1>3, <2>1
 <2>3. \A j : j \in T <=> j \in r..m /\ \A k \in (r + 1)..j : k \in A BY <1>3, <2>1
 <2>4. FindGroupEdge(i, 1) = MostOf(S) BY DEF FindGroupEdge
 <2> DEFINE a == MostOf(S)
            b == MostOf(T)
 <2> HIDE DEF S, T, A, m
 <2>5. /\ r \in S /\ S \in SUBSET (i..m) /\ r \in T /\ T \in SUBSET (i..m) /\ \A j \in T : j \in S
       /\ \A j \in S : (\A k \in (i + 1)..j : k \in A) /\ (j >= r => j \in T) BY <1>1, <1>5, <2>2, <2>3
 <2>6. a \in S /\ (\A j \in S : j <= a) /\ b \in T /\ \A j \in T : j <= b
  <3>1. i \in Int /\ m \in Int /\ S # {} /\ T # {} BY <1>1, <2>5
  <3> QED BY <2>5, <3>1, MinMax
 <2> HIDE DEF a, b
 <2>7. a \in i..m /\ b \in i..m /\ b \in S /\ r <= a /\ r \in Int BY <1>1, <2>5, <2>6
 <2>8. a = b BY <2>5, <2>6, <2>7
 <2> QED BY <2>4, <2>5, <2>6, <2>7, <2>8 DEF T, a, b
<1> QED BY <1>1, <1>4, <1>5

\* A cursor that resumes where the row before left it ends where a scan outward does.
LEMMA CursorsAsScan ==
  ASSUME PartOrdered, FrameType = "range", BegNum \in Int, EndNum \in Int, NEW f, f.pos \in 0..(PartLen - 1),
         f.pos = 0 => f.reBeg = 0 /\ f.reEnd = 0,
         f.pos > 0 /\ BegNum # Unbounded => f.reBeg = FindGroupEdge(f.pos - 1, -1),
         f.pos > 0 /\ EndNum # Unbounded => f.reEnd = FindGroupEdge(f.pos - 1, 1)
  PROVE  /\ BegNum # Unbounded => edgeBeg(f) = FindGroupEdge(f.pos, -1)
         /\ EndNum # Unbounded => edgeEnd(f) = FindGroupEdge(f.pos, 1)
<1> DEFINE i == f.pos
           m == PartLen - 1
           e == f.reBeg
           from == IF f.reEnd > f.pos THEN f.reEnd ELSE f.pos
<1>1. m \in Int /\ i \in 0..m /\ (i > 0 => i - 1 \in 0..m) BY DEF PartOrdered
<1>2. ASSUME BegNum # Unbounded PROVE e \in 0..i /\ \A j \in 0..(e - 1) : j \notin WithinOf(i, -1)
 <2>1. CASE i = 0 BY <2>1
 <2>2. CASE i > 0
  <3>1. e \in 0..(i - 1) /\ \A j \in 0..(e - 1) : j \notin WithinOf(i - 1, -1) BY <1>1, <1>2, <2>2, EdgesFound
  <3>2. \A j \in 0..(i - 2) : j \in WithinOf(i, -1) => j \in WithinOf(i - 1, -1) BY <1>1, <2>2, EdgesMove
  <3> HIDE DEF i, e
  <3>3. \A j \in 0..(e - 1) : j \in 0..(i - 2) BY <1>1, <3>1
  <3> QED BY <1>1, <3>1, <3>2, <3>3
 <2> QED BY <1>1, <2>1, <2>2
<1>3. ASSUME EndNum # Unbounded PROVE from \in i..m /\ \A k \in (i + 1)..from : k \in WithinOf(i, 1)
 <2>1. CASE i = 0 BY <1>1, <2>1
 <2>2. CASE i > 0
  <3> DEFINE g == f.reEnd
  <3>1. g \in (i - 1)..m /\ \A k \in ((i - 1) + 1)..g : k \in WithinOf(i - 1, 1) BY <1>1, <1>3, <2>2, EdgesFound
  <3>2. \A k \in (i + 1)..m : k \in WithinOf(i - 1, 1) => k \in WithinOf(i, 1) BY <1>1, <2>2, EdgesMove
  <3>3. from = IF g > i THEN g ELSE i OBVIOUS
  <3> HIDE DEF i, m, g, from
  <3>4. i \in Int /\ g \in Int /\ m \in Int /\ g <= m BY <1>1, <3>1
  <3>5. \A k \in (i + 1)..from : k \in ((i - 1) + 1)..g /\ k \in (i + 1)..m BY <3>3, <3>4
  <3> QED BY <1>1, <3>1, <3>2, <3>3, <3>4, <3>5
 <2> QED BY <1>1, <2>1, <2>2
<1>4. ASSUME BegNum # Unbounded PROVE edgeBeg(f) = FindGroupEdge(i, -1) BY <1>2, <1>4, EdgesFound DEF edgeBeg
<1>5. ASSUME EndNum # Unbounded PROVE edgeEnd(f) = FindGroupEdge(i, 1)
 <2>1. edgeEnd(f) = MostOf({j \in from..m : \A k \in (from + 1)..j : WithinEdge(i, k, 1)}) BY DEF edgeEnd
 <2> HIDE DEF from
 <2> QED BY <1>3, <1>5, <2>1, EdgesFound
<1> QED BY <1>4, <1>5

\* Nothing depends on more than the configuration and the buffer.
LEMMA EdgesStay ==
  ASSUME wnCfg' = wnCfg, wnHeap' = wnHeap
  PROVE  /\ FrameType' = FrameType /\ BegNum' = BegNum /\ EndNum' = EndNum /\ PartLen' = PartLen
         /\ \A i, dir : FindGroupEdge(i, dir)' = FindGroupEdge(i, dir)
<1>1. FrameType' = FrameType /\ BegNum' = BegNum /\ EndNum' = EndNum /\ PartLen' = PartLen /\ \A k : OrderAt(k)' = OrderAt(k)
  BY DEF FrameType, BegNum, EndNum, WholePartition, PartLen, OrderAt
<1>2. \A i, k, dir : WithinEdge(i, k, dir)' = WithinEdge(i, k, dir) BY <1>1 DEF WithinEdge
<1> QED BY <1>1, <1>2 DEF FindGroupEdge

\* The frame of the next row, and its cursors.
LEMMA FrameMoves ==
  ASSUME NEW f, {"pos", "reBeg", "reEnd"} \subseteq DOMAIN f, NEW p \in Nat,
         NEW h, h = MovedTo(f, p), NEW g, g = MovedState(CurrentUpdate(f, p))
  PROVE  /\ {"pos", "reBeg", "reEnd"} \subseteq DOMAIN g /\ g.pos = p /\ h.pos = p
         /\ h.reBeg = (IF p = 0 THEN 0 ELSE f.reBeg) /\ h.reEnd = (IF p = 0 THEN 0 ELSE f.reEnd)
         /\ FrameType = "range" /\ BegNum # Unbounded => g.reBeg = edgeBeg(h)
         /\ FrameType = "range" /\ EndNum # Unbounded => g.reEnd = edgeEnd(h)
<1> DEFINE w == CurrentUpdate(f, p)
           D == {"pos", "reBeg", "reEnd"}
<1>1. /\ D \subseteq DOMAIN h /\ h.pos = p
      /\ h.reBeg = (IF p = 0 THEN 0 ELSE f.reBeg) /\ h.reEnd = (IF p = 0 THEN 0 ELSE f.reEnd) BY DEF MovedTo
<1>2. /\ D \subseteq DOMAIN w /\ w.pos = p
      /\ w.reBeg = (IF FrameType = "range" /\ BegNum # Unbounded THEN FirstRow(h) ELSE h.reBeg)
      /\ w.reEnd = (IF FrameType = "range" /\ EndNum # Unbounded THEN LastRow(h) ELSE h.reEnd)
  BY <1>1 DEF CurrentUpdate, EdgesOf, WithEdges
<1>3. /\ FrameType = "range" /\ BegNum # Unbounded => FirstRow(h) = edgeBeg(h)
      /\ FrameType = "range" /\ EndNum # Unbounded => LastRow(h) = edgeEnd(h) BY DEF FirstRow, LastRow
<1> HIDE DEF w
<1>4. D \subseteq DOMAIN g /\ g.pos = w.pos /\ g.reBeg = w.reBeg /\ g.reEnd = w.reEnd
  BY <1>2 DEF RankMove, MovedState, Ranks, Offsets, w
<1> QED BY <1>1, <1>2, <1>3, <1>4 DEF w

\* The buffer is a run of rows of one partition, and a row is yielded when it is drained; the cursors
\* of a partition that is being drained are those of the row last drained.
WindowBufferInv ==
  /\ wnPc \in {"rows", "drain", "done"} /\ wnI \in 0..Len(wnCfg.rows) /\ PartLen \in 0..wnI
  /\ wnHeap \in Seq(Nat)
  /\ \A k \in 1..PartLen : wnHeap[k] = wnI - PartLen + k /\ PartitionKey(wnCfg.rows[wnHeap[k]]) = wnPart
  /\ wnPc = "drain" => wnDrain \in 0..PartLen
WindowOutInv ==
  /\ \E S : wnOut \in Seq(S)
  /\ \A n \in 1..Len(wnOut) : wnOut[n][1] = n
  /\ wnPc = "rows" => Len(wnOut) = wnI - PartLen
  /\ wnPc = "drain" => Len(wnOut) = wnI - PartLen + wnDrain
  /\ wnPc = "done" /\ ~wnErr => Len(wnOut) = Len(wnCfg.rows)
WindowFrameInv ==
  /\ {"pos", "reBeg", "reEnd"} \subseteq DOMAIN wnFrame
  /\ wnId \in Nat /\ wnSeen \in Int /\ wnSeen <= wnId
  /\ wnPc = "rows" \/ (wnPc = "drain" /\ wnDrain = 0) => wnSeen < wnId
  /\ wnPc = "drain" /\ wnDrain > 0 => wnSeen = wnId /\ wnFrame.pos = wnDrain - 1
WindowInv == WindowConfigOK(wnCfg) /\ WindowBufferInv /\ WindowOutInv /\ WindowFrameInv /\ EdgesAsScan

\* The buffered partition is in order.
LEMMA BufferOrdered ==
  ASSUME WindowConfigOK(wnCfg), WindowBufferInv
  PROVE  PartOrdered /\ BegNum \in Int /\ EndNum \in Int
<1>1. /\ Len(wnCfg.rows) \in Nat /\ wnI \in 0..Len(wnCfg.rows) /\ PartLen \in 0..wnI
      /\ \A k \in 1..PartLen : wnHeap[k] = wnI - PartLen + k
      /\ \A i \in 1..Len(wnCfg.rows) : wnCfg.rows[i][2] \in AggValue BY DEF WindowConfigOK, WindowBufferInv
<1>2. PartLen \in Nat /\ \A i \in 0..(PartLen - 1) : i + 1 \in 1..PartLen /\ wnHeap[i + 1] \in 1..Len(wnCfg.rows)
  BY <1>1
<1>3. \A i, j \in 0..(PartLen - 1) : i < j => ~ValLess(OrderAt(j), OrderAt(i))
 <2> SUFFICES ASSUME NEW i \in 0..(PartLen - 1), NEW j \in 0..(PartLen - 1), i < j PROVE ~ValLess(OrderAt(j), OrderAt(i))
   OBVIOUS
 <2> DEFINE a == wnHeap[i + 1]
            b == wnHeap[j + 1]
 <2>1. a \in 1..Len(wnCfg.rows) /\ b \in 1..Len(wnCfg.rows) /\ a < b BY <1>1, <1>2
 <2>2. PartitionKey(wnCfg.rows[a]) = PartitionKey(wnCfg.rows[b]) BY <1>2 DEF WindowBufferInv
 <2> HIDE DEF a, b
 <2>3. ~ValLess(wnCfg.rows[b][2], wnCfg.rows[a][2]) BY <2>1, <2>2 DEF WindowConfigOK, PartitionKey
 <2> QED BY <2>3 DEF OrderAt, a, b
<1>4. \A i \in 0..(PartLen - 1) : OrderAt(i) \in AggValue /\ ~ValLess(OrderAt(i), OrderAt(i))
  BY <1>1, <1>2, ValOrder DEF OrderAt
<1>5. \A i, j \in 0..(PartLen - 1) : i <= j => i < j \/ i = j BY <1>2
<1>6. PartOrdered BY <1>2, <1>3, <1>4, <1>5 DEF PartOrdered
<1>7. wnCfg.beg \in Int /\ wnCfg.end \in Int BY DEF WindowConfigOK
<1> QED BY <1>6, <1>7 DEF BegNum, EndNum, Unbounded

\* A row of the drain.
LEMMA DrainStep ==
  ASSUME WindowInv, WindowFrames
  PROVE  WindowInv'
<1> DEFINE p == IF wnSeen # wnId THEN 0 ELSE wnFrame.pos + 1
           yielded == <<wnHeap[wnDrain + 1], FrameStep(wnFrame')>>
<1>a. /\ wnPc = "drain" /\ wnDrain < PartLen
      /\ wnFrame' = MovedState(CurrentUpdate(wnFrame, p)) /\ wnSeen' = wnId /\ wnDrain' = wnDrain + 1
      /\ UNCHANGED <<wnCfg, wnPc, wnI, wnHeap, wnPart, wnId, wnErr>>
      /\ wnOut' = Append(wnOut, yielded) BY DEF WindowFrames
<1>b. /\ WindowConfigOK(wnCfg) /\ WindowBufferInv
      /\ {"pos", "reBeg", "reEnd"} \subseteq DOMAIN wnFrame /\ wnId \in Nat BY DEF WindowInv, WindowFrameInv
<1>c. wnDrain \in 0..PartLen /\ PartLen \in 0..wnI /\ wnI \in 0..Len(wnCfg.rows) /\ Len(wnCfg.rows) \in Nat
  BY <1>a, <1>b DEF WindowBufferInv, WindowConfigOK
<1>2. p = wnDrain /\ p \in Nat /\ p \in 0..(PartLen - 1) BY <1>a, <1>b, <1>c DEF WindowInv, WindowFrameInv
<1> HIDE DEF p
<1>1. PICK h : h = MovedTo(wnFrame, p) OBVIOUS
<1>3. /\ {"pos", "reBeg", "reEnd"} \subseteq DOMAIN wnFrame' /\ wnFrame'.pos = p /\ h.pos = p
      /\ h.reBeg = (IF p = 0 THEN 0 ELSE wnFrame.reBeg) /\ h.reEnd = (IF p = 0 THEN 0 ELSE wnFrame.reEnd)
      /\ FrameType = "range" /\ BegNum # Unbounded => wnFrame'.reBeg = edgeBeg(h)
      /\ FrameType = "range" /\ EndNum # Unbounded => wnFrame'.reEnd = edgeEnd(h)
 <2>1. p \in Nat /\ {"pos", "reBeg", "reEnd"} \subseteq DOMAIN wnFrame BY <1>b, <1>2
 <2>2. wnFrame' = MovedState(CurrentUpdate(wnFrame, p)) BY <1>a
 <2>3. wnFrame'.pos = p /\ h.pos = p /\ {"pos", "reBeg", "reEnd"} \subseteq DOMAIN wnFrame'
   BY ONLY <1>1, <2>1, <2>2, FrameMoves, SMT
 <2>4. h.reBeg = (IF p = 0 THEN 0 ELSE wnFrame.reBeg) /\ h.reEnd = (IF p = 0 THEN 0 ELSE wnFrame.reEnd)
   BY ONLY <1>1, <2>1, <2>2, FrameMoves, SMT
 <2>5. FrameType = "range" /\ BegNum # Unbounded => wnFrame'.reBeg = edgeBeg(h)
   BY ONLY <1>1, <2>1, <2>2, FrameMoves, SMT
 <2>6. FrameType = "range" /\ EndNum # Unbounded => wnFrame'.reEnd = edgeEnd(h)
   BY ONLY <1>1, <2>1, <2>2, FrameMoves, SMT
 <2> QED BY <2>3, <2>4, <2>5, <2>6
<1>4. EdgesAsScan'
  BY <1>a, <1>c, <1>2, <1>b, <1>3, BufferOrdered, CursorsAsScan, EdgesStay DEF WindowInv, WindowFrameInv,
     EdgesAsScan
<1>5. WindowConfigOK(wnCfg)' /\ WindowBufferInv'
 <2>1. wnDrain' \in 0..PartLen BY <1>a, <1>c
 <2>2. PartLen' = PartLen /\ \A k : PartitionKey(wnCfg.rows[k])' = PartitionKey(wnCfg.rows[k])
   BY <1>a DEF PartLen, PartitionKey
 <2>3. WindowConfigOK(wnCfg)' BY <1>a, <1>b DEF WindowConfigOK
 <2> QED BY <1>a, <1>b, <2>1, <2>2, <2>3 DEF WindowBufferInv
<1>6. WindowFrameInv' BY <1>a, <1>b, <1>c, <1>2, <1>3 DEF WindowFrameInv
<1>7. WindowOutInv'
 <2> HIDE DEF yielded
 <2>1. PICK S : wnOut \in Seq(S) BY DEF WindowInv, WindowOutInv
 <2>2. wnOut \in Seq(S \cup {yielded}) BY <2>1
 <2>3. /\ wnOut' \in Seq(S \cup {yielded}) /\ Len(wnOut) \in Nat /\ Len(wnOut') = Len(wnOut) + 1
       /\ wnOut'[Len(wnOut) + 1] = yielded /\ \A n \in 1..Len(wnOut) : wnOut'[n] = wnOut[n]
   BY <1>a, <2>2, AppendProperties
 <2>4. /\ Len(wnOut) = wnI - PartLen + wnDrain /\ \A n \in 1..Len(wnOut) : wnOut[n][1] = n
       /\ wnHeap[wnDrain + 1] = wnI - PartLen + (wnDrain + 1)
   BY <1>a, <1>c DEF WindowInv, WindowOutInv, WindowBufferInv
 <2>5. yielded[1] = Len(wnOut) + 1 BY <1>c, <2>4 DEF yielded
 <2>6. \A n \in 1..(Len(wnOut) + 1) : wnOut'[n][1] = n BY <2>3, <2>4, <2>5
 <2>7. Len(wnOut') = wnI' - PartLen' + wnDrain' /\ wnPc' = "drain" BY <1>a, <1>c, <2>3, <2>4 DEF PartLen
 <2> QED BY <2>3, <2>6, <2>7 DEF WindowOutInv
<1> QED BY <1>4, <1>5, <1>6, <1>7 DEF WindowInv

\* What a row of the input, the beginning and the end of a drain and an error leave alone.
LEMMA BufferStep ==
  ASSUME WindowInv, WindowPush \/ WindowDrainStart \/ WindowDrained \/ WindowFails
  PROVE  WindowInv'
<1> DEFINE all == Len(wnCfg.rows)
<1>1. /\ wnCfg' = wnCfg /\ UNCHANGED <<wnSeen, wnFrame, wnOut>> /\ WindowConfigOK(wnCfg)
      /\ all \in Nat /\ wnI \in 0..all /\ PartLen \in 0..wnI /\ wnHeap \in Seq(Nat)
      /\ \A k \in 1..PartLen : wnHeap[k] = wnI - PartLen + k /\ PartitionKey(wnCfg.rows[wnHeap[k]]) = wnPart
  BY DEF WindowInv, WindowBufferInv, WindowConfigOK, WindowPush, WindowDrainStart, WindowDrained, WindowFails
<1>6. all \in Nat /\ wnI \in Nat /\ PartLen \in Nat /\ wnI <= all /\ PartLen <= wnI BY <1>1
<1> HIDE DEF all
<1>2. EdgesAsScan' BY DEF EdgesAsScan, WindowPush, WindowDrainStart, WindowDrained, WindowFails
<1>3. WindowFrameInv'
  BY <1>1 DEF WindowPush, WindowDrainStart, WindowDrained, WindowFails, WindowInv, WindowFrameInv
<1>4. WindowConfigOK(wnCfg)' /\ \A k : PartitionKey(wnCfg.rows[k])' = PartitionKey(wnCfg.rows[k])
  BY <1>1 DEF WindowConfigOK, PartitionKey
<1>5. WindowBufferInv' /\ WindowOutInv'
 <2>1. CASE WindowPush
  <3>1. /\ wnHeap' \in Seq(Nat) /\ PartLen' = PartLen + 1 /\ wnHeap'[PartLen + 1] = wnI + 1 /\ wnI' = wnI + 1
        /\ \A k \in 1..PartLen : wnHeap'[k] = wnHeap[k] BY <1>1, <2>1, AppendProperties DEF WindowPush, PartLen
  <3>2. wnI < all /\ PartitionKey(wnCfg.rows[wnI + 1]) = wnPart /\ wnPc' = "rows" /\ wnPc = "rows" /\ wnPart' = wnPart
    BY <2>1 DEF WindowPush, NextPart, all
  <3>3. \A k \in 1..(PartLen + 1) : wnHeap'[k] = wnI - PartLen + k /\ PartitionKey(wnCfg.rows[wnHeap'[k]]) = wnPart
   <4>1. \A k \in 1..(PartLen + 1) : k \in 1..PartLen \/ k = PartLen + 1 BY <1>6
   <4>2. wnI + 1 = wnI - PartLen + (PartLen + 1) BY <1>6
   <4>3. \A k \in 1..PartLen : wnHeap'[k] = wnI - PartLen + k /\ PartitionKey(wnCfg.rows[wnHeap'[k]]) = wnPart
     BY <1>1, <3>1
   <4>4. PartitionKey(wnCfg.rows[wnHeap'[PartLen + 1]]) = wnPart BY <3>1, <3>2
   <4> QED BY <3>1, <4>1, <4>2, <4>3, <4>4
  <3>4. WindowOutInv' BY <1>1, <3>1, <3>2 DEF WindowInv, WindowOutInv
  <3>5. wnI' \in 0..all /\ PartLen' \in 0..wnI' /\ wnI' - PartLen' = wnI - PartLen
   <4>1. wnI' = wnI + 1 /\ PartLen' = PartLen + 1 /\ wnI < all BY ONLY <3>1, <3>2
   <4> DEFINE q == PartLen
              r == PartLen'
   <4>2. r = q + 1 /\ q \in Nat /\ q <= wnI BY ONLY <1>6, <4>1
   <4> HIDE DEF q, r
   <4>3. wnI' \in 0..all /\ r \in 0..wnI' /\ wnI' - r = wnI - q BY ONLY <1>6, <4>1, <4>2
   <4> QED BY ONLY <4>3 DEF q, r
  <3> QED BY <1>1, <1>4, <3>1, <3>2, <3>3, <3>4, <3>5 DEF all, WindowBufferInv
 <2>2. CASE WindowDrainStart \/ WindowFails
  <3>1. UNCHANGED <<wnI, wnHeap, wnPart>> /\ PartLen' = PartLen BY <2>2 DEF WindowDrainStart, WindowFails, PartLen
  <3>2. /\ wnPc = "rows" /\ wnPc' \in {"drain", "done"} /\ (wnPc' = "drain" => wnDrain' = 0)
        /\ wnPc' = "done" => wnErr' BY <2>2 DEF WindowDrainStart, WindowFails
  <3>3. WindowBufferInv' BY <1>1, <1>4, <3>1, <3>2 DEF WindowBufferInv, all
  <3>4. WindowOutInv' BY <1>1, <3>1, <3>2 DEF WindowInv, WindowOutInv, all
  <3> QED BY <3>3, <3>4
 <2>3. CASE WindowDrained
  <3>1. wnPc = "drain" /\ Len(wnOut) = wnI BY <1>1, <2>3 DEF WindowDrained, WindowInv, WindowOutInv
  <3>2. CASE wnI < all
   <4>1. /\ wnPc' = "rows" /\ wnI' = wnI + 1 /\ wnHeap' = <<wnI + 1>> /\ PartLen' = 1
         /\ wnPart' = PartitionKey(wnCfg.rows[wnI + 1]) BY <2>3, <3>2 DEF WindowDrained, NextPart, PartLen, all
   <4> QED BY <1>1, <1>4, <3>1, <3>2, <4>1 DEF WindowInv, WindowBufferInv, WindowOutInv, all
  <3>3. CASE ~(wnI < all)
    BY <1>1, <2>3, <3>3, <1>4, <3>1 DEF WindowDrained, PartLen, all, WindowInv, WindowBufferInv,
       WindowOutInv
  <3> QED BY <3>2, <3>3
 <2> QED BY <2>1, <2>2, <2>3
<1> QED BY <1>2, <1>3, <1>4, <1>5 DEF WindowInv

\* Every row comes out once, in the order of the input.
RowsInOrder ==
  /\ \A n \in DOMAIN wnOut : wnOut[n][1] = n
  /\ wnPc = "done" /\ ~wnErr => Len(wnOut) = Len(wnCfg.rows)

\* engine/op_window.go, base/agg_window.go: OpWindowPartition passes each row on
\* once and in order, whatever the partitions, and the cursors of a RANGE frame,
\* which only move forward from row to row, are where a scan outward from the
\* current row would end, whatever the function, the bounds and the values.
THEOREM WindowCursorsAreScans ==
  ASSUME NEW Cfgs, \A c \in Cfgs : WindowConfigOK(c)
  PROVE  WindowSpec(Cfgs) => [](RowsInOrder /\ EdgesAsScan)
<1>1. WindowInit(Cfgs) => WindowInv
 <2> SUFFICES ASSUME WindowInit(Cfgs) PROVE WindowInv OBVIOUS
 <2>1. WindowConfigOK(wnCfg) /\ Len(wnCfg.rows) \in Nat BY DEF WindowInit, WindowConfigOK
 <2>2. /\ wnPc = "rows" /\ wnI = 0 /\ wnHeap = <<>> /\ wnId = 0 /\ wnSeen = -1 /\ wnFrame = NoFrame /\ wnOut = <<>>
       /\ PartLen = 0 BY DEF WindowInit, NoId, PartLen
 <2>3. {"pos", "reBeg", "reEnd"} \subseteq DOMAIN wnFrame BY <2>2 DEF NoFrame
 <2> QED BY <2>1, <2>2, <2>3 DEF WindowInv, WindowBufferInv, WindowOutInv, WindowFrameInv, EdgesAsScan
<1>2. WindowInv /\ [WindowNext]_windowVars => WindowInv'
 <2>1. ASSUME WindowInv, UNCHANGED windowVars PROVE WindowInv'
   BY <2>1, EdgesStay DEF windowVars, WindowInv, WindowConfigOK, PartLen, PartitionKey, EdgesAsScan,
      WindowFrameInv, WindowBufferInv, WindowOutInv
 <2> QED BY <2>1, BufferStep, DrainStep DEF WindowNext
<1>3. WindowInv => RowsInOrder /\ EdgesAsScan BY DEF WindowInv, WindowOutInv, RowsInOrder
<1> QED BY <1>1, <1>2, <1>3, PTL DEF WindowSpec
=============================================================================
