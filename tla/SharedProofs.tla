---------------------------- MODULE SharedProofs ----------------------------
(***************************************************************************)
(* Proofs about what statements, goroutines and processes share: the scan  *)
(* cache and the temporary keyspaces (RetainedRows), the JavaScript        *)
(* extract streams and runtime (JavaScript), and the cache of what         *)
(* plugins say of files (TemporalRewrite); and the ordered stream that an  *)
(* actor sends its consumer (StageCursor), for any number of rows, any     *)
(* batch size and any channel capacity: the rows are pulled in order, the  *)
(* actor never runs far ahead, and the cursor implements the OrderedStream *)
(* that the merges rely on.                                                *)
(***************************************************************************)
EXTENDS StageCursor, RetainedRows, JavaScript, TemporalRewrite, SequenceTheorems, TLAPS

-----------------------------------------------------------------------------
(* The first n elements of a sequence.                                     *)

Upto(src, n) == [i \in 1..n |-> src[i]]

\* A prefix is a sequence, of that length; the empty one and the whole.
LEMMA UptoSeq ==
  ASSUME NEW S, NEW src \in Seq(S), NEW n \in Nat, n <= Len(src)
  PROVE  Upto(src, n) \in Seq(S) /\ Len(Upto(src, n)) = n
         /\ Upto(src, 0) = <<>> /\ Upto(src, Len(src)) = src
<1>1. \A i \in 1..n : src[i] \in S OBVIOUS
<1>2. Upto(src, n) \in Seq(S) /\ Len(Upto(src, n)) = n BY <1>1 DEF Upto
<1>3. Upto(src, 0) = <<>> BY DEF Upto
<1>4. Upto(src, Len(src)) = src
 <2>1. src = [i \in 1..Len(src) |-> src[i]] OBVIOUS
 <2> QED BY <2>1 DEF Upto
<1> QED BY <1>2, <1>3, <1>4

\* The next element makes the prefix longer by one.
LEMMA UptoAppend ==
  ASSUME NEW S, NEW src \in Seq(S), NEW n \in Nat, n < Len(src)
  PROVE  Append(Upto(src, n), src[n + 1]) = Upto(src, n + 1)
<1> DEFINE u == Upto(src, n)
           x == src[n + 1]
<1>1. Len(src) \in Nat /\ n <= Len(src) /\ n + 1 \in 1..Len(src) OBVIOUS
<1>2. u \in Seq(S) /\ Len(u) = n /\ \A i \in 1..n : u[i] = src[i] BY <1>1, UptoSeq DEF Upto
<1>3. x \in S BY <1>1
<1> HIDE DEF u, x
<1>4. /\ Append(u, x) \in Seq(S) /\ Len(Append(u, x)) = n + 1
      /\ \A i \in 1..n : Append(u, x)[i] = u[i]
      /\ Append(u, x)[n + 1] = x BY <1>2, <1>3, AppendProperties
<1> DEFINE v == Append(u, x)
<1> HIDE DEF v
<1>5. v \in Seq(S) /\ Len(v) = n + 1 /\ \A i \in 1..(n + 1) : v[i] = src[i]
 <2>1. \A i \in 1..(n + 1) : i \in 1..n \/ i = n + 1 OBVIOUS
 <2> QED BY <1>2, <1>4, <2>1 DEF v, x
<1>6. v \in [1..(n + 1) -> S] BY <1>5
<1>7. v = [i \in 1..(n + 1) |-> src[i]] BY <1>5, <1>6
<1> QED BY <1>7 DEF v, u, x, Upto

-----------------------------------------------------------------------------
(* The scan cache.                                                         *)

\* The numbers of a configuration are numbers.
ScanConfigOK(cfg) ==
  \A s \in DOMAIN cfg.scans : cfg.scans[s].limit \in Nat /\ cfg.sizes[cfg.scans[s].qn] \in Nat

ScRow == {<<Scan(s).qn, i, Scan(s).cols>> : s \in Scans, i \in Nat}

ScanTypes ==
  /\ ScanConfigOK(scCfg)
  /\ scPc \in [Scans -> {"op", "gate", "delegate", "capture", "replay", "done"}]
  /\ scNext \in [Scans -> Nat]
  /\ scHeap \in [Scans -> Seq(ScRow)]
  /\ scCap \in [Scans -> {"ok", "over", "err"}]
  /\ scOut \in [Scans -> [rows : Seq(ScRow), end : {"none", "nil", "error"}]]

\* s may be answered with the rows of t.
SameKey(s, t) == t = s \/ (scanCacheKey(t) = scanCacheKey(s) /\ scanCacheKey(s) # NoKey)

\* s has passed on the first rows of src.
Served(s, src) == scNext[s] <= Len(src) /\ scOut[s].rows = Upto(src, scNext[s])

ScanInv(s) ==
  /\ scPc[s] \in {"op", "gate"} =>
       scNext[s] = 0 /\ scCap[s] = "ok" /\ scHeap[s] = <<>> /\ scOut[s].rows = <<>>
  /\ scPc[s] \in {"gate", "capture"} => scanCacheKey(s) # NoKey
  /\ scPc[s] \in {"delegate", "capture"} => Served(s, Source(s))
  /\ scPc[s] = "capture" /\ scCap[s] = "ok" => scHeap[s] = Upto(Source(s), scNext[s])
  /\ scPc[s] = "replay" => Served(s, scHeap[s]) /\ \E t \in Scans : SameKey(s, t) /\ scHeap[s] = Source(t)
  /\ scPc[s] = "done" => \E t \in Scans : SameKey(s, t) /\ scOut[s].rows = Source(t)
  /\ Len(scHeap[s]) <= ScBudget

\* A capture is complete, of its key, and its scan is over.
CapturedInv ==
  \A k \in DOMAIN scCaptured :
    LET t == scCaptured[k] IN
    /\ t \in Scans /\ scanCacheKey(t) = k /\ k # NoKey
    /\ scPc[t] = "done" /\ scCap[t] = "ok" /\ scHeap[t] = Source(t)

CacheInv == ScanTypes /\ (\A s \in Scans : ScanInv(s)) /\ CapturedInv

\* What a scan reads is a sequence of rows, no longer than its keyspace.
LEMMA SourceRows ==
  ASSUME ScanConfigOK(scCfg), NEW s \in Scans
  PROVE  Source(s) \in Seq(ScRow) /\ Len(Source(s)) \in Nat
<1> DEFINE m == scCfg.sizes[Scan(s).qn]
           n == IF Scan(s).limit < m THEN Scan(s).limit ELSE m
<1>1. n \in Nat BY DEF ScanConfigOK, Scans, Scan
<1>2. Source(s) = [i \in 1..n |-> <<Scan(s).qn, i, Scan(s).cols>>] BY DEF Source
<1> HIDE DEF n
<1>3. \A i \in 1..n : <<Scan(s).qn, i, Scan(s).cols>> \in ScRow BY <1>1 DEF ScRow
<1>4. [i \in 1..n |-> <<Scan(s).qn, i, Scan(s).cols>>] \in Seq(ScRow) BY <1>1, <1>3
<1>5. Source(s) \in Seq(ScRow) BY <1>2, <1>4, Zenon
<1> DEFINE src == Source(s)
<1> HIDE DEF src
<1>6. src \in Seq(ScRow) => Len(src) \in Nat OBVIOUS
<1> QED BY <1>5, <1>6 DEF src

\* Scans of one key read the same rows, when none of them is cut short.
LEMMA SameSource ==
  ASSUME NEW s \in Scans, NEW t \in Scans, ScanConfigOK(scCfg), SameKey(s, t), ~scCutShort(s)
  PROVE  Source(t) = Source(s)
<1>1. CASE t = s BY <1>1
<1>2. CASE scanCacheKey(t) = scanCacheKey(s) /\ scanCacheKey(s) # NoKey
 <2>1. scanCacheKey(s) = <<Scan(s).qn, Scan(s).cols>> /\ scanCacheKey(t) = <<Scan(t).qn, Scan(t).cols>>
   BY <1>2 DEF scanCacheKey
 <2>2. Scan(t).qn = Scan(s).qn /\ Scan(t).cols = Scan(s).cols BY <1>2, <2>1
 <2> DEFINE n == scCfg.sizes[Scan(s).qn]
 <2>3. ~(Scan(s).limit < n) /\ ~(Scan(t).limit < n) BY <2>2 DEF scCutShort
 <2> HIDE DEF n
 <2>4. Source(s) = [i \in 1..n |-> <<Scan(s).qn, i, Scan(s).cols>>] BY <2>3 DEF Source, n
 <2>5. Source(t) = [i \in 1..n |-> <<Scan(s).qn, i, Scan(s).cols>>] BY <2>2, <2>3 DEF Source, n
 <2> QED BY <2>4, <2>5
<1> QED BY <1>1, <1>2 DEF SameKey

\* What the configuration determines stays.
LEMMA ScanConstants ==
  ASSUME UNCHANGED scCfg
  PROVE  /\ Scans' = Scans /\ ScRow' = ScRow /\ ScanConfigOK(scCfg)' = ScanConfigOK(scCfg)
         /\ \A s : Source(s)' = Source(s) /\ scanCacheKey(s)' = scanCacheKey(s)
         /\ \A s, t : SameKey(s, t)' = SameKey(s, t)
<1>1. Scans' = Scans /\ \A s : Scan(s)' = Scan(s) BY DEF Scans, Scan
<1>2. ScRow' = ScRow BY <1>1 DEF ScRow
<1>3. \A s : Source(s)' = Source(s) BY <1>1 DEF Source
<1>4. \A s : scanCacheKey(s)' = scanCacheKey(s) BY <1>1 DEF scanCacheKey
<1>5. \A s, t : SameKey(s, t)' = SameKey(s, t) BY <1>4 DEF SameKey
<1>6. ScanConfigOK(scCfg)' = ScanConfigOK(scCfg) BY DEF ScanConfigOK
<1> QED BY <1>1, <1>2, <1>3, <1>4, <1>5, <1>6

\* A step of s that does not touch the captures leaves the other scans be.
LEMMA ScanStepOf ==
  ASSUME CacheInv, NEW s \in Scans, UNCHANGED <<scCfg, scCaptured>>, ScanTypes',
         scPc[s] # "done", ScanInv(s)',
         \A t \in Scans : t # s => /\ scPc'[t] = scPc[t] /\ scHeap'[t] = scHeap[t] /\ scCap'[t] = scCap[t]
                                   /\ scNext'[t] = scNext[t] /\ scOut'[t] = scOut[t]
  PROVE  CacheInv'
<1>1. /\ Scans' = Scans
      /\ \A t : Source(t)' = Source(t) /\ scanCacheKey(t)' = scanCacheKey(t)
      /\ \A t, u : SameKey(t, u)' = SameKey(t, u) BY ScanConstants
<1>2. ASSUME NEW t \in Scans, t # s PROVE ScanInv(t)'
 <2>1. ScanInv(t) BY DEF CacheInv
 <2>3. Served(t, Source(t))' = Served(t, Source(t)) /\ Served(t, scHeap[t])' = Served(t, scHeap[t])
   BY <1>1, <1>2 DEF Served
 <2> QED BY <1>1, <1>2, <2>1, <2>3 DEF ScanInv
<1>3. CapturedInv' BY <1>1 DEF CacheInv, CapturedInv
<1> QED BY <1>1, <1>2, <1>3 DEF CacheInv

\* A row that s passes on: the prefix grows by one.
LEMMA ServedMore ==
  ASSUME ScanTypes, NEW s \in Scans, NEW src \in Seq(ScRow), Served(s, src), scNext[s] < Len(src),
         ScanYield(s, src[scNext[s] + 1]), UNCHANGED scCfg
  PROVE  /\ scNext' \in [Scans -> Nat] /\ scNext'[s] = scNext[s] + 1
         /\ scOut' \in [Scans -> [rows : Seq(ScRow), end : {"none", "nil", "error"}]]
         /\ scNext'[s] <= Len(src) /\ scOut'[s].rows = Upto(src, scNext'[s])
         /\ \A t \in Scans : t # s => scNext'[t] = scNext[t] /\ scOut'[t] = scOut[t]
<1>1. scNext \in [Scans -> Nat] /\ scOut \in [Scans -> [rows : Seq(ScRow), end : {"none", "nil", "error"}]]
  BY DEF ScanTypes
<1>2. scNext' \in [Scans -> Nat] /\ scNext'[s] = scNext[s] + 1 /\ \A t \in Scans : t # s => scNext'[t] = scNext[t]
  BY <1>1 DEF ScanYield
<1>3. scNext[s] \in Nat /\ Len(src) \in Nat BY <1>1
<1> DEFINE n == scNext[s]
           x == src[n + 1]
           rows == scOut[s].rows
<1>4. n + 1 \in 1..Len(src) BY <1>3
<1>5. x \in ScRow BY <1>4
<1>6. rows = Upto(src, n) /\ rows \in Seq(ScRow) BY <1>1 DEF Served
<1>7. Append(rows, x) = Upto(src, n + 1) BY <1>3, <1>6, UptoAppend
<1>8. Append(rows, x) \in Seq(ScRow) BY <1>5, <1>6
<1>9. scOut' = [scOut EXCEPT ![s].rows = Append(@, x)] BY DEF ScanYield
<1> HIDE DEF x
<1>10. /\ scOut' \in [Scans -> [rows : Seq(ScRow), end : {"none", "nil", "error"}]]
       /\ scOut'[s].rows = Append(rows, x) /\ \A t \in Scans : t # s => scOut'[t] = scOut[t] BY <1>1, <1>8, <1>9
<1> QED BY <1>2, <1>3, <1>4, <1>7, <1>10

\* The invariant of the cache holds for every set of configurations.
LEMMA CacheInvariance ==
  ASSUME NEW Cfgs, \A c \in Cfgs : ScanConfigOK(c)
  PROVE  ScanCacheSpec(Cfgs) => []CacheInv
<1>1. ScanCacheInit(Cfgs) => CacheInv
 <2> SUFFICES ASSUME ScanCacheInit(Cfgs) PROVE CacheInv OBVIOUS
 <2> USE DEF ScanCacheInit
 <2>1. <<>> \in Seq(ScRow) /\ Len(<<>>) = 0 OBVIOUS
 <2>2. ScanConfigOK(scCfg) OBVIOUS
 <2>3. ScanTypes BY <2>1, <2>2 DEF ScanTypes
 <2>4. \A s \in Scans : ScanInv(s) BY <2>1, BudgetAssumption DEF ScanInv
 <2>5. CapturedInv BY DEF CapturedInv
 <2> QED BY <2>3, <2>4, <2>5 DEF CacheInv
<1>2. CacheInv /\ [ScanCacheNext]_scanCacheVars => CacheInv'
 <2> SUFFICES ASSUME CacheInv, [ScanCacheNext]_scanCacheVars PROVE CacheInv' OBVIOUS
 <2>1. CASE UNCHANGED scanCacheVars
  <3>1. /\ Scans' = Scans /\ ScRow' = ScRow /\ ScanConfigOK(scCfg)' = ScanConfigOK(scCfg)
        /\ \A t : Source(t)' = Source(t) /\ scanCacheKey(t)' = scanCacheKey(t)
        /\ \A t, u : SameKey(t, u)' = SameKey(t, u) BY <2>1, ScanConstants DEF scanCacheVars
  <3>2. scPc' = scPc /\ scHeap' = scHeap /\ scCap' = scCap /\ scNext' = scNext /\ scOut' = scOut /\ scCaptured' = scCaptured
    BY <2>1 DEF scanCacheVars
  <3>3. ScanTypes' BY <3>1, <3>2 DEF CacheInv, ScanTypes
  <3>4. ASSUME NEW t \in Scans PROVE ScanInv(t)'
   <4>1. ScanInv(t) BY DEF CacheInv
   <4>2. Served(t, Source(t))' = Served(t, Source(t)) /\ Served(t, scHeap[t])' = Served(t, scHeap[t])
     BY <3>1, <3>2 DEF Served
   <4> QED BY <3>1, <3>2, <4>1, <4>2 DEF ScanInv
  <3>5. CapturedInv' BY <3>1, <3>2 DEF CacheInv, CapturedInv
  <3> QED BY <3>1, <3>3, <3>4, <3>5 DEF CacheInv
 <2>2. ASSUME NEW s \in Scans,
              ScanOp(s) \/ SizeGate(s) \/ DelegateRow(s) \/ CaptureRow(s) \/ ScanEnd(s) \/ ReplayRow(s) \/ ReplayEnd(s)
       PROVE  CacheInv'
  <3>1. ScanTypes /\ ScanInv(s) /\ CapturedInv BY DEF CacheInv
  <3>2. scCfg' = scCfg BY <2>2 DEF ScanOp, SizeGate, DelegateRow, CaptureRow, ScanEnd, ReplayRow, ReplayEnd
  <3>3. /\ Scans' = Scans /\ ScRow' = ScRow /\ ScanConfigOK(scCfg)' = ScanConfigOK(scCfg)
        /\ \A t : Source(t)' = Source(t) /\ scanCacheKey(t)' = scanCacheKey(t)
        /\ \A t, u : SameKey(t, u)' = SameKey(t, u) BY <3>2, ScanConstants
  <3>4. Source(s) \in Seq(ScRow) /\ Len(Source(s)) \in Nat BY <3>1, SourceRows DEF ScanTypes
  <3>5. /\ scPc \in [Scans -> {"op", "gate", "delegate", "capture", "replay", "done"}] /\ scNext \in [Scans -> Nat]
        /\ scHeap \in [Scans -> Seq(ScRow)] /\ scCap \in [Scans -> {"ok", "over", "err"}]
        /\ scOut \in [Scans -> [rows : Seq(ScRow), end : {"none", "nil", "error"}]]
        /\ ScanConfigOK(scCfg) BY <3>1 DEF ScanTypes
  <3> DEFINE Kept == \A t \in Scans : t # s => /\ scPc'[t] = scPc[t] /\ scHeap'[t] = scHeap[t] /\ scCap'[t] = scCap[t]
                                               /\ scNext'[t] = scNext[t] /\ scOut'[t] = scOut[t]
  <3>6. CASE ScanOp(s)
   <4> USE <3>6
   <4>1. scPc[s] = "op" /\ UNCHANGED <<scCfg, scCap, scNext, scOut, scCaptured>> BY DEF ScanOp
   <4>2. scNext[s] = 0 /\ scCap[s] = "ok" /\ scHeap[s] = <<>> /\ scOut[s].rows = <<>> BY <3>1, <4>1 DEF ScanInv
   <4>3. CASE scPc' = [scPc EXCEPT ![s] = "replay"] /\ scanCacheKey(s) \in DOMAIN scCaptured /\ scanCacheKey(s) # NoKey
    <5> DEFINE t == scCaptured[scanCacheKey(s)]
    <5>1. scPc'[s] = "replay" BY <3>5, <4>3
    <5>2. scHeap' = [scHeap EXCEPT ![s] = scHeap[t]] BY <5>1 DEF ScanOp
    <5>3. t \in Scans /\ scanCacheKey(t) = scanCacheKey(s) /\ scHeap[t] = Source(t) BY <3>1, <4>3 DEF CapturedInv
    <5>4. SameKey(s, t) BY <4>3, <5>3 DEF SameKey
    <5>5. Len(scHeap[t]) <= ScBudget BY <5>3 DEF CacheInv, ScanInv
    <5> HIDE DEF t
    <5>6. scHeap'[s] = Source(t) /\ scHeap'[s] \in Seq(ScRow) /\ Len(scHeap'[s]) <= ScBudget
      BY <3>5, <5>2, <5>3, <5>5
    <5>7. ScanTypes' BY <3>3, <3>5, <4>1, <4>3, <5>2, <5>3 DEF ScanTypes
    <5>8. Upto(scHeap'[s], 0) = <<>> /\ 0 <= Len(scHeap'[s]) BY <5>6 DEF Upto
    <5>9. Served(s, scHeap[s])' BY <4>1, <4>2, <5>8 DEF Served
    <5>10. ScanInv(s)' BY <3>3, <5>1, <5>3, <5>4, <5>6, <5>9 DEF ScanInv
    <5>11. Kept BY <3>5, <4>1, <4>3, <5>2
    <5> QED BY <4>1, <5>7, <5>10, <5>11, ScanStepOf
   <4>4. CASE \E pc \in {"delegate", "gate"} : scPc' = [scPc EXCEPT ![s] = pc] /\ (pc = "gate" => scanCacheKey(s) # NoKey)
    <5>1. PICK pc \in {"delegate", "gate"} : scPc' = [scPc EXCEPT ![s] = pc] /\ (pc = "gate" => scanCacheKey(s) # NoKey)
      BY <4>4
    <5>2. scPc'[s] = pc BY <3>5, <5>1
    <5>3. scHeap' = scHeap BY <5>2 DEF ScanOp
    <5>4. ScanTypes' BY <3>3, <3>5, <4>1, <5>1, <5>3 DEF ScanTypes
    <5>5. Served(s, Source(s))' BY <3>3, <3>4, <4>1, <4>2 DEF Served, Upto
    <5>6. Len(scHeap'[s]) <= ScBudget BY <3>1, <5>3 DEF ScanInv
    <5>7. ScanInv(s)' BY <3>3, <4>1, <4>2, <5>1, <5>2, <5>3, <5>5, <5>6 DEF ScanInv
    <5>8. Kept BY <3>5, <4>1, <5>1, <5>3
    <5> QED BY <4>1, <5>4, <5>7, <5>8, ScanStepOf
   <4>5. \/ scPc' = [scPc EXCEPT ![s] = "replay"] /\ scanCacheKey(s) \in DOMAIN scCaptured /\ scanCacheKey(s) # NoKey
         \/ \E pc \in {"delegate", "gate"} : scPc' = [scPc EXCEPT ![s] = pc] /\ (pc = "gate" => scanCacheKey(s) # NoKey)
    <5> HIDE DEF Kept
    <5> DEFINE key == scanCacheKey(s)
    <5>1. scPc' = [scPc EXCEPT ![s] = IF key = NoKey \/ key \in scTooBig THEN "delegate"
                                      ELSE IF key \in DOMAIN scCaptured THEN "replay" ELSE "gate"]
      BY DEF ScanOp, ScanGoto
    <5> HIDE DEF key
    <5>2. CASE key = NoKey \/ key \in scTooBig BY <5>1, <5>2 DEF key
    <5>3. CASE ~(key = NoKey \/ key \in scTooBig) /\ key \in DOMAIN scCaptured BY <5>1, <5>3 DEF key
    <5>4. CASE ~(key = NoKey \/ key \in scTooBig) /\ key \notin DOMAIN scCaptured BY <5>1, <5>4 DEF key
    <5> QED BY <5>2, <5>3, <5>4
   <4> QED BY <4>3, <4>4, <4>5
  <3>7. CASE SizeGate(s)
   <4> USE <3>7
   <4>1. scPc[s] = "gate" /\ UNCHANGED <<scCfg, scHeap, scCap, scNext, scOut, scCaptured>> BY DEF SizeGate
   <4>2. PICK pc \in {"delegate", "capture"} : scPc' = [scPc EXCEPT ![s] = pc] BY DEF SizeGate, ScanGoto
   <4>3. scNext[s] = 0 /\ scCap[s] = "ok" /\ scHeap[s] = <<>> /\ scOut[s].rows = <<>> /\ scanCacheKey(s) # NoKey
     BY <3>1, <4>1 DEF ScanInv
   <4>4. scPc'[s] = pc BY <3>5, <4>2
   <4>5. ScanTypes' BY <3>3, <3>5, <4>1, <4>2 DEF ScanTypes
   <4>6. Upto(Source(s), 0) = <<>> BY DEF Upto
   <4>7. Served(s, Source(s))' BY <3>3, <3>4, <4>1, <4>3, <4>6 DEF Served
   <4>8. Len(scHeap'[s]) <= ScBudget BY <3>1, <4>1 DEF ScanInv
   <4>9. ScanInv(s)' BY <3>3, <4>1, <4>2, <4>3, <4>4, <4>6, <4>7, <4>8 DEF ScanInv
   <4>10. Kept BY <3>5, <4>1, <4>2
   <4> QED BY <4>1, <4>5, <4>9, <4>10, ScanStepOf
  <3>8. CASE DelegateRow(s)
   <4> USE <3>8
   <4>1. scPc[s] = "delegate" /\ scNext[s] < Len(Source(s)) /\ ScanYield(s, Source(s)[scNext[s] + 1])
         /\ UNCHANGED <<scCfg, scPc, scHeap, scCap, scCaptured>> BY DEF DelegateRow
   <4>2. Served(s, Source(s)) BY <3>1, <4>1 DEF ScanInv
   <4>3. /\ scNext' \in [Scans -> Nat]
         /\ scOut' \in [Scans -> [rows : Seq(ScRow), end : {"none", "nil", "error"}]]
         /\ scNext'[s] <= Len(Source(s)) /\ scOut'[s].rows = Upto(Source(s), scNext'[s])
         /\ \A t \in Scans : t # s => scNext'[t] = scNext[t] /\ scOut'[t] = scOut[t]
     BY <3>1, <3>4, <4>1, <4>2, ServedMore
   <4>4. ScanTypes' BY <3>3, <3>5, <4>1, <4>3 DEF ScanTypes
   <4>5. Served(s, Source(s))' BY <3>3, <4>3 DEF Served
   <4>6. Len(scHeap'[s]) <= ScBudget BY <3>1, <4>1 DEF ScanInv
   <4>7. ScanInv(s)' BY <4>1, <4>5, <4>6 DEF ScanInv
   <4>8. Kept BY <4>1, <4>3
   <4> QED BY <4>1, <4>4, <4>7, <4>8, ScanStepOf
  <3>9. CASE CaptureRow(s)
   <4> USE <3>9
   <4> DEFINE row == Source(s)[scNext[s] + 1]
   <4>1. scPc[s] = "capture" /\ scNext[s] < Len(Source(s)) /\ ScanYield(s, row)
         /\ UNCHANGED <<scCfg, scPc, scCaptured>> BY DEF CaptureRow
   <4>2. Served(s, Source(s)) BY <3>1, <4>1 DEF ScanInv
   <4>3. /\ scNext' \in [Scans -> Nat] /\ scNext'[s] = scNext[s] + 1
         /\ scOut' \in [Scans -> [rows : Seq(ScRow), end : {"none", "nil", "error"}]]
         /\ scNext'[s] <= Len(Source(s)) /\ scOut'[s].rows = Upto(Source(s), scNext'[s])
         /\ \A t \in Scans : t # s => scNext'[t] = scNext[t] /\ scOut'[t] = scOut[t]
     BY <3>1, <3>4, <4>1, <4>2, ServedMore
   <4>4. PICK pushed \in BOOLEAN :
           /\ scCap' = [scCap EXCEPT ![s] = IF @ # "ok" THEN @ ELSE IF OverBudget(scNext[s] + 1) THEN "over"
                                            ELSE IF pushed THEN "ok" ELSE "err"]
           /\ scHeap' = [scHeap EXCEPT ![s] = CASE scCap'[s] = "over" -> <<>>
                                                [] scCap'[s] = "ok" -> Append(@, row)
                                                [] OTHER -> @] BY DEF CaptureRow
   <4>5. /\ scCap' \in [Scans -> {"ok", "over", "err"}] /\ \A t \in Scans : t # s => scCap'[t] = scCap[t]
         /\ scCap'[s] = "ok" => scCap[s] = "ok" /\ ~OverBudget(scNext[s] + 1) BY <3>5, <4>4
   <4>6. row \in ScRow /\ scNext[s] \in Nat
    <5>1. scNext[s] \in Nat BY <3>5
    <5>2. scNext[s] + 1 \in 1..Len(Source(s)) BY <3>4, <4>1, <5>1
    <5> QED BY <3>4, <5>1, <5>2
   <4>7. scHeap[s] \in Seq(ScRow) /\ Append(scHeap[s], row) \in Seq(ScRow) /\ <<>> \in Seq(ScRow) BY <3>5, <4>6
   <4> HIDE DEF row
   <4>8. /\ scHeap' \in [Scans -> Seq(ScRow)] /\ \A t \in Scans : t # s => scHeap'[t] = scHeap[t]
         /\ scHeap'[s] = CASE scCap'[s] = "over" -> <<>>
                           [] scCap'[s] = "ok" -> Append(scHeap[s], row)
                           [] OTHER -> scHeap[s]
    <5> DEFINE h == CASE scCap'[s] = "over" -> <<>>
                      [] scCap'[s] = "ok" -> Append(scHeap[s], row)
                      [] OTHER -> scHeap[s]
    <5>1. h \in Seq(ScRow) BY <4>7
    <5>2. scHeap' = [scHeap EXCEPT ![s] = h] BY <4>4
    <5> HIDE DEF h
    <5>3. /\ scHeap' \in [Scans -> Seq(ScRow)] /\ scHeap'[s] = h
          /\ \A t \in Scans : t # s => scHeap'[t] = scHeap[t] BY <3>5, <5>1, <5>2
    <5> QED BY <5>3 DEF h
   <4>9. scCap'[s] = "ok" => scHeap'[s] = Upto(Source(s), scNext'[s])
    <5>1. SUFFICES ASSUME scCap'[s] = "ok" PROVE Append(scHeap[s], row) = Upto(Source(s), scNext[s] + 1)
      BY <4>3, <4>8
    <5>2. scHeap[s] = Upto(Source(s), scNext[s]) BY <3>1, <4>1, <4>5, <5>1 DEF ScanInv
    <5> QED BY <3>4, <4>1, <4>6, <5>2, UptoAppend DEF row
   <4>10. Len(scHeap'[s]) <= ScBudget
    <5>1. CASE scCap'[s] = "over" BY <4>8, <5>1, BudgetAssumption
    <5>2. CASE scCap'[s] = "ok"
     <6>1. Len(Upto(Source(s), scNext'[s])) = scNext'[s] BY <3>4, <4>3, <4>6, UptoSeq
     <6> QED BY <4>3, <4>5, <4>6, <4>9, <5>2, <6>1, BudgetAssumption DEF OverBudget
    <5>3. CASE scCap'[s] = "err"
     <6>1. scHeap'[s] = scHeap[s] BY <4>8, <5>3
     <6> QED BY <3>1, <6>1 DEF ScanInv
    <5> QED BY <4>5, <5>1, <5>2, <5>3
   <4>11. ScanTypes' BY <3>3, <3>5, <4>1, <4>3, <4>5, <4>8 DEF ScanTypes
   <4>12. Served(s, Source(s))' BY <3>3, <4>3 DEF Served
   <4>13. scanCacheKey(s) # NoKey BY <3>1, <4>1 DEF ScanInv
   <4>14. ScanInv(s)' BY <3>3, <4>1, <4>9, <4>10, <4>12, <4>13 DEF ScanInv
   <4>15. Kept BY <4>1, <4>3, <4>5, <4>8
   <4> QED BY <4>1, <4>11, <4>14, <4>15, ScanStepOf
  <3>10. CASE ScanEnd(s)
   <4> USE <3>10
   <4>1. /\ scPc[s] \in {"delegate", "capture"} /\ scNext[s] = Len(Source(s))
         /\ scPc' = [scPc EXCEPT ![s] = "done"] /\ UNCHANGED <<scCfg, scHeap, scCap, scNext>>
     BY DEF ScanEnd, ScanGoto
   <4>2. PICK e \in {"error", "nil"} : scOut' = [scOut EXCEPT ![s].end = e] BY DEF ScanEnd
   <4>3. /\ scOut' \in [Scans -> [rows : Seq(ScRow), end : {"none", "nil", "error"}]]
         /\ scOut'[s].rows = scOut[s].rows /\ \A t \in Scans : t # s => scOut'[t] = scOut[t] BY <3>5, <4>2
   <4>4. /\ scPc' \in [Scans -> {"op", "gate", "delegate", "capture", "replay", "done"}]
         /\ scPc'[s] = "done" /\ \A t \in Scans : t # s => scPc'[t] = scPc[t] BY <3>5, <4>1
   <4>5. Upto(Source(s), Len(Source(s))) = Source(s) BY <3>4, UptoSeq
   <4>6. scOut'[s].rows = Source(s) BY <3>1, <4>1, <4>3, <4>5 DEF ScanInv, Served
   <4>7. ScanTypes' BY <3>3, <3>5, <4>1, <4>3, <4>4 DEF ScanTypes
   <4>8. Len(scHeap'[s]) <= ScBudget BY <3>1, <4>1 DEF ScanInv
   <4>9. ScanInv(s)' BY <3>3, <4>4, <4>6, <4>8 DEF ScanInv, SameKey
   <4>10. ASSUME NEW t \in Scans, t # s PROVE ScanInv(t)'
    <5>1. ScanInv(t) BY DEF CacheInv
    <5>2. scPc'[t] = scPc[t] /\ scHeap'[t] = scHeap[t] /\ scCap'[t] = scCap[t] /\ scNext'[t] = scNext[t] /\ scOut'[t] = scOut[t]
      BY <4>1, <4>3, <4>4, <4>10
    <5>3. Served(t, Source(t))' = Served(t, Source(t)) /\ Served(t, scHeap[t])' = Served(t, scHeap[t])
      BY <3>3, <5>2 DEF Served
    <5> QED BY <3>3, <5>1, <5>2, <5>3 DEF ScanInv
   <4>11. ASSUME NEW k \in DOMAIN scCaptured
          PROVE  LET t == scCaptured[k] IN
                 /\ t \in Scans /\ scanCacheKey(t) = k /\ k # NoKey
                 /\ scPc'[t] = "done" /\ scCap'[t] = "ok" /\ scHeap'[t] = Source(t)
     BY <3>1, <4>1, <4>4 DEF CapturedInv
   <4>12. CASE scPc[s] = "capture" /\ scCap[s] = "ok"
    <5> DEFINE key == scanCacheKey(s)
    <5>1. scCaptured' = [k \in DOMAIN scCaptured \cup {key} |-> IF k = key THEN s ELSE scCaptured[k]]
      BY <4>12 DEF ScanEnd
    <5>2. key # NoKey /\ scHeap[s] = Source(s) BY <3>1, <4>1, <4>5, <4>12 DEF ScanInv
    <5> HIDE DEF key
    <5>3. DOMAIN scCaptured' = DOMAIN scCaptured \cup {key} /\ scCaptured'[key] = s BY <5>1
    <5>4. \A k \in DOMAIN scCaptured : k # key => scCaptured'[k] = scCaptured[k] BY <5>1
    <5>5. ASSUME NEW k \in DOMAIN scCaptured'
          PROVE  LET t == scCaptured'[k] IN
                 /\ t \in Scans /\ scanCacheKey(t) = k /\ k # NoKey
                 /\ scPc'[t] = "done" /\ scCap'[t] = "ok" /\ scHeap'[t] = Source(t)
     <6>1. CASE k = key BY <4>1, <4>4, <4>12, <5>2, <5>3, <6>1 DEF key
     <6>2. CASE k # key BY <4>11, <5>3, <5>4, <6>2
     <6> QED BY <6>1, <6>2
    <5>6. CapturedInv' BY <3>3, <5>5 DEF CapturedInv
    <5> QED BY <3>3, <4>7, <4>9, <4>10, <5>6 DEF CacheInv
   <4>13. CASE ~(scPc[s] = "capture" /\ scCap[s] = "ok")
    <5>1. scCaptured' = scCaptured BY <4>13 DEF ScanEnd
    <5>2. CapturedInv' BY <3>3, <4>11, <5>1 DEF CapturedInv
    <5> QED BY <3>3, <4>7, <4>9, <4>10, <5>2 DEF CacheInv
   <4> QED BY <4>12, <4>13
  <3>11. CASE ReplayRow(s)
   <4> USE <3>11
   <4>1. scPc[s] = "replay" /\ scNext[s] < Len(scHeap[s]) /\ ScanYield(s, scHeap[s][scNext[s] + 1])
         /\ UNCHANGED <<scCfg, scPc, scHeap, scCap, scCaptured>> BY DEF ReplayRow
   <4>2. Served(s, scHeap[s]) /\ scHeap[s] \in Seq(ScRow) /\ Len(scHeap[s]) <= ScBudget
     BY <3>1, <3>5, <4>1 DEF ScanInv
   <4>3. /\ scNext' \in [Scans -> Nat]
         /\ scOut' \in [Scans -> [rows : Seq(ScRow), end : {"none", "nil", "error"}]]
         /\ scNext'[s] <= Len(scHeap[s]) /\ scOut'[s].rows = Upto(scHeap[s], scNext'[s])
         /\ \A t \in Scans : t # s => scNext'[t] = scNext[t] /\ scOut'[t] = scOut[t] BY <3>1, <4>1, <4>2, ServedMore
   <4>4. ScanTypes' BY <3>3, <3>5, <4>1, <4>3 DEF ScanTypes
   <4>5. Served(s, scHeap[s])' BY <4>1, <4>3 DEF Served
   <4>6. \E t \in Scans : SameKey(s, t) /\ scHeap[s] = Source(t) BY <3>1, <4>1 DEF ScanInv
   <4>7. ScanInv(s)' BY <3>3, <4>1, <4>2, <4>5, <4>6 DEF ScanInv
   <4>8. Kept BY <4>1, <4>3
   <4> QED BY <4>1, <4>4, <4>7, <4>8, ScanStepOf
  <3>12. CASE ReplayEnd(s)
   <4> USE <3>12
   <4>1. scPc[s] = "replay" /\ scNext[s] = Len(scHeap[s]) /\ scPc' = [scPc EXCEPT ![s] = "done"]
         /\ UNCHANGED <<scCfg, scHeap, scCap, scNext, scOut, scCaptured>> BY DEF ReplayEnd, ScanGoto
   <4>2. Served(s, scHeap[s]) /\ scHeap[s] \in Seq(ScRow) /\ Len(scHeap[s]) <= ScBudget
     BY <3>1, <3>5, <4>1 DEF ScanInv
   <4>3. Upto(scHeap[s], Len(scHeap[s])) = scHeap[s]
    <5> DEFINE h == scHeap[s]
    <5>1. h \in Seq(ScRow) BY <4>2
    <5> HIDE DEF h
    <5>2. Upto(h, Len(h)) = h BY <5>1, UptoSeq
    <5> QED BY <5>2 DEF h
   <4>4. \E t \in Scans : SameKey(s, t) /\ scOut[s].rows = Source(t) BY <3>1, <4>1, <4>2, <4>3 DEF ScanInv, Served
   <4>5. ScanTypes' BY <3>3, <3>5, <4>1 DEF ScanTypes
   <4>6. scPc'[s] = "done" BY <3>5, <4>1
   <4>7. ScanInv(s)' BY <3>3, <4>1, <4>2, <4>4, <4>6 DEF ScanInv
   <4>8. Kept BY <3>5, <4>1
   <4> QED BY <4>1, <4>5, <4>7, <4>8, ScanStepOf
  <3> QED BY <2>2, <3>6, <3>7, <3>8, <3>9, <3>10, <3>11, <3>12
 <2> QED BY <2>1, <2>2 DEF ScanCacheNext
<1> QED BY <1>1, <1>2, PTL DEF ScanCacheSpec

\* What the invariant of the cache says about rows and heaps.
LEMMA CacheRows ==
  ASSUME CacheInv
  PROVE  ScanRowsExact /\ CaptureBounded
<1>1. ASSUME NEW s \in Scans, scPc[s] = "done", ~scCutShort(s) PROVE scOut[s].rows = Source(s)
 <2>1. PICK t \in Scans : SameKey(s, t) /\ scOut[s].rows = Source(t) BY <1>1 DEF CacheInv, ScanInv
 <2> QED BY <1>1, <2>1, SameSource DEF CacheInv, ScanTypes
<1>2. CaptureBounded BY DEF CacheInv, ScanInv, CapturedInv, CaptureBounded
<1> QED BY <1>1, <1>2 DEF ScanRowsExact

-----------------------------------------------------------------------------
(* The temporary keyspaces.                                                *)

TempHeap == [rows : Seq(Nat \X Nat), open : BOOLEAN]
TempStmt ==
  {NoStmt} \cup [kind : {"create"}, name : TkNames, heap : Nat] \cup [kind : {"select"}, name : TkNames]

TempTypes ==
  /\ DOMAIN tkKs \subseteq TkNames /\ tkKs \in [DOMAIN tkKs -> Nat]
  /\ tkHeap \in Seq(TempHeap)
  /\ tkStmt \in TempStmt
  /\ tkRead \in [heap : Nat, n : Nat]

\* A heap has one owner: a name, or the CREATE that fills it; a scan reads the
\* heap of a name, which its statement cannot change before it ends.
TempInv ==
  /\ \A n \in DOMAIN tkKs : tkKs[n] \in 1..Len(tkHeap)
  /\ tkStmt.kind = "create" =>
       /\ tkStmt.heap \in 1..Len(tkHeap) /\ tkHeap[tkStmt.heap].open
       /\ \A n \in DOMAIN tkKs : tkKs[n] # tkStmt.heap
  /\ tkRead.heap # NoHeap => tkStmt # NoStmt /\ \E n \in DOMAIN tkKs : tkKs[n] = tkRead.heap
  /\ ScansReadOpenHeaps /\ HeapsOwned

\* Closing a heap leaves the others as they are.
LEMMA HeapClosed ==
  ASSUME tkHeap \in Seq(TempHeap), NEW h \in 1..Len(tkHeap)
  PROVE  /\ CloseHeap(h) \in Seq(TempHeap) /\ Len(CloseHeap(h)) = Len(tkHeap)
         /\ ~CloseHeap(h)[h].open
         /\ \A i \in 1..Len(tkHeap) : i # h => CloseHeap(h)[i] = tkHeap[i]
<1> DEFINE m == Len(tkHeap)
<1>1. m \in Nat /\ tkHeap \in [1..m -> TempHeap] OBVIOUS
<1> HIDE DEF m
<1>2. CloseHeap(h) = [tkHeap EXCEPT ![h] = [tkHeap[h] EXCEPT !.open = FALSE]] BY DEF CloseHeap
<1>3. h \in 1..m BY DEF m
<1>4. [tkHeap[h] EXCEPT !.open = FALSE] \in TempHeap /\ ~[tkHeap[h] EXCEPT !.open = FALSE].open
  BY <1>1, <1>3 DEF TempHeap
<1> DEFINE c == CloseHeap(h)
           x == [tkHeap[h] EXCEPT !.open = FALSE]
<1> HIDE DEF c, x
<1>5. c \in [1..m -> TempHeap] /\ c[h] = x /\ \A i \in 1..m : i # h => c[i] = tkHeap[i]
  BY <1>1, <1>2, <1>3, <1>4 DEF c, x
<1>6. c \in Seq(TempHeap) /\ Len(c) = m BY <1>1, <1>5
<1> QED BY <1>4, <1>5, <1>6 DEF c, x, m

\* The types and the ownership of the temporary keyspaces.
LEMMA TempInvariance == TempSpec => [](TempTypes /\ TempInv)
<1>1. TempInit => TempTypes /\ TempInv
 <2> SUFFICES ASSUME TempInit PROVE TempTypes /\ TempInv OBVIOUS
 <2>1. DOMAIN tkKs = {} /\ tkHeap = <<>> /\ DOMAIN tkHeap = {} /\ tkHeap \in Seq(TempHeap) BY DEF TempInit
 <2>2. TempTypes BY <2>1 DEF TempInit, TempTypes, TempStmt, NoHeap
 <2>3. TempInv BY <2>1 DEF TempInit, TempInv, ScansReadOpenHeaps, HeapsOwned, NoStmt, NoHeap
 <2> QED BY <2>2, <2>3
<1>2. TempTypes /\ TempInv /\ [TempNext]_tempVars => TempTypes' /\ TempInv'
 <2> SUFFICES ASSUME TempTypes, TempInv, [TempNext]_tempVars PROVE TempTypes' /\ TempInv' OBVIOUS
 <2> DEFINE D == DOMAIN tkKs
            m == Len(tkHeap)
 <2>1. /\ D \subseteq TkNames /\ tkKs \in [D -> Nat] /\ tkHeap \in Seq(TempHeap)
       /\ tkStmt \in TempStmt /\ tkRead \in [heap : Nat, n : Nat] BY DEF TempTypes
 <2>2. m \in Nat /\ DOMAIN tkHeap = 1..m /\ tkHeap \in [1..m -> TempHeap] BY <2>1
 <2>3. /\ \A n \in D : tkKs[n] \in 1..m /\ tkHeap[tkKs[n]].open
       /\ tkStmt.kind = "create" => /\ tkStmt.heap \in 1..m /\ tkHeap[tkStmt.heap].open
                                    /\ \A n \in D : tkKs[n] # tkStmt.heap
       /\ tkRead.heap # NoHeap => /\ tkStmt # NoStmt /\ tkHeap[tkRead.heap].open
                                  /\ \E n \in D : tkKs[n] = tkRead.heap
       /\ \A h \in 1..m : tkHeap[h].open =>
            (\E n \in D : tkKs[n] = h) \/ (tkStmt.kind = "create" /\ tkStmt.heap = h)
       /\ \A n, k \in D : tkKs[n] = tkKs[k] => n = k BY <2>2 DEF TempInv, ScansReadOpenHeaps, HeapsOwned
 <2>4. tkStmt.kind = "create" => tkStmt.name \in TkNames /\ tkStmt.heap \in Nat BY <2>1 DEF TempStmt, NoStmt
 <2> HIDE DEF D, m
 <2>5. CASE UNCHANGED tempVars BY <2>5 DEF tempVars, TempTypes, TempInv, ScansReadOpenHeaps, HeapsOwned
 <2>6. CASE CreateBegin
  <3>1. PICK n \in TkNames, orReplace \in BOOLEAN, from \in {tkKs[k] : k \in D} \cup {NoHeap} :
          /\ tkStmt = NoStmt
          /\ IF Named(n) # {} /\ ~orReplace
             THEN Finish(TRUE) /\ UNCHANGED tkHeap
             ELSE /\ tkHeap' = NewHeap
                  /\ tkStmt' = [kind |-> "create", name |-> n, heap |-> m + 1]
                  /\ tkRead' = [heap |-> from, n |-> 0]
          /\ UNCHANGED tkKs BY <2>6 DEF CreateBegin, D, m
  <3>2. tkStmt.kind # "create" BY <3>1 DEF NoStmt
  <3>3. CASE Finish(TRUE) /\ UNCHANGED tkHeap
   <4>1. tkStmt' = NoStmt /\ tkRead' = [heap |-> NoHeap, n |-> 0] BY <3>3 DEF Finish
   <4>2. TempTypes' BY <2>1, <3>1, <3>3, <4>1 DEF TempTypes, TempStmt, NoHeap, D
   <4>3. TempInv' BY <2>2, <2>3, <3>1, <3>2, <3>3, <4>1 DEF TempInv, ScansReadOpenHeaps, HeapsOwned, NoStmt, D, m
   <4> QED BY <4>2, <4>3
  <3>4. CASE /\ tkHeap' = NewHeap
             /\ tkStmt' = [kind |-> "create", name |-> n, heap |-> m + 1]
             /\ tkRead' = [heap |-> from, n |-> 0]
   <4> DEFINE new == [rows |-> <<>>, open |-> TRUE]
   <4>1. new \in TempHeap /\ new.open BY DEF TempHeap
   <4>2. tkHeap' = Append(tkHeap, new) BY <3>4 DEF NewHeap
   <4> HIDE DEF new
   <4>3. /\ tkHeap' \in Seq(TempHeap) /\ Len(tkHeap') = m + 1 /\ DOMAIN tkHeap' = 1..(m + 1)
         /\ \A i \in 1..m : tkHeap'[i] = tkHeap[i]
         /\ tkHeap'[m + 1] = new BY <2>1, <2>2, <4>1, <4>2 DEF m
   <4>4. from \in Nat BY <2>1, <3>1 DEF NoHeap
   <4>5. TempTypes'
    <5>1. tkStmt' \in TempStmt BY <2>2, <3>4 DEF TempStmt
    <5>2. tkRead' \in [heap : Nat, n : Nat] BY <3>4, <4>4
    <5> QED BY <2>1, <3>1, <4>3, <5>1, <5>2 DEF TempTypes, D
   <4>6. /\ tkStmt'.kind = "create" /\ tkStmt'.heap = m + 1 /\ tkStmt' # NoStmt
         /\ tkRead'.heap = from /\ tkKs' = tkKs BY <3>1, <3>4 DEF NoStmt
   <4>7. \A k \in D : tkKs[k] \in 1..(m + 1) /\ tkKs[k] # m + 1 /\ tkHeap'[tkKs[k]].open BY <2>2, <2>3, <4>3
   <4>8. from # NoHeap => \E k \in D : tkKs[k] = from BY <3>1
   <4>9. \A h \in 1..(m + 1) : h \in 1..m \/ h = m + 1 BY <2>2
   <4>10. \A h \in 1..(m + 1) : tkHeap'[h].open => (\E k \in D : tkKs[k] = h) \/ m + 1 = h BY <2>3, <3>2, <4>3, <4>9
   <4>11. m + 1 \in 1..(m + 1) BY <2>2
   <4>12. ScansReadOpenHeaps' BY <4>6, <4>7, <4>8 DEF ScansReadOpenHeaps, D
   <4>13. HeapsOwned' BY <2>3, <4>3, <4>6, <4>10 DEF HeapsOwned, D
   <4> QED BY <4>1, <4>3, <4>5, <4>6, <4>7, <4>8, <4>11, <4>12, <4>13 DEF TempInv, D
  <3> QED BY <3>1, <3>3, <3>4
 <2>7. CASE CreateRow
  <3> DEFINE h == tkStmt.heap
  <3>1. tkStmt.kind = "create" /\ UNCHANGED <<tkKs, tkStmt>> BY <2>7 DEF CreateRow
  <3>2. h \in 1..m /\ tkHeap[h] \in TempHeap /\ h \in Nat BY <2>2, <2>3, <3>1
  <3>3. PICK row \in Nat \X Nat : /\ tkHeap' = [tkHeap EXCEPT ![h].rows = Append(@, row)]
                                 /\ tkRead' \in [heap : Nat, n : Nat] /\ tkRead'.heap = tkRead.heap
   <4>1. CASE tkRead.heap = NoHeap
    <5>1. Len(tkHeap[h].rows) \in Nat BY <3>2 DEF TempHeap
    <5>2. tkHeap' = [tkHeap EXCEPT ![h].rows = Append(@, <<h, Len(tkHeap[h].rows)>>)] /\ tkRead' = tkRead
      BY <2>7, <4>1 DEF CreateRow
    <5> DEFINE row == <<h, Len(tkHeap[h].rows)>>
    <5>3. row \in Nat \X Nat BY <3>2, <5>1
    <5> HIDE DEF row
    <5>4. tkHeap' = [tkHeap EXCEPT ![h].rows = Append(@, row)] BY <5>2 DEF row
    <5> QED BY <2>1, <5>2, <5>3, <5>4
   <4>2. CASE tkRead.heap # NoHeap
    <5> DEFINE rows == tkHeap[tkRead.heap].rows
    <5>1. tkRead.n < Len(rows)
          /\ tkHeap' = [tkHeap EXCEPT ![h].rows = Append(@, rows[tkRead.n + 1])]
          /\ tkRead' = [tkRead EXCEPT !.n = @ + 1] BY <2>7, <4>2 DEF CreateRow
    <5>2. rows \in Seq(Nat \X Nat) BY <2>2, <2>3, <4>2 DEF TempHeap
    <5>3. tkRead.n \in Nat BY <2>1
    <5> HIDE DEF rows
    <5>4. rows[tkRead.n + 1] \in Nat \X Nat
     <6>1. tkRead.n + 1 \in 1..Len(rows) BY <5>1, <5>2, <5>3
     <6> QED BY <5>2, <6>1
    <5>5. tkRead' \in [heap : Nat, n : Nat] /\ tkRead'.heap = tkRead.heap BY <2>1, <5>1, <5>3
    <5> QED BY <5>1, <5>4, <5>5 DEF rows
   <4> QED BY <4>1, <4>2
  <3> DEFINE x == [tkHeap[h] EXCEPT !.rows = Append(@, row)]
  <3>4. x \in TempHeap /\ x.open = tkHeap[h].open
   <4>1. tkHeap[h].rows \in Seq(Nat \X Nat) /\ tkHeap[h].open \in BOOLEAN
         /\ tkHeap[h] = [rows |-> tkHeap[h].rows, open |-> tkHeap[h].open] BY <3>2 DEF TempHeap
   <4>2. Append(tkHeap[h].rows, row) \in Seq(Nat \X Nat) BY <3>3, <4>1
   <4> DEFINE q == Append(tkHeap[h].rows, row)
              r == tkHeap[h]
   <4>3. x = [r EXCEPT !.rows = q] OBVIOUS
   <4>4. r \in TempHeap /\ q \in Seq(Nat \X Nat) BY <3>2, <4>2
   <4> HIDE DEF x, q, r
   <4>5. x \in TempHeap /\ x.open = r.open BY <4>3, <4>4 DEF TempHeap
   <4> QED BY <4>5 DEF r
  <3>5. tkHeap' = [tkHeap EXCEPT ![h] = x] BY <3>3
  <3> HIDE DEF x
  <3>6. tkHeap' \in [1..m -> TempHeap] /\ \A i \in 1..m : tkHeap'[i].open = tkHeap[i].open BY <2>2, <3>2, <3>4, <3>5
  <3>7. tkHeap' \in Seq(TempHeap) /\ Len(tkHeap') = m /\ DOMAIN tkHeap' = 1..m BY <2>2, <3>6
  <3>8. TempTypes' BY <2>1, <3>1, <3>3, <3>7 DEF TempTypes, D
  <3>9. ScansReadOpenHeaps'
   <4>1. \A n \in D : tkHeap'[tkKs[n]].open BY <2>3, <3>6
   <4>2. tkRead'.heap # NoHeap => tkHeap'[tkRead'.heap].open BY <2>3, <3>3, <4>1
   <4> QED BY <3>1, <4>1, <4>2 DEF ScansReadOpenHeaps, D
  <3>10. HeapsOwned' BY <2>3, <3>1, <3>6, <3>7 DEF HeapsOwned, D
  <3> QED BY <2>3, <3>1, <3>3, <3>7, <3>8, <3>9, <3>10 DEF TempInv, D
 <2>8. CASE CreateFails
  <3> DEFINE h == tkStmt.heap
  <3>1. tkStmt.kind = "create" /\ tkHeap' = CloseHeap(h) /\ tkKs' = tkKs
        /\ tkStmt' = NoStmt /\ tkRead' = [heap |-> NoHeap, n |-> 0] BY <2>8 DEF CreateFails, CreateFailsHeap, Finish
  <3>2. h \in 1..m /\ \A n \in D : tkKs[n] # h BY <2>3, <3>1
  <3> HIDE DEF h
  <3>3. /\ tkHeap' \in Seq(TempHeap) /\ Len(tkHeap') = m /\ ~tkHeap'[h].open
        /\ \A i \in 1..m : i # h => tkHeap'[i] = tkHeap[i] BY <2>1, <3>1, <3>2, HeapClosed DEF m
  <3>4. DOMAIN tkHeap' = 1..m BY <3>3
  <3>5. TempTypes' BY <2>1, <3>1, <3>3 DEF TempTypes, TempStmt, NoHeap, D
  <3>6. ScansReadOpenHeaps' BY <2>3, <3>1, <3>2, <3>3 DEF ScansReadOpenHeaps, D
  <3>7. HeapsOwned' BY <2>3, <3>1, <3>3, <3>4 DEF HeapsOwned, NoStmt, D, h
  <3> QED BY <2>3, <3>1, <3>3, <3>5, <3>6, <3>7 DEF TempInv, NoStmt, D
 <2>9. CASE CreateEnd
  <3> DEFINE h == tkStmt.heap
             name == tkStmt.name
  <3>1. /\ tkStmt.kind = "create" /\ tkHeap' = (IF name \in D THEN CloseHeap(tkKs[name]) ELSE tkHeap)
        /\ tkKs' = [x \in D \cup {name} |-> IF x = name THEN h ELSE tkKs[x]]
        /\ tkStmt' = NoStmt /\ tkRead' = [heap |-> NoHeap, n |-> 0] BY <2>9 DEF CreateEnd, PutHeap, With, Finish, D
  <3>2. h \in 1..m /\ name \in TkNames /\ \A n \in D : tkKs[n] # h BY <2>3, <2>4, <3>1
  <3>3. tkStmt.heap = h OBVIOUS
  <3> HIDE DEF h, name
  <3>4. /\ tkHeap' \in Seq(TempHeap) /\ Len(tkHeap') = m
        /\ \A i \in 1..m : (name \in D => i # tkKs[name]) => tkHeap'[i] = tkHeap[i]
        /\ name \in D => ~tkHeap'[tkKs[name]].open
   <4>1. CASE name \in D BY <2>1, <2>3, <3>1, <4>1, HeapClosed DEF m
   <4>2. CASE name \notin D BY <2>1, <3>1, <4>2 DEF m
   <4> QED BY <4>1, <4>2
  <3>5. DOMAIN tkHeap' = 1..m BY <3>4
  <3>6. DOMAIN tkKs' = D \cup {name} /\ tkKs'[name] = h /\ \A n \in D : n # name => tkKs'[n] = tkKs[n] BY <3>1
  <3>7. \A n \in DOMAIN tkKs' : tkKs'[n] \in 1..m BY <2>3, <3>2, <3>6
  <3>8. TempTypes'
   <4>1. tkKs' \in [DOMAIN tkKs' -> Nat] BY <2>1, <2>2, <3>1, <3>2
   <4> QED BY <2>1, <3>1, <3>2, <3>4, <3>6, <4>1 DEF TempTypes, TempStmt, NoHeap
  <3>9. tkHeap[h].open => tkHeap'[h].open BY <2>3, <3>2, <3>4
  <3>10. ASSUME tkHeap[h].open PROVE ScansReadOpenHeaps'
   <4>1. ASSUME NEW n \in D, n # name PROVE tkHeap'[tkKs[n]].open BY <2>3, <3>4, <4>1
   <4> QED BY <3>1, <3>6, <3>9, <3>10, <4>1 DEF ScansReadOpenHeaps
  <3>11. HeapsOwned'
   <4>1. ASSUME NEW i \in 1..m, tkHeap'[i].open PROVE \E n \in DOMAIN tkKs' : tkKs'[n] = i
    <5>1. name \in D => i # tkKs[name] BY <3>4, <4>1
    <5>2. tkHeap[i].open BY <3>4, <4>1, <5>1
    <5>3. CASE i = h BY <3>6, <5>3
    <5>4. CASE i # h
     <6>1. PICK n \in D : tkKs[n] = i BY <2>3, <3>3, <5>2, <5>4
     <6> QED BY <3>6, <5>1, <6>1
    <5> QED BY <5>3, <5>4
   <4>2. ASSUME NEW n \in DOMAIN tkKs', NEW k \in DOMAIN tkKs', tkKs'[n] = tkKs'[k] PROVE n = k
     BY <2>3, <3>2, <3>6, <4>2
   <4> QED BY <3>5, <4>1, <4>2 DEF HeapsOwned
  <3>12. tkHeap[h].open BY <2>3, <3>1, <3>3 DEF TempInv
  <3> QED BY <3>1, <3>4, <3>7, <3>8, <3>10, <3>11, <3>12 DEF TempInv, NoStmt
 <2>10. CASE DropTemp
  <3>1. PICK n \in TkNames, ifExists \in BOOLEAN :
          /\ tkStmt = NoStmt
          /\ IF n \in D
             THEN tkHeap' = CloseHeap(tkKs[n]) /\ tkKs' = [x \in D \ {n} |-> tkKs[x]] /\ Finish(FALSE)
             ELSE Finish(~ifExists) /\ UNCHANGED <<tkHeap, tkKs>> BY <2>10 DEF DropTemp, Without, D
  <3>2. tkStmt.kind # "create" /\ tkStmt' = NoStmt /\ tkRead' = [heap |-> NoHeap, n |-> 0] BY <3>1 DEF NoStmt, Finish
  <3>3. CASE n \in D
   <4> DEFINE h == tkKs[n]
   <4>1. tkHeap' = CloseHeap(h) /\ tkKs' = [x \in D \ {n} |-> tkKs[x]] BY <3>1, <3>3
   <4>2. h \in 1..m BY <2>3, <3>3
   <4>3. h = tkKs[n] OBVIOUS
   <4> HIDE DEF h
   <4>4. /\ tkHeap' \in Seq(TempHeap) /\ Len(tkHeap') = m /\ ~tkHeap'[h].open
         /\ \A i \in 1..m : i # h => tkHeap'[i] = tkHeap[i] BY <2>1, <4>1, <4>2, HeapClosed DEF m
   <4>5. DOMAIN tkHeap' = 1..m BY <4>4
   <4>6. DOMAIN tkKs' = D \ {n} /\ \A k \in D \ {n} : tkKs'[k] = tkKs[k] BY <4>1
   <4>7. TempTypes'
    <5>1. tkKs' \in [DOMAIN tkKs' -> Nat] BY <2>1, <4>1
    <5> QED BY <2>1, <3>2, <4>4, <4>6, <5>1 DEF TempTypes, TempStmt, NoHeap
   <4>8. ScansReadOpenHeaps'
    <5>1. ASSUME NEW k \in D \ {n} PROVE tkHeap'[tkKs[k]].open
     <6>1. tkKs[k] # h BY <2>3, <3>3, <4>3
     <6> QED BY <2>3, <4>4, <6>1
    <5> QED BY <3>2, <4>6, <5>1 DEF ScansReadOpenHeaps
   <4>9. HeapsOwned'
    <5>1. ASSUME NEW i \in 1..m, tkHeap'[i].open PROVE \E k \in DOMAIN tkKs' : tkKs'[k] = i
     <6>1. i # h /\ tkHeap[i].open BY <4>4, <5>1
     <6>2. PICK k \in D : tkKs[k] = i BY <2>3, <3>2, <6>1
     <6> QED BY <4>3, <4>6, <6>1, <6>2
    <5> QED BY <2>3, <4>5, <4>6, <5>1 DEF HeapsOwned
   <4> QED BY <2>3, <3>2, <4>4, <4>6, <4>7, <4>8, <4>9 DEF TempInv, NoStmt
  <3>4. CASE n \notin D
   <4>1. tkHeap' = tkHeap /\ tkKs' = tkKs BY <3>1, <3>4
   <4>2. TempTypes' BY <2>1, <3>2, <4>1 DEF TempTypes, TempStmt, NoHeap, D
   <4>3. TempInv' BY <2>2, <2>3, <3>2, <4>1 DEF TempInv, ScansReadOpenHeaps, HeapsOwned, NoStmt, D, m
   <4> QED BY <4>2, <4>3
  <3> QED BY <3>3, <3>4
 <2>11. CASE SelectBegin
  <3>0. PICK n \in TkNames : \E k \in Named(n) :
          /\ tkStmt = NoStmt /\ tkStmt' = [kind |-> "select", name |-> k]
          /\ tkRead' = [heap |-> tkKs[k], n |-> 0] /\ UNCHANGED <<tkKs, tkHeap>> BY <2>11 DEF SelectBegin
  <3>1. PICK k \in Named(n) :
          /\ tkStmt = NoStmt /\ tkStmt' = [kind |-> "select", name |-> k]
          /\ tkRead' = [heap |-> tkKs[k], n |-> 0] /\ UNCHANGED <<tkKs, tkHeap>> BY <3>0
  <3>2. k \in D BY <3>1 DEF Named, D
  <3>3. tkStmt.kind # "create" /\ tkStmt'.kind = "select" /\ tkStmt' # NoStmt /\ tkRead'.heap = tkKs[k]
    BY <3>1 DEF NoStmt
  <3>4. TempTypes'
   <4>1. tkStmt' \in TempStmt /\ tkRead' \in [heap : Nat, n : Nat] BY <2>1, <3>1, <3>2 DEF TempStmt
   <4> QED BY <2>1, <3>1, <4>1 DEF TempTypes, D
  <3>5. TempInv' BY <2>2, <2>3, <3>1, <3>2, <3>3 DEF TempInv, ScansReadOpenHeaps, HeapsOwned, D, m
  <3> QED BY <3>4, <3>5
 <2>12. CASE SelectRow
  <3>1. UNCHANGED <<tkKs, tkHeap, tkStmt>> /\ tkRead' = [tkRead EXCEPT !.n = @ + 1] BY <2>12 DEF SelectRow
  <3>2. tkRead' \in [heap : Nat, n : Nat] /\ tkRead'.heap = tkRead.heap BY <2>1, <3>1
  <3>3. TempTypes' BY <2>1, <3>1, <3>2 DEF TempTypes, D
  <3>4. TempInv' BY <3>1, <3>2 DEF TempInv, ScansReadOpenHeaps, HeapsOwned
  <3> QED BY <3>3, <3>4
 <2>13. CASE SelectEnd
  <3>1. tkStmt.kind = "select" /\ UNCHANGED <<tkKs, tkHeap>> /\ tkStmt' = NoStmt /\ tkRead' = [heap |-> NoHeap, n |-> 0]
    BY <2>13 DEF SelectEnd, Finish
  <3>2. TempTypes' BY <2>1, <3>1 DEF TempTypes, TempStmt, NoHeap, D
  <3>3. TempInv' BY <2>2, <2>3, <3>1 DEF TempInv, ScansReadOpenHeaps, HeapsOwned, NoStmt, D, m
  <3> QED BY <3>2, <3>3
 <2>14. CASE CloseSession
  <3>1. /\ tkStmt = NoStmt /\ UNCHANGED <<tkStmt, tkRead>> /\ tkKs' = [n \in {} |-> 0]
        /\ tkHeap' = [h \in 1..m |-> IF \E n \in D : tkKs[n] = h THEN [tkHeap[h] EXCEPT !.open = FALSE] ELSE tkHeap[h]]
    BY <2>2, <2>14 DEF CloseSession, D
  <3>2. DOMAIN tkKs' = {} /\ tkStmt.kind # "create" BY <3>1 DEF NoStmt
  <3>3. \A h \in 1..m : tkHeap'[h] \in TempHeap /\ ~tkHeap'[h].open
   <4>1. ASSUME NEW h \in 1..m PROVE tkHeap'[h] \in TempHeap /\ ~tkHeap'[h].open
    <5>1. tkHeap[h] \in TempHeap BY <2>2
    <5>2. CASE \E n \in D : tkKs[n] = h BY <3>1, <5>1, <5>2 DEF TempHeap
    <5>3. CASE ~\E n \in D : tkKs[n] = h BY <2>3, <3>1, <3>2, <5>1, <5>3
    <5> QED BY <5>2, <5>3
   <4> QED BY <4>1
  <3>4. tkHeap' \in [1..m -> TempHeap] BY <3>1, <3>3
  <3>5. tkHeap' \in Seq(TempHeap) /\ DOMAIN tkHeap' = 1..m BY <2>2, <3>4
  <3>6. tkRead.heap = NoHeap BY <2>3, <3>1
  <3>7. TempTypes'
   <4>1. tkKs' \in [DOMAIN tkKs' -> Nat] BY <3>1, <3>2
   <4> QED BY <2>1, <3>1, <3>2, <3>5, <4>1 DEF TempTypes
  <3>8. TempInv' BY <3>1, <3>2, <3>3, <3>5, <3>6 DEF TempInv, ScansReadOpenHeaps, HeapsOwned
  <3> QED BY <3>7, <3>8
 <2> QED BY <2>5, <2>6, <2>7, <2>8, <2>9, <2>10, <2>11, <2>12, <2>13, <2>14 DEF TempNext
<1> QED BY <1>1, <1>2, PTL DEF TempSpec

\* The rows that outlive a scan are those of their source, in heaps that are
\* open while they are read, owned by one and bounded: for every pack of
\* scans, every budget, and sessions of every length.
THEOREM Retained ==
  ASSUME NEW Cfgs, \A c \in Cfgs : ScanConfigOK(c)
  PROVE  ScanCacheSpec(Cfgs) /\ TempSpec => []RetainedRowsExact
<1>1. ScanCacheSpec(Cfgs) => []CacheInv BY CacheInvariance
<1>2. CacheInv => ScanRowsExact /\ CaptureBounded BY CacheRows
<1>3. TempInv => ScansReadOpenHeaps /\ HeapsOwned BY DEF TempInv
<1>4. CacheInv /\ TempInv => RetainedRowsExact BY <1>2, <1>3 DEF RetainedRowsExact
<1> QED BY <1>1, <1>4, TempInvariance, PTL

-----------------------------------------------------------------------------
(* The JavaScript extract streams.                                         *)

CleanFail == [emit |-> NoErr, read |-> NoErr, call |-> NoErr]
XsGone == {"recs", "finish", "gone"}

\* What one of the two goroutines knows of the other: the scan asks for records
\* only while it has not called Close, which alone interrupts the script; the
\* file is closed after the script is gone; and the error is in errc before
\* recs is closed.
StreamInv ==
  /\ xsN \in Nat /\ xsDone \in BOOLEAN
  /\ xsFail \in [emit : {NoErr, "emit"}, read : {NoErr, "read"}, call : {NoErr, "throw", "interrupt"}]
  /\ xsMain \in {"use", "next"} <=> ~xsDone
  /\ xsInt => xsDone
  /\ xsFail.call = "interrupt" => xsInt
  /\ xsFinished => xsJs = "gone"
  /\ ~xsFile => xsFinished
  /\ xsRecs <=> xsJs \in {"finish", "gone"}
  /\ xsEof => xsRecs
  /\ xsMain = "next" => ~xsEof
  /\ ~xsEof => xsErrc = (IF xsJs \in XsGone /\ xsGerr # NoErr THEN <<xsGerr>> ELSE <<>>)
  /\ xsJs \in XsGone \cup {"error"} /\ ~xsDone /\ xsGerr = NoErr => xsFail = CleanFail
  /\ xsJs = "send" => xsN > 0
  /\ ~xsDone => xsOut = [i \in 1..(IF xsJs = "send" THEN xsN - 1 ELSE xsN) |-> i - 1]
  /\ InterruptIsNoError /\ CleanEndIsComplete

\* The order of the deferred functions.
LEMMA DeferOrder == Defers[1] = "error" /\ NextDefer("error") = "recs" /\ NextDefer("recs") = "finish"
<1>1. Defers[1] = "error" /\ Defers[2] = "recs" /\ Defers[3] = "finish" BY DEF Defers
<1>2. (CHOOSE i \in 1..3 : Defers[i] = "error") = 1 BY <1>1
<1>3. (CHOOSE i \in 1..3 : Defers[i] = "recs") = 2 BY <1>1
<1> QED BY <1>1, <1>2, <1>3 DEF NextDefer

\* A record that is handed over is the next of its stream.
LEMMA RecordHanded ==
  ASSUME NEW n \in Nat, n > 0
  PROVE  Append([i \in 1..(n - 1) |-> i - 1], n - 1) = [i \in 1..n |-> i - 1]
<1> DEFINE u == [i \in 1..(n - 1) |-> i - 1]
<1>1. n - 1 \in Nat /\ \A i \in 1..(n - 1) : i - 1 \in Int OBVIOUS
<1>2. u \in Seq(Int) /\ Len(u) = n - 1 /\ \A i \in 1..(n - 1) : u[i] = i - 1 BY <1>1
<1> HIDE DEF u
<1> DEFINE v == Append(u, n - 1)
<1>3. /\ v \in Seq(Int) /\ Len(v) = n /\ v[n] = n - 1
      /\ \A i \in 1..(n - 1) : v[i] = u[i] BY <1>1, <1>2, AppendProperties
<1> HIDE DEF v
<1>4. v \in [1..n -> Int] /\ \A i \in 1..n : v[i] = i - 1
 <2>1. \A i \in 1..n : i \in 1..(n - 1) \/ i = n OBVIOUS
 <2> QED BY <1>2, <1>3, <2>1
<1>5. v = [i \in 1..n |-> i - 1] BY <1>4
<1> QED BY <1>5 DEF v, u

\* The invariant of the two goroutines.
LEMMA StreamInvariance == ExtractStreamSpec => []StreamInv
<1>1. ExtractStreamInit => StreamInv
 <2> SUFFICES ASSUME ExtractStreamInit PROVE StreamInv OBVIOUS
 <2>1. xsOut = [i \in 1..0 |-> i - 1] BY DEF ExtractStreamInit
 <2> QED BY <2>1 DEF ExtractStreamInit, StreamInv, InterruptIsNoError, CleanEndIsComplete, NoErr, CleanFail, XsGone
<1>2. StreamInv /\ [ExtractStreamNext]_extractStreamVars => StreamInv'
 <2> SUFFICES ASSUME StreamInv, [ExtractStreamNext]_extractStreamVars PROVE StreamInv' OBVIOUS
 <2> USE DEF StreamInv, InterruptIsNoError, CleanEndIsComplete, XsGone
 <2>1. CASE UNCHANGED extractStreamVars BY <2>1 DEF extractStreamVars
 <2>2. CASE JsRead BY <2>2 DEF JsRead
 <2>3. CASE JsReadDone BY <2>3 DEF JsReadDone
 <2>4. CASE JsEmitBad BY <2>4 DEF JsEmitBad
 <2>5. CASE JsEmit BY <2>5 DEF JsEmit
 <2>6. CASE Handoff
  <3>1. Append([i \in 1..(xsN - 1) |-> i - 1], xsN - 1) = [i \in 1..xsN |-> i - 1] BY <2>6, RecordHanded DEF Handoff
  <3> QED BY <2>6, <3>1 DEF Handoff
 <2>7. CASE SendStopped BY <2>7 DEF SendStopped
 <2>8. CASE JsCallEnds BY <2>8 DEF JsCallEnds, NoErr
 <2>9. CASE JsEnds BY <2>9, DeferOrder DEF JsEnds, EndError, NoErr, CleanFail
 <2>10. CASE SendError BY <2>10, DeferOrder DEF SendError
 <2>11. CASE CloseRecs BY <2>11, DeferOrder DEF CloseRecs
 <2>12. CASE CloseStreamEnd BY <2>12 DEF CloseStreamEnd
 <2>13. CASE NextBegin BY <2>13 DEF NextBegin
 <2>14. CASE NextEnd
  <3>1. /\ xsMain = "next" /\ xsRecs /\ xsEof' = TRUE /\ xsMain' = "use"
        /\ UNCHANGED <<xsJs, xsN, xsFail, xsGerr, xsRecs, xsDone, xsFinished, xsFile, xsInt, xsOut>>
    BY <2>14 DEF NextEnd
  <3>2. ~xsDone /\ xsJs \in {"finish", "gone"} BY <3>1
  <3>3. xsErr' = NoErr => xsEof \/ xsGerr = NoErr
   <4>1. SUFFICES ASSUME ~xsEof, xsGerr # NoErr PROVE xsErr' # NoErr OBVIOUS
   <4>2. xsErrc = <<xsGerr>> BY <3>2, <4>1
   <4>3. xsErrc # <<>> /\ xsErrc[1] = xsGerr BY <4>2
   <4> QED BY <2>14, <4>1, <4>3 DEF NextEnd
  <3>4. ~xsEof BY <3>1
  <3> QED BY <3>1, <3>2, <3>3, <3>4 DEF CleanFail
 <2>15. CASE CloseDone BY <2>15 DEF CloseDone
 <2>16. CASE CloseInterrupt BY <2>16 DEF CloseInterrupt, Interrupt
 <2>17. CASE CloseFile BY <2>17 DEF CloseFile, FinishedWaited
 <2> QED BY <2>1, <2>2, <2>3, <2>4, <2>5, <2>6, <2>7, <2>8, <2>9, <2>10, <2>11, <2>12, <2>13, <2>14, <2>15, <2>16, <2>17
         DEF ExtractStreamNext, JsStep, JsFree, MainStep
<1> QED BY <1>1, <1>2, PTL DEF ExtractStreamSpec

-----------------------------------------------------------------------------
(* The JavaScript runtime of a request.                                    *)

JsConfigOK(cfg) == Len(cfg.groups) \in Nat /\ DOMAIN cfg.groups = 1..Len(cfg.groups)

RowsBefore == 1..(jrRow - 1)

\* While nothing has gone wrong, every group that was met has a handle of its
\* own, and under it the rows of the group, in order.
TableInv ==
  /\ jrRt \in [id : Nat, table : Seq(Seq(Nat))]
  /\ DOMAIN jrHandle = {GroupOf(r) : r \in RowsBefore}
  /\ \A g \in DOMAIN jrHandle :
       /\ jrHandle[g] \in 1..Len(jrRt.table)
       /\ Lists(jrRt.table[jrHandle[g]], {r \in RowsBefore : GroupOf(r) = g})
  /\ \A g, k \in DOMAIN jrHandle : jrHandle[g] = jrHandle[k] => g = k

RuntimeClean == ~jrErr /\ ~jrHit /\ jrCfg.throws = {}

RuntimeInv ==
  /\ JsConfigOK(jrCfg) /\ jrRow \in Nat \ {0} /\ jrErr \in BOOLEAN /\ jrHit \in BOOLEAN
  /\ jrPc \in {"running", "drop", "clear", "agg"} => jrRow <= Len(jrCfg.groups)
  /\ jrPc \in {"result", "done"} => jrRow = Len(jrCfg.groups) + 1
  /\ jrPc = "drop" => jrErr
  /\ RuntimeClean => TableInv
  /\ RuntimeClean /\ jrPc = "done" => jrOut = [g \in DOMAIN jrHandle |-> jrRt.table[jrHandle[g]]]

\* A larger number goes to the end of an ascending list.
LEMMA ListsAppend ==
  ASSUME NEW s \in Seq(Nat), NEW S, NEW n \in Nat, Lists(s, S), \A x \in S : x < n
  PROVE  Append(s, n) \in Seq(Nat) /\ Lists(Append(s, n), S \cup {n})
<1> DEFINE v == Append(s, n)
           m == Len(s)
<1>1. m \in Nat /\ DOMAIN s = 1..m /\ \A i \in 1..m : s[i] \in Nat OBVIOUS
<1>2. v \in Seq(Nat) /\ Len(v) = m + 1 /\ v[m + 1] = n /\ \A i \in 1..m : v[i] = s[i] BY AppendProperties
<1>3. DOMAIN v = 1..(m + 1) /\ \A i \in 1..(m + 1) : i \in 1..m \/ i = m + 1 BY <1>1, <1>2
<1> HIDE DEF v, m
<1>4. {v[i] : i \in DOMAIN v} = S \cup {n}
 <2>1. m + 1 \in 1..(m + 1) /\ \A i \in 1..m : i \in 1..(m + 1) BY <1>1
 <2>2. {s[i] : i \in DOMAIN s} = S BY DEF Lists
 <2>3. ASSUME NEW x \in S PROVE \E i \in DOMAIN v : v[i] = x BY <1>1, <1>2, <1>3, <2>1, <2>2
 <2>4. ASSUME NEW i \in DOMAIN v PROVE v[i] \in S \cup {n} BY <1>1, <1>2, <1>3, <2>2
 <2> QED BY <1>2, <1>3, <2>1, <2>3, <2>4
<1>5. ASSUME NEW i \in DOMAIN v, NEW j \in DOMAIN v, i < j PROVE v[i] < v[j]
 <2>1. CASE j \in 1..m
  <3>1. i \in 1..m BY <1>1, <1>3, <1>5, <2>1
  <3> QED BY <1>1, <1>2, <1>5, <2>1, <3>1 DEF Lists
 <2>2. CASE j = m + 1
  <3>1. i \in 1..m BY <1>1, <1>3, <1>5, <2>2
  <3>2. s[i] \in S BY <1>1, <3>1 DEF Lists
  <3> QED BY <1>2, <2>2, <3>1, <3>2
 <2> QED BY <1>3, <2>1, <2>2
<1>6. v \in Seq(Nat) /\ Lists(v, S \cup {n}) BY <1>2, <1>4, <1>5 DEF Lists
<1> QED BY <1>6 DEF v

\* A function on an initial segment of the numbers is a sequence.
LEMMA FunctionSeq ==
  ASSUME NEW S, NEW m \in Nat, NEW f \in [1..m -> S]
  PROVE  f \in Seq(S) /\ Len(f) = m
OBVIOUS

\* What a step that changes neither rows nor table nor handles leaves as it is.
LEMMA TableKept ==
  ASSUME UNCHANGED <<jrCfg, jrRow, jrRt, jrHandle>>
  PROVE  TableInv' <=> TableInv
BY ONLY UNCHANGED <<jrCfg, jrRow, jrRt, jrHandle>> DEF TableInv, RowsBefore, GroupOf

\* A row that goes to its group.
LEMMA TableRow ==
  ASSUME RuntimeInv, AggUpdateRow, RuntimeClean, RuntimeClean'
  PROVE  TableInv'
<1> DEFINE g == GroupOf(jrRow)
           new == g \notin DOMAIN jrHandle
           table == jrRt.table
           h == IF new THEN Len(table) + 1 ELSE jrHandle[g]
           s == IF new THEN <<>> ELSE table[h]
           next == Append(s, jrRow)
           D == DOMAIN jrHandle
           m == Len(table)
           was(k) == {r \in RowsBefore : GroupOf(r) = k}
<1>1. TableInv /\ jrRow \in Nat \ {0} /\ jrCfg' = jrCfg /\ jrRow' = jrRow + 1 BY DEF RuntimeInv, AggUpdateRow
<1>2. ~jrInt /\ jrCfg.throws = {} BY DEF AggUpdateRow, RuntimeClean
<1>3. table \in Seq(Seq(Nat)) /\ m \in Nat /\ jrRt = [id |-> jrRt.id, table |-> table] /\ jrRt.id \in Nat
 <2>1. table \in Seq(Seq(Nat)) /\ jrRt = [id |-> jrRt.id, table |-> table] /\ jrRt.id \in Nat BY <1>1 DEF TableInv
 <2> HIDE DEF table
 <2> QED BY <2>1
<1>4. /\ D = {GroupOf(r) : r \in RowsBefore} /\ \A k \in D : jrHandle[k] \in 1..m /\ Lists(table[jrHandle[k]], was(k))
      /\ \A k, l \in D : jrHandle[k] = jrHandle[l] => k = l BY <1>1 DEF TableInv
<1>5. (new => h = m + 1) /\ (~new => h = jrHandle[g] /\ h \in 1..m) BY <1>4
<1>6. s \in Seq(Nat) /\ Lists(s, was(g))
 <2>1. CASE new
  <3>1. was(g) = {} BY <1>4, <2>1
  <3>2. Lists(<<>>, {}) BY DEF Lists
  <3> HIDE DEF was
  <3>3. s = <<>> BY <2>1
  <3> HIDE DEF s
  <3> QED BY <3>1, <3>2, <3>3
 <2>2. CASE ~new
  <3>1. s = table[h] /\ h = jrHandle[g] /\ h \in 1..m BY <1>5, <2>2
  <3> HIDE DEF s, h, table
  <3>2. table[h] \in Seq(Nat) BY <1>3, <3>1
  <3> QED BY <1>4, <2>2, <3>1, <3>2
 <2> QED BY <2>1, <2>2
<1>7. \A x \in was(g) : x < jrRow BY <1>1 DEF RowsBefore
<1> HIDE DEF was
<1>8. next \in Seq(Nat) /\ Lists(next, was(g) \cup {jrRow})
 <2> HIDE DEF s
 <2> QED BY <1>1, <1>6, <1>7, ListsAppend
<1>9. StepResult(s, jrRow) = next
 <2>1. s # Undefined
  <3>1. Undefined[1] = -1 /\ Len(Undefined) = 1 BY DEF Undefined
  <3> HIDE DEF s
  <3>2. ASSUME s = Undefined PROVE FALSE
   <4>1. s[1] \in Nat BY <1>6, <3>1, <3>2
   <4> QED BY <3>1, <3>2, <4>1
  <3> QED BY <3>2
 <2> HIDE DEF s
 <2> QED BY <1>2, <2>1 DEF StepResult
<1>10. /\ jrHandle' = [x \in D \cup {g} |-> IF x = g THEN h ELSE jrHandle[x]]
       /\ jrRt' = [jrRt EXCEPT !.table = IF new /\ h > m THEN Append(table, next)
                                         ELSE IF h <= m THEN [table EXCEPT ![h] = next] ELSE table]
 <2>1. ~new => Decode(jrHandle[g]) = table[jrHandle[g]] BY <1>3, <1>5 DEF Decode
 <2>2. (IF new THEN <<>> ELSE Decode(jrHandle[g])) = s BY <2>1
 <2>3. h = IF new THEN Alloc(table) ELSE jrHandle[g] BY DEF Alloc
 <2>4. (IF new THEN <<>> ELSE Decode(h)) = s BY <2>2
 <2>5. /\ jrHandle' = [x \in D \cup {g} |-> IF x = g THEN (IF new THEN Alloc(table) ELSE jrHandle[g]) ELSE jrHandle[x]]
       /\ jrRt' = [jrRt EXCEPT !.table =
                     IF new /\ (IF new THEN Alloc(table) ELSE jrHandle[g]) > Len(@)
                     THEN Append(@, StepResult(IF new THEN <<>> ELSE Decode(IF new THEN Alloc(table) ELSE jrHandle[g]), jrRow))
                     ELSE IF (IF new THEN Alloc(table) ELSE jrHandle[g]) <= Len(@)
                          THEN [@ EXCEPT ![IF new THEN Alloc(table) ELSE jrHandle[g]] =
                                  StepResult(IF new THEN <<>> ELSE Decode(IF new THEN Alloc(table) ELSE jrHandle[g]), jrRow)]
                          ELSE @] BY DEF AggUpdateRow
 <2>6. /\ jrHandle' = [x \in D \cup {g} |-> IF x = g THEN h ELSE jrHandle[x]]
       /\ jrRt' = [jrRt EXCEPT !.table =
                     IF new /\ h > Len(table) THEN Append(table, StepResult(s, jrRow))
                     ELSE IF h <= Len(table) THEN [table EXCEPT ![h] = StepResult(s, jrRow)] ELSE table]
   BY <2>3, <2>4, <2>5, Zenon
 <2> QED BY <1>9, <2>6, Zenon
<1> DEFINE tab == IF new THEN Append(table, next) ELSE [table EXCEPT ![h] = next]
<1>11. jrRt' = [id |-> jrRt.id, table |-> tab]
 <2>1. CASE new
  <3>1. h > m BY <1>3, <1>5, <2>1
  <3>2. jrRt' = [jrRt EXCEPT !.table = Append(table, next)] BY <1>10, <2>1, <3>1
  <3>3. tab = Append(table, next) BY <2>1
  <3> HIDE DEF tab, next
  <3> QED BY <1>3, <3>2, <3>3
 <2>2. CASE ~new
  <3>1. h <= m BY <1>3, <1>5, <2>2
  <3>2. jrRt' = [jrRt EXCEPT !.table = [table EXCEPT ![h] = next]] BY <1>10, <2>2, <3>1
  <3>3. tab = [table EXCEPT ![h] = next] BY <2>2
  <3> HIDE DEF tab, next
  <3> QED BY <1>3, <3>2, <3>3
 <2> QED BY <2>1, <2>2
<1>12. DOMAIN jrHandle' = D \cup {g} /\ jrHandle'[g] = h /\ \A k \in D : k # g => jrHandle'[k] = jrHandle[k] BY <1>10
<1>13. /\ tab \in Seq(Seq(Nat)) /\ h \in 1..Len(tab) /\ tab[h] = next /\ Len(tab) \in Nat /\ Len(tab) >= m
       /\ \A i \in 1..m : i # h => tab[i] = table[i]
 <2> HIDE DEF next, table, m
 <2>0. table \in Seq(Seq(Nat)) /\ m = Len(table) /\ next \in Seq(Nat) /\ m \in Nat BY <1>3, <1>8 DEF m
 <2>1. CASE new
  <3>1. tab = Append(table, next) /\ h = m + 1 BY <1>5, <2>1
  <3> HIDE DEF tab, h
  <3>2. /\ Append(table, next) \in Seq(Seq(Nat)) /\ Len(Append(table, next)) = m + 1
        /\ Append(table, next)[m + 1] = next /\ \A i \in 1..m : Append(table, next)[i] = table[i]
    BY <2>0, AppendProperties
  <3> QED BY <2>0, <3>1, <3>2
 <2>2. CASE ~new
  <3>1. tab = [table EXCEPT ![h] = next] /\ h \in 1..m BY <1>5, <2>2
  <3> HIDE DEF tab, h
  <3>2. table \in [1..m -> Seq(Nat)] BY <2>0
  <3>3. tab \in [1..m -> Seq(Nat)] /\ tab[h] = next /\ \A i \in 1..m : i # h => tab[i] = table[i] BY <2>0, <3>1, <3>2
  <3>4. tab \in Seq(Seq(Nat)) /\ Len(tab) = m BY <2>0, <3>3, FunctionSeq
  <3> QED BY <2>0, <3>1, <3>3, <3>4
 <2> QED BY <2>1, <2>2
<1>14. RowsBefore' = RowsBefore \cup {jrRow} /\ jrRow \notin RowsBefore /\ \A r : GroupOf(r)' = GroupOf(r)
  BY <1>1 DEF RowsBefore, GroupOf
<1>15. ASSUME NEW k PROVE {r \in RowsBefore' : GroupOf(r) = k} = IF k = g THEN was(g) \cup {jrRow} ELSE was(k)
  BY <1>14 DEF was
<1>16. D \cup {g} = {GroupOf(r) : r \in RowsBefore'} BY <1>4, <1>14
<1> HIDE DEF tab, next, h, g, m, D, table, s, new
<1>17. jrRt'.table = tab /\ jrRt' \in [id : Nat, table : Seq(Seq(Nat))] BY <1>3, <1>11, <1>13
<1>18. \A k \in D : k # g => jrHandle[k] # h BY <1>3, <1>4, <1>5 DEF new, D
<1>19. ASSUME NEW k \in D \cup {g}
       PROVE  jrHandle'[k] \in 1..Len(tab) /\ Lists(tab[jrHandle'[k]], {r \in RowsBefore' : GroupOf(r) = k})
 <2>1. CASE k = g BY <1>8, <1>12, <1>13, <1>15, <2>1
 <2>2. CASE k # g
  <3>1. k \in D /\ jrHandle'[k] = jrHandle[k] /\ jrHandle[k] \in 1..m /\ jrHandle[k] # h BY <1>4, <1>12, <1>18, <2>2
  <3>2. tab[jrHandle'[k]] = table[jrHandle[k]] /\ jrHandle'[k] \in 1..Len(tab) BY <1>3, <1>13, <3>1
  <3> QED BY <1>4, <1>15, <2>2, <3>1, <3>2
 <2> QED BY <2>1, <2>2
<1>20. ASSUME NEW k \in D \cup {g}, NEW l \in D \cup {g}, jrHandle'[k] = jrHandle'[l] PROVE k = l
  BY <1>4, <1>12, <1>18, <1>20
<1>21. DOMAIN jrHandle' = {GroupOf(r)' : r \in RowsBefore'} BY <1>12, <1>14, <1>16
<1>22. \A k : {r \in RowsBefore' : GroupOf(r)' = k} = {r \in RowsBefore' : GroupOf(r) = k} BY <1>14
<1>23. ASSUME NEW k \in DOMAIN jrHandle'
       PROVE  /\ jrHandle'[k] \in 1..Len(jrRt'.table)
              /\ Lists(jrRt'.table[jrHandle'[k]], {r \in RowsBefore' : GroupOf(r)' = k}) BY <1>12, <1>17, <1>19, <1>22
<1> QED BY <1>12, <1>17, <1>20, <1>21, <1>23 DEF TableInv

\* The invariant of the runtime holds for every set of configurations.
LEMMA RuntimeInvariance ==
  ASSUME NEW Cfgs, \A c \in Cfgs : JsConfigOK(c)
  PROVE  JsRuntimeSpec(Cfgs) => []RuntimeInv
<1>1. JsRuntimeInit(Cfgs) => RuntimeInv
 <2> SUFFICES ASSUME JsRuntimeInit(Cfgs) PROVE RuntimeInv OBVIOUS
 <2>1. RowsBefore = {} /\ DOMAIN jrHandle = {} /\ jrRt \in [id : Nat, table : Seq(Seq(Nat))]
   BY DEF JsRuntimeInit, RowsBefore
 <2>2. TableInv BY <2>1 DEF TableInv
 <2>3. JsConfigOK(jrCfg) BY DEF JsRuntimeInit
 <2>4. jrRow = 1 /\ jrPc = "udf" BY DEF JsRuntimeInit
 <2>5. jrErr \in BOOLEAN /\ jrHit \in BOOLEAN BY Zenon DEF JsRuntimeInit
 <2>6. jrPc \notin {"running", "drop", "clear", "agg", "result", "done"} BY <2>4
 <2>7. RuntimeClean /\ jrPc = "done" => FALSE BY <2>6
 <2> QED BY <2>2, <2>3, <2>4, <2>5, <2>6, <2>7 DEF RuntimeInv
<1>2. RuntimeInv /\ [JsRuntimeNext]_jsRuntimeVars => RuntimeInv'
 <2> SUFFICES ASSUME RuntimeInv, [JsRuntimeNext]_jsRuntimeVars PROVE RuntimeInv' OBVIOUS
 <2>1. CASE UNCHANGED jsRuntimeVars BY <2>1, TableKept DEF jsRuntimeVars, RuntimeInv, RuntimeClean
 <2>2. CASE UdfBegin BY <2>2, TableKept DEF UdfBegin, RuntimeInv, RuntimeClean
 <2>3. CASE TimerFires BY <2>3, TableKept DEF TimerFires, RuntimeInv, RuntimeClean
 <2>4. CASE TimerInterrupts BY <2>4, TableKept DEF TimerInterrupts, RuntimeInv, RuntimeClean
 <2>5. CASE UdfEnd BY <2>5, TableKept DEF UdfEnd, RuntimeInv, RuntimeClean
 <2>6. CASE UdfClear
  <3>1. jrPc \in {"drop", "clear"} /\ jrPc' = "agg" /\ UNCHANGED <<jrCfg, jrRow, jrHandle, jrErr, jrHit, jrOut>>
    BY <2>6 DEF UdfClear
  <3>2. RuntimeClean' => TableInv'
   <4>1. SUFFICES ASSUME RuntimeClean' PROVE TableInv' OBVIOUS
   <4>2. RuntimeClean BY <3>1, <4>1 DEF RuntimeClean
   <4>3. jrRt' = jrRt BY <2>6, <3>1, <4>2 DEF UdfClear, RuntimeClean, RuntimeInv
   <4> QED BY <3>1, <4>2, <4>3, TableKept DEF RuntimeInv
  <3> QED BY <3>1, <3>2 DEF RuntimeInv
 <2>7. CASE AggUpdateRow
  <3>1. /\ jrPc = "agg" /\ jrCfg' = jrCfg /\ jrErr' = jrErr /\ jrHit' = (jrHit \/ jrInt) /\ jrRow' = jrRow + 1
        /\ jrPc' = IF jrRow = Len(jrCfg.groups) THEN "result" ELSE "udf" BY <2>7 DEF AggUpdateRow
  <3>2. RuntimeClean' => RuntimeClean BY <3>1 DEF RuntimeClean
  <3>3. RuntimeClean' => TableInv' BY <2>7, <3>2, TableRow
  <3> QED BY <3>1, <3>3 DEF RuntimeInv, JsConfigOK
 <2>8. CASE AggResultAll
  <3>1. /\ jrPc = "result" /\ jrPc' = "done" /\ UNCHANGED <<jrCfg, jrRow, jrRt, jrHandle, jrErr, jrHit>>
        /\ jrOut' = [g \in DOMAIN jrHandle |-> Decode(jrHandle[g])] BY <2>8 DEF AggResultAll
  <3>2. RuntimeClean => TableInv BY DEF RuntimeInv
  <3>3. RuntimeClean => \A g \in DOMAIN jrHandle : Decode(jrHandle[g]) = jrRt.table[jrHandle[g]]
   <4>1. SUFFICES ASSUME RuntimeClean, NEW g \in DOMAIN jrHandle PROVE Decode(jrHandle[g]) = jrRt.table[jrHandle[g]]
     OBVIOUS
   <4>2. jrHandle[g] \in 1..Len(jrRt.table) BY <3>2, <4>1 DEF TableInv
   <4> QED BY <4>2 DEF Decode
  <3>4. RuntimeClean => jrOut' = [g \in DOMAIN jrHandle |-> jrRt.table[jrHandle[g]]] BY <3>1, <3>3
  <3>5. RuntimeClean' = RuntimeClean BY <3>1 DEF RuntimeClean
  <3>6. TableInv' <=> TableInv BY <3>1, TableKept
  <3> QED BY <3>1, <3>2, <3>4, <3>5, <3>6 DEF RuntimeInv
 <2> QED BY <2>1, <2>2, <2>3, <2>4, <2>5, <2>6, <2>7, <2>8 DEF JsRuntimeNext
<1> QED BY <1>1, <1>2, PTL DEF JsRuntimeSpec

\* What the invariant of the runtime says about the results.
LEMMA RuntimeGroups ==
  ASSUME RuntimeInv
  PROVE  GroupStateOwn
<1>1. SUFFICES ASSUME jrPc = "done", RuntimeClean
               PROVE  /\ DOMAIN jrOut = {GroupOf(r) : r \in DOMAIN jrCfg.groups}
                      /\ \A g \in DOMAIN jrOut : Lists(jrOut[g], {r \in DOMAIN jrCfg.groups : GroupOf(r) = g})
  BY DEF GroupStateOwn, RuntimeClean
<1>2. RowsBefore = DOMAIN jrCfg.groups BY <1>1 DEF RuntimeInv, RowsBefore, JsConfigOK
<1>3. TableInv /\ jrOut = [g \in DOMAIN jrHandle |-> jrRt.table[jrHandle[g]]] BY <1>1 DEF RuntimeInv
<1> QED BY <1>2, <1>3 DEF TableInv

\* A script's goroutine, its file, its errors and its state per group stay its
\* own, whenever the scan is closed and whenever the timers of its calls fire:
\* for streams of any length and requests of any number of rows and groups.
THEOREM Contained ==
  ASSUME NEW Cfgs, \A c \in Cfgs : JsConfigOK(c)
  PROVE  ExtractStreamSpec /\ JsRuntimeSpec(Cfgs) => []ScriptsContained
<1>1. JsRuntimeSpec(Cfgs) => []RuntimeInv BY RuntimeInvariance
<1>2. StreamInv => NoReadAfterClose /\ CleanEndIsComplete /\ InterruptIsNoError BY DEF StreamInv, NoReadAfterClose
<1>3. RuntimeInv => GroupStateOwn BY RuntimeGroups
<1>4. StreamInv /\ RuntimeInv => ScriptsContained BY <1>2, <1>3 DEF ScriptsContained
<1> QED BY <1>1, <1>4, StreamInvariance, PTL

-----------------------------------------------------------------------------
(* The extract cache (TemporalRewrite).                                    *)

Entry == [fp : Nat, producer : Nat, spec : Nat]

\* What was said under a fingerprint was read from the file at that time or
\* later, and by now has been read.
SaidOf(e) == e.fp <= e.spec /\ e.spec <= xcFile

XcTypes ==
  /\ xcFile \in Nat \ {0} /\ xcEntry \in Entry
  /\ xcPc \in [Describers -> {"idle", "read", "describe", "write", "done"}]
  /\ xcProducer \in [Describers -> Nat] /\ xcStat \in [Describers -> Nat]
  /\ xcTemp \in [Describers -> Entry]
  /\ xcGot \in [Describers -> [how : {"none", "cached", "fresh", "error"}, spec : Nat, producer : Nat]]

XcInv ==
  /\ XcTypes
  /\ SaidOf(xcEntry) /\ \A p \in Describers : SaidOf(xcTemp[p])
  /\ \A p \in Describers : xcStat[p] <= xcFile /\ (xcPc[p] \in {"idle", "read"} => xcGot[p].how = "none")
  /\ CachedIsCurrent

LEMMA XcStep ==
  ASSUME XcInv, [XcNext]_xcVars
  PROVE  XcInv'
<1> USE DEF XcInv, XcTypes, Entry, SaidOf, CachedIsCurrent
<1>1. CASE FileChanges BY <1>1 DEF FileChanges
<1>2. CASE FileBreaks BY <1>2 DEF FileBreaks
<1>3. ASSUME NEW p \in Describers, DescribeStat(p) PROVE XcInv' BY <1>3 DEF DescribeStat
<1>4. ASSUME NEW p \in Describers, ReadExtractCache(p) PROVE XcInv'
 <2>1. CASE Fresh(xcEntry, xcStat[p], xcProducer[p])
  <3> DEFINE g == [how |-> "cached", spec |-> xcEntry.spec, producer |-> xcEntry.producer]
  <3>1. g \in [how : {"none", "cached", "fresh", "error"}, spec : Nat, producer : Nat] OBVIOUS
  <3>2. g.how = "cached" /\ g.spec >= xcStat[p] /\ g.producer = xcProducer[p] BY <2>1 DEF Fresh
  <3>3. xcGot' = [xcGot EXCEPT ![p] = g] /\ xcPc' = [xcPc EXCEPT ![p] = "done"]
        /\ UNCHANGED <<xcFile, xcEntry, xcProducer, xcStat, xcTemp>> BY <1>4, <2>1 DEF ReadExtractCache
  <3> HIDE DEF g
  <3> QED BY <3>1, <3>2, <3>3
 <2>2. CASE ~Fresh(xcEntry, xcStat[p], xcProducer[p]) BY <1>4, <2>2 DEF ReadExtractCache
 <2> QED BY <2>1, <2>2
<1>5. ASSUME NEW p \in Describers, Describe(p) PROVE XcInv'
 <2>1. CASE xcGone
  <3> DEFINE g == [how |-> "error", spec |-> 0, producer |-> xcProducer[p]]
  <3>1. g \in [how : {"none", "cached", "fresh", "error"}, spec : Nat, producer : Nat] /\ g.how = "error" OBVIOUS
  <3>2. /\ xcGot' = [xcGot EXCEPT ![p] = g] /\ xcPc' = [xcPc EXCEPT ![p] = "done"]
        /\ UNCHANGED <<xcFile, xcEntry, xcProducer, xcStat, xcTemp>> BY <1>5, <2>1 DEF Describe
  <3> HIDE DEF g
  <3> QED BY <3>1, <3>2
 <2>2. CASE ~xcGone
  <3> DEFINE g == [how |-> "fresh", spec |-> xcFile, producer |-> xcProducer[p]]
  <3>1. g \in [how : {"none", "cached", "fresh", "error"}, spec : Nat, producer : Nat] /\ g.how = "fresh" OBVIOUS
  <3>2. EntryFor(p) \in Entry /\ SaidOf(EntryFor(p)) BY DEF EntryFor
  <3>3. /\ xcTemp' = [xcTemp EXCEPT ![p] = EntryFor(p)] /\ xcPc' = [xcPc EXCEPT ![p] = "write"]
        /\ xcGot' = [xcGot EXCEPT ![p] = g] /\ UNCHANGED <<xcFile, xcEntry, xcProducer, xcStat>>
    BY <1>5, <2>2 DEF Describe
  <3> HIDE DEF g
  <3> QED BY <3>1, <3>2, <3>3
 <2> QED BY <2>1, <2>2
<1>6. ASSUME NEW p \in Describers, WriteExtractCache(p) PROVE XcInv' BY <1>6 DEF WriteExtractCache, Publish
<1>7. ASSUME NEW p \in Describers, Restart(p) PROVE XcInv' BY <1>7 DEF Restart, NoSpec
<1>8. CASE UNCHANGED xcVars BY <1>8 DEF xcVars
<1> QED BY <1>1, <1>2, <1>3, <1>4, <1>5, <1>6, <1>7, <1>8 DEF XcNext

\* glue/extract.go, describeMemoized: whatever processes of whatever versions read
\* and replace the sidecar's entry, die, and however the file changes under
\* them: what a query takes from the cache is what its own engine said of the
\* file as the query found it or later, and an entry under the file's present
\* fingerprint describes its present content.
THEOREM ExtractsAreCurrent ==
  ASSUME NEW on
  PROVE  XcSpec(on) => []ExtractCacheTrue
<1>1. XcInit(on) => XcInv
 <2> SUFFICES ASSUME XcInit(on) PROVE XcInv OBVIOUS
 <2>1. xcProducer \in [Describers -> Nat]
  <3>1. CASE on BY <3>1 DEF XcInit
  <3>2. CASE ~on BY <3>2 DEF XcInit
  <3> QED BY <3>1, <3>2
 <2> QED BY <2>1 DEF XcInit, XcInv, XcTypes, Entry, SaidOf, CachedIsCurrent, NoEntry, NoSpec
<1>2. XcInv /\ [XcNext]_xcVars => XcInv' BY XcStep
<1>3. XcInv => ExtractCacheTrue BY DEF XcInv, XcTypes, Entry, SaidOf, ExtractCacheTrue, EntryIsTrue
<1> QED BY <1>1, <1>2, <1>3, PTL DEF XcSpec

-----------------------------------------------------------------------------
(* The cursor of a stage: one ordered, pulled stream.                      *)

\* No row is accepted that the child did not yield.
TypeInv == TypeOK /\ accepted <= yielded

\* Typing is inductive once it is known that accepted follows yielded.
LEMMA TypeInvariance == Spec => []TypeInv
<1>1. Init => TypeInv
 <2>1. <<>> \in Seq(Rows) /\ <<>> \in Seq(Seq(Rows)) BY EmptySeq
 <2>2. 0 \in 0..NRows /\ 0 <= 0 BY CursorAssumption
 <2> QED BY <2>1, <2>2, Zenon DEF Init, NewStageCursor, TypeInv, TypeOK
<1>2. TypeInv /\ [Next]_vars => TypeInv'
 <2> SUFFICES ASSUME TypeInv, [Next]_vars PROVE TypeInv' OBVIOUS
 <2> USE CursorAssumption DEF TypeInv, TypeOK, AfterFlush
 <2>1. CASE UNCHANGED vars BY <2>1 DEF vars, actorVars, coordVars
 <2>2. CASE YieldVals
  <3>1. yielded + 1 \in Rows BY <2>2 DEF YieldVals, Rows
  <3>2. Append(batch, yielded + 1) \in Seq(Rows) BY <3>1, AppendProperties
  <3>3. accepted + 1 \in 0..NRows BY <2>2 DEF YieldVals
  <3> QED BY <2>2, <3>1, <3>2, <3>3 DEF YieldVals, coordVars, Rows
 <2>3. CASE YieldValsDropped BY <2>3 DEF YieldValsDropped, coordVars
 <2>4. CASE YieldErr BY <2>4 DEF YieldErr, coordVars
 <2>5. CASE ActorReturn BY <2>5 DEF ActorReturn, coordVars
 <2>6. CASE FlushSend BY <2>6, AppendProperties DEF FlushSend, FreshBatch, coordVars
 <2>7. CASE FlushDone BY <2>7 DEF FlushDone, coordVars
 <2>8. CASE CloseCh BY <2>8 DEF CloseCh, coordVars
 <2>9. CASE CloseFinished BY <2>9 DEF CloseFinished, coordVars
 <2>10. CASE NextBatch BY <2>10 DEF NextBatch, actorVars
 <2>11. CASE NextBatchReturns
  <3>1. CASE ch # <<>>
   <4>1. Head(ch) \in Seq(Rows) /\ Tail(ch) \in Seq(Seq(Rows)) BY <3>1, HeadTailProperties
   <4>2. got \o Head(ch) \in Seq(Rows) BY <4>1, ConcatProperties
   <4> QED BY <2>11, <3>1, <4>1, <4>2 DEF NextBatchReturns, actorVars
  <3>2. CASE ch = <<>> BY <2>11, <3>2 DEF NextBatchReturns, actorVars
  <3> QED BY <3>1, <3>2
 <2>12. CASE Stop BY <2>12 DEF Stop, actorVars
 <2>13. CASE Wait BY <2>13 DEF Wait, actorVars
 <2> QED BY <2>1, <2>2, <2>3, <2>4, <2>5, <2>6, <2>7, <2>8, <2>9, <2>10, <2>11,
      <2>12, <2>13 DEF Next, ActorStep, CoordStep
<1> QED BY <1>1, <1>2, PTL DEF Spec

\* The cursor's variables keep their types, whatever the two goroutines do.
THEOREM Typing == Spec => []TypeOK BY TypeInvariance, PTL DEF TypeInv

-----------------------------------------------------------------------------
\* What the control state of the two goroutines says about the flags and
\* the actor's batch.
ControlInv ==
  /\ chClosed <=> apc \in {"closeFinished", "exited"}
  /\ finished <=> apc = "exited"
  /\ done <=> cpc \in {"wait", "joined"}
  /\ cpc = "recv" => ~ended
  /\ err => stop
  /\ ~stop => yielded = accepted
  /\ apc \in {"flush", "final"} => batch # <<>>
  /\ apc \in {"closeCh", "closeFinished", "exited"} => batch = <<>> \/ done
  /\ Len(batch) <= BatchSize
  /\ apc = "run" /\ ~stop => Len(batch) < BatchSize

\* s holds the rows after the first n, one after the other.
RunFrom(s, n) == \A i \in 1..Len(s) : s[i] = n + i

\* How many rows went before the batch b.
Before(b) == b[1] - 1

\* The rows that left the actor but not its coordinator are the batches of
\* the channel and the actor's own, each of them a run that starts where the
\* one before it ends; got is the run before the first.
ChainInv ==
  /\ RunFrom(got, 0)
  /\ Len(batch) <= accepted /\ RunFrom(batch, accepted - Len(batch))
  /\ \A k \in 1..Len(ch) :
       /\ Len(ch[k]) \in 1..BatchSize
       /\ RunFrom(ch[k], Before(ch[k]))
       /\ Before(ch[k]) + Len(ch[k]) <= accepted - Len(batch)
  /\ \A k \in 1..Len(ch) - 1 : Before(ch[k + 1]) = Before(ch[k]) + Len(ch[k])
  /\ IF ch = <<>>
     THEN Len(got) = accepted - Len(batch)
     ELSE /\ Len(got) = Before(ch[1])
          /\ Before(ch[Len(ch)]) + Len(ch[Len(ch)]) = accepted - Len(batch)

\* No more than ChanCap batches are in the channel (one that is handed over
\* to a waiting receiver, if ChanCap = 0), and the k-th of them has few rows
\* behind it.
SizeInv ==
  /\ Len(ch) <= (IF ChanCap = 0 THEN 1 ELSE ChanCap)
  /\ \A k \in 1..Len(ch) :
       accepted - Len(batch) <= Before(ch[k]) + (Len(ch) + 1 - k) * BatchSize

\* Program counters, flags and the actor's batch agree.
LEMMA Control == Spec => []ControlInv
<1>1. Init => ControlInv BY CursorAssumption DEF Init, NewStageCursor, ControlInv
<1>2. TypeInv /\ ControlInv /\ [Next]_vars => ControlInv'
 <2> SUFFICES ASSUME TypeInv, ControlInv, [Next]_vars PROVE ControlInv' OBVIOUS
 <2> USE CursorAssumption DEF TypeInv, TypeOK, ControlInv
 <2>1. CASE UNCHANGED vars BY <2>1 DEF vars, actorVars, coordVars
 <2>2. CASE YieldVals
  <3>1. batch' # <<>> /\ Len(batch') = Len(batch) + 1 /\ Len(batch) \in Nat
    BY <2>2, AppendProperties, LenProperties DEF YieldVals, Rows
  <3> QED BY <2>2, <3>1 DEF YieldVals, coordVars
 <2>3. CASE YieldValsDropped BY <2>3 DEF YieldValsDropped, coordVars
 <2>4. CASE YieldErr BY <2>4 DEF YieldErr, coordVars
 <2>5. CASE ActorReturn BY <2>5 DEF ActorReturn, HasFinalBatch, coordVars
 <2>6. CASE FlushSend BY <2>6 DEF FlushSend, FreshBatch, AfterFlush, coordVars
 <2>7. CASE FlushDone BY <2>7 DEF FlushDone, CanGiveUp, AfterFlush, coordVars
 <2>8. CASE CloseCh BY <2>8 DEF CloseCh, coordVars
 <2>9. CASE CloseFinished BY <2>9 DEF CloseFinished, coordVars
 <2>10. CASE NextBatch BY <2>10 DEF NextBatch, actorVars
 <2>11. CASE NextBatchReturns BY <2>11 DEF NextBatchReturns, actorVars
 <2>12. CASE Stop BY <2>12 DEF Stop, actorVars
 <2>13. CASE Wait BY <2>13 DEF Wait, actorVars
 <2> QED BY <2>1, <2>2, <2>3, <2>4, <2>5, <2>6, <2>7, <2>8, <2>9, <2>10, <2>11,
      <2>12, <2>13 DEF Next, ActorStep, CoordStep
<1> QED BY <1>1, <1>2, TypeInvariance, PTL DEF Spec

\* Only three steps move rows.
LEMMA RowSteps ==
  ASSUME [Next]_vars
  PROVE  \/ YieldVals \/ FlushSend
         \/ NextBatchReturns /\ ch # <<>>
         \/ UNCHANGED <<accepted, batch, ch, got>>
  BY DEF Next, ActorStep, CoordStep, YieldValsDropped, YieldErr, ActorReturn,
     FlushDone, CloseCh, CloseFinished, NextBatch, NextBatchReturns, Stop, Wait,
     vars, actorVars, coordVars

\* The rows in flight are consecutive: batches are cut out of the child's rows
\* one after the other, and no batch is empty.
LEMMA Chain == Spec => []ChainInv
<1>1. Init => ChainInv
 <2> SUFFICES ASSUME Init PROVE ChainInv OBVIOUS
 <2>1. got = <<>> /\ batch = <<>> /\ ch = <<>> /\ accepted = 0 BY DEF Init, NewStageCursor
 <2>2. Len(got) = 0 /\ Len(batch) = 0 /\ Len(ch) = 0 /\ accepted = 0 BY <2>1
 <2>3. 1..Len(got) = {} /\ 1..Len(batch) = {} /\ 1..Len(ch) = {} /\ 1..Len(ch) - 1 = {} BY <2>2
 <2>4. Len(batch) <= accepted /\ Len(got) = accepted - Len(batch) BY <2>2
 <2> QED BY <2>1, <2>3, <2>4, Zenon DEF ChainInv, RunFrom
<1>2. TypeInv /\ ControlInv /\ ChainInv /\ [Next]_vars => ChainInv'
 <2> SUFFICES ASSUME TypeInv, ControlInv, ChainInv, [Next]_vars PROVE ChainInv' OBVIOUS
 <2> USE CursorAssumption
 <2>0. /\ accepted \in Nat /\ batch \in Seq(Rows) /\ got \in Seq(Rows)
       /\ ch \in Seq(Seq(Rows)) /\ Rows \subseteq Nat
       /\ Len(batch) \in Nat /\ Len(got) \in Nat /\ Len(ch) \in Nat BY LenProperties DEF TypeInv, TypeOK, Rows
 <2>00. \A k \in 1..Len(ch) : ch[k] \in Seq(Rows) /\ Len(ch[k]) \in Nat \ {0} /\ ch[k][1] \in Nat
  <3> SUFFICES ASSUME NEW k \in 1..Len(ch)
               PROVE  ch[k] \in Seq(Rows) /\ Len(ch[k]) \in Nat \ {0} /\ ch[k][1] \in Nat OBVIOUS
  <3>1. ch[k] \in Seq(Rows) /\ Len(ch[k]) \in 1..BatchSize BY <2>0, ElementOfSeq DEF ChainInv
  <3>2. ch[k][1] \in Rows BY <3>1, ElementOfSeq
  <3>3. Len(ch[k]) \in Nat \ {0} BY <3>1
  <3> QED BY <2>0, <3>1, <3>2, <3>3
 <2>1. CASE YieldVals
  <3>1. yielded = accepted /\ accepted' = accepted + 1 /\ batch' = Append(batch, accepted + 1)
        /\ UNCHANGED <<ch, got>> /\ accepted + 1 \in Rows
    BY <2>1, <2>0 DEF YieldVals, coordVars, ControlInv, Rows, TypeInv, TypeOK
  <3>2. Len(batch') = Len(batch) + 1 /\ batch'[Len(batch) + 1] = accepted + 1
        /\ \A i \in 1..Len(batch) : batch'[i] = batch[i] BY <2>0, <3>1, AppendProperties
  <3>3. RunFrom(batch', accepted' - Len(batch'))
   <4> SUFFICES ASSUME NEW i \in 1..Len(batch')
                PROVE  batch'[i] = accepted' - Len(batch') + i BY DEF RunFrom
   <4>1. CASE i \in 1..Len(batch) BY <4>1, <2>0, <3>1, <3>2 DEF ChainInv, RunFrom
   <4>2. CASE i = Len(batch) + 1 BY <4>2, <2>0, <3>1, <3>2
   <4> QED BY <4>1, <4>2, <2>0, <3>2
  <3>4. accepted' - Len(batch') = accepted - Len(batch) /\ Len(batch') <= accepted' BY <2>0, <3>1, <3>2 DEF ChainInv
  <3> QED BY <3>1, <3>3, <3>4 DEF ChainInv
 <2>2. CASE FlushSend
  <3>1. /\ ch' = Append(ch, batch) /\ batch' = <<>> /\ UNCHANGED <<accepted, got>>
        /\ batch # <<>> /\ Len(batch) \in 1..BatchSize
    BY <2>2, <2>0, EmptySeq DEF FlushSend, FreshBatch, coordVars, ControlInv
  <3>2. /\ Len(ch') = Len(ch) + 1 /\ ch'[Len(ch) + 1] = batch /\ ch' # <<>>
        /\ \A k \in 1..Len(ch) : ch'[k] = ch[k]
   <4>1. ch \in Seq(Seq(Rows)) /\ batch \in Seq(Rows) BY <2>0
   <4>2. /\ Len(Append(ch, batch)) = Len(ch) + 1
         /\ Append(ch, batch)[Len(ch) + 1] = batch /\ Append(ch, batch) # <<>>
         /\ \A k \in 1..Len(ch) : Append(ch, batch)[k] = ch[k] BY <4>1, AppendProperties
   <4> QED BY <3>1, <4>2
  <3>3. batch[1] = accepted - Len(batch) + 1 /\ Len(batch') = 0 BY <2>0, <3>1 DEF ChainInv, RunFrom
  <3>4. Before(ch'[Len(ch) + 1]) = accepted - Len(batch) BY <2>0, <3>1, <3>2, <3>3 DEF Before
  <3>5. \A k \in 1..Len(ch) : Before(ch'[k]) = Before(ch[k]) BY <2>0, <3>2 DEF Before
  <3>6. \A k \in 1..Len(ch') : /\ Len(ch'[k]) \in 1..BatchSize
                               /\ RunFrom(ch'[k], Before(ch'[k]))
                               /\ Before(ch'[k]) + Len(ch'[k]) <= accepted
   <4> SUFFICES ASSUME NEW k \in 1..Len(ch')
                PROVE  /\ Len(ch'[k]) \in 1..BatchSize
                       /\ RunFrom(ch'[k], Before(ch'[k]))
                       /\ Before(ch'[k]) + Len(ch'[k]) <= accepted OBVIOUS
   <4>1. CASE k \in 1..Len(ch)
    <5>1. ch'[k] = ch[k] /\ Before(ch'[k]) = Before(ch[k]) BY <4>1, <3>2, <3>5
    <5>2. Before(ch[k]) \in Int /\ Len(ch[k]) \in Int /\ Len(batch) \in Nat /\ accepted \in Int
      BY <4>1, <2>0, <2>00 DEF Before
    <5>3. /\ Len(ch[k]) \in 1..BatchSize /\ RunFrom(ch[k], Before(ch[k]))
          /\ Before(ch[k]) + Len(ch[k]) <= accepted - Len(batch) BY <4>1 DEF ChainInv
    <5>4. Before(ch[k]) + Len(ch[k]) <= accepted BY ONLY <5>2, <5>3
    <5> QED BY ONLY <5>1, <5>3, <5>4
   <4>2. CASE k = Len(ch) + 1 BY <4>2, <3>1, <3>2, <3>4, <2>0 DEF ChainInv
   <4> QED BY <4>1, <4>2, <3>2, <2>0
  <3>7. \A k \in 1..Len(ch') - 1 : Before(ch'[k + 1]) = Before(ch'[k]) + Len(ch'[k])
   <4> SUFFICES ASSUME NEW k \in 1..Len(ch)
                PROVE  Before(ch'[k + 1]) = Before(ch'[k]) + Len(ch'[k]) BY <2>0, <3>2
   <4>1. CASE k = Len(ch) BY <4>1, <3>2, <3>4, <3>5, <2>0, EmptySeq DEF ChainInv
   <4>2. CASE k < Len(ch)
    <5>1. k \in 1..Len(ch) - 1 /\ k + 1 \in 1..Len(ch) BY <4>2, <2>0
    <5> QED BY <5>1, <3>2, <3>5 DEF ChainInv
   <4> QED BY <4>1, <4>2, <2>0
  <3>8. Len(got') = Before(ch'[1])
   <4>1. CASE ch = <<>> BY <4>1, <3>1, <3>4, <2>0, EmptySeq DEF ChainInv
   <4>2. CASE ch # <<>>
    <5>1. 1 \in 1..Len(ch) BY <4>2, <2>0, EmptySeq
    <5> QED BY <4>2, <5>1, <3>1, <3>5 DEF ChainInv
   <4> QED BY <4>1, <4>2
  <3>9. Len(batch') <= accepted' /\ RunFrom(batch', accepted' - Len(batch')) BY <3>1, <3>3, <2>0 DEF RunFrom
  <3>10. accepted' - Len(batch') = accepted BY <3>1, <3>3, <2>0
  <3>11. Before(ch'[Len(ch')]) + Len(ch'[Len(ch')]) = accepted BY <3>2, <3>4, <2>0
  <3>12. RunFrom(got', 0) BY <3>1 DEF ChainInv
  <3> QED BY <3>2, <3>6, <3>7, <3>8, <3>9, <3>10, <3>11, <3>12 DEF ChainInv
 <2>3. CASE NextBatchReturns /\ ch # <<>>
  <3>1. /\ got' = got \o ch[1] /\ ch' = Tail(ch) /\ UNCHANGED <<accepted, batch>>
        /\ 1 \in 1..Len(ch) BY <2>3, <2>0, EmptySeq DEF NextBatchReturns, actorVars
  <3>2. /\ Len(ch') = Len(ch) - 1 /\ \A k \in 1..Len(ch') : ch'[k] = ch[k + 1]
        /\ ch' \in Seq(Seq(Rows)) BY <2>3, <2>0, <3>1, HeadTailProperties
  <3>3. \A k \in 1..Len(ch') : Before(ch'[k]) = Before(ch[k + 1]) BY <3>2 DEF Before
  <3>4. /\ Len(got') = Len(got) + Len(ch[1])
        /\ \A i \in 1..Len(got') : got'[i] = IF i <= Len(got) THEN got[i] ELSE ch[1][i - Len(got)]
   <4>1. ch[1] \in Seq(Rows) BY <2>00, <3>1
   <4> QED BY <4>1, <2>0, <3>1, ConcatProperties
  <3>5. RunFrom(got', 0)
   <4> SUFFICES ASSUME NEW i \in 1..Len(got') PROVE got'[i] = i BY DEF RunFrom
   <4>1. CASE i <= Len(got) BY <4>1, <3>1, <3>4, <2>0, <2>00 DEF ChainInv, RunFrom
   <4>2. CASE i > Len(got)
    <5>1. i - Len(got) \in 1..Len(ch[1]) BY <4>2, <3>1, <3>4, <2>0, <2>00
    <5>2. ch[1][i - Len(got)] = Before(ch[1]) + (i - Len(got)) /\ Len(got) = Before(ch[1])
      BY <2>3, <5>1, <3>1 DEF ChainInv, RunFrom
    <5> QED BY <4>2, <5>1, <5>2, <3>4, <2>0
   <4> QED BY <4>1, <4>2, <2>0
  <3>6. \A k \in 1..Len(ch') : k + 1 \in 1..Len(ch)
   <4>1. Len(ch') = Len(ch) - 1 /\ Len(ch) \in Nat BY <3>2, <2>0
   <4> QED BY ONLY <4>1
  <3>7. \A k \in 1..Len(ch') - 1 : k + 1 \in 1..Len(ch) - 1 /\ k \in 1..Len(ch') /\ k + 1 \in 1..Len(ch')
    BY <3>2, <2>0
  <3>8. \A k \in 1..Len(ch') : /\ Len(ch'[k]) \in 1..BatchSize
                               /\ RunFrom(ch'[k], Before(ch'[k]))
                               /\ Before(ch'[k]) + Len(ch'[k]) <= accepted - Len(batch)
    BY <3>2, <3>3, <3>6 DEF ChainInv
  <3>9. \A k \in 1..Len(ch') - 1 : Before(ch'[k + 1]) = Before(ch'[k]) + Len(ch'[k]) BY <3>2, <3>3, <3>7 DEF ChainInv
  <3>10. CASE ch' = <<>>
   <4>1. Len(ch) = 1 BY <3>10, <3>2, <2>0
   <4>2. Len(got') = accepted - Len(batch) BY <4>1, <2>3, <3>4 DEF ChainInv
   <4> QED BY <3>10, <4>2, <3>1, <3>5, <3>8, <3>9 DEF ChainInv
  <3>11. CASE ch' # <<>>
   <4>1. Len(ch) >= 2 /\ Len(ch') \in 1..Len(ch') /\ 1 \in 1..Len(ch') BY <3>11, <3>2, <2>0, EmptySeq
   <4>2. Before(ch'[1]) = Before(ch[2]) /\ Before(ch[2]) = Before(ch[1]) + Len(ch[1])
     BY <4>1, <3>3, <2>0 DEF ChainInv
   <4>3. Before(ch'[Len(ch')]) = Before(ch[Len(ch)]) /\ ch'[Len(ch')] = ch[Len(ch)]
    <5>1. Len(ch') + 1 = Len(ch) BY <3>2, <2>0
    <5>2. ch'[Len(ch')] = ch[Len(ch)] BY <5>1, <4>1, <3>2
    <5> QED BY <5>2 DEF Before
   <4> QED BY <3>11, <4>2, <4>3, <2>3, <3>1, <3>4, <3>5, <3>8, <3>9 DEF ChainInv
  <3> QED BY <3>10, <3>11
 <2>4. CASE UNCHANGED <<accepted, batch, ch, got>> BY <2>4 DEF ChainInv, Before
 <2> QED BY <2>1, <2>2, <2>3, <2>4, RowSteps
<1> QED BY <1>1, <1>2, TypeInvariance, Control, PTL DEF Spec

\* The channel is bounded, and so is what follows each of its batches.
LEMMA Sizes == Spec => []SizeInv
<1>1. Init => SizeInv
 <2> SUFFICES ASSUME Init PROVE SizeInv OBVIOUS
 <2>1. Len(ch) = 0 BY DEF Init, NewStageCursor
 <2>2. 1..Len(ch) = {} /\ Len(ch) <= (IF ChanCap = 0 THEN 1 ELSE ChanCap) BY <2>1, CursorAssumption
 <2> QED BY <2>2, Zenon DEF SizeInv
<1>2. TypeInv /\ ControlInv /\ ChainInv /\ SizeInv /\ [Next]_vars => SizeInv'
 <2> SUFFICES ASSUME TypeInv, ControlInv, ChainInv, SizeInv, [Next]_vars PROVE SizeInv' OBVIOUS
 <2> USE CursorAssumption
 <2>0. /\ accepted \in Nat /\ batch \in Seq(Rows) /\ got \in Seq(Rows)
       /\ ch \in Seq(Seq(Rows)) /\ Rows \subseteq Nat
       /\ Len(batch) \in Nat /\ Len(got) \in Nat /\ Len(ch) \in Nat BY LenProperties DEF TypeInv, TypeOK, Rows
 <2>00. \A k \in 1..Len(ch) : Before(ch[k]) \in Int
  <3> SUFFICES ASSUME NEW k \in 1..Len(ch) PROVE Before(ch[k]) \in Int OBVIOUS
  <3>1. ch[k] \in Seq(Rows) /\ 1 \in 1..Len(ch[k]) BY <2>0, ElementOfSeq DEF ChainInv
  <3>2. ch[k][1] \in Nat BY <2>0, <3>1, ElementOfSeq
  <3> QED BY <3>2 DEF Before
 <2>000. \A n \in Int : (n + 1) * BatchSize = n * BatchSize + BatchSize /\ n * BatchSize \in Int OBVIOUS
 <2>1. CASE YieldVals
  <3>1. accepted' = accepted + 1 /\ ch' = ch /\ Len(batch') = Len(batch) + 1
    BY <2>1, <2>0, AppendProperties DEF YieldVals, TypeInv, TypeOK, Rows
  <3>2. accepted' - Len(batch') = accepted - Len(batch) BY <3>1, <2>0
  <3> QED BY <3>1, <3>2 DEF SizeInv
 <2>2. CASE FlushSend
  <3>1. /\ ch' = Append(ch, batch) /\ batch' = <<>> /\ UNCHANGED accepted
        /\ batch # <<>> /\ Len(batch) \in 1..BatchSize
        /\ Len(ch) < ChanCap \/ ch = <<>>
    BY <2>2, <2>0, EmptySeq DEF FlushSend, FreshBatch, CanSend, coordVars, ControlInv
  <3>2. /\ Len(ch') = Len(ch) + 1 /\ ch'[Len(ch) + 1] = batch
        /\ \A k \in 1..Len(ch) : ch'[k] = ch[k]
   <4>1. ch \in Seq(Seq(Rows)) /\ batch \in Seq(Rows) BY <2>0
   <4>2. /\ Len(Append(ch, batch)) = Len(ch) + 1
         /\ Append(ch, batch)[Len(ch) + 1] = batch
         /\ \A k \in 1..Len(ch) : Append(ch, batch)[k] = ch[k] BY <4>1, AppendProperties
   <4> QED BY <3>1, <4>2
  <3>3. Len(ch') <= (IF ChanCap = 0 THEN 1 ELSE ChanCap)
   <4>1. ch = <<>> => Len(ch) = 0 OBVIOUS
   <4> QED BY <4>1, <3>1, <3>2, <2>0
  <3>4. accepted' - Len(batch') = accepted BY <3>1, <2>0
  <3>5. ASSUME NEW k \in 1..Len(ch')
        PROVE  accepted <= Before(ch'[k]) + (Len(ch') + 1 - k) * BatchSize
   <4>1. CASE k \in 1..Len(ch)
    <5> DEFINE m == Len(ch) + 1 - k
    <5>1. m \in Int /\ Len(ch') + 1 - k = m + 1 /\ ch'[k] = ch[k] /\ Before(ch[k]) \in Int
      BY <4>1, <3>2, <2>0, <2>00
    <5>2. accepted - Len(batch) <= Before(ch[k]) + m * BatchSize BY <4>1 DEF SizeInv
    <5>3. (m + 1) * BatchSize = m * BatchSize + BatchSize /\ m * BatchSize \in Int BY <5>1, <2>000
    <5>4. accepted <= Before(ch[k]) + (m + 1) * BatchSize
     <6> HIDE DEF m
     <6> DEFINE p == m * BatchSize
     <6>1. p \in Int /\ (m + 1) * BatchSize = p + BatchSize /\ accepted - Len(batch) <= Before(ch[k]) + p
       BY <5>2, <5>3
     <6> HIDE DEF p
     <6> QED BY <6>1, <5>1, <3>1, <2>0
    <5> QED BY <5>1, <5>4
   <4>2. CASE k = Len(ch) + 1
    <5>1. batch[1] = accepted - Len(batch) + 1 BY <3>1, <2>0 DEF ChainInv, RunFrom
    <5>2. Before(ch'[k]) = accepted - Len(batch) /\ (Len(ch') + 1 - k) * BatchSize = BatchSize
      BY <5>1, <4>2, <3>2, <2>0 DEF Before
    <5> QED BY <5>2, <3>1, <2>0
   <4> QED BY <4>1, <4>2, <3>2, <2>0
  <3> QED BY <3>3, <3>4, <3>5 DEF SizeInv
 <2>3. CASE NextBatchReturns /\ ch # <<>>
  <3>1. ch' = Tail(ch) /\ UNCHANGED <<accepted, batch>> BY <2>3 DEF NextBatchReturns, actorVars
  <3>2. Len(ch') = Len(ch) - 1 /\ \A k \in 1..Len(ch') : ch'[k] = ch[k + 1] BY <2>3, <2>0, <3>1, HeadTailProperties
  <3>3. ASSUME NEW k \in 1..Len(ch')
        PROVE  accepted - Len(batch) <= Before(ch'[k]) + (Len(ch') + 1 - k) * BatchSize
   <4>1. ch'[k] = ch[k + 1] /\ Len(ch') = Len(ch) - 1 BY <3>2, <3>3
   <4>2. k + 1 \in 1..Len(ch) /\ Len(ch') + 1 - k = Len(ch) + 1 - (k + 1)
    <5>1. Len(ch) \in Nat /\ Len(ch') = Len(ch) - 1 BY <2>0, <4>1
    <5> QED BY <5>1
   <4> QED BY <4>1, <4>2 DEF SizeInv
  <3>4. Len(ch') <= (IF ChanCap = 0 THEN 1 ELSE ChanCap) BY <3>2, <2>0 DEF SizeInv
  <3> QED BY <3>1, <3>3, <3>4 DEF SizeInv
 <2>4. CASE UNCHANGED <<accepted, batch, ch, got>> BY <2>4 DEF SizeInv
 <2> QED BY <2>1, <2>2, <2>3, <2>4, RowSteps
<1> QED BY <1>1, <1>2, TypeInvariance, Control, Chain, PTL DEF Spec

\* For any number of rows, batch size and channel capacity, the coordinator
\* pulls the child's rows in order, and the child is never further ahead of it
\* than the channel and one batch hold.
THEOREM InOrderWithBackPressure == Spec => []PulledInOrder
<1>1. TypeInv /\ ControlInv /\ ChainInv /\ SizeInv => PulledInOrder
 <2> SUFFICES ASSUME TypeInv, ControlInv, ChainInv, SizeInv PROVE InOrder /\ BackPressure BY DEF PulledInOrder
 <2> USE CursorAssumption
 <2>0. /\ accepted \in Nat /\ got \in Seq(Rows) /\ ch \in Seq(Seq(Rows))
       /\ Len(batch) \in 0..BatchSize /\ Len(got) \in Nat /\ Len(ch) \in Nat
   BY LenProperties DEF TypeInv, TypeOK, ControlInv
 <2>1. InOrder
  <3>1. \A i \in 1..Len(got) : got[i] = i BY <2>0 DEF ChainInv, RunFrom
  <3>2. got \in [1..Len(got) -> Rows] BY <2>0, LenProperties
  <3> QED BY <3>1, <3>2 DEF InOrder
 <2>2. BackPressure
  <3> DEFINE cap == IF ChanCap = 0 THEN 1 ELSE ChanCap
             p == Len(ch) * BatchSize
             q == cap * BatchSize
  <3>1. /\ cap \in Nat /\ p \in Nat /\ q \in Nat /\ Len(ch) <= cap BY <2>0 DEF SizeInv
  <3>2. p <= q
   <4> HIDE DEF cap
   <4>1. \A m, n, b \in Nat : m <= n => m * b <= n * b OBVIOUS
   <4> QED BY <4>1, <3>1, <2>0
  <3>3. (IF ChanCap = 0 THEN 2 ELSE ChanCap + 1) * BatchSize = q + BatchSize OBVIOUS
  <3>4. accepted - Len(batch) - Len(got) <= p
   <4>1. CASE ch = <<>> BY <4>1, <3>1, <2>0 DEF ChainInv
   <4>2. CASE ch # <<>>
    <5>1. 1 \in 1..Len(ch) /\ Len(got) = Before(ch[1]) BY <4>2, <2>0, EmptySeq DEF ChainInv
    <5>2. accepted - Len(batch) <= Before(ch[1]) + (Len(ch) + 1 - 1) * BatchSize BY <5>1 DEF SizeInv
    <5>3. accepted - Len(batch) <= Len(got) + p BY <5>1, <5>2, <2>0
    <5> HIDE DEF p
    <5> QED BY <5>3, <3>1, <2>0
   <4> QED BY <4>1, <4>2
  <3> HIDE DEF p, q
  <3>5. accepted - Len(got) <= q + BatchSize BY <3>1, <3>2, <3>4, <2>0
  <3> QED BY <3>3, <3>5 DEF BackPressure
 <2> QED BY <2>1, <2>2
<1> QED BY <1>1, TypeInvariance, Control, Chain, Sizes, PTL

-----------------------------------------------------------------------------
\* Stage by stage: the cursor starts as an empty open stream, and each step of
\* either goroutine is a step of the stream or leaves it alone.  In particular
\* the end is reported only when every accepted row has been pulled (the batch
\* that is left when the actor closes the channel is empty, unless the
\* coordinator gave up), and Wait returns err exactly when the child failed.
THEOREM ImplementsStream == Spec => StreamSpec
<1>1. Init => Stream!Init BY DEF Init, NewStageCursor, Stream!Init
<1>2. TypeInv /\ ControlInv /\ ChainInv /\ [Next]_vars => [Stream!Next]_(Stream!vars)
 <2> SUFFICES ASSUME TypeInv, ControlInv, ChainInv, [Next]_vars
              PROVE  Stream!Next \/ UNCHANGED Stream!vars OBVIOUS
 <2> USE DEF Stream!Next, Stream!vars
 <2>1. CASE UNCHANGED vars BY <2>1 DEF vars, actorVars, coordVars
 <2>2. CASE YieldVals BY <2>2 DEF YieldVals, coordVars, ControlInv, Stream!Make
 <2>3. CASE YieldValsDropped BY <2>3 DEF YieldValsDropped, coordVars
 <2>4. CASE YieldErr BY <2>4 DEF YieldErr, coordVars, ControlInv, Stream!Fail
 <2>5. CASE ActorReturn BY <2>5 DEF ActorReturn, coordVars
 <2>6. CASE FlushSend BY <2>6 DEF FlushSend, coordVars
 <2>7. CASE FlushDone BY <2>7 DEF FlushDone, coordVars
 <2>8. CASE CloseCh BY <2>8 DEF CloseCh, coordVars, Stream!Close
 <2>9. CASE CloseFinished BY <2>9 DEF CloseFinished, coordVars
 <2>10. CASE NextBatch BY <2>10 DEF NextBatch, actorVars
 <2>11. CASE NextBatchReturns
  <3>1. ~ended /\ ~done BY <2>11 DEF NextBatchReturns, ControlInv
  <3>2. CASE ch # <<>>
   <4>1. /\ got \in Seq(Rows) /\ ch \in Seq(Seq(Rows)) /\ accepted \in Nat
         /\ Len(got) \in Nat /\ Len(batch) \in Nat /\ 1 \in 1..Len(ch)
     BY <3>2, LenProperties, EmptySeq DEF TypeInv, TypeOK
   <4>2. ch[1] \in Seq(Rows) /\ Len(ch[1]) \in Nat \ {0} BY <4>1, ElementOfSeq, CursorAssumption DEF ChainInv
   <4>3. Len(got) + Len(ch[1]) <= accepted - Len(batch) BY <3>2, <4>1 DEF ChainInv
   <4>4. got' = got \o ch[1] /\ UNCHANGED <<accepted, err, chClosed, ended, done, result>>
     BY <2>11, <3>2 DEF NextBatchReturns, actorVars
   <4>5. Len(got') = Len(got) + Len(ch[1]) BY <4>1, <4>2, <4>4, ConcatProperties
   <4>6. Len(got') \in Len(got) + 1 .. accepted BY <4>1, <4>2, <4>3, <4>5
   <4> QED BY <3>1, <4>4, <4>6 DEF Stream!Take
  <3>3. CASE ch = <<>>
   <4>1. chClosed /\ batch = <<>> BY <2>11, <3>1, <3>3 DEF NextBatchReturns, ControlInv
   <4>2. Len(got) = accepted BY <3>3, <4>1 DEF ChainInv, TypeInv, TypeOK
   <4> QED BY <2>11, <3>1, <3>3, <4>1, <4>2 DEF NextBatchReturns, actorVars, Stream!End
  <3> QED BY <3>2, <3>3
 <2>12. CASE Stop BY <2>12 DEF Stop, actorVars, Stream!Stop
 <2>13. CASE Wait BY <2>13 DEF Wait, actorVars, ControlInv, Stream!Join
 <2> QED BY <2>1, <2>2, <2>3, <2>4, <2>5, <2>6, <2>7, <2>8, <2>9, <2>10, <2>11,
      <2>12, <2>13 DEF Next, ActorStep, CoordStep
<1> QED BY <1>1, <1>2, TypeInvariance, Control, Chain, PTL DEF Spec, StreamSpec, Stream!Spec
=============================================================================
