------------------------------- MODULE Joins -------------------------------
(***************************************************************************)
(* engine/op_join_nl.go: for each row of the left side the right side is   *)
(* driven again: a scan with a join condition (joinNL, nestNL), a fetch by *)
(* keys (joinKeys, nestKeys) or the elements of an array (unnest).         *)
(*                                                                         *)
(* drives[i] lists what the right driver yields for left row i, as pairs   *)
(* <<row, truthy>>: the right row and whether the condition holds of it.   *)
(***************************************************************************)
EXTENDS RowOps

VARIABLES
  nlCfg,   \* [kind, outer, drives, fails]: the left rows at which a driver fails
  nlPc,
  nlI,     \* left rows taken
  nlJ,     \* right rows of the current one taken
  nlHad,   \* lzHadInner
  nlNest,  \* the nested array
  nlOut,   \* rows <<left, right>>; right is 0 for NULLs, a sequence for NEST
  nlErr    \* lzErr is set

nestedLoopVars == <<nlCfg, nlPc, nlI, nlJ, nlHad, nlNest, nlOut, nlErr>>

isNest == nlCfg.kind \in {"nestNL", "nestKeys"}
Unconditional == nlCfg.kind \in {"unnest", "joinKeys", "nestKeys"}
Truthy(pair) == Unconditional \/ pair[2]
Drive == nlCfg.drives[nlI]

NestedLoopInit(Cfgs) ==
  /\ nlCfg \in Cfgs
  /\ nlPc = "left" /\ nlI = 0 /\ nlJ = 0
  /\ nlHad = FALSE /\ nlNest = <<>> /\ nlOut = <<>> /\ nlErr = FALSE

\* Mutant: lzHadInner is not reset.
HadInnerKept == nlHad

\* lzHadInner = false, at each left row.
HadInnerReset == FALSE

\* The left side's yieldVals; after an error its rows are ignored.
LeftVals ==
  /\ nlPc = "left" /\ nlI < Len(nlCfg.drives) /\ ~nlErr
  /\ nlI' = nlI + 1 /\ nlJ' = 0
  /\ nlHad' = HadInnerReset /\ nlNest' = <<>>
  /\ nlPc' = "right"
  /\ UNCHANGED <<nlCfg, nlOut, nlErr>>

\* The right driver's yieldVals.
RightVals ==
  /\ nlPc = "right" /\ nlJ < Len(Drive)
  /\ nlJ' = nlJ + 1
  /\ LET r == Drive[nlJ + 1] IN
     IF Truthy(r)
     THEN /\ nlHad' = TRUE
          /\ nlNest' = IF isNest THEN Append(nlNest, r[1]) ELSE nlNest
          /\ nlOut' = IF isNest THEN nlOut ELSE Append(nlOut, <<nlI, r[1]>>)
     ELSE UNCHANGED <<nlHad, nlNest, nlOut>>
  /\ UNCHANGED <<nlCfg, nlPc, nlI, nlErr>>

\* The NULL-extended row of a left-outer join.
OuterYields == nlCfg.outer /\ ~nlHad /\ ~nlErr'

\* The right driver ends, perhaps with an error; the nested row, or the row
\* of an outer join without partner, follows if there was none.
RightEnd ==
  /\ nlPc = "right" /\ nlJ = Len(Drive)
  /\ nlErr' = (nlErr \/ nlI \in nlCfg.fails)
  /\ nlOut' = nlOut
       \o (IF isNest /\ nlNest # <<>> /\ ~nlErr' THEN << <<nlI, nlNest>> >> ELSE <<>>)
       \o (IF OuterYields THEN << <<nlI, IF isNest THEN <<>> ELSE 0>> >> ELSE <<>>)
  /\ nlPc' = "left"
  /\ UNCHANGED <<nlCfg, nlI, nlJ, nlHad, nlNest>>

LeftDone ==
  /\ nlPc = "left" /\ (nlI = Len(nlCfg.drives) \/ nlErr)
  /\ nlPc' = "done"
  /\ UNCHANGED <<nlCfg, nlI, nlJ, nlHad, nlNest, nlOut, nlErr>>

NestedLoopNext == LeftVals \/ RightVals \/ RightEnd \/ LeftDone

NestedLoopSpec(Cfgs) == NestedLoopInit(Cfgs) /\ [][NestedLoopNext]_nestedLoopVars

-----------------------------------------------------------------------------
(* Properties.                                                             *)

\* What the definition of the join asks for of left row i.
NestedLoopRows(i) ==
  LET d == nlCfg.drives[i]
      m == Concat([n \in DOMAIN d |-> IF Truthy(d[n]) THEN <<d[n][1]>> ELSE <<>>])
  IN IF m = <<>> THEN IF nlCfg.outer THEN << <<i, IF isNest THEN <<>> ELSE 0>> >> ELSE <<>>
     ELSE IF isNest THEN << <<i, m>> >>
     ELSE [n \in DOMAIN m |-> <<i, m[n]>>]

\* The rows are those of the definition, in order.  A right side that fails
\* for one left row does not make it one without partner: what was yielded
\* is a prefix of what a complete join yields, and the error is reported.
NestedLoopExact ==
  nlPc = "done" =>
    LET all == Concat([i \in DOMAIN nlCfg.drives |-> NestedLoopRows(i)])
    IN /\ nlErr = (nlCfg.fails # {})
       /\ IF nlErr THEN nlOut = SubSeq(all, 1, Len(nlOut)) ELSE nlOut = all

-----------------------------------------------------------------------------
(***************************************************************************)
(* engine/op_join_hash.go: the left side fills a probe map, the right side *)
(* probes it, and the map is visited at the end for what was not joined.   *)
(* One operator is the hash join, INTERSECT and EXCEPT, of which the kinds *)
(* differ in what an entry of the map holds.                               *)
(*                                                                         *)
(* A row is named by its position; left[i] is its key, which for a join    *)
(* may be NullKey or MissingKey.  INTERSECT and EXCEPT take the whole row, *)
(* in canonical encoding, for its key.                                     *)
(***************************************************************************)

CONSTANTS NullKey, MissingKey

VARIABLES
  hjCfg,      \* [kind, left, right, labels, lfail, rfail]
  hjPc,       \* "fill", "probe", "visit" or "done"
  hjI,        \* rows taken from the side that is running
  hjMap,      \* the probe map: key -> [joins, lefts, chain]
  hjVisited,  \* the keys that the visitor has seen
  hjOut,      \* rows yielded: <<left, right>> of a join, 0 for NULLs, or <<key>>
  hjErr

hashJoinVars == <<hjCfg, hjPc, hjI, hjMap, hjVisited, hjOut, hjErr>>

hjLeft == hjCfg.left
hjRight == hjCfg.right

isJoin == hjCfg.kind \in {"joinHash-inner", "joinHash-leftOuter"}
opIntersect == hjCfg.kind \in {"intersect-all", "intersect-distinct"}
leftCount == hjCfg.kind \in {"intersect-all", "except-all"}
joinCount == hjCfg.kind # "joinHash-inner"
yieldsUnjoined == hjCfg.kind \in {"joinHash-leftOuter", "except-all", "except-distinct"}

HashJoinInit(Cfgs) ==
  /\ hjCfg \in Cfgs
  /\ hjPc = "fill" /\ hjI = 0
  /\ hjMap = [k \in {} |-> 0]
  /\ hjVisited = {} /\ hjOut = <<>> /\ hjErr = "none"

\* ValHasValue of the probe key: not empty, and not beginning with an 'n'.
\* The canonical encoding of a row begins with the low byte of its width.
ValHasValue(k) == IF isJoin THEN k \notin {NullKey, MissingKey} ELSE hjCfg.labels % 256 # 110

\* CanonicalJSON of a join key: there is no canonical form of MISSING.
CanonicalErr(k) == isJoin /\ k = MissingKey

\* Mutant: a build row without a value for its key is never kept.
KeyOKValued(k) == ValHasValue(k)

\* lzErr == nil and lzKeyOK: a left-outer join keeps rows whose key is NULL.
KeyOK(k) == ~CanonicalErr(k) /\ (ValHasValue(k) \/ hjCfg.kind = "joinHash-leftOuter")

\* The left side's yieldVals: a new entry, or a longer chain and count.
FillProbeMap ==
  LET i == hjI + 1
      k == hjLeft[i]
      old == IF k \in DOMAIN hjMap THEN hjMap[k] ELSE [joins |-> 0, lefts |-> 0, chain |-> <<>>]
      new == [joins |-> 0, lefts |-> old.lefts + 1, chain |-> <<i>> \o old.chain]
  IN
  /\ hjPc = "fill" /\ hjI < Len(hjLeft)
  /\ hjI' = i
  /\ hjMap' = IF KeyOK(k) THEN [x \in DOMAIN hjMap \cup {k} |-> IF x = k THEN new ELSE hjMap[x]]
              ELSE hjMap
  /\ UNCHANGED <<hjCfg, hjPc, hjVisited, hjOut, hjErr>>

\* The left side has ended; its error is passed on and the right never runs.
FillEnd ==
  /\ hjPc = "fill" /\ hjI = Len(hjLeft)
  /\ hjI' = 0
  /\ IF hjCfg.lfail THEN hjErr' = "left" /\ hjPc' = "done"
     ELSE hjPc' = "probe" /\ UNCHANGED hjErr
  /\ UNCHANGED <<hjCfg, hjMap, hjVisited, hjOut>>

\* Mutant: the count is compared before it is incremented.
IntersectsLate(e, joins) == IF leftCount THEN e.lefts >= joins - 1 ELSE joins = 1

\* Does the joins-th match of an entry yield a row of the intersection?
Intersects(e, joins) == IF leftCount THEN e.lefts >= joins ELSE joins = 1

\* What a match of right row j yields.
MatchYields(k, j, e, joins) ==
  IF isJoin THEN [n \in DOMAIN e.chain |-> <<e.chain[n], j>>]
  ELSE IF opIntersect /\ Intersects(e, joins) THEN << <<k>> >> ELSE <<>>

\* The right side's yieldVals: probe, count the match, yield.
Probe ==
  LET j == hjI + 1
      k == hjRight[j]
  IN
  /\ hjPc = "probe" /\ hjI < Len(hjRight)
  /\ hjI' = j
  /\ IF ~CanonicalErr(k) /\ ValHasValue(k) /\ k \in DOMAIN hjMap
     THEN /\ hjMap' = IF joinCount THEN [hjMap EXCEPT ![k].joins = @ + 1] ELSE hjMap
          /\ hjOut' = hjOut \o MatchYields(k, j, hjMap[k], hjMap[k].joins + 1)
     ELSE UNCHANGED <<hjMap, hjOut>>
  /\ UNCHANGED <<hjCfg, hjPc, hjVisited, hjErr>>

\* The right side has ended; with an error nothing more is yielded.
ProbeEnd ==
  /\ hjPc = "probe" /\ hjI = Len(hjRight)
  /\ IF hjCfg.rfail THEN hjErr' = "right" /\ hjPc' = "done"
     ELSE hjPc' = (IF yieldsUnjoined THEN "visit" ELSE "done") /\ UNCHANGED hjErr
  /\ UNCHANGED <<hjCfg, hjI, hjMap, hjVisited, hjOut>>

\* What lzMapVisitor yields of an entry: a key of EXCEPT ALL survives m - n
\* times, that of EXCEPT and of a left-outer join if it was never joined.
VisitYields(k, e) ==
  IF isJoin THEN IF e.joins = 0 THEN [n \in DOMAIN e.chain |-> <<e.chain[n], 0>>] ELSE <<>>
  ELSE IF leftCount THEN [n \in 1..(e.lefts - e.joins) |-> <<k>>]
  ELSE IF e.joins = 0 THEN << <<k>> >> ELSE <<>>

\* The map is visited in any order.
Visit ==
  /\ hjPc = "visit"
  /\ \E k \in DOMAIN hjMap \ hjVisited :
       /\ hjVisited' = hjVisited \cup {k}
       /\ hjOut' = hjOut \o VisitYields(k, hjMap[k])
  /\ UNCHANGED <<hjCfg, hjPc, hjI, hjMap, hjErr>>

VisitEnd ==
  /\ hjPc = "visit" /\ hjVisited = DOMAIN hjMap
  /\ hjPc' = "done"
  /\ UNCHANGED <<hjCfg, hjI, hjMap, hjVisited, hjOut, hjErr>>

HashJoinNext == FillProbeMap \/ FillEnd \/ Probe \/ ProbeEnd \/ Visit \/ VisitEnd

HashJoinSpec(Cfgs) == HashJoinInit(Cfgs) /\ [][HashJoinNext]_hashJoinVars

-----------------------------------------------------------------------------
(* Properties.                                                             *)

hjTimes(row) == Cardinality({n \in DOMAIN hjOut : hjOut[n] = row})
hjKeyTimes(side, k) == Cardinality({i \in DOMAIN side : side[i] = k})

\* How often the definition of the operator asks for a row.
JoinTimes(i, j) ==
  LET partner(h) == hjLeft[i] = hjRight[h] /\ hjLeft[i] \notin {NullKey, MissingKey}
  IN IF j # 0 THEN IF partner(j) THEN 1 ELSE 0
     ELSE IF hjCfg.kind = "joinHash-leftOuter" /\ ~\E h \in DOMAIN hjRight : partner(h) THEN 1 ELSE 0

SetTimes(k) ==
  LET m == hjKeyTimes(hjLeft, k)
      n == hjKeyTimes(hjRight, k)
  IN CASE hjCfg.kind = "intersect-all"      -> LeastOf({m, n})
       [] hjCfg.kind = "intersect-distinct" -> LeastOf({m, n, 1})
       [] hjCfg.kind = "except-all"         -> MostOf({m - n, 0})
       [] hjCfg.kind = "except-distinct"    -> IF m > 0 /\ n = 0 THEN 1 ELSE 0

\* A join yields each pair of rows with equal keys once, and each left row
\* without partner once if it is an outer join, whatever the multiplicity of
\* the keys, for keys that are NULL on either side, and nothing else.  Left
\* rows whose key is MISSING are the subject of OuterKeepsKeyless.
HashJoinExact ==
  hjPc = "done" /\ hjErr = "none" /\ isJoin =>
    /\ \A i \in DOMAIN hjLeft, j \in DOMAIN hjRight \cup {0} :
         hjLeft[i] # MissingKey => hjTimes(<<i, j>>) = JoinTimes(i, j)
    /\ \A n \in DOMAIN hjOut : hjOut[n][1] \in DOMAIN hjLeft

\* A left-outer join "must also keep a build(outer)-side row whose join key
\* is NULL/MISSING" (the comment on lzKeyOK).
OuterKeepsKeyless ==
  hjPc = "done" /\ hjErr = "none" /\ hjCfg.kind = "joinHash-leftOuter" =>
    \A i \in DOMAIN hjLeft : hjLeft[i] \in {NullKey, MissingKey} => hjTimes(<<i, 0>>) = 1

\* INTERSECT and EXCEPT, ALL or DISTINCT, count rows as SQL does.
SetOpExact ==
  hjPc = "done" /\ hjErr = "none" /\ ~isJoin /\ hjCfg.labels % 256 # 110 =>
    \A k \in {hjLeft[i] : i \in DOMAIN hjLeft} \cup {hjRight[j] : j \in DOMAIN hjRight} :
      hjTimes(<<k>>) = SetTimes(k)

-----------------------------------------------------------------------------
(***************************************************************************)
(* engine/op_merge_join.go: the join of two inputs that are sorted by an   *)
(* int64 key, by equality ("off") or with the nearest row of the other     *)
(* side ("asof", "soft" with a tolerance), before or after it.  The left   *)
(* side is streamed.  The right side is either materialised first or, for  *)
(* most ASOF joins, pulled from a StageCursor just as far as is needed.    *)
(*                                                                         *)
(* A row is <<key, partition>>.  The right stream is an OrderedStream: its *)
(* rows in order, then perhaps its error.  Rows without a key are dropped  *)
(* at both sources and are not part of the inputs.                         *)
(***************************************************************************)

VARIABLES
  mjCfg,    \* [left, right, asof, following, outer, parted, tol, stream, spilled, lfail, rfail]
  mjPc,
  mjL,      \* left rows taken
  mjR,      \* rpos, or the right rows consumed from the stream
  mjHeld,   \* per partition the held right row; when following, the cursor
  mjPend,   \* pendByPart: per partition the right rows of the window
  mjPeeked, \* the right stream was found to be at its end
  mjOut,    \* joined rows <<left, right>>, right = 0 for NULLs
  mjErr     \* execErr: "none", "left order", "right order", "left", "right", "spill"

mergeJoinVars == <<mjCfg, mjPc, mjL, mjR, mjHeld, mjPend, mjPeeked, mjOut, mjErr>>

mjLeft == mjCfg.left
mjRight == mjCfg.right
mjParts == {0} \cup {mjLeft[i][2] : i \in DOMAIN mjLeft} \cup {mjRight[j][2] : j \in DOMAIN mjRight}

MergeJoinInit(Cfgs) ==
  /\ mjCfg \in Cfgs
  /\ mjPc = "exec" /\ mjErr = "none"
  /\ mjL = 0 /\ mjR = 0
  /\ mjHeld = [p \in mjParts |-> 0]
  /\ mjPend = [p \in mjParts |-> {}]
  /\ mjPeeked = FALSE
  /\ mjOut = <<>>

\* mergeJoinPartKey: one empty key for all when the join is not partitioned.
mergeJoinPartKey(row) == IF mjCfg.parted THEN row[2] ELSE 0

\* The right rows up to the first one that is out of order, where the build
\* and the streaming producer stop.
mjSorted == {n \in 0..Len(mjRight) : \A j \in 2..n : mjRight[j - 1][1] <= mjRight[j][1]}
mjVisible == MostOf(mjSorted)
mjRightErr ==
  CASE mjVisible < Len(mjRight) -> "right order"
    [] mjVisible = Len(mjRight) /\ mjCfg.rfail -> "right"
    [] OTHER -> "none"

RKey(j) == mjRight[j][1]
RPart(j) == mergeJoinPartKey(mjRight[j])

mjStreams == mjCfg.asof # "off" /\ mjCfg.stream
             /\ ~(mjCfg.following /\ mjCfg.parted /\ mjCfg.asof # "soft")

\* MergeJoinExec: unless it streams, mergeJoinBuildRight drains the right
\* side, whose error ends the join before any row.
MergeJoinExec ==
  /\ mjPc = "exec"
  /\ IF ~mjStreams /\ mjRightErr # "none"
     THEN mjErr' = mjRightErr /\ mjPc' = "done"
     ELSE mjPc' = "left" /\ UNCHANGED mjErr
  /\ UNCHANGED <<mjCfg, mjL, mjR, mjHeld, mjPend, mjPeeked, mjOut>>

-----------------------------------------------------------------------------
(* One left row.                                                           *)

mjKey == mjLeft[mjL + 1][1]
mjPart == mergeJoinPartKey(mjLeft[mjL + 1])
mjOrderOK == mjL > 0 => mjLeft[mjL][1] <= mjKey

\* The right pointer after passing those of the rows that come next.
AdvanceOver(rows) ==
  CHOOSE n \in mjR..mjVisible : (mjR + 1)..n \subseteq rows /\ (n < mjVisible => n + 1 \notin rows)

\* emit: the matching right rows, or NULLs for a left-outer join.  A row of
\* a build that was spilled may fail to be read; the step ends there.
Emit(matches) ==
  LET rows == [i \in DOMAIN matches |-> <<mjL + 1, matches[i]>>]
  IN \/ /\ mjOut' = mjOut \o (IF matches # <<>> THEN rows
                              ELSE IF mjCfg.outer THEN << <<mjL + 1, 0>> >> ELSE <<>>)
        /\ UNCHANGED mjErr
     \/ /\ ~mjStreams /\ mjCfg.spilled
        /\ \E n \in DOMAIN matches : mjOut' = mjOut \o SubSeq(rows, 1, n - 1)
        /\ mjErr' = "spill"

\* mergeJoinWithinTolerance and -Fwd, for the distance d of two keys.
WithinTolerance(d) == mjCfg.asof = "soft" => Wrap(d) <= mjCfg.tol

\* Mutant: an equal key is passed over, too.
BelowOrEqual(k, key) == key <= k

\* The right rows that a left row with key k will never need again.
Below(k, key) == key < k

TakeLeft ==
  /\ mjPc = "left" /\ mjErr = "none" /\ mjL < Len(mjLeft) /\ mjOrderOK
  /\ mjL' = mjL + 1
  /\ UNCHANGED <<mjCfg, mjPc>>

\* mergeJoinStepEqui: the cross product with the right rows of the same key.
StepEqui ==
  /\ mjCfg.asof = "off"
  /\ TakeLeft
  /\ mjR' = AdvanceOver({j \in DOMAIN mjRight : Below(mjKey, RKey(j))})
  /\ Emit(Ascending({j \in (mjR' + 1)..mjVisible : \A i \in (mjR' + 1)..j : RKey(i) = mjKey}))
  /\ UNCHANGED <<mjHeld, mjPend, mjPeeked>>

\* mergeJoinStepAsof, and the streaming "preceding": every right row up to
\* the left key becomes the held row of its partition.
StepPreceding ==
  /\ mjCfg.asof # "off" /\ ~mjCfg.following
  /\ TakeLeft
  /\ mjR' = AdvanceOver({j \in DOMAIN mjRight : RKey(j) <= mjKey})
  /\ mjHeld' = [p \in mjParts |->
       LET passed == {j \in (mjR + 1)..mjR' : RPart(j) = p}
       IN IF passed = {} THEN mjHeld[p] ELSE MostOf(passed)]
  /\ LET h == mjHeld'[mjPart]
     IN Emit(IF h # 0 /\ WithinTolerance(mjKey - RKey(h)) THEN <<h>> ELSE <<>>)
  /\ mjPeeked' = (mjPeeked \/ mjR' = mjVisible)
  /\ UNCHANGED mjPend

\* mergeJoinStepAsofFollowing without partitions, and its streaming twin:
\* the first right row that is not below the left key is not consumed.
StepFollowing ==
  /\ mjCfg.asof # "off" /\ mjCfg.following /\ ~mjCfg.parted
  /\ TakeLeft
  /\ mjR' = AdvanceOver({j \in DOMAIN mjRight : Below(mjKey, RKey(j))})
  /\ Emit(IF mjR' < mjVisible /\ WithinTolerance(RKey(mjR' + 1) - mjKey)
          THEN <<mjR' + 1>> ELSE <<>>)
  /\ mjPeeked' = (mjPeeked \/ mjR' = mjVisible)
  /\ UNCHANGED <<mjHeld, mjPend>>

\* mergeJoinStepAsofFollowing with partitions: partIdx lists each one's rows,
\* and held is a cursor into it that never moves back.
StepFollowingPartIdx ==
  LET idxs == Ascending({j \in 1..mjVisible : RPart(j) = mjPart})
      c == LeastOf({n \in mjHeld[mjPart]..Len(idxs) : n < Len(idxs) => RKey(idxs[n + 1]) >= mjKey})
  IN
  /\ mjCfg.following /\ mjCfg.parted /\ mjCfg.asof # "off" /\ ~mjStreams
  /\ TakeLeft
  /\ mjHeld' = [mjHeld EXCEPT ![mjPart] = c]
  /\ Emit(IF c < Len(idxs) /\ WithinTolerance(RKey(idxs[c + 1]) - mjKey)
          THEN <<idxs[c + 1]>> ELSE <<>>)
  /\ UNCHANGED <<mjR, mjPend, mjPeeked>>

\* Mutant: rows that the left side has passed stay in the queues.
PrunedNever(q) == q

\* The prune of a queue: keys behind the left key are dropped.
Pruned(q) == {j \in q : RKey(j) >= mjKey}

\* The streaming, soft, partitioned "following": right rows of the window
\* [key, key + tolerance] wait in a queue per partition.
StepFollowingQueue ==
  /\ mjCfg.following /\ mjCfg.parted /\ mjStreams
  /\ TakeLeft
  /\ mjR' = AdvanceOver({j \in DOMAIN mjRight : RKey(j) <= Wrap(mjKey + mjCfg.tol)})
  /\ mjPend' = [p \in mjParts |->
       Pruned(mjPend[p] \cup {j \in (mjR + 1)..mjR' : RPart(j) = p})]
  /\ Emit(IF mjPend'[mjPart] # {} THEN <<LeastOf(mjPend'[mjPart])>> ELSE <<>>)
  /\ mjPeeked' = (mjPeeked \/ mjR' = mjVisible)
  /\ UNCHANGED mjHeld

\* A left key below the last one is the left order error; the rows after it
\* are ignored.
LeftOutOfOrder ==
  /\ mjPc = "left" /\ mjErr = "none" /\ mjL < Len(mjLeft) /\ ~mjOrderOK
  /\ mjErr' = "left order"
  /\ UNCHANGED <<mjCfg, mjPc, mjL, mjR, mjHeld, mjPend, mjPeeked, mjOut>>

\* Mutant: the error of the producer is not asked for.
WaitErrIgnored == "none"

\* Stop and Wait: a producer that was read to its end has its error; one
\* that is stopped earlier may or may not have come to it.
WaitErr == IF mjPeeked THEN mjRightErr ELSE "none"

LeftEnd ==
  /\ mjPc = "left"
  /\ mjErr # "none" \/ mjL = Len(mjLeft)
  /\ LET own == IF mjErr = "none" /\ mjCfg.lfail THEN "left" ELSE mjErr
     IN \E w \in IF mjStreams THEN {WaitErr} \cup (IF mjPeeked THEN {} ELSE {mjRightErr})
                 ELSE {"none"} :
          mjErr' = IF own = "none" THEN w ELSE own
  /\ mjPc' = "done"
  /\ UNCHANGED <<mjCfg, mjL, mjR, mjHeld, mjPend, mjPeeked, mjOut>>

MergeJoinNext ==
  \/ MergeJoinExec \/ StepEqui \/ StepPreceding \/ StepFollowing
  \/ StepFollowingPartIdx \/ StepFollowingQueue \/ LeftOutOfOrder \/ LeftEnd

MergeJoinSpec(Cfgs) == MergeJoinInit(Cfgs) /\ [][MergeJoinNext]_mergeJoinVars

-----------------------------------------------------------------------------
(* Properties.                                                             *)

\* No difference of two keys, taken either way, and no key plus the tolerance,
\* overflows.
mjInRange ==
  /\ \A i \in DOMAIN mjLeft, j \in DOMAIN mjRight :
       mjLeft[i][1] - mjRight[j][1] \in -MaxInt64..MaxInt64
  /\ \A i \in DOMAIN mjLeft : mjLeft[i][1] + mjCfg.tol <= MaxInt64

\* The right rows that left row i is to be joined with, by the definition of
\* the join: all of the same key; or of those on the right side of it, in its
\* partition and within the tolerance, the nearest, the last of several that
\* precede and the first of several that follow.
JoinMatches(i) ==
  LET k == mjLeft[i][1]
      p == mergeJoinPartKey(mjLeft[i])
      before == {j \in DOMAIN mjRight : RPart(j) = p /\ RKey(j) <= k}
      after == {j \in DOMAIN mjRight : RPart(j) = p /\ RKey(j) >= k}
      near(S) == {j \in S : mjCfg.asof = "soft" => (k - RKey(j) <= mjCfg.tol /\ RKey(j) - k <= mjCfg.tol)}
  IN CASE mjCfg.asof = "off" -> {j \in DOMAIN mjRight : RKey(j) = k}
       [] mjCfg.asof # "off" /\ ~mjCfg.following ->
            {j \in near(before) : \A h \in before : RKey(h) < RKey(j) \/ (RKey(h) = RKey(j) /\ h <= j)}
       [] mjCfg.asof # "off" /\ mjCfg.following ->
            {j \in near(after) : \A h \in after : RKey(j) < RKey(h) \/ (RKey(h) = RKey(j) /\ j <= h)}

JoinReference ==
  Concat([i \in DOMAIN mjLeft |->
    LET m == Ascending(JoinMatches(i)) IN
    IF m # <<>> THEN [n \in DOMAIN m |-> <<i, m[n]>>]
    ELSE IF mjCfg.outer THEN << <<i, 0>> >> ELSE <<>>])

\* A join that ends without error has yielded exactly the rows that the
\* definition of the join asks for, in the order of the left side: whether
\* the right side was materialised or streamed, with partitions whose rows
\* interleave, repeated keys and one right row matching many left rows.
MergeJoinExact ==
  mjPc = "done" /\ mjErr = "none" /\ mjInRange /\ (mjStreams => mjVisible = Len(mjRight)) =>
    mjOut = JoinReference

\* A right side that broke off is never taken for one that ended: if any left
\* row was matched against the end of a broken right stream, the join fails.
BrokenRightSurfaces ==
  mjPc = "done" /\ mjRightErr # "none" /\ (mjStreams => mjPeeked) => mjErr # "none"

\* The streaming join holds the band only: rows of the queues lie between the
\* last left key and the tolerance after it.
JoinBandOnly ==
  mjL > 0 /\ mjInRange =>
    \A p \in mjParts : \A j \in mjPend[p] :
      RKey(j) - mjLeft[mjL][1] \in 0..mjCfg.tol

\* The hash join, the set operators built on its table and the nested loop
\* yield what the algebra asks for (engine/op_join_hash.go, op_join_nl.go).
JoinsExact == HashJoinExact /\ SetOpExact /\ NestedLoopExact

\* The merge join, materialised or streamed, is exact or fails, and holds the
\* band only (engine/op_join_merge.go).
MergeJoinSound == MergeJoinExact /\ BrokenRightSurfaces /\ JoinBandOnly
=============================================================================
