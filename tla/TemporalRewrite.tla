-------------------------- MODULE TemporalRewrite --------------------------
(***************************************************************************)
(* glue/extract.go: what a plugin's describe() says of a file is kept in   *)
(* the sidecar under the file's fingerprint, for every later query of any  *)
(* process.  Processes read and replace the entry while other programs     *)
(* change the file.                                                        *)
(*                                                                         *)
(* The file is its version number, which stands for its size and mtime as  *)
(* well as its content.                                                    *)
(***************************************************************************)
EXTENDS Integers, Sequences, FiniteSets, SequencesExt

CONSTANTS
  Describers,      \* processes, each one query
  MaxVersion       \* bound on the changes of the file

VARIABLES
  xcOn,            \* whether this component runs
  xcFile,          \* the version of the file
  xcGone,          \* whether the file cannot be read
  xcEntry,         \* the sidecar's entry: [fp, producer, spec], "torn" is a spec no describe() made
  xcPc,            \* process -> "idle", "read", "describe", "write", "rename", "done"
  xcProducer,      \* process -> the version of the engine and plugin it runs
  xcStat,          \* process -> the fingerprint it took
  xcTemp,          \* process -> its temporary file
  xcGot            \* process -> what describeMemoized returned: [how, spec, producer]

xcVars == <<xcOn, xcFile, xcGone, xcEntry, xcPc, xcProducer, xcStat, xcTemp, xcGot>>

NoEntry == [fp |-> 0, producer |-> 0, spec |-> 0]
NoSpec == [how |-> "none", spec |-> 0, producer |-> 0]

XcInit(on) ==
  /\ xcOn = on /\ xcFile = 1 /\ xcGone = FALSE /\ xcEntry = NoEntry
  /\ xcPc = [p \in Describers |-> "idle"] /\ xcProducer \in IF on THEN [Describers -> {1, 2}] ELSE {[p \in Describers |-> 1]}
  /\ xcStat = [p \in Describers |-> 0] /\ xcTemp = [p \in Describers |-> NoEntry] /\ xcGot = [p \in Describers |-> NoSpec]

\* Another program writes to the file, or it cannot be described.
FileChanges == xcFile < MaxVersion /\ xcFile' = xcFile + 1 /\ UNCHANGED <<xcOn, xcGone, xcEntry, xcPc, xcProducer, xcStat, xcTemp, xcGot>>
FileBreaks == ~xcGone /\ xcGone' = TRUE /\ UNCHANGED <<xcOn, xcFile, xcEntry, xcPc, xcProducer, xcStat, xcTemp, xcGot>>

\* describeMemoized: the fingerprint is taken first.
DescribeStat(p) ==
  /\ xcPc[p] = "idle"
  /\ xcStat' = [xcStat EXCEPT ![p] = xcFile] /\ xcPc' = [xcPc EXCEPT ![p] = "read"]
  /\ UNCHANGED <<xcOn, xcFile, xcGone, xcEntry, xcProducer, xcTemp, xcGot>>

\* As Fresh, but an entry of another engine or plugin is taken.
AnyProducer(entry, fp, producer) == entry.fp = fp
Fresh(entry, fp, producer) == entry.fp = fp /\ entry.producer = producer

ReadExtractCache(p) ==
  /\ xcPc[p] = "read"
  /\ IF Fresh(xcEntry, xcStat[p], xcProducer[p])
     THEN /\ xcGot' = [xcGot EXCEPT ![p] = [how |-> "cached", spec |-> xcEntry.spec, producer |-> xcEntry.producer]]
          /\ xcPc' = [xcPc EXCEPT ![p] = "done"]
     ELSE xcPc' = [xcPc EXCEPT ![p] = "describe"] /\ UNCHANGED xcGot
  /\ UNCHANGED <<xcOn, xcFile, xcGone, xcEntry, xcProducer, xcStat, xcTemp>>

\* As EntryFor, but under the fingerprint the file has when it was described.
EntryForNow(p) == [fp |-> xcFile, producer |-> xcProducer[p], spec |-> xcStat[p]]
\* The entry that is to be written, under the fingerprint from before describe().
EntryFor(p) == [fp |-> xcStat[p], producer |-> xcProducer[p], spec |-> xcFile]

\* describe() reads the file as it is now; its error is not kept.
Describe(p) ==
  /\ xcPc[p] = "describe"
  /\ IF xcGone
     THEN xcGot' = [xcGot EXCEPT ![p] = [how |-> "error", spec |-> 0, producer |-> xcProducer[p]]] /\ xcPc' = [xcPc EXCEPT ![p] = "done"] /\ UNCHANGED xcTemp
     ELSE /\ xcTemp' = [xcTemp EXCEPT ![p] = EntryFor(p)] /\ xcPc' = [xcPc EXCEPT ![p] = "write"]
          /\ xcGot' = [xcGot EXCEPT ![p] = [how |-> "fresh", spec |-> xcFile, producer |-> xcProducer[p]]]
  /\ UNCHANGED <<xcOn, xcFile, xcGone, xcEntry, xcProducer, xcStat>>

\* writeExtractCache: a temporary file, then a rename; what fails leaves the old entry.
Publish(p) ==
  /\ xcPc[p] = "write"
  /\ xcEntry' \in {xcTemp[p], xcEntry} /\ xcPc' = [xcPc EXCEPT ![p] = "done"]

WriteExtractCache(p) == Publish(p) /\ UNCHANGED <<xcOn, xcFile, xcGone, xcProducer, xcStat, xcTemp, xcGot>>

\* The process ends and another begins, with what it was doing undone.
Restart(p) ==
  /\ xcPc[p] # "idle"
  /\ xcPc' = [xcPc EXCEPT ![p] = "idle"] /\ xcGot' = [xcGot EXCEPT ![p] = NoSpec]
  /\ UNCHANGED <<xcOn, xcFile, xcGone, xcEntry, xcProducer, xcStat, xcTemp>>

XcNext ==
  \/ FileChanges \/ FileBreaks
  \/ \E p \in Describers : DescribeStat(p) \/ ReadExtractCache(p) \/ Describe(p) \/ WriteExtractCache(p) \/ Restart(p)

XcSpec(on) == XcInit(on) /\ [][XcNext]_xcVars

-----------------------------------------------------------------------------
(* Properties *)

\* What a query takes from the sidecar is what describe() of its own engine and plugin
\* said, in full, of the file as it was when the query looked, or of a later version, never
\* of an earlier one: a merge that is planned on it knows the rows that were there.
CachedIsCurrent ==
  \A p \in Describers : xcGot[p].how = "cached" => xcGot[p].spec >= xcStat[p] /\ xcGot[p].producer = xcProducer[p]

\* An entry that the file's present fingerprint matches describes its present content.
EntryIsTrue == xcEntry.fp = xcFile => xcEntry.spec = xcFile

-----------------------------------------------------------------------------
(***************************************************************************)
(* glue/optimize_temporal.go, first half: UNION ALL .. ORDER BY key over   *)
(* keyspaces whose files are sorted by that key becomes a merge of the     *)
(* files, each an input of its own.  The merge itself is MergeScan.tla.    *)
(*                                                                         *)
(* A row is [k, o, p, v]: the sort key of its file, another number, a      *)
(* partition and a payload.  A file is [rows, label, sorted, bound, count, *)
(* plugin]; the last five are what describe() measured, count = 0 standing *)
(* for no zone map.  A branch is [shape, col, files]: what is between the  *)
(* union and the scan, and the field that is projected under the name of   *)
(* the sort key.  A file that no plugin claims is described by nothing.    *)
(***************************************************************************)

VARIABLES
  mrCfg,    \* [branches, terms, dir, paged, columns]
  mrPc,     \* "plan", "run", "done"
  mrPlan,   \* [kind, children, zoned]
  mrOut     \* [err, rows]

mrVars == <<mrCfg, mrPc, mrPlan, mrOut>>

KeyName == "k"

-----------------------------------------------------------------------------
(* What the metadata of files says *)

\* SortedSourceMetasForKeyspace: the files that a plugin claims.
SortedSourceMetasForKeyspace(files) == SelectSeq(files, LAMBDA f : f.plugin)

ProvenKey(f) == f.label = KeyName /\ f.sorted # "none"
MinKeyOf(rows) == CHOOSE n \in {rows[i].k : i \in DOMAIN rows} : \A i \in DOMAIN rows : n <= rows[i].k
MaxKeyOf(rows) == CHOOSE n \in {rows[i].k : i \in DOMAIN rows} : \A i \in DOMAIN rows : rows[i].k <= n
ZoneMin(f) == IF f.count > 0 THEN MinKeyOf(f.rows) ELSE 0

\* As Zoned, but one file with a zone is enough.
AnyZone(metas) == \E i \in DOMAIN metas : metas[i].count > 0
\* Every file has a zone, the least and greatest of its keys.
Zoned(metas) == \A i \in DOMAIN metas : metas[i].count > 0

\* aggregateBranchMeta: the files of a keyspace as one input.
aggregateBranchMeta(metas) ==
  [ok |-> metas # <<>> /\ \A i \in DOMAIN metas : ProvenKey(metas[i]),
   sorted |-> IF \E i \in DOMAIN metas : metas[i].sorted = "near" THEN "near" ELSE "strict"]

\* Two or more files, all of them proven, each become an input, in the order of their zones
\* when every one of them has a zone.
perFileScans(metas) ==
  [ok |-> Len(metas) >= 2 /\ \A i \in DOMAIN metas : ProvenKey(metas[i]),
   files |-> IF Zoned(metas) THEN SortSeq(metas, LAMBDA f, g : ZoneMin(f) < ZoneMin(g)) ELSE metas,
   zoned |-> Zoned(metas)]

-----------------------------------------------------------------------------
(* The branch of a union over the rows of a scan *)

ScanAll(files) == FlattenSeq([i \in DOMAIN files |-> files[i].rows])
FirstOf(rows, i) == \A j \in 1..i - 1 : rows[j].k # rows[i].k
Places(rows, P(_)) == SetToSortSeq({i \in DOMAIN rows : P(i)}, <)
\* Groups are given in order of their key; Shuffled is where the order that they really
\* have, that of a hash map, may be another.
Branch(b, rows) ==
  LET keep == CASE b.shape = "filter" -> Places(rows, LAMBDA i : rows[i].v # "drop")
                [] b.shape = "group" -> Places(rows, LAMBDA i : FirstOf(rows, i))
                [] b.shape = "limit" -> Places(rows, LAMBDA i : i <= 1)
                [] OTHER -> Places(rows, LAMBDA i : TRUE)
      in == [n \in DOMAIN keep |-> [key |-> rows[keep[n]][b.col], row |-> rows[keep[n]]]]
  IN  IF b.shape = "group" THEN SortSeq(in, LAMBDA r, q : r.key < q.key) ELSE in

\* branchScanLeaf counts the scans below a branch; a join has two.
OneScan(b) == b.shape # "join"
HasKeyspace(b) == b.shape # "values"
\* Expanded: each file that a plugin claims is an input, and no other file is read.
Expanded(b) == OneScan(b) /\ perFileScans(SortedSourceMetasForKeyspace(b.files)).ok

-----------------------------------------------------------------------------
(* WireTemporalMergeMeta *)

\* As mergeScanFromOrderUnion, but an OFFSET or LIMIT that is folded into the order is not
\* looked at.
PagedToo(q) == q.terms = 1 /\ q.dir = "asc" /\ Len(q.branches) >= 2 /\ q.columns = 1
\* One ascending term, that names one column of the union, and no paging.
mergeScanFromOrderUnion(q) ==
  ~q.paged /\ q.terms = 1 /\ q.dir = "asc" /\ Len(q.branches) >= 2 /\ q.columns = 1

Input(b, files, metas, sorted, bound) ==
  LET seen == ScanAll(SelectSeq(metas, LAMBDA f : f.count > 0))
      rows == Branch(b, ScanAll(files))
  IN  [rows |-> rows, shuffled |-> b.shape = "group" /\ Len(rows) > 1, sorted |-> sorted, bound |-> bound,
       min |-> IF seen = <<>> THEN 0 ELSE MinKeyOf(seen), max |-> IF seen = <<>> THEN 0 ELSE MaxKeyOf(seen)]

MaxBound(metas) == CHOOSE n \in {0} \cup {metas[i].bound : i \in DOMAIN metas} : \A i \in DOMAIN metas : metas[i].bound <= n

\* The inputs that a branch contributes, and whether all have zones; none if nothing is proven.
BranchInputs(b) ==
  LET metas == SortedSourceMetasForKeyspace(b.files)
      per == perFileScans(metas)
      agg == aggregateBranchMeta(metas)
  IN  CASE ~HasKeyspace(b) \/ metas = <<>> -> [ok |-> FALSE, inputs |-> <<>>, zoned |-> FALSE]
        [] HasKeyspace(b) /\ Expanded(b) ->
             [ok |-> TRUE, inputs |-> [i \in DOMAIN per.files |-> Input(b, <<per.files[i]>>, <<per.files[i]>>, per.files[i].sorted, per.files[i].bound)], zoned |-> per.zoned]
        [] OTHER -> [ok |-> agg.ok, inputs |-> <<Input(b, b.files, metas, agg.sorted, MaxBound(metas))>>, zoned |-> Zoned(metas)]

NoMerge == [kind |-> "sort", children |-> <<>>, zoned |-> FALSE]

mergeScanWithMeta(q) ==
  LET parts == [i \in DOMAIN q.branches |-> BranchInputs(q.branches[i])]
  IN  IF mergeScanFromOrderUnion(q) /\ \A i \in DOMAIN parts : parts[i].ok
      THEN [kind |-> "merge", children |-> FlattenSeq([i \in DOMAIN parts |-> parts[i].inputs]), zoned |-> \A i \in DOMAIN parts : parts[i].zoned]
      ELSE NoMerge

-----------------------------------------------------------------------------
(* The two plans, run *)

ByKey(rows) == SortSeq(rows, LAMBDA r, q : r.key < q.key)
Ascending(rows) == \A i \in 1..Len(rows) - 1 : rows[i].key <= rows[i + 1].key
AllInputs(children) == FlattenSeq([i \in DOMAIN children |-> children[i].rows])
Lag(rows) == CHOOSE n \in {0} \cup {rows[i].key - rows[j].key : i, j \in DOMAIN rows} :
               \A j \in DOMAIN rows : \A i \in 1..j : rows[i].key - rows[j].key <= n

\* MergeScanExec with policy "error": nearly sorted inputs are put right within the bound,
\* disjoint ones are taken one after the other, others are merged by a heap.
OutOfOrder == [err |-> "order", rows |-> <<>>]
Shuffled(plan) == \E i \in DOMAIN plan.children : plan.children[i].shuffled
MergeScanExec(plan) ==
  LET children == plan.children
      near == \E i \in DOMAIN children : children[i].sorted = "near"
      bound == MaxBound(children)
      disjoint == plan.zoned /\ \A i \in 1..Len(children) - 1 : children[i].max <= children[i + 1].min
  IN  CASE near -> IF \A i \in DOMAIN children : Lag(children[i].rows) <= bound
                   THEN [err |-> "nil", rows |-> ByKey(AllInputs(children))] ELSE [err |-> "late", rows |-> <<>>]
        [] ~near /\ disjoint -> IF Ascending(AllInputs(children)) THEN [err |-> "nil", rows |-> AllInputs(children)] ELSE OutOfOrder
        [] OTHER -> IF \A i \in DOMAIN children : Ascending(children[i].rows)
                    THEN [err |-> "nil", rows |-> ByKey(AllInputs(children))] ELSE OutOfOrder

UnionRows(q) == FlattenSeq([i \in DOMAIN q.branches |-> Branch(q.branches[i], ScanAll(q.branches[i].files))])
OrderUnion(q) ==
  LET asc == ByKey(UnionRows(q))
      all == IF q.dir = "asc" THEN asc ELSE Reverse(asc)
  IN  IF q.paged THEN SubSeq(all, 1, 1) ELSE all

MrInit(cfgs) == mrCfg \in cfgs /\ mrPc = "plan" /\ mrPlan = NoMerge /\ mrOut = [err |-> "nil", rows |-> <<>>]

WireTemporalMergeMeta ==
  /\ mrPc = "plan" /\ mrPc' = "run"
  /\ mrPlan' = mergeScanWithMeta(mrCfg)
  /\ UNCHANGED <<mrCfg, mrOut>>

RunPlan ==
  /\ mrPc = "run" /\ mrPc' = "done"
  /\ mrOut' \in IF mrPlan.kind = "merge" THEN {MergeScanExec(mrPlan)} \cup (IF Shuffled(mrPlan) THEN {OutOfOrder} ELSE {})
                ELSE {[err |-> "nil", rows |-> OrderUnion(mrCfg)]}
  /\ UNCHANGED <<mrCfg, mrPlan>>

MrNext == WireTemporalMergeMeta \/ RunPlan
MrDone == mrPc = "done"

-----------------------------------------------------------------------------
(* Properties *)

TimesHere(r, rows) == Cardinality({i \in DOMAIN rows : rows[i] = r})
SameRows(a, b) == Len(a) = Len(b) /\ \A i \in DOMAIN a : TimesHere(a[i], a) = TimesHere(a[i], b)

\* The files that a merge reads: without those beside the inputs of an expanded branch.
Read(q) ==
  [q EXCEPT !.branches = [i \in DOMAIN @ |-> IF Expanded(@[i]) THEN [@[i] EXCEPT !.files = SortedSourceMetasForKeyspace(@)] ELSE @[i]]]
\* A GROUP BY or LIMIT that is cloned for each file.
ClonedPerFile(q) == \E i \in DOMAIN q.branches : q.branches[i].shape \in {"group", "limit"} /\ Expanded(q.branches[i])

\* Whatever was rewritten, the query yields the rows of the union, each as often, in the
\* order of the key, or says that the input is out of order.  A merge answers for the files
\* it reads, and not for a GROUP BY or LIMIT that it runs once for each file.
MergeRewriteSame ==
  mrPc = "done" /\ mrOut.err = "nil" =>
    LET merged == mrPlan.kind = "merge"
    IN  /\ ~(merged /\ ClonedPerFile(mrCfg)) => SameRows(mrOut.rows, OrderUnion(IF merged THEN Read(mrCfg) ELSE mrCfg))
        /\ mrCfg.dir = "asc" => Ascending(mrOut.rows)

\* Files that are each as sorted as they claim never make the query fail, however their
\* ranges overlap, where every branch reads one keyspace and keeps its order, and no file
\* that claims nothing is read.
NeverTrips ==
  mrPc = "done" /\ (\A i \in DOMAIN mrCfg.branches :
                      LET b == Read(mrCfg).branches[i] IN OneScan(b) /\ b.shape # "group" /\ \A f \in Range(b.files) : f.plugin)
  => mrOut.err = "nil"

-----------------------------------------------------------------------------
(***************************************************************************)
(* glue/optimize_temporal.go, second half: a correlated subquery           *)
(*   (SELECT r.f FROM R r WHERE r.key <= e.key AND .. ORDER BY r.key DESC  *)
(*    LIMIT 1)                                                             *)
(* in a projection is recognised as an ASOF join and lowered to one merge  *)
(* of the two keyspaces.  The join itself is Joins.tla.                    *)
(*                                                                         *)
(* A conjunct is [c, rf, of, delta]: "le" is r.rf <= e.of, "ge" is r.rf >= *)
(* e.of, "back" is r.rf >= e.of - delta, "ahead" is r.rf <= e.of + delta,  *)
(* "eq" is r.rf = e.of, "right" is a condition on r alone and "lt" is      *)
(* r.rf < e.of, which is not recognised.                                   *)
(***************************************************************************)

VARIABLES
  asCfg,    \* [sub, child, outer, right]: the subquery, what is below the project, the files
  asPc,     \* "plan", "run", "done", "failed"
  asMatch,  \* the AsofMatch the project was lowered by, or NoMatch
  asAt,     \* outer rows done
  asOut     \* the value of the term for each of them

asVars == <<asCfg, asPc, asMatch, asAt, asOut>>

NoMatch == [ok |-> FALSE, dir |-> "", soft |-> FALSE, tol |-> 0, parts |-> {}, residual |-> FALSE]

-----------------------------------------------------------------------------
(* MatchArgmaxAsof *)

\* As DirectionAgrees, but the order is not looked at.
AnyDirection(dir, desc) == TRUE
\* <= goes with DESC and >= with ASC; another pair is no nearest row.
DirectionAgrees(dir, desc) == (dir = "le") = desc

Of(sub, kind) == {c \in sub.where : c.c = kind}
Main(sub) == Of(sub, "le") \cup Of(sub, "ge")

\* The inequality is on the key of the ORDER BY; the field of the outer row is not looked
\* at.  A guard is on the key of both.
Recognised(sub) ==
  /\ sub.correlated /\ ~sub.offset /\ sub.limit = 1 /\ sub.terms = 1 /\ sub.from = "keyspace" /\ sub.proj = "field"
  /\ Cardinality(Main(sub)) = 1 /\ \A c \in Main(sub) : c.rf = sub.key /\ DirectionAgrees(c.c, sub.desc)
  /\ Cardinality(Of(sub, "back")) <= 1 /\ \A c \in Of(sub, "back") : c.rf = sub.key /\ c.of = sub.key /\ Of(sub, "le") # {}
  /\ Cardinality(Of(sub, "ahead")) <= 1 /\ \A c \in Of(sub, "ahead") : c.rf = sub.key /\ c.of = sub.key /\ Of(sub, "ge") # {}
  /\ Of(sub, "lt") = {}

MatchArgmaxAsof(sub) ==
  LET guards == Of(sub, "back") \cup Of(sub, "ahead")
  IN  IF ~Recognised(sub) THEN NoMatch
      ELSE [ok |-> TRUE, dir |-> IF Of(sub, "le") # {} THEN "preceding" ELSE "following", soft |-> guards # {},
            tol |-> IF guards = {} THEN 0 ELSE (CHOOSE c \in guards : TRUE).delta,
            parts |-> {<<c.rf, c.of>> : c \in Of(sub, "eq")}, residual |-> Of(sub, "right") # {}]

\* tryLowerASOFProject: a scan, perhaps under one filter, and two keyspaces that are proven
\* to be sorted by the key of the subquery.
tryLowerASOFProject ==
  LET m == MatchArgmaxAsof(asCfg.sub)
      proven(files) == aggregateBranchMeta(SortedSourceMetasForKeyspace(files)).ok
  IN  IF m.ok /\ asCfg.sub.key = KeyName /\ asCfg.child \in {"scan", "filter"} /\ proven(asCfg.outer) /\ proven(asCfg.right) THEN m ELSE NoMatch

-----------------------------------------------------------------------------
(* The two ways to the value of the term *)

\* A list of rows as a value: RAW or not, and with or without [0].
Term(rows) ==
  LET sub == asCfg.sub
  IN  IF rows = {} THEN {[t |-> IF sub.elem0 THEN "missing" ELSE "list", raw |-> FALSE, v |-> ""]}
      ELSE {[t |-> IF sub.elem0 THEN "one" ELSE "list", raw |-> sub.raw, v |-> r.v] : r \in rows}

Holds(c, e, r) ==
  CASE c.c = "le" -> r[c.rf] <= e[c.of] [] c.c = "ge" -> r[c.rf] >= e[c.of] [] c.c = "lt" -> r[c.rf] < e[c.of]
    [] c.c = "back" -> r[c.rf] >= e[c.of] - c.delta [] c.c = "ahead" -> r[c.rf] <= e[c.of] + c.delta
    [] c.c = "eq" -> r[c.rf] = e[c.of] [] OTHER -> r.v # "drop"

\* The correlated subquery; rows that tie may come in any order.
Correlated(e, files) ==
  LET sub == asCfg.sub
      rows == {r \in Range(ScanAll(files)) : \A c \in sub.where : Holds(c, e, r)}
      best == IF sub.desc THEN {r \in rows : \A q \in rows : q[sub.key] <= r[sub.key]} ELSE {r \in rows : \A q \in rows : r[sub.key] <= q[sub.key]}
  IN  Term(IF sub.limit = 1 THEN best ELSE rows)

\* A side of the join is a merge as above; its filter is below the merge.
SideInputs(files, filtered) == BranchInputs([shape |-> IF filtered THEN "filter" ELSE "plain", col |-> KeyName, files |-> files])
AsofSide(files, filtered) ==
  LET in == SideInputs(files, filtered) IN MergeScanExec([children |-> in.inputs, zoned |-> in.zoned])
OuterSide == AsofSide(asCfg.outer, asCfg.child = "filter")
RightSide == AsofSide(asCfg.right, asMatch.residual)

\* What the join promises: the nearest right row of the partition, of the rows it has,
\* within the tolerance.
AsofRows(m, e, side) ==
  LET gap(r) == IF m.dir = "preceding" THEN e.k - r.k ELSE r.k - e.k
      rows == {r \in side : gap(r) >= 0 /\ (m.soft => gap(r) <= m.tol) /\ \A p \in m.parts : r[p[1]] = e[p[2]]}
  IN  {r \in rows : \A q \in rows : gap(r) <= gap(q)}

\* The right side is streamed, so the join may end before a row that is out of order, with
\* whichever rows came before it; only an unbounded search ahead in partitions has them all.
Streamed(m) == m.dir = "preceding" \/ m.parts = {} \/ m.soft
RowsOf(inputs) == {inputs[i].row : i \in DOMAIN inputs}
Sides == IF RightSide.err = "nil" THEN {RowsOf(RightSide.rows)} ELSE SUBSET RowsOf(AllInputs(SideInputs(asCfg.right, asMatch.residual).inputs))
MayFail == asMatch.ok /\ (OuterSide.err # "nil" \/ RightSide.err # "nil")
MustFail == MayFail /\ (OuterSide.err # "nil" \/ ~Streamed(asMatch))

OuterRows ==
  IF asMatch.ok THEN [i \in DOMAIN OuterSide.rows |-> OuterSide.rows[i].row]
  ELSE SelectSeq(ScanAll(asCfg.outer), LAMBDA r : asCfg.child = "filter" => r.v # "drop")

AsInit(cfgs) == asCfg \in cfgs /\ asPc = "plan" /\ asMatch = NoMatch /\ asAt = 0 /\ asOut = <<>>

WireASOFJoin ==
  /\ asPc = "plan" /\ asPc' = "run" /\ asMatch' = tryLowerASOFProject
  /\ UNCHANGED <<asCfg, asAt, asOut>>

ProjectRow ==
  /\ asPc = "run" /\ ~MustFail /\ asAt < Len(OuterRows)
  /\ LET e == OuterRows[asAt + 1]
     IN  \E v \in IF asMatch.ok THEN UNION {Term(AsofRows(asMatch, e, side)) : side \in Sides} ELSE Correlated(e, asCfg.right) :
           asOut' = Append(asOut, [row |-> e, val |-> v])
  /\ asAt' = asAt + 1
  /\ UNCHANGED <<asCfg, asPc, asMatch>>

\* An input of the merge is out of order.
ProjectFails == asPc = "run" /\ MayFail /\ asPc' = "failed" /\ UNCHANGED <<asCfg, asMatch, asAt, asOut>>
ProjectEnd == asPc = "run" /\ ~MustFail /\ asAt = Len(OuterRows) /\ asPc' = "done" /\ UNCHANGED <<asCfg, asMatch, asAt, asOut>>

AsNext == WireASOFJoin \/ ProjectRow \/ ProjectFails \/ ProjectEnd
AsDone == asPc \in {"done", "failed"}

-----------------------------------------------------------------------------
(* Properties *)

\* The files of a side that the query reads.
Seen(files) == IF asMatch.ok /\ perFileScans(SortedSourceMetasForKeyspace(files)).ok THEN SortedSourceMetasForKeyspace(files) ELSE files

\* Lowered or not, the query has a row for every outer row that its WHERE keeps, and the
\* value of the term is one that the correlated subquery may yield, both over the files
\* that are read and, for the value, that are in order; it fails over files that claim
\* nothing alone.
AsofRewriteSame ==
  /\ (asMatch.ok => RightSide.err = "nil") => \A i \in DOMAIN asOut : asOut[i].val \in Correlated(asOut[i].row, Seen(asCfg.right))
  /\ asPc = "done" =>
       LET own == SelectSeq(ScanAll(Seen(asCfg.outer)), LAMBDA r : asCfg.child = "filter" => r.v # "drop")
       IN  SameRows([i \in DOMAIN asOut |-> asOut[i].row], own)
  /\ asPc = "failed" => \E f \in Range(asCfg.outer \o asCfg.right) : ~f.plugin

\* A statement that was rewritten to a merge answers what the one written did.
RewriteSound == MergeRewriteSame /\ NeverTrips /\ AsofRewriteSame

\* What the extract cache says of a file was measured on that file.
ExtractCacheTrue == CachedIsCurrent /\ EntryIsTrue
=============================================================================
