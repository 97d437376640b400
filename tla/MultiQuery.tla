----------------------------- MODULE MultiQuery -----------------------------
(***************************************************************************)
(* base/ahocorasick.go: the automaton of the predicate index.  One pass    *)
(* over the bytes of a row, slice after slice with the state carried over, *)
(* finds which of many literals are present.                               *)
(*                                                                         *)
(* A node of the trie is the prefix of a pattern that leads to it; the     *)
(* root is the empty prefix.                                               *)
(***************************************************************************)
EXTENDS Integers, Sequences, FiniteSets, SequencesExt

VARIABLES
  acCfg,       \* [patterns, slices]: the literals by id, and the slots of one row
  acFail,      \* node -> its failure link; <<>> until BuildAhoCorasick
  acOutput,    \* node -> the ids that end there, directly or through failure links
  acState,     \* the state that is threaded through Advance
  acFed,       \* slices fed so far
  acMatched    \* the ids of the AhoCorasickMatches, in first-seen order

acVars == <<acCfg, acFail, acOutput, acState, acFed, acMatched>>

Root == <<>>
Nodes == UNION {{SubSeq(p, 1, n) : n \in 0..Len(p)} : p \in Range(acCfg.patterns)} \cup {Root}
IsNode(n) == n \in Nodes
emptyIDs == {i \in DOMAIN acCfg.patterns : acCfg.patterns[i] = <<>>}

\* A failure link found by looking one link up and no further.
FailOneUp(fail, f, b) ==
  IF IsNode(Append(f, b)) THEN Append(f, b) ELSE Root

\* The walk of a node's failure chain, from f, for a node that has an edge on b.
RECURSIVE FailFrom(_, _, _)
FailFrom(fail, f, b) ==
  IF IsNode(Append(f, b)) THEN Append(f, b)
  ELSE IF f = Root THEN Root ELSE FailFrom(fail, fail[f], b)

\* The nodes in the order of the breadth-first search, and their failure links: a child of
\* the root fails to the root, a deeper one to what its parent's chain leads to.
Level(n) == {m \in Nodes : Len(m) = n}
RECURSIVE FailLinks(_, _)
FailLinks(fail, n) ==
  IF Level(n) = {} THEN fail
  ELSE FailLinks([m \in DOMAIN fail \cup Level(n) |->
                    IF m \in DOMAIN fail THEN fail[m]
                    ELSE IF n = 1 THEN Root
                    ELSE FailFrom(fail, fail[Front(m)], Last(m))], n + 1)

\* The outputs flattened along the failure links.
Ends(m) == IF m = Root THEN {} ELSE {i \in DOMAIN acCfg.patterns : acCfg.patterns[i] = m}
RECURSIVE Outputs(_, _)
Outputs(fail, m) == Ends(m) \cup IF m = Root THEN {} ELSE Outputs(fail, fail[m])

AcInit(cfgs) ==
  /\ acCfg \in cfgs
  /\ acFail = [m \in {} |-> Root] /\ acOutput = [m \in {} |-> {}]
  /\ acState = Root /\ acFed = 0 /\ acMatched = <<>>

BuildAhoCorasick ==
  /\ acFail = <<>>
  /\ acFail' = FailLinks([m \in {Root} |-> Root], 1)
  /\ acOutput' = [m \in Nodes |-> Outputs(acFail', m)]
  /\ UNCHANGED <<acCfg, acState, acFed, acMatched>>

\* add: an id is recorded once, in the order in which it is first seen.
add(ids, found) == ids \o SelectSeq(SetToSortSeq(found, <), LAMBDA i : i \notin Range(ids))

\* goto with the failure fallback.
RECURSIVE Goto(_, _)
Goto(state, c) ==
  IF IsNode(Append(state, c)) THEN Append(state, c)
  ELSE IF state = Root THEN Root ELSE Goto(acFail[state], c)

\* One byte: the transition and the outputs of the node it leads to.
Feed(scan, c) == LET s == Goto(scan.state, c) IN [state |-> s, ids |-> add(scan.ids, acOutput[s])]

Scan(state, b) ==
  FoldLeft(Feed, [state |-> state, ids |-> IF state = Root THEN add(acMatched, emptyIDs) ELSE acMatched], b)

Advance ==
  /\ acFail # <<>> /\ acFed < Len(acCfg.slices)
  /\ LET scan == Scan(acState, acCfg.slices[acFed + 1])
     IN  acState' = scan.state /\ acMatched' = scan.ids
  /\ acFed' = acFed + 1
  /\ UNCHANGED <<acCfg, acFail, acOutput>>

\* Reset, before the next row: the same bytes are scanned again.
Reset ==
  /\ acFed = Len(acCfg.slices) /\ acFail # <<>> /\ acFed > 0
  /\ acState' = Root /\ acFed' = 0 /\ acMatched' = <<>>
  /\ UNCHANGED <<acCfg, acFail, acOutput>>

AcNext == BuildAhoCorasick \/ Advance \/ Reset

-----------------------------------------------------------------------------
(* Properties *)

Occurs(p, s) == \E i \in 0..Len(s) - Len(p) : SubSeq(s, i + 1, i + Len(p)) = p

\* After every slice the ids found are those of the literals that occur in the bytes fed so
\* far, across slice boundaries too, and each is found once: an id that is missed is a query
\* that is not woken for a row it matches.
FindsExactly ==
  acFed > 0 =>
    /\ Range(acMatched) = {i \in DOMAIN acCfg.patterns : Occurs(acCfg.patterns[i], FlattenSeq(SubSeq(acCfg.slices, 1, acFed)))}
    /\ \A i, j \in 1..Len(acMatched) : acMatched[i] = acMatched[j] => i = j

-----------------------------------------------------------------------------
(***************************************************************************)
(* glue/multiquery.go, glue/multiquery_lint.go and engine/op_broadcast*.go:*)
(* a pack of statements compiled into one plan and run.  Statements of the *)
(* shape SELECT .. FROM one keyspace WHERE .. are fused: one scan of each  *)
(* keyspace, a project that computes shared sub-expressions once, and a    *)
(* fan-out that wakes a statement only for the rows that hold a literal    *)
(* its predicate needs.  The other statements run alone.                   *)
(*                                                                         *)
(* Expressions are trees [op, lit, args]; a value is [t, words, b], a      *)
(* string being the set of its words.  "alone" is an expression the native *)
(* lane does not know, "boxed" the island that keeps one.                  *)
(***************************************************************************)

CONSTANT
  MqEscaped    \* the words whose bytes are escaped in the JSON of a row

VARIABLES
  mqCfg,      \* [entries, rows, failing, stopAfter, runs]
  mqPlan,     \* what MultiQueryCompile returned; NoPlan before
  mqPc,       \* "compile", "alone", "fused", "done"
  mqNext,     \* standalone entries run so far
  mqRead,     \* keyspace -> rows of its shared scan that were read
  mqOut,      \* the label results that the consumer got
  mqErr,      \* "nil", "stop" (the consumer wants no more), "standalone" or "scan"
  mqGates,    \* [source, gate] -> allow: the gate cache
  mqSkipped,  \* GatedSkipped
  mqWoken,    \* label -> its woken counter
  mqRuns      \* runs of the compiled pack so far

mqVars == <<mqCfg, mqPlan, mqPc, mqNext, mqRead, mqOut, mqErr, mqGates, mqSkipped, mqWoken, mqRuns>>

Node(op, lit, args) == [op |-> op, lit |-> lit, args |-> args]
None == Node("none", "", <<>>)
FieldOf(f) == Node("field", f, <<>>)
Word(w) == Node("json", w, <<>>)
AlwaysTrue == Node("true", "", <<>>)

MissingVal == [t |-> "missing", words |-> {}, b |-> FALSE]
StrVal(ws) == [t |-> "str", words |-> ws, b |-> FALSE]
BoolVal(x) == [t |-> "bool", words |-> {}, b |-> x]
Truthy(v) == v.t = "bool" /\ v.b
Falsy(v) == v.t = "bool" /\ ~v.b

Upper(w) == CASE w = "load" -> "LOAD" [] w = "err" -> "ERR" [] OTHER -> w

-----------------------------------------------------------------------------
(* Evaluation of a tree over a row and the slots that the project computed *)

Logic(op, kids) ==
  LET absorbs(v) == IF op = "and" THEN Falsy(v) ELSE Truthy(v)
  IN  CASE \E i \in 1..Len(kids) : absorbs(kids[i]) -> BoolVal(op = "or")
        [] \E i \in 1..Len(kids) : kids[i].t # "bool" -> MissingVal
        [] OTHER -> BoolVal(op = "and")

RECURSIVE EvalTree(_, _, _)
EvalTree(t, row, slots) ==
  LET kids == [i \in 1..Len(t.args) |-> EvalTree(t.args[i], row, slots)]
      both == kids[1].t = "str" /\ kids[2].t = "str"
  IN  CASE t.op = "true" -> BoolVal(TRUE)
        [] t.op = "json" -> StrVal({t.lit})
        [] t.op = "field" -> row[t.lit]
        [] t.op = "slot" -> slots[t.args[1]]
        [] t.op = "upper" -> IF kids[1].t = "str" THEN StrVal({Upper(w) : w \in kids[1].words}) ELSE MissingVal
        [] t.op \in {"contains", "regexp", "meta"} -> IF both THEN BoolVal(kids[2].words \subseteq kids[1].words) ELSE MissingVal
        [] t.op = "eq" -> IF both THEN BoolVal(kids[1].words = kids[2].words) ELSE MissingVal
        [] t.op \in {"and", "or"} -> Logic(t.op, kids)
        [] t.op = "not" -> IF kids[1].t = "bool" THEN BoolVal(~kids[1].b) ELSE MissingVal
        [] t.op \in {"alone", "boxed", "object"} -> kids[1]
        [] OTHER -> MissingVal

-----------------------------------------------------------------------------
(* The compile *)

\* ExprTreeOptimize knows every operation but "alone".
RECURSIVE Native(_)
Native(t) == t.op # "alone" /\ \A i \in 1..Len(t.args) : Native(t.args[i])

Boxed(t) == Node("boxed", "", <<t>>)

nestBinaryAnd(parts) == FoldRight(LAMBDA p, acc : IF acc = None THEN p ELSE Node("and", "", <<p, acc>>), parts, None)

predTreeIndexable(expr) ==
  CASE Native(expr) -> expr
    [] expr.op = "and" /\ (\E i \in 1..Len(expr.args) : Native(expr.args[i])) /\ ~Native(expr) ->
         nestBinaryAnd([i \in 1..Len(expr.args) |-> IF Native(expr.args[i]) THEN expr.args[i] ELSE Boxed(expr.args[i])])
    [] OTHER -> Boxed(expr)

\* normalizeMultiQueryPred: a statement without WHERE matches every row.
NormalPred(e) == IF e.where = None THEN AlwaysTrue ELSE predTreeIndexable(e.where)

\* multiQueryFusedProjection: * is the row, RAW and named terms a boxed expression.
FusedProjection(e) ==
  CASE e.proj = "star" -> FieldOf("self") [] e.proj = "raw" -> Boxed(e.term) [] OTHER -> Boxed(Node("object", "", <<e.term>>))

Shape(e) == e.shape = "scan" /\ e.proj # "subquery"

\* analyzeEntry: what parses and plans is fused or runs alone, never dropped.
analyzeEntry(e) ==
  CASE e.shape = "bad" -> "rejected"
    [] Shape(e) /\ e.proj \in {"star", "raw", "named"} -> "fused"
    [] OTHER -> "standalone"

\* lintOne, which is told apart from analyzeEntry by the projections it accepts.
lintOne(e) == CASE e.shape = "bad" -> "rejected" [] Shape(e) -> "fused" [] OTHER -> "standalone"

-----------------------------------------------------------------------------
(* BroadcastCSE over the queries of one keyspace: sequences of [label, pred, proj] *)

Leaf(t) == t.op \in {"json", "true", "field", "slot"}
Inner(t) == IF t.op = "boxed" THEN <<>> ELSE t.args

RECURSIVE Subtrees(_)
Subtrees(t) == {t} \cup UNION {Subtrees(Inner(t)[i]) : i \in 1..Len(Inner(t))}

RECURSIVE Occurrences(_, _)
Occurrences(x, t) ==
  (IF x = t THEN 1 ELSE 0) + FoldSeq(LAMBDA k, n : n + Occurrences(x, k), 0, Inner(t))

\* cseCount and the selection of candidates.
CseKeys(queries) ==
  LET trees == UNION {Subtrees(queries[i].pred) \cup Subtrees(queries[i].proj) : i \in 1..Len(queries)}
      count(x) == FoldSeq(LAMBDA q, n : n + Occurrences(x, q.pred) + Occurrences(x, q.proj), 0, queries)
  IN  {x \in trees : ~Leaf(x) /\ count(x) >= 2}

\* As cseRewrite, but a slot is named by the operation and not by the whole tree.
RECURSIVE RewriteByOp(_, _)
RewriteByOp(t, keys) ==
  IF \E k \in keys : k.op = t.op THEN Node("slot", "", <<CHOOSE k \in keys : k.op = t.op>>)
  ELSE IF t.op = "boxed" THEN t
  ELSE Node(t.op, t.lit, [i \in 1..Len(t.args) |-> RewriteByOp(t.args[i], keys)])

\* The outermost candidate is replaced, and what is inside it is left alone.
RECURSIVE cseRewrite(_, _)
cseRewrite(t, keys) ==
  IF t \in keys THEN Node("slot", "", <<t>>)
  ELSE IF t.op = "boxed" THEN t
  ELSE Node(t.op, t.lit, [i \in 1..Len(t.args) |-> cseRewrite(t.args[i], keys)])

\* The project below the fan-out: the row and one slot for each candidate.
Precompute(keys, row) == [k \in keys |-> EvalTree(k, row, [x \in {} |-> MissingVal])]

-----------------------------------------------------------------------------
(* The predicate index *)

\* A literal taken from any operand that is searched.
AnyOperand(t) == TRUE
\* A field of the row, or a slot: what is in the bytes of the row as it is.
isFieldOperand(t) == t.op \in {"field", "slot"}
IsWord(t) == t.op = "json"

NoLiteral == [ok |-> FALSE, lit |-> ""]
Literal(w) == [ok |-> TRUE, lit |-> w]

\* A literal without which the predicate cannot be true.  An expression with metacharacters
\* is the operation "meta".
RECURSIVE PrefilterLiteral(_)
PrefilterLiteral(t) ==
  CASE t.op \in {"contains", "regexp"} /\ isFieldOperand(t.args[1]) /\ IsWord(t.args[2]) -> Literal(t.args[2].lit)
    [] t.op = "eq" /\ IsWord(t.args[2]) /\ isFieldOperand(t.args[1]) -> Literal(t.args[2].lit)
    [] t.op = "eq" /\ IsWord(t.args[1]) /\ isFieldOperand(t.args[2]) -> Literal(t.args[1].lit)
    [] t.op = "and" ->
         LET lits == SelectSeq([i \in 1..Len(t.args) |-> PrefilterLiteral(t.args[i])], LAMBDA l : l.ok)
         IN  IF lits = <<>> THEN NoLiteral ELSE lits[1]
    [] OTHER -> NoLiteral

\* The automaton runs over the bytes of every slot: the document and the computed ones.
SlotBytes(v) == v.words \ MqEscaped
Present(row, slots) ==
  UNION {SlotBytes(row[f]) : f \in {"f", "g"}} \cup UNION {SlotBytes(slots[k]) : k \in DOMAIN slots}

Wakes(q, row, slots) == q.lit.ok => q.lit.lit \in Present(row, slots)

\* BroadcastIndexedExec on one row: queries keyed to a literal first, then the ones that
\* wake always; a result for each whose predicate holds.
Woken(queries, row, slots) == SelectSeq(queries, LAMBDA q : Wakes(q, row, slots))
Results(queries, row, slots) ==
  LET hits == SelectSeq(Woken(queries, row, slots), LAMBDA q : Truthy(EvalTree(q.pred, row, slots)))
      keyed == SelectSeq(hits, LAMBDA q : q.lit.ok) \o SelectSeq(hits, LAMBDA q : ~q.lit.ok)
  IN  [i \in 1..Len(keyed) |-> [label |-> keyed[i].label, id |-> row.id, val |-> EvalTree(keyed[i].proj, row, slots)]]

-----------------------------------------------------------------------------
NoPlan == [standalone |-> <<>>, rejected |-> {}, cse |-> [k \in {} |-> {}], queries |-> [k \in {} |-> <<>>]]

RowsOf(ks) == SelectSeq(mqCfg.rows, LAMBDA r : r.ks = ks)

MqInit(cfgs) ==
  /\ mqCfg \in cfgs
  /\ mqPlan = NoPlan /\ mqPc = "compile" /\ mqNext = 0 /\ mqRead = [k \in {} |-> 0] /\ mqOut = <<>> /\ mqErr = "nil"
  /\ mqGates = [k \in {} |-> FALSE] /\ mqSkipped = {} /\ mqWoken = [l \in {} |-> 0] /\ mqRuns = 0

\* One fan-out for each keyspace that a fused statement reads, with its queries in order.
MultiQueryCompile ==
  /\ mqPc = "compile"
  /\ LET fused == SelectSeq(mqCfg.entries, LAMBDA e : analyzeEntry(e) = "fused")
         spaces == {fused[i].ks : i \in 1..Len(fused)}
         raw(ks) == LET mine == SelectSeq(fused, LAMBDA e : e.ks = ks)
                    IN  [i \in 1..Len(mine) |-> [label |-> mine[i].label, pred |-> NormalPred(mine[i]), proj |-> FusedProjection(mine[i])]]
         cse == [ks \in spaces |-> CseKeys(raw(ks))]
         rewritten(ks) ==
           [i \in 1..Len(raw(ks)) |->
              LET p == cseRewrite(raw(ks)[i].pred, cse[ks])
              IN  [label |-> raw(ks)[i].label, pred |-> p, proj |-> cseRewrite(raw(ks)[i].proj, cse[ks]), lit |-> PrefilterLiteral(p)]]
     IN  mqPlan' = [standalone |-> SelectSeq(mqCfg.entries, LAMBDA e : analyzeEntry(e) = "standalone"),
                    rejected |-> {mqCfg.entries[i].label : i \in {j \in 1..Len(mqCfg.entries) : analyzeEntry(mqCfg.entries[j]) = "rejected"}},
                    cse |-> cse, queries |-> [ks \in spaces |-> rewritten(ks)]]
  /\ mqPc' = "start"
  /\ UNCHANGED <<mqCfg, mqNext, mqRead, mqOut, mqErr, mqGates, mqSkipped, mqWoken, mqRuns>>

\* As Counters, but what an earlier run counted stays.
CountersKept(woken) ==
  [l \in UNION {{mqPlan.queries[k][i].label : i \in 1..Len(mqPlan.queries[k])} : k \in DOMAIN mqPlan.queries} |->
     IF l \in DOMAIN woken THEN woken[l] ELSE 0]

Counters(woken) ==
  [l \in UNION {{mqPlan.queries[k][i].label : i \in 1..Len(mqPlan.queries[k])} : k \in DOMAIN mqPlan.queries} |-> 0]

\* RunReport and runStream begin: the counters, the skipped list and the gates are new.  A
\* pack of which every statement was rejected is refused by reportMultiQueryRejects.
Run ==
  /\ mqPc = "start" \/ (mqPc = "done" /\ mqRuns < mqCfg.runs)
  /\ DOMAIN mqPlan.queries # {} \/ mqPlan.standalone # <<>> \/ mqPlan.rejected = {}
  /\ mqPc' = "alone" /\ mqNext' = 0 /\ mqRead' = [k \in DOMAIN mqPlan.queries |-> 0] /\ mqOut' = <<>> /\ mqErr' = "nil"
  /\ mqGates' = [k \in {} |-> FALSE] /\ mqSkipped' = {} /\ mqWoken' = Counters(mqWoken) /\ mqRuns' = mqRuns + 1
  /\ UNCHANGED <<mqCfg, mqPlan>>

\* onLabelResult over a list: the consumer of MULTI_MATCHES may want no more, and what
\* comes after an error is dropped.
Deliver(out, results) ==
  LET all == out \o results
      stops == mqCfg.stopAfter > 0 /\ Len(all) >= mqCfg.stopAfter
  IN  [out |-> IF stops THEN SubSeq(all, 1, mqCfg.stopAfter) ELSE all, stops |-> stops]

AloneRows(e) ==
  LET rows == SelectSeq(RowsOf(e.ks), LAMBDA r : e.where = None \/ Truthy(EvalTree(e.where, r, <<>>)))
  IN  [i \in 1..Len(rows) |-> [label |-> e.label, id |-> rows[i].id, val |-> EvalTree(e.term, rows[i], <<>>)]]

GateHolds(e) == \E i \in 1..Len(RowsOf(e.ks)) : Truthy(EvalTree(e.gate, RowsOf(e.ks)[i], <<>>))

\* streamStandalone, one entry: a gate that no row satisfies skips it, a gate that cannot
\* be evaluated does not; the statement's own error ends the run.
Standalone ==
  /\ mqPc = "alone" /\ mqNext < Len(mqPlan.standalone)
  /\ LET e == mqPlan.standalone[mqNext + 1]
         key == <<e.ks, e.gate>>
         probed == e.gate # None /\ e.gate.op # "bad"
         allow == IF key \in DOMAIN mqGates THEN mqGates[key] ELSE GateHolds(e)
         d == Deliver(mqOut, AloneRows(e))
     IN  /\ mqGates' = IF probed THEN [k \in DOMAIN mqGates \cup {key} |-> IF k = key THEN allow ELSE mqGates[k]] ELSE mqGates
         /\ IF probed /\ ~allow
            THEN mqSkipped' = mqSkipped \cup {e.label} /\ mqNext' = mqNext + 1 /\ UNCHANGED <<mqOut, mqErr, mqPc>>
            ELSE IF e.shape = "fails"
            THEN mqErr' = "standalone" /\ mqPc' = "done" /\ UNCHANGED <<mqOut, mqSkipped, mqNext>>
            ELSE /\ mqOut' = d.out /\ mqNext' = mqNext + 1 /\ UNCHANGED mqSkipped
                 /\ IF d.stops THEN mqErr' = "stop" /\ mqPc' = "done" ELSE UNCHANGED <<mqErr, mqPc>>
  /\ UNCHANGED <<mqCfg, mqPlan, mqRead, mqWoken, mqRuns>>

StandaloneDone ==
  /\ mqPc = "alone" /\ mqNext = Len(mqPlan.standalone)
  /\ mqPc' = IF DOMAIN mqPlan.queries = {} THEN "done" ELSE "fused"
  /\ UNCHANGED <<mqCfg, mqPlan, mqNext, mqRead, mqOut, mqErr, mqGates, mqSkipped, mqWoken, mqRuns>>

\* A row of the shared scan of one keyspace.  The scans are the children of a union, so
\* the rows of different keyspaces come in any order.  After an error the scans go on and
\* what they yield is dropped.
FusedRow(ks) ==
  /\ mqPc = "fused" /\ ks \in DOMAIN mqPlan.queries /\ mqRead[ks] < Len(RowsOf(ks))
  /\ mqRead' = [mqRead EXCEPT ![ks] = @ + 1]
  /\ LET row == RowsOf(ks)[mqRead[ks] + 1]
         slots == Precompute(mqPlan.cse[ks], row)
         woken == Woken(mqPlan.queries[ks], row, slots)
         d == Deliver(mqOut, Results(mqPlan.queries[ks], row, slots))
     IN  /\ mqWoken' = [l \in DOMAIN mqWoken |-> mqWoken[l] + Cardinality({i \in 1..Len(woken) : woken[i].label = l})]
         /\ IF mqErr # "nil" THEN UNCHANGED <<mqOut, mqErr>>
            ELSE mqOut' = d.out /\ mqErr' = IF d.stops THEN "stop" ELSE "nil"
  /\ UNCHANGED <<mqCfg, mqPlan, mqPc, mqNext, mqGates, mqSkipped, mqRuns>>

\* A scan ends, with an error for a keyspace that cannot be read to its end.
ScanFails(ks) ==
  /\ mqPc = "fused" /\ ks \in DOMAIN mqPlan.queries /\ ks \in mqCfg.failing /\ mqRead[ks] < Len(RowsOf(ks))
  /\ mqRead' = [mqRead EXCEPT ![ks] = Len(RowsOf(ks))]
  /\ mqErr' = IF mqErr = "nil" THEN "scan" ELSE mqErr
  /\ UNCHANGED <<mqCfg, mqPlan, mqPc, mqNext, mqOut, mqGates, mqSkipped, mqWoken, mqRuns>>

FusedDone ==
  /\ mqPc = "fused" /\ \A ks \in DOMAIN mqPlan.queries : mqRead[ks] = Len(RowsOf(ks))
  /\ mqPc' = "done"
  /\ UNCHANGED <<mqCfg, mqPlan, mqNext, mqRead, mqOut, mqErr, mqGates, mqSkipped, mqWoken, mqRuns>>

MqNext == MultiQueryCompile \/ Run \/ Standalone \/ StandaloneDone \/ (\E ks \in {"k1", "k2"} : FusedRow(ks) \/ ScanFails(ks)) \/ FusedDone

\* A pack that nothing of compiled is refused before it runs.
Refused == mqPc = "start" /\ DOMAIN mqPlan.queries = {} /\ mqPlan.standalone = <<>> /\ mqPlan.rejected # {}
MqDone == Refused \/ (mqPc = "done" /\ mqRuns >= mqCfg.runs)

-----------------------------------------------------------------------------
(* Properties *)

Entries == Range(mqCfg.entries)
ResultsOf(l) == SelectSeq(mqOut, LAMBDA r : r.label = l)

\* What a statement yields when it is run by itself, whichever lane it takes.
OwnRow(e, r) == [label |-> e.label, id |-> r.id, val |-> EvalTree(e.term, r, <<>>)]
OwnRows(e) ==
  {OwnRow(e, r) : r \in {x \in Range(RowsOf(e.ks)) : e.where = None \/ Truthy(EvalTree(e.where, x, <<>>))}}

\* A run that ends without an error and that nobody stopped has, for every statement that
\* compiled and that no gate skipped, the rows that the statement yields alone, each once:
\* whatever the shared sub-expressions, the literals of the index and the other statements.
PackExact ==
  mqPc = "done" /\ mqErr = "nil" =>
    \A e \in Entries :
      LET got == ResultsOf(e.label)
      IN  IF e.label \in mqPlan.rejected \cup mqSkipped THEN got = <<>>
          ELSE Range(got) = OwnRows(e) /\ Len(got) = Cardinality(OwnRows(e))

\* The report's counters are those of its own run: a statement was woken for every row it
\* matched and never more often than its keyspace has rows.
ReportTrue ==
  mqPc = "done" =>
    \A e \in Entries : e.label \in DOMAIN mqWoken =>
      /\ Len(ResultsOf(e.label)) <= mqWoken[e.label]
      /\ mqWoken[e.label] <= Len(RowsOf(e.ks))

\* "An entry MultiQueryLint calls fused is one MultiQueryCompile would fuse."
LintFaithful == mqPc # "compile" => \A e \in Entries : lintOne(e) = analyzeEntry(e)

\* The entries of a pack, fused over one scan, answer what each would alone,
\* and the report names what was fused.
PacksExact == FindsExactly /\ PackExact /\ ReportTrue

-----------------------------------------------------------------------------
(***************************************************************************)
(* glue/compose.go and cmd/n1k1/multi_compose.go: a graph of packs, each   *)
(* run after the ones it needs, whose rows it reads from temporary         *)
(* keyspaces.  The keyspaces outlive a run of the graph: the next one on   *)
(* the same session finds those of the last.                               *)
(*                                                                         *)
(* A node is named by a number, so that names have their order.            *)
(***************************************************************************)

VARIABLES
  coCfg,      \* [files, allowRejected, pick, runs]; a file is a node [name, needs, reads, broken, fails]
  coRun,      \* runs of the command so far
  coPc,       \* "idle", "run", "done", "failed"
  coOrder,    \* what TopoOrder returned
  coAt,       \* nodes of the order that have run
  coTemp,     \* name -> the run and the rows of its temporary keyspace
  coNodes,    \* name -> [rejected, saw] of this run
  coShown     \* the nodes whose rows the command printed

coVars == <<coCfg, coRun, coPc, coOrder, coAt, coTemp, coNodes, coShown>>

NodeFiles == Range(coCfg.files)
NodeNames == {f.name : f \in NodeFiles}
NodeOf(n) == CHOOSE f \in NodeFiles : f.name = n
DuplicateName == \E i, j \in 1..Len(coCfg.files) : i # j /\ coCfg.files[i].name = coCfg.files[j].name

\* visit: a depth-first search with three colours.  An error ends it.
VisitState(order, gray, black, err) == [order |-> order, gray |-> gray, black |-> black, err |-> err]

RECURSIVE Visit(_, _)
VisitAll(ns, st) == FoldLeft(LAMBDA s, n : IF s.err # "nil" THEN s ELSE Visit(n, s), st, SetToSortSeq(ns, <))

Visit(n, st) ==
  CASE n \in st.black -> st
    [] n \notin st.black /\ n \in st.gray -> [st EXCEPT !.err = "cycle"]
    [] n \notin st.black \cup st.gray /\ n \notin NodeNames -> [st EXCEPT !.err = "unknown"]
    [] OTHER ->
         LET deep == VisitAll(NodeOf(n).needs, [st EXCEPT !.gray = @ \cup {n}])
         IN  IF deep.err # "nil" THEN deep
             ELSE VisitState(Append(deep.order, n), deep.gray \ {n}, deep.black \cup {n}, "nil")

\* As TopoOrder, but nodes are taken by name alone.
OrderByName ==
  IF DuplicateName THEN VisitState(<<>>, {}, {}, "duplicate")
  ELSE VisitState(SetToSortSeq(NodeNames, <), {}, NodeNames, VisitAll(NodeNames, VisitState(<<>>, {}, {}, "nil")).err)

\* As TopoOrder, but the second node of a name replaces the first.
LastOfName == VisitAll(NodeNames, VisitState(<<>>, {}, {}, "nil"))

TopoOrder ==
  IF DuplicateName THEN VisitState(<<>>, {}, {}, "duplicate")
  ELSE VisitAll(NodeNames, VisitState(<<>>, {}, {}, "nil"))

\* selectComposeNodes: the ones that were named, those that nobody needs, or all.
selectComposeNodes ==
  CASE coCfg.pick = "terminal" -> {n \in NodeNames : \A f \in NodeFiles : n \notin f.needs}
    [] coCfg.pick = "all" -> NodeNames
    [] OTHER -> {1}

CoInit(cfgs) ==
  /\ coCfg \in cfgs /\ coRun = 0 /\ coPc = "idle" /\ coOrder = <<>> /\ coAt = 0
  /\ coTemp = [n \in {} |-> [run |-> 0, rows |-> {}]] /\ coNodes = [n \in {} |-> [rejected |-> FALSE, saw |-> {}]] /\ coShown = {}

\* The command begins: the order is computed before anything runs.
ComposeBegin ==
  /\ coPc \in {"idle", "done", "failed"} /\ coRun < coCfg.runs
  /\ coRun' = coRun + 1 /\ coAt' = 0 /\ coShown' = {} /\ coNodes' = [n \in {} |-> [rejected |-> FALSE, saw |-> {}]]
  /\ coOrder' = TopoOrder.order
  /\ coPc' = IF TopoOrder.err = "nil" THEN "run" ELSE "failed"
  /\ UNCHANGED <<coCfg, coTemp>>

\* What FROM node('m') yields: the rows of the keyspace of m, if there is one.
NodeRows(n) == UNION {coTemp[m].rows : m \in NodeOf(n).reads}
Resolves(n) == NodeOf(n).reads \subseteq DOMAIN coTemp

materializeLabelResults(n, rows) ==
  coTemp' = [m \in DOMAIN coTemp \cup {n} |-> IF m = n THEN [run |-> coRun, rows |-> rows] ELSE coTemp[m]]

\* One node: a pack that does not compile, because it is broken or reads what is not
\* there, leaves an empty keyspace; one that fails when it runs ends the graph.
RunNode ==
  /\ coPc = "run" /\ coAt < Len(coOrder)
  /\ LET n == coOrder[coAt + 1]
         rejected == NodeOf(n).broken \/ ~Resolves(n)
     IN  IF rejected
         THEN /\ coNodes' = [m \in DOMAIN coNodes \cup {n} |-> IF m = n THEN [rejected |-> TRUE, saw |-> {}] ELSE coNodes[m]]
              /\ materializeLabelResults(n, {}) /\ coAt' = coAt + 1 /\ UNCHANGED coPc
         ELSE IF NodeOf(n).fails
         THEN coPc' = "failed" /\ UNCHANGED <<coNodes, coTemp, coAt>>
         ELSE /\ coNodes' = [m \in DOMAIN coNodes \cup {n} |-> IF m = n THEN [rejected |-> FALSE, saw |-> NodeRows(n)] ELSE coNodes[m]]
              /\ materializeLabelResults(n, NodeRows(n) \cup {[node |-> n, run |-> coRun]})
              /\ coAt' = coAt + 1 /\ UNCHANGED coPc
  /\ UNCHANGED <<coCfg, coRun, coOrder, coShown>>

\* The envelope; a rejected node fails the command unless that is allowed.
ComposeEnd ==
  /\ coPc = "run" /\ coAt = Len(coOrder)
  /\ coShown' = {n \in selectComposeNodes : n \in DOMAIN coNodes /\ ~coNodes[n].rejected}
  /\ coPc' = IF (\E n \in DOMAIN coNodes : coNodes[n].rejected) /\ ~coCfg.allowRejected THEN "failed" ELSE "done"
  /\ UNCHANGED <<coCfg, coRun, coOrder, coAt, coTemp, coNodes>>

CoNext == ComposeBegin \/ RunNode \/ ComposeEnd
CoDone == coPc \in {"done", "failed"} /\ coRun >= coCfg.runs

-----------------------------------------------------------------------------
(* Properties *)

Reaches(a, b) ==
  LET step(S) == S \cup UNION {NodeOf(n).needs : n \in S \cap NodeNames}
      closure[i \in 0..Cardinality(NodeNames)] == IF i = 0 THEN NodeOf(a).needs ELSE step(closure[i - 1])
  IN  b \in closure[Cardinality(NodeNames)]
Upstream(n) == {m \in NodeNames : Reaches(n, m)}
WellFormed == ~DuplicateName /\ \A f \in NodeFiles : f.needs \subseteq NodeNames /\ ~Reaches(f.name, f.name)

\* A graph runs exactly when it has an order, that is no cycle, no unknown and no
\* ambiguous node; and every node has its place once.
OrderSound ==
  coRun > 0 =>
    /\ WellFormed => coOrder # <<>> \/ NodeNames = {}
    /\ coPc \in {"run", "done"} => WellFormed /\ Range(coOrder) = NodeNames /\ Len(coOrder) = Cardinality(NodeNames)

\* Where every node declares what it reads, a node sees the rows of this run, and of every
\* node upstream of it that ran, whatever an earlier run left in the session.
ReadsThisRun ==
  (\A f \in NodeFiles : f.reads = f.needs) =>
    \A n \in DOMAIN coNodes : ~coNodes[n].rejected =>
      /\ Upstream(n) \subseteq DOMAIN coNodes
      /\ coNodes[n].saw = {[node |-> m, run |-> coRun] :
        m \in {x \in Upstream(n) : ~coNodes[x].rejected
                 /\ \E y \in NodeOf(n).needs : ~coNodes[y].rejected /\ (x = y \/ (x \in Upstream(y) /\ [node |-> x, run |-> coRun] \in coNodes[y].saw))}}

\* Entries that read other entries run after them and see their rows of this
\* very run.
ComposeSound == ReadsThisRun /\ OrderSound
=============================================================================
