-------------------------------- MODULE Conv --------------------------------
(***************************************************************************)
(* glue/conv.go: a plan of the query planner becomes a tree of n1k1's      *)
(* operators.  The planner's operators pass whole items on, with every     *)
(* name still in them; ours pass tuples of values under labels, and what a *)
(* label list lacks is MISSING.  glue/expr.go's ConvertVals is how an      *)
(* expression finds a name among the labels.                               *)
(*                                                                         *)
(* A plan is a sequence of operators, each a record with a field op.  A    *)
(* value is [n, f, s]: a number (-1 is MISSING), the fields of a document, *)
(* the bindings of a row that became a value.  An expression is [x, a, f]: *)
(* the field a.f, the name a, the id of the document a, the computed       *)
(* a.f + 1, COUNT( * ), or the row itself.                                 *)
(***************************************************************************)
EXTENDS Integers, Sequences, FiniteSets, SequencesExt

VARIABLES
  cvPlan,     \* the plan
  cvAt,       \* operators of it that were visited
  cvConv,     \* the Conv: [top, keys, na], keys the labels of computed group keys
  cvPc,       \* "visit", "run", "done"
  cvOut       \* the rows that the converted tree yields

cvVars == <<cvPlan, cvAt, cvConv, cvPc, cvOut>>

Num(i) == [n |-> i, f |-> <<>>, s |-> {}]
Missing == Num(-1)
DocVal(f) == [n |-> 0, f |-> f, s |-> {}]
IsMissing(v) == v.n = -1

Label(k, p) == [k |-> k, p |-> p]
FieldLabel(name) == Label("field", <<name>>)
IdLabel == Label("id", <<>>)
AggLabel == Label("aggregates", <<>>)
RawLabel == Label("raw", <<>>)
StarLabel == Label("star", <<>>)

FieldExpr(a, f) == [x |-> "field", a |-> a, f |-> f]
NameExpr(a) == [x |-> "name", a |-> a, f |-> ""]

-----------------------------------------------------------------------------
(* Names among the labels *)

IndexOf(labels, l) == LET at == {i \in DOMAIN labels : labels[i] = l} IN IF at = {} THEN 0 ELSE CHOOSE i \in at : \A j \in at : i <= j
labelPath(labels, vals, l) == LET i == IndexOf(labels, l) IN IF i = 0 THEN Missing ELSE vals[i]

Greatest(at) == CHOOSE i \in at : \A j \in at : j <= i
DocField(v, f) == IF f \in DOMAIN v.f THEN Num(v.f[f]) ELSE Missing

\* Convert: labels set fields of one object from left to right, a star spreads its own; the
\* id that follows a document is that document's.
Bound(labels, vals, name) ==
  LET at == {i \in DOMAIN labels : labels[i] = FieldLabel(name) \/ (labels[i] = StarLabel /\ \E b \in vals[i].s : b[1] = name)}
      i == Greatest(at)
  IN  IF at = {} THEN Missing ELSE IF labels[i] = StarLabel THEN (CHOOSE b \in vals[i].s : b[1] = name)[2] ELSE vals[i]
IdOf(labels, vals, name) ==
  LET at == {i \in DOMAIN labels : labels[i] = FieldLabel(name) /\ ~IsMissing(vals[i]) /\ i < Len(labels) /\ labels[i + 1] = IdLabel}
  IN  IF at = {} THEN Missing ELSE vals[Greatest(at) + 1]

Names(labels, vals) == {<<labels[i].p[1], vals[i]>> : i \in {j \in DOMAIN labels : labels[j].k = "field" /\ Len(labels[j].p) = 1 /\ ~IsMissing(vals[j])}}
\* The bindings that SELECT * spreads: the names of LET are left out.
Self(labels, vals, hidden) == [n |-> 0, f |-> <<>>, s |-> {b \in Names(labels, vals) : b[1] \notin hidden}]
\* The row as a value of its own: the one raw value, or a document of its columns.
Wrapped(labels, vals) ==
  LET columns == Names(labels, vals)
  IN  IF labels = <<RawLabel>> THEN vals[1] ELSE DocVal([g \in {b[1] : b \in columns} |-> (CHOOSE b \in columns : b[1] = g)[2].n])
PathStar(v) == [n |-> 0, f |-> <<>>, s |-> {<<g, Num(v.f[g])>> : g \in DOMAIN v.f}]

exprTree(e, labels, vals) ==
  LET nested == IndexOf(labels, Label("field", <<e.a, e.f>>))
      field == IF nested # 0 THEN vals[nested] ELSE DocField(Bound(labels, vals, e.a), e.f)
  IN  CASE e.x = "field" -> field
        [] e.x = "calc" -> IF IsMissing(field) THEN Missing ELSE Num(field.n + 1)
        [] e.x = "name" -> Bound(labels, vals, e.a)
        [] e.x = "meta" -> IdOf(labels, vals, e.a)
        [] e.x = "count" -> labelPath(labels, vals, AggLabel)
        [] e.x = "pathstar" -> PathStar(Bound(labels, vals, e.a))
        [] e.x = "wrap" -> Wrapped(labels, vals)
        [] OTHER -> Self(labels, vals, {e.a})

\* A parameter of a project or an order: an expression, or a label that is read as it is.
Tree(e) == [path |-> FALSE, l |-> IdLabel, e |-> e]
Path(l) == [path |-> TRUE, l |-> l, e |-> NameExpr("")]
Param(p, labels, vals) == IF p.path THEN labelPath(labels, vals, p.l) ELSE exprTree(p.e, labels, vals)

\* A condition compares two expressions; MISSING satisfies none.
Compare(cmp, x, y) == ~IsMissing(x) /\ ~IsMissing(y) /\ IF cmp = "eq" THEN x.n = y.n ELSE x.n <= y.n
Satisfies(conds, labels, vals) ==
  \A i \in DOMAIN conds : Compare(conds[i].cmp, exprTree(conds[i].l, labels, vals), exprTree(conds[i].r, labels, vals))

-----------------------------------------------------------------------------
(* The Visit methods; c is the Conv *)

Op(kind, labels, params, kids) == [kind |-> kind, labels |-> labels, params |-> params, kids |-> kids]
NoOp == Op("none", <<>>, <<>>, <<>>)
TopSet(c, op) == [c EXCEPT !.top = op]
TopPush(c, kind, labels, params) == TopSet(c, Op(kind, labels, params, IF c.top.kind = "none" THEN <<>> ELSE <<c.top>>))
NA(c) == [c EXCEPT !.na = TRUE]
DocLabels(alias) == <<FieldLabel(alias), IdLabel>>
NewConv == [top |-> NoOp, keys |-> {}, na |-> FALSE]

\* The primary scan, a union of index scans and a count scan read the records; an index
\* that covers what is asked for, but cannot give the document back, is fetched from.
VisitScan(o, c) ==
  LET index == TopPush(c, "datastore-scan-index", <<IdLabel>>, o)
  IN  CASE o.how \in {"primary", "union", "count"} -> TopPush(c, "datastore-scan-records", DocLabels(o.alias), o)
        [] o.how = "fts" -> TopPush(c, "datastore-scan-fts", DocLabels(o.alias), o)
        [] o.how = "index" -> index
        [] o.how = "covers" -> TopPush(index, "datastore-fetch", DocLabels(o.alias), o)
        [] OTHER -> NA(c)

VisitFetch(o, c) ==
  CASE c.top.kind \in {"datastore-scan-records", "datastore-scan-fts", "datastore-fetch"} -> c
    [] o.subPaths /\ c.top.kind = "datastore-scan-index" -> NA(c)
    [] OTHER -> TopPush(c, "datastore-fetch", DocLabels(o.alias), o)

VisitFilter(conds, c) == IF conds = <<>> THEN c ELSE TopPush(c, "filter", c.top.labels, conds)

NLJoin(o, c, right) == TopSet(c, Op(IF o.outer THEN "joinNL-leftOuter" ELSE "joinNL-inner", c.top.labels \o right.labels, o.on, <<c.top, right>>))
HashInner(o, c, right) == TopSet(c, Op("joinHash-inner", right.labels \o c.top.labels, [build |-> o.keys[1].r, probe |-> o.keys[1].l], <<right, c.top>>))

VisitNLJoin(o, c, right) == VisitFilter(o.filter, NLJoin(o, c, right))

\* The hash compares one pair of keys; an ON with more terms is applied to its pairs.
HashResidual(o, c) == IF Len(o.on) > 1 THEN VisitFilter(o.on, c) ELSE c

\* A hash join for one pair of keys: with no ON, for an inner one with the whole ON applied
\* again, for a left outer one whose ON is that pair alone.  Otherwise a nested loop, which
\* has no place for the filter.
VisitHashJoin(o, c, right) ==
  LET one == Len(o.keys) = 1
      plain == o.filter = <<>> /\ one
  IN  CASE o.on = <<>> /\ (o.outer \/ ~one) -> NA(c)
        [] o.on = <<>> /\ ~o.outer /\ one -> VisitFilter(o.filter, HashInner(o, c, right))
        [] o.on # <<>> /\ plain /\ ~o.outer -> HashResidual(o, HashInner(o, c, right))
        [] o.on # <<>> /\ plain /\ o.outer /\ Len(o.on) = 1 ->
             TopSet(c, Op("joinHash-leftOuter", c.top.labels \o right.labels, [build |-> o.keys[1].l, probe |-> o.keys[1].r], <<c.top, right>>))
        [] OTHER -> NLJoin(o, c, right)

\* A project that passes every label through and adds one, for each binding.
KeyOr(c, e) == IF \E k \in c.keys : k.e = e THEN Path((CHOOSE k \in c.keys : k.e = e).l) ELSE Tree(e)
AddBinding(c, b) ==
  LET labels == c.top.labels
  IN  TopPush(c, "project", Append(labels, FieldLabel(b.name)), Append([i \in DOMAIN labels |-> Path(labels[i])], KeyOr(c, b.e)))
VisitLet(o, c) == FoldLeft(AddBinding, c, o.bindings)

\* Keys that are a path are found again under that path, others under a label of their own.
SynthLabel(n) == Label("field", <<"$group", "key", n>>)
KeyLabel(e, n) == CASE e.x = "field" -> Label("field", <<e.a, e.f>>) [] e.x = "name" -> FieldLabel(e.a) [] OTHER -> SynthLabel(n)
VisitFinalGroup(o, c) ==
  LET base == Cardinality(c.keys)
      computed == {i \in DOMAIN o.keys : o.keys[i].x \notin {"field", "name"}}
      labels == [i \in DOMAIN o.keys |-> KeyLabel(o.keys[i], base + i)]
      kept == {k \in c.keys : \A i \in computed : k.e # o.keys[i]}
  IN  [TopPush(c, "group", IF o.agg THEN Append(labels, AggLabel) ELSE labels, o) EXCEPT
        !.keys = kept \cup {[e |-> o.keys[i], l |-> labels[i]] : i \in computed}]

VisitInitialProject(o, c) ==
  LET star(t) == t.e.x \in {"self", "pathstar"}
  IN  TopPush(c, "project",
        [i \in DOMAIN o.terms |-> IF star(o.terms[i]) THEN StarLabel ELSE IF o.raw THEN RawLabel ELSE FieldLabel(o.terms[i].alias)],
        [i \in DOMAIN o.terms |-> IF star(o.terms[i]) THEN Tree(o.terms[i].e) ELSE KeyOr(c, o.terms[i].e)])

\* As VisitDistinct, but only the first column tells rows apart.
FirstColumn(c) == IF c.top.kind = "distinct" THEN c ELSE TopPush(c, "distinct", c.top.labels, <<c.top.labels[1]>>)
VisitDistinct(c) == IF c.top.kind = "distinct" THEN c ELSE TopPush(c, "distinct", c.top.labels, c.top.labels)

VisitUnionAll(c, branches) ==
  LET all == FlattenSeq([i \in DOMAIN branches |-> branches[i].labels])
      first == SelectSeq([i \in DOMAIN all |-> i], LAMBDA i : \A j \in 1..i - 1 : all[j] # all[i])
  IN  IF branches = <<>> THEN NA(c) ELSE TopSet(c, Op("union-all", [i \in DOMAIN first |-> all[first[i]]], <<>>, branches))

Paging(offset, limit) == [offset |-> offset, limit |-> limit]
OrderParams(keys, terms, o) == [keys |-> keys, desc |-> [i \in DOMAIN terms |-> terms[i].desc], page |-> Paging(o.offset, o.limit)]
\* As AggVisible, but boxed: it is evaluated above the group, where there is no aggregate.
BoxAnyway(keys, labels) == TRUE
\* An aggregate in an ORDER BY is a column of the input, or the statement is rejected.
AggVisible(keys, labels) == \A i \in DOMAIN keys : ~keys[i].path /\ keys[i].e.x = "count" => IndexOf(labels, AggLabel) # 0

Augments(top) ==
  /\ top.kind = "project" /\ Len(top.kids) = 1
  /\ (\A i \in DOMAIN top.labels : top.labels[i].k = "field") \/ top.labels = <<RawLabel>>

\* As VisitOrder, but over the projected columns only.
OrderProjected(o, c) ==
  TopPush(c, "order-offset-limit", c.top.labels, OrderParams([i \in DOMAIN o.terms |-> Tree(o.terms[i].e)], o.terms, o))
\* An order over a projection sorts the projected columns together with the documents and
\* aggregates below it, and then projects the former.
VisitOrder(o, c) ==
  LET trees == [i \in DOMAIN o.terms |-> Tree(o.terms[i].e)]
      proj == c.top
      src == proj.kids[1].labels
      more == SelectSeq(src, LAMBDA l : l.k \in {"field", "raw", "star", "aggregates"} /\ IndexOf(proj.labels, l) = 0)
      labels == proj.labels \o more
      column(e) == {i \in DOMAIN proj.params : ~proj.params[i].path /\ proj.params[i].e = e}
      keys == [i \in DOMAIN trees |->
                IF trees[i].e.x = "count" /\ column(trees[i].e) # {} THEN Path(proj.labels[CHOOSE j \in column(trees[i].e) : TRUE]) ELSE trees[i]]
      aug == Op("project", labels, proj.params \o [i \in DOMAIN more |-> Path(more[i])], proj.kids)
      order == Op("order-offset-limit", labels, OrderParams(keys, o.terms, o), <<aug>>)
  IN  CASE Augments(proj) /\ ~AggVisible(keys, labels) -> NA(c)
        [] Augments(proj) /\ AggVisible(keys, labels) ->
             TopSet(c, Op("project", proj.labels, [i \in DOMAIN proj.labels |-> Path(proj.labels[i])], <<order>>))
        [] ~Augments(proj) /\ ~AggVisible(trees, proj.labels) -> NA(c)
        [] OTHER -> OrderProjected(o, c)

\* An OFFSET or LIMIT of its own goes into the order below, or below a project.
IsOrder(op) == op.kind = "order-offset-limit"
Page(c, field, n) ==
  CASE IsOrder(c.top) -> [c EXCEPT !.top.params.page[field] = n]
    [] c.top.kind = "project" /\ Len(c.top.kids) = 1 /\ IsOrder(c.top.kids[1]) ->
         [c EXCEPT !.top.kids[1].params.page[field] = n]
    [] OTHER -> TopPush(c, "order-offset-limit", c.top.labels, [keys |-> <<>>, desc |-> <<>>, page |-> [Paging(0, -1) EXCEPT ![field] = n]])
VisitOffset(o, c) == Page(c, "offset", o.n)
VisitLimit(o, c) == Page(c, "limit", o.n)

VisitAlias(o, c) == TopPush(c, "project", <<FieldLabel(o.alias)>>, <<Tree([x |-> "wrap", a |-> "", f |-> ""])>>)

RECURSIVE Convert(_, _)
\* A branch has its own tree and shares the rest of the Conv.
Branches(c, plans) ==
  FoldLeft(LAMBDA acc, p : LET b == Convert([acc.c EXCEPT !.top = NoOp], p) IN [c |-> [b EXCEPT !.top = c.top], ops |-> Append(acc.ops, b.top)],
           [c |-> c, ops |-> <<>>], plans)

Visit(c, o) ==
  CASE c.na -> c
    [] ~c.na /\ o.op = "scan" -> VisitScan(o, c)
    [] ~c.na /\ o.op = "fetch" -> VisitFetch(o, c)
    [] ~c.na /\ o.op = "filter" -> VisitFilter(o.conds, c)
    [] ~c.na /\ o.op = "nljoin" -> LET b == Branches(c, <<o.right>>) IN IF b.c.na THEN NA(c) ELSE VisitNLJoin(o, b.c, b.ops[1])
    [] ~c.na /\ o.op = "hashjoin" -> LET b == Branches(c, <<o.right>>) IN IF b.c.na THEN NA(c) ELSE VisitHashJoin(o, b.c, b.ops[1])
    [] ~c.na /\ o.op = "let" -> VisitLet(o, c)
    [] ~c.na /\ o.op = "group" -> VisitFinalGroup(o, c)
    [] ~c.na /\ o.op = "project" -> VisitInitialProject(o, c)
    [] ~c.na /\ o.op = "distinct" -> VisitDistinct(c)
    [] ~c.na /\ o.op = "union" -> LET b == Branches(c, o.branches) IN IF b.c.na THEN NA(c) ELSE VisitUnionAll(b.c, b.ops)
    [] ~c.na /\ o.op = "order" -> VisitOrder(o, c)
    [] ~c.na /\ o.op = "offset" -> VisitOffset(o, c)
    [] ~c.na /\ o.op = "limit" -> VisitLimit(o, c)
    [] ~c.na /\ o.op = "alias" -> VisitAlias(o, c)
Convert(c, plan) == FoldLeft(Visit, c, plan)

-----------------------------------------------------------------------------
(***************************************************************************)
(* A plan is converted, one operator after the other (above), and the      *)
(* tree is run; what it yields is compared with what the plan means, where *)
(* an item keeps every name that was ever bound in it.                     *)
(***************************************************************************)

-----------------------------------------------------------------------------
(* The engine: the rows that an operator yields, each a tuple of values *)

Times(s, e) == Cardinality({i \in DOMAIN s : s[i] = e})
FirstRows(rows, key(_)) == SelectSeq([i \in DOMAIN rows |-> i], LAMBDA i : \A j \in 1..i - 1 : key(rows[j]) # key(rows[i]))
Paged(rows, page) ==
  LET from == page.offset + 1
  IN  SubSeq(rows, from, IF page.limit = -1 THEN Len(rows) ELSE IF from + page.limit - 1 < Len(rows) THEN from + page.limit - 1 ELSE Len(rows))
KeysLess(x, y, desc) == \E i \in DOMAIN x : x[i].n # y[i].n /\ (\A j \in 1..i - 1 : x[j].n = y[j].n) /\ (x[i].n < y[i].n) = ~desc[i]
Sorted(keyed, desc) ==
  LET in == SortSeq(keyed, LAMBDA x, y : KeysLess(x.k, y.k, desc)) IN [i \in DOMAIN in |-> in[i].r]

JoinRows(left, right, labels, fits(_), outer, width) ==
  FlattenSeq([i \in DOMAIN left |->
    LET pairs == SelectSeq([j \in DOMAIN right |-> left[i] \o right[j]], fits)
    IN  IF pairs = <<>> /\ outer THEN <<left[i] \o [k \in 1..width |-> Missing]>> ELSE pairs])

Hits(o) == {o.rows[i].id : i \in DOMAIN o.rows} \cap o.hits[1]
Found(o, ids) == SelectSeq(o.rows, LAMBDA r : r.id \in ids)
WithDoc(rows) == [i \in DOMAIN rows |-> <<DocVal(rows[i].f), Num(rows[i].id)>>]

RECURSIVE Exec(_)
\* The rows of the first child, and of every child.
Kid(op) == Exec(op.kids[1])
\* The rows in the probe map: a MISSING key has no canonical JSON, and its row is in no entry.
Built(op) == SelectSeq(Kid(op), LAMBDA vals : ~IsMissing(exprTree(op.params.build, op.kids[1].labels, vals)))
GroupRows(op) ==
  LET rows == Kid(op)
      labels == op.kids[1].labels
      key(vals) == [i \in DOMAIN op.params.keys |-> exprTree(op.params.keys[i], labels, vals)]
      firsts == FirstRows(rows, key)
      row(vals) == IF op.params.agg THEN Append(key(vals), Num(Cardinality({j \in DOMAIN rows : key(rows[j]) = key(vals)}))) ELSE key(vals)
  IN  IF op.params.keys = <<>> THEN <<IF op.params.agg THEN <<Num(Len(rows))>> ELSE <<>>>> ELSE [i \in DOMAIN firsts |-> row(rows[firsts[i]])]
Exec(op) ==
  CASE op.kind \in {"datastore-scan-records"} -> WithDoc(op.params.rows)
    [] op.kind = "datastore-scan-fts" -> WithDoc(Found(op.params, Hits(op.params)))
    [] op.kind = "datastore-scan-index" -> LET in == Found(op.params, Hits(op.params)) IN [i \in DOMAIN in |-> <<Num(in[i].id)>>]
    [] op.kind = "datastore-fetch" ->
         LET rows == Kid(op) IN FlattenSeq([i \in DOMAIN rows |-> WithDoc(Found(op.params, {rows[i][1].n} \ {0}))])
    [] op.kind = "filter" -> SelectSeq(Kid(op), LAMBDA vals : Satisfies(op.params, op.kids[1].labels, vals))
    [] op.kind \in {"joinNL-inner", "joinNL-leftOuter"} ->
         JoinRows(Kid(op), Exec(op.kids[2]), op.labels, LAMBDA vals : Satisfies(op.params, op.labels, vals), op.kind = "joinNL-leftOuter", Len(op.kids[2].labels))
    [] op.kind \in {"joinHash-inner", "joinHash-leftOuter"} ->
         JoinRows(Built(op), Exec(op.kids[2]), op.labels,
                  LAMBDA vals : Compare("eq", exprTree(op.params.build, op.labels, vals), exprTree(op.params.probe, op.labels, vals)),
                  op.kind = "joinHash-leftOuter", Len(op.kids[2].labels))
    [] op.kind = "group" -> GroupRows(op)
    [] op.kind = "project" -> LET rows == Kid(op) IN [i \in DOMAIN rows |-> [j \in DOMAIN op.params |-> Param(op.params[j], op.kids[1].labels, rows[i])]]
    [] op.kind = "distinct" ->
         LET rows == Kid(op)
             key(vals) == [j \in DOMAIN op.params |-> labelPath(op.labels, vals, op.params[j])]
             firsts == FirstRows(rows, key)
         IN  [i \in DOMAIN firsts |-> key(rows[firsts[i]])]
    [] op.kind = "union-all" ->
         FlattenSeq([k \in DOMAIN op.kids |-> LET rows == Exec(op.kids[k]) IN
           [i \in DOMAIN rows |-> [j \in DOMAIN op.labels |-> labelPath(op.kids[k].labels, rows[i], op.labels[j])]]])
    [] op.kind = "order-offset-limit" ->
         LET rows == Kid(op)
             keyed == [i \in DOMAIN rows |-> [r |-> rows[i], k |-> [j \in DOMAIN op.params.keys |-> Param(op.params.keys[j], op.kids[1].labels, rows[i])]]]
         IN  Paged(Sorted(keyed, op.params.desc), op.params.page)

\* The object that a result row becomes; Convert refuses a row that does not fit its labels.
Result(labels, vals) ==
  IF Len(labels) # Len(vals) THEN {<<"error", Missing>>} ELSE IF labels = <<RawLabel>> THEN {<<"", vals[1]>>} ELSE Names(labels, vals) \cup UNION {vals[i].s : i \in {j \in DOMAIN labels : labels[j] = StarLabel}}

-----------------------------------------------------------------------------
(* What a plan means: items [b, agg, out], of what is bound, counted and projected *)

Item(b) == [b |-> b, agg |-> Missing, out |-> {}]
Value(item, e) ==
  LET bound == IF e.a \in DOMAIN item.b THEN item.b[e.a] ELSE [v |-> Missing, id |-> -1]
      field == DocField(bound.v, e.f)
      column == {p \in item.out : p[1] = e.a}
  IN  CASE e.x = "field" -> field
        [] e.x = "calc" -> IF IsMissing(field) THEN Missing ELSE Num(field.n + 1)
        [] e.x = "name" -> IF column # {} THEN (CHOOSE p \in column : TRUE)[2] ELSE bound.v
        [] e.x = "meta" -> Num(bound.id)
        [] OTHER -> item.agg
True(conds, item) == \A i \in DOMAIN conds : Compare(conds[i].cmp, Value(item, conds[i].l), Value(item, conds[i].r))
Joined(x, y) == [x EXCEPT !.b = x.b @@ y.b]

ScanIds(o) ==
  LET all == {o.rows[i].id : i \in DOMAIN o.rows}
  IN  CASE o.how \in {"primary", "count"} -> all
        [] o.how = "union" -> all \cap UNION {o.hits[i] : i \in DOMAIN o.hits}
        [] OTHER -> {id \in all : \A i \in DOMAIN o.hits : id \in o.hits[i]}

ProjectOut(o, item) ==
  UNION {LET t == o.terms[i]
         IN  CASE t.e.x = "self" -> {<<g, item.b[g].v>> : g \in DOMAIN item.b \ {t.e.a}}
               [] t.e.x = "pathstar" -> LET d == item.b[t.e.a].v.f IN {<<g, Num(d[g])>> : g \in DOMAIN d}
               [] OTHER -> LET v == Value(item, t.e) IN IF IsMissing(v) /\ ~o.raw THEN {} ELSE {<<IF o.raw THEN "" ELSE t.alias, v>>}
         : i \in DOMAIN o.terms}

RECURSIVE Meaning(_, _)
Plain(plan) == Meaning(<<>>, plan)
Means(items, o) ==
  CASE o.op = "scan" -> LET in == Found(o, ScanIds(o)) IN [i \in DOMAIN in |-> Item(o.alias :> [v |-> DocVal(in[i].f), id |-> in[i].id])]
    [] o.op = "fetch" -> items
    [] o.op = "filter" -> SelectSeq(items, LAMBDA it : True(o.conds, it))
    [] o.op \in {"nljoin", "hashjoin"} ->
         LET right == Plain(o.right)
             each == [i \in DOMAIN items |->
                       LET pairs == SelectSeq([j \in DOMAIN right |-> Joined(items[i], right[j])], LAMBDA it : True(o.on \o o.keys, it))
                       IN  IF pairs = <<>> /\ o.outer THEN <<items[i]>> ELSE pairs]
         IN  SelectSeq(FlattenSeq(each), LAMBDA it : True(o.filter, it))
    [] o.op = "let" ->
         FoldLeft(LAMBDA its, b : [i \in DOMAIN its |-> [its[i] EXCEPT !.b = @ @@ (b.name :> [v |-> Value(its[i], b.e), id |-> -1])]], items, o.bindings)
    [] o.op = "group" ->
         LET key(it) == [i \in DOMAIN o.keys |-> Value(it, o.keys[i])]
             firsts == FirstRows(items, key)
             count(it) == Num(Cardinality({j \in DOMAIN items : key(items[j]) = key(it)}))
         IN  IF o.keys = <<>> THEN <<[Item(<<>>) EXCEPT !.agg = Num(Len(items))]>>
             ELSE [i \in DOMAIN firsts |-> [items[firsts[i]] EXCEPT !.agg = count(items[firsts[i]])]]
    [] o.op = "project" -> [i \in DOMAIN items |-> [items[i] EXCEPT !.out = ProjectOut(o, items[i])]]
    [] o.op = "distinct" -> LET firsts == FirstRows(items, LAMBDA it : it.out) IN [i \in DOMAIN firsts |-> items[firsts[i]]]
    [] o.op = "union" -> FlattenSeq([i \in DOMAIN o.branches |-> Plain(o.branches[i])])
    [] o.op = "order" ->
         Paged(Sorted([i \in DOMAIN items |-> [r |-> items[i], k |-> [j \in DOMAIN o.terms |-> Value(items[i], o.terms[j].e)]]],
                      [j \in DOMAIN o.terms |-> o.terms[j].desc]), Paging(o.offset, o.limit))
    [] o.op = "offset" -> Paged(items, Paging(o.n, -1))
    [] o.op = "limit" -> Paged(items, Paging(0, o.n))
    [] o.op = "alias" ->
         [i \in DOMAIN items |->
           LET out == items[i].out
               raw == {p \in out : p[1] = ""}
           IN  Item(o.alias :> [v |-> IF raw # {} THEN (CHOOSE p \in raw : TRUE)[2]
                                      ELSE DocVal([g \in {p[1] : p \in out} |-> (CHOOSE p \in out : p[1] = g)[2].n]), id |-> -1])]
Meaning(items, plan) == FoldLeft(Means, items, plan)

-----------------------------------------------------------------------------
CvInit(plans) == cvPlan \in plans /\ cvAt = 0 /\ cvConv = NewConv /\ cvPc = "visit" /\ cvOut = <<>>

VisitNext ==
  /\ cvPc = "visit" /\ cvAt < Len(cvPlan) /\ cvAt' = cvAt + 1
  /\ cvConv' = Visit(cvConv, cvPlan[cvAt + 1])
  /\ cvPc' = IF cvConv'.na THEN "done" ELSE IF cvAt' = Len(cvPlan) THEN "run" ELSE "visit"
  /\ UNCHANGED <<cvPlan, cvOut>>

RunTree ==
  /\ cvPc = "run" /\ cvPc' = "done"
  /\ LET rows == Exec(cvConv.top) IN cvOut' = [i \in DOMAIN rows |-> Result(cvConv.top.labels, rows[i])]
  /\ UNCHANGED <<cvPlan, cvAt, cvConv>>

CvNext == VisitNext \/ RunTree
CvDone == cvPc = "done"

-----------------------------------------------------------------------------
(* Properties *)

RECURSIVE AllOps(_)
AllOps(op) == {op} \cup UNION {AllOps(op.kids[i]) : i \in DOMAIN op.kids}
InOrderOf(plan) == \E i \in DOMAIN plan : plan[i].op = "order" /\ \A j \in i + 1..Len(plan) : plan[j].op \in {"offset", "limit"}

\* No outer hash join builds on a row whose key is MISSING, which it would lose.
KeysHeld == \A op \in AllOps(cvConv.top) : op.kind = "joinHash-leftOuter" => Built(op) = Kid(op)

\* What the converted tree yields is what the plan means: every row as often, and in the
\* order of an ORDER BY, whatever the projection dropped and wherever a name went.  Where
\* an outer hash join loses rows, the others are rows of the plan.
ConvExact ==
  cvPc = "done" /\ ~cvConv.na =>
    LET means == Plain(cvPlan)
        want == [i \in DOMAIN means |-> means[i].out]
    IN  /\ \A i \in DOMAIN cvOut : Times(cvOut, cvOut[i]) <= Times(want, cvOut[i])
        /\ KeysHeld => Len(cvOut) = Len(want) /\ (InOrderOf(cvPlan) => cvOut = want)

\* Every operator yields as many values as it has labels.
RowsFit ==
  cvPc = "done" /\ ~cvConv.na =>
    \A op \in AllOps(cvConv.top) : LET rows == Exec(op) IN \A i \in DOMAIN rows : Len(rows[i]) = Len(op.labels)

\* An aggregate is never evaluated where the group's result is not a column: the query
\* engine's Evaluate would panic there.
AggregatesHeld ==
  \A op \in AllOps(cvConv.top) : op.kind = "order-offset-limit" /\ op.kids # <<>> =>
    \A i \in DOMAIN op.params.keys :
      ~op.params.keys[i].path /\ op.params.keys[i].e.x = "count" => \E j \in DOMAIN op.kids[1].labels : op.kids[1].labels[j] = AggLabel

\* The converted tree answers what the plan means, over rows that have the
\* labels it was converted with.
ConvSound == ConvExact /\ RowsFit /\ AggregatesHeld
=============================================================================
