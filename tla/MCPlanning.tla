----------------------------- MODULE MCPlanning -----------------------------
(***************************************************************************)
(* Instances for TLC of what happens to a statement before it runs, one    *)
(* component in each behaviour.                                            *)
(***************************************************************************)
EXTENDS TemporalRewrite, Conv, Expressions

CONSTANTS
  OuterFields,   \* the fields of the outer row that an ASOF inequality is about
  HardPlans      \* the plans of HardPlan that are converted too

VARIABLE part

R(k, v) == [k |-> k, o |-> 4 - k, p |-> k % 2, v |-> v]
File(rows, sorted, bound, count, plugin) ==
  [rows |-> rows, label |-> "k", sorted |-> sorted, bound |-> bound, count |-> count, plugin |-> plugin]
Strict(rows, count) == File(rows, "strict", 0, count, TRUE)
Files ==
  {Strict(<<R(1, "a"), R(3, "drop")>>, 2), Strict(<<R(2, "b")>>, 1), Strict(<<R(3, "c"), R(3, "c")>>, 0),
   File(<<R(2, "d"), R(1, "e")>>, "near", 1, 2, TRUE), File(<<R(2, "d"), R(1, "e")>>, "none", 0, 2, TRUE)}
Unclaimed(rows) == File(rows, "none", 0, 0, FALSE)
\* Keyspaces where a file that no plugin claims stands beside one that is claimed, or two.
Mixed ==
  {<<f, Unclaimed(u)>> : f \in Files, u \in {<<R(3, "u")>>, <<R(1, "u"), R(2, "u")>>}}
  \cup {<<f, Unclaimed(<<R(2, "u")>>), g>> : f \in Files, g \in Files}
MrBranch(shape, files) == [shape |-> shape, col |-> "k", files |-> files]
MrConfigs ==
  [branches : {<<MrBranch(s, fs), MrBranch(t, <<f>>)>> : s \in {"plain", "filter"}, t \in {"plain", "join", "values"},
                fs \in {<<f, g>> : f \in Files, g \in Files}, f \in Files},
   terms : {1}, dir : {"asc"}, paged : BOOLEAN, columns : {1}]
  \cup
  [branches : {<<MrBranch(s, fs), MrBranch("plain", <<Strict(<<R(2, "b")>>, 1)>>)>> : s \in {"plain", "filter", "group", "limit"},
                fs \in Mixed \cup {<<f>> : f \in Files} \cup {<<f, g>> : f \in Files, g \in Files}},
   terms : {1}, dir : {"asc"}, paged : {FALSE}, columns : {1}]
  \cup
  [branches : {<<MrBranch("plain", <<Strict(<<R(1, "a"), R(3, "drop")>>, 2)>>), MrBranch("plain", <<Strict(<<R(2, "b")>>, 1)>>)>>},
   terms : 1..2, dir : {"asc", "desc"}, paged : BOOLEAN, columns : 0..2]
MrIdle == [branches |-> <<>>, terms |-> 1, dir |-> "asc", paged |-> FALSE, columns |-> 1]

Cond(c, rf, of, delta) == [c |-> c, rf |-> rf, of |-> of, delta |-> delta]
Sub(where, desc, key) ==
  [correlated |-> TRUE, offset |-> FALSE, limit |-> 1, terms |-> 1, key |-> key, desc |-> desc, from |-> "keyspace", proj |-> "field",
   where |-> where, raw |-> TRUE, elem0 |-> TRUE]
Wheres ==
  {{Cond(c, "k", of, 0)} \cup more : c \in {"le", "ge", "lt"}, of \in OuterFields,
     more \in {{}, {Cond("eq", "p", "p", 0)}, {Cond("right", "v", "v", 0)}, {Cond("back", "k", "k", 1)}, {Cond("ahead", "k", "k", 0)},
               {Cond("back", "k", "o", 1)}, {Cond("back", "o", "k", 1)}, {Cond("ahead", "k", "k", 1), Cond("eq", "p", "p", 0)}}}
Subs ==
  {Sub(w, d, k) : w \in Wheres, d \in BOOLEAN, k \in {"k", "o"}}
  \cup {[Sub({Cond("le", "k", "k", 0)}, TRUE, "k") EXCEPT !.limit = 0, !.raw = r, !.elem0 = e] : r \in BOOLEAN, e \in BOOLEAN}
  \cup {[Sub({Cond("le", "k", "k", 0)}, TRUE, "k") EXCEPT !.raw = r, !.elem0 = e] : r \in BOOLEAN, e \in BOOLEAN}
\* One claimed file, in order with the file beside it or not, and two.
MixedSides(v) ==
  LET one == Strict(<<R(1, v), R(2, "drop")>>, 2)
      u == Unclaimed(<<R(2, "u")>>)
  IN  {<<one>>, <<one, u>>, <<Unclaimed(<<R(3, "u")>>), one>>, <<one, u, Strict(<<R(3, "w")>>, 1)>>}
AsConfigs ==
  [sub : Subs, child : {"scan", "filter", "join"},
   outer : {<<Strict(<<R(1, "a"), R(3, "drop")>>, 2), Strict(<<R(2, "b")>>, 1)>>, <<File(<<R(2, "d")>>, "none", 0, 1, TRUE)>>},
   right : {<<Strict(<<R(1, "x"), R(2, "drop")>>, 2)>>, <<Strict(<<R(2, "y"), R(3, "z")>>, 2), Strict(<<R(1, "w")>>, 1)>>}]
  \cup
  [sub : {s \in Subs : s.key = "k" /\ MatchArgmaxAsof(s).ok}, child : {"scan", "filter"}, outer : MixedSides("e"), right : MixedSides("x")]
AsIdle == [sub |-> Sub({}, TRUE, "k"), child |-> "scan", outer |-> <<>>, right |-> <<>>]

-----------------------------------------------------------------------------
X(x, a, f) == [x |-> x, a |-> a, f |-> f]
LA == FieldExpr("l", "a")
LB == FieldExpr("l", "b")
RC == FieldExpr("r", "c")
CountAll == X("count", "", "")
LRows == <<[id |-> 1, f |-> [a |-> 2, b |-> 1]], [id |-> 2, f |-> [a |-> 1, b |-> 1]], [id |-> 3, f |-> [a |-> 3, b |-> 2]], [id |-> 4, f |-> [b |-> 2]]>>
RRows == <<[id |-> 11, f |-> [a |-> 1, c |-> 1]], [id |-> 12, f |-> [a |-> 1, c |-> 2]], [id |-> 13, f |-> [a |-> 3, c |-> 0]]>>
ScanOp(alias, how, hits, rows) == [op |-> "scan", alias |-> alias, how |-> how, hits |-> hits, rows |-> rows]
FetchOp(alias, rows, subPaths) == [op |-> "fetch", alias |-> alias, rows |-> rows, subPaths |-> subPaths]
Cmp(cmp, l, r) == [cmp |-> cmp, l |-> l, r |-> r]
FilterOp(conds) == [op |-> "filter", conds |-> conds]
T(alias, e) == [alias |-> alias, e |-> e]
ProjectOp(raw, terms) == [op |-> "project", raw |-> raw, terms |-> terms]
DistinctOp == [op |-> "distinct"]
OrderOp(terms, offset, limit) == [op |-> "order", terms |-> terms, offset |-> offset, limit |-> limit]
By(e, desc) == [e |-> e, desc |-> desc]
LimitOp(n) == [op |-> "limit", n |-> n]
OffsetOp(n) == [op |-> "offset", n |-> n]
LetOp(bindings) == [op |-> "let", bindings |-> bindings]
GroupOp(keys, agg) == [op |-> "group", keys |-> keys, agg |-> agg]
UnionOp(branches) == [op |-> "union", branches |-> branches]
AliasOp(alias) == [op |-> "alias", alias |-> alias]
JoinOp(op, outer, on, keys, filter) ==
  [op |-> op, outer |-> outer, on |-> on, keys |-> keys, filter |-> filter, right |-> <<ScanOp("r", "primary", <<{}>>, RRows), FetchOp("r", RRows, FALSE)>>]

L == <<ScanOp("l", "primary", <<{}>>, LRows), FetchOp("l", LRows, TRUE)>>
\* Its rows that have the join key.
LKeyed == LET keyed == SubSeq(LRows, 1, 3) IN <<ScanOp("l", "primary", <<{}>>, keyed), FetchOp("l", keyed, TRUE)>>
FewRows == <<FilterOp(<<Cmp("le", LA, FieldExpr("l", "b"))>>)>>
Sources ==
  {L}
  \cup {<<ScanOp("l", h, <<{2, 3, 4}>>, LRows), FetchOp("l", LRows, s)>> \o FewRows : h \in {"index", "fts", "covers", "count"}, s \in BOOLEAN}
  \cup {<<ScanOp("l", h, <<{1, 2}, {2, 3, 4}>>, LRows), FetchOp("l", LRows, FALSE)>> \o FewRows : h \in {"union", "index"}}
Projections ==
  {ProjectOp(FALSE, <<T("x", LB)>>), ProjectOp(FALSE, <<T("x", LB), T("y", LA), T("i", X("meta", "l", ""))>>), ProjectOp(TRUE, <<T("x", LB)>>),
   ProjectOp(FALSE, <<T("x", X("calc", "l", "a"))>>), ProjectOp(FALSE, <<T("x", X("self", "", ""))>>)}
Orders ==
  {<<>>, <<OrderOp(<<By(LA, TRUE)>>, 0, -1)>>, <<OrderOp(<<By(LB, FALSE), By(LA, TRUE)>>, 1, 2)>>, <<OrderOp(<<By(LA, FALSE)>>, 0, -1), OffsetOp(1), LimitOp(2)>>,
   <<OffsetOp(1), LimitOp(1)>>, <<OffsetOp(3)>>}
JoinPlans ==
  {L \o <<JoinOp(j, outer, on, <<>>, f)>> : j \in {"nljoin"}, outer \in BOOLEAN,
     on \in {<<Cmp("eq", LA, FieldExpr("r", "a"))>>, <<Cmp("eq", LA, FieldExpr("r", "a")), Cmp("le", RC, LB)>>, <<>>}, f \in {<<>>, <<Cmp("le", RC, LB)>>}}
  \cup {l \o <<JoinOp("hashjoin", outer, <<Cmp("eq", LA, FieldExpr("r", "a"))>> \o on, <<Cmp("eq", LA, FieldExpr("r", "a"))>>, <<>>)>> :
     l \in {L, LKeyed}, outer \in BOOLEAN, on \in {<<>>, <<Cmp("le", RC, LB)>>}}
  \cup {L \o <<JoinOp("hashjoin", outer, <<>>, <<Cmp("eq", LA, FieldExpr("r", "a"))>> \o k, f)>> :
     outer \in BOOLEAN, k \in {<<>>, <<Cmp("eq", LB, RC)>>}, f \in {<<>>, <<Cmp("le", RC, LB)>>}}
JoinTails ==
  {<<ProjectOp(FALSE, <<T("x", LA), T("y", RC), T("i", X("meta", "l", "")), T("j", X("meta", "r", ""))>>)>>,
   <<ProjectOp(FALSE, <<T("s", X("self", "", ""))>>)>>,
   <<LetOp(<<[name |-> "v", e |-> X("calc", "r", "c")]>>), ProjectOp(FALSE, <<T("x", NameExpr("v")), T("y", LA)>>)>>}
LetPlans ==
  {L \o <<LetOp(<<[name |-> "v", e |-> X("calc", "l", "a")], [name |-> "w", e |-> NameExpr("v")]>>), p>> \o o :
     p \in {ProjectOp(FALSE, <<T("x", NameExpr("w")), T("i", X("meta", "l", ""))>>)}, o \in {<<>>, <<OrderOp(<<By(NameExpr("v"), TRUE)>>, 0, 2)>>}}
  \cup {L \o <<LetOp(<<[name |-> "v", e |-> X("calc", "l", "a")]>>), ProjectOp(FALSE, <<T("x", X("self", "v", ""))>>)>>}
GroupPlans ==
  {s \o <<GroupOp(k, TRUE)>> \o p \o o :
     s \in {L, L \o FewRows}, k \in {<<LB>>, <<X("calc", "l", "b")>>, <<LB, X("calc", "l", "b")>>},
     p \in {<<ProjectOp(FALSE, <<T("n", CountAll)>>)>>, <<ProjectOp(TRUE, <<T("n", CountAll)>>)>>},
     o \in {<<>>, <<DistinctOp>>, <<DistinctOp, OrderOp(<<By(CountAll, TRUE)>>, 0, -1)>>, <<OrderOp(<<By(CountAll, TRUE)>>, 0, -1)>>, <<OrderOp(<<By(CountAll, FALSE)>>, 0, 1)>>}}
  \cup {L \o <<GroupOp(<<e>>, TRUE), ProjectOp(FALSE, <<T("k", e)>>)>> \o o :
     e \in {LB, X("calc", "l", "b")}, o \in {<<>>, <<DistinctOp, DistinctOp, OrderOp(<<By(NameExpr("k"), TRUE)>>, 0, -1)>>, <<OrderOp(<<By(CountAll, FALSE)>>, 1, -1)>>}}
  \cup {L \o FewRows \o <<GroupOp(<<>>, TRUE), ProjectOp(FALSE, <<T("n", CountAll)>>)>>,
        L \o <<GroupOp(<<X("calc", "l", "b")>>, FALSE), LetOp(<<[name |-> "g", e |-> X("calc", "l", "b")]>>), ProjectOp(FALSE, <<T("k", NameExpr("g"))>>)>>}
UnionPlans ==
  {<<UnionOp(<<L \o <<p>>, L \o <<q>>, <<ScanOp("r", "primary", <<{}>>, RRows), ProjectOp(FALSE, <<T("y", RC)>>)>>>>)>> \o o :
     p \in {ProjectOp(FALSE, <<T("x", LA)>>), ProjectOp(FALSE, <<T("y", LA), T("x", LB)>>)}, q \in {ProjectOp(FALSE, <<T("x", LB)>>)},
     o \in {<<>>, <<DistinctOp>>}}
  \cup {<<UnionOp(<<>>)>>}
AliasPlans ==
  {L \o <<ProjectOp(raw, <<T("a", LA)>>)>> \o o \o <<AliasOp("d")>> \o t :
     raw \in {FALSE}, o \in {<<>>, <<OrderOp(<<By(LA, TRUE)>>, 0, 2)>>, <<LimitOp(1)>>},
     t \in {<<ProjectOp(FALSE, <<T("x", FieldExpr("d", "a"))>>)>>, <<FilterOp(<<Cmp("le", FieldExpr("d", "a"), FieldExpr("d", "a"))>>), ProjectOp(FALSE, <<T("x", FieldExpr("d", "a"))>>), LimitOp(2)>>}}
\* What the conversion does not keep.
HardPlan ==
  [letId |-> L \o <<JoinOp("nljoin", FALSE, <<Cmp("eq", LA, FieldExpr("r", "a"))>>, <<>>, <<>>), LetOp(<<[name |-> "v", e |-> LA]>>), ProjectOp(FALSE, <<T("j", X("meta", "r", ""))>>)>>,
   orderId |-> L \o <<ProjectOp(FALSE, <<T("x", LA)>>), OrderOp(<<By(X("meta", "l", ""), TRUE)>>, 0, -1)>>,
   starOrder |-> L \o <<ProjectOp(FALSE, <<T("x", X("pathstar", "l", ""))>>), OrderOp(<<By(LA, FALSE)>>, 0, -1)>>,
   unionGroup |-> <<UnionOp(<<L \o <<GroupOp(<<X("calc", "l", "b")>>, FALSE), ProjectOp(FALSE, <<T("k", X("calc", "l", "b"))>>)>>, L \o <<ProjectOp(FALSE, <<T("k", X("calc", "l", "b"))>>)>>>>)>>,
   nestedLimit |-> L \o <<ProjectOp(FALSE, <<T("x", LA)>>), LimitOp(1), LimitOp(2)>>,
   hashFilter |-> L \o <<JoinOp("hashjoin", FALSE, <<Cmp("eq", LA, FieldExpr("r", "a"))>>, <<Cmp("eq", LA, FieldExpr("r", "a"))>>, <<Cmp("le", RC, LB)>>), ProjectOp(FALSE, <<T("x", LA)>>)>>]
CvPlans ==
  {s \o <<p>> \o o : s \in Sources, p \in Projections, o \in Orders}
  \cup {j \o t : j \in JoinPlans, t \in JoinTails} \cup LetPlans \cup GroupPlans \cup UnionPlans \cup AliasPlans \cup {HardPlan[h] : h \in HardPlans}
CvIdle == <<>>

-----------------------------------------------------------------------------
\* Names, by their characters; nX is nx in another case.
nd == <<1>>
no == <<2>>
nw == <<3>>
nx == <<4>>
nX == <<14>>
ny == <<5>>
nz == <<6>>
nq == <<7>>
nv == <<8>>
nk == <<8, 1>>
nr == <<9>>
Con(v) == [x |-> "const", v |-> v]
Id(name) == [x |-> "ident", name |-> name, ci |-> FALSE]
Dot(e, name) == [x |-> "field", of |-> e, name |-> name, ci |-> FALSE]
Fn(f, args) == [x |-> "fn", f |-> f, args |-> args]
In(var, nm, descend, over) == [var |-> var, nm |-> nm, descend |-> descend, over |-> over]
Coll(c, bind, bodies) == [x |-> "coll", c |-> c, bind |-> <<bind>>, bodies |-> bodies]
One == Con(VNum(1))
Yes == Con(VBool(TRUE))
Nothing == Con(VMissing)
Pat(p) == Con(VStr(p))
Like(a, p, escape) == [x |-> "like", args |-> <<a, p>>, escape |-> escape]

\* The expressions over the fields P(name) of the row and over U, a name of the row or of its parent.
ExprsOver(P(_), U) ==
  LET x == P(nx)
      y == P(ny)
      z == P(nz)
      q == P(nq)
      v == Id(nv)
      bodies == {v, Fn("eq", <<v, x>>), Fn("eq", <<v, U>>), Fn("gt", <<v, One>>), Fn("not", <<v>>)}
  IN  {x, U, Dot(x, nx), Dot(q, nx), Dot(Dot(q, nx), ny), Con(VNull), [Dot(q, nX) EXCEPT !.ci = TRUE], [x |-> "dyn", of |-> q, by |-> y],
       [x |-> "dyn", of |-> q, by |-> Con(VStr(nx))]}
      \cup {Fn(c, <<a, b>>) : c \in {"eq", "lt", "le", "gt", "ge"}, a \in {x, One}, b \in {x, Con(VNum(2)), Con(VStr(<<1>>))}}
      \cup {Fn(c, <<U, One>>) : c \in {"eq", "ge", "add", "element"}}
      \cup {Fn(l, args) : l \in {"and", "or"},
              args \in {<<x, y, U>>, <<Con(VNull), x, Nothing>>, <<Nothing, U, Con(VNull)>>, <<Yes, Fn("lt", <<x, One>>), y>>, <<Fn("lt", <<x, One>>), Fn("not", <<U>>)>>}}
      \cup {Fn(f, <<a>>) : f \in {"not", "isnull", "isnotnull", "ismissing", "isnotmissing", "isvalued", "isnotvalued", "is_number", "is_string", "is_atom"}, a \in {x, U}}
      \cup {Fn(f, <<a, U, One>>) : f \in {"ifnull", "ifmissing", "ifmissingornull", "greatest", "least", "between"}, a \in {x, y, Con(VNull)}}
      \cup {Fn(f, <<x, U>>) : f \in {"nvl", "nullif", "missingif", "isdistinctfrom", "isnotdistinctfrom"}}
      \cup {Fn("in", <<x, z>>), Fn("in", <<Con(VNull), z>>), Fn("concat", <<y, Pat(<<1>>), y>>), Fn("concat", <<y, U>>), Fn("in", <<y, Con(VArr(<<VStr(<<1, 2>>), VNull>>))>>), Fn("element", <<z, Con(VNum(-1))>>), Fn("element", <<z, x>>), Fn("add", <<x, One, One>>)}
      \cup {[x |-> "case", args |-> a] : a \in {<<x, y, U, z>>, <<Fn("lt", <<x, Con(VNum(1))>>), y>>, <<U, x, y>>}}
      \cup {[x |-> "simple", args |-> a] : a \in {<<x, One, y>>, <<y, U, One, Pat(<<1, 2>>), z, q>>}}
      \cup {Like(y, Pat(p), esc) : p \in {<<90, 2, 90>>, <<90, 91, 90>>, <<90, 90>>, <<90, 1, 90, 2, 90>>, <<1, 90>>, <<90, 3, 90>>}, esc \in {FALSE}} \cup {Like(y, y, FALSE), Like(x, Pat(<<90, 2, 90>>), FALSE)}
      \cup {[x |-> "arrLit", args |-> <<x, U>>], [x |-> "arrLit", args |-> <<One, Con(VNull)>>], [x |-> "objLit", args |-> <<Pat(nx), x, Pat(ny), U>>], [x |-> "objLit", args |-> <<y, One, x, One>>]}
      \cup {Fn("is_number", <<Fn("nan", <<>>)>>), Fn("nan", <<>>), Fn("greatest", <<x, Fn("nan", <<>>)>>), Fn("add", <<x, Fn("now", <<>>)>>)}
      \cup {Coll(c, In(nv, nm, d, over), <<b>>) : c \in {"any", "every"}, nm \in {<<>>}, d \in BOOLEAN, over \in {z, q}, b \in bodies}
      \cup {Coll(c, In(nv, nm, FALSE, over), <<v, w>>) : c \in {"first", "array"}, nm \in {<<>>, nk}, over \in {z, q}, w \in {Yes, Fn("isvalued", <<v>>), Fn("gt", <<U, v>>)}}
      \cup {Coll("object", In(nv, nk, FALSE, over), <<n, v, w>>) : over \in {q, z}, n \in {Id(nk), v, Con(VStr(nx))}, w \in {Yes, Fn("isdistinctfrom", <<v, U>>)}}
      \cup {Coll("array", In(nv, <<>>, TRUE, q), <<v, Yes>>),
            Coll("any", In(nv, <<>>, FALSE, z), <<Coll("any", In(nr, <<>>, FALSE, z), <<Fn("lt", <<v, Id(nr)>>)>>)>>),
            [x |-> "coll", c |-> "array", bind |-> <<In(nv, <<>>, FALSE, z), In(nr, <<>>, FALSE, z)>>, bodies |-> <<Fn("eq", <<v, Id(nr)>>), Yes>>]}

O(fields) == VObj(fields)
Doc1 == O(nx :> VNum(1) @@ ny :> VStr(<<1, 2>>) @@ nz :> VArr(<<VNum(1), VNum(2), VStr(<<1>>)>>) @@ nq :> O(ny :> VNull @@ nx :> O(ny :> VNum(3))))
Doc2 == O(nx :> VNull @@ ny :> VStr(<<2>>) @@ nz :> VArr(<<VNull>>) @@ nq :> O(nx :> VBool(FALSE)))
Doc3 == O(nq :> VArr(<<>>) @@ nz :> O(nx :> VNum(1)) @@ ny :> VBool(TRUE))
Docs == <<Doc1, Doc2, Doc3>>
Outer == O(no :> O(nx :> VNum(2)) @@ nw :> VNum(1))
OneSlot == [i \in DOMAIN Docs |-> <<Docs[i]>>]
ExCase(e, labels, first, rows, corr, withScope, reset, lane) ==
  [e |-> e, labels |-> labels, first |-> first, rows |-> rows, corr |-> corr, withScope |-> withScope, reset |-> reset, lane |-> lane]
OfDoc(name) == Dot(Id(nd), name)
ParentRef == {Dot(Id(no), nx), Id(nw)}
Scopes == {<<VMissing, VMissing, FALSE>>, <<Outer, VMissing, FALSE>>, <<VMissing, Outer, FALSE>>, <<Outer, O(nw :> VNum(5)), FALSE>>, <<Outer, VMissing, TRUE>>}
ExConfigs ==
  {ExCase(e, <<PathLabel(<<nd>>)>>, <<>>, OneSlot, sc[1], sc[2], sc[3], "interpreted") : e \in UNION {ExprsOver(OfDoc, u) : u \in ParentRef}, sc \in Scopes}
  \cup {ExCase(e, <<l>>, <<>>, OneSlot, sc[1], sc[2], sc[3], "interpreted") : e \in UNION {ExprsOver(Id, u) : u \in ParentRef}, l \in {Row, Star}, sc \in Scopes}
  \cup {ExCase(e, <<PathLabel(<<nd>>), PathLabel(<<nw>>), AggSlot("n")>>, <<>>, [i \in DOMAIN Docs |-> <<Docs[i], VNum(i), VNum(3)>>], sc[1], sc[2], FALSE, "interpreted") :
           e \in ExprsOver(OfDoc, Id(nw)) \cup {[x |-> "agg", a |-> "n"], Fn("add", <<[x |-> "agg", a |-> "n"], One>>)}, sc \in {s \in Scopes : ~s[3]}}
  \cup {ExCase(e, <<PathLabel(<<nd, nx>>), PathLabel(<<nd, nq>>)>>, <<>>, <<<<VNum(1), Doc1>>, <<VNull, Doc3>>>>, VMissing, VMissing, FALSE, "interpreted") :
           e \in {Dot(Id(nd), nx), Dot(Dot(Id(nd), nq), ny), Dot(Id(nd), ny), Fn("eq", <<Dot(Id(nd), nx), One>>)}}
  \cup {ExCase(e, <<PathLabel(<<nd>>), PathLabel(<<no>>)>>, f, [i \in DOMAIN Docs |-> <<Docs[i], Docs[2]>>] \o <<<<Doc1, Doc1>>>>, VMissing, VMissing, FALSE, "compiled") :
           e \in ExprsOver(OfDoc, Dot(Id(no), ny)), f \in {<<PathLabel(<<nd>>)>>, <<PathLabel(<<nd>>), PathLabel(<<no>>)>>, <<>>}}
ExIdle == ExCase(One, <<>>, <<>>, <<>>, VMissing, VMissing, FALSE, "interpreted")

-----------------------------------------------------------------------------
Init ==
  /\ part \in {"merge", "asof", "extract", "convert", "expr"}
  /\ MrInit(IF part = "merge" THEN MrConfigs ELSE {MrIdle})
  /\ AsInit(IF part = "asof" THEN AsConfigs ELSE {AsIdle})
  /\ XcInit(part = "extract")
  /\ CvInit(IF part = "convert" THEN CvPlans ELSE {CvIdle})
  /\ ExInit(IF part = "expr" THEN ExConfigs ELSE {ExIdle})

allVars == <<mrVars, asVars, xcVars, cvVars, exVars, part>>

Done ==
  /\ \/ part = "merge" /\ MrDone
     \/ part = "asof" /\ AsDone
     \/ part = "convert" /\ CvDone
     \/ part = "expr" /\ ExDone
  /\ UNCHANGED allVars

Next ==
  \/ part = "merge" /\ MrNext /\ UNCHANGED <<asVars, xcVars, cvVars, exVars, part>>
  \/ part = "asof" /\ AsNext /\ UNCHANGED <<mrVars, xcVars, cvVars, exVars, part>>
  \/ part = "extract" /\ XcNext /\ UNCHANGED <<mrVars, asVars, cvVars, exVars, part>>
  \/ part = "convert" /\ CvNext /\ UNCHANGED <<mrVars, asVars, xcVars, exVars, part>>
  \/ part = "expr" /\ ExNext /\ UNCHANGED <<mrVars, asVars, xcVars, cvVars, part>>
  \/ Done

Spec == Init /\ [][Next]_allVars
=============================================================================
