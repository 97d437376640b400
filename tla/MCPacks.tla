------------------------------ MODULE MCPacks ------------------------------
(***************************************************************************)
(* Instances for TLC of the multi-query components, one of them in each    *)
(* behaviour: the automaton over bounded patterns, and packs of statements *)
(* over bounded rows.                                                      *)
(***************************************************************************)
EXTENDS MultiQuery, ContextQuery, PackEntry

VARIABLE part

Bits(n) == UNION {[1..k -> {0, 1}] : k \in 0..n}
AcConfigs ==
  [patterns : {<<p, q>> : p \in Bits(3), q \in Bits(3)} \cup {<<p, q, <<1>>>> : p \in Bits(3), q \in Bits(1)},
   slices : {<<a, b>> : a \in Bits(3), b \in Bits(2)}]
AcIdle == [patterns |-> <<>>, slices |-> <<>>]

F == FieldOf("f")
G == FieldOf("g")
UpperF == Node("upper", "", <<F>>)
Op2(op, a, w) == Node(op, "", <<a, Word(w)>>)
Both(p, q) == Node("and", "", <<p, q>>)
Alone(p) == Node("alone", "", <<p>>)
Predicates ==
  {None, Op2("contains", F, "load"), Op2("contains", UpperF, "LOAD"), Op2("eq", UpperF, "LOAD"), Op2("eq", F, "err"),
   Node("eq", "", <<Word("err"), G>>), Op2("regexp", F, "err"), Op2("meta", F, "load"),
   Node("not", "", <<Op2("eq", F, "err")>>), Node("or", "", <<Op2("contains", F, "load"), Op2("eq", G, "err")>>),
   Both(Op2("contains", F, "load"), Alone(Op2("eq", G, "err"))),
   Both(Alone(Op2("contains", UpperF, "LOAD")), Op2("contains", UpperF, "LOAD")),
   Alone(Op2("eq", G, "err"))}

Entry(label, ks, shape, where, proj, term, gate) ==
  [label |-> label, ks |-> ks, shape |-> shape, where |-> where, proj |-> proj, term |-> term, gate |-> gate]
Fused(label, ks, where, proj) ==
  Entry(label, ks, "scan", where, proj, IF proj = "star" THEN FieldOf("self") ELSE UpperF, None)
Texts == {MissingVal, StrVal({"load"}), StrVal({"LOAD"}), StrVal({"err"}), StrVal({"err", "load"})}
Row(ks, id, f, g) == [ks |-> ks, id |-> id, f |-> f, g |-> g, self |-> StrVal({id})]

PairConfigs ==
  [entries : {<<Fused("a", "k1", p, x), Fused("b", "k1", q, y)>> : p \in Predicates, q \in Predicates, x \in {"star", "raw"}, y \in {"star", "named"}},
   rows : {<<Row("k1", "1", f, g)>> : f \in Texts, g \in {MissingVal, StrVal({"err"})}},
   failing : {{}}, stopAfter : {0}, runs : {1}]

Some == Op2("contains", F, "load")
PackConfigs ==
  [entries : {<<Fused("a", "k1", Some, "star"),
                Entry("b", "k1", s, Some, x, UpperF, g), Fused("c", "k2", None, "star"),
                Entry("d", "k1", "join", Some, "star", FieldOf("self"), g)>> :
                s \in {"scan", "bad", "join", "fails"}, x \in {"mixed", "subquery", "raw"},
                g \in {None, Op2("eq", G, "err"), Node("bad", "", <<>>)}},
   rows : {<<Row("k1", "1", StrVal({"load"}), MissingVal), Row("k1", "2", StrVal({"err", "load"}), g), Row("k2", "3", MissingVal, MissingVal)>> :
             g \in {MissingVal, StrVal({"err"})}},
   failing : {{}, {"k1"}, {"k2"}}, stopAfter : {0, 2}, runs : {2}]
  \cup
  [entries : {<<Entry("b", "k1", "bad", Some, "star", UpperF, None)>>}, rows : {<<>>}, failing : {{}}, stopAfter : {0}, runs : {1}]
MqIdle == [entries |-> <<>>, rows |-> <<>>, failing |-> {}, stopAfter |-> 0, runs |-> 0]

-----------------------------------------------------------------------------
Stmt(label, pred, b, a) ==
  [label |-> label, outer |-> "plain", middle |-> "star", flag |-> 1, func |-> "max", unit |-> "rows", exclude |-> "no-others",
   bounded |-> TRUE, beg |-> b, end |-> a, whens |-> <<[pred |-> pred, then |-> 1]>>, else |-> 0, numPart |-> 1, asc |-> TRUE,
   select |-> "columns", below |-> FALSE]
\* What the recogniser must leave alone.
Deviants ==
  {[Stmt("b", "q", -1, 1) EXCEPT !.flag = 0], [Stmt("b", "q", -1, 1) EXCEPT !.func = "min"], [Stmt("b", "q", -1, 1) EXCEPT !.outer = "limit"],
   [Stmt("b", "q", -1, 1) EXCEPT !.unit = "range"], [Stmt("b", "q", -1, 1) EXCEPT !.select = "flag"], Stmt("b", "q", 1, 1)}
CxRow(p, o, hits) == [part |-> p, ord |-> o, hits |-> hits, keep |-> TRUE]
HitSets == {{}, {"p"}, {"q"}}
CxConfigs ==
  [stmts : {<<Stmt("a", "p", -x, y), Stmt("b", "q", -z, 1)>> : x \in 0..2, y \in 0..2, z \in 0..1},
   rows : {<<CxRow(1, 1, h[1]), CxRow(1, 2, h[2]), CxRow(1, 3, h[3]), CxRow(1, 4, h[4]), CxRow(2, 1, h[5])>> : h \in [1..5 -> HitSets]},
   elide : {TRUE}]
  \cup
  [stmts : {<<Stmt("a", "p", -1, 1), s>> : s \in Deviants},
   rows : {<<CxRow(2, 2, h[1]), CxRow(1, 2, h[2]), CxRow(2, 1, h[3]), CxRow(1, 1, h[4])>> : h \in [1..4 -> HitSets]},
   elide : {FALSE}]
CxIdle == [stmts |-> <<>>, rows |-> <<>>, elide |-> TRUE]

NodeFile(n, needs, reads, broken, fails) == [name |-> n, needs |-> needs, reads |-> reads, broken |-> broken, fails |-> fails]
CoConfigs ==
  [files : {<<NodeFile(1, a, a, x, FALSE), NodeFile(2, b, b, FALSE, y), NodeFile(3, c, c, FALSE, FALSE)>> :
              a \in SUBSET (2..3), b \in SUBSET {1, 3, 4}, c \in SUBSET {1, 2}, x \in BOOLEAN, y \in BOOLEAN}
            \cup {<<NodeFile(1, {}, {}, FALSE, FALSE), NodeFile(1, {}, {}, FALSE, FALSE)>>},
   allowRejected : BOOLEAN, pick : {"terminal", "all", "named"}, runs : {2}]
CoIdle == [files |-> <<>>, allowRejected |-> TRUE, pick |-> "all", runs |-> 0]

KV == EntryLine("kv", "source")
Sql == EntryLine("sql", "s")
Fix == EntryLine("@fixture", "")
Exp == EntryLine("@expect", "")
DocLine(x) == EntryLine("doc", x)
FixtureLines == {<<>>, <<DocLine("a")>>, <<DocLine("a"), DocLine("a")>>, <<DocLine("skip"), EntryLine("note", ""), DocLine("b")>>,
                 <<EntryLine("open", "a"), EntryLine("rest", "a")>>, <<DocLine("b"), EntryLine("open", "a")>>,
                 <<EntryLine("open", "a"), DocLine("b")>>}
GoldLines == {<<Exp>>, <<Exp, DocLine("a")>>, <<Exp, DocLine("a"), DocLine("a")>>, <<Exp, DocLine("b"), EntryLine("blank", "")>>, <<Exp, EntryLine("open", "b")>>, <<>>}
PeConfigs ==
  [file : {front \o <<Sql, EntryLine("blank", "")>> \o fix \o gold :
             front \in {<<KV>>, <<EntryLine("kv", "id"), EntryLine("blank", ""), KV>>, <<EntryLine("kv", "id")>>},
             fix \in {<<Fix>> \o f : f \in FixtureLines} \cup {<<>>}, gold \in GoldLines},
   behaves : {"runs", "rejected", "unresolved", "fails"}, commands : {2}]
PeIdle == [file |-> <<>>, behaves |-> "runs", commands |-> 0]

TF(sep) == [stem |-> "tf", sep |-> sep]
N == [stem |-> "n", sep |-> ""]
Param(name, type, dflt, required) == [name |-> name, type |-> type, dflt |-> dflt, required |-> required]
Tok(k, name) == [k |-> k, name |-> name]
PpValues == {<<>>, <<"x">>, <<" ", "d">>, <<"x", "tick">>, <<"x", ",", " ", "d">>}
PpEntry(params, name) == [params |-> params, stmt |-> <<Tok("text", name), Tok("quoted", name), Tok("dyn", name), Tok("ref", name)>>]
PpConfigs ==
  [entries : {<<PpEntry(<<Param(TF("_"), t, d, r)>>, TF(s)), PpEntry(ps, TF("_"))>> :
                t \in {"ident", "int", "list"}, d \in PpValues, r \in BOOLEAN, s \in {"_", "-"},
                ps \in {<<>>} \cup {<<Param(TF("_"), u, e, FALSE)>> : u \in {"ident", "int"}, e \in {<<"d">>, <<"x">>}}},
   given : {{}} \cup {{[key |-> k, val |-> v]} : k \in {TF("_"), TF("-"), N}, v \in PpValues}
           \cup {{[key |-> TF("_"), val |-> <<"x">>], [key |-> TF("-"), val |-> <<"d">>]}},
   commands : {1}]
PpIdle == [entries |-> <<>>, given |-> {}, commands |-> 0]

Word2(w) == [k |-> "word", text |-> w]
Lit(s) == [k |-> "str", text |-> s]
Gap(s) == [k |-> "gap", text |-> s]
Space1 == Gap(<<" ">>)
DashLit == Lit(<<"'", "-", "-", "x", "'">>)
QdTexts ==
  {<<Word2(<<"s">>), Space1, DashLit>>,
   <<Word2(<<"s">>), Space1, Lit(<<"'", "-", "-", "y", "'">>)>>,
   <<Gap(<<"-", "-", "x", "'", "nl", "nl">>), Word2(<<"s">>), Gap(<<" ", "nl", " ">>), DashLit, Gap(<<"nl">>)>>,
   <<Word2(<<"s">>), Gap(<<"/", "*", "/", "'", "*", "/">>), DashLit, Gap(<<" ", "-", "-">>)>>,
   <<Word2(<<"s">>), Gap(<<" ", "nl">>), Lit(<<"'", "'", "'", "/", "*", "'">>), Space1, Word2(<<"t">>)>>,
   <<Word2(<<"s">>), Space1, Lit(<<"'", "'", "'", "/", "*", "'">>)>>,
   <<Word2(<<"s">>), Space1, Lit(<<"'", "esc", "'", " ", " ", "'">>)>>,
   <<Word2(<<"s">>), Space1, Lit(<<"tick", "esc", "tick">>), Gap(<<" ", " ">>), Word2(<<"t">>)>>}
QdConfigs == [texts : {QdTexts}, dir : BOOLEAN, schemes : {Schemes}, steps : {2}]
QdIdle == [texts |-> {<<>>}, dir |-> TRUE, schemes |-> {1}, steps |-> 0]

-----------------------------------------------------------------------------
Init ==
  /\ part \in {"automaton", "pack", "context", "compose", "entry", "params", "drift"}
  /\ AcInit(IF part = "automaton" THEN AcConfigs ELSE {AcIdle})
  /\ MqInit(IF part = "pack" THEN PairConfigs \cup PackConfigs ELSE {MqIdle})
  /\ CxInit(IF part = "context" THEN CxConfigs ELSE {CxIdle})
  /\ CoInit(IF part = "compose" THEN CoConfigs ELSE {CoIdle})
  /\ PeInit(IF part = "entry" THEN PeConfigs ELSE {PeIdle})
  /\ PpInit(IF part = "params" THEN PpConfigs ELSE {PpIdle})
  /\ QdInit(IF part = "drift" THEN QdConfigs ELSE {QdIdle})

allVars == <<acVars, mqVars, cxVars, coVars, peVars, ppVars, qdVars, part>>

Done ==
  /\ \/ part = "pack" /\ MqDone
     \/ part = "context" /\ CxDone
     \/ part = "compose" /\ CoDone
     \/ part = "entry" /\ PeDone
     \/ part = "params" /\ PpDone
     \/ part = "drift" /\ QdDone
  /\ UNCHANGED allVars

Next ==
  \/ part = "automaton" /\ AcNext /\ UNCHANGED <<mqVars, cxVars, coVars, peVars, ppVars, qdVars, part>>
  \/ part = "pack" /\ MqNext /\ UNCHANGED <<acVars, cxVars, coVars, peVars, ppVars, qdVars, part>>
  \/ part = "context" /\ CxNext /\ UNCHANGED <<acVars, mqVars, coVars, peVars, ppVars, qdVars, part>>
  \/ part = "compose" /\ CoNext /\ UNCHANGED <<acVars, mqVars, cxVars, peVars, ppVars, qdVars, part>>
  \/ part = "entry" /\ PeNext /\ UNCHANGED <<acVars, mqVars, cxVars, coVars, ppVars, qdVars, part>>
  \/ part = "params" /\ PpNext /\ UNCHANGED <<acVars, mqVars, cxVars, coVars, peVars, qdVars, part>>
  \/ part = "drift" /\ QdNext /\ UNCHANGED <<acVars, mqVars, cxVars, coVars, peVars, ppVars, part>>
  \/ Done

Spec == Init /\ [][Next]_allVars
=============================================================================
