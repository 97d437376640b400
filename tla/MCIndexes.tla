----------------------------- MODULE MCIndexes -----------------------------
(***************************************************************************)
(* Instances for TLC of the indexes: the bbolt, the full-text and the      *)
(* in-memory index of one keyspace while its files change, and the scan of *)
(* spans over bounded documents; one of them in each behaviour.            *)
(***************************************************************************)
EXTENDS SecondaryIndex, FtsIndex, IndexSpan

CONSTANT Races   \* whether files may change while a backfill runs

VARIABLE part

SiOpsAllowed ==
  [kind : {"query", "rebuild"}, race : {TRUE}, pages : {1}] \cup [kind : {"backfill"}, race : Races, pages : {1, 2}]
FtOpsAllowed ==
  [kind : {"query", "rebuild"}, race : {TRUE}, crash : {TRUE}, pages : {1}]
    \cup [kind : {"backfill"}, race : Races, crash : {TRUE}, pages : {1, 2}]

Num(n) == Val(tagNumber, n, <<>>)
Str(s) == Val(tagString, 0, s)
Missing == Val(tagMissing, 0, <<>>)
Values == {Missing, Val(1, 0, <<>>), Val(3, 0, <<>>), Num(-2), Num(0), Num(3),
           Str(<<>>), Str(<<0>>), Str(<<0, 1>>), Str(<<7>>)}
Doc(a, b, where, below) == [keys |-> <<a, b>>, where |-> where, below |-> below]
Docs == {Doc(a, b, TRUE, below) : a \in Values, b \in {Missing, Num(-1), Str(<<0>>)}, below \in BOOLEAN}
Span(low, high, incl) == [low |-> low, high |-> high, incl |-> incl]
Bounds == {<<>>} \cup {<<v>> : v \in Values \ {Missing}} \cup {<<Num(0), Num(-1)>>}

SpanConfigs ==
  [docs : {<<d, e>> : d \in Docs, e \in {Doc(Num(0), Num(-1), TRUE, FALSE), Doc(Str(<<0>>), Str(<<0>>), TRUE, TRUE)}},
   spans : {<<Span(l, h, i)>> : l \in Bounds, h \in Bounds, i \in SUBSET {"low", "high"}},
   limit : {0, 1}, orderFree : {FALSE}, mem : {FALSE}]
  \cup
  [docs : {<<d, e>> : d \in Docs, e \in {Doc(Num(0), Num(-1), FALSE, FALSE), Doc(Str(<<0>>), Str(<<0>>), TRUE, TRUE)}},
   spans : {<<Span(<<>>, <<>>, {})>>,
            <<Span(<<Num(0)>>, <<Num(0)>>, {"low", "high"}), Span(<<Num(0)>>, <<>>, {"low", "high"})>>},
   limit : {0, 1}, orderFree : BOOLEAN, mem : BOOLEAN]

SpanIdle == [docs |-> <<>>, spans |-> <<>>, limit |-> 0, orderFree |-> FALSE, mem |-> FALSE]

\* Two fields; a text field holds at least one word that the analyzer keeps, and a
\* number is compared only where fields are mapped by their values.
V(type, n, words) == [type |-> type, n |-> n, words |-> words]
Nums == {V("number", n, {}) : n \in 0..2}
Texts == {V("string", 0, {"x"}), V("string", 0, {"x", "y"})}
Leaf(op, field, value, first) == [op |-> op, field |-> field, value |-> value, first |-> first, args |-> <<>>]
Tree(op, args) == [NoTree EXCEPT !.op = op, !.args = args]
Leaves(vals) ==
  {Leaf(op, f, v, first) : op \in {"eq", "lt", "le"}, f \in {"f", "g"}, v \in vals, first \in BOOLEAN}
    \cup {[NoTree EXCEPT !.op = "other"]}
Pairs(vals) == {Leaf("eq", "f", v, TRUE) : v \in vals} \cup {[NoTree EXCEPT !.op = "other"]}
Preds(vals) ==
  {Tree(op, <<p, q>>) : op \in {"and", "or"}, p \in Leaves(vals), q \in Leaves(vals)}
    \cup {Tree(op, <<p, Tree(o, <<q, r>>)>>) : op \in {"and", "or"}, o \in {"and", "or"},
           p \in Pairs(vals), q \in Pairs(vals), r \in Pairs(vals)}
FlexConfigs ==
  [pred : Preds(Texts), doc : [{"f", "g"} -> Texts], keys : {{}, {"f"}}]
    \cup [pred : Preds({V("number", 1, {})}), doc : [{"f", "g"} -> Nums \cup Texts], keys : {{}}]
FlexIdle == [pred |-> NoTree, doc |-> [f \in {} |-> 0], keys |-> {}]

-----------------------------------------------------------------------------
Init ==
  /\ part \in {"bbolt", "bleve", "memory", "spans", "flex"}
  /\ SourceInit(IF part \in {"spans", "flex"} THEN {0} ELSE {1}) /\ (part \in {"spans", "flex"} => ixMtime = [c \in IdxContainers |-> 0])
  /\ SiInit /\ FtInit /\ MiInit
  /\ SpanInit(IF part = "spans" THEN SpanConfigs ELSE {SpanIdle})
  /\ FlexInit(IF part = "flex" THEN FlexConfigs ELSE {FlexIdle})

allVars == <<sourceVars, siVars, ftVars, miVars, spVars, fxVars, part>>

Done ==
  /\ CASE part = "bbolt" -> SiDone [] part = "bleve" -> FtDone [] part = "memory" -> MiDone [] part = "spans" -> SpanDone [] part = "flex" -> FlexDone
  /\ UNCHANGED allVars

Next ==
  \/ part = "bbolt" /\ SiNext(SiOpsAllowed) /\ UNCHANGED <<ftVars, miVars, spVars, fxVars, part>>
  \/ part = "bleve" /\ FtNext(FtOpsAllowed) /\ UNCHANGED <<siVars, miVars, spVars, fxVars, part>>
  \/ part = "memory" /\ MiNext /\ UNCHANGED <<siVars, ftVars, spVars, fxVars, part>>
  \/ part = "spans" /\ SpanStep /\ UNCHANGED <<sourceVars, siVars, ftVars, miVars, fxVars, part>>
  \/ part = "flex" /\ SargableFlex /\ UNCHANGED <<sourceVars, siVars, ftVars, miVars, spVars, part>>
  \/ Done

Spec == Init /\ [][Next]_allVars
=============================================================================
