----------------------------- MODULE MCSources -----------------------------
(***************************************************************************)
(* Instances for TLC of how the files of a keyspace become records, and    *)
(* how rows become such a file: one part, on one of its bounded inputs, in *)
(* each behaviour.                                                         *)
(***************************************************************************)
EXTENDS RecordSource, DatastoreScan, Columnar, Insert

CONSTANTS
  Stray,           \* whether .json files with a comma between top-level values are read
  Kinds            \* the kinds of keyspace that are scanned and fetched from

VARIABLE part

Values == {<<"x">>, <<"{", "}">>, <<"q", "]", "q">>, <<"q", "b", "q", "q">>,
           <<"[", "q", "}", "q", ",", "x", "]">>, <<"{", "q", "b", "b", "q", "}">>}
Docs2 == {<<>>} \cup {<<v>> : v \in Values} \cup {<<v, w>> : v \in Values, w \in Values}
Joined(vs, sep) == IF Len(vs) = 2 THEN vs[1] \o sep \o vs[2] ELSE IF Len(vs) = 1 THEN vs[1] ELSE <<>>
JsonFile(data, whole, docs) == [fmt |-> "json", data |-> data, whole |-> whole, docs |-> docs]
Arrays == {JsonFile(<<"[">> \o Joined(vs, sep) \o <<"]">>, TRUE, vs) : vs \in Docs2, sep \in {<<",">>, <<"s", ",", "n">>}}
Streams == {JsonFile(<<"s">> \o Joined(vs, <<"n">>), TRUE, vs) : vs \in {d \in Docs2 : d = <<>> \/ d[1][1] # "["}}
Cuts == UNION {{JsonFile(SubSeq(a.data, 1, k), FALSE, <<>>) : k \in 1..(Len(a.data) - 1)} : a \in Arrays}
Strays == {JsonFile(<<"{", "}", ",", "{", "}">>, FALSE, <<>>)}
LineFiles == {[fmt |-> "jsonl", data |-> d, whole |-> TRUE, docs |-> <<>>] : d \in UNION {[1..k -> {"x", "s", "n"}] : k \in 0..5}}
TextConfigs == IF Stray THEN Strays ELSE Arrays \cup Streams \cup Cuts \cup LineFiles

F(dir, stem, fmt, gz, units, bad) ==
  [dir |-> dir, stem |-> stem, fmt |-> fmt, gz |-> gz, array |-> FALSE, units |-> units, bad |-> bad]
ArrayOf(f) == [f EXCEPT !.array = TRUE]
AnyFile == {F("", "a", "jsonl", FALSE, <<"a1", "", "a2">>, ""), F("", "a", "jsonl", TRUE, <<"a1", "", "a2">>, ""),
            F("sub", "a", "yaml", FALSE, <<"", "a1", "a2">>, ""), F("", "a", "yaml", FALSE, <<"a1">>, ""),
            F("", "a", "json", FALSE, <<"a1">>, ""), F("", "a", "json", FALSE, <<"a1", "a2">>, ""),
            ArrayOf(F("", "a", "json", FALSE, <<"a1">>, "")), ArrayOf(F("sub", "a", "yaml", FALSE, <<"a1">>, "")),
            F("", "a", "csv", FALSE, <<"a1", "a2">>, "read"), F("", "a", "json", FALSE, <<"a1">>, "open"), F(".hidden", "a", "json", FALSE, <<"a1">>, "")}
OtherFile == {F("", "b", "jsonl", FALSE, <<"b1">>, ""), F("sub", "b", "json", FALSE, <<"b1">>, ""), F("", "b", "toml", FALSE, <<"b1">>, "read"),
              F("", "b", "txt", FALSE, <<"b1">>, "")}
WalkOpts == {[recurse |-> TRUE, gzip |-> TRUE, formats |-> RecordExts], [recurse |-> FALSE, gzip |-> FALSE, formats |-> {"json", "jsonl"}]}
FilesConfigs ==
  [disk : {<<a, b>> : a \in AnyFile, b \in OtherFile}, opts : WalkOpts, halt : BOOLEAN, kind : Kinds]

Span(kind, entries) == [kind |-> kind, entries |-> entries]
DrainConfigs ==
  [spans : [1..3 -> {Span("range", <<1, 2>>), Span("range", <<2, 3, 4>>), Span("range", <<>>), Span("error", <<>>), Span("empty", <<>>)}], bad : {0, 2, 4}]

Cell(v) == [ok |-> TRUE, v |-> v]
NoCell == [ok |-> FALSE, v |-> 4]
R(x, y, s) == [x |-> x, y |-> y, s |-> s]
Group(rows, nullCount, minMax) == [rows |-> rows, nullCount |-> nullCount, minMax |-> minMax]
Part(groups, counted, columns) == [groups |-> groups, counted |-> counted, columns |-> columns]
XYS == {"x", "y", "s"}
RowA == <<R(Cell(4), Cell(3), Cell(1)), R(NoCell, Cell(6), NoCell), R(Cell(-2), NoCell, Cell(2))>>
RowB == <<R(Cell(6), NoCell, Cell(1))>>
RowC == <<R(NoCell, Cell(-3), Cell(3)), R(Cell(4), Cell(3), Cell(1))>>
\* Statistics that all row groups carry, that none does, that one of a file's two or one of the two files lacks.
Keyspaces ==
  LET ks(parts) == [parts |-> parts, types |-> [x |-> "INT64", y |-> "DOUBLE", s |-> "BYTE_ARRAY"]]
  IN {ks(<<>>), ks(<<Part(<<>>, TRUE, XYS)>>), ks(<<Part(<<Group(RowB, TRUE, TRUE)>>, FALSE, XYS)>>),
      ks(<<Part(<<Group(RowB, TRUE, TRUE)>>, TRUE, XYS), Part(<<Group(RowC, TRUE, TRUE)>>, TRUE, {"x", "y"})>>)}
     \cup {ks(<<Part(<<Group(RowA, n[1], m), Group(RowB, n[2], m)>>, TRUE, XYS), Part(<<Group(RowC, n[3], TRUE)>>, TRUE, XYS)>>) :
             n \in {<<TRUE, TRUE, TRUE>>, <<FALSE, FALSE, FALSE>>, <<TRUE, FALSE, TRUE>>, <<FALSE, TRUE, TRUE>>, <<TRUE, TRUE, FALSE>>},
             m \in BOOLEAN}
Col(f) == [k |-> "col", f |-> f]
Con(c) == [k |-> "const", c |-> c]
Cmp(op, a, b) == [k |-> "cmp", op |-> op, a |-> a, b |-> b]
Clauses == {Cmp("lt", Con(2), Col("x")), Cmp("le", Col("x"), Con(4)), Cmp("lt", Con(3), Col("x")), Cmp("le", Con(3), Col("y")),
            Cmp("eq", Col("x"), Con(4)), Cmp("lt", Col("x"), Col("y")), Cmp("lt", Con(90), Col("x"))}
Both(k, a, b) == [k |-> k, a |-> a, b |-> b]
Wheres == {[k |-> "none"]} \cup Clauses \cup {Both(k, a, b) : k \in {"and", "or"}, a \in Clauses, b \in Clauses}
          \cup {Both("and", Both(k, Cmp("le", Col("x"), Con(4)), Cmp("lt", Con(3), Col("y"))), Cmp("lt", Con(2), Col("x"))) : k \in {"and", "or"}}
AggOf(fn, src) == [fn |-> fn, src |-> src]
ArithOf(op, l, r) == [k |-> "arith", op |-> op, l |-> l, r |-> r]
AggLists ==
  {<<AggOf("sum", Col("x")), AggOf("count", Col("y")), AggOf("avg", Col("y"))>>,
   <<AggOf("sum", ArithOf("-", Con(2), Col("x"))), AggOf("avg", ArithOf("+", Col("x"), Col("y")))>>,
   <<AggOf("count", ArithOf("*", Col("x"), Con(4))), AggOf("sum", ArithOf("*", Col("y"), Con(4)))>>,
   <<AggOf("count", [k |-> "star"]), AggOf("min", Col("x")), AggOf("max", Col("y"))>>,
   <<AggOf("count", Col("s")), AggOf("count", Col("x"))>>, <<AggOf("min", Col("s"))>>, <<AggOf("sum", Col("s"))>>}
ColumnarConfigs == [ks : Keyspaces, where : Wheres, aggs : AggLists, grouped : {FALSE}]
                   \cup [ks : Keyspaces, where : {[k |-> "none"]}, aggs : AggLists, grouped : {TRUE}]

VRow(id, v) == [id |-> id, null |-> FALSE, vec |-> v]
VNull(id) == [id |-> id, null |-> TRUE, vec |-> <<>>]
Batches == {<<>>, <<<<VRow(1, <<1, 0>>), VRow(2, <<0, 0>>)>>, <<VRow(3, <<2, 1>>), VNull(4), VRow(5, <<1, 1>>)>>>>,
            <<<<VNull(1)>>, <<VRow(2, <<2, 1, 1>>)>>, <<VRow(3, <<1, 2>>), VRow(4, <<>>)>>>>}
DistOf(bare, const) == [k |-> "dist", bareField |-> bare, metricConst |-> const]
FieldOf(scalar) == [k |-> "field", scalar |-> scalar]
Augs == {<<FieldOf(TRUE), DistOf(TRUE, TRUE), [k |-> "pass"]>>, <<DistOf(TRUE, FALSE), FieldOf(TRUE), FieldOf(TRUE)>>,
         <<FieldOf(FALSE), DistOf(TRUE, TRUE), [k |-> "pass"]>>, <<DistOf(TRUE, TRUE), DistOf(TRUE, TRUE), FieldOf(TRUE)>>}
Queries == {[const |-> TRUE, readsRow |-> FALSE, value |-> <<1, 2>>], [const |-> FALSE, readsRow |-> FALSE, value |-> <<0, 0>>],
            [const |-> FALSE, readsRow |-> FALSE, value |-> <<>>], [const |-> FALSE, readsRow |-> TRUE, value |-> <<>>]}
VectorConfigs ==
  [aug : Augs, keeps : {{1, 2}, {2, 3}}, orderReads : {{2}, {3}}, q : Queries, aliasKnown : BOOLEAN, vecColumn : BOOLEAN,
   metric : {"l2_squared", "dot", "cosine", "none"}, batches : Batches]

-----------------------------------------------------------------------------
TextIdle == [fmt |-> "idle", data |-> <<>>, whole |-> TRUE, docs |-> <<>>]
FilesIdle == [disk |-> <<>>, opts |-> [recurse |-> FALSE, gzip |-> FALSE, formats |-> {}], halt |-> FALSE, kind |-> "classic"]
ColumnarIdle == [ks |-> [parts |-> <<>>], where |-> [k |-> "none"], aggs |-> <<>>, grouped |-> FALSE]
VectorIdle == [aug |-> <<>>, batches |-> <<>>, keeps |-> {}, orderReads |-> {}]
DrainIdle == [spans |-> <<>>, bad |-> 0]

FromSelect(r, rows) == [kind |-> "select", returning |-> r, rows |-> rows]
FromValues(r, rows) == [kind |-> "values", returning |-> r, rows |-> rows]
InsertStatements ==
  {FromSelect(FALSE, <<"doc", "wide">>), FromSelect(FALSE, <<"bad", "doc">>), FromSelect(TRUE, <<"missing", "doc">>),
   FromValues(FALSE, <<"wide", "doc">>), FromValues(TRUE, <<"doc", "bad">>)}
InsertTargets == {NoTarget, << <<InsertOld, 1>> >>}

Init ==
  /\ part \in {"text", "files", "pool", "drain", "columnar", "vector", "insert"}
  /\ RtInit(IF part = "text" THEN TextConfigs ELSE {TextIdle})
  /\ RfInit(IF part = "files" THEN FilesConfigs ELSE {FilesIdle})
  /\ SpInit(part = "pool")
  /\ IdInit(IF part = "drain" THEN DrainConfigs ELSE {DrainIdle})
  /\ CoInit(IF part = "columnar" THEN ColumnarConfigs ELSE {ColumnarIdle})
  /\ VfInit(IF part = "vector" THEN VectorConfigs ELSE {VectorIdle})
  /\ InsertInit(IF part = "insert" THEN {"jsonl", "parquet"} ELSE {"jsonl"}, IF part = "insert" THEN InsertTargets ELSE {NoTarget})

allVars == <<rtVars, rfVars, spVars, idVars, coVars, vfVars, inVars, part>>

Done ==
  /\ \/ part = "text" /\ rtPc \in {"done", "error"}
     \/ part = "files" /\ RfDone
     \/ part = "pool" /\ SpDone
     \/ part = "drain" /\ IdDone
     \/ part = "columnar" /\ CoDone
     \/ part = "vector" /\ VfDone
     \/ part = "insert" /\ InsertDone
  /\ UNCHANGED allVars

Next ==
  \/ part = "text" /\ RtNext /\ UNCHANGED <<rfVars, spVars, idVars, coVars, vfVars, inVars, part>>
  \/ part = "files" /\ RfNext /\ UNCHANGED <<rtVars, spVars, idVars, coVars, vfVars, inVars, part>>
  \/ part = "pool" /\ SpNext /\ UNCHANGED <<rtVars, rfVars, idVars, coVars, vfVars, inVars, part>>
  \/ part = "drain" /\ IdNext /\ UNCHANGED <<rtVars, rfVars, spVars, coVars, vfVars, inVars, part>>
  \/ part = "columnar" /\ CoNext /\ UNCHANGED <<rtVars, rfVars, spVars, idVars, vfVars, inVars, part>>
  \/ part = "vector" /\ VfNext /\ UNCHANGED <<rtVars, rfVars, spVars, idVars, coVars, inVars, part>>
  \/ part = "insert" /\ InsertNext /\ UNCHANGED <<rtVars, rfVars, spVars, idVars, coVars, vfVars, part>>
  \/ Done

Spec == Init /\ [][Next]_allVars /\ IdFair /\ InsertFair

\* The goroutines of a scan and of an INSERT come to their end, whoever gives up or fails.
GoroutinesEnd == ScannerEnds /\ InsertEnds
=============================================================================
