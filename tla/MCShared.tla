------------------------------ MODULE MCShared ------------------------------
(***************************************************************************)
(* Instances for TLC of what the statements and the goroutines of a        *)
(* request share while they run: one part, on one of its bounded inputs,   *)
(* in each behaviour.                                                      *)
(***************************************************************************)
EXTENDS RetainedRows, Subquery, JavaScript, Session, TLC

CONSTANT SeStreamed   \* whether the output modes of compiled EXECUTEs stream

VARIABLE part

\* The spellings of two names.
Names == {<<"t", 1>>, <<"t", 2>>, <<"u", 1>>}

SC(qn, cols, limit, hint, fail) == [qn |-> qn, cols |-> cols, limit |-> limit, hint |-> hint, fail |-> fail]
ScanKinds == {SC("k", "all", 9, -1, FALSE), SC("k", "a", 9, 1, FALSE), SC("k", "all", 9, 3, FALSE),
              SC("k", "other", 9, -1, FALSE), SC("m", "all", 9, -1, FALSE), SC("k", "all", 1, -1, FALSE),
              SC("k", "all", 9, -1, TRUE), SC("l", "all", 9, -1, FALSE)}
ScanCacheConfigs ==
  [scans : [1..3 -> ScanKinds], sizes : {[k |-> 2, m |-> 3, l |-> 1]}, groups : {{<<"k", "m", 1>>, <<"k", "l", 1>>, <<"m", "n", 1>>}}]

Graphs == {(1 :> <<2>> @@ 2 :> <<1, 3>> @@ 3 :> <<>>), (1 :> <<1, 2>> @@ 2 :> <<2>> @@ 3 :> <<3>>),
           (1 :> <<2, 3>> @@ 2 :> <<3>> @@ 3 :> <<2>>), (1 :> <<>> @@ 2 :> <<>> @@ 3 :> <<>>)}
RecursiveConfigs ==
  [anchor : {<<>>, <<1>>, <<1, 1>>, <<2, 3>>}, succ : Graphs, union : BOOLEAN,
   cycle : {<<>>, <<1, 1, 2>>, <<1, 2, 3>>}, levels : {-1, 0, 1}, documents : {-1, 0, 2}, fails : {0, 1, 2}]

SubqueryConfigs ==
  [rows : {<< <<"1", "2">> >>, << <<"1", "2">>, <<"2", "3">> >>}, corr : SUBSET {"q", "r"}, inner : {[q |-> "r", r |-> ""], [q |-> "", r |-> ""]},
   top : {"q"}, withs : {{}, {"q"}}]

JsRuntimeConfigs == [groups : {<<"a", "b", "a">>, <<"a", "a", "b">>}, throws : {{}, {2}}]

S(op, ks) == [op |-> op, ks |-> ks, name |-> "p", using |-> NoArg, flag |-> TRUE]
Select(ks) == S("select", ks)
Using(arg) == [S("execute", "f") EXCEPT !.using = arg]
Scripts ==
  {<<S("bad", "f"), Select("f"), S("explain", "f")>>,
   <<S("create", "f"), S("create", "t"), Select("t")>>,
   <<S("create", "f"), [S("create", "f") EXCEPT !.flag = FALSE], S("drop", "f"), Select("t")>>,
   <<S("drop", "f"), S("insert", "f"), Select("f")>>,
   <<S("create", "t"), S("insert", "t"), Select("f")>>}
Prepared ==
  {<<S("prepare", "f"), Using(1), Using(2)>>,
   <<S("prepare", "f"), S("execute", "f"), S("insert", "f"), S("execute", "f")>>,
   <<[S("prepare", "f") EXCEPT !.flag = FALSE], S("execute", "f"), S("execute", "f")>>,
   <<S("create", "f"), S("prepare", "t"), S("execute", "t"), S("execute", "t")>>,
   <<S("execute", "f"), S("prepare", "t"), S("execute", "t")>>}
How(script, stream, full, bail, arg, reads, presses, panics) ==
  [script : script, stream : stream, full : full, bail : bail, arg : arg, reads : reads,
   presses : presses, panics : panics, file : {<<"r1", "r2", "r3">>}]
SessionConfigs ==
  How(Scripts, BOOLEAN, {FALSE}, BOOLEAN, {NoArg}, {2, 20}, {TRUE}, {FALSE})
    \cup How(Prepared, BOOLEAN, {FALSE}, {FALSE}, {NoArg, 3}, {20}, {TRUE}, {FALSE})
    \cup How(Prepared, SeStreamed, {TRUE}, {FALSE}, {NoArg}, {4, 20}, {FALSE}, {FALSE})
    \cup How({<<S("insert", "f"), Select("f")>>}, BOOLEAN, {FALSE}, BOOLEAN, {NoArg}, {20}, {TRUE}, {TRUE})

-----------------------------------------------------------------------------
SessionIdle == [script |-> <<>>, stream |-> FALSE, full |-> FALSE, bail |-> FALSE, arg |-> NoArg,
                reads |-> 0, presses |-> FALSE, panics |-> FALSE, file |-> <<>>]
ScanCacheIdle == [scans |-> <<>>, sizes |-> [k |-> 0], groups |-> {}]
RecursiveIdle == [anchor |-> <<>>, succ |-> <<>>, union |-> FALSE, cycle |-> <<>>, levels |-> 0, documents |-> 0, fails |-> 0]
SubqueryIdle == [rows |-> <<>>, corr |-> {}, inner |-> [q |-> ""], top |-> "q", withs |-> {}]
JsRuntimeIdle == [groups |-> <<>>, throws |-> {}]

Init ==
  /\ part \in {"scans", "recursive", "temps", "subqueries", "extract", "scripts", "session"}
  /\ ScanCacheInit(IF part = "scans" THEN ScanCacheConfigs ELSE {ScanCacheIdle})
  /\ RecursiveInit(IF part = "recursive" THEN RecursiveConfigs ELSE {RecursiveIdle})
  /\ SubqueryInit(IF part = "subqueries" THEN SubqueryConfigs ELSE {SubqueryIdle})
  /\ JsRuntimeInit(IF part = "scripts" THEN JsRuntimeConfigs ELSE {JsRuntimeIdle})
  /\ SessionInit(IF part = "session" THEN SessionConfigs ELSE {SessionIdle})
  /\ TempInit /\ ExtractStreamInit

allVars == <<scanCacheVars, recursiveVars, subqueryVars, tempVars, extractStreamVars, jsRuntimeVars, sessionVars, part>>

Done ==
  /\ CASE part = "scans" -> ScanCacheDone
       [] part = "recursive" -> rcPc = "done"
       [] part = "temps" -> tkClosed
       [] part = "subqueries" -> SubqueryDone
       [] part = "extract" -> xsMain = "closed"
       [] part = "scripts" -> JsRuntimeDone
       [] part = "session" -> SessionDone
  /\ UNCHANGED allVars

Next ==
  \/ part = "scans" /\ ScanCacheNext
     /\ UNCHANGED <<recursiveVars, subqueryVars, tempVars, extractStreamVars, jsRuntimeVars, sessionVars, part>>
  \/ part = "recursive" /\ RecursiveNext
     /\ UNCHANGED <<scanCacheVars, subqueryVars, tempVars, extractStreamVars, jsRuntimeVars, sessionVars, part>>
  \/ part = "temps" /\ TempNext
     /\ UNCHANGED <<scanCacheVars, recursiveVars, subqueryVars, extractStreamVars, jsRuntimeVars, sessionVars, part>>
  \/ part = "subqueries" /\ SubqueryNext
     /\ UNCHANGED <<scanCacheVars, recursiveVars, tempVars, extractStreamVars, jsRuntimeVars, sessionVars, part>>
  \/ part = "extract" /\ ExtractStreamNext
     /\ UNCHANGED <<scanCacheVars, recursiveVars, subqueryVars, tempVars, jsRuntimeVars, sessionVars, part>>
  \/ part = "scripts" /\ JsRuntimeNext
     /\ UNCHANGED <<scanCacheVars, recursiveVars, subqueryVars, tempVars, extractStreamVars, sessionVars, part>>
  \/ part = "session" /\ SessionNext
     /\ UNCHANGED <<scanCacheVars, recursiveVars, subqueryVars, tempVars, extractStreamVars, jsRuntimeVars, part>>
  \/ Done

Spec == Init /\ [][Next]_allVars /\ ExtractStreamFair
=============================================================================
