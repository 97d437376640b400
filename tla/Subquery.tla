------------------------------ MODULE Subquery ------------------------------
(***************************************************************************)
(* glue/subquery.go: expression subqueries.  The branches of a UNION ALL   *)
(* evaluate in goroutines of their own: each has its clone of the context, *)
(* with the scope of the subquery under way, and all share one evaluator,  *)
(* with the compiled sub-plans and the results of uncorrelated subqueries. *)
(*                                                                         *)
(* A subquery q is evaluated for an outer row p; q may evaluate another    *)
(* subquery, Inner[q], for its own row before it yields.  An outer row is  *)
(* the path of the rows it is in.  The value of q is what it read: its     *)
(* name and, if it is correlated, the outer row of the scope, followed by  *)
(* the value of the inner one.                                             *)
(***************************************************************************)
EXTENDS Integers, Sequences, FiniteSets

VARIABLES
  sqCfg,      \* [actors, rows, corr, inner, top, withs]: the outer rows of each actor,
              \* the correlated subqueries, q -> the subquery inside it or "",
              \* the outermost subquery, the ones with WITH variables
  sqRow,      \* actor -> outer rows done
  sqStack,    \* actor -> the evaluations under way: [q, parent, pc, prev, val]
  sqScope,    \* actor -> corrParent
  sqPlans,    \* cache: the subqueries that are compiled
  sqResults,  \* results: subquery -> value
  sqExecs,    \* subquery -> times it was executed
  sqOut       \* actor -> <<outer row, value>>

subqueryVars == <<sqCfg, sqRow, sqStack, sqScope, sqPlans, sqResults, sqExecs, sqOut>>

Actors == DOMAIN sqCfg.rows
Queries == DOMAIN sqCfg.inner
NoScope == <<>>

SubqueryInit(Cfgs) ==
  /\ sqCfg \in Cfgs
  /\ sqRow = [a \in Actors |-> 0] /\ sqStack = [a \in Actors |-> <<>>] /\ sqScope = [a \in Actors |-> NoScope]
  /\ sqPlans = {} /\ sqResults = [q \in {} |-> <<>>] /\ sqExecs = [q \in Queries |-> 0]
  /\ sqOut = [a \in Actors |-> <<>>]

Correlated(q) == q \in sqCfg.corr
Top(a) == sqStack[a][Len(sqStack[a])]
SetTop(a, e) == [sqStack EXCEPT ![a] = [@ EXCEPT ![Len(@)] = e]]
Frame(a, q, parent) == [q |-> q, parent |-> parent, pc |-> "lookup", prev |-> sqScope[a], val |-> <<>>]

\* The outer row asks for its subquery.
OuterRow(a) ==
  /\ sqStack[a] = <<>> /\ sqRow[a] < Len(sqCfg.rows[a])
  /\ sqStack' = [sqStack EXCEPT ![a] = <<Frame(a, sqCfg.top, <<sqCfg.rows[a][sqRow[a] + 1]>>)>>]
  /\ UNCHANGED <<sqCfg, sqRow, sqScope, sqPlans, sqResults, sqExecs, sqOut>>

\* A value goes to the evaluation, or to the outer row, that asked for it.
Return(a, v) ==
  IF Len(sqStack[a]) = 1
  THEN /\ sqStack' = [sqStack EXCEPT ![a] = <<>>]
       /\ sqRow' = [sqRow EXCEPT ![a] = @ + 1]
       /\ sqOut' = [sqOut EXCEPT ![a] = Append(@, <<sqCfg.rows[a][sqRow[a] + 1], v>>)]
  ELSE /\ LET below == sqStack[a][Len(sqStack[a]) - 1]
          IN sqStack' = [sqStack EXCEPT ![a] =
                           Append(SubSeq(@, 1, Len(@) - 2), [below EXCEPT !.pc = "yield", !.val = v])]
       /\ UNCHANGED <<sqRow, sqOut>>

\* Mutants: a correlated subquery is memoized as well; none is.
MemoizedAll(q) == TRUE
MemoizedNone(q) == FALSE

Memoized(q) == ~Correlated(q)

\* cachedResult.
CachedResult(a) ==
  LET q == Top(a).q IN
  /\ sqStack[a] # <<>> /\ Top(a).pc = "lookup"
  /\ IF Memoized(q) /\ q \in DOMAIN sqResults
     THEN Return(a, sqResults[q])
     ELSE sqStack' = SetTop(a, [Top(a) EXCEPT !.pc = "compile"]) /\ UNCHANGED <<sqRow, sqOut>>
  /\ UNCHANGED <<sqCfg, sqScope, sqPlans, sqResults, sqExecs>>

\* compile, under the lock, then the scope of the subquery: the outer row if
\* it is correlated, its WITH variables if it has any.
ScopeFor(q, parent, prev) ==
  IF q \in sqCfg.withs THEN (IF Correlated(q) THEN parent ELSE NoScope)
  ELSE IF Correlated(q) THEN parent ELSE prev

Compile(a) ==
  LET t == Top(a) IN
  /\ sqStack[a] # <<>> /\ t.pc = "compile"
  /\ sqPlans' = sqPlans \cup {t.q}
  /\ sqScope' = [sqScope EXCEPT ![a] = ScopeFor(t.q, t.parent, sqScope[a])]
  /\ sqStack' = SetTop(a, [t EXCEPT !.pc = "exec", !.prev = sqScope[a]])
  /\ UNCHANGED <<sqCfg, sqRow, sqResults, sqExecs, sqOut>>

\* The sub-plan runs; a row of it asks for the subquery inside, whose outer
\* row it is.
ExecOp(a) ==
  LET t == Top(a) IN
  /\ sqStack[a] # <<>> /\ t.pc = "exec"
  /\ sqExecs' = [sqExecs EXCEPT ![t.q] = @ + 1]
  /\ sqStack' = IF sqCfg.inner[t.q] = ""
                THEN SetTop(a, [t EXCEPT !.pc = "yield"])
                ELSE [SetTop(a, [t EXCEPT !.pc = "wait"]) EXCEPT ![a] = Append(@, Frame(a, sqCfg.inner[t.q], <<t.q>> \o sqScope[a]))]
  /\ UNCHANGED <<sqCfg, sqRow, sqScope, sqPlans, sqResults, sqOut>>

\* Mutant: the scope of the caller is not put back.
ScopeLeft(a) == sqScope[a]

ScopeRestored(a) == Top(a).prev

\* The row of the sub-plan reads the scope; the result is kept if it does not
\* depend on the outer row; the scope of the caller is put back.
YieldRow(a) ==
  LET t == Top(a)
      v == << <<t.q, IF Correlated(t.q) THEN sqScope[a] ELSE NoScope>> >> \o t.val
  IN
  /\ sqStack[a] # <<>> /\ t.pc = "yield"
  /\ sqResults' = IF Memoized(t.q)
                  THEN [q \in DOMAIN sqResults \cup {t.q} |-> IF q = t.q THEN v ELSE sqResults[q]]
                  ELSE sqResults
  /\ sqScope' = [sqScope EXCEPT ![a] = ScopeRestored(a)]
  /\ Return(a, v)
  /\ UNCHANGED <<sqCfg, sqPlans, sqExecs>>

\* The sub-plan fails: nothing is kept, and the statement fails.
ExecFails(a) ==
  /\ sqStack[a] # <<>> /\ Top(a).pc = "yield"
  /\ sqScope' = [sqScope EXCEPT ![a] = ScopeRestored(a)]
  /\ IF Len(sqStack[a]) = 1
     THEN sqStack' = [sqStack EXCEPT ![a] = <<>>] /\ sqRow' = [sqRow EXCEPT ![a] = @ + 1]
     ELSE sqStack' = [sqStack EXCEPT ![a] =
                        Append(SubSeq(@, 1, Len(@) - 2), [@[Len(@) - 1] EXCEPT !.pc = "failed"])]
          /\ UNCHANGED sqRow
  /\ UNCHANGED <<sqCfg, sqPlans, sqResults, sqExecs, sqOut>>

FailUp(a) ==
  /\ sqStack[a] # <<>> /\ Top(a).pc = "failed"
  /\ sqScope' = [sqScope EXCEPT ![a] = ScopeRestored(a)]
  /\ sqStack' = [sqStack EXCEPT ![a] = IF Len(@) = 1 THEN <<>>
                   ELSE Append(SubSeq(@, 1, Len(@) - 2), [@[Len(@) - 1] EXCEPT !.pc = "failed"])]
  /\ sqRow' = IF Len(sqStack[a]) = 1 THEN [sqRow EXCEPT ![a] = @ + 1] ELSE sqRow
  /\ UNCHANGED <<sqCfg, sqPlans, sqResults, sqExecs, sqOut>>

SubqueryNext ==
  \E a \in Actors : OuterRow(a) \/ CachedResult(a) \/ Compile(a) \/ ExecOp(a) \/ YieldRow(a) \/ ExecFails(a) \/ FailUp(a)

SubqueryDone == \A a \in Actors : sqStack[a] = <<>> /\ sqRow[a] = Len(sqCfg.rows[a])

-----------------------------------------------------------------------------
(* Properties.                                                             *)

\* The value of the outermost subquery, and of the one inside it, for the
\* outer row p, from the definition.
sqSeen(q, p) == IF Correlated(q) THEN p ELSE NoScope
sqValue(q, p) ==
  LET i == sqCfg.inner[q]
  IN << <<q, sqSeen(q, p)>> >> \o (IF i = "" THEN <<>> ELSE << <<i, sqSeen(i, <<q>> \o sqSeen(q, p))>> >>)

\* Whatever was memoized by the row before or by another branch, the value
\* for an outer row is the one of that row.
SubqueryExact ==
  \A a \in Actors : \A i \in DOMAIN sqOut[a] : sqOut[a][i][2] = sqValue(sqCfg.top, <<sqOut[a][i][1]>>)

\* An uncorrelated subquery runs once, or once in each branch that missed the
\* others' result; it never runs once per outer row.
UncorrelatedRunsOnce ==
  \A q \in Queries : ~Correlated(q) /\ (\A a \in Actors : Len(sqOut[a]) = sqRow[a]) => sqExecs[q] <= Cardinality(Actors)

\* Between two outer rows no scope of a subquery is left behind.
ScopeGone == \A a \in Actors : sqStack[a] = <<>> => sqScope[a] = NoScope

-----------------------------------------------------------------------------
(***************************************************************************)
(* glue/recursive.go: the fixpoint of a WITH RECURSIVE binding.  Items are *)
(* nodes of a graph; the anchor is a sequence of them, and the step yields *)
(* the successors of the latest working set, in order.                     *)
(***************************************************************************)

CONSTANTS
  RecurDepthMax,  \* the implicit caps, small here
  RecurDocsMax

VARIABLES
  rcCfg,      \* [anchor, succ, union, cycle, levels, documents, fails];
              \* cycle maps an item to its CYCLE key, or is <<>>;
              \* levels and documents are -1 when they are not set
  rcPc, rcWork,
  rcSet,      \* trackSet
  rcCycle,    \* trackCycle
  rcFinal, rcDocs, rcLevel, rcWarn, rcErr

recursiveVars == <<rcCfg, rcPc, rcWork, rcSet, rcCycle, rcFinal, rcDocs, rcLevel, rcWarn, rcErr>>

\* Mutants: what UNION keeps is not remembered; a CYCLE key is not.
Restrict1Forgets(st, item) ==
  [kept |-> IF rcCfg.cycle # <<>> /\ rcCfg.cycle[item] \in st.cycle THEN st.kept ELSE Append(st.kept, item), set |-> st.set,
   cycle |-> IF rcCfg.cycle # <<>> THEN st.cycle \cup {rcCfg.cycle[item]} ELSE st.cycle]
Restrict1NoCycle(st, item) ==
  LET seen == rcCfg.union /\ item \in st.set
  IN [kept |-> IF seen THEN st.kept ELSE Append(st.kept, item),
      set |-> IF rcCfg.union THEN st.set \cup {item} ELSE st.set, cycle |-> st.cycle]

\* recurDedupCycleRestrict: UNION drops what was seen, CYCLE drops a key that
\* was seen; both remember what passes through them.
Restrict1(st, item) ==
  LET seen == rcCfg.union /\ item \in st.set
      key == rcCfg.cycle[item]
      looped == ~seen /\ rcCfg.cycle # <<>> /\ key \in st.cycle
  IN [kept |-> IF seen \/ looped THEN st.kept ELSE Append(st.kept, item),
      set |-> IF rcCfg.union THEN st.set \cup {item} ELSE st.set,
      cycle |-> IF rcCfg.cycle # <<>> /\ ~seen THEN st.cycle \cup {key} ELSE st.cycle]

DedupCycleRestrict(items, set, cycle) ==
  LET run[i \in 0..Len(items)] ==
        IF i = 0 THEN [kept |-> <<>>, set |-> set, cycle |-> cycle] ELSE Restrict1(run[i - 1], items[i])
  IN run[Len(items)]

StepOf(work) ==
  LET cat[i \in 0..Len(work)] == IF i = 0 THEN <<>> ELSE cat[i - 1] \o rcCfg.succ[work[i]]
  IN cat[Len(work)]

RecursiveInit(Cfgs) ==
  /\ rcCfg \in Cfgs
  /\ rcPc = "anchor" /\ rcWork = <<>> /\ rcSet = {} /\ rcCycle = {}
  /\ rcFinal = <<>> /\ rcDocs = 0 /\ rcLevel = 0 /\ rcWarn = FALSE /\ rcErr = FALSE

Track(items) ==
  LET r == DedupCycleRestrict(items, rcSet, rcCycle)
  IN rcWork' = r.kept /\ rcSet' = r.set /\ rcCycle' = r.cycle

RecurAnchor ==
  /\ rcPc = "anchor"
  /\ Track(rcCfg.anchor)
  /\ rcPc' = "loop"
  /\ UNCHANGED <<rcCfg, rcFinal, rcDocs, rcLevel, rcWarn, rcErr>>

LevelLimit == rcLevel > (IF rcCfg.levels > -1 THEN rcCfg.levels ELSE RecurDepthMax)
DocLimit == IF rcCfg.documents > -1 THEN rcCfg.documents ELSE RecurDocsMax

\* The level limit, then the document limit, are looked at before the
\* working set is added to the result.
RecurLimited ==
  /\ rcPc = "loop" /\ rcWork # <<>>
  /\ LevelLimit \/ rcDocs > DocLimit
  /\ rcFinal' = IF ~LevelLimit /\ DocLimit < Len(rcFinal) THEN SubSeq(rcFinal, 1, DocLimit) ELSE rcFinal
  /\ rcWarn' = IF LevelLimit THEN rcCfg.levels = -1 ELSE rcCfg.documents = -1
  /\ rcPc' = "done"
  /\ UNCHANGED <<rcCfg, rcWork, rcSet, rcCycle, rcDocs, rcLevel, rcErr>>

RecurStep ==
  /\ rcPc = "loop" /\ rcWork # <<>>
  /\ ~LevelLimit /\ rcDocs <= DocLimit
  /\ rcFinal' = rcFinal \o rcWork
  /\ rcDocs' = rcDocs + Len(rcWork) /\ rcLevel' = rcLevel + 1
  /\ IF rcLevel + 1 = rcCfg.fails
     THEN rcErr' = TRUE /\ rcPc' = "done" /\ UNCHANGED <<rcWork, rcSet, rcCycle>>
     ELSE Track(StepOf(rcWork)) /\ UNCHANGED <<rcPc, rcErr>>
  /\ UNCHANGED <<rcCfg, rcWarn>>

RecurFixpoint ==
  /\ rcPc = "loop" /\ rcWork = <<>>
  /\ rcPc' = "done"
  /\ UNCHANGED <<rcCfg, rcWork, rcSet, rcCycle, rcFinal, rcDocs, rcLevel, rcWarn, rcErr>>

RecursiveNext == RecurAnchor \/ RecurLimited \/ RecurStep \/ RecurFixpoint

-----------------------------------------------------------------------------
(* Properties.                                                             *)

SeqRange(s) == {s[i] : i \in DOMAIN s}

\* The nodes within n steps of the anchor.
rcWithin(n) ==
  LET reach[k \in 0..n] == IF k = 0 THEN SeqRange(rcCfg.anchor)
                           ELSE reach[k - 1] \cup UNION {SeqRange(rcCfg.succ[x]) : x \in reach[k - 1]}
  IN reach[n]

\* The result of a UNION is every item that can be reached within the depth
\* allowed, once, whatever cycles the data has, unless the limit on documents
\* cuts it short.
RecursiveExact ==
  rcPc = "done" /\ ~rcErr /\ rcCfg.union /\ rcCfg.cycle = <<>> /\ rcDocs <= DocLimit =>
    /\ \A i, j \in DOMAIN rcFinal : rcFinal[i] = rcFinal[j] => i = j
    /\ SeqRange(rcFinal) = rcWithin(IF rcCfg.levels > -1 THEN rcCfg.levels ELSE RecurDepthMax)

\* CYCLE keeps one item of each key, so that the loop ends by itself.
CycleKeysUnique ==
  rcPc = "done" /\ ~rcErr /\ rcCfg.cycle # <<>> =>
    \A i, j \in DOMAIN rcFinal : rcCfg.cycle[rcFinal[i]] = rcCfg.cycle[rcFinal[j]] => i = j

\* Subqueries and recursive CTEs answer what they are asked for the row at
\* hand, whatever was kept of earlier rows, branches and rounds.
SubqueriesExact ==
  /\ SubqueryExact
  /\ UncorrelatedRunsOnce
  /\ ScopeGone
  /\ RecursiveExact
  /\ CycleKeysUnique
=============================================================================
