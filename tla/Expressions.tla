---------------------------- MODULE Expressions ----------------------------
(***************************************************************************)
(* The native expression lane: values by their collation type, the leaf    *)
(* functions that work on the JSON bytes of a value, and the evaluation of *)
(* a tree of native parameters against the registers of a row              *)
(* (engine/expr*.go, base/).                                               *)
(*                                                                         *)
(* A value is a record with its type t.  Strings and the names of an       *)
(* object's fields are sequences of numbers, one for each character, so    *)
(* that they have an order and substrings; numbers are integers, and a NaN *)
(* has a type of its own that collates with the numbers.                   *)
(***************************************************************************)
EXTENDS Integers, Sequences, FiniteSets, SequencesExt

VMissing == [t |-> "missing"]
VNull == [t |-> "null"]
VNaN == [t |-> "nan"]
VBool(b) == [t |-> "bool", b |-> b]
VNum(n) == [t |-> "num", n |-> n]
VStr(s) == [t |-> "str", s |-> s]
VArr(e) == [t |-> "arr", e |-> e]
VObj(f) == [t |-> "obj", f |-> f]

ParseTypeToValType == [missing |-> 0, null |-> 1, bool |-> 2, num |-> 3, nan |-> 3, str |-> 4, arr |-> 5, obj |-> 6]
IsValue(v) == ParseTypeToValType[v.t] > 1

\* What counts as true where a condition is wanted.
ValTruthy(v) ==
  CASE v.t = "bool" -> v.b
    [] v.t = "num" -> v.n # 0
    [] v.t = "str" -> v.s # <<>>
    [] v.t = "arr" -> v.e # <<>>
    [] v.t = "obj" -> DOMAIN v.f # {}
    [] OTHER -> FALSE

-----------------------------------------------------------------------------
(* Collation: by type, then by value. *)

\* The first position at which two sequences differ decides, then their lengths.
LexCompare(a, b, Cmp(_, _)) ==
  LET differ == {i \in DOMAIN a \cap DOMAIN b : Cmp(a[i], b[i]) # 0}
  IN  IF differ = {} THEN Len(a) - Len(b) ELSE Cmp(a[Min(differ)], b[Min(differ)])
BytesCompare(a, b) == LexCompare(a, b, LAMBDA x, y : x - y)
\* The names of an object's fields, sorted.
KeyValsSortByName(names) == SetToSortSeq(names, LAMBDA x, y : BytesCompare(x, y) < 0)

RECURSIVE CompareWithType(_, _)
\* The larger object wins; of two as large, the first name by which they differ or whose values differ decides.
CompareObjects(a, b) ==
  IF Cardinality(DOMAIN a) # Cardinality(DOMAIN b) THEN Cardinality(DOMAIN a) - Cardinality(DOMAIN b)
  ELSE LET differ == {n \in DOMAIN a \cup DOMAIN b : n \notin DOMAIN a \cap DOMAIN b \/ CompareWithType(a[n], b[n]) # 0}
           first == CHOOSE n \in differ : \A m \in differ : BytesCompare(n, m) <= 0
       IN  IF differ = {} THEN 0
           ELSE IF first \in DOMAIN a \cap DOMAIN b THEN CompareWithType(a[first], b[first]) ELSE IF first \in DOMAIN a THEN 1 ELSE -1
CompareWithType(a, b) ==
  IF a.t # b.t THEN ParseTypeToValType[a.t] - ParseTypeToValType[b.t]
  ELSE CASE a.t = "num" -> a.n - b.n
         [] a.t = "str" -> BytesCompare(a.s, b.s)
         [] a.t = "bool" -> (IF a.b THEN 1 ELSE 0) - (IF b.b THEN 1 ELSE 0)
         [] a.t = "arr" -> LexCompare(a.e, b.e, LAMBDA x, y : CompareWithType(x, y))
         [] a.t = "obj" -> CompareObjects(a.f, b.f)
         [] OTHER -> 0

-----------------------------------------------------------------------------
(* The leaf functions, over the values of their operands. *)

Types(a) == {a[i].t : i \in DOMAIN a}
\* MISSING dominates NULL, and both dominate what the operation would give.
Strict3(a, v) == IF "missing" \in Types(a) THEN VMissing ELSE IF "null" \in Types(a) THEN VNull ELSE v

LogicAnd2(a, b) ==
  IF (IsValue(a) /\ ~ValTruthy(a)) \/ (IsValue(b) /\ ~ValTruthy(b)) THEN VBool(FALSE) ELSE Strict3(<<a, b>>, VBool(TRUE))
LogicOr2(a, b) ==
  IF (IsValue(a) /\ ValTruthy(a)) \/ (IsValue(b) /\ ValTruthy(b)) THEN VBool(TRUE)
  ELSE IF VNull \in {a, b} THEN VNull ELSE IF VMissing \in {a, b} THEN VMissing ELSE VBool(FALSE)

\* A table of three results: for a value, for NULL and for MISSING.
ExprIsPredicateFuncs ==
  [is_null |-> <<VBool(FALSE), VBool(TRUE), VMissing>>, is_not_null |-> <<VBool(TRUE), VBool(FALSE), VMissing>>,
   is_missing |-> <<VBool(FALSE), VBool(FALSE), VBool(TRUE)>>, is_not_missing |-> <<VBool(TRUE), VBool(TRUE), VBool(FALSE)>>,
   is_valued |-> <<VBool(TRUE), VBool(FALSE), VBool(FALSE)>>, is_not_valued |-> <<VBool(FALSE), VBool(TRUE), VBool(TRUE)>>]
ValKind(v) == IF v = VMissing THEN 3 ELSE IF v = VNull THEN 2 ELSE 1
ExprNot(v) == IF IsValue(v) THEN VBool(~ValTruthy(v)) ELSE v

ExprIsTypeFuncs == [is_array |-> {5}, is_number |-> {3}, is_string |-> {4}, is_boolean |-> {2}, is_object |-> {6}, is_atom |-> 2..4]
ExprIsType(v, types) == IF IsValue(v) THEN VBool(ParseTypeToValType[v.t] \in types) ELSE v
NaryConcatVals(a) ==
  IF "missing" \in Types(a) THEN VMissing ELSE IF Types(a) = {"str"} THEN VStr(FlattenSeq([i \in DOMAIN a |-> a[i].s])) ELSE VNull

CondUnknownKeep(f, v) ==
  CASE f = "ifnull" -> v # VNull
    [] f = "ifmissing" -> v # VMissing
    [] f \in {"ifmissingornull", "nvl"} -> IsValue(v)
NaryFirstKeptVals(f, a) ==
  LET kept == SelectSeq(a, LAMBDA v : CondUnknownKeep(f, v)) IN IF kept = <<>> THEN VNull ELSE kept[1]
\* The greatest (the least) operand that is a value, the first one of equals.
GreatestLeastVals(a, greater) ==
  FoldLeft(LAMBDA best, v : IF ~IsValue(v) THEN best
                            ELSE IF best = VNull \/ (IF greater THEN CompareWithType(v, best) > 0 ELSE CompareWithType(v, best) < 0) THEN v ELSE best,
           VNull, a)
NullMissingIf(a, whenEqual) == Strict3(a, IF CompareWithType(a[1], a[2]) = 0 THEN whenEqual ELSE a[1])
ValDistinctFrom(a, b) == IF IsValue(a) /\ IsValue(b) THEN CompareWithType(a, b) # 0 ELSE ValKind(a) # ValKind(b)
ExprBetween(v, low, high) == Strict3(<<v, low, high>>, VBool(CompareWithType(v, low) >= 0 /\ CompareWithType(v, high) <= 0))
ValIn(x, arr) ==
  IF VMissing \in {x, arr} THEN VMissing
  ELSE IF arr.t # "arr" THEN VNull
  ELSE IF x = VNull THEN (IF arr.e = <<>> THEN VBool(FALSE) ELSE VNull)
  ELSE IF \E i \in DOMAIN arr.e : CompareWithType(x, arr.e[i]) = 0 THEN VBool(TRUE)
  ELSE IF \E i \in DOMAIN arr.e : arr.e[i] = VNull THEN VNull ELSE VBool(FALSE)
\* Negative positions count from the end.
ValElement(arr, idx) ==
  IF idx = VMissing THEN VMissing
  ELSE IF idx.t # "num" THEN (IF arr = VMissing THEN VMissing ELSE VNull)
  ELSE IF arr.t # "arr" THEN VMissing
  ELSE LET i == IF idx.n < 0 THEN Len(arr.e) + idx.n ELSE idx.n
       IN  IF i + 1 \in DOMAIN arr.e THEN arr.e[i + 1] ELSE VMissing
ArithBiMissingDominant(a, b, r) ==
  IF VMissing \in {a, b} THEN VMissing ELSE IF a.t = "num" /\ b.t = "num" THEN VNum(r) ELSE VNull
ContainsSeq(s, lit) == \E i \in 0..(Len(s) - Len(lit)) : SubSeq(s, i + 1, i + Len(lit)) = lit
StrContains(a, b) ==
  IF VMissing \in {a, b} THEN VMissing ELSE IF a.t = "str" /\ b.t = "str" THEN VBool(ContainsSeq(a.s, b.s)) ELSE VNull
\* Arrays cannot hold MISSING.
ArrayConstructVals(a) == VArr([i \in DOMAIN a |-> IF a[i] = VMissing THEN VNull ELSE a[i]])
\* kvs with the pair put in: the last value of a name wins.
CollObjectPut(kvs, name, v) == [n \in DOMAIN kvs \cup {name.s} |-> IF n = name.s THEN v ELSE kvs[n]]
NoFields == [n \in {} |-> VNull]
\* a alternates names and values.  A name that is no string spoils the object; an unknown name or a MISSING value skips its pair.
ObjectConstructVals(a) ==
  LET pairs == {i \in DOMAIN a : i % 2 = 1}
      put(kvs, i) == IF i \in pairs /\ IsValue(a[i]) /\ a[i + 1] # VMissing THEN CollObjectPut(kvs, a[i], a[i + 1]) ELSE kvs
  IN  IF \E i \in pairs : IsValue(a[i]) /\ a[i].t # "str" THEN VNull
      ELSE VObj(FoldLeft(put, NoFields, [i \in DOMAIN a |-> i]))

RECURSIVE DescendantsAppend(_)
Kids(v) ==
  IF v.t = "arr" THEN v.e ELSE IF v.t = "obj" THEN LET ns == KeyValsSortByName(DOMAIN v.f) IN [i \in DOMAIN ns |-> v.f[ns[i]]] ELSE <<>>
\* Each child followed by its own descendants.
DescendantsAppend(v) == FoldLeft(LAMBDA out, c : out \o <<c>> \o DescendantsAppend(c), <<>>, Kids(v))
Descendants(v) == IF v = VMissing THEN VMissing ELSE IF v.t \in {"arr", "obj"} THEN VArr(DescendantsAppend(v)) ELSE VNull

Leaf(f, a) ==
  CASE f \in DOMAIN ExprIsPredicateFuncs -> ExprIsPredicateFuncs[f][ValKind(a[1])]
    [] f = "not" -> ExprNot(a[1])
    [] f \in DOMAIN ExprIsTypeFuncs -> ExprIsType(a[1], ExprIsTypeFuncs[f])
    [] f = "concat" -> NaryConcatVals(a)
    [] f \in {"ifnull", "ifmissing", "ifmissingornull", "nvl"} -> NaryFirstKeptVals(f, a)
    [] f \in {"greatest", "least"} -> GreatestLeastVals(a, f = "greatest")
    [] f = "nullif" -> NullMissingIf(a, VNull)
    [] f = "missingif" -> NullMissingIf(a, VMissing)
    [] f = "is_distinct_from" -> VBool(ValDistinctFrom(a[1], a[2]))
    [] f = "is_not_distinct_from" -> VBool(~ValDistinctFrom(a[1], a[2]))
    [] f = "between" -> ExprBetween(a[1], a[2], a[3])
    [] f = "in" -> ValIn(a[1], a[2])
    [] f = "element" -> ValElement(a[1], a[2])
    [] f = "add" -> ArithBiMissingDominant(a[1], a[2], IF a[1].t = "num" /\ a[2].t = "num" THEN a[1].n + a[2].n ELSE 0)
    [] f = "contains" -> StrContains(a[1], a[2])
    [] f = "array_construct" -> ArrayConstructVals(a)
    [] f = "object_construct" -> ObjectConstructVals(a)
    [] f = "descendants" -> Descendants(a[1])

-----------------------------------------------------------------------------
(* Comprehensions: the members of the collection, then what is made of the results of the bodies. *)

\* The members as tuples of the slots they fill: the element alone, or its name (its position) and the element.
CollElems(v, named) ==
  IF ~named THEN [i \in DOMAIN v.e |-> <<v.e[i]>>]
  ELSE IF v.t = "arr" THEN [i \in DOMAIN v.e |-> <<VNum(i - 1), v.e[i]>>]
  ELSE LET ns == KeyValsSortByName(DOMAIN v.f) IN [i \in DOMAIN ns |-> <<VStr(ns[i]), v.f[ns[i]]>>]
IsColl(v, named) == v.t = "arr" \/ (named /\ v.t = "obj")

ExprAny(sat) == VBool(\E i \in DOMAIN sat : ValTruthy(sat[i]))
ExprEvery(sat) == VBool(\A i \in DOMAIN sat : ValTruthy(sat[i]))
Passing(when) == SelectSeq([i \in DOMAIN when |-> i], LAMBDA i : ValTruthy(when[i]))
ExprFirst(map, when) == LET p == Passing(when) IN IF p = <<>> THEN VMissing ELSE map[p[1]]
ExprArray(map, when) == VArr(SelectSeq([i \in DOMAIN Passing(when) |-> map[Passing(when)[i]]], LAMBDA v : v # VMissing))
\* The first name that is no string ends the object: MISSING for MISSING, else NULL.
ExprObject(name, value, when) ==
  LET p == Passing(when)
      bad == {i \in DOMAIN p : name[p[i]].t # "str"}
      put(kvs, i) == IF value[i] = VMissing THEN kvs ELSE CollObjectPut(kvs, name[i], value[i])
  IN  IF bad # {} THEN (IF name[p[Min(bad)]] = VMissing THEN VMissing ELSE VNull)
      ELSE VObj(FoldLeft(put, NoFields, p))
\* b: the results of the bodies, one sequence for each body.
Comprehend(c, b) ==
  CASE c = "any" -> ExprAny(b[1])
    [] c = "every" -> ExprEvery(b[1])
    [] c = "first" -> ExprFirst(b[1], b[2])
    [] c = "array" -> ExprArray(b[1], b[2])
    [] c = "object" -> ExprObject(b[1], b[2], b[3])

-----------------------------------------------------------------------------
(* A tree of native parameters over the registers of a row: labels[i] says what vals[i] is. *)

SlotOf(labels, label) == SelectInSeq(labels, LAMBDA l : l = label)
RECURSIVE ValPathGet(_, _)
ValPathGet(v, path) ==
  IF path = <<>> THEN v
  ELSE IF v.t = "obj" /\ path[1] \in DOMAIN v.f THEN ValPathGet(v.f[path[1]], Tail(path)) ELSE VMissing
ExprLabelPath(p, labels, vals) ==
  IF SlotOf(labels, p.label) = 0 THEN VMissing ELSE ValPathGet(vals[SlotOf(labels, p.label)], p.steps)

ExprCmpFuncs ==
  [eq |-> [lt |-> FALSE, eq |-> TRUE, gt |-> FALSE, swap |-> FALSE], lt |-> [lt |-> TRUE, eq |-> FALSE, gt |-> FALSE, swap |-> FALSE],
   le |-> [lt |-> TRUE, eq |-> TRUE, gt |-> FALSE, swap |-> FALSE], gt |-> [lt |-> TRUE, eq |-> FALSE, gt |-> FALSE, swap |-> TRUE],
   ge |-> [lt |-> TRUE, eq |-> TRUE, gt |-> FALSE, swap |-> TRUE]]
CmpResult(c, f) == VBool(IF c = 0 THEN f.eq ELSE IF c < 0 THEN f.lt ELSE f.gt)
\* s is a constant, the parami-th operand, and x is computed for each row.
ExprCmpStatic(f, s, x, parami) ==
  IF ~IsValue(s) THEN s ELSE IF ~IsValue(x) THEN x
  ELSE CmpResult(CompareWithType(s, x), IF parami = 1 THEN f ELSE [f EXCEPT !.lt = f.gt, !.gt = f.lt])
ExprCmpDynamic(f, a, b) == IF ~IsValue(a) THEN a ELSE IF ~IsValue(b) THEN b ELSE CmpResult(CompareWithType(a, b), f)
\* gt and ge are lt and le with the operands swapped.
ExprCmp(op, args, vs) ==
  LET f == ExprCmpFuncs[op]
      at(i) == IF f.swap THEN 3 - i ELSE i
      static == {i \in 1..2 : args[at(i)].op = "json"}
  IN  IF static = {} THEN ExprCmpDynamic(f, vs[at(1)], vs[at(2)])
      ELSE ExprCmpStatic(f, vs[at(Min(static))], vs[at(3 - Min(static))], Min(static))
\* Conditions and results alternate; an odd operand at the end is the ELSE.
ExprCase(a) ==
  LET hits == {i \in DOMAIN a : i % 2 = 1 /\ i < Len(a) /\ ValTruthy(a[i])}
  IN  IF hits # {} THEN a[Min(hits) + 1] ELSE IF Len(a) % 2 = 1 THEN a[Len(a)] ELSE VNull

RECURSIVE NativeVal(_, _, _)
\* A comprehension appends a slot (two for a named binding) to the registers its bodies read.
ExprColl(p, labels, vals) ==
  LET coll == NativeVal(p.over, labels, vals)
      named == Len(p.bind) = 2
      members == CollElems(coll, named)
  IN  IF coll = VMissing THEN VMissing
      ELSE IF ~IsColl(coll, named) THEN VNull
      ELSE Comprehend(p.op, [k \in DOMAIN p.args |-> [i \in DOMAIN members |-> NativeVal(p.args[k], labels \o p.bind, vals \o members[i])]])
NativeVal(p, labels, vals) ==
  CASE p.op = "json" -> p.v
    [] p.op = "labelPath" -> ExprLabelPath(p, labels, vals)
    [] p.op \in {"any", "every", "first", "array", "object"} -> ExprColl(p, labels, vals)
    [] OTHER ->
         LET a == [i \in DOMAIN p.args |-> NativeVal(p.args[i], labels, vals)]
         IN  CASE p.op \in DOMAIN ExprCmpFuncs -> ExprCmp(p.op, p.args, a)
               [] p.op = "and" -> LogicAnd2(a[1], a[2])
               [] p.op = "or" -> LogicOr2(a[1], a[2])
               [] p.op = "case" -> ExprCase(a)
               [] OTHER -> Leaf(p.op, a)

-----------------------------------------------------------------------------
(***************************************************************************)
(* Which expressions leave the boxed lane, and what becomes of them        *)
(* (glue/expr_optimize.go, glue/expr.go ExprTree).  An expression of a     *)
(* statement is lowered, once for each operator that evaluates it, to a    *)
(* tree of native parameters that name the registers of the row; what      *)
(* cannot be lowered is evaluated by the query engine's own Evaluate over  *)
(* the row converted to one value.                                         *)
(*                                                                         *)
(* Under a scope (a correlated subquery, WITH) the row is a scope over a   *)
(* parent value that the native lane cannot see, so that a reference may   *)
(* only be lowered when it names a register.  In the compiled lane the     *)
(* expressions are lowered against the registers of the operator's first   *)
(* child alone, whatever it reads.  BoxedVal is the reference: the same    *)
(* leaf functions over names that are looked up in the scopes, innermost   *)
(* first, with none of the lowering's rewrites.                            *)
(***************************************************************************)

VARIABLES
  exCfg,     \* what is evaluated: the expression, the rows and their labels, the first child's labels, the scope, the lane
  exParams,  \* the tree the operator was set up with; Unset, ExprStr or Refused when there is none
  exOut      \* the values of the rows so far
exVars == <<exCfg, exParams, exOut>>

Row == [k |-> "row"]
Star == [k |-> "star"]
PathLabel(p) == [k |-> "path", p |-> p]
AggSlot(a) == [k |-> "agg", a |-> a]

Refused == [op |-> "refused"]
ExprStr == [op |-> "exprStr"]
Unset == [op |-> "unset"]
Json(v) == [op |-> "json", v |-> v]
OrElse(p, q) == IF p = Refused THEN q ELSE p
Call(op, args) == IF \E i \in DOMAIN args : args[i] = Refused THEN Refused ELSE [op |-> op, args |-> args]

-----------------------------------------------------------------------------
(* The reference. *)

\* The operands of e that are evaluated in the scope of e itself.
Operands(e) ==
  CASE e.x \in {"fn", "case", "simple", "arrLit", "objLit", "like"} -> e.args
    [] e.x = "field" -> <<e.of>>
    [] e.x = "dyn" -> <<e.of, e.by>>
    [] OTHER -> <<>>
RECURSIVE Static(_)
\* e has a value that depends on no row (Value() is not nil).
Static(e) ==
  \/ e.x = "const"
  \/ /\ e.x \in {"fn", "case", "simple", "arrLit", "objLit", "like"}
     /\ ~(e.x = "fn" /\ e.f = "now")
     /\ \A i \in DOMAIN e.args : Static(e.args[i])

Percent == 90
Underscore == 91
Backslash == 92
Lower(c) == c % 10
RECURSIVE LikeMatch(_, _)
LikeMatch(s, p) ==
  IF p = <<>> THEN s = <<>>
  ELSE IF p[1] = Percent THEN \E i \in 0..Len(s) : LikeMatch(SubSeq(s, i + 1, Len(s)), Tail(p))
  ELSE s # <<>> /\ (p[1] = Underscore \/ p[1] = s[1]) /\ LikeMatch(Tail(s), Tail(p))

\* The field of an object under a name, or under a name that differs from it in case.
Field(v, name, ci) ==
  LET names == IF v.t # "obj" THEN {}
               ELSE IF name \in DOMAIN v.f THEN {name}
               ELSE {n \in DOMAIN v.f : ci /\ [i \in DOMAIN n |-> Lower(n[i])] = [i \in DOMAIN name |-> Lower(name[i])]}
  IN  IF names = {} THEN VMissing ELSE v.f[CHOOSE n \in names : TRUE]
\* The first of the scopes that knows the name.
Lookup(scopes, name, ci) ==
  LET known == SelectSeq(scopes, LAMBDA s : Field(s, name, ci) # VMissing)
  IN  IF known = <<>> THEN VMissing ELSE Field(known[1], name, ci)
NativeName ==
  [isnull |-> "is_null", isnotnull |-> "is_not_null", ismissing |-> "is_missing", isnotmissing |-> "is_not_missing", isvalued |-> "is_valued",
   isnotvalued |-> "is_not_valued", isdistinctfrom |-> "is_distinct_from", isnotdistinctfrom |-> "is_not_distinct_from"]
LeafName(f) == IF f \in DOMAIN NativeName THEN NativeName[f] ELSE f
AndAll(a) ==
  IF \E i \in DOMAIN a : IsValue(a[i]) /\ ~ValTruthy(a[i]) THEN VBool(FALSE) ELSE Strict3(a, VBool(TRUE))
OrAll(a) ==
  IF \E i \in DOMAIN a : IsValue(a[i]) /\ ValTruthy(a[i]) THEN VBool(TRUE)
  ELSE IF "null" \in Types(a) THEN VNull ELSE IF "missing" \in Types(a) THEN VMissing ELSE VBool(FALSE)
AddAll(a) ==
  IF "missing" \in Types(a) THEN VMissing ELSE IF Types(a) = {"num"} THEN VNum(FoldLeft(LAMBDA n, v : n + v.n, 0, a)) ELSE VNull
CmpSigns == [eq |-> {0}, lt |-> {-1}, le |-> {-1, 0}, gt |-> {1}, ge |-> {0, 1}]
Sign(n) == IF n < 0 THEN -1 ELSE IF n > 0 THEN 1 ELSE 0
\* CASE s WHEN w THEN r ...: the first w that equals s.
SimpleCase(a) ==
  LET hits == {i \in DOMAIN a : i % 2 = 0 /\ i < Len(a) /\ IsValue(a[1]) /\ IsValue(a[i]) /\ CompareWithType(a[1], a[i]) = 0}
  IN  IF hits # {} THEN a[Min(hits) + 1] ELSE IF Len(a) % 2 = 0 THEN a[Len(a)] ELSE VNull

RECURSIVE BoxedVal(_, _)
Binding(b, member) ==
  IF b.nm = <<>> THEN VObj([n \in {b.var} |-> member[1]]) ELSE VObj([n \in {b.nm, b.var} |-> IF n = b.nm THEN member[1] ELSE member[2]])
\* The members of every binding taken together, as scopes; a named binding that descends is left out of the instances.
BoxedColl(e, env) ==
  LET over(b) == LET v == BoxedVal(b.over, env) IN IF b.descend THEN Descendants(v) ELSE v
      colls == [k \in DOMAIN e.bind |-> over(e.bind[k])]
      size == Min({Len(CollElems(colls[k], e.bind[k].nm # <<>>)) : k \in DOMAIN colls})
      scope(i) == [k \in DOMAIN e.bind |-> Binding(e.bind[k], CollElems(colls[k], e.bind[k].nm # <<>>)[i])]
      inner(i) == [scopes |-> scope(i) \o env.scopes, aggs |-> env.aggs]
  IN  IF "missing" \in Types(colls) THEN VMissing
      ELSE IF \E k \in DOMAIN colls : ~IsColl(colls[k], e.bind[k].nm # <<>>) THEN VNull
      ELSE Comprehend(e.c, [k \in DOMAIN e.bodies |-> [i \in 1..size |-> BoxedVal(e.bodies[k], inner(i))]])
BoxedVal(e, env) ==
  LET a == [i \in DOMAIN Operands(e) |-> BoxedVal(Operands(e)[i], env)]
  IN  CASE e.x = "const" -> e.v
        [] e.x = "ident" -> Lookup(env.scopes, e.name, e.ci)
        [] e.x = "field" -> Field(a[1], e.name, e.ci)
        [] e.x = "dyn" -> (IF a[2].t = "str" THEN Field(a[1], a[2].s, FALSE) ELSE VMissing)
        [] e.x = "agg" -> env.aggs[e.a]
        [] e.x = "coll" -> BoxedColl(e, env)
        [] e.x = "case" -> ExprCase(a)
        [] e.x = "simple" -> SimpleCase(a)
        [] e.x = "arrLit" -> ArrayConstructVals(a)
        [] e.x = "objLit" -> ObjectConstructVals(a)
        [] e.x = "like" -> (IF VMissing \in {a[1], a[2]} THEN VMissing ELSE IF a[1].t = "str" /\ a[2].t = "str" THEN VBool(LikeMatch(a[1].s, a[2].s)) ELSE VNull)
        [] e.x = "fn" ->
             CASE e.f = "and" -> AndAll(a)
               [] e.f = "or" -> OrAll(a)
               [] e.f \in DOMAIN CmpSigns -> Strict3(a, VBool(Sign(CompareWithType(a[1], a[2])) \in CmpSigns[e.f]))
               [] e.f = "add" -> AddAll(a)
               [] e.f = "nan" -> VNaN
               [] e.f = "now" -> VNum(7)
               [] OTHER -> Leaf(LeafName(e.f), a)

-----------------------------------------------------------------------------
(* Lowering. *)

RECURSIVE ExprFieldPath(_)
\* The steps of a path whose names are all written in the statement; <<>> when one is computed.
ExprFieldPath(e) ==
  CASE e.x = "ident" -> <<e.name>>
    [] e.x = "field" -> (IF ExprFieldPath(e.of) = <<>> THEN <<>> ELSE Append(ExprFieldPath(e.of), e.name))
    [] OTHER -> <<>>
RECURSIVE fieldChainCaseInsensitive(_)
fieldChainCaseInsensitive(e) ==
  CASE e.x = "ident" -> e.ci
    [] e.x = "field" -> e.ci \/ fieldChainCaseInsensitive(e.of)
    [] OTHER -> FALSE

\* The register whose label is the longest prefix of the path, else the whole row.
LongestLabel(labels, path) == Max({0} \cup {i \in DOMAIN path : SlotOf(labels, PathLabel(SubSeq(path, 1, i))) > 0})
LabelPathTo(labels, path) ==
  LET best == LongestLabel(labels, path)
  IN  [op |-> "labelPath", steps |-> SubSeq(path, best + 1, Len(path)),
       label |-> IF best > 0 THEN PathLabel(SubSeq(path, 1, best)) ELSE IF SlotOf(labels, Row) = 0 /\ SlotOf(labels, Star) > 0 THEN Star ELSE Row]
\* The mutant of lowerNativeFieldPath: a name that is no register is always looked up in the row.
lowerNativeFieldPathLoose(labels, path, strict) == LabelPathTo(labels, path)
lowerNativeFieldPath(labels, path, strict) ==
  IF strict /\ LongestLabel(labels, path) = 0 THEN Refused ELSE LabelPathTo(labels, path)

\* JSON has no NaN: it is left to the boxed lane.
JsonOf(v) == IF v = VNaN THEN Refused ELSE Json(v)
exprConstFold(e) == IF Static(e) THEN JsonOf(BoxedVal(e, [scopes |-> <<>>, aggs |-> <<>>])) ELSE Refused

RECURSIVE ExprTreeOptimize(_, _, _)

\* Aggregates read the register the group operator filled; a bare identifier is lowered only when it is a register for sure.
LowerReference(labels, e, strict) ==
  CASE e.x = "agg" -> (IF SlotOf(labels, AggSlot(e.a)) > 0 THEN [op |-> "labelPath", label |-> AggSlot(e.a), steps |-> <<>>] ELSE Refused)
    [] e.x = "const" -> Json(e.v)
    [] e.x = "field" -> (IF fieldChainCaseInsensitive(e) \/ ExprFieldPath(e) = <<>> THEN Refused ELSE lowerNativeFieldPath(labels, ExprFieldPath(e), strict))
    [] e.x = "ident" -> (IF strict /\ ~e.ci /\ SlotOf(labels, PathLabel(<<e.name>>)) > 0 THEN [op |-> "labelPath", label |-> PathLabel(<<e.name>>), steps |-> <<>>] ELSE Refused)
    [] OTHER -> Refused

\* One binding only.  The bodies see the slots of the binding as registers; a missing WHEN is the constant TRUE.
collLowerBinding(labels, b, strict) ==
  IF b.descend /\ b.nm # <<>> THEN Refused
  ELSE LET over == ExprTreeOptimize(labels, b.over, strict) IN IF b.descend THEN Call("descendants", <<over>>) ELSE over
BindLabels(b) == (IF b.nm = <<>> THEN <<>> ELSE <<PathLabel(<<b.nm>>)>>) \o <<PathLabel(<<b.var>>)>>
LowerColl(labels, e, strict) ==
  LET b == e.bind[1]
      over == collLowerBinding(labels, b, strict)
      bodies == [k \in DOMAIN e.bodies |-> ExprTreeOptimize(labels \o BindLabels(b), e.bodies[k], TRUE)]
  IN  IF Len(e.bind) # 1 \/ over = Refused \/ Call(e.c, bodies) = Refused THEN Refused
      ELSE [op |-> e.c, bind |-> BindLabels(b), over |-> over, args |-> bodies]

\* CASE s WHEN w THEN r becomes CASE WHEN s = w THEN r.
LowerCase(labels, e, strict) ==
  LET a == [i \in DOMAIN e.args |-> ExprTreeOptimize(labels, e.args[i], strict)]
  IN  IF e.x = "case" THEN Call("case", a)
      ELSE Call("case", [i \in 1..(Len(a) - 1) |-> IF i % 2 = 1 /\ i + 1 < Len(a) THEN Call("eq", <<a[1], a[i + 1]>>) ELSE a[i + 1]])

\* lit, for a pattern "%lit%" where lit has no wildcard and no escape; <<>> for any other.
LikeLiteral(v) ==
  IF /\ v.t = "str" /\ Len(v.s) >= 3 /\ v.s[1] = Percent /\ v.s[Len(v.s)] = Percent
     /\ \A i \in 2..(Len(v.s) - 1) : v.s[i] \notin {Percent, Underscore, Backslash}
  THEN SubSeq(v.s, 2, Len(v.s) - 1) ELSE <<>>
\* LIKE "%lit%" is CONTAINS "lit".
ContainsLiteral(arg, lit) == IF lit = <<>> THEN Refused ELSE Call("contains", <<arg, Json(VStr(lit))>>)
LowerLike(labels, e, strict) ==
  IF e.escape \/ ~Static(e.args[2]) THEN Refused
  ELSE ContainsLiteral(ExprTreeOptimize(labels, e.args[1], strict), LikeLiteral(BoxedVal(e.args[2], [scopes |-> <<>>, aggs |-> <<>>])))

\* A constant literal is left to the folding of constants.
LowerLiteral(labels, e, strict) ==
  IF Static(e) THEN Refused
  ELSE Call(IF e.x = "arrLit" THEN "array_construct" ELSE "object_construct", [i \in DOMAIN e.args |-> ExprTreeOptimize(labels, e.args[i], strict)])

OptimizableFuncs ==
  DOMAIN ExprCmpFuncs \cup DOMAIN NativeName \cup DOMAIN ExprIsTypeFuncs
  \cup {"add", "and", "or", "not", "ifnull", "ifmissing", "ifmissingornull", "nvl", "between", "in", "nullif", "missingif", "greatest", "least", "element",
        "concat", "contains"}
\* How many operands the native handler takes; the functions that are not named take any number.
Arity(f) ==
  CASE f \in {"add", "in", "contains", "nullif", "missingif", "element"} -> {2}
    [] f \in {"not"} \cup DOMAIN ExprIsTypeFuncs \cup DOMAIN ExprIsPredicateFuncs -> {1}
    [] f = "between" -> {3}
    [] OTHER -> 0..9
\* An operand may be a bare identifier: it is looked up like the first step of a path.
LowerOperand(labels, e, strict) ==
  OrElse(ExprTreeOptimize(labels, e, strict),
         IF e.x = "ident" /\ ~e.ci THEN lowerNativeFieldPath(labels, <<e.name>>, strict) ELSE Refused)
\* AND and OR nest to the right, two operands at a time.
LowerLogic(op, ps) ==
  IF Len(ps) < 2 THEN Refused
  ELSE FoldRight(LAMBDA lhs, acc : Call(op, <<lhs, acc>>), SubSeq(ps, 1, Len(ps) - 1), ps[Len(ps)])
LowerCall(labels, e, strict) ==
  IF e.f \notin OptimizableFuncs THEN Refused
  ELSE IF e.f \in {"and", "or"} THEN LowerLogic(e.f, [i \in DOMAIN e.args |-> ExprTreeOptimize(labels, e.args[i], strict)])
  ELSE IF Len(e.args) \notin Arity(LeafName(e.f)) THEN Refused
  ELSE Call(LeafName(e.f), [i \in DOMAIN e.args |-> LowerOperand(labels, e.args[i], strict)])

exprTreeOptimizeNative(labels, e, strict) ==
  CASE e.x = "coll" -> LowerColl(labels, e, strict)
    [] e.x \in {"case", "simple"} -> LowerCase(labels, e, strict)
    [] e.x = "like" -> LowerLike(labels, e, strict)
    [] e.x \in {"arrLit", "objLit"} -> LowerLiteral(labels, e, strict)
    [] e.x = "fn" -> LowerCall(labels, e, strict)
    [] OTHER -> LowerReference(labels, e, strict)
ExprTreeOptimize(labels, e, strict) == OrElse(exprTreeOptimizeNative(labels, e, strict), exprConstFold(e))

-----------------------------------------------------------------------------
(* The operator that evaluates the expression. *)

\* A row as one value: the whole row or the spread row first, then a field for each path.
RECURSIVE SetPath(_, _, _)
SetPath(v, path, x) ==
  LET f == IF v.t = "obj" THEN v.f ELSE NoFields
      sub == IF Len(path) = 1 THEN x ELSE SetPath(IF path[1] \in DOMAIN f THEN f[path[1]] ELSE VObj(NoFields), Tail(path), x)
  IN  VObj([n \in (DOMAIN f \cup {path[1]}) \ (IF sub = VMissing THEN {path[1]} ELSE {}) |-> IF n = path[1] THEN sub ELSE f[n]])
ConvertVals(labels, vals) ==
  LET put(v, i) == CASE labels[i].k \in {"row", "star"} -> (IF vals[i].t = "obj" THEN vals[i] ELSE v)
                     [] labels[i].k = "path" -> SetPath(v, labels[i].p, vals[i])
                     [] OTHER -> v
  IN  FoldLeft(put, VObj(NoFields), [i \in DOMAIN labels |-> i])
\* The outer row of a correlated subquery, else the aliases of WITH; the star projection sees neither.
Parent(c) == IF c.reset THEN VMissing ELSE IF c.corr # VMissing THEN c.corr ELSE c.withScope
Scoped(c) == Parent(c) # VMissing
Environment(c, vals) ==
  [scopes |-> <<ConvertVals(c.labels, vals)>> \o (IF Scoped(c) THEN <<Parent(c)>> ELSE <<>>),
   aggs |-> [a \in {c.labels[i].a : i \in {j \in DOMAIN c.labels : c.labels[j].k = "agg"}} |-> vals[SlotOf(c.labels, AggSlot(a))]]]

ExInit(configs) ==
  /\ exCfg \in configs
  /\ exParams = Unset
  /\ exOut = <<>>

\* The mutant of ExprTreesOptimize: what is no register of the first child is looked up in its row.
ExprTreesOptimizeLoose(c) == OrElse(ExprTreeOptimize(c.first, c.e, FALSE), ExprStr)
\* Before a plan is compiled, with the labels of the operator's first child.
ExprTreesOptimize(c) == OrElse(ExprTreeOptimize(c.first, c.e, TRUE), ExprStr)
ExPrepare ==
  /\ exCfg.lane = "compiled" /\ exParams = Unset
  /\ exParams' = ExprTreesOptimize(exCfg)
  /\ UNCHANGED <<exCfg, exOut>>

\* When the operator is set up; an expression that was not compiled is parsed again from its text.
ExprTree ==
  /\ exParams = (IF exCfg.lane = "compiled" THEN ExprStr ELSE Unset)
  /\ exParams' = ExprTreeOptimize(exCfg.labels, exCfg.e, Scoped(exCfg))
  /\ UNCHANGED <<exCfg, exOut>>

ExRow ==
  /\ exParams \notin {Unset, ExprStr}
  /\ Len(exOut) < Len(exCfg.rows)
  /\ LET vals == exCfg.rows[Len(exOut) + 1]
     IN  exOut' = Append(exOut, IF exParams = Refused THEN BoxedVal(exCfg.e, Environment(exCfg, vals)) ELSE NativeVal(exParams, exCfg.labels, vals))
  /\ UNCHANGED <<exCfg, exParams>>

ExNext == ExPrepare \/ ExprTree \/ ExRow
ExDone == exParams \notin {Unset, ExprStr} /\ Len(exOut) = Len(exCfg.rows)

ExSame ==
  \A i \in DOMAIN exOut : exOut[i] = BoxedVal(exCfg.e, Environment(exCfg, exCfg.rows[i]))

(* An expression that the interpreter lowers to the native lane has, on every row, the value it has in the boxed lane, also when  *)
(* the row is a scope over the outer row of a subquery or over the aliases of WITH: names, constants that are folded, bindings of *)
(* comprehensions, CASE, LIKE, AND and OR mean the same in both (glue/expr.go:92-130, expr_optimize.go:156-186).                  *)
LoweredSame == exCfg.lane = "interpreted" => ExSame

(* The same of a compiled plan, whose expressions were lowered against the labels of the operator's first child only while the    *)
(* operator may read the registers of two (expr_optimize.go:868-883: "stays boxed rather than mis-navigating the local row").     *)
CompiledSame == exCfg.lane = "compiled" => ExSame

\* An expression has one value, in whichever lane it is evaluated.
LanesAgree == LoweredSame /\ CompiledSame
=============================================================================
