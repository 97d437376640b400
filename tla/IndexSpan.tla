----------------------------- MODULE IndexSpan -----------------------------
(***************************************************************************)
(* glue/idx_si_encode.go, scanSpan of idx_si.go and idx_mem.go, the hybrid *)
(* rows of idx_backfill.go and SISpansScan of datastore_scan.go: how a     *)
(* range of N1QL values becomes a range of bytes, and what a scan of one   *)
(* or several ranges sends.                                                *)
(*                                                                         *)
(* A value is [tag, n, s]: a type tag in collation order, a number, a      *)
(* string of bytes.  Arrays and objects are left out: the code keeps their *)
(* order in the index apart from their collation.                          *)
(***************************************************************************)
EXTENDS Integers, Sequences, SequencesExt, FiniteSets

CONSTANT SpMantissa   \* bound: integers up to 2^SpMantissa are floats

VARIABLES
  spCfg,    \* [docs, spans, limit, orderFree, mem]
  spSpan,   \* the span that is scanned next
  spSeen,   \* ids sent so far
  spSent    \* what was sent: <<id, decoded keys>>, in order

spVars == <<spCfg, spSpan, spSeen, spSent>>

tagMissing == 0
tagNumber == 4
tagString == 5
Val(t, n, s) == [tag |-> t, n |-> n, s |-> s]

\* Go's conversion of an int64: beyond the mantissa the even neighbour.
toFloat64(n) ==
  IF n \in (0 - 2^SpMantissa)..2^SpMantissa \/ n % 2 = 0 THEN n ELSE IF n % 4 = 1 THEN n - 1 ELSE n + 1

\* appendOrderedFloat on a byte of sign and magnitude.
FloatBits(f) == IF f < 0 THEN 128 + (0 - f) ELSE f
appendOrderedFloat(f) == IF FloatBits(f) >= 128 THEN 255 - FloatBits(f) ELSE FloatBits(f) + 128
decodeOrderedFloat(b) == IF b >= 128 THEN b - 128 ELSE 0 - ((255 - b) - 128)

\* As appendOrderedString, without the escape.
RawString(s) == s \o <<0, 0>>

appendOrderedString(s) == FlattenSeq([i \in 1..Len(s) |-> IF s[i] = 0 THEN <<0, 255>> ELSE <<s[i]>>]) \o <<0, 0>>

encodeValue(v) ==
  IF v.tag < tagNumber THEN <<v.tag>>
  ELSE IF v.tag = tagNumber THEN <<tagNumber, appendOrderedFloat(toFloat64(v.n))>>
  ELSE <<v.tag>> \o appendOrderedString(v.s)

encodeSeq(vals) == FlattenSeq([i \in 1..Len(vals) |-> encodeValue(vals[i])])

\* bytes.Compare(a, b) < 0.
Less(a, b) ==
  \E i \in 1..Len(b) :
    /\ i <= Len(a) + 1 /\ \A j \in 1..(i - 1) : a[j] = b[j]
    /\ i <= Len(a) => a[i] < b[i]

\* decodeValue: the bytes that the value at the front of b takes.
ValueLen(b) ==
  IF b[1] < tagNumber THEN 1
  ELSE IF b[1] = tagNumber THEN 2
  ELSE 1 + CHOOSE i \in 2..Len(b) : b[i] = 0 /\ b[i + 1] = 0 /\ \A j \in 2..(i - 1) : ~(b[j] = 0 /\ b[j + 1] = 0)

\* decodeOrderedString of the bytes between the tag and the terminator.
Unescape(b) == SelectSeq(b, LAMBDA x : x # 255)

decodeValue(b) ==
  IF b[1] < tagNumber THEN Val(b[1], 0, <<>>)
  ELSE IF b[1] = tagNumber THEN Val(tagNumber, decodeOrderedFloat(b[2]), <<>>)
  ELSE Val(b[1], 0, Unescape(SubSeq(b, 2, ValueLen(b) - 2)))

\* splitKey for a definition of two keys: the ends of its components.
CompEnds(k) == LET a == ValueLen(k) IN <<a, a + ValueLen(SubSeq(k, a + 1, Len(k)))>>
DocId(k) == k[Len(k)]
decodeKeyComponents(k) ==
  <<decodeValue(k), decodeValue(SubSeq(k, CompEnds(k)[1] + 1, Len(k)))>>

\* indexEntryForDoc: no entry when the condition is false or a key is missing.
HasEntry(d) == d.where /\ \A i \in 1..Len(d.keys) : d.keys[i].tag # tagMissing
Entry(id, d) == encodeSeq(d.keys) \o <<id>>

EntriesOf(ids) == {Entry(id, spCfg.docs[id]) : id \in {i \in ids : HasEntry(spCfg.docs[i])}}
Ids == DOMAIN spCfg.docs
Stored == EntriesOf({id \in Ids : ~spCfg.docs[id].below})
\* What lies below the floor is read at scan time, and not by an in-memory index.
Remainder == IF spCfg.mem THEN {} ELSE EntriesOf({id \in Ids : spCfg.docs[id].below})

Prefix(k, n) == SubSeq(k, 1, CompEnds(k)[n])

AboveLow(k, span) ==
  Len(span.low) > 0 =>
    \/ Less(encodeSeq(span.low), Prefix(k, Len(span.low)))
    \/ encodeSeq(span.low) = Prefix(k, Len(span.low)) /\ "low" \in span.incl

PastHigh(k, span) == Len(span.high) > 0 /\ Less(encodeSeq(span.high), Prefix(k, Len(span.high)))

AtOpenHigh(k, span) ==
  Len(span.high) > 0 /\ encodeSeq(span.high) = Prefix(k, Len(span.high)) /\ "high" \notin span.incl

\* The cursor seeks the low bound and goes on until an entry is past the high one.
Walked(span) ==
  {k \in Stored : /\ ~Less(k, encodeSeq(span.low)) /\ AboveLow(k, span) /\ ~AtOpenHigh(k, span)
                  /\ \A e \in Stored : (~Less(k, e) /\ AboveLow(e, span)) => ~PastHigh(e, span)}

entryWithinSpan(k, span) == AboveLow(k, span) /\ ~PastHigh(k, span) /\ ~AtOpenHigh(k, span)

Sorted(es) == SetToSortSeq(es, Less)
Take(q, n) == SubSeq(q, 1, IF n < Len(q) THEN n ELSE Len(q))
ToSetOf(q) == {q[i] : i \in 1..Len(q)}

\* hybridEntriesForSpan: under a limit only the smallest are kept.
hybridEntriesForSpan(span) ==
  LET in == {k \in Remainder : entryWithinSpan(k, span)}
  IN  IF spCfg.limit = 0 THEN in ELSE ToSetOf(Take(Sorted(in), spCfg.limit))

\* As scanSpan, but what lies below the floor comes after the walk.
Unmerged(span) == Sorted(Walked(span)) \o Sorted(hybridEntriesForSpan(span))

\* scanSpan: the walk, with the hybrid rows merged in or, when no one depends on the
\* order, after it.
scanSpan(span) ==
  IF spCfg.orderFree
  THEN Sorted(Walked(span)) \o SetToSeq({k \in Remainder : entryWithinSpan(k, span)})
  ELSE Sorted(Walked(span) \cup hybridEntriesForSpan(span))

SpanInit(cfgs) == spCfg \in cfgs /\ spSpan = 1 /\ spSeen = {} /\ spSent = <<>>

\* SISpansScan, for one span: an id is sent once, and a span sends up to the limit.
SpanStep ==
  /\ spSpan <= Len(spCfg.spans)
  /\ LET new == SelectSeq(scanSpan(spCfg.spans[spSpan]), LAMBDA k : DocId(k) \notin spSeen)
         out == IF spCfg.limit = 0 THEN new ELSE Take(new, spCfg.limit)
     IN  /\ spSent' = spSent \o [i \in 1..Len(out) |-> <<DocId(out[i]), decodeKeyComponents(out[i])>>]
         /\ spSeen' = spSeen \cup {DocId(out[i]) : i \in 1..Len(out)}
  /\ spSpan' = spSpan + 1 /\ UNCHANGED spCfg

SpanDone == spSpan > Len(spCfg.spans)

-----------------------------------------------------------------------------
(* Properties, against N1QL's collation of the values themselves *)

CollateLess(a, b) ==
  \/ a.tag < b.tag
  \/ a.tag = b.tag /\ a.tag = tagNumber /\ a.n < b.n
  \/ a.tag = b.tag /\ a.tag > tagNumber /\ Less(a.s, b.s)

\* The first keys of a document, as many as the bound has, before or at the bound.
KeysLess(ks, bound) ==
  \E i \in 1..Len(bound) : CollateLess(ks[i], bound[i]) /\ \A j \in 1..(i - 1) : ks[j] = bound[j]
KeysEqual(ks, bound) == \A i \in 1..Len(bound) : ks[i] = bound[i]
KeysGreater(ks, bound) == ~KeysLess(ks, bound) /\ ~KeysEqual(ks, bound)

Matches(d, span) ==
  /\ d.where
  /\ Len(span.low) > 0 => KeysGreater(d.keys, span.low) \/ (KeysEqual(d.keys, span.low) /\ "low" \in span.incl)
  /\ Len(span.high) > 0 => KeysLess(d.keys, span.high) \/ (KeysEqual(d.keys, span.high) /\ "high" \in span.incl)

Served(id) == ~(spCfg.mem /\ spCfg.docs[id].below)
Wanted == {id \in Ids : /\ Served(id) /\ \A i \in 1..2 : spCfg.docs[id].keys[i].tag # tagMissing
                        /\ \E i \in 1..Len(spCfg.spans) : Matches(spCfg.docs[id], spCfg.spans[i])}

\* Without a limit the scan sends every document within a span, each once and with its
\* own keys; with one, at least as many of them as the limit asks for.
SpanExact ==
  SpanDone =>
    /\ \A i \in 1..Len(spSent) : spSent[i][1] \in Wanted /\ spSent[i][2] = spCfg.docs[spSent[i][1]].keys
    /\ Cardinality({spSent[i][1] : i \in 1..Len(spSent)}) = Len(spSent)
    /\ \/ spCfg.limit = 0 /\ Len(spSent) = Cardinality(Wanted)
       \/ spCfg.limit # 0 /\ (Len(spSent) = Cardinality(Wanted) \/ Len(spSent) >= spCfg.limit)

\* The planner drops an ORDER BY that an index provides: one span comes in the order of
\* the keys, and what a limit leaves out is not smaller than what was sent.
SpanOrdered ==
  SpanDone /\ ~spCfg.orderFree /\ Len(spCfg.spans) = 1 =>
    /\ \A i, j \in 1..Len(spSent) : i < j => ~KeysLess(spSent[j][2], spSent[i][2])
    /\ \A id \in Wanted \ spSeen, i \in 1..Len(spSent) : ~KeysLess(spCfg.docs[id].keys, spSent[i][2])

\* A document is indexed when it has the leading key (indexEntryForDoc's comment).
LeadingKeyIndexed ==
  SpanDone /\ spCfg.limit = 0 =>
    \A id \in Ids : (Served(id) /\ spCfg.docs[id].keys[1].tag # tagMissing
                     /\ \E i \in 1..Len(spCfg.spans) : Matches(spCfg.docs[id], spCfg.spans[i])) => id \in spSeen

-----------------------------------------------------------------------------
(***************************************************************************)
(* glue/idx_fts.go: the flex path, which serves a plain WHERE predicate    *)
(* from a full-text index.  The predicate is translated into a bleve query *)
(* whose hits are fetched and filtered again, so the query may find too    *)
(* much and never too little.                                              *)
(*                                                                         *)
(* A predicate is a tree of [op, field, value, first, args]; a value is    *)
(* [type, n, words], a string being the set of words that the analyzer     *)
(* keeps of it (it drops stop words).                                      *)
(***************************************************************************)

VARIABLES
  fxCfg,    \* [pred, doc, keys, dynamic]: keys are the fields that are mapped, as text
  fxQuery   \* [ok, query] once SargableFlex has answered

fxVars == <<fxCfg, fxQuery>>

NoTree == [op |-> "none", field |-> "", value |-> [type |-> "none", n |-> 0, words |-> {}], first |-> TRUE, args |-> <<>>]
NotTranslated == [ok |-> FALSE, query |-> NoTree]
Translated(q) == [ok |-> TRUE, query |-> q]

fieldIndexed(field) == fxCfg.keys = {} \/ field \in fxCfg.keys

\* bleveClause: string equality becomes a match, numbers and booleans ranges; a < or <=
\* only for numbers.
HasClause(t) ==
  \/ t.op = "eq" /\ t.value.type \in {"string", "number", "bool"}
  \/ t.op \in {"lt", "le"} /\ t.value.type = "number"

flexCompare(t) ==
  IF t.field # "" /\ fieldIndexed(t.field) /\ HasClause(t) THEN Translated(t) ELSE NotTranslated

\* An AND drops what it cannot translate, an OR translates all or nothing.
Conjuncts(kids) ==
  LET ok == SelectSeq(kids, LAMBDA k : k.ok)
  IN  IF ok = <<>> THEN NotTranslated
      ELSE Translated([NoTree EXCEPT !.op = "and", !.args = [i \in 1..Len(ok) |-> ok[i].query]])

\* As Disjuncts, but an OR drops what it cannot translate.
DisjunctsDropping(kids) ==
  LET ok == SelectSeq(kids, LAMBDA k : k.ok)
  IN  IF ok = <<>> THEN NotTranslated
      ELSE Translated([NoTree EXCEPT !.op = "or", !.args = [i \in 1..Len(ok) |-> ok[i].query]])

Disjuncts(kids) ==
  IF kids = <<>> \/ \E i \in 1..Len(kids) : ~kids[i].ok THEN NotTranslated
  ELSE Translated([NoTree EXCEPT !.op = "or", !.args = [i \in 1..Len(kids) |-> kids[i].query]])

RECURSIVE flexTranslate(_)
flexTranslate(t) ==
  CASE t.op = "and" -> Conjuncts([i \in 1..Len(t.args) |-> flexTranslate(t.args[i])])
    [] t.op = "or" -> Disjuncts([i \in 1..Len(t.args) |-> flexTranslate(t.args[i])])
    [] t.op \in {"eq", "lt", "le"} -> flexCompare(t)
    [] OTHER -> NotTranslated

FlexInit(cfgs) == fxCfg \in cfgs /\ fxQuery = NotTranslated

SargableFlex == fxQuery = NotTranslated /\ fxQuery' = flexTranslate(fxCfg.pred) /\ fxQuery'.ok /\ UNCHANGED fxCfg

FlexDone == fxQuery.ok \/ ~flexTranslate(fxCfg.pred).ok

-----------------------------------------------------------------------------
(* bleve, from the queries that are built for it *)

\* A field that is listed in the definition's keys is mapped as text, and a number or a
\* boolean leaves nothing in it.
Indexable(field, v) == v.type \in {"string", "number", "bool"} /\ (field \in fxCfg.keys => v.type = "string")

Order(t, v) ==
  CASE t.op = "eq" -> v.n = t.value.n
    [] t.op = "lt" -> IF t.first THEN v.n < t.value.n ELSE t.value.n < v.n
    [] t.op = "le" -> IF t.first THEN v.n <= t.value.n ELSE t.value.n <= v.n

RECURSIVE Hit(_)
Hit(q) ==
  CASE q.op = "and" -> \A i \in 1..Len(q.args) : Hit(q.args[i])
    [] q.op = "or" -> \E i \in 1..Len(q.args) : Hit(q.args[i])
    [] OTHER ->
         LET v == fxCfg.doc[q.field]
         IN  /\ v.type = q.value.type /\ Indexable(q.field, v)
             /\ IF v.type = "string" THEN v.words \cap q.value.words # {} ELSE Order(q, v)

-----------------------------------------------------------------------------
(* Properties *)

\* The predicate itself.  "other" stands for what the flex path does not know.
RECURSIVE Holds(_)
Holds(t) ==
  CASE t.op = "and" -> \A i \in 1..Len(t.args) : Holds(t.args[i])
    [] t.op = "or" -> \E i \in 1..Len(t.args) : Holds(t.args[i])
    [] t.op = "other" -> TRUE
    [] OTHER -> LET v == fxCfg.doc[t.field]
                IN  v.type = t.value.type
                    /\ IF v.type = "string" THEN t.op = "eq" /\ v.words = t.value.words ELSE Order(t, v)

\* A document that satisfies the predicate is among the query's hits.
FlexSuperset == fxQuery.ok /\ Holds(fxCfg.pred) => Hit(fxQuery.query)

\* The spans, their encoding as keys and the flex conditions reach every entry
\* that the predicate can accept, in the index's order.
SpansExact == SpanExact /\ SpanOrdered /\ FlexSuperset
=============================================================================
