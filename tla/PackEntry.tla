----------------------------- MODULE PackEntry -----------------------------
(***************************************************************************)
(* glue/multiquery_entry.go, glue/multiquery_fixture.go and the test       *)
(* command of cmd/n1k1/multi.go: an entry of a pack is one file with front *)
(* matter, a statement, the rows of a fixture and the golden results.  The *)
(* command runs the statement over the fixture and compares, or records    *)
(* what it got as the new golden.                                          *)
(*                                                                         *)
(* A line is [k, id]: "kv" (id is the key), "blank", "note" (a comment     *)
(* that is none of the others), "sql", "@fixture", "@expect", "doc" (a     *)
(* document), "open" and "rest" (the two halves of a document on several   *)
(* lines).  The statement maps each fixture row to the result of its name. *)
(***************************************************************************)
EXTENDS Integers, Sequences, FiniteSets, SequencesExt

VARIABLES
  peCfg,      \* [file, behaves, params]: behaves is "runs", "rejected", "unresolved" or "fails"
  peFile,     \* the file as it is on disk
  pePc,       \* "idle", "update", "check"
  peVerdicts, \* the verdicts of the commands so far
  peFailed    \* whether the last command failed

peVars == <<peCfg, peFile, pePc, peVerdicts, peFailed>>

EntryLine(k, id) == [k |-> k, id |-> id]

-----------------------------------------------------------------------------
(* ParseMultiQueryEntry *)

IsFront(l) == l.k \in {"blank", "kv"}
FrontLen(file) ==
  IF \A i \in 1..Len(file) : IsFront(file[i]) THEN Len(file)
  ELSE (CHOOSE i \in 1..Len(file) : ~IsFront(file[i]) /\ \A j \in 1..i - 1 : IsFront(file[j])) - 1

\* The section that a line of the body belongs to: that of the last marker before it.
SectionOf(file, i) ==
  LET marks == {j \in FrontLen(file) + 1..i - 1 : file[j].k \in {"@fixture", "@expect"}}
  IN  IF marks = {} THEN "stmt" ELSE file[CHOOSE j \in marks : \A m \in marks : m <= j].k

InSection(file, s) ==
  LET places == {i \in FrontLen(file) + 1..Len(file) : file[i].k \notin {"@fixture", "@expect"} /\ SectionOf(file, i) = s}
  IN  [n \in 1..Cardinality(places) |-> file[SetToSortSeq(places, <)[n]]]

\* parseFixtureSection: notes before a document are skipped, a document may take two
\* lines, and one that is not complete at the end of the section is an error.
JoinDoc(acc, l) ==
  CASE acc.open = "" /\ l.k = "doc" -> [acc EXCEPT !.docs = Append(@, l.id)]
    [] acc.open = "" /\ l.k = "open" -> [acc EXCEPT !.open = l.id]
    [] acc.open # "" /\ l.k = "rest" -> [docs |-> Append(acc.docs, acc.open), open |-> ""]
    [] acc.open # "" /\ l.k \notin {"rest", "blank"} -> [acc EXCEPT !.open = "invalid"]
    [] OTHER -> acc
parseFixtureSection(lines) ==
  LET end == FoldLeft(JoinDoc, [docs |-> <<>>, open |-> ""], lines)
  IN  [docs |-> end.docs, err |-> end.open # ""]

HasMark(file, m) == \E i \in FrontLen(file) + 1..Len(file) : file[i].k = m
KeyGiven(file, key) == \E i \in 1..FrontLen(file) : file[i] = EntryLine("kv", key)

ParseMultiQueryEntry(file) ==
  LET rows == parseFixtureSection(InSection(file, "@fixture"))
      gold == parseFixtureSection(InSection(file, "@expect"))
  IN  [hasFixture |-> HasMark(file, "@fixture"), hasExpect |-> HasMark(file, "@expect"),
       rows |-> rows.docs, expect |-> gold.docs, err |-> rows.err \/ gold.err,
       stmt |-> InSection(file, "stmt"), source |-> KeyGiven(file, "source")]

-----------------------------------------------------------------------------
(* The results of a fixture and their comparison *)

\* The statement keeps the rows whose name does not begin a skipped one.
Yields(rows) == SelectSeq(rows, LAMBDA r : r # "skip")

TimesIn(s, x) == Cardinality({i \in 1..Len(s) : s[i] = x})
\* As Spare, but two equal results count for one.
SpareSets(a, b) == Range(a) \ Range(b)
Spare(a, b) == {x \in Range(a) : TimesIn(a, x) > TimesIn(b, x)}
\* DiffLabelResults: what is expected and was not produced, and the reverse, with
\* multiplicity.
DiffLabelResults(expected, actual) == [missing |-> Spare(expected, actual), unexpected |-> Spare(actual, expected)]

\* As RewriteExpect, but what was recorded before stays.
AppendExpect(file, results) ==
  file \o <<EntryLine("@expect", "")>> \o [i \in 1..Len(results) |-> EntryLine("doc", results[i])]

\* RewriteExpect: everything before the first @expect is kept, and the results follow it,
\* sorted; a file without one gets it at its end.
RewriteExpect(file, results) ==
  LET marks == {i \in 1..Len(file) : file[i].k = "@expect"}
      head == IF marks = {} THEN file ELSE SubSeq(file, 1, (CHOOSE i \in marks : \A j \in marks : i <= j) - 1)
  IN  head \o <<EntryLine("@expect", "")>> \o [i \in 1..Len(results) |-> EntryLine("doc", results[i])]

\* RunFixture: the verdict, with the results when there are any.
RunFixture(e) ==
  CASE ~e.source -> [verdict |-> "fail", results |-> <<>>]
    [] e.source /\ peCfg.behaves \in {"rejected", "fails"} -> [verdict |-> "fail", results |-> <<>>]
    [] e.source /\ peCfg.behaves = "unresolved" -> [verdict |-> "skip", results |-> <<>>]
    [] OTHER -> [verdict |-> "ran", results |-> Yields(e.rows)]

PeInit(cfgs) == peCfg \in cfgs /\ peFile = peCfg.file /\ pePc = "idle" /\ peVerdicts = <<>> /\ peFailed = FALSE

\* An entry that cannot be parsed fails the whole command before anything is tested.
EntryVerdict(e) ==
  LET run == RunFixture(e)
      diff == DiffLabelResults(e.expect, run.results)
  IN  CASE e.err -> "bad" [] ~e.err /\ ~e.hasFixture -> "none" [] OTHER ->
        CASE run.verdict # "ran" -> run.verdict
          [] run.verdict = "ran" /\ ~e.hasExpect -> "fail"
          [] OTHER -> IF diff.missing = {} /\ diff.unexpected = {} THEN "pass" ELSE "fail"

\* cmdMultiTest
MultiTest ==
  /\ Len(peVerdicts) < peCfg.commands
  /\ LET v == EntryVerdict(ParseMultiQueryEntry(peFile))
     IN  peVerdicts' = Append(peVerdicts, v) /\ peFailed' = (v \in {"fail", "bad"})
  /\ pePc' = "check"
  /\ UNCHANGED <<peCfg, peFile>>

\* cmdMultiTest --update
MultiUpdate ==
  /\ Len(peVerdicts) < peCfg.commands
  /\ LET e == ParseMultiQueryEntry(peFile)
         run == RunFixture(e)
         v == CASE e.err -> "bad" [] ~e.err /\ ~e.hasFixture -> "none"
                [] OTHER -> IF run.verdict = "ran" THEN "recorded" ELSE run.verdict
     IN  /\ peFile' = IF v = "recorded" THEN RewriteExpect(peFile, run.results) ELSE peFile
         /\ peVerdicts' = Append(peVerdicts, v) /\ peFailed' = (v \in {"fail", "bad"})
  /\ pePc' = "update"
  /\ UNCHANGED peCfg

PeNext == MultiTest \/ MultiUpdate
PeDone == Len(peVerdicts) >= peCfg.commands

-----------------------------------------------------------------------------
(* Properties *)

SameBag(a, b) == \A x \in Range(a) \cup Range(b) : TimesIn(a, x) = TimesIn(b, x)

\* A pass means that the statement ran and yielded exactly the golden results, with their
\* multiplicity; it is never what a rejected statement or a file that lost lines gets.
PassIsEarned ==
  peVerdicts # <<>> /\ Last(peVerdicts) = "pass" =>
    LET e == ParseMultiQueryEntry(peFile)
        rowDocs == {i \in 1..Len(peFile) : peFile[i].k \in {"doc", "open"} /\ i > FrontLen(peFile) /\ SectionOf(peFile, i) = "@fixture"}
    IN  /\ peCfg.behaves = "runs" /\ Len(e.rows) = Cardinality(rowDocs)
        /\ SameBag(e.expect, Yields(e.rows))

\* What --update recorded passes the next test, and nothing of the file before its golden
\* results has changed: the statement and the fixture are those that were tested.
UpdateSticks ==
  pePc = "update" /\ Last(peVerdicts) = "recorded" =>
    LET was == ParseMultiQueryEntry(peCfg.file)
        now == ParseMultiQueryEntry(peFile)
    IN  /\ now.stmt = was.stmt /\ now.rows = was.rows /\ now.hasFixture
        /\ EntryVerdict(now) = "pass"

-----------------------------------------------------------------------------
(***************************************************************************)
(* glue/params.go: the parameters of a pack.  An entry declares its own;   *)
(* the caller's values are laid over the defaults and rendered into the    *)
(* statement before it is compiled.  A cursor stores what the parameters   *)
(* resolved to when it was created, and every later command renders the    *)
(* pack again from what was stored.                                        *)
(*                                                                         *)
(* A name is [stem, sep], sep being the "_" or "-" in it; a raw value is   *)
(* "" or a sequence of characters from a small alphabet.  A statement is a *)
(* sequence of tokens [k, name]: "ref" ($name), "dyn" (.[$name]), "quoted" *)
(* or "comment" (which hold a $name) and "text".                           *)
(***************************************************************************)

VARIABLES
  ppCfg,      \* [entries, given, commands]: an entry is [params, stmt], given is a set of [key, val]
  ppPc,       \* "idle", "created", "refused"
  ppStmts,    \* the statements as they were first rendered
  ppStored,   \* the stored parameters: a set of [key, val]
  ppSeen,     \* what every later command rendered: [stmts, err]
  ppErr       \* why the pack was refused

ppVars == <<ppCfg, ppPc, ppStmts, ppStored, ppSeen, ppErr>>

-----------------------------------------------------------------------------
(* Names and values *)

Swapped(key) == [key EXCEPT !.sep = IF @ = "_" THEN "-" ELSE "_"]
NamesOf(params) == {params[i].name : i \in 1..Len(params)}

\* As ParamKeyResolve, but only the exact spelling is looked up.
ResolveExactly(params, key) == IF key \in NamesOf(params) THEN {key} ELSE {}

\* The declared name that a caller's key stands for, if there is one: the exact spelling
\* wins, then the one with "-" and "_" exchanged.
ParamKeyResolve(params, key) ==
  IF key \in NamesOf(params) THEN {key} ELSE {Swapped(key)} \cap NamesOf(params)

\* Characters: "d" is a digit, "tick" a backtick, " " a blank, "," a comma, "x" any other.
Trimmed(v) == LET ink == {i \in 1..Len(v) : v[i] # " "}
              IN  IF ink = {} THEN <<>> ELSE SubSeq(v, CHOOSE i \in ink : \A j \in ink : i <= j, CHOOSE i \in ink : \A j \in ink : j <= i)
Pieces(v) ==
  LET cuts == SetToSortSeq({i \in 1..Len(v) : v[i] = ","} \cup {0, Len(v) + 1}, <)
  IN  SelectSeq([i \in 1..Len(cuts) - 1 |-> Trimmed(SubSeq(v, cuts[i] + 1, cuts[i + 1] - 1))], LAMBDA p : p # <<>>)

BadValue == [t |-> "bad", items |-> <<>>]
renderParamValue(type, v) ==
  CASE type = "ident" -> IF v = <<>> \/ "tick" \in Range(v) THEN BadValue ELSE [t |-> "ident", items |-> <<v>>]
    [] type = "int" -> IF Trimmed(v) # <<>> /\ Range(Trimmed(v)) = {"d"} THEN [t |-> "int", items |-> <<Trimmed(v)>>] ELSE BadValue
    [] OTHER -> [t |-> "list", items |-> Pieces(v)]

-----------------------------------------------------------------------------
(* Resolution and rendering *)

\* The values of one entry's parameters.  A Go map is walked in any order: of two keys that
\* stand for the same name the last one visited wins.
ParamsResolve(params, given, order) ==
  LET dflt == [n \in NamesOf(params) |-> params[CHOOSE i \in 1..Len(params) : params[i].name = n /\ \A j \in i + 1..Len(params) : params[j].name # n].dflt]
      lay(out, g) == [n \in DOMAIN out |-> IF n \in ParamKeyResolve(params, g.key) THEN g.val ELSE out[n]]
  IN  FoldLeft(lay, dflt, SelectSeq(order, LAMBDA g : g \in given))

LacksRequired(params, res) == \E i \in 1..Len(params) : params[i].required /\ res[params[i].name] = <<>>

\* A $name in a string or a comment is data.  A reference binds the declared name it spells.
Verbatim(tok) == [k |-> tok.k, name |-> tok.name, val |-> [t |-> "none", items |-> <<>>]]
RenderToken(tok, params, res) ==
  IF tok.k \notin {"ref", "dyn"} THEN Verbatim(tok)
  ELSE IF tok.name \notin NamesOf(params) THEN [k |-> tok.k, name |-> tok.name, val |-> BadValue]
  ELSE LET type == params[CHOOSE i \in 1..Len(params) : params[i].name = tok.name].type
       IN  [k |-> IF tok.k = "dyn" /\ type = "ident" THEN "field" ELSE tok.k, name |-> tok.name, val |-> renderParamValue(type, res[tok.name])]
RenderStmtParams(stmt, params, res) == [i \in 1..Len(stmt) |-> RenderToken(stmt[i], params, res)]
Unrendered(stmt) == \E i \in 1..Len(stmt) : stmt[i].val.t = "bad"

Declared(entries) == UNION {NamesOf(entries[i].params) : i \in 1..Len(entries)}
UnknownKey(entries, given) ==
  \E g \in given : {g.key, Swapped(g.key)} \cap Declared(entries) = {}

\* As Conflicting, but entries may resolve a name to values of their own.
EachItsOwn(resolved) == FALSE
\* Two entries resolved a name differently: one stored value could not replay both.
Conflicting(resolved) == \E u, w \in resolved : u.key = w.key /\ u.val # w.val

\* ApplyParams: every entry with parameters is rendered, the others pass as they are; the values they resolved to are
\* the union, which must be a function.
ApplyParams(entries, given, orders) ==
  LET res == [i \in 1..Len(entries) |-> ParamsResolve(entries[i].params, given, orders[i])]
      out == [i \in 1..Len(entries) |-> RenderStmtParams(entries[i].stmt, entries[i].params, res[i])]
      used == {i \in 1..Len(entries) : entries[i].params # <<>>}
      union == UNION {{[key |-> n, val |-> res[i][n]] : n \in DOMAIN res[i]} : i \in used}
      err == CASE UnknownKey(entries, given) -> "unknown"
               [] \E i \in used : LacksRequired(entries[i].params, res[i]) -> "required"
               [] \E i \in used : Unrendered(out[i]) -> "render"
               [] Conflicting(union) -> "conflict"
               [] OTHER -> "nil"
  IN  [stmts |-> [i \in 1..Len(entries) |-> IF i \in used THEN out[i] ELSE [j \in DOMAIN entries[i].stmt |-> Verbatim(entries[i].stmt[j])]],
       resolved |-> union, err |-> err]

\* Every order in which a map with these keys can be walked, chosen for each entry.
Walks(given, n) == [1..n -> SetToSeqs(given)]

PpInit(cfgs) ==
  ppCfg \in cfgs /\ ppPc = "idle" /\ ppStmts = <<>> /\ ppStored = {} /\ ppSeen = <<>> /\ ppErr = "nil"

\* cursor create, with the caller's --param values.
CreateWithParams ==
  /\ ppPc = "idle"
  /\ \E orders \in Walks(ppCfg.given, Len(ppCfg.entries)) :
       LET a == ApplyParams(ppCfg.entries, ppCfg.given, orders)
       IN  /\ ppErr' = a.err /\ ppPc' = IF a.err = "nil" THEN "created" ELSE "refused"
           /\ ppStmts' = IF a.err = "nil" THEN a.stmts ELSE <<>>
           /\ ppStored' = IF a.err = "nil" THEN a.resolved ELSE {}
  /\ UNCHANGED <<ppCfg, ppSeen>>

\* A later command renders the pack from what the cursor stored.
ReplayParams ==
  /\ ppPc = "created" /\ Len(ppSeen) < ppCfg.commands
  /\ \E orders \in Walks(ppStored, Len(ppCfg.entries)) :
       LET a == ApplyParams(ppCfg.entries, ppStored, orders)
       IN  ppSeen' = Append(ppSeen, [stmts |-> a.stmts, err |-> a.err])
  /\ UNCHANGED <<ppCfg, ppPc, ppStmts, ppStored, ppErr>>

PpNext == CreateWithParams \/ ReplayParams
PpDone == ppPc = "refused" \/ (ppPc = "created" /\ Len(ppSeen) >= ppCfg.commands)

-----------------------------------------------------------------------------
(* Properties *)

\* What a cursor stored renders the same statements again in every later command: its
\* delta identity, which hashes them, cannot change while the pack's files do not.
ParamsReplay ==
  \A i \in 1..Len(ppSeen) : ppSeen[i].err = "nil" /\ ppSeen[i].stmts = ppStmts

\* A value the caller gave is in every statement that declares and refers to the parameter in
\* either spelling, or the pack is refused: no threshold stays at its default unnoticed.
GivenIsUsed ==
  ppPc = "created" =>
    \A g \in ppCfg.given :
      (\A h \in ppCfg.given : h.key \in {g.key, Swapped(g.key)} => h.val = g.val) =>
        \A i \in {x \in 1..Len(ppStmts) : ppCfg.entries[x].params # <<>>} : \A j \in 1..Len(ppStmts[i]) :
          LET tok == ppStmts[i][j]
              types == {ppCfg.entries[i].params[x].type : x \in {y \in 1..Len(ppCfg.entries[i].params) : ppCfg.entries[i].params[y].name = tok.name}}
          IN  tok.k \in {"ref", "dyn", "field"} /\ tok.name \in {g.key, Swapped(g.key)} /\ (tok.name # g.key => g.key \notin NamesOf(ppCfg.entries[i].params)) =>
                \E type \in types : tok.val = renderParamValue(type, g.val)

-----------------------------------------------------------------------------
(***************************************************************************)
(* glue/cursor.go (QueriesID and its hash schemes, LoadPack) and the drift *)
(* checks of cmd/n1k1/multi_cursor.go: a cursor is stamped with a hash of  *)
(* its statements, and an advance is refused when the files no longer hash *)
(* to the stamp.  Each release may normalise the statements differently,   *)
(* so a stamp is accepted under any scheme that was ever used.             *)
(*                                                                         *)
(* A statement is a sequence of tokens [k, text]: "word" and "str" are     *)
(* what it says, "gap" is layout (spaces, newlines, comments).  Its text   *)
(* is the characters of its tokens; "nl" is a newline and "esc" a          *)
(* backslash.  A hash is the normalised text itself: that two different    *)
(* texts have the same eight digits is left out.                           *)
(***************************************************************************)

VARIABLES
  qdCfg,     \* [texts, dir, steps]: what an edit may write, whether the pack is a directory
  qdFiles,   \* label -> the tokens of its file, <<>> when the file is gone
  qdStored,  \* CursorState.Queries
  qdStamped, \* the files when that was computed, and the scheme of the binary that did it
  qdUnder,   \* what the position was accumulated under since drift was last accepted
  qdVerdict, \* the last command and its outcome
  qdSteps

qdVars == <<qdCfg, qdFiles, qdStored, qdStamped, qdUnder, qdVerdict, qdSteps>>

QueriesHashScheme == 3
Schemes == 1..3

Blank == {" ", "nl"}
TextOf(toks) == FlattenSeq([i \in 1..Len(toks) |-> toks[i].text])
\* What a statement says, whatever its layout.
Means(toks) == SelectSeq(toks, LAMBDA t : t.k # "gap")

-----------------------------------------------------------------------------
(* The normalisers *)

\* strings.TrimSpace
TrimSpace(s) ==
  LET ink == {i \in 1..Len(s) : s[i] \notin Blank}
  IN  IF ink = {} THEN <<>>
      ELSE SubSeq(s, CHOOSE i \in ink : \A j \in ink : i <= j, CHOOSE i \in ink : \A j \in ink : j <= i)

\* The line that holds place i, without its newline.
LineStart(s, i) == LET nls == {j \in 1..i - 1 : s[j] = "nl"} IN IF nls = {} THEN 1 ELSE (CHOOSE j \in nls : \A m \in nls : m <= j) + 1
LineEnd(s, i) == LET nls == {j \in i..Len(s) : s[j] = "nl"} IN IF nls = {} THEN Len(s) ELSE (CHOOSE j \in nls : \A m \in nls : j <= m) - 1

\* normalizeQuerySQL: blank lines and the blanks at the end of a line go; the lines that
\* are left are joined by one newline.
normalizeQuerySQL(s) ==
  LET ink == {i \in 1..Len(s) : s[i] \notin Blank}
      Keeps(i) == i <= LineEnd(s, i) /\ \E j \in ink : j >= i /\ j <= LineEnd(s, i)
      Joins(i) == s[i] = "nl" /\ (\E j \in ink : j >= LineStart(s, i) /\ j < i) /\ \E j \in ink : j > i
      kept == SelectSeq([i \in 1..Len(s) |-> i], LAMBDA i : IF s[i] = "nl" THEN Joins(i) ELSE Keeps(i))
  IN  [n \in 1..Len(kept) |-> s[kept[n]]]

EmitChar(a, c) ==
  [a EXCEPT !.out = @ \o (IF a.space /\ a.out # <<>> THEN <<" ">> ELSE <<>>) \o <<c>>, !.space = FALSE]

\* One character of the statement and the one after it.  next says what becomes of the
\* second character of a pair: "drop", "copy", or "" when it is read for itself.
ScanChar(a, c, following) ==
  CASE a.next = "drop" -> [a EXCEPT !.next = ""]
    [] a.next = "copy" -> [EmitChar(a, c) EXCEPT !.next = ""]
    [] a.next = "" /\ a.mode = "line" -> IF c = "nl" THEN [a EXCEPT !.mode = "sql"] ELSE a
    [] a.next = "" /\ a.mode = "block" -> IF c = "*" /\ following = "/" THEN [a EXCEPT !.mode = "sql", !.next = "drop"] ELSE a
    [] a.next = "" /\ a.mode \in {"'", "tick"} ->
         IF (c = "esc" /\ a.mode = "'") \/ (c = a.mode /\ following = a.mode) THEN [EmitChar(a, c) EXCEPT !.next = "copy"]
         ELSE [EmitChar(a, c) EXCEPT !.mode = IF c = a.mode THEN "sql" ELSE @]
    [] OTHER ->
         CASE c = "-" /\ following = "-" -> [a EXCEPT !.mode = "line", !.space = TRUE]
           [] c = "/" /\ following = "*" -> [a EXCEPT !.mode = "block", !.next = "drop", !.space = TRUE]
           [] c \in {"'", "tick"} -> [EmitChar(a, c) EXCEPT !.mode = c]
           [] c \in Blank -> [a EXCEPT !.space = TRUE]
           [] OTHER -> EmitChar(a, c)

\* As normalizeQuerySQLSemantic, but quotes are characters like any other.
UnquotedScan(s) ==
  LET Step(a, i) == ScanChar([a EXCEPT !.mode = IF @ \in {"'", "tick"} THEN "sql" ELSE @], s[i], IF i < Len(s) THEN s[i + 1] ELSE "end")
  IN  FoldLeft(Step, [out |-> <<>>, space |-> FALSE, mode |-> "sql", next |-> ""], [i \in 1..Len(s) |-> i]).out

\* normalizeQuerySQLSemantic: comments go and blanks collapse, except within quotes.
normalizeQuerySQLSemantic(s) ==
  LET Step(a, i) == ScanChar(a, s[i], IF i < Len(s) THEN s[i + 1] ELSE "end")
  IN  FoldLeft(Step, [out |-> <<>>, space |-> FALSE, mode |-> "sql", next |-> ""], [i \in 1..Len(s) |-> i]).out

queriesHashNormalizers(scheme, s) ==
  CASE scheme = 1 -> TrimSpace(s) [] scheme = 2 -> normalizeQuerySQL(s) [] OTHER -> normalizeQuerySQLSemantic(s)

-----------------------------------------------------------------------------
(* The identity of a pack *)

PackLabels(files) == {l \in DOMAIN files : files[l] # <<>>}
\* LoadPack, loadPackPaths: a path that is a file must be there, of a directory what is
\* there is taken; no query at all is an error.
LoadPack(files) == [err |-> PackLabels(files) = {} \/ (~qdCfg.dir /\ PackLabels(files) # DOMAIN files), labels |-> PackLabels(files)]

\* The lines are sorted before they are hashed: their order does not count.
QueriesIDUnderScheme(files, scheme) == {<<l, queriesHashNormalizers(scheme, TextOf(files[l]))>> : l \in PackLabels(files)}
QueriesID(files) == QueriesIDUnderScheme(files, QueriesHashScheme)

\* As QueriesIDMatches, but only under the current scheme.
MatchesCurrent(stored, files) == IF stored = QueriesID(files) THEN QueriesHashScheme ELSE 0

\* QueriesIDMatches: the scheme under which the files have the stored id, or 0.
QueriesIDMatches(stored, files) ==
  LET known == {s \in Schemes : QueriesIDUnderScheme(files, s) = stored}
  IN  IF known = {} THEN 0 ELSE CHOOSE s \in known : \A t \in known : t <= s

PackMeans(files) == {<<l, Means(files[l])>> : l \in PackLabels(files)}

QdInit(cfgs) ==
  /\ qdCfg \in cfgs
  /\ qdFiles \in [{"a", "b"} -> qdCfg.texts]
  \* A sidecar that some binary, this one or an older one, has stamped.
  /\ \E s \in qdCfg.schemes : qdStored = QueriesIDUnderScheme(qdFiles, s) /\ qdStamped = [files |-> qdFiles, scheme |-> s]
  /\ qdUnder = {PackMeans(qdFiles)}
  /\ qdVerdict = [verb |-> "none", outcome |-> ""]
  /\ qdSteps = 0

\* Somebody edits, removes or restores a file.
EditFile(l) ==
  /\ qdSteps < qdCfg.steps
  /\ \E t \in qdCfg.texts \cup {<<>>} : t # qdFiles[l] /\ qdFiles' = [qdFiles EXCEPT ![l] = t]
  /\ qdVerdict' = [verb |-> "none", outcome |-> ""]
  /\ qdSteps' = qdSteps + 1
  /\ UNCHANGED <<qdCfg, qdStored, qdStamped, qdUnder>>

Drifted == QueriesIDMatches(qdStored, qdFiles) = 0

\* cursorPeekAdvance, without advance: the drift is reported and the pack runs.
PeekDrift ==
  /\ qdVerdict.verb = "none"
  /\ qdVerdict' = [verb |-> "peek", outcome |-> IF LoadPack(qdFiles).err THEN "queries-load" ELSE IF Drifted THEN "drift" ELSE "same"]
  /\ UNCHANGED <<qdCfg, qdFiles, qdStored, qdStamped, qdUnder, qdSteps>>

\* cursorCheck: a pack that cannot be loaded counts as drifted.
CheckDrift ==
  /\ qdVerdict.verb = "none"
  /\ qdVerdict' = [verb |-> "check", outcome |-> IF LoadPack(qdFiles).err \/ Drifted THEN "drift" ELSE "same"]
  /\ UNCHANGED <<qdCfg, qdFiles, qdStored, qdStamped, qdUnder, qdSteps>>

\* cursorPeekAdvance with advance: refused by cursorDriftRefuse, or it commits and
\* stamps the files as they are, under the current scheme.
AdvanceDrift(allowDrift) ==
  /\ qdVerdict.verb \in {"none", "peek"}
  /\ CASE LoadPack(qdFiles).err ->
            /\ qdVerdict' = [verb |-> "advance", outcome |-> "queries-load"]
            /\ UNCHANGED <<qdStored, qdStamped, qdUnder>>
       [] ~LoadPack(qdFiles).err /\ Drifted /\ ~allowDrift ->
            /\ qdVerdict' = [verb |-> "advance", outcome |-> "drift"]
            /\ UNCHANGED <<qdStored, qdStamped, qdUnder>>
       [] OTHER ->
            /\ qdVerdict' = [verb |-> "advance", outcome |-> "committed"]
            /\ qdStored' = QueriesID(qdFiles)
            /\ qdStamped' = [files |-> qdFiles, scheme |-> QueriesHashScheme]
            /\ qdUnder' = (IF Drifted THEN {} ELSE qdUnder) \cup {PackMeans(qdFiles)}
  /\ UNCHANGED <<qdCfg, qdFiles, qdSteps>>

QdNext ==
  \/ \E l \in {"a", "b"} : EditFile(l)
  \/ PeekDrift
  \/ CheckDrift
  \/ \E allow \in BOOLEAN : AdvanceDrift(allow)

QdDone == qdSteps = qdCfg.steps /\ qdVerdict.verb \in {"check", "advance"}

-----------------------------------------------------------------------------
\* An upgrade and a change of layout raise no alarm: files that are as they were when
\* any binary stamped them, and files that say the same as what this one stamped, are
\* never called drifted (QueriesIDMatches; the re-stamp of advance moves old stamps on).
DriftIsReal ==
  qdVerdict.outcome = "drift" =>
    /\ qdFiles # qdStamped.files
    /\ qdStamped.scheme = QueriesHashScheme => PackMeans(qdFiles) # PackMeans(qdStamped.files)

\* The position of a cursor is never moved on by two different packs unless the change
\* was accepted with --allow-drift: the records behind the mark have all been read by
\* the statements as they are now (the drift check of cursorPeekAdvance).
OnePackPerPosition == Cardinality(qdUnder) <= 1

\* What is said of an entry's file is so: its test, its parameters, and whether
\* its statements are those a cursor's position was accumulated under.
EntriesSound ==
  /\ PassIsEarned
  /\ UpdateSticks
  /\ ParamsReplay
  /\ GivenIsUsed
  /\ DriftIsReal
  /\ OnePackPerPosition
=============================================================================
