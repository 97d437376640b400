------------------------------ MODULE MCCursors ------------------------------
(***************************************************************************)
(* Instances for TLC of the named cursors.  A behaviour belongs to one     *)
(* part: an append cursor moved by one-step advances, by tokens, or by two *)
(* concurrent callers, or a diff cursor.  A part restricts the steps of    *)
(* AppendCursor to command lines, writers and bounds of its own.           *)
(***************************************************************************)
EXTENDS AppendCursor, DiffCursor, TLC

CONSTANT Parts   \* the parts that the run checks

VARIABLE part

Bare == [verb |-> "advance", start |-> FALSE, to |-> FALSE, quiet |-> FALSE, accept |-> FALSE,
         halt |-> FALSE, prune |-> FALSE, force |-> FALSE, expect |-> FALSE, allowDrift |-> FALSE]
Peeking == [Bare EXCEPT !.verb = "peek"]
FromNow == [Bare EXCEPT !.verb = "create"]
FromStart == [FromNow EXCEPT !.start = TRUE]
Rm == [Bare EXCEPT !.verb = "rm"]
Accept == [Bare EXCEPT !.accept = TRUE]
ToToken == [Bare EXCEPT !.to = TRUE, !.quiet = TRUE]

\* One-step advances with every flag that deals with violations.
OneStep == {FromStart, FromNow, Peeking, Bare, Accept, [Bare EXCEPT !.halt = TRUE], [Bare EXCEPT !.prune = TRUE]}

\* Two-step advances, with stale tokens, compare-and-swap and edits of the query.
TwoStep == {FromStart, FromNow, Peeking, ToToken, [ToToken EXCEPT !.expect = TRUE, !.allowDrift = TRUE]}

\* Tokens and every way to move back; rm.
Tokens == {FromStart, Rm, Peeking, Bare, ToToken, [ToToken EXCEPT !.force = TRUE], [ToToken EXCEPT !.accept = TRUE],
           [ToToken EXCEPT !.prune = TRUE]}

Expecting == {FromStart, Peeking, [Bare EXCEPT !.expect = TRUE]}

AllRequests == OneStep \cup TwoStep \cup Tokens \cup Expecting

OneRecord == {[c \in Containers |-> IF c = "a" THEN 0 :> 1 ELSE Empty]}

\* No file holds a record yet: a peek's position is the empty string.
NoRecord == {[c \in Containers |-> Empty]}

FirstQuery == CHOOSE q \in Queries : TRUE

Row(i, x) == [label |-> CHOOSE l \in Labels : TRUE, id |-> i, doc |-> x]

\* Results of up to two rows: a key twice, a row that has no identity, rows that come and go
\* and change, or change only their bytes.
UpToTwo ==
  {<<>>, <<Row("i", "d"), Row("i", "e")>>, <<Row(NoId, "d"), Row("j", "< e >")>>}
    \cup {<<Row("i", x)>> : x \in Docs} \cup {<<Row("i", x), Row("j", y)>> : x \in Docs, y \in {"e", "< e >"}}

\* One document comes in bytes that it is not saved in.
SavedForm == [x \in Docs |-> IF x = "< e >" THEN "e" ELSE x]

Swap == Permutations(Procs)

Scenario ==
  [one_step |-> [requests |-> OneStep, changes |-> {"append", "replace", "truncate", "remove"},
                 files |-> {"a", "b"}, offset |-> 2, records |-> 3, answers |-> 0, callers |-> 1, edits |-> FALSE],
   tokens |-> [requests |-> Tokens, changes |-> {"append", "truncate", "remove"},
               files |-> {"a", "b"}, offset |-> 1, records |-> 3, answers |-> 1, callers |-> 1, edits |-> FALSE],
   two_step |-> [requests |-> TwoStep, changes |-> {"append"},
                 files |-> {"a"}, offset |-> 2, records |-> 2, answers |-> 2, callers |-> 2, edits |-> TRUE],
   expect |-> [requests |-> Expecting, changes |-> {"append"},
               files |-> {"a"}, offset |-> 2, records |-> 2, answers |-> 2, callers |-> 2, edits |-> FALSE]]

-----------------------------------------------------------------------------
Running == {p \in Procs : proc[p].pc # "idle"}

\* The bounds of scenario s, on the state that a step leads to.
Within(s) ==
  /\ written <= s.records /\ Cardinality(answers) <= s.answers
  /\ \A c \in Containers : DOMAIN files[c] \subseteq 0..s.offset
  /\ Cardinality(Running) <= s.callers
  /\ \A p \in Running : proc[p].req \in s.requests

Change(s) ==
  \E c \in s.files :
    \/ AppendTo(c)
    \/ "replace" \in s.changes /\ Replace(c)
    \/ "truncate" \in s.changes /\ Truncate(c)
    \/ "remove" \in s.changes /\ Remove(c)

AppendPart ==
  /\ part \in DOMAIN Scenario
  /\ UNCHANGED <<part, diffVars>>
  /\ LET s == Scenario[part]
     IN  /\ \/ Change(s)
            \/ s.edits /\ query = FirstQuery /\ EditQuery
            \/ Rm \in s.requests /\ CursorRemove
            \/ \E p \in Procs : CursorStep(p)
         /\ Within(s)'

DiffPart == part = "diff" /\ DiffNext /\ UNCHANGED <<part, cursorVars>>

Init ==
  /\ part \in Parts
  /\ CursorInit /\ query = FirstQuery
  /\ DiffInit /\ (part # "diff" => result = <<>>)

Next == AppendPart \/ DiffPart

vars == <<part, cursorVars, diffVars>>

Spec == Init /\ [][Next]_vars

-----------------------------------------------------------------------------
(* The properties of AppendCursor that do not hold of tokens for files that *)
(* shrink: a token carries offsets and no fingerprints, so that one taken   *)
(* before its file was cut short or replaced and committed after leaves a   *)
(* mark that nothing is compared with.  Whoever peeks, acts and commits     *)
(* relies on files that only grow (part two_step).                          *)

\* A record at or below the committed position was delivered, skipped by a caller's choice,
\* or is in a container that is reported as violating append-only.
NeverMissesAppends == part # "tokens" => NeverMisses

\* A disclosed violator that was not acknowledged is disclosed again by the next scan, and
\* an acknowledged one is not reported again, however much is appended to it.
DisclosedUntilAccepted == part # "tokens" => ReDisclosed /\ AcceptClears
=============================================================================
