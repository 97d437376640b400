---------------------------- MODULE AppendCursor ----------------------------
(***************************************************************************)
(* The append-mode named cursor (cmd/n1k1/multi_cursor.go and the          *)
(* CursorStore of glue/cursor.go): a durable position over a set of        *)
(* append-mostly files, moved by commands that run in processes of their   *)
(* own.  A command loads the state file, scans, may scan again to          *)
(* quarantine rewritten files, and saves by write-temp-then-rename; it may *)
(* die before any of these steps, and other commands and the writers of    *)
(* the files run between them.  A refusal leaves everything unchanged and  *)
(* is a guard here.  The command's answer is printed in the step that ends *)
(* it.  A scan reads all files at one instant: what it finds in one file   *)
(* does not depend on the others.                                          *)
(***************************************************************************)
EXTENDS RecordScanFilter, FiniteSets

CONSTANTS
  Containers,    \* the files
  MaxOffset,     \* bounds a file's length
  MaxRecords,    \* bounds how many records are ever written
  InitialFiles,  \* what the files may hold at first
  FileChanges,   \* what the files' writers do, of "append", "replace", "truncate", "remove"
  RacyRescan,    \* TRUE iff a file may be replaced between the two scans of one command
  Queries,       \* versions of the query file
  Procs,         \* concurrent commands
  Requests,      \* the command lines in use
  MaxAnswers,    \* how many of the peeks' answers the callers keep
  None           \* "there is no such file"

ASSUME AppendAssumption ==
  /\ MaxOffset \in Nat /\ MaxRecords \in Nat /\ MaxAnswers \in Nat /\ RacyRescan \in BOOLEAN
  /\ FileChanges \subseteq {"append", "replace", "truncate", "remove"}
  /\ Requests \subseteq [verb : {"create", "peek", "advance", "rm"}, start : BOOLEAN, to : BOOLEAN,
                         quiet : BOOLEAN, accept : BOOLEAN, halt : BOOLEAN, prune : BOOLEAN,
                         force : BOOLEAN, expect : BOOLEAN, allowDrift : BOOLEAN]

VARIABLES
  files,      \* container -> offset -> record
  written,    \* records written so far; they are numbered
  query,      \* the query file's content
  store,      \* NAME.json: [water, fp, queries], or None
  tmp,        \* NAME.json.tmp, or None; beside it the history that its rename makes true
  proc,       \* the running commands
  answers,    \* what peeks printed, as far as the callers kept it: [from, to]
  accounted,  \* history: records that were delivered, or that a caller chose to skip
  held,       \* history: containers disclosed as violating, not acknowledged nor replaced since
  cleared     \* history: containers acknowledged by --accept-truncation, not replaced since

cursorVars == <<files, written, query, store, tmp, proc, answers, accounted, held, cleared>>

Offsets == 0..MaxOffset

Empty == [x \in {} |-> 0]

\* Positions: container -> offset of the last record consumed.
Waters == UNION {[S -> Offsets] : S \in SUBSET Containers}

ASSUME FilesAssumption ==
  /\ \A f \in InitialFiles :
       /\ DOMAIN f = Containers /\ \A c \in Containers : DOMAIN f[c] \subseteq Offsets
       /\ \E n \in 0..MaxRecords : UNION {{f[c][o] : o \in DOMAIN f[c]} : c \in Containers} = 1..n
  /\ None \notin Waters

Idle == [pc |-> "idle"]

CursorInit ==
  /\ files \in InitialFiles
  /\ written = Cardinality(UNION {{files[c][o] : o \in DOMAIN files[c]} : c \in Containers})
  /\ query \in Queries
  /\ store = None /\ tmp = None
  /\ proc = [p \in Procs |-> Idle]
  /\ answers = {} /\ accounted = {} /\ held = {} /\ cleared = {}

-----------------------------------------------------------------------------
(* The pure parts of an advance.                                           *)

\* quarantineMark: above every offset.
QuarantineMark == MaxOffset + 1

QuarantineWater(committed, violations) ==
  [k \in DOMAIN committed |-> IF k \in violations THEN QuarantineMark ELSE committed[k]]

\* What one RunCursorPack returns.
RunCursorPack(since) ==
  [water |-> NewWater(since, files), observed |-> ObservedWater(files), fp |-> FingerprintWater(files),
   rows |-> UNION {Admitted(since, files, c) : c \in Containers}]

Without(f, S) == [k \in DOMAIN f \ S |-> f[k]]

\* As Scrub, but keeping what the scan saw of the violators.
ScrubNothing(f, violations) == f

Scrub(f, violations) == Without(f, violations)

\* Replaces the marks of the violators by the committed ones.
PinWater(water, committed, violations) ==
  [k \in DOMAIN water |-> IF k \in violations THEN committed[k] ELSE water[k]]

Isolate(res, committed, violations) ==
  [res EXCEPT !.water = PinWater(@, committed, violations),
              !.observed = Scrub(@, violations), !.fp = Scrub(@, violations)]

\* validateWater, in its three parts.
Dropped(committed, requested) == {k \in DOMAIN committed \ DOMAIN requested : committed[k] > 0}

\* As Rewound, with the comparison the wrong way round.
RewoundSwapped(committed, requested) ==
  {k \in DOMAIN requested \cap DOMAIN committed : requested[k] > committed[k]}

Rewound(committed, requested) ==
  {k \in DOMAIN requested \cap DOMAIN committed : requested[k] < committed[k]}

Unknown(requested, datastore) == DOMAIN requested \ DOMAIN datastore

\* As Rebaseline, but a mark that the position holds is left where it is.
RebaselineMissing(water, observed, truncated) ==
  [k \in DOMAIN water \cup truncated |-> IF k \in DOMAIN water THEN water[k] ELSE observed[k]]

\* --accept-truncation: lowers the truncated containers to what the scan saw.  The check
\* that follows it in the code, for a mark left above, cannot fail.
Rebaseline(water, observed, truncated) ==
  [k \in DOMAIN water \cup truncated |->
     IF k \in truncated /\ (k \notin DOMAIN water \/ water[k] > observed[k]) THEN observed[k] ELSE water[k]]

-----------------------------------------------------------------------------
(* The files' writers.                                                     *)

\* c no longer is what it was: nothing said of it before counts.
Forget(c) ==
  /\ held' = held \ {c}
  /\ cleared' = cleared \ {c}
  /\ proc' = [p \in Procs |->
                IF proc[p].pc \in {"save", "rename"} THEN [proc[p] EXCEPT !.violations = @ \ {c}] ELSE proc[p]]

MayRewrite == RacyRescan \/ \A p \in Procs : proc[p].pc # "rescan"

\* The file f with fresh records at the offsets S.
Write(f, S) ==
  [o \in DOMAIN f \cup S |-> IF o \in S THEN written + Cardinality({x \in S : x <= o}) ELSE f[o]]

AppendTo(c) ==
  /\ "append" \in FileChanges
  /\ written < MaxRecords
  /\ \E o \in Offsets :
       /\ \A x \in DOMAIN files[c] : x < o
       /\ DOMAIN files[c] = {} => o = 0 /\ MayRewrite
       /\ files' = [files EXCEPT ![c] = Write(@, {o})]
  /\ written' = written + 1
  /\ UNCHANGED <<query, store, tmp, proc, answers, accounted, held, cleared>>

Replace(c) ==
  /\ "replace" \in FileChanges /\ MayRewrite
  /\ DOMAIN files[c] # {}
  /\ \E S \in SUBSET Offsets :
       /\ 0 \in S
       /\ written + Cardinality(S) <= MaxRecords
       /\ files' = [files EXCEPT ![c] = Write(Empty, S)]
       /\ written' = written + Cardinality(S)
  /\ Forget(c)
  /\ UNCHANGED <<query, store, tmp, answers, accounted>>

Truncate(c) ==
  /\ "truncate" \in FileChanges /\ MayRewrite
  /\ \E o \in DOMAIN files[c] \ {0} :
       files' = [files EXCEPT ![c] = Without(@, {x \in DOMAIN @ : x >= o})]
  /\ Forget(c)
  /\ UNCHANGED <<written, query, store, tmp, answers, accounted>>

Remove(c) ==
  /\ "remove" \in FileChanges /\ MayRewrite
  /\ DOMAIN files[c] # {}
  /\ files' = [files EXCEPT ![c] = Empty]
  /\ Forget(c)
  /\ UNCHANGED <<written, query, store, tmp, answers, accounted>>

EditQuery ==
  /\ query' \in Queries \ {query}
  /\ UNCHANGED <<files, written, store, tmp, proc, answers, accounted, held, cleared>>

-----------------------------------------------------------------------------
(* cursorCreate.                                                           *)

CreateBegin(p) ==
  /\ proc[p].pc = "idle" /\ store = None
  /\ \E r \in Requests :
       /\ r.verb = "create"
       /\ proc' = [proc EXCEPT ![p] = [pc |-> "baseline", req |-> r, queries |-> query]]
  /\ UNCHANGED <<files, written, query, store, tmp, answers, accounted, held, cleared>>

\* The one scan of a create: --from now starts at the head, --from start at nothing.
CreateScan(p) ==
  LET res == RunCursorPack(Empty)
      now == [water |-> res.water, fp |-> WaterFPMerge(res.water, res.observed, res.fp, Empty, Empty),
              queries |-> proc[p].queries]
      beginning == [now EXCEPT !.water = Empty, !.fp = Empty]
      start == proc[p].req.start
  IN  /\ proc[p].pc = "baseline"
      /\ proc' = [proc EXCEPT ![p] =
           [pc |-> "save", req |-> @.req, violations |-> {},
            out |-> [st |-> IF start THEN beginning ELSE now, given |-> IF start THEN {} ELSE res.rows,
                     base |-> None, asked |-> {}, expect |-> FALSE]]]
      /\ UNCHANGED <<files, written, query, store, tmp, answers, accounted, held, cleared>>

-----------------------------------------------------------------------------
(* cursorPeekAdvance, up to the first scan.                                *)

\* The query file was edited since the position was taken.
Drifted == store.queries # query

\* committedID: the digest of a position; different positions are taken to have different ones.
committedID(st) == [position |-> st.water]

\* --expect: the committed position is the one that the caller was told of.
ExpectMet(r, a) == r.expect => [position |-> a.from] = committedID(store)

Begin(p) ==
  /\ proc[p].pc = "idle" /\ store # None
  /\ \E r \in Requests, a \in answers \cup {None} :
       /\ r.verb \in {"peek", "advance"}
       /\ r.to \/ r.expect <=> a # None
       /\ r.verb = "advance" => (r.allowDrift \/ ~Drifted) /\ ExpectMet(r, a)
       /\ proc' = [proc EXCEPT ![p] = [pc |-> "scan", req |-> r, ans |-> a, st |-> store, queries |-> query]]
  /\ UNCHANGED <<files, written, query, store, tmp, answers, accounted, held, cleared>>

-----------------------------------------------------------------------------
(* What follows the scans: the answer of a peek, or the state to save.     *)

Isolates(r) == ~r.accept /\ ~r.halt

Peek(p, found, res) ==
  /\ proc[p].req.verb = "peek"
  /\ \/ answers' = answers \cup {[from |-> proc[p].st.water, to |-> res.water]}
        /\ Cardinality(answers') <= MaxAnswers
     \/ answers' = answers
  /\ accounted' = accounted \cup res.rows
  /\ held' = held \cup found.violations
  /\ proc' = [proc EXCEPT ![p] = Idle]
  /\ UNCHANGED <<tmp, cleared>>

\* --halt-on-violation refuses, and discloses.
Halt(p, found) ==
  /\ proc[p].req.verb = "advance" /\ proc[p].req.halt /\ ~proc[p].req.accept
  /\ found.violations # {}
  /\ held' = held \cup found.violations
  /\ proc' = [proc EXCEPT ![p] = Idle]
  /\ UNCHANGED <<tmp, answers, accounted, cleared>>

\* The position to commit: the token, unless it is empty, else the head.
Explicit(p) == proc[p].req.to /\ proc[p].ans.to # Empty

Position(p, found, res) ==
  LET r == proc[p].req
      committed == proc[p].st.water
      asked == IF Explicit(p) THEN proc[p].ans.to ELSE res.water
      kept == IF r.accept THEN Rebaseline(asked, res.observed, found.truncated)
                          ELSE PinWater(asked, committed, found.violations)
  IN  IF r.prune THEN Without(kept, found.rotated) ELSE kept

Unsafe(p, res) ==
  LET committed == proc[p].st.water
      asked == proc[p].ans.to
  IN  Dropped(committed, asked) \cup Rewound(committed, asked) \cup Unknown(asked, res.water) # {}

Refused(p, res) == Explicit(p) /\ ~proc[p].req.force /\ Unsafe(p, res)

RefuseUnsafe(p, found, res) ==
  /\ proc[p].req.verb = "advance"
  /\ Isolates(proc[p].req) \/ proc[p].req.accept \/ found.violations = {}
  /\ Refused(p, res)
  /\ proc' = [proc EXCEPT ![p] = Idle]
  /\ UNCHANGED <<tmp, answers, accounted, held, cleared>>

\* The records that an acknowledgement gives up: those at or below the old marks.
Behind(committed, S) ==
  UNION {{files[c][o] : o \in {x \in DOMAIN files[c] : x <= committed[c]}} : c \in S}

\* The containers whose marks the flags ask to lower or to drop.
AskedFor(r, found) ==
  (IF r.force THEN Containers ELSE {}) \cup (IF r.accept THEN found.violations ELSE {})
    \cup (IF r.prune THEN found.rotated ELSE {})

Advance(p, found, res) ==
  LET st == proc[p].st
      water == Position(p, found, res)
      r == proc[p].req
  IN  /\ r.verb = "advance"
      /\ Isolates(r) \/ r.accept \/ found.violations = {}
      /\ ~Refused(p, res)
      /\ proc' = [proc EXCEPT ![p] =
           [pc |-> "save", req |-> r, violations |-> found.violations,
            out |-> [st |-> [water |-> water, queries |-> proc[p].queries,
                             fp |-> WaterFPMerge(water, res.observed, res.fp, st.water, st.fp)],
                     given |-> (IF r.to /\ r.quiet THEN {} ELSE res.rows)
                                 \cup (IF r.accept THEN Behind(st.water, found.violations) ELSE {}),
                     base |-> st.water, asked |-> AskedFor(r, found), expect |-> r.expect]]]
      /\ UNCHANGED <<tmp, answers, accounted, held, cleared>>

Finish(p, found, res0) ==
  LET res == IF Isolates(proc[p].req) THEN Isolate(res0, proc[p].st.water, found.violations) ELSE res0
  IN  Peek(p, found, res) \/ Halt(p, found) \/ RefuseUnsafe(p, found, res) \/ Advance(p, found, res)

SourceAnomalies(water, fp) ==
  [rotated |-> Rotated(water, files), truncated |-> Truncated(water, files),
   rewritten |-> Rewritten(water, fp, files),
   violations |-> Truncated(water, files) \cup Rewritten(water, fp, files)]

\* New content of a rewritten container may have been let through: scan again.
NeedsRescan(r, found) == Isolates(r) /\ found.rewritten # {}

Scan(p) ==
  LET st == proc[p].st
      found == SourceAnomalies(st.water, st.fp)
  IN  /\ proc[p].pc = "scan"
      /\ \/ /\ NeedsRescan(proc[p].req, found)
            /\ proc' = [proc EXCEPT ![p] = [pc |-> "rescan", req |-> @.req, ans |-> @.ans, st |-> st,
                                            queries |-> @.queries, found |-> found]]
            /\ UNCHANGED <<tmp, answers, accounted, held, cleared>>
         \/ ~NeedsRescan(proc[p].req, found) /\ Finish(p, found, RunCursorPack(st.water))
      /\ UNCHANGED <<files, written, query, store>>

\* The second scan lets nothing of the violators through; its anomalies are not looked at.
Rescan(p) ==
  /\ proc[p].pc = "rescan"
  /\ Finish(p, proc[p].found, RunCursorPack(QuarantineWater(proc[p].st.water, proc[p].found.violations)))
  /\ UNCHANGED <<files, written, query, store>>

-----------------------------------------------------------------------------
(* CursorStore.Save, crashes and rm.                                       *)

WriteTmp(p) ==
  /\ proc[p].pc = "save"
  /\ tmp' = proc[p].out
  /\ proc' = [proc EXCEPT ![p].pc = "rename"]
  /\ UNCHANGED <<files, written, query, store, answers, accounted, held, cleared>>

\* The commit.  A one-step advance counts its rows as delivered here: that it may die
\* before it prints them is the at-most-once that callers accept.
Rename(p) ==
  LET r == proc[p].req
      violations == proc[p].violations
  IN  /\ proc[p].pc = "rename" /\ tmp # None
      /\ store' = tmp.st /\ tmp' = None
      /\ accounted' = accounted \cup tmp.given
      /\ held' = IF r.accept THEN held \ violations ELSE held \cup violations
      /\ cleared' = IF r.accept THEN cleared \cup violations ELSE cleared
      /\ proc' = [proc EXCEPT ![p] = Idle]
      /\ UNCHANGED <<files, written, query, answers>>

\* Another command has renamed the shared temporary file away.
RenameFails(p) ==
  /\ proc[p].pc = "rename" /\ tmp = None
  /\ proc' = [proc EXCEPT ![p] = Idle]
  /\ UNCHANGED <<files, written, query, store, tmp, answers, accounted, held, cleared>>

\* The process dies, or its scan fails.
Crash(p) ==
  /\ proc[p].pc # "idle"
  /\ proc' = [proc EXCEPT ![p] = Idle]
  /\ UNCHANGED <<files, written, query, store, tmp, answers, accounted, held, cleared>>

CursorRemove ==
  /\ store # None
  /\ \E r \in Requests : r.verb = "rm"
  /\ store' = None /\ held' = {} /\ cleared' = {}
  /\ UNCHANGED <<files, written, query, tmp, proc, answers, accounted>>

FileStep == \E c \in Containers : AppendTo(c) \/ Replace(c) \/ Truncate(c) \/ Remove(c)

CursorStep(p) ==
  \/ CreateBegin(p) \/ CreateScan(p) \/ Begin(p) \/ Scan(p) \/ Rescan(p)
  \/ WriteTmp(p) \/ Rename(p) \/ RenameFails(p) \/ Crash(p)

CursorNext == FileStep \/ EditQuery \/ CursorRemove \/ \E p \in Procs : CursorStep(p)

CursorSpec == CursorInit /\ [][CursorNext]_cursorVars

-----------------------------------------------------------------------------
(* Correctness.                                                            *)

Contents == 1..MaxRecords

States == [water : Waters, fp : UNION {[S -> Contents] : S \in SUBSET Containers}, queries : Queries]

TypeOK ==
  /\ files \in [Containers -> UNION {[S -> Contents] : S \in SUBSET Offsets}]
  /\ written \in 0..MaxRecords /\ query \in Queries
  /\ store \in States \cup {None} /\ (tmp # None => tmp.st \in States)
  /\ \A p \in Procs : proc[p].pc \in {"idle", "baseline", "scan", "rescan", "save", "rename"}
  /\ \A a \in answers : a.from \in Waters /\ a.to \in Waters
  /\ accounted \subseteq Contents /\ held \subseteq Containers /\ cleared \subseteq Containers

\* What a scan would report now as truncated or rewritten.
Violated == SourceAnomalies(store.water, store.fp).violations

\* A record at or below the committed position was delivered, or a caller chose to skip
\* it, or its container is reported as violating append-only: peek never misses, through
\* crashes, retries, and files that are replaced, truncated, deleted and come back.
NeverMisses ==
  store # None =>
    \A c \in DOMAIN store.water \ Violated : \A o \in DOMAIN files[c] :
      o <= store.water[c] => files[c][o] \in accounted

\* A violator that was disclosed and not acknowledged is disclosed again by the next scan:
\* no later peek or advance acknowledges it by accident (the self-acknowledgement that
\* scrubbing the observed fingerprint prevents).
ReDisclosed == store # None => held \subseteq Violated

\* An acknowledgement sticks: after --accept-truncation the container is not reported
\* again, however much is appended to it.
AcceptClears == store # None => cleared \cap Violated = {}

Rewinds(c) == c \notin DOMAIN store'.water \/ store'.water[c] < store.water[c]

\* A mark above the start of its file is never lowered nor dropped, whatever token is
\* retried, unless --force, --accept-truncation or --prune-rotated asked for it, or another
\* command moved the cursor after this one had loaded it.
MarkNeverRewinds ==
  [][store # None /\ store' # None =>
       \A c \in DOMAIN store.water :
         store.water[c] > 0 /\ Rewinds(c) => c \in tmp.asked \/ tmp.base # store.water]_cursorVars

\* An advance --expect commits only over the position that it expects (compare-and-swap).
CompareAndSwap ==
  [][store # None /\ store # store' /\ tmp # None /\ tmp' = None /\ tmp.expect
       => store.water = tmp.base]_cursorVars

=============================================================================
