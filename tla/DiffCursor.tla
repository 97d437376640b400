----------------------------- MODULE DiffCursor -----------------------------
(***************************************************************************)
(* The diff-mode named cursor: an advance runs the queries over the whole  *)
(* current state, reports how the result differs from the snapshot of the  *)
(* last advance, and makes the result the new snapshot.  The snapshot      *)
(* (NAME.snap.json) and the state with its version (NAME.json) are two     *)
(* files; each is replaced atomically, and a command may die between them, *)
(* or fail there, which is the same.  A document is its bytes, as a query   *)
(* gave them; what is saved, and what is printed, is the same JSON value in *)
(* a form of its own (no white space, <, > and & escaped), so that a row    *)
(* whose bytes are not in that form differs from its own snapshot.  A       *)
(* caller keeps a copy of the result up to date from what the commands      *)
(* print.  The checks that come before the run (drift, --expect) are those  *)
(* of AppendCursor.                                                        *)
(***************************************************************************)
EXTENDS Naturals, Sequences, FiniteSets

CONSTANTS
  Labels, Ids, Docs,
  Stored,          \* the bytes that json.Marshal makes of a document's bytes
  NoId,            \* a row without a usable identity
  Results,         \* the results that the queries may have: sequences of rows
  Quiet,           \* TRUE: the caller peeks, acts, then runs advance --to --quiet;
                   \* FALSE: it just runs advance
  MaxVersion,      \* bounds the state's version
  Absent

Rows == [label : Labels, id : Ids \cup {NoId}, doc : Docs]

Keys == Labels \X Ids

ASSUME DiffAssumption ==
  /\ NoId \notin Ids /\ Results \subseteq Seq(Rows)
  /\ Stored \in [Docs -> Docs] /\ \A d \in Docs : Stored[Stored[d]] = Stored[d]
  /\ Quiet \in BOOLEAN /\ MaxVersion \in Nat

VARIABLES
  result,   \* what the queries return now
  state,    \* NAME.json: the snapshot's version, or Absent
  snap,     \* NAME.snap.json: key -> doc, or Absent
  cmd,      \* the running command
  replica,  \* what the caller made of the printed changes: key -> doc
  peeked,   \* the caller has acted on a peek and may commit it
  stamped,  \* history: the snapshots that were current at each version, but for those in torn
  torn,     \* history: the versions at which a commit died between its two files
  missed    \* history: the keys whose last committed change no command lived to print

diffVars == <<result, state, snap, cmd, replica, peeked, stamped, torn, missed>>

NoCmd == [pc |-> "idle"]

EmptySnap == [k \in {} |-> 0]

DiffInit ==
  /\ result \in Results
  /\ state = Absent /\ snap = Absent
  /\ cmd = NoCmd /\ replica = EmptySnap /\ peeked = FALSE
  /\ stamped = [v \in 0..MaxVersion |-> {}] /\ torn = {} /\ missed = {}

-----------------------------------------------------------------------------
(* Snapshots.                                                              *)

RowsOf(rows, k) == {i \in DOMAIN rows : rows[i].id # NoId /\ <<rows[i].label, rows[i].id>> = k}

LastRow(rows, k) == CHOOSE i \in RowsOf(rows, k) : \A j \in RowsOf(rows, k) : j <= i

SnapshotFromResults(rows) ==
  [k \in {x \in Keys : RowsOf(rows, x) # {}} |-> rows[LastRow(rows, k)].doc]

\* What json.Marshal writes for a snapshot.
Marshal(current) == [k \in DOMAIN current |-> Stored[current[k]]]

ASSUME AbsentAssumption ==
  Absent \notin Nat /\ Absent # EmptySnap /\ \A r \in Results : Marshal(SnapshotFromResults(r)) # Absent

\* LoadSnapshot: a missing file is an empty snapshot.
LoadSnapshot == IF snap = Absent THEN EmptySnap ELSE snap

Inserts(prior, current) ==
  {[op |-> "insert", key |-> k, after |-> current[k]] : k \in DOMAIN current \ DOMAIN prior}

\* As Deletes, but rows that vanished are not looked for.
DeletesNone(prior, current) == {}

Deletes(prior, current) ==
  {[op |-> "delete", key |-> k, before |-> prior[k]] : k \in DOMAIN prior \ DOMAIN current}

\* bytesEqualJSON compares the saved bytes with those that the query gave.
Updates(prior, current) ==
  {[op |-> "update", key |-> k, before |-> prior[k], after |-> current[k]] :
     k \in {x \in DOMAIN prior \cap DOMAIN current : prior[x] # current[x]}}

DiffSnapshot(prior, current) == Inserts(prior, current) \cup Deletes(prior, current) \cup Updates(prior, current)

KeysOf(events) == {e.key : e \in events}

\* What the caller does with printed changes.
Apply(events, copy) ==
  LET gone == KeysOf({x \in events : x.op = "delete"})
      put == {e \in events : e.op # "delete"}
      putKeys == KeysOf(put)
  IN  [k \in (DOMAIN copy \cup putKeys) \ gone |->
         IF k \in putKeys THEN Stored[(CHOOSE e \in put : e.key = k).after] ELSE copy[k]]

-----------------------------------------------------------------------------
(* The commands.  The source changes between any two of their steps.       *)

SourceChanges ==
  /\ result' \in Results \ {result}
  /\ UNCHANGED <<state, snap, cmd, replica, peeked, stamped, torn, missed>>

\* cursorCreate: the baseline is the current result, or nothing (--from start).
DiffCreate ==
  /\ cmd.pc = "idle" /\ state = Absent
  /\ \E start \in BOOLEAN :
       cmd' = [pc |-> "snapshot", verb |-> "create", version |-> 0, events |-> {},
               current |-> IF start THEN EmptySnap ELSE SnapshotFromResults(result)]
  /\ UNCHANGED <<result, state, snap, replica, peeked, stamped, torn, missed>>

\* cursorDiffPeekAdvance reads the state and the snapshot, and runs the queries.
DiffBegin ==
  /\ cmd.pc = "idle" /\ state # Absent
  /\ \E verb \in {"peek", "advance"} :
       /\ Quiet /\ verb = "advance" => peeked
       /\ cmd' = [pc |-> "run", verb |-> verb, version |-> state, prior |-> LoadSnapshot]
  /\ UNCHANGED <<result, state, snap, replica, peeked, stamped, torn, missed>>

\* As Changed, but a single change does not count.
ChangedMany(events) == Cardinality(events) > 1

Changed(events) == events # {}

DiffRun ==
  LET current == SnapshotFromResults(result)
      events == DiffSnapshot(cmd.prior, current)
  IN  /\ cmd.pc = "run"
      /\ \/ /\ cmd.verb = "peek"
            /\ cmd' = NoCmd
            /\ replica' = IF Quiet THEN Apply(events, cmd.prior) ELSE replica
            /\ missed' = IF Quiet THEN {} ELSE missed
            /\ peeked' = Quiet
         \/ /\ cmd.verb = "advance"
            /\ cmd.version < MaxVersion
            /\ cmd' = [pc |-> "snapshot", verb |-> "advance", current |-> current, events |-> events,
                       version |-> IF Changed(events) THEN cmd.version + 1 ELSE cmd.version]
            /\ UNCHANGED <<replica, missed, peeked>>
      /\ UNCHANGED <<result, state, snap, stamped, torn>>

\* As SaveSnapshot, but only an advance writes the file.
SaveSnapshotLater ==
  /\ cmd.pc = "snapshot"
  /\ snap' = IF cmd.verb = "create" THEN snap ELSE Marshal(cmd.current)
  /\ cmd' = [cmd EXCEPT !.pc = "state"]
  /\ UNCHANGED <<result, state, replica, peeked, stamped, torn, missed>>

\* The position that --to names is not looked at: what is saved is the current result.
SaveSnapshot ==
  /\ cmd.pc = "snapshot"
  /\ snap' = Marshal(cmd.current)
  /\ cmd' = [cmd EXCEPT !.pc = "state"]
  /\ UNCHANGED <<result, state, replica, peeked, stamped, torn, missed>>

\* CursorStore.Save.  The caller of a create starts from the baseline, which is not printed.
SaveState ==
  /\ cmd.pc = "state"
  /\ state' = cmd.version
  /\ stamped' = IF cmd.version \in torn THEN stamped ELSE [stamped EXCEPT ![cmd.version] = @ \cup {snap}]
  /\ replica' = IF cmd.verb = "create" THEN snap ELSE replica
  /\ cmd' = [cmd EXCEPT !.pc = "print"]
  /\ UNCHANGED <<result, snap, peeked, torn, missed>>

\* The changes, unless --quiet.
PrintChanges ==
  /\ cmd.pc = "print"
  /\ IF cmd.verb = "advance" /\ ~Quiet
     THEN replica' = Apply(cmd.events, replica) /\ missed' = missed \ KeysOf(cmd.events)
     ELSE UNCHANGED <<replica, missed>>
  /\ peeked' = FALSE
  /\ cmd' = NoCmd
  /\ UNCHANGED <<result, state, snap, stamped, torn>>

\* CursorStore.Remove: the state file goes first, then, at best effort, the snapshot.
RemoveState ==
  /\ cmd.pc = "idle" /\ state # Absent
  /\ state' = Absent
  /\ stamped' = [v \in 0..MaxVersion |-> {}] /\ torn' = {} /\ missed' = {}
  /\ cmd' = [pc |-> "unlink", verb |-> "rm"]
  /\ peeked' = FALSE /\ replica' = EmptySnap
  /\ UNCHANGED <<result, snap>>

RemoveSnapshot ==
  /\ cmd.pc = "unlink"
  /\ snap' = Absent /\ cmd' = NoCmd
  /\ UNCHANGED <<result, state, replica, peeked, stamped, torn, missed>>

\* A command dies, or one of its steps fails and it gives up.
DiffCrash ==
  /\ cmd.pc # "idle"
  /\ LET committed == cmd.pc \in {"state", "print"} /\ cmd.verb = "advance"
     IN  missed' = IF committed THEN missed \cup KeysOf(cmd.events) ELSE missed
  /\ IF cmd.pc = "state" /\ cmd.verb = "advance" /\ Changed(cmd.events)
     THEN torn' = torn \cup {state} /\ stamped' = [stamped EXCEPT ![state] = {}]
     ELSE UNCHANGED <<torn, stamped>>
  /\ cmd' = NoCmd
  /\ UNCHANGED <<result, state, snap, replica, peeked>>

DiffNext ==
  \/ SourceChanges \/ DiffCreate \/ DiffBegin \/ DiffRun \/ SaveSnapshot \/ SaveState \/ PrintChanges
  \/ RemoveState \/ RemoveSnapshot \/ DiffCrash

DiffSpec == DiffInit /\ [][DiffNext]_diffVars

-----------------------------------------------------------------------------
(* Correctness.                                                            *)

Agree(a, b, keys) ==
  \A k \in keys : (k \in DOMAIN a <=> k \in DOMAIN b) /\ (k \in DOMAIN a => a[k] = b[k])

\* A caller that applies what the commands print holds exactly the committed snapshot: no
\* change is lost between two advances and none is made up, whatever the source did between.
\* Only the changes of a command that died after it replaced the snapshot, and before it
\* printed, are lost, until their rows change again: the next advance does not see them.
InSync == cmd.pc = "idle" /\ state # Absent /\ ~peeked => Agree(replica, LoadSnapshot, Keys \ missed)

\* A state file never stands without its snapshot, not even after a crash in create or rm:
\* the whole corpus would be reported as inserted.
SnapshotFirst == state # Absent => snap # Absent

\* No version names two snapshots, so that the committed id is a safe compare-and-swap handle
\* (the comment of committedID), but for a version at which a commit died between its files.
VersionNamesOne == cmd.pc = "idle" /\ state # Absent /\ state \notin torn => stamped[state] = {LoadSnapshot}

\* Two versions name one snapshot only if it has a row whose document comes in other bytes
\* than those it is saved in: such a row is an update at every advance.
VersionsDiffer ==
  \A v \in 1..MaxVersion : \A s \in stamped[v] \cap stamped[v - 1] :
    \E k \in DOMAIN s, d \in Docs : d # s[k] /\ Stored[d] = s[k]

VersionTellsSnapshot == VersionNamesOne /\ VersionsDiffer

\* The caller's replica, the snapshot and the version that names it stay one,
\* through crashes anywhere in create, advance and rm.
DiffExact == InSync /\ SnapshotFirst /\ VersionTellsSnapshot
=============================================================================
