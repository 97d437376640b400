---------------------------- MODULE CursorProofs ----------------------------
(***************************************************************************)
(* Proofs about the named cursors: what a diff-mode caller can rely on, and *)
(* what an append-mode commit never does.                                   *)
(***************************************************************************)
EXTENDS MCCursors, WellFoundedInduction, FiniteSetTheorems, TLAPS

-----------------------------------------------------------------------------
(* Diff mode: snapshots and their differences.                             *)

IsSnap(f) == f = [k \in DOMAIN f |-> f[k]]

\* A result as it is keyed, and a snapshot in the form that it is saved in.
Raw(f) == IsSnap(f) /\ \A k \in DOMAIN f : f[k] \in Docs

Saved(f) == Raw(f) /\ \A k \in DOMAIN f : Stored[f[k]] = f[k]

\* What the differences between two snapshots say of a key that none of them names.
LEMMA Unnamed ==
  ASSUME NEW prior, NEW current, NEW k, k \notin KeysOf(DiffSnapshot(prior, current))
  PROVE  /\ k \in DOMAIN prior <=> k \in DOMAIN current
         /\ k \in DOMAIN prior => prior[k] = current[k]
<1> DEFINE events == DiffSnapshot(prior, current)
<1>1. ASSUME k \in DOMAIN current \ DOMAIN prior PROVE FALSE
 <2> DEFINE e == [op |-> "insert", key |-> k, after |-> current[k]]
 <2>1. e \in events /\ e.key = k BY <1>1 DEF DiffSnapshot, Inserts
 <2> QED BY <2>1 DEF KeysOf
<1>2. ASSUME k \in DOMAIN prior \ DOMAIN current PROVE FALSE
 <2> DEFINE e == [op |-> "delete", key |-> k, before |-> prior[k]]
 <2>1. e \in events /\ e.key = k BY <1>2 DEF DiffSnapshot, Deletes
 <2> QED BY <2>1 DEF KeysOf
<1>3. ASSUME k \in DOMAIN prior \cap DOMAIN current, prior[k] # current[k] PROVE FALSE
 <2> DEFINE e == [op |-> "update", key |-> k, before |-> prior[k], after |-> current[k]]
 <2>1. e \in events /\ e.key = k BY <1>3 DEF DiffSnapshot, Updates
 <2> QED BY <2>1 DEF KeysOf
<1> QED BY <1>1, <1>2, <1>3

\* No differences: what is saved is what is there.
LEMMA NoDifference ==
  ASSUME NEW prior, NEW current, Saved(prior), DiffSnapshot(prior, current) = {}
  PROVE  Marshal(current) = prior
<1>1. \A k : k \notin KeysOf(DiffSnapshot(prior, current)) BY DEF KeysOf
<1>2. DOMAIN prior = DOMAIN current BY <1>1, Unnamed
<1>3. \A k \in DOMAIN prior : current[k] = prior[k] BY <1>1, Unnamed
<1>4. Marshal(current) = [k \in DOMAIN prior |-> prior[k]] BY <1>2, <1>3 DEF Marshal, Saved
<1> QED BY <1>4 DEF Saved, Raw, IsSnap

\* Differences between a snapshot and a result that is saved as that snapshot: a row's bytes
\* are not those that it is saved in.
LEMMA OnlyBytes ==
  ASSUME NEW current, Raw(current), NEW prior, prior = Marshal(current), DiffSnapshot(prior, current) # {}
  PROVE  \E k \in DOMAIN prior, d \in Docs : d # prior[k] /\ Stored[d] = prior[k]
<1>1. DOMAIN prior = DOMAIN current /\ \A k \in DOMAIN prior : prior[k] = Stored[current[k]] BY DEF Marshal
<1>2. Inserts(prior, current) = {} /\ Deletes(prior, current) = {} BY <1>1 DEF Inserts, Deletes
<1>3. PICK k \in DOMAIN prior : prior[k] # current[k] BY <1>1, <1>2 DEF DiffSnapshot, Updates
<1> QED BY <1>1, <1>3 DEF Raw

\* A copy after the differences were applied to it.
LEMMA Applied ==
  ASSUME NEW prior, NEW current, NEW copy, NEW k
  PROVE  LET events == DiffSnapshot(prior, current)
             new == Apply(events, copy)
         IN  /\ k \notin KeysOf(events) => (k \in DOMAIN new <=> k \in DOMAIN copy)
             /\ k \notin KeysOf(events) /\ k \in DOMAIN copy => new[k] = copy[k]
             /\ k \in KeysOf(events) => (k \in DOMAIN new <=> k \in DOMAIN current)
             /\ k \in KeysOf(events) /\ k \in DOMAIN current => new[k] = Stored[current[k]]
<1> DEFINE events == DiffSnapshot(prior, current)
           new == Apply(events, copy)
           gone == KeysOf({x \in events : x.op = "delete"})
           put == {e \in events : e.op # "delete"}
           putKeys == KeysOf(put)
<1>1. \A e \in events :
        \/ e \in Inserts(prior, current)
        \/ e \in Deletes(prior, current)
        \/ e \in Updates(prior, current) BY DEF DiffSnapshot
<1>2. \A e \in Inserts(prior, current) :
        e.op = "insert" /\ e.key \in DOMAIN current /\ e.after = current[e.key] BY DEF Inserts
<1>3. \A e \in Deletes(prior, current) : e.op = "delete" /\ e.key \notin DOMAIN current BY DEF Deletes
<1>4. \A e \in Updates(prior, current) :
        e.op = "update" /\ e.key \in DOMAIN current /\ e.after = current[e.key] BY DEF Updates
<1>5. \A e \in put : e.key \in DOMAIN current /\ e.after = current[e.key] BY <1>1, <1>2, <1>3, <1>4
<1>6. \A e \in events \ put : e.key \notin DOMAIN current BY <1>1, <1>2, <1>3, <1>4
<1>7. KeysOf(events) = putKeys \cup gone BY DEF KeysOf
<1>8. \A x \in gone : x \notin DOMAIN current BY <1>6 DEF KeysOf
<1>9. \A x \in putKeys : x \in DOMAIN current BY <1>5 DEF KeysOf
<1>10. new = [x \in (DOMAIN copy \cup putKeys) \ gone |->
                IF x \in putKeys THEN Stored[(CHOOSE e \in put : e.key = x).after] ELSE copy[x]]
  BY DEF Apply
<1>11. ASSUME k \in putKeys PROVE (CHOOSE e \in put : e.key = k).after = current[k]
 <2>1. \E e \in put : e.key = k BY <1>11 DEF KeysOf
 <2> HIDE DEF put
 <2> QED BY <2>1, <1>5
<1> HIDE DEF events, gone, put, putKeys, new
<1>12. k \in KeysOf(events) => (k \in putKeys <=> k \in DOMAIN current) /\ (k \in gone <=> k \notin DOMAIN current)
  BY <1>7, <1>8, <1>9
<1>13. k \notin KeysOf(events) => k \notin putKeys /\ k \notin gone BY <1>7
<1>14. k \in putKeys /\ k \notin gone => new[k] = Stored[current[k]] BY <1>10, <1>11
<1>15. DOMAIN new = (DOMAIN copy \cup putKeys) \ gone BY <1>10
<1>16. k \notin KeysOf(events) /\ k \in DOMAIN copy => new[k] = copy[k] BY <1>10, <1>13
<1> QED BY <1>12, <1>13, <1>14, <1>15, <1>16 DEF events, new

\* A caller that holds the old snapshot, but for some keys, and does not see the differences,
\* holds the new one but for these keys and for those that the differences name.
LEMMA Unprinted ==
  ASSUME NEW prior, NEW current, NEW copy, NEW keys, Saved(prior), Agree(copy, prior, Keys \ keys)
  PROVE  Agree(copy, Marshal(current), Keys \ (keys \cup KeysOf(DiffSnapshot(prior, current))))
<1> SUFFICES ASSUME NEW k \in Keys \ (keys \cup KeysOf(DiffSnapshot(prior, current)))
             PROVE  /\ k \in DOMAIN copy <=> k \in DOMAIN Marshal(current)
                    /\ k \in DOMAIN copy => copy[k] = Marshal(current)[k] BY DEF Agree
<1>1. /\ k \in DOMAIN copy <=> k \in DOMAIN prior
      /\ k \in DOMAIN copy => copy[k] = prior[k] BY DEF Agree
<1>2. /\ k \in DOMAIN prior <=> k \in DOMAIN current
      /\ k \in DOMAIN prior => prior[k] = current[k] BY Unnamed
<1>3. k \in DOMAIN prior => Stored[prior[k]] = prior[k] BY DEF Saved
<1> QED BY <1>1, <1>2, <1>3 DEF Marshal

\* One that applies them to its copy holds the new one for the keys that they name, too.
LEMMA ApplyDifference ==
  ASSUME NEW prior, NEW current, NEW copy, NEW keys, Saved(prior), Agree(copy, prior, Keys \ keys)
  PROVE  LET events == DiffSnapshot(prior, current)
         IN  Agree(Apply(events, copy), Marshal(current), Keys \ (keys \ KeysOf(events)))
<1> DEFINE events == DiffSnapshot(prior, current)
           new == Apply(events, copy)
<1> HIDE DEF events, new
<1> SUFFICES ASSUME NEW k \in Keys \ (keys \ KeysOf(events))
             PROVE  /\ k \in DOMAIN new <=> k \in DOMAIN Marshal(current)
                    /\ k \in DOMAIN new => new[k] = Marshal(current)[k] BY DEF Agree, events, new
<1>1. CASE k \in KeysOf(events)
 <2>1. /\ k \in DOMAIN new <=> k \in DOMAIN current
       /\ k \in DOMAIN current => new[k] = Stored[current[k]] BY <1>1, Applied DEF events, new
 <2> QED BY <2>1 DEF Marshal
<1>2. CASE k \notin KeysOf(events)
 <2>1. k \in Keys \ (keys \cup KeysOf(events)) BY <1>2
 <2>2. /\ k \in DOMAIN copy <=> k \in DOMAIN Marshal(current)
       /\ k \in DOMAIN copy => copy[k] = Marshal(current)[k] BY <2>1, Unprinted DEF Agree, events
 <2>3. /\ k \in DOMAIN new <=> k \in DOMAIN copy
       /\ k \in DOMAIN copy => new[k] = copy[k] BY <1>2, Applied DEF events, new
 <2> QED BY <2>2, <2>3
<1> QED BY <1>1, <1>2

-----------------------------------------------------------------------------
(* Diff mode: the commands.                                                *)

\* The record of a command that is to save, with all its fields.
Saving ==
  cmd = [pc |-> cmd.pc, verb |-> cmd.verb, version |-> cmd.version, events |-> cmd.events,
         current |-> cmd.current]

\* What a running command knows is still so: no other command runs beside it.
CommandInv ==
  /\ cmd.pc \in {"idle", "run", "snapshot", "state", "print", "unlink"}
  /\ cmd.pc = "run" =>
       /\ cmd.verb \in {"peek", "advance"} /\ state # Absent
       /\ cmd.version = state /\ cmd.prior = LoadSnapshot
  /\ cmd.pc \in {"snapshot", "state", "print"} =>
       /\ Saving /\ cmd.verb \in {"create", "advance"}
       /\ Raw(cmd.current) /\ Marshal(cmd.current) # Absent
       /\ cmd.version \in 0..MaxVersion
  /\ cmd.pc \in {"snapshot", "state"} =>
       /\ cmd.verb = "create" => state = Absent
       /\ cmd.verb = "advance" => state # Absent
  /\ cmd.pc \in {"state", "print"} => snap = Marshal(cmd.current)
  /\ cmd.pc = "print" => state = cmd.version
  /\ cmd.pc = "unlink" => state = Absent

\* A state file has a version within the bound and stands beside a snapshot.
FilesInv ==
  /\ result \in Results
  /\ state # Absent => state \in 0..MaxVersion /\ snap # Absent
  /\ snap # Absent => Saved(snap)

\* An advance that has computed its changes computed them against prior.
Against(prior) == Saved(prior) /\ cmd.events = DiffSnapshot(prior, cmd.current)

Bumped == cmd.version = IF cmd.events # {} THEN state + 1 ELSE state

Advancing(pc) == cmd.pc = pc /\ cmd.verb = "advance"

\* stamped[v] is the one snapshot that version v names; later versions name none yet.
StampInv ==
  /\ DOMAIN stamped = 0..MaxVersion
  /\ state = Absent => torn = {} /\ \A v \in 0..MaxVersion : stamped[v] = {}
  /\ state # Absent => \A v \in 0..MaxVersion : v > state => stamped[v] = {} /\ v \notin torn
  /\ \A v \in torn : v \in 0..MaxVersion /\ stamped[v] = {}
  /\ state # Absent /\ ~Advancing("state") /\ state \notin torn => stamped[state] = {LoadSnapshot}
  /\ Advancing("snapshot") => Against(LoadSnapshot) /\ Bumped
  /\ Advancing("state") => \E prior : Against(prior) /\ Bumped /\ (state \notin torn => stamped[state] = {prior})
  /\ VersionsDiffer

\* A caller that does not run advance --quiet has applied what was committed and printed.
ReplicaInv ==
  /\ state # Absent /\ ~Advancing("state") /\ ~Advancing("print") => Agree(replica, LoadSnapshot, Keys \ missed)
  /\ Advancing("state") \/ Advancing("print") => \E prior : Against(prior) /\ Agree(replica, prior, Keys \ missed)

\* A set of numbers has a least element.
LEMMA LeastNat ==
  ASSUME NEW T \in SUBSET Nat, T # {}
  PROVE  \E x \in T : \A y \in T : x <= y
<1> DEFINE R == OpToRel(<, Nat)
<1>1. IsWellFoundedOn(R, Nat) BY NatLessThanWellFounded
<1> HIDE DEF R
<1>2. PICK x \in T : \A y \in T : ~(<<y, x>> \in R) BY <1>1, WFMin
<1>3. \A y \in T : <<y, x>> \in R <=> y < x BY DEF R, OpToRel
<1>4. \A y \in T : ~(y < x) /\ y \in Nat /\ x \in Nat BY <1>2, <1>3
<1>5. \A y \in T : x <= y BY <1>4
<1> QED BY <1>5

\* Rows are a sequence, so that those of one key have a last one.
LEMMA LastOfRows ==
  ASSUME NEW r \in Seq(Rows), NEW k, RowsOf(r, k) # {}
  PROVE  LastRow(r, k) \in RowsOf(r, k)
<1> DEFINE S == RowsOf(r, k)
           T == {Len(r) - x : x \in S}
<1>1. Len(r) \in Nat /\ \A x \in S : x \in 1..Len(r) BY DEF RowsOf
<1>2. \A x \in S : Len(r) - x \in Nat BY <1>1
<1>3. T \in SUBSET Nat /\ T # {} BY <1>2
<1>4. PICK m \in T : \A y \in T : m <= y BY <1>3, LeastNat
<1>5. PICK x \in S : m = Len(r) - x OBVIOUS
<1>6. ASSUME NEW y \in S PROVE y <= x
 <2>1. Len(r) - x <= Len(r) - y BY <1>4, <1>5
 <2>2. x \in 1..Len(r) /\ y \in 1..Len(r) BY <1>1
 <2> QED BY ONLY <1>1, <2>1, <2>2
<1> QED BY <1>5, <1>6 DEF LastRow

\* Results are keyed, and saved.
LEMMA Snapshots ==
  /\ Saved(EmptySnap) /\ Raw(EmptySnap) /\ Marshal(EmptySnap) # Absent
  /\ \A r \in Results : Raw(SnapshotFromResults(r)) /\ Marshal(SnapshotFromResults(r)) # Absent
  /\ \A f : Raw(f) => Saved(Marshal(f))
<1>1. Saved(EmptySnap) /\ Raw(EmptySnap) BY DEF Saved, Raw, IsSnap, EmptySnap
<1>2. Marshal(EmptySnap) = EmptySnap BY DEF Marshal, EmptySnap
<1>3. ASSUME NEW r \in Results PROVE Raw(SnapshotFromResults(r))
 <2> DEFINE f == SnapshotFromResults(r)
 <2>1. r \in Seq(Rows) BY DiffAssumption
 <2>2. f = [k \in {x \in Keys : RowsOf(r, x) # {}} |-> r[LastRow(r, k)].doc] BY DEF SnapshotFromResults
 <2>3. ASSUME NEW k \in DOMAIN f PROVE f[k] \in Docs
  <3>1. RowsOf(r, k) # {} BY <2>2, <2>3
  <3>2. LastRow(r, k) \in RowsOf(r, k) BY <2>1, <3>1, LastOfRows
  <3>3. LastRow(r, k) \in 1..Len(r) BY <2>1, <3>2 DEF RowsOf
  <3>4. r[LastRow(r, k)] \in Rows BY <2>1, <3>3
  <3> QED BY <2>2, <2>3, <3>4 DEF Rows
 <2> QED BY <2>2, <2>3 DEF Raw, IsSnap
<1>4. ASSUME NEW f, Raw(f) PROVE Saved(Marshal(f))
 <2>1. \A k \in DOMAIN f : Stored[f[k]] \in Docs /\ Stored[Stored[f[k]]] = Stored[f[k]]
   BY <1>4, DiffAssumption DEF Raw
 <2> QED BY <2>1 DEF Marshal, Saved, Raw, IsSnap
<1> QED BY <1>1, <1>2, <1>3, <1>4, AbsentAssumption

\* Through crashes at any point, in create, advance and rm, a command never
\* works on files that another one has changed.
LEMMA Commands == DiffSpec => [](CommandInv /\ FilesInv)
<1> USE DiffAssumption, AbsentAssumption
<1>1. DiffInit => CommandInv /\ FilesInv BY DEF DiffInit, NoCmd, CommandInv, FilesInv
<1>2. CommandInv /\ FilesInv /\ [DiffNext]_diffVars => (CommandInv /\ FilesInv)'
 <2> SUFFICES ASSUME CommandInv, FilesInv, [DiffNext]_diffVars PROVE CommandInv' /\ FilesInv' OBVIOUS
 <2> USE DEF CommandInv, FilesInv
 <2>1. CASE UNCHANGED diffVars BY <2>1 DEF diffVars, Saving, LoadSnapshot
 <2>2. CASE SourceChanges BY <2>2 DEF SourceChanges, Saving, LoadSnapshot
 <2>3. CASE DiffCreate
  <3>1. PICK start \in BOOLEAN :
          cmd' = [pc |-> "snapshot", verb |-> "create", version |-> 0, events |-> {},
                  current |-> IF start THEN EmptySnap ELSE SnapshotFromResults(result)] BY <2>3 DEF DiffCreate
  <3>2. Raw(cmd'.current) /\ Marshal(cmd'.current) # Absent BY <3>1, Snapshots
  <3> QED BY <2>3, <3>1, <3>2 DEF DiffCreate, Saving
 <2>4. CASE DiffBegin
  <3>1. PICK verb \in {"peek", "advance"} :
          cmd' = [pc |-> "run", verb |-> verb, version |-> state, prior |-> LoadSnapshot] BY <2>4 DEF DiffBegin
  <3> QED BY <2>4, <3>1 DEF DiffBegin, LoadSnapshot
 <2>5. CASE DiffRun
  <3>1. CASE cmd.verb = "peek" BY <2>5, <3>1 DEF DiffRun, NoCmd
  <3>2. CASE cmd.verb = "advance"
   <4> DEFINE current == SnapshotFromResults(result)
              events == DiffSnapshot(cmd.prior, current)
   <4>1. /\ cmd' = [pc |-> "snapshot", verb |-> "advance", current |-> current, events |-> events,
                    version |-> IF Changed(events) THEN cmd.version + 1 ELSE cmd.version]
         /\ UNCHANGED <<result, state, snap>> BY <2>5, <3>2 DEF DiffRun
   <4>2. Raw(current) /\ Marshal(current) # Absent BY Snapshots
   <4> HIDE DEF current, events
   <4>3. cmd'.version \in 0..MaxVersion BY <2>5, <3>2, <4>1 DEF DiffRun
   <4> QED BY <2>5, <4>1, <4>2, <4>3 DEF DiffRun, Saving
  <3> QED BY <2>5, <3>1, <3>2 DEF DiffRun
 <2>6. CASE SaveSnapshot
  <3>1. /\ cmd' = [pc |-> "state", verb |-> cmd.verb, version |-> cmd.version, events |-> cmd.events,
                   current |-> cmd.current]
        /\ snap' = Marshal(cmd.current) /\ UNCHANGED <<result, state>> BY <2>6 DEF SaveSnapshot, Saving
  <3>2. Saved(snap') BY <2>6, <3>1, Snapshots DEF SaveSnapshot
  <3> QED BY <2>6, <3>1, <3>2 DEF SaveSnapshot, Saving
 <2>7. CASE SaveState
  <3>1. /\ cmd' = [pc |-> "print", verb |-> cmd.verb, version |-> cmd.version, events |-> cmd.events,
                   current |-> cmd.current]
        /\ state' = cmd.version /\ UNCHANGED <<result, snap>> BY <2>7 DEF SaveState, Saving
  <3> QED BY <2>7, <3>1 DEF SaveState, Saving
 <2>8. CASE PrintChanges BY <2>8 DEF PrintChanges, NoCmd
 <2>9. CASE RemoveState BY <2>9 DEF RemoveState
 <2>10. CASE RemoveSnapshot BY <2>10 DEF RemoveSnapshot, NoCmd
 <2>11. CASE DiffCrash BY <2>11 DEF DiffCrash, NoCmd
 <2> QED BY <2>1, <2>2, <2>3, <2>4, <2>5, <2>6, <2>7, <2>8, <2>9, <2>10, <2>11 DEF DiffNext
<1> QED BY <1>1, <1>2, PTL DEF DiffSpec

\* Whatever the mode and wherever a command dies, there is no state file
\* without a snapshot beside it: Remove takes the state first, SaveSnapshot
\* comes before SaveState.
THEOREM SnapshotBeforeState == DiffSpec => []SnapshotFirst
<1>1. FilesInv => SnapshotFirst BY DEF FilesInv, SnapshotFirst
<1> QED BY <1>1, Commands, PTL

\* How an advance that is about to save came to what it saves.
LEMMA Computed ==
  ASSUME CommandInv, FilesInv, DiffRun, cmd.verb = "advance"
  PROVE  /\ cmd'.pc = "snapshot" /\ cmd'.verb = "advance"
         /\ UNCHANGED <<state, snap, stamped, torn, replica, missed>>
         /\ Against(LoadSnapshot)' /\ Bumped'
<1> DEFINE current == SnapshotFromResults(result)
           events == DiffSnapshot(cmd.prior, current)
<1>1. /\ cmd' = [pc |-> "snapshot", verb |-> "advance", current |-> current, events |-> events,
                 version |-> IF Changed(events) THEN cmd.version + 1 ELSE cmd.version]
      /\ UNCHANGED <<state, snap, stamped, torn, replica, missed>> BY DEF DiffRun
<1>2. cmd.prior = LoadSnapshot /\ cmd.version = state /\ Saved(LoadSnapshot)
  BY DEF DiffRun, CommandInv, FilesInv, LoadSnapshot
<1> HIDE DEF current
<1>3. LoadSnapshot' = LoadSnapshot BY <1>1 DEF LoadSnapshot
<1>4. Against(LoadSnapshot)' BY <1>1, <1>2, <1>3 DEF Against
<1>5. Bumped' BY <1>1, <1>2 DEF Bumped, Changed
<1> QED BY <1>1, <1>4, <1>5

\* A version names one snapshot, in both modes of use, unless a commit died at it.
LEMMA Stamps == DiffSpec => []StampInv
<1> USE DiffAssumption
<1>1. DiffInit => StampInv BY DEF DiffInit, StampInv, NoCmd, Advancing, VersionsDiffer
<1>2. CommandInv /\ FilesInv /\ StampInv /\ [DiffNext]_diffVars => StampInv'
 <2> SUFFICES ASSUME CommandInv, FilesInv, StampInv, [DiffNext]_diffVars PROVE StampInv' OBVIOUS
 <2>1. CASE UNCHANGED diffVars
   BY <2>1 DEF diffVars, StampInv, LoadSnapshot, Advancing, Against, Bumped, VersionsDiffer
 <2>2. CASE SourceChanges
   BY <2>2 DEF SourceChanges, StampInv, LoadSnapshot, Advancing, Against, Bumped, VersionsDiffer
 <2>3. CASE DiffCreate BY <2>3 DEF DiffCreate, StampInv, Advancing, VersionsDiffer
 <2>4. CASE DiffBegin
  <3>1. cmd'.pc = "run" /\ cmd.pc = "idle" /\ UNCHANGED <<state, snap, stamped, torn>> BY <2>4 DEF DiffBegin
  <3> QED BY <3>1 DEF StampInv, LoadSnapshot, Advancing, VersionsDiffer
 <2>5. CASE DiffRun
  <3>1. CASE cmd.verb = "peek"
   <4>1. cmd'.pc = "idle" /\ cmd.pc = "run" /\ UNCHANGED <<state, snap, stamped, torn>>
     BY <2>5, <3>1 DEF DiffRun, NoCmd
   <4> QED BY <4>1 DEF StampInv, LoadSnapshot, Advancing, VersionsDiffer
  <3>2. CASE cmd.verb = "advance"
   <4>1. cmd.pc = "run" BY <2>5 DEF DiffRun
   <4>2. LoadSnapshot' = LoadSnapshot BY <2>5, <3>2, Computed DEF LoadSnapshot
   <4> QED BY <2>5, <3>2, <4>1, <4>2, Computed DEF StampInv, Advancing, VersionsDiffer
  <3> QED BY <2>5, <3>1, <3>2 DEF DiffRun
 <2>6. CASE SaveSnapshot
  <3>1. /\ cmd' = [pc |-> "state", verb |-> cmd.verb, version |-> cmd.version, events |-> cmd.events,
                   current |-> cmd.current]
        /\ cmd.pc = "snapshot" /\ UNCHANGED <<state, stamped, torn>>
    BY <2>6 DEF SaveSnapshot, CommandInv, Saving
  <3>2. CASE cmd.verb = "advance"
   <4> DEFINE prior == LoadSnapshot
   <4>1. /\ Against(prior) /\ Bumped /\ state # Absent
         /\ state \notin torn => stamped[state] = {prior}
     BY <3>1, <3>2 DEF StampInv, Advancing, CommandInv
   <4> HIDE DEF prior
   <4>2. \E x : Against(x)' /\ Bumped' /\ (state' \notin torn' => stamped'[state'] = {x})
     BY <3>1, <4>1 DEF Against, Bumped
   <4> QED BY <3>1, <3>2, <4>1, <4>2 DEF StampInv, Advancing, VersionsDiffer, Against, Bumped
  <3>3. CASE cmd.verb = "create"
   <4>1. state = Absent BY <3>1, <3>3 DEF CommandInv
   <4> QED BY <3>1, <3>3, <4>1 DEF StampInv, Advancing, VersionsDiffer
  <3> QED BY <3>1, <3>2, <3>3 DEF CommandInv
 <2>7. CASE SaveState
  <3>1. /\ cmd'.pc = "print" /\ snap = Marshal(cmd.current) /\ snap' = snap /\ snap # Absent
        /\ state' = cmd.version /\ torn' = torn /\ cmd.version \in 0..MaxVersion
        /\ stamped' = IF cmd.version \in torn THEN stamped ELSE [stamped EXCEPT ![cmd.version] = @ \cup {snap}]
    BY <2>7 DEF SaveState, CommandInv, Saving
  <3>2. LoadSnapshot' = snap /\ ~Advancing("state")' /\ ~Advancing("snapshot")' /\ state' # Absent
    BY <3>1, AbsentAssumption DEF LoadSnapshot, Advancing
  <3>3. cmd.verb = "advance" => Advancing("state") BY <2>7 DEF SaveState, Advancing
  <3>4. CASE cmd.version \in torn
   <4>1. state # Absent /\ cmd.verb # "create" BY <2>7, <3>4 DEF SaveState, CommandInv, StampInv
   <4>2. Advancing("state") BY <2>7, <3>3, <4>1 DEF SaveState, CommandInv
   <4>3. cmd.version <= state BY <3>1, <3>4, <4>1 DEF StampInv, FilesInv
   <4>4. cmd.version = state
    <5>1. Bumped /\ state \in 0..MaxVersion BY <4>1, <4>2 DEF StampInv, FilesInv
    <5> QED BY <4>3, <5>1 DEF Bumped
   <4> QED BY <3>1, <3>2, <3>4, <4>1, <4>4 DEF StampInv, VersionsDiffer
  <3>5. CASE cmd.version \notin torn
   <4>1. stamped' = [stamped EXCEPT ![cmd.version] = @ \cup {snap}] BY <3>1, <3>5
   <4>2. /\ DOMAIN stamped' = 0..MaxVersion /\ stamped'[cmd.version] = stamped[cmd.version] \cup {snap}
         /\ \A v \in 0..MaxVersion : v # cmd.version => stamped'[v] = stamped[v]
     BY <3>1, <4>1 DEF StampInv
   <4>3. \A v \in torn' : v \in 0..MaxVersion /\ stamped'[v] = {} BY <3>1, <3>5, <4>2 DEF StampInv
   \* The snapshot is the only one that its version names, and differs from the one before it.
   <4>4. SUFFICES /\ stamped[cmd.version] \subseteq {snap}
                  /\ \A v \in 0..MaxVersion : v > cmd.version => stamped[v] = {} /\ v \notin torn
                  /\ \/ stamped[cmd.version] = {snap} \/ cmd.version = 0
                     \/ cmd.version - 1 \in 0..MaxVersion
                        /\ \A s \in stamped[cmd.version - 1] : s = snap =>
                             \E k \in DOMAIN s, d \in Docs : d # s[k] /\ Stored[d] = s[k]
    <5>1. VersionsDiffer'
     <6> SUFFICES ASSUME NEW v \in 1..MaxVersion, NEW s \in stamped'[v] \cap stamped'[v - 1]
                  PROVE  \E k \in DOMAIN s, d \in Docs : d # s[k] /\ Stored[d] = s[k] BY DEF VersionsDiffer
     <6>1. v \in 0..MaxVersion /\ v - 1 \in 0..MaxVersion OBVIOUS
     <6>2. CASE v = cmd.version
      <7>1. s = snap /\ s \in stamped[v - 1] /\ v # 0 BY <4>2, <4>4, <6>1, <6>2
      <7>2. CASE stamped[cmd.version] = {snap} BY <6>2, <7>1, <7>2 DEF StampInv, VersionsDiffer
      <7>3. CASE stamped[cmd.version] # {snap} BY <4>4, <6>2, <7>1, <7>3
      <7> QED BY <7>2, <7>3
     <6>3. CASE v - 1 = cmd.version
      <7>1. v > cmd.version BY <3>1, <6>3
      <7>2. stamped'[v] = {} BY <4>2, <4>4, <6>1, <7>1
      <7> QED BY <7>2
     <6>4. CASE v # cmd.version /\ v - 1 # cmd.version BY <4>2, <6>1, <6>4 DEF StampInv, VersionsDiffer
     <6> QED BY <6>2, <6>3, <6>4
    <5>2. stamped'[state'] = {LoadSnapshot'} BY <3>1, <3>2, <4>2, <4>4
    <5>3. \A v \in 0..MaxVersion : v > state' => stamped'[v] = {} /\ v \notin torn' BY <3>1, <4>2, <4>4
    <5> QED BY <3>2, <4>2, <4>3, <5>1, <5>2, <5>3 DEF StampInv
   <4>5. CASE cmd.verb = "create"
    <5>1. state = Absent BY <2>7, <4>5 DEF SaveState, CommandInv
    <5>2. cmd.version - 1 \in 0..MaxVersion \/ cmd.version = 0 BY <3>1
    <5> QED BY <3>1, <5>1, <5>2 DEF StampInv
   <4>6. CASE cmd.verb = "advance"
    <5>1. Advancing("state") /\ state # Absent BY <2>7, <3>3, <4>6 DEF SaveState, CommandInv
    <5>2. state \in 0..MaxVersion BY <5>1 DEF FilesInv
    <5>3. PICK prior : Against(prior) /\ Bumped /\ (state \notin torn => stamped[state] = {prior})
      BY <5>1 DEF StampInv
    <5>4. CASE cmd.events = {}
     <6>1. cmd.version = state BY <5>3, <5>4 DEF Bumped
     <6>2. snap = prior BY <3>1, <5>3, <5>4, NoDifference DEF Against
     <6>3. stamped[cmd.version] = {snap} BY <3>5, <5>3, <6>1, <6>2
     <6>4. \A v \in 0..MaxVersion : v > cmd.version => stamped[v] = {} /\ v \notin torn
       BY <5>1, <6>1 DEF StampInv
     <6> QED BY <6>3, <6>4
    <5>5. CASE cmd.events # {}
     <6>1. cmd.version = state + 1 BY <5>3, <5>5 DEF Bumped
     <6>2. stamped[cmd.version] = {} BY <3>1, <5>1, <5>2, <6>1 DEF StampInv
     <6>3. \A v \in 0..MaxVersion : v > cmd.version => stamped[v] = {} /\ v \notin torn
       BY <5>1, <5>2, <6>1 DEF StampInv
     <6>4. cmd.version - 1 = state /\ (state \in torn => stamped[state] = {}) BY <5>2, <6>1 DEF StampInv
     <6>5. ASSUME NEW s \in stamped[state], s = snap
           PROVE  \E k \in DOMAIN s, d \in Docs : d # s[k] /\ Stored[d] = s[k]
      <7>1. s = prior BY <5>3, <6>4, <6>5
      <7>2. Raw(cmd.current) BY <2>7 DEF SaveState, CommandInv
      <7>3. DiffSnapshot(s, cmd.current) # {} BY <5>3, <5>5, <7>1 DEF Against
      <7>4. s = Marshal(cmd.current) BY <3>1, <6>5
      <7> QED BY <7>2, <7>3, <7>4, OnlyBytes
     <6> QED BY <5>2, <6>2, <6>3, <6>4, <6>5
    <5> QED BY <5>4, <5>5
   <4> QED BY <2>7, <4>5, <4>6 DEF SaveState, CommandInv
  <3> QED BY <3>4, <3>5
 <2>8. CASE PrintChanges
  <3>1. cmd'.pc = "idle" /\ cmd.pc = "print" /\ UNCHANGED <<state, snap, stamped, torn>>
    BY <2>8 DEF PrintChanges, NoCmd
  <3> QED BY <3>1 DEF StampInv, LoadSnapshot, Advancing, VersionsDiffer
 <2>9. CASE RemoveState
  <3>1. /\ cmd'.pc = "unlink" /\ state' = Absent /\ torn' = {}
        /\ stamped' = [v \in 0..MaxVersion |-> {}] BY <2>9 DEF RemoveState
  <3> QED BY <3>1 DEF StampInv, Advancing, VersionsDiffer
 <2>10. CASE RemoveSnapshot
  <3>1. state = Absent /\ cmd'.pc = "idle" /\ UNCHANGED <<state, stamped, torn>>
    BY <2>10 DEF RemoveSnapshot, NoCmd, CommandInv
  <3> QED BY <3>1 DEF StampInv, Advancing, VersionsDiffer
 <2>11. CASE DiffCrash
  <3>1. cmd'.pc = "idle" /\ UNCHANGED <<state, snap>> BY <2>11 DEF DiffCrash, NoCmd
  <3>2. LoadSnapshot' = LoadSnapshot /\ ~Advancing("state")' /\ ~Advancing("snapshot")'
    BY <3>1 DEF LoadSnapshot, Advancing
  <3>3. CASE Advancing("state") /\ Changed(cmd.events)
   <4>1. torn' = torn \cup {state} /\ stamped' = [stamped EXCEPT ![state] = {}]
     BY <2>11, <3>3 DEF DiffCrash, Advancing
   <4>2. state # Absent /\ state \in 0..MaxVersion BY <3>3 DEF Advancing, CommandInv, FilesInv
   <4>3. /\ DOMAIN stamped' = 0..MaxVersion /\ stamped'[state] = {}
         /\ \A v \in 0..MaxVersion : stamped'[v] \subseteq stamped[v] BY <4>1, <4>2 DEF StampInv
   <4>4. VersionsDiffer'
    <5>1. \A v \in 1..MaxVersion : v \in 0..MaxVersion /\ v - 1 \in 0..MaxVersion OBVIOUS
    <5> QED BY <4>3, <5>1 DEF StampInv, VersionsDiffer
   <4>5. \A v \in torn' : v \in 0..MaxVersion /\ stamped'[v] = {} BY <4>1, <4>2, <4>3 DEF StampInv
   <4>6. \A v \in 0..MaxVersion : v > state => stamped'[v] = {} /\ v \notin torn'
     BY <4>1, <4>2, <4>3 DEF StampInv
   <4> QED BY <3>1, <3>2, <4>1, <4>2, <4>3, <4>4, <4>5, <4>6 DEF StampInv
  <3>4. CASE ~(Advancing("state") /\ Changed(cmd.events))
   <4>1. UNCHANGED <<torn, stamped>> BY <2>11, <3>4 DEF DiffCrash, Advancing
   <4>2. ASSUME Advancing("state"), state \notin torn PROVE stamped[state] = {LoadSnapshot}
    <5>1. PICK prior : Against(prior) /\ stamped[state] = {prior} BY <4>2 DEF StampInv
    <5>2. cmd.events = {} BY <3>4, <4>2 DEF Changed
    <5>3. snap = Marshal(cmd.current) /\ snap # Absent BY <4>2 DEF Advancing, CommandInv
    <5>4. snap = prior BY <5>1, <5>2, <5>3, NoDifference DEF Against
    <5> QED BY <5>1, <5>3, <5>4 DEF LoadSnapshot
   <4> QED BY <3>1, <3>2, <4>1, <4>2 DEF StampInv, VersionsDiffer
  <3> QED BY <3>3, <3>4
 <2> QED BY <2>1, <2>2, <2>3, <2>4, <2>5, <2>6, <2>7, <2>8, <2>9, <2>10, <2>11 DEF DiffNext
<1> QED BY <1>1, <1>2, Commands, PTL DEF DiffSpec

\* If the caller does not ask advance to be quiet, the changes that it applies
\* keep its copy equal to the committed snapshot, but for what was never printed.
LEMMA Replicas == ASSUME ~Quiet PROVE DiffSpec => []ReplicaInv
<1> USE DiffAssumption
<1>1. DiffInit => ReplicaInv BY DEF DiffInit, ReplicaInv, NoCmd, Advancing
<1>2. CommandInv /\ FilesInv /\ StampInv /\ ReplicaInv /\ [DiffNext]_diffVars => ReplicaInv'
 <2> SUFFICES ASSUME CommandInv, FilesInv, StampInv, ReplicaInv, [DiffNext]_diffVars PROVE ReplicaInv' OBVIOUS
 <2>1. CASE UNCHANGED diffVars BY <2>1 DEF diffVars, ReplicaInv, LoadSnapshot, Advancing, Against
 <2>2. CASE SourceChanges BY <2>2 DEF SourceChanges, ReplicaInv, LoadSnapshot, Advancing, Against
 <2>3. CASE DiffCreate BY <2>3 DEF DiffCreate, ReplicaInv, Advancing
 <2>4. CASE DiffBegin
  <3>1. cmd'.pc = "run" /\ cmd.pc = "idle" /\ UNCHANGED <<state, snap, replica, missed>> BY <2>4 DEF DiffBegin
  <3> QED BY <3>1 DEF ReplicaInv, LoadSnapshot, Advancing
 <2>5. CASE DiffRun
  <3>1. UNCHANGED <<state, snap, replica, missed>> /\ cmd'.pc \in {"idle", "snapshot"} /\ cmd.pc = "run"
    BY <2>5 DEF DiffRun, NoCmd
  <3> QED BY <3>1 DEF ReplicaInv, LoadSnapshot, Advancing
 <2>6. CASE SaveSnapshot
  <3>1. /\ cmd' = [pc |-> "state", verb |-> cmd.verb, version |-> cmd.version, events |-> cmd.events,
                   current |-> cmd.current]
        /\ cmd.pc = "snapshot" /\ UNCHANGED <<state, replica, missed>>
    BY <2>6 DEF SaveSnapshot, CommandInv, Saving
  <3>2. CASE cmd.verb = "advance"
   <4> DEFINE prior == LoadSnapshot
   <4>1. Against(prior) /\ state # Absent /\ Agree(replica, prior, Keys \ missed)
     BY <3>1, <3>2 DEF ReplicaInv, StampInv, Advancing, CommandInv
   <4> HIDE DEF prior
   <4>2. \E x : Against(x)' /\ Agree(replica', x, Keys \ missed') BY <3>1, <4>1 DEF Against
   <4> QED BY <3>1, <3>2, <4>2 DEF ReplicaInv, Advancing, Against
  <3>3. CASE cmd.verb = "create"
   <4>1. state = Absent BY <3>1, <3>3 DEF CommandInv
   <4> QED BY <3>1, <3>3, <4>1 DEF ReplicaInv, Advancing
  <3> QED BY <3>1, <3>2, <3>3 DEF CommandInv
 <2>7. CASE SaveState
  <3>1. /\ cmd' = [pc |-> "print", verb |-> cmd.verb, version |-> cmd.version, events |-> cmd.events,
                   current |-> cmd.current]
        /\ cmd.pc = "state" /\ snap' = snap /\ snap # Absent /\ missed' = missed
    BY <2>7, Snapshots DEF SaveState, CommandInv, Saving
  <3>2. CASE cmd.verb = "create"
   <4>1. replica' = LoadSnapshot' BY <2>7, <3>1, <3>2 DEF SaveState, LoadSnapshot
   <4>2. Agree(replica, LoadSnapshot, Keys \ missed)' BY <4>1 DEF Agree
   <4> QED BY <3>1, <3>2, <4>2 DEF ReplicaInv, Advancing
  <3>3. CASE cmd.verb = "advance"
   <4>1. Advancing("state") /\ replica' = replica BY <2>7, <3>1, <3>3 DEF SaveState, Advancing
   <4>2. PICK prior : Against(prior) /\ Agree(replica, prior, Keys \ missed) BY <4>1 DEF ReplicaInv
   <4>3. \E x : Against(x)' /\ Agree(replica', x, Keys \ missed') BY <3>1, <4>1, <4>2 DEF Against
   <4> QED BY <3>1, <3>3, <4>3 DEF ReplicaInv, Advancing, Against
  <3> QED BY <3>1, <3>2, <3>3 DEF CommandInv
 <2>8. CASE PrintChanges
  <3>1. cmd'.pc = "idle" /\ cmd.pc = "print" /\ UNCHANGED <<state, snap>> BY <2>8 DEF PrintChanges, NoCmd
  <3>2. LoadSnapshot = Marshal(cmd.current) /\ LoadSnapshot' = LoadSnapshot
    BY <3>1 DEF LoadSnapshot, CommandInv
  <3>3. CASE cmd.verb = "create"
   <4>1. UNCHANGED <<replica, missed>> BY <2>8, <3>3 DEF PrintChanges
   <4> QED BY <3>1, <3>2, <3>3, <4>1 DEF ReplicaInv, Advancing
  <3>4. CASE cmd.verb = "advance"
   <4>1. PICK prior : Against(prior) /\ Agree(replica, prior, Keys \ missed)
     BY <3>1, <3>4 DEF ReplicaInv, Advancing
   <4>2. replica' = Apply(cmd.events, replica) /\ missed' = missed \ KeysOf(cmd.events)
     BY <2>8, <3>4 DEF PrintChanges
   <4>3. Agree(Apply(cmd.events, replica), Marshal(cmd.current), Keys \ (missed \ KeysOf(cmd.events)))
     BY <4>1, ApplyDifference DEF Against
   <4> QED BY <3>1, <3>2, <4>2, <4>3 DEF ReplicaInv, Advancing
  <3> QED BY <3>1, <3>3, <3>4 DEF CommandInv
 <2>9. CASE RemoveState BY <2>9 DEF RemoveState, ReplicaInv, Advancing
 <2>10. CASE RemoveSnapshot BY <2>10 DEF RemoveSnapshot, NoCmd, ReplicaInv, Advancing, CommandInv
 <2>11. CASE DiffCrash
  <3>1. cmd'.pc = "idle" /\ UNCHANGED <<state, snap, replica>> BY <2>11 DEF DiffCrash, NoCmd
  <3>2. LoadSnapshot' = LoadSnapshot BY <3>1 DEF LoadSnapshot
  <3>3. CASE Advancing("state") \/ Advancing("print")
   <4>1. PICK prior : Against(prior) /\ Agree(replica, prior, Keys \ missed) BY <3>3 DEF ReplicaInv
   <4>2. missed' = missed \cup KeysOf(cmd.events) BY <2>11, <3>3 DEF DiffCrash, Advancing
   <4>3. LoadSnapshot = Marshal(cmd.current) BY <3>3 DEF Advancing, LoadSnapshot, CommandInv
   <4>4. Agree(replica, Marshal(cmd.current), Keys \ (missed \cup KeysOf(cmd.events)))
     BY <4>1, Unprinted DEF Against
   <4> QED BY <3>1, <3>2, <4>2, <4>3, <4>4 DEF ReplicaInv, Advancing
  <3>4. CASE ~Advancing("state") /\ ~Advancing("print")
   <4>1. missed' = missed BY <2>11, <3>4 DEF DiffCrash, Advancing
   <4> QED BY <3>1, <3>2, <3>4, <4>1 DEF ReplicaInv, Advancing
  <3> QED BY <3>3, <3>4
 <2> QED BY <2>1, <2>2, <2>3, <2>4, <2>5, <2>6, <2>7, <2>8, <2>9, <2>10, <2>11 DEF DiffNext
<1> QED BY <1>1, <1>2, Commands, Stamps, PTL DEF DiffSpec

\* The committed id is a safe compare-and-swap handle in both modes of use: a
\* version names one snapshot, except one at which a commit died between its two
\* files, and two successive versions name different snapshots, except when a row
\* comes in other bytes than those it is saved in.
THEOREM VersionNamesSnapshot == DiffSpec => []VersionTellsSnapshot
<1>1. StampInv => VersionTellsSnapshot
  BY DEF StampInv, VersionTellsSnapshot, VersionNamesOne, Advancing
<1> QED BY <1>1, Stamps, PTL

\* For any rows, keys, results, forms that documents are saved in and number of
\* versions, and through crashes anywhere in create, advance and rm: a caller that
\* runs plain advances holds exactly the committed snapshot, but for the rows whose
\* change a command that died did not print; beside every state file stands its
\* snapshot; and a version names one.  The hypothesis is needed: the run with
\* advance --to --quiet loses changes.
THEOREM DiffIsExact == ASSUME ~Quiet PROVE DiffSpec => []DiffExact
<1>1. StampInv /\ ReplicaInv /\ FilesInv => DiffExact
  BY DEF StampInv, ReplicaInv, FilesInv, DiffExact, InSync, SnapshotFirst, VersionTellsSnapshot,
         VersionNamesOne, Advancing
<1> QED BY <1>1, Commands, Stamps, Replicas, PTL

-----------------------------------------------------------------------------
(* Append mode: what a scan finds.                                         *)

\* The last offset of a file exists.
LEMMA MaxOfOffsets ==
  ASSUME NEW S \in SUBSET Offsets, S # {}
  PROVE  Max(S) \in S /\ \A y \in S : Max(S) >= y
<1> USE AppendAssumption DEF Offsets
<1> DEFINE T == {MaxOffset - x : x \in S}
<1>1. T \in SUBSET Nat /\ T # {}
 <2>1. \A x \in S : MaxOffset - x \in Nat OBVIOUS
 <2>2. T \in SUBSET Nat BY ONLY <2>1
 <2>3. PICK x \in S : TRUE OBVIOUS
 <2>4. MaxOffset - x \in T OBVIOUS
 <2> QED BY ONLY <2>2, <2>4
<1>2. PICK m \in T : \A y \in T : m <= y BY <1>1, LeastNat
<1>3. PICK x \in S : m = MaxOffset - x OBVIOUS
<1>4. \A y \in S : x >= y BY <1>2, <1>3
<1> QED BY <1>4 DEF Max

FilesOK == DOMAIN files = Containers /\ \A c \in Containers : DOMAIN files[c] \subseteq Offsets

LEMMA ObservedOffsets ==
  ASSUME FilesOK
  PROVE  /\ Observed(files) \subseteq Containers
         /\ ObservedWater(files) \in [Observed(files) -> Offsets]
<1>1. Observed(files) \subseteq Containers BY DEF FilesOK, Observed
<1>2. ASSUME NEW c \in Observed(files) PROVE Max(DOMAIN files[c]) \in Offsets
  BY <1>1, MaxOfOffsets DEF FilesOK, Observed
<1> QED BY <1>1, <1>2 DEF ObservedWater

\* The filter moves no mark back, and sets none above what it read or was given.
LEMMA NewWaterAbove ==
  ASSUME FilesOK, NEW w, DOMAIN w \subseteq Containers, \A c \in DOMAIN w : w[c] \in 0..MaxOffset + 1
  PROVE  /\ DOMAIN NewWater(w, files) = DOMAIN w \cup Observed(files)
         /\ \A c \in DOMAIN w : NewWater(w, files)[c] \in w[c]..MaxOffset + 1
         /\ \A c \in DOMAIN NewWater(w, files) :
              c \notin DOMAIN w \/ w[c] \in Offsets => NewWater(w, files)[c] \in Offsets
<1> USE AppendAssumption DEF Offsets
<1> DEFINE obs == ObservedWater(files)
           N(c) == Mark(w, c) \cup Mark(obs, c)
<1>1. obs \in [Observed(files) -> Offsets] BY ObservedOffsets
<1>2. NewWater(w, files) = [c \in DOMAIN w \cup Observed(files) |-> Max(N(c))] BY DEF NewWater
<1> HIDE DEF obs
<1>3. ASSUME NEW a \in Int, NEW b \in Int
      PROVE  /\ Max({a} \cup {b}) \in {a, b} /\ Max({a} \cup {b}) >= a
             /\ Max({a} \cup {}) = a /\ Max({} \cup {b}) = b BY DEF Max
<1>4. ASSUME NEW c \in DOMAIN w
      PROVE  /\ Max(N(c)) \in w[c]..MaxOffset + 1
             /\ w[c] \in Offsets => Max(N(c)) \in Offsets
 <2>1. CASE c \in Observed(files)
  <3>1. N(c) = {w[c]} \cup {obs[c]} /\ obs[c] \in Offsets /\ w[c] \in 0..MaxOffset + 1 BY <2>1, <1>1, <1>4 DEF Mark
  <3>2. Max(N(c)) \in {w[c], obs[c]} /\ Max(N(c)) >= w[c]
   <4>1. w[c] \in Int /\ obs[c] \in Int BY <3>1
   <4>2. Max({w[c]} \cup {obs[c]}) \in {w[c], obs[c]} /\ Max({w[c]} \cup {obs[c]}) >= w[c] BY <4>1, <1>3
   <4> QED BY <3>1, <4>2
  <3> QED BY <3>1, <3>2
 <2>2. CASE c \notin Observed(files)
  <3>1. N(c) = {w[c]} \cup {} /\ w[c] \in 0..MaxOffset + 1 BY <2>2, <1>1, <1>4 DEF Mark
  <3>2. Max(N(c)) = w[c] BY <3>1, <1>3
  <3> QED BY <3>1, <3>2
 <2> QED BY <2>1, <2>2
<1>5. ASSUME NEW c \in Observed(files), c \notin DOMAIN w PROVE Max(N(c)) \in Offsets
 <2>1. N(c) = {} \cup {obs[c]} /\ obs[c] \in Offsets BY <1>1, <1>5 DEF Mark
 <2>2. Max(N(c)) = obs[c] BY <2>1, <1>3
 <2> QED BY <2>1, <2>2
<1> HIDE DEF N
<1> QED BY <1>2, <1>4, <1>5

-----------------------------------------------------------------------------
(* Append mode: commands, and what they are about to commit.               *)

\* What is saved moves no mark of the position that it was computed from back,
\* but for the containers that the flags name.
OutOK(o) ==
  /\ o.st.water \in Waters
  /\ o.base # None =>
       \A c \in DOMAIN o.base :
         o.base[c] > 0 /\ c \notin o.asked
           => c \in DOMAIN o.st.water /\ o.st.water[c] >= o.base[c]

\* What the anomalies of a first scan say, whatever the files became since.
FoundOK(found, committed) ==
  /\ found.truncated \subseteq found.violations
  /\ found.violations \subseteq DOMAIN committed

LoadedOK(s) ==
  /\ s.req \in Requests
  /\ s.st.water \in Waters
  /\ s.req.to => s.ans.to \in Waters

SavingOK(s) ==
  /\ s = [pc |-> s.pc, req |-> s.req, violations |-> s.violations, out |-> s.out]
  /\ OutOK(s.out)

ProcOK(s) ==
  /\ s.pc \in {"scan", "rescan"} => LoadedOK(s)
  /\ s.pc = "rescan" => Isolates(s.req) /\ FoundOK(s.found, s.st.water)
  /\ s.pc \in {"save", "rename"} => SavingOK(s)

WaterInv ==
  /\ FilesOK
  /\ store # None => store.water \in Waters
  /\ tmp # None => OutOK(tmp)
  /\ proc = [p \in Procs |-> proc[p]] /\ \A p \in Procs : ProcOK(proc[p])
  /\ \A a \in answers : a.to \in Waters

LEMMA WatersDef ==
  ASSUME NEW w
  PROVE  w \in Waters <=> /\ w = [c \in DOMAIN w |-> w[c]] /\ DOMAIN w \subseteq Containers
                         /\ \A c \in DOMAIN w : w[c] \in Offsets
<1>1. ASSUME w \in Waters
      PROVE  /\ w = [c \in DOMAIN w |-> w[c]] /\ DOMAIN w \subseteq Containers
             /\ \A c \in DOMAIN w : w[c] \in Offsets
 <2>1. PICK S \in SUBSET Containers : w \in [S -> Offsets] BY <1>1 DEF Waters
 <2> QED BY <2>1
<1>2. ASSUME w = [c \in DOMAIN w |-> w[c]], DOMAIN w \subseteq Containers,
             \A c \in DOMAIN w : w[c] \in Offsets
      PROVE  w \in Waters
 <2>1. w \in [DOMAIN w -> Offsets] BY <1>2
 <2> QED BY <1>2, <2>1 DEF Waters
<1> QED BY <1>1, <1>2

\* What the rest of a command relies on in the result of a scan over the
\* position that it has loaded.
ResOK(s, found, res) ==
  /\ res.water \in Waters
  /\ \A c \in DOMAIN s.st.water : c \in DOMAIN res.water /\ res.water[c] >= s.st.water[c]
  /\ s.req.accept => \A c \in found.truncated : res.observed[c] \in Offsets

\* The position that an advance asks to commit is one, and keeps or raises
\* every mark that the flags do not name: a token passes Unsafe or is forced,
\* a pinned mark is the committed one, --accept-truncation lowers violators
\* and --prune-rotated drops rotated containers only.
LEMMA PositionKept ==
  ASSUME NEW p, NEW found, NEW res,
         LoadedOK(proc[p]), FoundOK(found, proc[p].st.water), ResOK(proc[p], found, res),
         ~Refused(p, res), proc[p].req.force \in BOOLEAN
  PROVE  /\ Position(p, found, res) \in Waters
         /\ \A c \in DOMAIN proc[p].st.water :
              proc[p].st.water[c] > 0 /\ c \notin AskedFor(proc[p].req, found)
                => /\ c \in DOMAIN Position(p, found, res)
                   /\ Position(p, found, res)[c] >= proc[p].st.water[c]
<1> USE AppendAssumption DEF Offsets
<1> DEFINE r == proc[p].req
           committed == proc[p].st.water
           asked == IF Explicit(p) THEN proc[p].ans.to ELSE res.water
           kept == IF r.accept THEN Rebaseline(asked, res.observed, found.truncated)
                               ELSE PinWater(asked, committed, found.violations)
           water == IF r.prune THEN Without(kept, found.rotated) ELSE kept
<1>1. Position(p, found, res) = water BY DEF Position
<1>2. /\ DOMAIN committed \subseteq Containers
      /\ \A c \in DOMAIN committed : committed[c] \in Offsets BY WatersDef DEF LoadedOK
<1>3. asked \in Waters BY DEF LoadedOK, ResOK, Explicit
<1>4. DOMAIN asked \subseteq Containers /\ \A c \in DOMAIN asked : asked[c] \in Offsets BY <1>3, WatersDef
<1>5. ASSUME NEW c \in DOMAIN committed, committed[c] > 0, ~r.force
      PROVE  c \in DOMAIN asked /\ asked[c] >= committed[c]
 <2>1. CASE Explicit(p)
  <3>1. /\ asked = proc[p].ans.to
        /\ Dropped(committed, asked) = {} /\ Rewound(committed, asked) = {} BY <2>1, <1>5 DEF Refused, Unsafe
  <3>2. c \in DOMAIN asked BY <3>1, <1>5 DEF Dropped
  <3>3. ~(asked[c] < committed[c]) BY <3>1, <3>2, <1>5 DEF Rewound
  <3> QED BY <3>2, <3>3, <1>2, <1>4
 <2>2. CASE ~Explicit(p) BY <2>2 DEF ResOK
 <2> QED BY <2>1, <2>2
<1> HIDE DEF asked
<1>6. /\ kept = [c \in DOMAIN kept |-> kept[c]] /\ DOMAIN asked \subseteq DOMAIN kept
      /\ DOMAIN kept \subseteq Containers /\ \A c \in DOMAIN kept : kept[c] \in Offsets
 <2>1. CASE r.accept
  <3>1. found.truncated \subseteq Containers /\ \A c \in found.truncated : res.observed[c] \in Offsets
    BY <2>1, <1>2 DEF FoundOK, ResOK
  <3> QED BY <2>1, <3>1, <1>4 DEF Rebaseline
 <2>2. CASE ~r.accept BY <2>2, <1>2, <1>4 DEF PinWater, FoundOK
 <2> QED BY <2>1, <2>2
<1>7. ASSUME NEW c \in DOMAIN committed, committed[c] > 0, c \notin AskedFor(r, found)
      PROVE  c \in DOMAIN kept /\ kept[c] >= committed[c] /\ (r.prune => c \notin found.rotated)
 <2>1. ~r.force /\ (r.accept => c \notin found.violations) /\ (r.prune => c \notin found.rotated)
   BY <1>2, <1>7 DEF AskedFor
 <2>2. c \in DOMAIN asked /\ asked[c] >= committed[c] BY <1>5, <1>7, <2>1
 <2>3. CASE r.accept BY <2>1, <2>2, <2>3 DEF Rebaseline, FoundOK
 <2>4. CASE ~r.accept BY <2>1, <2>2, <2>4, <1>2 DEF PinWater
 <2> QED BY <2>1, <2>3, <2>4
<1> HIDE DEF kept
<1>8. water \in Waters
 <2>1. /\ water = [c \in DOMAIN water |-> water[c]] /\ DOMAIN water \subseteq Containers
       /\ \A c \in DOMAIN water : water[c] \in Offsets BY <1>6 DEF Without
 <2> QED BY <2>1, WatersDef
<1>9. ASSUME NEW c \in DOMAIN committed, committed[c] > 0, c \notin AskedFor(r, found)
      PROVE  c \in DOMAIN water /\ water[c] >= committed[c] BY <1>7, <1>9 DEF Without
<1> QED BY <1>1, <1>8, <1>9

\* The two ways in which a command gets the result it goes on with.
LEMMA ScanOK ==
  ASSUME FilesOK, NEW s, NEW found, LoadedOK(s), FoundOK(found, s.st.water),
         NEW since, since = s.st.water \/ (Isolates(s.req) /\ since = QuarantineWater(s.st.water, found.violations)),
         s.req.accept => found.truncated \subseteq Observed(files),
         NEW res, res = IF Isolates(s.req) THEN Isolate(RunCursorPack(since), s.st.water, found.violations)
                                           ELSE RunCursorPack(since)
  PROVE  ResOK(s, found, res)
<1> USE AppendAssumption DEF Offsets
<1> DEFINE committed == s.st.water
           nw == NewWater(since, files)
<1>1. /\ DOMAIN committed \subseteq Containers /\ committed = [c \in DOMAIN committed |-> committed[c]]
      /\ \A c \in DOMAIN committed : committed[c] \in Offsets BY WatersDef DEF LoadedOK
<1>2. /\ DOMAIN since = DOMAIN committed
      /\ \A c \in DOMAIN committed : since[c] \in committed[c]..MaxOffset + 1
      /\ \A c \in DOMAIN committed : since[c] \in Offsets \/ (Isolates(s.req) /\ c \in found.violations)
  BY <1>1 DEF QuarantineWater, QuarantineMark
<1>3. \A c \in DOMAIN since : since[c] \in 0..MaxOffset + 1 BY <1>1, <1>2
<1>4. /\ DOMAIN nw = DOMAIN committed \cup Observed(files)
      /\ \A c \in DOMAIN committed : nw[c] >= committed[c]
      /\ \A c \in DOMAIN nw : nw[c] \in Offsets \/ (Isolates(s.req) /\ c \in found.violations)
 <2>1. /\ DOMAIN nw = DOMAIN since \cup Observed(files)
       /\ \A c \in DOMAIN since : nw[c] \in since[c]..MaxOffset + 1
       /\ \A c \in DOMAIN nw : c \notin DOMAIN since \/ since[c] \in Offsets => nw[c] \in Offsets
   BY <1>1, <1>2, <1>3, NewWaterAbove
 <2> HIDE DEF nw
 <2>2. \A c \in DOMAIN committed : nw[c] >= committed[c] BY <2>1, <1>1, <1>2
 <2> QED BY <2>1, <2>2, <1>2
<1>5. Observed(files) \subseteq Containers /\ ObservedWater(files) \in [Observed(files) -> Offsets] BY ObservedOffsets
<1>6. nw = [c \in DOMAIN nw |-> nw[c]] BY DEF NewWater
<1>7. RunCursorPack(since).water = nw /\ RunCursorPack(since).observed = ObservedWater(files) BY DEF RunCursorPack
<1> HIDE DEF nw
<1>8. CASE Isolates(s.req)
 <2>1. res.water = PinWater(nw, committed, found.violations) /\ ~s.req.accept
   BY <1>8, <1>7 DEF Isolate, RunCursorPack, Isolates
 <2>2. /\ res.water = [c \in DOMAIN res.water |-> res.water[c]] /\ DOMAIN res.water = DOMAIN nw
       /\ \A c \in DOMAIN nw : res.water[c] = IF c \in found.violations THEN committed[c] ELSE nw[c]
   BY <2>1 DEF PinWater
 <2>3. \A c \in DOMAIN nw : res.water[c] \in Offsets BY <2>2, <1>1, <1>4 DEF FoundOK
 <2>4. res.water \in Waters BY <2>2, <2>3, <1>1, <1>4, <1>5, WatersDef
 <2>5. \A c \in DOMAIN committed : c \in DOMAIN res.water /\ res.water[c] >= committed[c] BY <2>2, <1>1, <1>4
 <2> QED BY <2>1, <2>4, <2>5 DEF ResOK
<1>9. CASE ~Isolates(s.req)
 <2>1. res.water = nw /\ res.observed = ObservedWater(files) BY <1>9, <1>7
 <2>2. \A c \in DOMAIN nw : nw[c] \in Offsets BY <1>4, <1>9
 <2>3. nw \in Waters BY <2>2, <1>1, <1>4, <1>5, <1>6, WatersDef
 <2> QED BY <2>1, <2>3, <1>4, <1>5 DEF ResOK
<1> QED BY <1>8, <1>9

\* Commands keep WaterInv, one by one.
LEMMA FinishOK ==
  ASSUME WaterInv, NEW p \in Procs, NEW found, NEW res0, NEW res,
         res = IF Isolates(proc[p].req) THEN Isolate(res0, proc[p].st.water, found.violations) ELSE res0,
         LoadedOK(proc[p]), FoundOK(found, proc[p].st.water), ResOK(proc[p], found, res),
         proc[p].req.force \in BOOLEAN,
         Finish(p, found, res0), UNCHANGED <<files, written, query, store>>
  PROVE  WaterInv'
<1>1. Peek(p, found, res) \/ Halt(p, found) \/ RefuseUnsafe(p, found, res) \/ Advance(p, found, res) BY DEF Finish
<1>2. ProcOK(Idle) BY DEF ProcOK, Idle
<1>3. FilesOK' BY DEF WaterInv, FilesOK
<1>4. CASE Peek(p, found, res)
 <2>1. \A a \in answers' : a.to \in Waters BY <1>4 DEF Peek, WaterInv, ResOK
 <2>2. tmp' = tmp /\ proc' = [proc EXCEPT ![p] = Idle] BY <1>4 DEF Peek
 <2> QED BY <1>2, <1>3, <2>1, <2>2 DEF WaterInv
<1>5. CASE Halt(p, found) BY <1>2, <1>3, <1>5 DEF Halt, WaterInv
<1>6. CASE RefuseUnsafe(p, found, res) BY <1>2, <1>3, <1>6 DEF RefuseUnsafe, WaterInv
<1>7. CASE Advance(p, found, res)
 <2> DEFINE st == proc[p].st
            r == proc[p].req
            water == Position(p, found, res)
            out == [st |-> [water |-> water, queries |-> proc[p].queries,
                            fp |-> WaterFPMerge(water, res.observed, res.fp, st.water, st.fp)],
                    given |-> (IF r.to /\ r.quiet THEN {} ELSE res.rows)
                                \cup (IF r.accept THEN Behind(st.water, found.violations) ELSE {}),
                    base |-> st.water, asked |-> AskedFor(r, found), expect |-> r.expect]
            new == [pc |-> "save", req |-> r, violations |-> found.violations, out |-> out]
 <2>1. ~Refused(p, res) /\ proc' = [proc EXCEPT ![p] = new] /\ UNCHANGED <<tmp, answers>> BY <1>7 DEF Advance
 <2>2. out.st.water = water /\ out.base = st.water /\ out.asked = AskedFor(r, found) OBVIOUS
 <2>3. /\ water \in Waters
       /\ \A c \in DOMAIN st.water :
            st.water[c] > 0 /\ c \notin AskedFor(r, found)
              => c \in DOMAIN water /\ water[c] >= st.water[c] BY <2>1, PositionKept
 <2> HIDE DEF out
 <2>4. OutOK(out) BY <2>2, <2>3 DEF OutOK
 <2>5. ProcOK(new) BY <2>4 DEF ProcOK, SavingOK
 <2> HIDE DEF new
 <2> QED BY <1>3, <2>1, <2>5 DEF WaterInv
<1> QED BY <1>1, <1>4, <1>5, <1>6, <1>7

\* A writer of the files leaves the commands as they are but for the violators
\* that they have found.
LEMMA ForgetOK ==
  ASSUME WaterInv, NEW c, Forget(c) PROVE \A p \in Procs : ProcOK(proc[p]')
<1> SUFFICES ASSUME NEW p \in Procs PROVE ProcOK(proc[p]') OBVIOUS
<1>1. ProcOK(proc[p]) BY DEF WaterInv
<1>2. CASE proc[p].pc \in {"save", "rename"}
 <2>1. proc'[p] = [proc[p] EXCEPT !.violations = @ \ {c}] BY <1>2 DEF Forget
 <2>2. proc[p] = [pc |-> proc[p].pc, req |-> proc[p].req, violations |-> proc[p].violations, out |-> proc[p].out]
   BY <1>1, <1>2 DEF ProcOK, SavingOK
 <2>3. proc'[p] = [pc |-> proc[p].pc, req |-> proc[p].req, violations |-> proc[p].violations \ {c},
                   out |-> proc[p].out] BY <2>1, <2>2
 <2>4. OutOK(proc[p].out) BY <1>1, <1>2 DEF ProcOK, SavingOK
 <2> QED BY <1>2, <2>3, <2>4 DEF ProcOK, SavingOK
<1>3. CASE proc[p].pc \notin {"save", "rename"} BY <1>1, <1>3 DEF Forget
<1> QED BY <1>2, <1>3

LEMMA FileStepOK == ASSUME WaterInv, FileStep PROVE WaterInv'
<1> USE AppendAssumption
<1>1. PICK c \in Containers : AppendTo(c) \/ Replace(c) \/ Truncate(c) \/ Remove(c) BY DEF FileStep
<1>2. UNCHANGED <<store, tmp, answers>> BY <1>1 DEF AppendTo, Replace, Truncate, Remove
<1>3. FilesOK'
 <2>1. CASE AppendTo(c)
  <3>1. PICK o \in Offsets : files' = [files EXCEPT ![c] = Write(@, {o})] BY <2>1 DEF AppendTo
  <3> QED BY <3>1 DEF WaterInv, FilesOK, Write
 <2>2. CASE Replace(c)
  <3>1. PICK S \in SUBSET Offsets : files' = [files EXCEPT ![c] = Write(Empty, S)] BY <2>2 DEF Replace
  <3>2. DOMAIN Write(Empty, S) = S BY DEF Write, Empty
  <3> QED BY <3>1, <3>2 DEF WaterInv, FilesOK
 <2>3. CASE Truncate(c)
  <3>1. PICK o : files' = [files EXCEPT ![c] = Without(@, {x \in DOMAIN @ : x >= o})] BY <2>3 DEF Truncate
  <3> QED BY <3>1 DEF WaterInv, FilesOK, Without
 <2>4. CASE Remove(c) BY <2>4 DEF WaterInv, FilesOK, Remove, Empty
 <2> QED BY <1>1, <2>1, <2>2, <2>3, <2>4
<1>4. proc' = [p \in Procs |-> proc'[p]] /\ \A p \in Procs : ProcOK(proc[p]')
 <2>1. CASE AppendTo(c) BY <2>1 DEF AppendTo, WaterInv
 <2>2. CASE Forget(c) BY <2>2, ForgetOK DEF Forget
 <2> QED BY <1>1, <2>1, <2>2 DEF Replace, Truncate, Remove
<1> QED BY <1>2, <1>3, <1>4 DEF WaterInv

\* The marks that commands hold and save are positions, for any number of
\* concurrent commands, crashes and writers.
LEMMA Positions == CursorSpec => []WaterInv
<1> USE AppendAssumption
<1>1. CursorInit => WaterInv
 <2> SUFFICES ASSUME CursorInit PROVE WaterInv OBVIOUS
 <2>1. FilesOK BY FilesAssumption DEF CursorInit, FilesOK
 <2>2. ProcOK(Idle) BY DEF ProcOK, Idle
 <2> QED BY <2>1, <2>2 DEF CursorInit, WaterInv
<1>2. WaterInv /\ [CursorNext]_cursorVars => WaterInv'
 <2> SUFFICES ASSUME WaterInv, [CursorNext]_cursorVars PROVE WaterInv' OBVIOUS
 <2>0. ProcOK(Idle) BY DEF ProcOK, Idle
 <2>1. CASE UNCHANGED cursorVars BY <2>1 DEF cursorVars, WaterInv, FilesOK
 <2>2. CASE FileStep BY <2>2, FileStepOK
 <2>3. CASE EditQuery BY <2>3 DEF EditQuery, WaterInv, FilesOK
 <2>4. CASE CursorRemove BY <2>4 DEF CursorRemove, WaterInv, FilesOK
 <2>5. ASSUME NEW p \in Procs, CreateBegin(p) PROVE WaterInv'
  <3>1. PICK r \in Requests : proc' = [proc EXCEPT ![p] = [pc |-> "baseline", req |-> r, queries |-> query]]
    BY <2>5 DEF CreateBegin
  <3>2. ProcOK([pc |-> "baseline", req |-> r, queries |-> query]) BY DEF ProcOK
  <3> QED BY <2>5, <3>1, <3>2 DEF CreateBegin, WaterInv, FilesOK
 <2>6. ASSUME NEW p \in Procs, CreateScan(p) PROVE WaterInv'
  <3> DEFINE res == RunCursorPack(Empty)
             now == [water |-> res.water, fp |-> WaterFPMerge(res.water, res.observed, res.fp, Empty, Empty),
                     queries |-> proc[p].queries]
             beginning == [now EXCEPT !.water = Empty, !.fp = Empty]
             start == proc[p].req.start
             out == [st |-> IF start THEN beginning ELSE now, given |-> IF start THEN {} ELSE res.rows,
                     base |-> None, asked |-> {}, expect |-> FALSE]
             new == [pc |-> "save", req |-> proc[p].req, violations |-> {}, out |-> out]
  <3>1. proc' = [proc EXCEPT ![p] = new] /\ UNCHANGED <<files, store, tmp, answers>> BY <2>6 DEF CreateScan
  <3>2. Empty \in Waters
   <4>1. DOMAIN Empty = {} /\ Empty = [c \in DOMAIN Empty |-> Empty[c]] BY DEF Empty
   <4> QED BY <4>1, WatersDef
  <3>3. NewWater(Empty, files) \in Waters
   <4>1. DOMAIN Empty = {} BY DEF Empty
   <4>2. /\ DOMAIN NewWater(Empty, files) = Observed(files)
         /\ \A c \in DOMAIN NewWater(Empty, files) : NewWater(Empty, files)[c] \in Offsets
     BY <4>1, NewWaterAbove DEF WaterInv
   <4>3. NewWater(Empty, files) = [c \in DOMAIN NewWater(Empty, files) |-> NewWater(Empty, files)[c]] BY DEF NewWater
   <4>4. Observed(files) \subseteq Containers BY ObservedOffsets DEF WaterInv
   <4> QED BY <4>2, <4>3, <4>4, WatersDef
  <3>4. res.water = NewWater(Empty, files) BY DEF RunCursorPack
  <3> HIDE DEF res
  <3>5. out.st.water \in Waters /\ out.base = None BY <3>2, <3>3, <3>4
  <3> HIDE DEF out
  <3>6. ProcOK(new) BY <3>5 DEF ProcOK, SavingOK, OutOK
  <3> HIDE DEF new
  <3> QED BY <3>1, <3>6 DEF WaterInv, FilesOK
 <2>7. ASSUME NEW p \in Procs, Begin(p) PROVE WaterInv'
  <3>1. PICK r \in Requests, a \in answers \cup {None} :
          /\ r.to \/ r.expect <=> a # None
          /\ proc' = [proc EXCEPT ![p] = [pc |-> "scan", req |-> r, ans |-> a, st |-> store, queries |-> query]]
    BY <2>7 DEF Begin
  <3>2. store.water \in Waters /\ (r.to => a.to \in Waters) BY <2>7, <3>1 DEF Begin, WaterInv
  <3>3. ProcOK([pc |-> "scan", req |-> r, ans |-> a, st |-> store, queries |-> query]) BY <3>2 DEF ProcOK, LoadedOK
  <3> QED BY <2>7, <3>1, <3>3 DEF Begin, WaterInv, FilesOK
 <2>8. ASSUME NEW p \in Procs, Scan(p) PROVE WaterInv'
  <3> DEFINE st == proc[p].st
             found == SourceAnomalies(st.water, st.fp)
             res0 == RunCursorPack(st.water)
             res == IF Isolates(proc[p].req) THEN Isolate(res0, st.water, found.violations) ELSE res0
  <3>1. LoadedOK(proc[p]) /\ proc[p].req.force \in BOOLEAN BY <2>8 DEF Scan, WaterInv, ProcOK, LoadedOK
  <3>2. FoundOK(found, st.water) /\ found.truncated \subseteq Observed(files)
    BY DEF FoundOK, SourceAnomalies, Truncated, Rewritten
  <3>3. UNCHANGED <<files, written, query, store>> BY <2>8 DEF Scan
  <3>4. CASE NeedsRescan(proc[p].req, found)
   <4> DEFINE new == [pc |-> "rescan", req |-> proc[p].req, ans |-> proc[p].ans, st |-> st,
                      queries |-> proc[p].queries, found |-> found]
   <4>1. proc' = [proc EXCEPT ![p] = new] /\ UNCHANGED <<tmp, answers>> BY <2>8, <3>4 DEF Scan
   <4>2. Isolates(proc[p].req) BY <3>4 DEF NeedsRescan
   <4> HIDE DEF found
   <4>3. ProcOK(new) BY <3>1, <3>2, <4>2 DEF ProcOK, LoadedOK
   <4> HIDE DEF new
   <4> QED BY <3>3, <4>1, <4>3 DEF WaterInv, FilesOK
  <3>5. CASE ~NeedsRescan(proc[p].req, found)
   <4>1. Finish(p, found, res0) BY <2>8, <3>5 DEF Scan
   <4> HIDE DEF found
   <4>2. ResOK(proc[p], found, res) BY <3>1, <3>2, ScanOK DEF WaterInv
   <4> HIDE DEF res0
   <4> QED BY <3>1, <3>2, <3>3, <4>1, <4>2, FinishOK
  <3> QED BY <3>4, <3>5
 <2>9. ASSUME NEW p \in Procs, Rescan(p) PROVE WaterInv'
  <3> DEFINE st == proc[p].st
             found == proc[p].found
             since == QuarantineWater(st.water, found.violations)
             res0 == RunCursorPack(since)
             res == IF Isolates(proc[p].req) THEN Isolate(res0, st.water, found.violations) ELSE res0
  <3>1. LoadedOK(proc[p]) /\ proc[p].req.force \in BOOLEAN BY <2>9 DEF Rescan, WaterInv, ProcOK, LoadedOK
  <3>2. FoundOK(found, st.water) /\ Isolates(proc[p].req) BY <2>9 DEF Rescan, WaterInv, ProcOK
  <3>3. UNCHANGED <<files, written, query, store>> /\ Finish(p, found, res0) BY <2>9 DEF Rescan
  <3>4. ~proc[p].req.accept BY <3>2 DEF Isolates
  <3> HIDE DEF found
  <3>5. ResOK(proc[p], found, res) BY <3>1, <3>2, <3>4, ScanOK DEF WaterInv
  <3> HIDE DEF res0
  <3> QED BY <3>1, <3>2, <3>3, <3>5, FinishOK
 <2>10. ASSUME NEW p \in Procs, WriteTmp(p) PROVE WaterInv'
  <3>1. SavingOK(proc[p]) BY <2>10 DEF WriteTmp, WaterInv, ProcOK
  <3>2. proc' = [proc EXCEPT ![p] = [pc |-> "rename", req |-> proc[p].req, violations |-> proc[p].violations,
                                     out |-> proc[p].out]]
   <4>1. proc' = [proc EXCEPT ![p] = [proc[p] EXCEPT !.pc = "rename"]] BY <2>10 DEF WriteTmp
   <4> DEFINE s == proc[p]
   <4>2. s = [pc |-> s.pc, req |-> s.req, violations |-> s.violations, out |-> s.out] BY <3>1 DEF SavingOK
   <4> HIDE DEF s
   <4>3. [s EXCEPT !.pc = "rename"] = [pc |-> "rename", req |-> s.req, violations |-> s.violations, out |-> s.out]
     BY <4>2
   <4> QED BY <4>1, <4>3 DEF s
  <3>3. ProcOK([pc |-> "rename", req |-> proc[p].req, violations |-> proc[p].violations, out |-> proc[p].out])
    BY <3>1 DEF ProcOK, SavingOK
  <3>4. tmp' = proc[p].out /\ OutOK(proc[p].out) /\ UNCHANGED <<files, store, answers>>
    BY <2>10, <3>1 DEF WriteTmp, SavingOK
  <3> QED BY <3>2, <3>3, <3>4 DEF WaterInv, FilesOK
 <2>11. ASSUME NEW p \in Procs, Rename(p) PROVE WaterInv' BY <2>0, <2>11 DEF Rename, WaterInv, FilesOK, OutOK
 <2>12. ASSUME NEW p \in Procs, RenameFails(p) PROVE WaterInv' BY <2>0, <2>12 DEF RenameFails, WaterInv, FilesOK
 <2>13. ASSUME NEW p \in Procs, Crash(p) PROVE WaterInv' BY <2>0, <2>13 DEF Crash, WaterInv, FilesOK
 <2> QED
   BY <2>1, <2>2, <2>3, <2>4, <2>5, <2>6, <2>7, <2>8, <2>9, <2>10, <2>11, <2>12, <2>13
   DEF CursorNext, CursorStep
<1> QED BY <1>1, <1>2, PTL DEF CursorSpec

\* For any number of commands that run at once, through crashes between any two
\* of their steps and whatever the writers of the files do: a commit lowers or
\* drops a mark only if --force, --accept-truncation or --prune-rotated asked
\* for that container, or if another command had moved the cursor meanwhile.
THEOREM MarksNeverRewind == CursorSpec => MarkNeverRewinds
<1> DEFINE Kept == store # None /\ store' # None =>
             \A c \in DOMAIN store.water :
               store.water[c] > 0 /\ Rewinds(c) => c \in tmp.asked \/ tmp.base # store.water
<1>1. WaterInv /\ [CursorNext]_cursorVars => [Kept]_cursorVars
 <2> SUFFICES ASSUME WaterInv, CursorNext, store # None, store' # None,
                     NEW c \in DOMAIN store.water, store.water[c] > 0, Rewinds(c)
              PROVE  c \in tmp.asked \/ tmp.base # store.water OBVIOUS
 <2>1. store.water \in Waters BY DEF WaterInv
 <2>2. store.water[c] \in Nat BY <2>1, WatersDef, AppendAssumption DEF Offsets
 <2>3. store' # store BY <2>2 DEF Rewinds
 <2>4. PICK p \in Procs : Rename(p)
   BY <2>3 DEF CursorNext, CursorStep, FileStep, AppendTo, Replace, Truncate, Remove, EditQuery, CursorRemove,
      CreateBegin, CreateScan, Begin, Scan, Rescan, WriteTmp, RenameFails, Crash
 <2>5. tmp # None /\ store' = tmp.st BY <2>4 DEF Rename
 <2>6. OutOK(tmp) BY <2>5 DEF WaterInv
 <2>7. CASE tmp.base = None BY <2>1, <2>7, FilesAssumption
 <2>8. CASE tmp.base # None /\ tmp.base = store.water /\ c \notin tmp.asked
  <3>1. c \in DOMAIN tmp.st.water /\ tmp.st.water[c] >= store.water[c] /\ tmp.st.water \in Waters
    BY <2>6, <2>8 DEF OutOK
  <3>2. tmp.st.water[c] \in Nat BY <3>1, WatersDef, AppendAssumption DEF Offsets
  <3> QED BY <2>2, <2>5, <3>1, <3>2 DEF Rewinds
 <2> QED BY <2>7, <2>8
<1> QED BY <1>1, Positions, PTL DEF CursorSpec, MarkNeverRewinds

-----------------------------------------------------------------------------
(* Append mode: what a mark stands for.                                    *)

\* The record at the mark that st has for c is the one that the mark was set at.
Kept(st, c) == c \in DOMAIN st.water \cap DOMAIN st.fp /\ BoundaryKept(st.water, st.fp, files, c)

Violating(st, c) == c \in DOMAIN st.water \cap Observed(files) /\ ~Kept(st, c)

\* The records of c at or below its mark.
Read(st, c) == {files[c][o] : o \in {x \in DOMAIN files[c] : x <= st.water[c]}}

\* Records are numbered as they are written.
RecordsOK ==
  /\ written \in Nat
  /\ \A c \in Containers : \A o \in DOMAIN files[c] : files[c][o] \in 1..written

\* A position that was, or is to be, committed has a fingerprint for each mark; and below a
\* mark that is kept every record was delivered, or is with the commit.
StateOK(st, given) ==
  /\ \A c \in DOMAIN st.water : c \in DOMAIN st.fp /\ st.fp[c] \in 1..written
  /\ \A c \in DOMAIN st.water : Kept(st, c) => Read(st, c) \subseteq accounted \cup given

\* What a first scan found is so until the second one.
FoundNow(s) ==
  /\ s.found.violations = {c \in Containers : Violating(s.st, c)}
  /\ s.found.rotated \cap Observed(files) = {}

ProcKnown(s) ==
  /\ s.pc \in {"scan", "rescan"} => StateOK(s.st, {}) /\ ~s.req.to
  /\ s.pc = "rescan" => FoundNow(s)
  /\ s.pc \in {"save", "rename"} => StateOK(s.out.st, s.out.given)

KnownInv ==
  /\ RecordsOK
  /\ store # None => StateOK(store, {})
  /\ tmp # None => StateOK(tmp.st, tmp.given)
  /\ \A p \in Procs : ProcKnown(proc[p])

\* What g, that f has become, still holds up to a record that f held is what f held there.
Evolves(f, g) ==
  \A b \in DOMAIN g : g[b] <= written => \A o \in DOMAIN g : o <= b => o \in DOMAIN f /\ g[o] = f[o]

LEMMA OffsetsFinite == \A S \in SUBSET Offsets : IsFiniteSet(S) /\ Cardinality(S) \in Nat
<1> USE AppendAssumption DEF Offsets
<1>1. IsFiniteSet(Offsets) BY FS_Interval
<1> QED BY <1>1, FS_Subset, FS_CardinalityType

\* Fresh records are numbered on from the last one.
LEMMA FreshRecords ==
  ASSUME written \in Nat, NEW f, DOMAIN f \subseteq Offsets, NEW S \in SUBSET Offsets
  PROVE  /\ DOMAIN Write(f, S) = DOMAIN f \cup S
         /\ \A o \in S : Write(f, S)[o] \in (written + 1)..(written + Cardinality(S))
         /\ \A o \in DOMAIN f \ S : Write(f, S)[o] = f[o]
<1>1. ASSUME NEW o \in S
      PROVE  Cardinality({x \in S : x <= o}) \in 1..Cardinality(S)
 <2> DEFINE T == {x \in S : x <= o}
 <2>1. o \in T BY AppendAssumption DEF Offsets
 <2>2. IsFiniteSet(S) /\ Cardinality(S) \in Nat /\ T \subseteq S BY OffsetsFinite
 <2>3. IsFiniteSet(T) /\ Cardinality(T) \in Nat /\ Cardinality(T) <= Cardinality(S)
   BY <2>2, FS_Subset, FS_CardinalityType
 <2>4. Cardinality(T) # 0 BY <2>1, <2>3, FS_EmptySet
 <2> QED BY <2>2, <2>3, <2>4
<1>2. Cardinality(S) \in Nat BY OffsetsFinite
<1>3. DOMAIN Write(f, S) = DOMAIN f \cup S /\ \A o \in DOMAIN f \ S : Write(f, S)[o] = f[o] BY DEF Write
<1>4. \A o \in S : Write(f, S)[o] = written + Cardinality({x \in S : x <= o}) BY DEF Write
<1>5. ASSUME NEW o \in S PROVE Write(f, S)[o] \in (written + 1)..(written + Cardinality(S))
 <2> DEFINE n == Cardinality({x \in S : x <= o})
            k == Cardinality(S)
 <2>1. n \in 1..k /\ k \in Nat /\ Write(f, S)[o] = written + n BY <1>1, <1>2, <1>4
 <2> HIDE DEF n, k
 <2>2. written + n \in (written + 1)..(written + k) BY <2>1
 <2> QED BY <2>1, <2>2 DEF k
<1> QED BY <1>3, <1>5

\* The writers number what they write, and change nothing below a record that they leave.
LEMMA FilesEvolve ==
  ASSUME FilesOK, FilesOK', RecordsOK, FileStep
  PROVE  /\ RecordsOK' /\ written' >= written
         /\ \A c \in Containers : Evolves(files[c], files'[c])
         /\ UNCHANGED <<store, tmp, accounted>>
<1> USE AppendAssumption DEF Offsets
<1>1. PICK c \in Containers : AppendTo(c) \/ Replace(c) \/ Truncate(c) \/ Remove(c) BY DEF FileStep
<1>2. UNCHANGED <<store, tmp, accounted>> BY <1>1 DEF AppendTo, Replace, Truncate, Remove
<1>3. /\ files' = [files EXCEPT ![c] = files'[c]]
      /\ written' \in Nat /\ written' >= written
      /\ \A o \in DOMAIN files'[c] : files'[c][o] \in 1..written'
      /\ Evolves(files[c], files'[c])
 <2>1. CASE AppendTo(c)
  <3>1. PICK n \in Offsets :
          (\A x \in DOMAIN files[c] : x < n) /\ files' = [files EXCEPT ![c] = Write(files[c], {n})]
    BY <2>1 DEF AppendTo
  <3>2. written' = written + 1 BY <2>1 DEF AppendTo
  <3>3. Cardinality({n}) = 1 BY FS_Singleton
  <3> DEFINE g == Write(files[c], {n})
  <3>4. /\ DOMAIN g = DOMAIN files[c] \cup {n} /\ g[n] = written + 1
        /\ \A o \in DOMAIN files[c] \ {n} : g[o] = files[c][o]
   <4>1. {n} \in SUBSET Offsets /\ DOMAIN files[c] \subseteq Offsets /\ written \in Nat BY DEF FilesOK, RecordsOK
   <4>2. /\ DOMAIN g = DOMAIN files[c] \cup {n}
         /\ \A o \in {n} : g[o] \in (written + 1)..(written + Cardinality({n}))
         /\ \A o \in DOMAIN files[c] \ {n} : g[o] = files[c][o] BY <4>1, FreshRecords
   <4> HIDE DEF g
   <4>3. g[n] \in (written + 1)..(written + 1) BY <3>3, <4>2
   <4> QED BY <4>1, <4>2, <4>3
  <3>5. files'[c] = g /\ files' = [files EXCEPT ![c] = g] BY <3>1 DEF FilesOK
  <3> HIDE DEF g
  <3>6. \A o \in DOMAIN files[c] : o \in Int /\ o < n /\ g[o] = files[c][o] /\ files[c][o] \in 1..written
    BY <3>1, <3>4 DEF FilesOK, RecordsOK
  <3>7. \A o \in DOMAIN g : g[o] \in 1..written' BY <3>2, <3>4, <3>6 DEF RecordsOK
  <3>8. Evolves(files[c], g) BY <3>4, <3>6 DEF Evolves, RecordsOK
  <3> QED BY <3>2, <3>5, <3>7, <3>8 DEF RecordsOK
 <2>2. CASE Replace(c)
  <3>1. PICK S \in SUBSET Offsets :
          files' = [files EXCEPT ![c] = Write(Empty, S)] /\ written' = written + Cardinality(S) BY <2>2 DEF Replace
  <3> DEFINE g == Write(Empty, S)
  <3>2. DOMAIN Empty = {} BY DEF Empty
  <3>3. DOMAIN g = S /\ \A o \in S : g[o] \in (written + 1)..(written + Cardinality(S))
   <4>1. DOMAIN Empty \subseteq Offsets /\ written \in Nat BY <3>2 DEF RecordsOK
   <4>2. /\ DOMAIN g = DOMAIN Empty \cup S
         /\ \A o \in S : g[o] \in (written + 1)..(written + Cardinality(S))
         /\ \A o \in DOMAIN Empty \ S : g[o] = Empty[o] BY <4>1, FreshRecords
   <4> QED BY ONLY <3>2, <4>2
  <3>4. files'[c] = g /\ files' = [files EXCEPT ![c] = g] BY <3>1 DEF FilesOK
  <3> HIDE DEF g
  <3>5. written \in Nat /\ Cardinality(S) \in Nat BY OffsetsFinite DEF RecordsOK
  <3> DEFINE k == Cardinality(S)
  <3>6. /\ written \in Nat /\ k \in Nat /\ written' = written + k
        /\ \A o \in DOMAIN g : g[o] \in (written + 1)..(written + k) BY <3>1, <3>3, <3>5
  <3> HIDE DEF k
  <3>7. \A o \in DOMAIN g : ~(g[o] <= written) /\ g[o] \in 1..written' BY <3>6
  <3>8. Evolves(files[c], g) BY <3>7 DEF Evolves
  <3>9. written' \in Nat /\ written' >= written BY <3>6
  <3> QED BY <3>4, <3>7, <3>8, <3>9
 <2>3. CASE Truncate(c)
  <3>1. PICK n : files' = [files EXCEPT ![c] = Without(@, {x \in DOMAIN @ : x >= n})] BY <2>3 DEF Truncate
  <3>2. written' = written BY <2>3 DEF Truncate
  <3> DEFINE g == Without(files[c], {x \in DOMAIN files[c] : x >= n})
  <3>3. files'[c] = g /\ files' = [files EXCEPT ![c] = g] BY <3>1 DEF FilesOK
  <3>4. \A o \in DOMAIN g : o \in DOMAIN files[c] /\ g[o] = files[c][o] BY DEF Without
  <3> HIDE DEF g
  <3> QED BY <3>2, <3>3, <3>4 DEF Evolves, RecordsOK
 <2>4. CASE Remove(c)
  <3>1. files' = [files EXCEPT ![c] = Empty] /\ written' = written BY <2>4 DEF Remove
  <3>2. files'[c] = Empty /\ DOMAIN Empty = {} BY <3>1 DEF FilesOK, Empty
  <3>3. files' = [files EXCEPT ![c] = files'[c]] BY <3>1, <3>2
  <3>4. written' \in Nat /\ written' >= written BY <3>1 DEF RecordsOK
  <3> QED BY <3>2, <3>3, <3>4 DEF Evolves
 <2> QED BY <1>1, <2>1, <2>2, <2>3, <2>4
<1>4. ASSUME NEW k \in Containers, k # c PROVE files'[k] = files[k] BY <1>3, <1>4 DEF FilesOK
<1>5. RecordsOK'
 <2> SUFFICES ASSUME NEW k \in Containers, NEW o \in DOMAIN files'[k] PROVE files'[k][o] \in 1..written'
   BY <1>3 DEF RecordsOK
 <2>1. CASE k = c BY <1>3, <2>1
 <2>2. CASE k # c BY <1>3, <1>4, <2>2 DEF RecordsOK
 <2> QED BY <2>1, <2>2
<1>6. ASSUME NEW k \in Containers PROVE Evolves(files[k], files'[k])
 <2>1. CASE k = c BY <1>3, <2>1
 <2>2. CASE k # c BY <1>4, <2>2 DEF Evolves
 <2> QED BY <2>1, <2>2
<1> QED BY <1>2, <1>3, <1>5, <1>6

\* A mark that is kept was kept before the writers' step, and they put nothing below it.
LEMMA KeptBefore ==
  ASSUME FilesOK, FilesOK', RecordsOK, FileStep,
         NEW st, NEW c \in Containers, c \in DOMAIN st.fp => st.fp[c] \in 1..written, Kept(st, c)'
  PROVE  Kept(st, c) /\ Read(st, c)' \subseteq Read(st, c)
<1>1. Evolves(files[c], files'[c]) BY FilesEvolve
<1>2. /\ c \in DOMAIN st.water /\ c \in DOMAIN st.fp /\ st.fp[c] <= written
      /\ st.water[c] \in DOMAIN files'[c] /\ files'[c][st.water[c]] = st.fp[c] BY DEF Kept, BoundaryKept, RecordsOK
<1>3. \A o \in DOMAIN files'[c] : o <= st.water[c] => o \in DOMAIN files[c] /\ files'[c][o] = files[c][o]
  BY <1>1, <1>2 DEF Evolves
<1>4. st.water[c] \in Int BY <1>2, AppendAssumption DEF FilesOK, Offsets
<1>5. Kept(st, c) BY <1>2, <1>3, <1>4 DEF Kept, BoundaryKept
<1>6. Read(st, c)' \subseteq Read(st, c) BY <1>3 DEF Read
<1> QED BY <1>5, <1>6

LEMMA StateStays ==
  ASSUME FilesOK, FilesOK', RecordsOK, FileStep,
         NEW st, NEW given, DOMAIN st.water \subseteq Containers, StateOK(st, given)
  PROVE  StateOK(st, given)'
<1>1. written' \in Nat /\ written' >= written /\ written \in Nat /\ accounted' = accounted BY FilesEvolve DEF RecordsOK
<1>2. ASSUME NEW c \in DOMAIN st.water PROVE c \in DOMAIN st.fp /\ st.fp[c] \in 1..written' BY <1>1 DEF StateOK
<1>3. ASSUME NEW c \in DOMAIN st.water, Kept(st, c)' PROVE Read(st, c)' \subseteq accounted' \cup given
 <2>1. st.fp[c] \in 1..written /\ c \in Containers BY DEF StateOK
 <2>2. Kept(st, c) /\ Read(st, c)' \subseteq Read(st, c) BY <1>3, <2>1, KeptBefore
 <2> QED BY <1>1, <2>2 DEF StateOK
<1> QED BY <1>2, <1>3 DEF StateOK

LEMMA StateGrows ==
  ASSUME NEW st, NEW given, NEW more, StateOK(st, given), UNCHANGED <<files, written>>,
         accounted \cup given \subseteq accounted' \cup more
  PROVE  StateOK(st, more)'
<1>1. \A c : Kept(st, c)' = Kept(st, c) /\ Read(st, c)' = Read(st, c) BY DEF Kept, BoundaryKept, Read
<1> QED BY <1>1 DEF StateOK

\* Between the two scans of a command files are appended to and nothing else.
LEMMA WhileRescanning ==
  ASSUME FilesOK, RecordsOK, FileStep, ~RacyRescan, NEW q \in Procs, proc[q].pc = "rescan"
  PROVE  /\ proc' = proc /\ Observed(files)' = Observed(files) /\ UNCHANGED <<held, cleared>>
         /\ \A c \in Containers : \A o \in DOMAIN files[c] : o \in DOMAIN files'[c] /\ files'[c][o] = files[c][o]
<1>1. ~MayRewrite BY DEF MayRewrite
<1>2. PICK c \in Containers : AppendTo(c) BY <1>1 DEF FileStep, Replace, Truncate, Remove
<1>3. DOMAIN files[c] # {} BY <1>1, <1>2 DEF AppendTo
<1>4. PICK n \in Offsets :
        (\A x \in DOMAIN files[c] : x < n) /\ files' = [files EXCEPT ![c] = Write(files[c], {n})] BY <1>2 DEF AppendTo
<1>5. n \notin DOMAIN files[c] BY <1>4, AppendAssumption DEF Offsets
<1>6. DOMAIN files' = DOMAIN files /\ DOMAIN files'[c] = DOMAIN files[c] \cup {n} BY <1>4 DEF FilesOK, Write
<1>7. \A o \in DOMAIN files[c] : files'[c][o] = files[c][o] BY <1>4, <1>5 DEF FilesOK, Write
<1>8. \A k \in Containers \ {c} : files'[k] = files[k] BY <1>4 DEF FilesOK
<1>9. Observed(files)' = Observed(files) BY <1>3, <1>6, <1>8 DEF Observed, FilesOK
<1>10. proc' = proc /\ UNCHANGED <<held, cleared>> BY <1>2 DEF AppendTo
<1> QED BY <1>6, <1>7, <1>8, <1>9, <1>10

LEMMA FoundStays ==
  ASSUME FilesOK, FilesOK', RecordsOK, FileStep, ~RacyRescan, NEW q \in Procs, proc[q].pc = "rescan",
         NEW s, DOMAIN s.st.water \subseteq Containers, StateOK(s.st, {}), FoundNow(s)
  PROVE  FoundNow(s)'
<1>1. ASSUME NEW c \in Containers PROVE Violating(s.st, c)' <=> Violating(s.st, c)
 <2>1. ASSUME Kept(s.st, c)' PROVE Kept(s.st, c)
  <3>1. c \in DOMAIN s.st.water BY <2>1 DEF Kept
  <3>2. s.st.fp[c] \in 1..written BY <3>1 DEF StateOK
  <3> QED BY <2>1, <3>2, KeptBefore
 <2>2. ASSUME Kept(s.st, c) PROVE Kept(s.st, c)' BY <2>2, WhileRescanning DEF Kept, BoundaryKept
 <2> QED BY <2>1, <2>2, WhileRescanning DEF Violating
<1>2. Observed(files)' = Observed(files) BY WhileRescanning
<1> QED BY <1>1, <1>2 DEF FoundNow

-----------------------------------------------------------------------------
(* Append mode: what a command saves.                                      *)

\* A file's last offset is one of its own, and no other is above it.
LEMMA LastOffset ==
  ASSUME FilesOK, NEW c \in Observed(files)
  PROVE  /\ c \in Containers /\ ObservedWater(files)[c] \in DOMAIN files[c] \cap Offsets
         /\ \A o \in DOMAIN files[c] : o \in Int /\ o <= ObservedWater(files)[c]
         /\ FingerprintWater(files)[c] = files[c][ObservedWater(files)[c]]
<1>1. c \in Containers /\ DOMAIN files[c] \in SUBSET Offsets /\ DOMAIN files[c] # {} BY DEF FilesOK, Observed
<1>2. Max(DOMAIN files[c]) \in DOMAIN files[c] /\ \A o \in DOMAIN files[c] : Max(DOMAIN files[c]) >= o
  BY <1>1, MaxOfOffsets
<1>3. ObservedWater(files)[c] = Max(DOMAIN files[c]) BY DEF ObservedWater
<1> DEFINE m == Max(DOMAIN files[c])
<1>4. m \in Offsets /\ \A o \in DOMAIN files[c] : o \in Int /\ o <= m BY <1>1, <1>2, AppendAssumption DEF Offsets
<1>5. FingerprintWater(files)[c] = files[c][m] BY DEF FingerprintWater
<1> QED BY <1>1, <1>2, <1>3, <1>4, <1>5

\* The mark that a scan leaves: the last offset seen, or the old mark where that is above.
LEMMA NewWaterIs ==
  ASSUME FilesOK, NEW w, NEW c, c \in DOMAIN w => w[c] \in Int
  PROVE  /\ DOMAIN NewWater(w, files) = DOMAIN w \cup Observed(files)
         /\ c \in Observed(files) /\ (c \in DOMAIN w => w[c] <= ObservedWater(files)[c])
              => NewWater(w, files)[c] = ObservedWater(files)[c]
         /\ c \in Observed(files) \cap DOMAIN w /\ w[c] > ObservedWater(files)[c] => NewWater(w, files)[c] = w[c]
         /\ c \in DOMAIN w \ Observed(files) => NewWater(w, files)[c] = w[c]
<1> DEFINE obs == ObservedWater(files)
           N == Mark(w, c) \cup Mark(obs, c)
<1>1. /\ DOMAIN NewWater(w, files) = DOMAIN w \cup Observed(files)
      /\ c \in DOMAIN w \cup Observed(files) => NewWater(w, files)[c] = Max(N) BY DEF NewWater
<1>2. DOMAIN obs = Observed(files) /\ (c \in Observed(files) => obs[c] \in Int)
  BY LastOffset, AppendAssumption DEF ObservedWater, Offsets
<1>3. N = (IF c \in DOMAIN w THEN {w[c]} ELSE {}) \cup (IF c \in Observed(files) THEN {obs[c]} ELSE {}) BY <1>2 DEF Mark
<1> HIDE DEF obs, N
<1>4. ASSUME NEW a \in Int, NEW b \in Int
      PROVE  /\ a <= b => Max({a} \cup {b}) = b
             /\ a > b => Max({a} \cup {b}) = a
             /\ Max({a} \cup {}) = a /\ Max({} \cup {b}) = b BY DEF Max
<1>5. CASE c \in Observed(files) \cap DOMAIN w
 <2>1. N = {w[c]} \cup {obs[c]} /\ w[c] \in Int /\ obs[c] \in Int BY <1>2, <1>3, <1>5
 <2>2. (w[c] <= obs[c] => Max(N) = obs[c]) /\ (w[c] > obs[c] => Max(N) = w[c]) BY <2>1, <1>4
 <2> QED BY <1>1, <1>5, <2>2 DEF obs
<1>6. CASE c \in Observed(files) \ DOMAIN w
 <2>1. N = {} \cup {obs[c]} /\ obs[c] \in Int BY <1>2, <1>3, <1>6
 <2>2. Max(N) = obs[c] BY <2>1, <1>4
 <2> QED BY <1>1, <1>6, <2>2 DEF obs
<1>7. CASE c \in DOMAIN w \ Observed(files)
 <2>1. N = {w[c]} \cup {} /\ w[c] \in Int BY <1>3, <1>7
 <2>2. Max(N) = w[c] BY <2>1, <1>4
 <2> QED BY <1>1, <1>7, <2>2
<1> QED BY <1>1, <1>5, <1>6, <1>7

\* What is reported of a position with a fingerprint for each mark: the files that are
\* there and have lost the record at the mark.
LEMMA ViolationsAre ==
  ASSUME FilesOK, NEW st, st.water \in Waters, \A c \in DOMAIN st.water : c \in DOMAIN st.fp
  PROVE  /\ SourceAnomalies(st.water, st.fp).violations = {c \in Containers : Violating(st, c)}
         /\ SourceAnomalies(st.water, st.fp).rotated \cap Observed(files) = {}
         /\ SourceAnomalies(st.water, st.fp).truncated = Truncated(st.water, files)
<1> DEFINE T == Truncated(st.water, files)
           R == Rewritten(st.water, st.fp, files)
<1>1. SourceAnomalies(st.water, st.fp).violations = T \cup R BY DEF SourceAnomalies
<1>2. DOMAIN st.water \subseteq Containers /\ \A c \in DOMAIN st.water : st.water[c] \in Int
  BY WatersDef, AppendAssumption DEF Offsets
<1>3. ASSUME NEW c \in T PROVE c \in Containers /\ Violating(st, c)
 <2>1. c \in DOMAIN st.water \cap Observed(files) /\ ObservedWater(files)[c] < st.water[c] BY DEF Truncated
 <2>2. ObservedWater(files)[c] \in Int /\ \A o \in DOMAIN files[c] : o \in Int /\ o <= ObservedWater(files)[c]
   BY <2>1, LastOffset, AppendAssumption DEF Offsets
 <2>3. st.water[c] \notin DOMAIN files[c] BY <1>2, <2>1, <2>2
 <2> QED BY <1>2, <2>1, <2>3 DEF Violating, Kept, BoundaryKept
<1>4. ASSUME NEW c \in R PROVE c \in Containers /\ Violating(st, c) BY <1>2 DEF Rewritten, Violating, Kept
<1>5. ASSUME NEW c \in Containers, Violating(st, c), c \notin T PROVE c \in R BY <1>5 DEF Violating, Kept, Rewritten
<1>6. SourceAnomalies(st.water, st.fp).rotated \cap Observed(files) = {} BY DEF SourceAnomalies, Rotated
<1>7. SourceAnomalies(st.water, st.fp).truncated = T BY DEF SourceAnomalies
<1> HIDE DEF T, R
<1> QED BY <1>1, <1>3, <1>4, <1>5, <1>6, <1>7 DEF T

\* The fingerprint that is saved beside a mark that was observed, or was not moved.
LEMMA FingerprintIs ==
  ASSUME NEW water, NEW observed, NEW observedFP, NEW oldWater, NEW oldFP, NEW c \in DOMAIN water
  PROVE  LET fp == WaterFPMerge(water, observed, observedFP, oldWater, oldFP)
         IN  /\ c \in DOMAIN observed /\ c \in DOMAIN observedFP /\ observed[c] = water[c]
                  => c \in DOMAIN fp /\ fp[c] = observedFP[c]
             /\ c \notin DOMAIN observed /\ c \in DOMAIN oldWater /\ c \in DOMAIN oldFP /\ oldWater[c] = water[c]
                  => c \in DOMAIN fp /\ fp[c] = oldFP[c]
BY DEF WaterFPMerge

\* What a command found when it goes on with the result of its last scan.
ScanFacts(s, found, since) ==
  /\ found.violations = {c \in Containers : Violating(s.st, c)}
  /\ found.rotated \cap Observed(files) = {}
  /\ \/ since = s.st.water /\ found.truncated = Truncated(s.st.water, files)
     \/ Isolates(s.req) /\ since = QuarantineWater(s.st.water, found.violations)
  /\ Isolates(s.req) \/ s.req.accept \/ found.violations = {}

\* The mark and the fingerprint that are saved for c: the old ones of a violator that is
\* not acknowledged and of a file that is gone, else those of the last record.
Settled(st, c, accept, violations, water, fp) ==
  /\ c \in DOMAIN water /\ c \in DOMAIN fp
  /\ IF c \in Observed(files) /\ (c \in violations => accept)
     THEN water[c] = ObservedWater(files)[c] /\ fp[c] = FingerprintWater(files)[c]
     ELSE c \in DOMAIN st.water /\ water[c] = st.water[c] /\ fp[c] = st.fp[c]

LEMMA Outcome ==
  ASSUME FilesOK, NEW p, NEW found, NEW since,
         proc[p].st.water \in Waters, \A c \in DOMAIN proc[p].st.water : c \in DOMAIN proc[p].st.fp,
         ~proc[p].req.to, ScanFacts(proc[p], found, since),
         NEW res, res = IF Isolates(proc[p].req)
                        THEN Isolate(RunCursorPack(since), proc[p].st.water, found.violations)
                        ELSE RunCursorPack(since),
         NEW water, water = Position(p, found, res),
         NEW fp, fp = WaterFPMerge(water, res.observed, res.fp, proc[p].st.water, proc[p].st.fp)
  PROVE  /\ DOMAIN water \subseteq DOMAIN proc[p].st.water \cup Observed(files)
         /\ \A c \in DOMAIN water : Settled(proc[p].st, c, proc[p].req.accept, found.violations, water, fp)
         /\ Observed(files) \subseteq DOMAIN water
<1> DEFINE st == proc[p].st
           r == proc[p].req
           V == found.violations
           obs == ObservedWater(files)
           nw == NewWater(since, files)
           isolated == PinWater(nw, st.water, V)
           kept == IF r.accept THEN Rebaseline(res.water, res.observed, found.truncated)
                               ELSE PinWater(res.water, st.water, V)
<1>1. /\ DOMAIN st.water \subseteq Containers /\ Observed(files) \subseteq Containers
      /\ \A c \in DOMAIN st.water : st.water[c] \in Int BY WatersDef, ObservedOffsets, AppendAssumption DEF Offsets
<1>2. \A c \in V : c \in DOMAIN st.water \cap Observed(files) /\ ~Kept(st, c) BY DEF ScanFacts, Violating
<1>3. \A c \in (DOMAIN st.water \cap Observed(files)) \ V : Kept(st, c) BY <1>1 DEF ScanFacts, Violating
<1>4. \A c \in Observed(files) : obs[c] \in Int /\ \A o \in DOMAIN files[c] : o <= obs[c]
  BY LastOffset, AppendAssumption DEF Offsets
<1>5. DOMAIN obs = Observed(files) /\ DOMAIN FingerprintWater(files) = Observed(files)
  BY DEF ObservedWater, FingerprintWater
<1>6. /\ DOMAIN since = DOMAIN st.water
      /\ \A c \in DOMAIN since : since[c] \in Int
      /\ \A c \in DOMAIN since \ V : since[c] = st.water[c]
 <2>1. QuarantineMark \in Int BY AppendAssumption DEF QuarantineMark
 <2> QED BY <1>1, <2>1 DEF ScanFacts, QuarantineWater
<1>7. DOMAIN nw = DOMAIN st.water \cup Observed(files) BY <1>6, NewWaterIs
<1>8. ASSUME NEW c \in Observed(files) \ V PROVE nw[c] = obs[c]
 <2>1. c \in DOMAIN since => since[c] \in DOMAIN files[c] BY <1>3, <1>6 DEF Kept, BoundaryKept
 <2>2. c \in DOMAIN since => since[c] \in Int /\ since[c] <= obs[c] BY <2>1, <1>4, <1>6
 <2> QED BY <2>2, NewWaterIs
<1>9. ASSUME NEW c \in DOMAIN st.water \ Observed(files) PROVE nw[c] = st.water[c]
 <2>1. c \notin V BY <1>2
 <2>2. c \in DOMAIN since \ Observed(files) /\ since[c] \in Int /\ since[c] = st.water[c] BY <2>1, <1>6
 <2>3. c \in DOMAIN since \ Observed(files) => nw[c] = since[c] BY ONLY FilesOK, <2>2, NewWaterIs
 <2> QED BY ONLY <2>2, <2>3
<1>11. water = IF r.prune THEN Without(kept, found.rotated) ELSE kept BY DEF Position, Explicit
<1>12. /\ DOMAIN kept = DOMAIN nw
       /\ \A c \in DOMAIN nw :
            kept[c] = IF c \in Observed(files) /\ (c \in V => r.accept) THEN obs[c] ELSE st.water[c]
 <2>1. CASE Isolates(r)
  <3>1. res.water = isolated /\ kept = PinWater(isolated, st.water, V) /\ ~r.accept
    BY <2>1 DEF Isolate, RunCursorPack, Isolates
  <3>2. /\ DOMAIN kept = DOMAIN nw
        /\ \A c \in DOMAIN nw : kept[c] = IF c \in V THEN st.water[c] ELSE nw[c] BY <3>1 DEF PinWater
  <3> QED BY <3>1, <3>2, <1>7, <1>8, <1>9
 <2>2. CASE ~Isolates(r) /\ ~r.accept
  <3>1. V = {} /\ res.water = nw /\ kept = PinWater(nw, st.water, V) BY <2>2 DEF ScanFacts, RunCursorPack
  <3>2. DOMAIN kept = DOMAIN nw /\ \A c \in DOMAIN nw : kept[c] = nw[c] BY <3>1 DEF PinWater
  <3> QED BY <3>1, <3>2, <1>7, <1>8, <1>9
 <2>3. CASE ~Isolates(r) /\ r.accept
  <3> DEFINE T == Truncated(st.water, files)
  <3>1. since = st.water /\ found.truncated = T BY <2>3 DEF ScanFacts
  <3>2. kept = Rebaseline(nw, obs, T) BY <2>3, <3>1 DEF RunCursorPack
  <3>3. T = {c \in DOMAIN st.water \cap Observed(files) : obs[c] < st.water[c]} BY DEF Truncated
  <3> HIDE DEF T, obs, nw
  <3>4. /\ DOMAIN kept = DOMAIN nw
        /\ \A c \in DOMAIN nw : kept[c] = IF c \in T /\ nw[c] > obs[c] THEN obs[c] ELSE nw[c]
    BY <3>2, <3>3, <1>7 DEF Rebaseline
  <3>5. ASSUME NEW c \in Observed(files) PROVE kept[c] = obs[c]
   <4>1. CASE c \in T
    <5>1. nw[c] = st.water[c] BY <3>1, <3>3, <4>1, <1>1, NewWaterIs DEF nw, obs
    <5> QED BY <3>3, <3>4, <4>1, <5>1, <1>7
   <4>2. CASE c \notin T
    <5>1. c \in DOMAIN st.water => st.water[c] <= obs[c] BY <3>3, <4>2, <1>1, <1>4
    <5>2. nw[c] = obs[c] BY <3>1, <5>1, <1>1, NewWaterIs DEF nw, obs
    <5> QED BY <3>4, <4>2, <5>2, <1>7
   <4> QED BY <4>1, <4>2
  <3>6. ASSUME NEW c \in DOMAIN nw, c \notin Observed(files) PROVE kept[c] = st.water[c]
    BY <3>3, <3>4, <3>6, <1>7, <1>9
  <3> QED BY <2>3, <3>4, <3>5, <3>6
 <2> QED BY <2>1, <2>2, <2>3
<1>13. /\ DOMAIN water \subseteq DOMAIN nw /\ DOMAIN nw \ found.rotated \subseteq DOMAIN water
       /\ \A c \in DOMAIN water : water[c] = kept[c]
 <2>1. CASE r.prune
  <3>1. water = [k \in DOMAIN kept \ found.rotated |-> kept[k]] BY <2>1, <1>11 DEF Without
  <3> HIDE DEF kept, nw
  <3> QED BY <3>1, <1>12
 <2>2. CASE ~r.prune
  <3>1. water = kept BY <2>2, <1>11
  <3> HIDE DEF kept, nw
  <3> QED BY <3>1, <1>12
 <2> QED BY <2>1, <2>2
<1>14. /\ DOMAIN res.observed = Observed(files) \ (IF r.accept THEN {} ELSE V)
       /\ DOMAIN res.fp = DOMAIN res.observed
       /\ \A c \in DOMAIN res.observed : res.observed[c] = obs[c] /\ res.fp[c] = FingerprintWater(files)[c]
 <2>1. CASE Isolates(r)
  <3>1. res.observed = Scrub(obs, V) /\ res.fp = Scrub(FingerprintWater(files), V) /\ ~r.accept
    BY <2>1 DEF Isolate, RunCursorPack, Isolates
  <3> QED BY <3>1, <1>5 DEF Scrub, Without
 <2>2. CASE ~Isolates(r)
  <3>1. res.observed = obs /\ res.fp = FingerprintWater(files) BY <2>2 DEF RunCursorPack
  <3>2. r.accept \/ V = {} BY <2>2 DEF ScanFacts
  <3> QED BY <3>1, <3>2, <1>5
 <2> QED BY <2>1, <2>2
<1> HIDE DEF nw, kept, obs
<1>15. ASSUME NEW c \in DOMAIN water PROVE Settled(st, c, r.accept, V, water, fp)
 <2>1. /\ c \in DOMAIN res.observed /\ c \in DOMAIN res.fp /\ res.observed[c] = water[c]
            => c \in DOMAIN fp /\ fp[c] = res.fp[c]
       /\ c \notin DOMAIN res.observed /\ c \in DOMAIN st.water /\ c \in DOMAIN st.fp /\ st.water[c] = water[c]
            => c \in DOMAIN fp /\ fp[c] = st.fp[c] BY FingerprintIs DEF WaterFPMerge
 <2>2. c \in DOMAIN nw BY <1>13
 <2>3. CASE c \in Observed(files) /\ (c \in V => r.accept)
  <3>1. water[c] = obs[c] BY <2>2, <2>3, <1>12, <1>13
  <3>2. c \in DOMAIN res.observed BY <2>3, <1>14
  <3> QED BY <2>1, <2>3, <3>1, <3>2, <1>14 DEF Settled, obs
 <2>4. CASE ~(c \in Observed(files) /\ (c \in V => r.accept))
  <3>1. water[c] = st.water[c] BY <2>2, <2>4, <1>12, <1>13
  <3>2. c \notin DOMAIN res.observed BY <2>4, <1>14
  <3>3. c \in DOMAIN st.water BY <2>2, <2>4, <1>2, <1>7
  <3> QED BY <2>1, <2>4, <3>1, <3>2, <3>3 DEF Settled
 <2> QED BY <2>3, <2>4
<1>16. Observed(files) \subseteq DOMAIN water BY <1>7, <1>13 DEF ScanFacts
<1> QED BY <1>7, <1>13, <1>15, <1>16

Commits(st, accept, violations, out, given) ==
  /\ StateOK(out, given)
  /\ \A c \in Containers : Kept(st, c) => Kept(out, c)
  /\ \A c \in violations : IF accept THEN Kept(out, c) ELSE Violating(out, c)

\* What an advance saves has below its kept marks only what was delivered, is delivered
\* with it, or is given up by the acknowledgement; and it takes no violator for another.
LEMMA CommitOK ==
  ASSUME FilesOK, RecordsOK, NEW p, NEW found, NEW since,
         proc[p].st.water \in Waters, StateOK(proc[p].st, {}),
         ~proc[p].req.to, ScanFacts(proc[p], found, since),
         NEW res, res = IF Isolates(proc[p].req)
                        THEN Isolate(RunCursorPack(since), proc[p].st.water, found.violations)
                        ELSE RunCursorPack(since),
         NEW out, out.water = Position(p, found, res),
         out.fp = WaterFPMerge(out.water, res.observed, res.fp, proc[p].st.water, proc[p].st.fp),
         NEW given, res.rows \subseteq given,
         proc[p].req.accept => Behind(proc[p].st.water, found.violations) \subseteq given
  PROVE  Commits(proc[p].st, proc[p].req.accept, found.violations, out, given)
<1> DEFINE st == proc[p].st
           accept == proc[p].req.accept
           V == found.violations
           obs == ObservedWater(files)
<1>1. \A c \in DOMAIN st.water : c \in DOMAIN st.fp /\ st.fp[c] \in 1..written BY DEF StateOK
<1>2. /\ DOMAIN out.water \subseteq DOMAIN st.water \cup Observed(files)
      /\ \A c \in DOMAIN out.water : Settled(st, c, accept, V, out.water, out.fp)
      /\ Observed(files) \subseteq DOMAIN out.water BY <1>1, Outcome
<1>3. /\ DOMAIN st.water \subseteq Containers /\ Observed(files) \subseteq Containers
      /\ \A c \in DOMAIN st.water : st.water[c] \in Int BY WatersDef, ObservedOffsets, AppendAssumption DEF Offsets
<1>4. \A c \in V : c \in DOMAIN st.water \cap Observed(files) /\ ~Kept(st, c) BY DEF ScanFacts, Violating
<1>5. \A c \in (DOMAIN st.water \cap Observed(files)) \ V : Kept(st, c) BY <1>3 DEF ScanFacts, Violating
<1>6. ASSUME NEW c \in Observed(files)
      PROVE  /\ obs[c] \in DOMAIN files[c] /\ FingerprintWater(files)[c] = files[c][obs[c]]
             /\ files[c][obs[c]] \in 1..written BY LastOffset DEF RecordsOK
<1>7. \A c \in Observed(files) : ~(c \in V /\ ~accept)
        => /\ out.water[c] = obs[c] /\ out.fp[c] = FingerprintWater(files)[c]
           /\ c \in DOMAIN out.water /\ c \in DOMAIN out.fp BY <1>2 DEF Settled
<1>8. \A c \in DOMAIN out.water : ~(c \in Observed(files) /\ ~(c \in V /\ ~accept))
        => /\ c \in DOMAIN st.water /\ out.water[c] = st.water[c] /\ out.fp[c] = st.fp[c] /\ c \in DOMAIN out.fp
  BY <1>2 DEF Settled
<1> HIDE DEF obs
<1>9. ASSUME NEW c \in Observed(files), ~(c \in V /\ ~accept) PROVE Kept(out, c)
  BY <1>6, <1>7, <1>9 DEF Kept, BoundaryKept
<1>10. ASSUME NEW c \in DOMAIN out.water PROVE c \in DOMAIN out.fp /\ out.fp[c] \in 1..written BY <1>1, <1>6, <1>7, <1>8
<1>11. ASSUME NEW c \in Containers, Kept(st, c) PROVE Kept(out, c)
 <2>1. c \in Observed(files) BY <1>11 DEF Kept, BoundaryKept, Observed, FilesOK
 <2> QED BY <2>1, <1>4, <1>9, <1>11
<1>12. ASSUME NEW c \in V PROVE IF accept THEN Kept(out, c) ELSE Violating(out, c)
 <2>1. CASE accept BY <2>1, <1>4, <1>9
 <2>2. CASE ~accept
  <3>1. c \in DOMAIN out.water /\ c \in Observed(files) BY <1>2, <1>4
  <3>2. out.water[c] = st.water[c] /\ out.fp[c] = st.fp[c] /\ c \in DOMAIN st.water BY <2>2, <3>1, <1>8
  <3>3. ~Kept(out, c) BY <3>2, <1>1, <1>4 DEF Kept, BoundaryKept
  <3> QED BY <2>2, <3>1, <3>3 DEF Violating
 <2> QED BY <2>1, <2>2
<1>13. ASSUME NEW c \in DOMAIN out.water, Kept(out, c) PROVE Read(out, c) \subseteq accounted \cup given
 <2>1. CASE c \in Observed(files) /\ ~(c \in V /\ ~accept)
  <3> SUFFICES ASSUME NEW o \in DOMAIN files[c] PROVE files[c][o] \in accounted \cup given BY DEF Read
  <3>0. c \in Containers /\ o \in Int BY <1>3, <2>1, AppendAssumption DEF FilesOK, Offsets
  <3>1. CASE admit(since, c, o)
   <4>1. files[c][o] \in Admitted(since, files, c) BY <3>1 DEF Admitted
   <4>2. res.rows = UNION {Admitted(since, files, k) : k \in Containers} BY DEF Isolate, RunCursorPack
   <4> QED BY <3>0, <4>1, <4>2
  <3>2. CASE ~admit(since, c, o)
   <4>1. c \in DOMAIN since /\ ~(o > since[c]) BY <3>2 DEF admit
   <4>2. c \in DOMAIN st.water BY <4>1 DEF ScanFacts, QuarantineWater
   <4>3. since[c] = st.water[c]
    <5>1. CASE since = st.water BY <5>1
    <5>2. CASE since # st.water
     <6>1. ~accept /\ since = QuarantineWater(st.water, V) BY <5>2 DEF ScanFacts, Isolates
     <6> QED BY <2>1, <4>2, <6>1 DEF QuarantineWater
    <5> QED BY <5>1, <5>2
   <4>4. o <= st.water[c] BY <3>0, <4>1, <4>2, <4>3, <1>3
   <4>5. CASE c \in V
    <5>1. files[c][o] \in Behind(st.water, V) BY <4>4, <4>5 DEF Behind
    <5> QED BY <2>1, <4>5, <5>1
   <4>6. CASE c \notin V
    <5>1. Kept(st, c) BY <2>1, <4>2, <4>6, <1>5
    <5>2. files[c][o] \in Read(st, c) BY <4>4 DEF Read
    <5> QED BY <4>2, <5>1, <5>2 DEF StateOK
   <4> QED BY <4>5, <4>6
  <3> QED BY <3>1, <3>2
 <2>2. CASE ~(c \in Observed(files) /\ ~(c \in V /\ ~accept))
  <3>1. c \in DOMAIN st.water /\ out.water[c] = st.water[c] /\ out.fp[c] = st.fp[c] BY <2>2, <1>8
  <3>2. Kept(st, c) /\ Read(out, c) = Read(st, c) BY <3>1, <1>1, <1>13 DEF Kept, BoundaryKept, Read
  <3> QED BY <3>1, <3>2 DEF StateOK
 <2> QED BY <2>1, <2>2
<1>14. StateOK(out, given) BY <1>10, <1>13 DEF StateOK
<1> QED BY <1>11, <1>12, <1>14 DEF Commits

-----------------------------------------------------------------------------
(* Append mode: peek never misses.                                         *)

\* No command under way was given a token.
Tokenless == \A p \in Procs : proc[p].pc # "idle" => ~proc[p].req.to

LEMMA KnownNext ==
  ASSUME NEW P, P = proc', NEW S, S = store', NEW M, M = tmp', RecordsOK',
         S # None => StateOK(S, {})', M # None => StateOK(M.st, M.given)', \A p \in Procs : ProcKnown(P[p])'
  PROVE  KnownInv'
<1>1. ASSUME NEW p \in Procs PROVE ProcKnown(proc[p])'
 <2>1. ProcKnown(P[p])' /\ P[p] = proc'[p] OBVIOUS
 <2>2. (proc[p].pc \in {"scan", "rescan"} => StateOK(proc[p].st, {}) /\ ~proc[p].req.to)'
   BY ONLY <2>1 DEF ProcKnown, StateOK, Kept, BoundaryKept, Read
 <2>3. (proc[p].pc = "rescan" => FoundNow(proc[p]))'
   BY ONLY <2>1 DEF ProcKnown, FoundNow, Violating, Kept, BoundaryKept, Observed
 <2>4. (proc[p].pc \in {"save", "rename"} => StateOK(proc[p].out.st, proc[p].out.given))'
  <3>1. ASSUME proc'[p].pc \in {"save", "rename"} PROVE StateOK(P[p].out.st, P[p].out.given)'
    BY ONLY <2>1, <3>1 DEF ProcKnown
  <3> DEFINE o == P[p].out
  <3>2. o = proc'[p].out BY ONLY <2>1
  <3> HIDE DEF o
  <3>3. proc'[p].pc \in {"save", "rename"} => StateOK(o.st, o.given)' BY ONLY <3>1 DEF o
  <3> QED BY ONLY <3>2, <3>3 DEF StateOK, Kept, BoundaryKept, Read
 <2> QED BY ONLY <2>2, <2>3, <2>4 DEF ProcKnown
<1>2. store' # None => StateOK(store, {})' BY DEF StateOK, Kept, BoundaryKept, Read
<1>3. tmp' # None => StateOK(tmp.st, tmp.given)' BY DEF StateOK, Kept, BoundaryKept, Read
<1> QED BY <1>1, <1>2, <1>3 DEF KnownInv

LEMMA ProcKnownGrows ==
  ASSUME NEW s, ProcKnown(s), UNCHANGED <<files, written>>, accounted \subseteq accounted'
  PROVE  ProcKnown(s)'
<1>1. s.pc \in {"scan", "rescan"} => StateOK(s.st, {})' BY StateGrows DEF ProcKnown
<1>2. s.pc \in {"save", "rename"} => StateOK(s.out.st, s.out.given)' BY StateGrows DEF ProcKnown
<1>3. s.pc = "rescan" => FoundNow(s)' BY DEF ProcKnown, FoundNow, Violating, Kept, BoundaryKept, Observed
<1> QED BY <1>1, <1>2, <1>3 DEF ProcKnown

LEMMA KnownStays ==
  ASSUME KnownInv, UNCHANGED <<files, written>>, accounted \subseteq accounted',
         NEW P, P = proc', NEW S, S = store', NEW M, M = tmp',
         S = store \/ S = None \/ StateOK(S, {})', M = tmp \/ M = None \/ StateOK(M.st, M.given)',
         \A p \in Procs : P[p] = proc[p] \/ ProcKnown(P[p])'
  PROVE  KnownInv'
<1>1. RecordsOK' BY DEF KnownInv, RecordsOK
<1>2. S # None => StateOK(S, {})' BY StateGrows DEF KnownInv
<1>3. M # None => StateOK(M.st, M.given)' BY StateGrows DEF KnownInv
<1>4. \A p \in Procs : ProcKnown(P[p])' BY ProcKnownGrows DEF KnownInv
<1> QED BY <1>1, <1>2, <1>3, <1>4, KnownNext

LEMMA IdleKnown == ProcKnown(Idle)'
BY DEF ProcKnown, Idle

\* The end of a peek or an advance.
LEMMA FinishKnown ==
  ASSUME WaterInv, KnownInv, NEW p \in Procs, NEW found, NEW since,
         LoadedOK(proc[p]), StateOK(proc[p].st, {}), ~proc[p].req.to,
         found.violations = {c \in Containers : Violating(proc[p].st, c)},
         found.rotated \cap Observed(files) = {},
         \/ since = proc[p].st.water /\ found.truncated = Truncated(proc[p].st.water, files)
         \/ Isolates(proc[p].req) /\ since = QuarantineWater(proc[p].st.water, found.violations),
         Finish(p, found, RunCursorPack(since)), UNCHANGED <<files, written, query, store>>
  PROVE  KnownInv'
<1> DEFINE res == IF Isolates(proc[p].req) THEN Isolate(RunCursorPack(since), proc[p].st.water, found.violations)
                                           ELSE RunCursorPack(since)
<1>0. PICK P, S, M : P = proc' /\ S = store' /\ M = tmp' OBVIOUS
<1>1. Peek(p, found, res) \/ Halt(p, found) \/ RefuseUnsafe(p, found, res) \/ Advance(p, found, res) BY DEF Finish
<1>2. CASE P = [proc EXCEPT ![p] = Idle] /\ M = tmp /\ accounted \subseteq accounted'
 <2>1. \A q \in Procs : P[q] = proc[q] \/ ProcKnown(P[q])' BY <1>2, IdleKnown DEF WaterInv
 <2> QED BY <1>0, <1>2, <2>1, KnownStays
<1>3. CASE Advance(p, found, res)
 <2> DEFINE r == proc[p].req
            st == proc[p].st
            water == Position(p, found, res)
            new == [pc |-> "save", req |-> r, violations |-> found.violations,
                    out |-> [st |-> [water |-> water, queries |-> proc[p].queries,
                                     fp |-> WaterFPMerge(water, res.observed, res.fp, st.water, st.fp)],
                             given |-> (IF r.to /\ r.quiet THEN {} ELSE res.rows)
                                         \cup (IF r.accept THEN Behind(st.water, found.violations) ELSE {}),
                             base |-> st.water, asked |-> AskedFor(r, found), expect |-> r.expect]]
 <2>1. /\ P = [proc EXCEPT ![p] = new] /\ M = tmp /\ accounted' = accounted
       /\ Isolates(r) \/ r.accept \/ found.violations = {} BY <1>0, <1>3 DEF Advance
 <2>2. ScanFacts(proc[p], found, since) BY <2>1 DEF ScanFacts
 <2>3. /\ new.out.st.water = water
       /\ new.out.st.fp = WaterFPMerge(water, res.observed, res.fp, st.water, st.fp)
       /\ res.rows \subseteq new.out.given
       /\ r.accept => Behind(st.water, found.violations) \subseteq new.out.given
       /\ new.pc = "save" OBVIOUS
 <2>4. st.water \in Waters /\ P[p] = new BY <2>1 DEF LoadedOK, WaterInv
 <2> HIDE DEF new
 <2>5. StateOK(new.out.st, new.out.given)
  <3>1. PICK o, given, rs : o = new.out.st /\ given = new.out.given /\ rs = res OBVIOUS
  <3>2. FilesOK /\ RecordsOK BY DEF WaterInv, KnownInv
  <3>3. rs = IF Isolates(r) THEN Isolate(RunCursorPack(since), st.water, found.violations)
                            ELSE RunCursorPack(since) BY <3>1
  <3> HIDE DEF res
  <3>4. /\ o.water = Position(p, found, rs) /\ o.fp = WaterFPMerge(o.water, rs.observed, rs.fp, st.water, st.fp)
        /\ rs.rows \subseteq given /\ (r.accept => Behind(st.water, found.violations) \subseteq given) BY <2>3, <3>1
  <3>5. Commits(st, r.accept, found.violations, o, given) BY <2>2, <2>4, <3>2, <3>3, <3>4, CommitOK
  <3> QED BY <3>1, <3>5 DEF Commits
 <2>6. StateOK(P[p].out.st, P[p].out.given) BY <2>4, <2>5
 <2>7. StateOK(P[p].out.st, P[p].out.given)' BY <2>1, <2>6, StateGrows
 <2>8. ProcKnown(P[p])' BY <2>3, <2>4, <2>7 DEF ProcKnown
 <2>9. \A q \in Procs : P[q] = proc[q] \/ ProcKnown(P[q])' BY <2>1, <2>8 DEF WaterInv
 <2> QED BY <1>0, <2>1, <2>9, KnownStays
<1> QED BY <1>0, <1>1, <1>2, <1>3 DEF Peek, Halt, RefuseUnsafe

LEMMA FilesKnown ==
  ASSUME WaterInv, WaterInv', KnownInv, ~RacyRescan, FileStep PROVE KnownInv'
<1>0. PICK P, S, M : P = proc' /\ S = store' /\ M = tmp' OBVIOUS
<1>1. FilesOK /\ FilesOK' /\ RecordsOK BY DEF WaterInv, KnownInv
<1>2. RecordsOK' /\ UNCHANGED <<store, tmp, accounted>> BY <1>1, FilesEvolve
<1>3. \A w \in Waters : DOMAIN w \subseteq Containers BY WatersDef
<1>4. S # None => StateOK(S, {})' BY <1>0, <1>1, <1>2, <1>3, StateStays DEF WaterInv, KnownInv
<1>5. M # None => StateOK(M.st, M.given)' BY <1>0, <1>1, <1>2, <1>3, StateStays DEF WaterInv, KnownInv, OutOK
<1>6. ASSUME NEW q \in Procs PROVE ProcKnown(P[q])'
 <2>0. ProcOK(proc[q]) /\ ProcKnown(proc[q]) BY DEF WaterInv, KnownInv
 <2>1. PICK s : s = proc[q] OBVIOUS
 <2>2. s.pc \in {"scan", "rescan"} => StateOK(s.st, {})' /\ ~s.req.to
   BY <2>0, <2>1, <1>1, <1>3, StateStays DEF ProcOK, LoadedOK, ProcKnown
 <2>3. s.pc = "rescan" => FoundNow(s)' BY <2>0, <2>1, <1>1, <1>3, FoundStays DEF ProcOK, LoadedOK, ProcKnown
 <2>4. s.pc \in {"save", "rename"} => StateOK(s.out.st, s.out.given)'
   BY <2>0, <2>1, <1>1, <1>3, StateStays DEF ProcOK, SavingOK, OutOK, ProcKnown
 <2>5. P[q] = s \/ (s.pc \in {"save", "rename"} /\ P[q].pc = s.pc /\ P[q].out = s.out)
  <3>1. PICK c \in Containers : AppendTo(c) \/ Replace(c) \/ Truncate(c) \/ Remove(c) BY DEF FileStep
  <3>2. CASE AppendTo(c) BY <3>2, <1>0, <2>1 DEF AppendTo
  <3>3. CASE Forget(c)
   <4>1. P[q] = IF s.pc \in {"save", "rename"} THEN [s EXCEPT !.violations = @ \ {c}] ELSE s
     BY <3>3, <1>0, <2>1 DEF Forget
   <4>2. s.pc \in {"save", "rename"} =>
           s = [pc |-> s.pc, req |-> s.req, violations |-> s.violations, out |-> s.out]
     BY <2>0, <2>1 DEF ProcOK, SavingOK
   <4> QED BY <4>1, <4>2
  <3> QED BY <3>1, <3>2, <3>3 DEF Replace, Truncate, Remove
 <2>6. CASE P[q] = s BY <2>2, <2>3, <2>4, <2>6 DEF ProcKnown
 <2>7. CASE s.pc \in {"save", "rename"} /\ P[q].pc = s.pc /\ P[q].out = s.out
  <3>1. StateOK(P[q].out.st, P[q].out.given)' BY <2>4, <2>7
  <3> QED BY <2>7, <3>1 DEF ProcKnown
 <2> QED BY <2>5, <2>6, <2>7
<1> QED BY <1>0, <1>2, <1>4, <1>5, <1>6, KnownNext

LEMMA CreateKnown ==
  ASSUME WaterInv, KnownInv, NEW p \in Procs, CreateScan(p) PROVE KnownInv'
<1> DEFINE res == RunCursorPack(Empty)
           nw == NewWater(Empty, files)
           fp == WaterFPMerge(nw, ObservedWater(files), FingerprintWater(files), Empty, Empty)
           now == [water |-> res.water, fp |-> WaterFPMerge(res.water, res.observed, res.fp, Empty, Empty),
                   queries |-> proc[p].queries]
           beginning == [now EXCEPT !.water = Empty, !.fp = Empty]
           start == proc[p].req.start
           out == [st |-> IF start THEN beginning ELSE now, given |-> IF start THEN {} ELSE res.rows,
                   base |-> None, asked |-> {}, expect |-> FALSE]
           new == [pc |-> "save", req |-> proc[p].req, violations |-> {}, out |-> out]
<1>0. PICK P, S, M : P = proc' /\ S = store' /\ M = tmp' OBVIOUS
<1>1. P = [proc EXCEPT ![p] = new] /\ UNCHANGED <<files, written, store, tmp, accounted>> BY <1>0 DEF CreateScan
<1>2. DOMAIN Empty = {} BY DEF Empty
<1>3. FilesOK /\ RecordsOK BY DEF WaterInv, KnownInv
<1>4. DOMAIN nw = Observed(files) /\ \A c \in Observed(files) : nw[c] = ObservedWater(files)[c]
  BY <1>2, <1>3, NewWaterIs
<1>5. DOMAIN ObservedWater(files) = Observed(files) /\ DOMAIN FingerprintWater(files) = Observed(files)
  BY DEF ObservedWater, FingerprintWater
<1>6. \A c \in DOMAIN nw : c \in DOMAIN fp /\ fp[c] = FingerprintWater(files)[c] BY <1>4, <1>5, FingerprintIs
<1>7. res.rows = UNION {Admitted(Empty, files, c) : c \in Containers} /\ now.water = nw /\ now.fp = fp
  BY DEF RunCursorPack
<1>8. beginning.water = Empty /\ beginning.fp = Empty OBVIOUS
<1>9. new.pc = "save" /\ new.out.st = (IF start THEN beginning ELSE now)
        /\ new.out.given = (IF start THEN {} ELSE res.rows) OBVIOUS
<1> HIDE DEF nw, fp, now, beginning, new, res
<1>10. StateOK(beginning, {}) BY <1>2, <1>8 DEF StateOK
<1>11. StateOK(now, res.rows)
 <2>1. ASSUME NEW c \in DOMAIN now.water PROVE c \in DOMAIN now.fp /\ now.fp[c] \in 1..written
  <3>1. c \in Observed(files) /\ c \in DOMAIN now.fp /\ now.fp[c] = FingerprintWater(files)[c] BY <1>4, <1>6, <1>7
  <3>2. /\ c \in Containers /\ ObservedWater(files)[c] \in DOMAIN files[c]
        /\ FingerprintWater(files)[c] = files[c][ObservedWater(files)[c]] BY <1>3, <3>1, LastOffset
  <3> QED BY <1>3, <3>1, <3>2 DEF RecordsOK
 <2>2. ASSUME NEW c \in DOMAIN now.water PROVE Read(now, c) \subseteq res.rows
  <3>1. c \in Containers BY <1>3, <1>4, <1>7, ObservedOffsets
  <3>2. Read(now, c) \subseteq Admitted(Empty, files, c) BY <1>2 DEF Read, Admitted, admit
  <3> QED BY <1>7, <3>1, <3>2
 <2> QED BY <2>1, <2>2 DEF StateOK
<1>12. StateOK(new.out.st, new.out.given) BY <1>9, <1>10, <1>11
<1>13. P[p] = new BY <1>1 DEF WaterInv
<1>14. StateOK(P[p].out.st, P[p].out.given)' BY <1>1, <1>12, <1>13, StateGrows
<1>15. ProcKnown(P[p])' BY <1>9, <1>13, <1>14 DEF ProcKnown
<1>16. \A q \in Procs : P[q] = proc[q] \/ ProcKnown(P[q])' BY <1>1, <1>15 DEF WaterInv
<1> QED BY <1>0, <1>1, <1>16, KnownStays

LEMMA ScanKnown ==
  ASSUME WaterInv, KnownInv, NEW p \in Procs, Scan(p) PROVE KnownInv'
<1> DEFINE st == proc[p].st
           found == SourceAnomalies(st.water, st.fp)
<1>1. LoadedOK(proc[p]) /\ StateOK(st, {}) /\ ~proc[p].req.to BY DEF Scan, WaterInv, KnownInv, ProcOK, ProcKnown
<1>2. FilesOK /\ st.water \in Waters /\ \A c \in DOMAIN st.water : c \in DOMAIN st.fp
  BY <1>1 DEF WaterInv, LoadedOK, StateOK
<1>3. /\ found.violations = {c \in Containers : Violating(st, c)}
      /\ found.rotated \cap Observed(files) = {}
      /\ found.truncated = Truncated(st.water, files) BY <1>2, ViolationsAre
<1>4. UNCHANGED <<files, written, query, store>> BY DEF Scan
<1>5. CASE NeedsRescan(proc[p].req, found)
 <2>1. PICK P, S, M : P = proc' /\ S = store' /\ M = tmp' OBVIOUS
 <2> DEFINE new == [pc |-> "rescan", req |-> proc[p].req, ans |-> proc[p].ans, st |-> st,
                    queries |-> proc[p].queries, found |-> found]
 <2>2. P = [proc EXCEPT ![p] = new] /\ UNCHANGED <<tmp, accounted>> BY <1>5, <2>1 DEF Scan
 <2>3. new.pc = "rescan" /\ new.st = st /\ new.req = proc[p].req /\ new.found = found OBVIOUS
 <2>4. P[p] = new BY <2>2 DEF WaterInv
 <2> HIDE DEF new, found
 <2>5. FoundNow(new) BY <1>3, <2>3 DEF FoundNow
 <2>6. ProcKnown(P[p]) BY <1>1, <2>3, <2>4, <2>5 DEF ProcKnown
 <2>7. ProcKnown(P[p])' BY <1>4, <2>2, <2>6, ProcKnownGrows
 <2>8. \A q \in Procs : P[q] = proc[q] \/ ProcKnown(P[q])' BY <2>2, <2>7 DEF WaterInv
 <2> QED BY <1>4, <2>1, <2>2, <2>8, KnownStays
<1>6. CASE ~NeedsRescan(proc[p].req, found)
 <2>1. Finish(p, found, RunCursorPack(st.water)) BY <1>6 DEF Scan
 <2> HIDE DEF found
 <2> QED BY <1>1, <1>3, <1>4, <2>1, FinishKnown
<1> QED BY <1>5, <1>6

LEMMA RescanKnown ==
  ASSUME WaterInv, KnownInv, NEW p \in Procs, Rescan(p) PROVE KnownInv'
<1>1. LoadedOK(proc[p]) /\ StateOK(proc[p].st, {}) /\ ~proc[p].req.to /\ Isolates(proc[p].req) /\ FoundNow(proc[p])
  BY DEF Rescan, WaterInv, KnownInv, ProcOK, ProcKnown
<1>2. Finish(p, proc[p].found, RunCursorPack(QuarantineWater(proc[p].st.water, proc[p].found.violations)))
        /\ UNCHANGED <<files, written, query, store>> BY DEF Rescan
<1> QED BY <1>1, <1>2, FinishKnown DEF FoundNow

\* The steps of commands that were given no token, and of the files' writers.
LEMMA KnownSteps ==
  ASSUME WaterInv, WaterInv', KnownInv, ~RacyRescan, CursorNext, Tokenless' PROVE KnownInv'
<1>0. PICK P, S, M : P = proc' /\ S = store' /\ M = tmp' OBVIOUS
<1>1. CASE FileStep BY <1>1, FilesKnown
<1>2. CASE EditQuery BY <1>0, <1>2, KnownStays DEF EditQuery
<1>3. CASE CursorRemove BY <1>0, <1>3, KnownStays DEF CursorRemove
<1>4. ASSUME NEW p \in Procs, UNCHANGED <<files, written>>, accounted \subseteq accounted',
             NEW s, ProcKnown(s)', P = [proc EXCEPT ![p] = s],
             S = store \/ StateOK(S, {})', M = tmp \/ M = None \/ StateOK(M.st, M.given)'
      PROVE  KnownInv'
 <2>1. \A q \in Procs : P[q] = proc[q] \/ ProcKnown(P[q])' BY <1>4 DEF WaterInv
 <2> QED BY <1>0, <1>4, <2>1, KnownStays
<1>5. ASSUME NEW p \in Procs, CreateBegin(p) PROVE KnownInv'
 <2>1. PICK r \in Requests : P = [proc EXCEPT ![p] = [pc |-> "baseline", req |-> r, queries |-> query]]
   BY <1>0, <1>5 DEF CreateBegin
 <2>2. PICK s : s = [pc |-> "baseline", req |-> r, queries |-> query] OBVIOUS
 <2>3. ProcKnown(s)' BY <2>2 DEF ProcKnown
 <2> QED BY <1>0, <1>4, <1>5, <2>1, <2>2, <2>3 DEF CreateBegin
<1>6. ASSUME NEW p \in Procs, Begin(p) PROVE KnownInv'
 <2>1. PICK r \in Requests, a \in answers \cup {None} :
         P = [proc EXCEPT ![p] = [pc |-> "scan", req |-> r, ans |-> a, st |-> store, queries |-> query]]
   BY <1>0, <1>6 DEF Begin
 <2>2. PICK s : s = [pc |-> "scan", req |-> r, ans |-> a, st |-> store, queries |-> query] OBVIOUS
 <2>3. P[p] = s BY <2>1, <2>2 DEF WaterInv
 <2>4. ~s.req.to BY <1>0, <2>2, <2>3 DEF Tokenless
 <2>5. StateOK(s.st, {}) BY <1>6, <2>2 DEF Begin, KnownInv
 <2>6. UNCHANGED <<files, written, store, tmp, accounted>> BY <1>6 DEF Begin
 <2>7. ProcKnown(s) BY <2>2, <2>4, <2>5 DEF ProcKnown
 <2>8. ProcKnown(s)' BY <2>6, <2>7, ProcKnownGrows
 <2> QED BY <1>0, <1>4, <2>1, <2>2, <2>6, <2>8
<1>7. ASSUME NEW p \in Procs, WriteTmp(p) PROVE KnownInv'
 <2>1. PICK s : s = [proc[p] EXCEPT !.pc = "rename"] OBVIOUS
 <2>2. P = [proc EXCEPT ![p] = s] /\ M = proc[p].out /\ UNCHANGED <<files, written, store, accounted>>
   BY <1>0, <1>7, <2>1 DEF WriteTmp
 <2>3. StateOK(proc[p].out.st, proc[p].out.given) /\ SavingOK(proc[p])
   BY <1>7 DEF WriteTmp, WaterInv, KnownInv, ProcOK, ProcKnown
 <2>4. s.pc = "rename" /\ s.out = proc[p].out
  <3>1. proc[p] = [pc |-> proc[p].pc, req |-> proc[p].req, violations |-> proc[p].violations, out |-> proc[p].out]
    BY <2>3 DEF SavingOK
  <3> QED BY <2>1, <3>1
 <2>5. ProcKnown(s) BY <2>3, <2>4 DEF ProcKnown
 <2>6. ProcKnown(s)' BY <2>2, <2>5, ProcKnownGrows
 <2>7. StateOK(M.st, M.given)' BY <2>2, <2>3, StateGrows
 <2> QED BY <1>0, <1>4, <2>2, <2>6, <2>7
<1>8. ASSUME NEW p \in Procs, Rename(p) PROVE KnownInv'
 <2>1. /\ P = [proc EXCEPT ![p] = Idle] /\ S = tmp.st /\ M = None /\ tmp # None
       /\ accounted' = accounted \cup tmp.given /\ UNCHANGED <<files, written>> BY <1>0, <1>8 DEF Rename
 <2>2. StateOK(tmp.st, tmp.given) BY <2>1 DEF KnownInv
 <2>3. StateOK(S, {})' BY <2>1, <2>2, StateGrows
 <2> QED BY <1>4, <2>1, <2>3, IdleKnown
<1>9. ASSUME NEW p \in Procs, RenameFails(p) \/ Crash(p) PROVE KnownInv'
 <2>1. P = [proc EXCEPT ![p] = Idle] /\ UNCHANGED <<files, written, store, tmp, accounted>>
   BY <1>0, <1>9 DEF RenameFails, Crash
 <2> QED BY <1>0, <1>4, <2>1, IdleKnown
<1>10. ASSUME NEW p \in Procs, CursorStep(p) PROVE KnownInv'
  BY <1>5, <1>6, <1>7, <1>8, <1>9, <1>10, CreateKnown, ScanKnown, RescanKnown DEF CursorStep
<1> QED BY <1>1, <1>2, <1>3, <1>10 DEF CursorNext

LEMMA KnownBegins ==
  ASSUME CursorInit PROVE KnownInv
<1>2. PICK n \in 0..MaxRecords : UNION {{files[c][o] : o \in DOMAIN files[c]} : c \in Containers} = 1..n
  BY FilesAssumption DEF CursorInit
<1>3. n \in Nat /\ Cardinality(1..n) = n
 <2>1. n \in Nat BY AppendAssumption
 <2>2. Cardinality(1..n) = IF 1 > n THEN 0 ELSE n - 1 + 1 BY <2>1, FS_Interval
 <2> QED BY <2>1, <2>2
<1>4. written = n BY <1>2, <1>3 DEF CursorInit
<1>5. ASSUME NEW c \in Containers, NEW o \in DOMAIN files[c] PROVE files[c][o] \in 1..written
 <2>1. files[c][o] \in UNION {{files[k][x] : x \in DOMAIN files[k]} : k \in Containers} OBVIOUS
 <2> QED BY <1>2, <1>4, <2>1
<1>6. RecordsOK BY <1>3, <1>4, <1>5 DEF RecordsOK
<1>7. \A p \in Procs : ProcKnown(proc[p]) BY DEF CursorInit, ProcKnown, Idle
<1> QED BY <1>6, <1>7 DEF CursorInit, KnownInv

LEMMA KnownHolds ==
  ASSUME WaterInv, KnownInv PROVE NeverMisses
<1> SUFFICES ASSUME store # None, NEW c \in DOMAIN store.water \ Violated, NEW o \in DOMAIN files[c],
                    o <= store.water[c]
             PROVE  files[c][o] \in accounted BY DEF NeverMisses
<1>1. FilesOK /\ store.water \in Waters /\ StateOK(store, {}) BY DEF WaterInv, KnownInv
<1>2. Violated = {k \in Containers : Violating(store, k)} BY <1>1, ViolationsAre DEF Violated, StateOK
<1>3. c \in Containers BY <1>1, WatersDef
<1>4. c \in Observed(files) BY <1>1, <1>3 DEF Observed, FilesOK
<1>5. Kept(store, c) BY <1>2, <1>3, <1>4 DEF Violating
<1>6. files[c][o] \in Read(store, c) BY DEF Read
<1> QED BY <1>1, <1>5, <1>6 DEF StateOK

\* A command that runs was asked for.
Requested == \A p \in Procs : proc[p].pc # "idle" => proc[p].req \in Requests

LEMMA RequestedSteps ==
  ASSUME WaterInv, Requested, [CursorNext]_cursorVars PROVE Requested'
<1> SUFFICES ASSUME NEW q \in Procs, proc'[q].pc # "idle" PROVE proc'[q].req \in Requests BY DEF Requested
<1>0. proc[q].pc # "idle" => proc[q].req \in Requests BY DEF Requested
<1>1. CASE UNCHANGED proc BY <1>0, <1>1
<1>2. ASSUME NEW p \in Procs, NEW s, proc' = [proc EXCEPT ![p] = s], s.pc # "idle" => s.req \in Requests
      PROVE  proc'[q].req \in Requests BY <1>0, <1>2 DEF WaterInv
<1>3. ASSUME NEW c, Forget(c) PROVE proc'[q].req \in Requests
 <2>1. proc'[q] = IF proc[q].pc \in {"save", "rename"} THEN [proc[q] EXCEPT !.violations = @ \ {c}] ELSE proc[q]
   BY <1>3 DEF Forget
 <2>2. proc[q].pc \in {"save", "rename"} =>
         proc[q] = [pc |-> proc[q].pc, req |-> proc[q].req, violations |-> proc[q].violations, out |-> proc[q].out]
   BY DEF WaterInv, ProcOK, SavingOK
 <2> QED BY <1>0, <2>1, <2>2
<1>4. CASE FileStep \/ EditQuery \/ CursorRemove
  BY <1>1, <1>3, <1>4 DEF FileStep, EditQuery, CursorRemove, AppendTo, Replace, Truncate, Remove
<1>5. ASSUME NEW p \in Procs, CursorStep(p) PROVE proc'[q].req \in Requests
 <2>1. CASE CreateBegin(p)
  <3>1. PICK r \in Requests : proc' = [proc EXCEPT ![p] = [pc |-> "baseline", req |-> r, queries |-> query]]
    BY <2>1 DEF CreateBegin
  <3> QED BY <1>2, <3>1
 <2>2. CASE Begin(p)
  <3>1. PICK r \in Requests, a \in answers \cup {None} :
          proc' = [proc EXCEPT ![p] = [pc |-> "scan", req |-> r, ans |-> a, st |-> store, queries |-> query]]
    BY <2>2 DEF Begin
  <3> QED BY <1>2, <3>1
 <2>3. ASSUME proc' = [proc EXCEPT ![p] = Idle] PROVE proc'[q].req \in Requests BY <1>2, <2>3 DEF Idle
 <2>4. ASSUME NEW s, proc' = [proc EXCEPT ![p] = s], s.req = proc[p].req, proc[p].pc # "idle"
       PROVE  proc'[q].req \in Requests BY <1>2, <2>4 DEF Requested
 <2>5. CASE CreateScan(p) BY <2>4, <2>5 DEF CreateScan
 <2>6. ASSUME NEW found, NEW res0, Finish(p, found, res0), proc[p].pc # "idle" PROVE proc'[q].req \in Requests
   BY <2>3, <2>4, <2>6 DEF Finish, Peek, Halt, RefuseUnsafe, Advance
 <2>7. CASE Scan(p) BY <2>4, <2>6, <2>7 DEF Scan
 <2>8. CASE Rescan(p) BY <2>6, <2>8 DEF Rescan
 <2>9. CASE WriteTmp(p)
  <3>1. proc' = [proc EXCEPT ![p] = [proc[p] EXCEPT !.pc = "rename"]] /\ proc[p].pc = "save" BY <2>9 DEF WriteTmp
  <3>2. proc[p] = [pc |-> proc[p].pc, req |-> proc[p].req, violations |-> proc[p].violations, out |-> proc[p].out]
    BY <3>1 DEF WaterInv, ProcOK, SavingOK
  <3>3. [proc[p] EXCEPT !.pc = "rename"].req = proc[p].req BY <3>2
  <3> QED BY <2>4, <3>1, <3>3
 <2>10. CASE Rename(p) \/ RenameFails(p) \/ Crash(p) BY <2>3, <2>10 DEF Rename, RenameFails, Crash
 <2> QED BY <1>5, <2>1, <2>2, <2>5, <2>7, <2>8, <2>9, <2>10 DEF CursorStep
<1>6. CASE UNCHANGED cursorVars BY <1>1, <1>6 DEF cursorVars
<1> QED BY <1>4, <1>5, <1>6 DEF CursorNext

LEMMA OnlyRequests == CursorSpec => []Requested
<1>1. CursorInit => Requested BY DEF CursorInit, Requested, Idle
<1>2. WaterInv /\ Requested /\ [CursorNext]_cursorVars => Requested' BY RequestedSteps
<1> QED BY <1>1, <1>2, Positions, PTL DEF CursorSpec

LEMMA KnownStutters ==
  ASSUME KnownInv, UNCHANGED cursorVars PROVE KnownInv'
<1>0. PICK P, S, M : P = proc' /\ S = store' /\ M = tmp' OBVIOUS
<1> QED BY <1>0, KnownStays DEF cursorVars

\* Of one-step advances, for any number of commands that run at once, crash and are retried,
\* with every flag but --to, and whatever happens to the files but a replacement between
\* the two scans of one command: no record at or below the committed position was missed,
\* unless its file is reported as violating append-only.
THEOREM OneStepNeverMisses ==
  ASSUME ~RacyRescan, \A r \in Requests : ~r.to
  PROVE  CursorSpec => []NeverMisses
<1>1. CursorInit => KnownInv BY KnownBegins
<1>3. Requested' => Tokenless' BY DEF Requested, Tokenless
<1>4. WaterInv /\ WaterInv' /\ Requested' /\ KnownInv /\ [CursorNext]_cursorVars => KnownInv'
  BY <1>3, KnownSteps, KnownStutters
<1>5. WaterInv /\ KnownInv => NeverMisses BY KnownHolds
<1> QED BY <1>1, <1>4, <1>5, Positions, OnlyRequests, PTL DEF CursorSpec

-----------------------------------------------------------------------------
(* Append mode: what was disclosed is disclosed again.                     *)

\* Commands follow one another.
Alone == \A p, q \in Procs : proc[p].pc # "idle" /\ proc[q].pc # "idle" => p = q

\* What an advance is to commit loses no violator, and takes no acknowledgement back.
SavedOK(s) ==
  /\ ~s.req.accept => \A c \in held \cup s.violations : Violating(s.out.st, c)
  /\ s.req.accept => held \subseteq s.violations /\ \A c \in s.violations : Kept(s.out.st, c)
  /\ \A c \in cleared : Kept(s.out.st, c)

\* What a cursor file holds is not taken for the absence of one.
NoneIsNoState == DOMAIN None # {"water", "fp", "queries"}

\* A command that runs alone works on the position that is committed.
ProcHeld(s) ==
  /\ s.pc = "baseline" => store = None
  /\ s.pc \in {"scan", "rescan"} => store # None /\ s.st = store
  /\ s.pc \in {"save", "rename"} => SavedOK(s) /\ s.out.st # None
  /\ s.pc = "rename" => tmp = s.out

HeldInv ==
  /\ store = None => held = {} /\ cleared = {}
  /\ store # None => (\A c \in held : Violating(store, c)) /\ (\A c \in cleared : Kept(store, c))
  /\ held \subseteq Containers
  /\ \A p \in Procs : ProcHeld(proc[p])

LEMMA HeldNext ==
  ASSUME NEW P, P = proc', NEW S, S = store', NEW H, H = held', NEW C, C = cleared',
         S = None => H = {} /\ C = {}, S # None => (\A c \in H : Violating(S, c)') /\ (\A c \in C : Kept(S, c)'),
         H \subseteq Containers, \A p \in Procs : ProcHeld(P[p])'
  PROVE  HeldInv'
<1>1. ASSUME NEW p \in Procs PROVE ProcHeld(proc[p])'
 <2>1. ProcHeld(P[p])' /\ P[p] = proc'[p] OBVIOUS
 <2>2. (proc[p].pc \in {"save", "rename"} => SavedOK(proc[p]) /\ proc[p].out.st # None)'
   BY ONLY <2>1 DEF ProcHeld, SavedOK, Violating, Kept, BoundaryKept, Observed
 <2>3. /\ (proc[p].pc = "baseline" => store = None)'
       /\ (proc[p].pc \in {"scan", "rescan"} => store # None /\ proc[p].st = store)'
       /\ (proc[p].pc = "rename" => tmp = proc[p].out)' BY ONLY <2>1 DEF ProcHeld
 <2> QED BY ONLY <2>2, <2>3 DEF ProcHeld
<1>2. store' = None => held' = {} /\ cleared' = {} OBVIOUS
<1>3. store' # None => (\A c \in held : Violating(store, c))' BY DEF Violating, Kept, BoundaryKept, Observed
<1>4. store' # None => (\A c \in cleared : Kept(store, c))' BY DEF Kept, BoundaryKept
<1> QED BY <1>1, <1>2, <1>3, <1>4 DEF HeldInv

\* One command's step, that leaves the files as they are.
LEMMA HeldStays ==
  ASSUME WaterInv, HeldInv, Alone, Alone', UNCHANGED files,
         NEW p \in Procs, NEW s, proc' = [proc EXCEPT ![p] = s], proc[p].pc # "idle" \/ s.pc # "idle",
         NEW S, S = store', NEW H, H = held', NEW C, C = cleared', H \subseteq Containers,
         S = None => H = {} /\ C = {}, S # None => (\A c \in H : Violating(S, c)) /\ (\A c \in C : Kept(S, c)),
         ProcHeld(s)'
  PROVE  HeldInv'
<1>0. PICK P : P = proc' OBVIOUS
<1>1. \A c : Violating(S, c)' = Violating(S, c) /\ Kept(S, c)' = Kept(S, c)
  BY DEF Violating, Kept, BoundaryKept, Observed
<1>2. P[p] = s /\ \A q \in Procs \ {p} : P[q] = proc[q] BY <1>0 DEF WaterInv
<1>3. ASSUME NEW q \in Procs \ {p} PROVE P[q].pc = "idle" BY <1>0, <1>2, <1>3 DEF Alone
<1>4. ASSUME NEW q \in Procs PROVE ProcHeld(P[q])'
 <2>1. CASE q = p BY <1>2, <2>1
 <2>2. CASE q # p
  <3>1. P[q].pc = "idle" BY <1>3, <2>2
  <3> QED BY <3>1 DEF ProcHeld
 <2> QED BY <2>1, <2>2
<1> QED BY <1>0, <1>1, <1>4, HeldNext

\* What the writers' step does not touch stays kept, or stays violating.
LEMMA MarksStay ==
  ASSUME FilesOK, FilesOK', RecordsOK, NEW c \in Containers,
         AppendTo(c) \/ Replace(c) \/ Truncate(c) \/ Remove(c),
         NEW k \in Containers, AppendTo(c) \/ k # c, NEW st, k \in DOMAIN st.fp => st.fp[k] \in 1..written
  PROVE  /\ Kept(st, k)' <=> Kept(st, k)
         /\ k \in Observed(files) => k \in Observed(files)'
<1>1. \A o \in DOMAIN files[k] : o \in DOMAIN files'[k] /\ files'[k][o] = files[k][o]
 <2>1. CASE AppendTo(c)
  <3>1. PICK n \in Offsets :
          (\A x \in DOMAIN files[c] : x < n) /\ files' = [files EXCEPT ![c] = Write(files[c], {n})]
    BY <2>1 DEF AppendTo
  <3>2. n \notin DOMAIN files[c] BY <3>1, AppendAssumption DEF Offsets
  <3>3. files'[k] = IF k = c THEN Write(files[c], {n}) ELSE files[k] BY <3>1 DEF FilesOK
  <3> QED BY <3>2, <3>3 DEF Write
 <2>2. CASE k # c BY <2>2 DEF FilesOK, AppendTo, Replace, Truncate, Remove
 <2> QED BY <2>1, <2>2
<1>2. Kept(st, k) => Kept(st, k)' BY <1>1 DEF Kept, BoundaryKept
<1>3. Kept(st, k)' => Kept(st, k) BY KeptBefore DEF FileStep
<1>4. k \in Observed(files) => k \in Observed(files)' BY <1>1 DEF Observed, FilesOK
<1> QED BY <1>2, <1>3, <1>4

LEMMA FilesHeld ==
  ASSUME WaterInv, WaterInv', KnownInv, HeldInv, ~RacyRescan, FileStep PROVE HeldInv'
<1>0. PICK P, S, H, C : P = proc' /\ S = store' /\ H = held' /\ C = cleared' OBVIOUS
<1>1. FilesOK /\ FilesOK' /\ RecordsOK BY DEF WaterInv, KnownInv
<1>2. PICK c \in Containers : AppendTo(c) \/ Replace(c) \/ Truncate(c) \/ Remove(c) BY DEF FileStep
<1>3. UNCHANGED <<store, tmp>> BY <1>2 DEF AppendTo, Replace, Truncate, Remove
<1>4. AppendTo(c) \/ Forget(c) BY <1>2 DEF Replace, Truncate, Remove
<1> DEFINE stays(k) == AppendTo(c) \/ k # c
<1>5. H = {k \in held : stays(k)} /\ C = {k \in cleared : stays(k)}
 <2>1. CASE AppendTo(c) BY <1>0, <2>1 DEF AppendTo
 <2>2. CASE Forget(c) /\ ~AppendTo(c) BY <1>0, <2>2 DEF Forget
 <2> QED BY <1>4, <2>1, <2>2
<1>6. ASSUME NEW st, NEW given, StateOK(st, given), st.water \in Waters,
             NEW k, stays(k)
      PROVE  /\ Violating(st, k) => Violating(st, k)'
             /\ Kept(st, k) => Kept(st, k)'
 <2>1. ASSUME Violating(st, k) \/ Kept(st, k) PROVE k \in Containers /\ (k \in DOMAIN st.fp => st.fp[k] \in 1..written)
   BY <1>6, <2>1, WatersDef DEF Violating, Kept, StateOK
 <2> QED BY <1>1, <1>2, <1>6, <2>1, MarksStay DEF Violating
<1>7. S # None => (\A k \in H : Violating(S, k)') /\ (\A k \in C : Kept(S, k)')
 <2> SUFFICES ASSUME S # None PROVE (\A k \in H : Violating(S, k)') /\ (\A k \in C : Kept(S, k)') OBVIOUS
 <2>1. StateOK(S, {}) /\ S.water \in Waters BY <1>0, <1>3 DEF WaterInv, KnownInv
 <2>2. (\A k \in held : Violating(S, k)) /\ (\A k \in cleared : Kept(S, k)) BY <1>0, <1>3 DEF HeldInv
 <2> QED BY <1>5, <1>6, <2>1, <2>2
<1>8. S = None => H = {} /\ C = {} BY <1>0, <1>3, <1>5 DEF HeldInv
<1>9. H \subseteq Containers BY <1>5 DEF HeldInv
<1>10. ASSUME NEW q \in Procs PROVE ProcHeld(P[q])'
 <2>0. ProcOK(proc[q]) /\ ProcKnown(proc[q]) /\ ProcHeld(proc[q]) BY DEF WaterInv, KnownInv, HeldInv
 <2>1. PICK s : s = proc[q] OBVIOUS
 <2>2. CASE s.pc \in {"save", "rename"}
  <3>1. /\ P[q].pc = s.pc /\ P[q].req = s.req /\ P[q].out = s.out
        /\ P[q].violations = {k \in s.violations : stays(k)}
   <4>1. CASE AppendTo(c)
    <5>1. P[q] = s BY <1>0, <2>1, <4>1 DEF AppendTo
    <5>2. {k \in s.violations : stays(k)} = s.violations BY <4>1
    <5> QED BY <5>1, <5>2
   <4>2. CASE Forget(c) /\ ~AppendTo(c)
    <5>1. P[q] = [s EXCEPT !.violations = @ \ {c}] BY <1>0, <2>1, <2>2, <4>2 DEF Forget
    <5>2. s = [pc |-> s.pc, req |-> s.req, violations |-> s.violations, out |-> s.out]
      BY <2>0, <2>1, <2>2 DEF ProcOK, SavingOK
    <5>3. P[q] = [pc |-> s.pc, req |-> s.req, violations |-> s.violations \ {c}, out |-> s.out] BY <5>1, <5>2
    <5>4. {k \in s.violations : stays(k)} = s.violations \ {c} BY <4>2
    <5> QED BY <5>3, <5>4
   <4> QED BY <1>4, <4>1, <4>2
  <3>2. StateOK(s.out.st, s.out.given) /\ s.out.st.water \in Waters
    BY <2>0, <2>1, <2>2 DEF ProcKnown, ProcOK, SavingOK, OutOK
  <3>3. SavedOK(s) BY <2>0, <2>1, <2>2 DEF ProcHeld
  <3>4. ~s.req.accept => \A k \in H \cup P[q].violations : Violating(s.out.st, k)'
    BY <1>5, <1>6, <3>1, <3>2, <3>3 DEF SavedOK
  <3>5. s.req.accept => H \subseteq P[q].violations /\ \A k \in P[q].violations : Kept(s.out.st, k)'
   <4> SUFFICES ASSUME s.req.accept
                PROVE  H \subseteq P[q].violations /\ \A k \in P[q].violations : Kept(s.out.st, k)' OBVIOUS
   <4>1. held \subseteq s.violations /\ \A k \in s.violations : Kept(s.out.st, k) BY <3>3 DEF SavedOK
   <4> QED BY <1>5, <1>6, <3>1, <3>2, <4>1
  <3>6. \A k \in C : Kept(s.out.st, k)' BY <1>5, <1>6, <3>2, <3>3 DEF SavedOK
  <3>7. PICK st : st = s.out.st OBVIOUS
  <3>8. /\ P[q].out.st = st
        /\ ~P[q].req.accept => \A k \in held' \cup P[q].violations : Violating(st, k)'
        /\ P[q].req.accept => held' \subseteq P[q].violations /\ \A k \in P[q].violations : Kept(st, k)'
        /\ \A k \in cleared' : Kept(st, k)' BY <1>0, <3>1, <3>4, <3>5, <3>6, <3>7
  <3>9. SavedOK(P[q])' BY <3>8 DEF SavedOK, Violating, Kept, BoundaryKept, Observed
  <3>10. P[q].pc = "rename" => tmp' = P[q].out BY <1>3, <2>0, <2>1, <3>1 DEF ProcHeld
  <3> QED BY <2>0, <2>1, <2>2, <3>1, <3>9, <3>10 DEF ProcHeld
 <2>3. CASE s.pc \notin {"save", "rename"}
  <3>1. P[q] = s BY <1>0, <1>4, <2>1, <2>3 DEF AppendTo, Forget
  <3> QED BY <1>3, <2>0, <2>1, <2>3, <3>1 DEF ProcHeld
 <2> QED BY <2>2, <2>3
<1> QED BY <1>0, <1>7, <1>8, <1>9, <1>10, HeldNext

LEMMA FinishHeld ==
  ASSUME WaterInv, KnownInv, HeldInv, Alone, Alone', NoneIsNoState, NEW p \in Procs, NEW found, NEW since,
         proc[p].pc # "idle", store # None, proc[p].st = store,
         LoadedOK(proc[p]), StateOK(proc[p].st, {}), ~proc[p].req.to,
         found.violations = {c \in Containers : Violating(proc[p].st, c)},
         found.rotated \cap Observed(files) = {},
         \/ since = proc[p].st.water /\ found.truncated = Truncated(proc[p].st.water, files)
         \/ Isolates(proc[p].req) /\ since = QuarantineWater(proc[p].st.water, found.violations),
         Finish(p, found, RunCursorPack(since)), UNCHANGED <<files, written, query, store>>
  PROVE  HeldInv'
<1> DEFINE res == IF Isolates(proc[p].req) THEN Isolate(RunCursorPack(since), proc[p].st.water, found.violations)
                                           ELSE RunCursorPack(since)
           r == proc[p].req
           st == proc[p].st
           V == found.violations
<1>0. PICK S, H, C : S = store' /\ H = held' /\ C = cleared' OBVIOUS
<1>1. Peek(p, found, res) \/ Halt(p, found) \/ RefuseUnsafe(p, found, res) \/ Advance(p, found, res) BY DEF Finish
<1>2. /\ S = store /\ S # None /\ UNCHANGED files
      /\ \A c \in held : Violating(S, c) /\ c \in Containers
      /\ \A c \in cleared : Kept(S, c)
      /\ \A c \in V : Violating(S, c) /\ c \in Containers BY <1>0 DEF HeldInv
<1>3. CASE proc' = [proc EXCEPT ![p] = Idle] /\ held' \in {held, held \cup V} /\ cleared' = cleared
 <2>1. ProcHeld(Idle)' BY DEF ProcHeld, Idle
 <2>2. (\A c \in H : Violating(S, c) /\ c \in Containers) /\ (\A c \in C : Kept(S, c)) BY <1>0, <1>2, <1>3
 <2> QED BY <1>0, <1>2, <1>3, <2>1, <2>2, HeldStays
<1>4. CASE Advance(p, found, res)
 <2> DEFINE water == Position(p, found, res)
            new == [pc |-> "save", req |-> r, violations |-> V,
                    out |-> [st |-> [water |-> water, queries |-> proc[p].queries,
                                     fp |-> WaterFPMerge(water, res.observed, res.fp, st.water, st.fp)],
                             given |-> (IF r.to /\ r.quiet THEN {} ELSE res.rows)
                                         \cup (IF r.accept THEN Behind(st.water, V) ELSE {}),
                             base |-> st.water, asked |-> AskedFor(r, found), expect |-> r.expect]]
 <2>1. /\ proc' = [proc EXCEPT ![p] = new] /\ held' = held /\ cleared' = cleared
       /\ Isolates(r) \/ r.accept \/ V = {} BY <1>4 DEF Advance
 <2>2. ScanFacts(proc[p], found, since) BY <2>1 DEF ScanFacts
 <2>3. PICK s, o, given, rs : s = new /\ o = new.out.st /\ given = new.out.given /\ rs = res OBVIOUS
 <2>4. /\ s.pc = "save" /\ s.req = r /\ s.violations = V /\ s.out.st = o
       /\ o.water = water /\ o.fp = WaterFPMerge(o.water, rs.observed, rs.fp, st.water, st.fp)
       /\ rs.rows \subseteq given /\ (r.accept => Behind(st.water, V) \subseteq given) BY <2>3
 <2>5. o # None
  <3>1. DOMAIN o = {"water", "fp", "queries"} BY <2>3
  <3> QED BY <3>1 DEF NoneIsNoState
 <2>6. rs = IF Isolates(r) THEN Isolate(RunCursorPack(since), st.water, V) ELSE RunCursorPack(since) BY <2>3
 <2>7. o.water = Position(p, found, rs) BY <2>3
 <2> HIDE DEF new, res, water
 <2>8. FilesOK /\ RecordsOK /\ st.water \in Waters BY DEF WaterInv, KnownInv, LoadedOK
 <2>9. Commits(st, r.accept, V, o, given) BY <2>2, <2>4, <2>6, <2>7, <2>8, CommitOK
 <2>10. \A c \in cleared : c \in Containers
  <3>1. S = st /\ DOMAIN st.water \subseteq Containers BY <1>0, <2>8, WatersDef
  <3> QED BY <1>2, <3>1 DEF Kept
 <2>11. held \subseteq V BY <1>2, <1>0
 <2>12. SavedOK(s) BY <1>0, <1>2, <2>4, <2>9, <2>10, <2>11 DEF SavedOK, Commits
 <2>13. SavedOK(s)' BY ONLY Zenon, <2>1, <2>12, <1>2 DEF SavedOK, Violating, Kept, BoundaryKept, Observed
 <2>14. ProcHeld(s)' BY <2>4, <2>13, <2>5 DEF ProcHeld
 <2>15. (\A c \in H : Violating(S, c) /\ c \in Containers) /\ (\A c \in C : Kept(S, c)) BY <1>0, <1>2, <2>1
 <2> QED BY <1>0, <1>2, <2>1, <2>3, <2>14, <2>15, HeldStays
<1> QED BY <1>1, <1>3, <1>4 DEF Peek, Halt, RefuseUnsafe

\* One command after the other, none of which removes the cursor.
LEMMA HeldSteps ==
  ASSUME WaterInv, WaterInv', KnownInv, HeldInv, Alone, Alone', ~RacyRescan, NoneIsNoState,
         FileStep \/ EditQuery \/ \E p \in Procs : CursorStep(p)
  PROVE  HeldInv'
<1>0. PICK S, H, C : S = store' /\ H = held' /\ C = cleared' OBVIOUS
<1>1. CASE FileStep BY <1>1, FilesHeld
<1>2. CASE EditQuery
 <2>1. PICK P : P = proc' OBVIOUS
 <2>2. /\ \A p \in Procs : P[p] = proc[p]
       /\ S = store /\ H = held /\ C = cleared /\ UNCHANGED <<files, store, tmp, held, cleared>>
   BY <1>0, <1>2, <2>1 DEF EditQuery
 <2>3. S # None => (\A c \in H : Violating(S, c)') /\ (\A c \in C : Kept(S, c)')
   BY <2>2 DEF HeldInv, Violating, Kept, BoundaryKept, Observed
 <2>4. ASSUME NEW p \in Procs PROVE ProcHeld(P[p])'
  <3>1. PICK s : s = proc[p] /\ s = P[p] BY <2>2
  <3>2. ProcHeld(s) BY <3>1 DEF HeldInv
  <3>3. ProcHeld(s)' BY <2>2, <3>2 DEF ProcHeld, SavedOK, Violating, Kept, BoundaryKept, Observed
  <3> QED BY <3>1, <3>3 DEF ProcHeld, SavedOK
 <2> QED BY <1>0, <2>1, <2>2, <2>3, <2>4, HeldNext DEF HeldInv
<1>3. ASSUME NEW p \in Procs, UNCHANGED <<files, store, held, cleared>>,
             NEW s, proc' = [proc EXCEPT ![p] = s], proc[p].pc # "idle" \/ s.pc # "idle", ProcHeld(s)'
      PROVE  HeldInv'
 <2>1. S = store /\ H = held /\ C = cleared BY <1>0, <1>3
 <2> QED BY <1>0, <1>3, <2>1, HeldStays DEF HeldInv
<1>4. ASSUME NEW p \in Procs, CursorStep(p) PROVE HeldInv'
 <2>0. ProcOK(proc[p]) /\ ProcKnown(proc[p]) /\ ProcHeld(proc[p]) BY DEF WaterInv, KnownInv, HeldInv
 <2>1. CASE CreateBegin(p)
  <3>1. PICK r \in Requests : proc' = [proc EXCEPT ![p] = [pc |-> "baseline", req |-> r, queries |-> query]]
    BY <2>1 DEF CreateBegin
  <3>2. PICK s : s = [pc |-> "baseline", req |-> r, queries |-> query] OBVIOUS
  <3>3. ProcHeld(s)' BY <2>1, <3>2 DEF CreateBegin, ProcHeld
  <3> QED BY <1>3, <2>1, <3>1, <3>2, <3>3 DEF CreateBegin
 <2>2. CASE CreateScan(p)
  <3>1. PICK s : proc' = [proc EXCEPT ![p] = s] /\ s.pc = "save" /\ s.violations = {} /\ s.out.st # None
   <4> DEFINE res == RunCursorPack(Empty)
              fp == WaterFPMerge(res.water, res.observed, res.fp, Empty, Empty)
              now == [water |-> res.water, fp |-> fp, queries |-> proc[p].queries]
              beginning == [now EXCEPT !.water = Empty, !.fp = Empty]
              start == proc[p].req.start
              out == [st |-> IF start THEN beginning ELSE now, given |-> IF start THEN {} ELSE res.rows,
                      base |-> None, asked |-> {}, expect |-> FALSE]
              new == [pc |-> "save", req |-> proc[p].req, violations |-> {}, out |-> out]
   <4>1. proc' = [proc EXCEPT ![p] = new] BY <2>2 DEF CreateScan
   <4> HIDE DEF res, fp
   <4>2. DOMAIN now = {"water", "fp", "queries"} /\ DOMAIN beginning = DOMAIN now OBVIOUS
   <4>3. beginning # None /\ now # None BY <4>2 DEF NoneIsNoState
   <4> HIDE DEF now, beginning
   <4>4. new.pc = "save" /\ new.violations = {} /\ new.out.st # None BY <4>3
   <4> QED BY <4>1, <4>4
  <3>2. held = {} /\ cleared = {} /\ UNCHANGED <<files, store, held, cleared>> /\ proc[p].pc # "idle"
    BY <2>0, <2>2 DEF CreateScan, ProcHeld, HeldInv
  <3>3. ProcHeld(s)' BY <3>1, <3>2 DEF ProcHeld, SavedOK
  <3> QED BY <1>3, <3>1, <3>2, <3>3
 <2>3. CASE Begin(p)
  <3>1. PICK r \in Requests, a \in answers \cup {None} :
          proc' = [proc EXCEPT ![p] = [pc |-> "scan", req |-> r, ans |-> a, st |-> store, queries |-> query]]
    BY <2>3 DEF Begin
  <3>2. PICK s : s = [pc |-> "scan", req |-> r, ans |-> a, st |-> store, queries |-> query] OBVIOUS
  <3>3. ProcHeld(s)' BY <2>3, <3>2 DEF Begin, ProcHeld
  <3> QED BY <1>3, <2>3, <3>1, <3>2, <3>3 DEF Begin
 <2>4. CASE Scan(p)
  <3> DEFINE st == proc[p].st
             found == SourceAnomalies(st.water, st.fp)
  <3>1. LoadedOK(proc[p]) /\ StateOK(st, {}) /\ ~proc[p].req.to /\ store # None /\ st = store
    BY <2>0, <2>4 DEF Scan, ProcOK, ProcKnown, ProcHeld
  <3>2. FilesOK /\ st.water \in Waters /\ \A c \in DOMAIN st.water : c \in DOMAIN st.fp
    BY <3>1 DEF WaterInv, LoadedOK, StateOK
  <3>3. /\ found.violations = {c \in Containers : Violating(st, c)}
        /\ found.rotated \cap Observed(files) = {}
        /\ found.truncated = Truncated(st.water, files) BY <3>2, ViolationsAre
  <3>4. UNCHANGED <<files, written, query, store>> /\ proc[p].pc # "idle" BY <2>4 DEF Scan
  <3>5. CASE NeedsRescan(proc[p].req, found)
   <4>1. /\ UNCHANGED <<held, cleared>>
         /\ proc' = [proc EXCEPT ![p] = [pc |-> "rescan", req |-> proc[p].req, ans |-> proc[p].ans, st |-> st,
                                         queries |-> proc[p].queries, found |-> found]] BY <2>4, <3>5 DEF Scan
   <4>2. PICK s : s = [pc |-> "rescan", req |-> proc[p].req, ans |-> proc[p].ans, st |-> st,
                       queries |-> proc[p].queries, found |-> found] OBVIOUS
   <4>3. s.pc = "rescan" /\ s.st = store BY <3>1, <4>2
   <4>4. ProcHeld(s)' BY <3>1, <3>4, <4>3 DEF ProcHeld
   <4> QED BY <1>3, <3>4, <4>1, <4>2, <4>4
  <3>6. CASE ~NeedsRescan(proc[p].req, found)
   <4>1. Finish(p, found, RunCursorPack(st.water)) BY <2>4, <3>6 DEF Scan
   <4> HIDE DEF found
   <4> QED BY <3>1, <3>3, <3>4, <4>1, FinishHeld
  <3> QED BY <3>5, <3>6
 <2>5. CASE Rescan(p)
  <3>1. /\ LoadedOK(proc[p]) /\ StateOK(proc[p].st, {}) /\ ~proc[p].req.to /\ Isolates(proc[p].req)
        /\ FoundNow(proc[p]) /\ store # None /\ proc[p].st = store /\ proc[p].pc # "idle"
    BY <2>0, <2>5 DEF Rescan, ProcOK, ProcKnown, ProcHeld
  <3>2. Finish(p, proc[p].found, RunCursorPack(QuarantineWater(proc[p].st.water, proc[p].found.violations)))
          /\ UNCHANGED <<files, written, query, store>> BY <2>5 DEF Rescan
  <3> QED BY <3>1, <3>2, FinishHeld DEF FoundNow
 <2>6. CASE WriteTmp(p)
  <3>1. PICK s : s = [proc[p] EXCEPT !.pc = "rename"] OBVIOUS
  <3>2. /\ proc' = [proc EXCEPT ![p] = s] /\ tmp' = proc[p].out /\ UNCHANGED <<files, store, held, cleared>>
        /\ proc[p].pc # "idle" /\ SavingOK(proc[p]) /\ SavedOK(proc[p])
        /\ proc[p].out.st # None BY <2>0, <2>6, <3>1 DEF WriteTmp, ProcOK, ProcHeld
  <3>3. s.pc = "rename" /\ s.out = proc[p].out /\ s.req = proc[p].req /\ s.violations = proc[p].violations
   <4>1. proc[p] = [pc |-> proc[p].pc, req |-> proc[p].req, violations |-> proc[p].violations, out |-> proc[p].out]
     BY <3>2 DEF SavingOK
   <4> QED BY <3>1, <4>1
  <3>4. SavedOK(s) BY <3>2, <3>3 DEF SavedOK
  <3>5. SavedOK(s)' BY <3>2, <3>4 DEF SavedOK, Violating, Kept, BoundaryKept, Observed
  <3>6. ProcHeld(s)' BY <3>2, <3>3, <3>5 DEF ProcHeld
  <3> QED BY <1>3, <3>2, <3>6
 <2>7. CASE Rename(p)
  <3>1. /\ S = tmp.st /\ tmp = proc[p].out /\ proc' = [proc EXCEPT ![p] = Idle] /\ UNCHANGED files
        /\ H = IF proc[p].req.accept THEN held \ proc[p].violations ELSE held \cup proc[p].violations
        /\ C = IF proc[p].req.accept THEN cleared \cup proc[p].violations ELSE cleared
        /\ SavedOK(proc[p]) /\ proc[p].pc # "idle" /\ S # None BY <1>0, <2>0, <2>7 DEF Rename, ProcHeld
  <3>2. (\A c \in H : Violating(S, c)) /\ (\A c \in C : Kept(S, c)) BY <3>1 DEF SavedOK
  <3>4. H \subseteq Containers
   <4>1. tmp # None BY <2>7 DEF Rename
   <4>2. DOMAIN S.water \subseteq Containers BY <3>1, <4>1, WatersDef DEF WaterInv, OutOK
   <4> QED BY <3>2, <4>2 DEF Violating
  <3>5. ProcHeld(Idle)' BY DEF ProcHeld, Idle
  <3> QED BY <1>0, <3>1, <3>2, <3>4, <3>5, HeldStays
 <2>8. CASE RenameFails(p) \/ Crash(p)
  <3>1. ProcHeld(Idle)' BY DEF ProcHeld, Idle
  <3> QED BY <1>3, <2>8, <3>1 DEF RenameFails, Crash
 <2> QED BY <1>4, <2>1, <2>2, <2>3, <2>4, <2>5, <2>6, <2>7, <2>8 DEF CursorStep
<1> QED BY <1>1, <1>2, <1>4

LEMMA HeldHolds ==
  ASSUME WaterInv, KnownInv, HeldInv PROVE ReDisclosed /\ AcceptClears
<1> SUFFICES ASSUME store # None PROVE held \subseteq Violated /\ cleared \cap Violated = {}
  BY DEF ReDisclosed, AcceptClears
<1>1. FilesOK /\ store.water \in Waters /\ StateOK(store, {}) BY DEF WaterInv, KnownInv
<1>2. Violated = {k \in Containers : Violating(store, k)} BY <1>1, ViolationsAre DEF Violated, StateOK
<1> QED BY <1>2 DEF HeldInv, Violating

LEMMA HeldStutters == ASSUME HeldInv, UNCHANGED cursorVars PROVE HeldInv'
<1>0. PICK P, S, H, C : P = proc' /\ S = store' /\ H = held' /\ C = cleared' OBVIOUS
<1>1. /\ P = proc /\ S = store /\ H = held /\ C = cleared /\ UNCHANGED <<files, store, tmp, held, cleared>>
  BY <1>0 DEF cursorVars
<1>2. S # None => (\A c \in H : Violating(S, c)') /\ (\A c \in C : Kept(S, c)')
  BY <1>1 DEF HeldInv, Violating, Kept, BoundaryKept, Observed
<1>3. ASSUME NEW p \in Procs PROVE ProcHeld(P[p])'
 <2>1. ProcHeld(P[p]) BY <1>1 DEF HeldInv
 <2> QED BY <1>1, <2>1 DEF ProcHeld, SavedOK, Violating, Kept, BoundaryKept, Observed
<1> QED BY <1>0, <1>1, <1>2, <1>3, HeldNext DEF HeldInv

\* Of one-step advances by commands that follow one another, for any number of commands,
\* crashes and files that are replaced, cut short or deleted: a violator that was disclosed
\* and not acknowledged is disclosed by every later scan, and one that was acknowledged is
\* not reported again.
THEOREM OneStepDiscloses ==
  ASSUME ~RacyRescan, NoneIsNoState, \A r \in Requests : ~r.to /\ r.verb # "rm", \A p, q \in Procs : p = q
  PROVE  CursorSpec => [](ReDisclosed /\ AcceptClears)
<1>1. CursorInit => KnownInv /\ HeldInv
 <2>1. CursorInit => HeldInv BY DEF CursorInit, HeldInv, ProcHeld, Idle
 <2> QED BY <2>1, KnownBegins
<1>2. Requested' => Tokenless' BY DEF Requested, Tokenless
<1>3. WaterInv /\ WaterInv' /\ Requested' /\ KnownInv /\ [CursorNext]_cursorVars => KnownInv'
  BY <1>2, KnownSteps, KnownStutters
<1>4. WaterInv /\ WaterInv' /\ KnownInv /\ HeldInv /\ [CursorNext]_cursorVars => HeldInv'
 <2>1. Alone /\ Alone' /\ ~CursorRemove BY DEF Alone, CursorRemove
 <2> QED BY <2>1, HeldSteps, HeldStutters DEF CursorNext
<1>5. WaterInv /\ KnownInv /\ HeldInv => ReDisclosed /\ AcceptClears BY HeldHolds
<1> QED BY <1>1, <1>3, <1>4, <1>5, Positions, OnlyRequests, PTL DEF CursorSpec

-----------------------------------------------------------------------------
(* Append mode: tokens, over files that only grow.                         *)

\* Every mark is at a record, and every record up to a mark was delivered, or is in given.
Consumed(w, given) ==
  \A c \in DOMAIN w : /\ w[c] \in DOMAIN files[c]
                      /\ \A o \in DOMAIN files[c] : o <= w[c] => files[c][o] \in accounted \cup given

\* A position that was, or is to be, committed; where it has a fingerprint, it is the record's.
Sound(st, given) ==
  /\ Consumed(st.water, given)
  /\ \A c \in DOMAIN st.fp : c \in DOMAIN st.water /\ st.fp[c] = files[c][st.water[c]]

ProcSound(s) ==
  /\ s.pc \in {"scan", "rescan"} => Sound(s.st, {})
  /\ s.pc \in {"scan", "rescan"} /\ s.req.to => Consumed(s.ans.to, {}) /\ DOMAIN s.ans.to # {}
  /\ s.pc # "rescan"
  /\ s.pc \in {"save", "rename"} => Sound(s.out.st, s.out.given) /\ s.violations = {}

TokenInv ==
  /\ Observed(files) # {}
  /\ store # None => Sound(store, {})
  /\ tmp # None => Sound(tmp.st, tmp.given)
  /\ \A a \in answers : Consumed(a.to, {}) /\ DOMAIN a.to # {}
  /\ \A p \in Procs : ProcSound(proc[p])
  /\ held = {} /\ cleared = {}

LEMMA SoundNext ==
  ASSUME NEW P, P = proc', NEW S, S = store', NEW M, M = tmp', NEW A, A = answers',
         Observed(files)' # {}, S # None => Sound(S, {})', M # None => Sound(M.st, M.given)',
         \A a \in A : Consumed(a.to, {})' /\ DOMAIN a.to # {}, \A p \in Procs : ProcSound(P[p])',
         held' = {}, cleared' = {}
  PROVE  TokenInv'
BY DEF TokenInv, ProcSound, Sound, Consumed, Observed

LEMMA ConsumedGrows ==
  ASSUME NEW w, NEW given, NEW more, Consumed(w, given), UNCHANGED files,
         accounted \cup given \subseteq accounted' \cup more
  PROVE  Consumed(w, more)'
BY DEF Consumed

LEMMA SoundGrows ==
  ASSUME NEW st, NEW given, NEW more, Sound(st, given), UNCHANGED files,
         accounted \cup given \subseteq accounted' \cup more
  PROVE  Sound(st, more)'
<1>1. Consumed(st.water, more)' BY ConsumedGrows DEF Sound
<1> QED BY <1>1 DEF Sound

LEMMA ProcSoundGrows ==
  ASSUME NEW s, ProcSound(s), UNCHANGED files, accounted \subseteq accounted'
  PROVE  ProcSound(s)'
<1>1. s.pc \in {"scan", "rescan"} => Sound(s.st, {})' BY SoundGrows DEF ProcSound
<1>2. s.pc \in {"save", "rename"} => Sound(s.out.st, s.out.given)' BY SoundGrows DEF ProcSound
<1>3. s.pc \in {"scan", "rescan"} /\ s.req.to => Consumed(s.ans.to, {})' BY ConsumedGrows DEF ProcSound
<1> QED BY <1>1, <1>2, <1>3 DEF ProcSound

LEMMA SoundStays ==
  ASSUME TokenInv, UNCHANGED files, accounted \subseteq accounted',
         NEW P, P = proc', NEW S, S = store', NEW M, M = tmp', NEW A, A = answers',
         S = store \/ S = None \/ Sound(S, {})', M = tmp \/ M = None \/ Sound(M.st, M.given)',
         \A a \in A : a \in answers \/ (Consumed(a.to, {})' /\ DOMAIN a.to # {}),
         \A p \in Procs : P[p] = proc[p] \/ ProcSound(P[p])', held' = {}, cleared' = {}
  PROVE  TokenInv'
<1>1. Observed(files)' # {} BY DEF TokenInv, Observed
<1>2. S # None => Sound(S, {})' BY SoundGrows DEF TokenInv
<1>3. M # None => Sound(M.st, M.given)' BY SoundGrows DEF TokenInv
<1>4. \A a \in A : Consumed(a.to, {})' /\ DOMAIN a.to # {} BY ConsumedGrows DEF TokenInv
<1>5. \A p \in Procs : ProcSound(P[p])' BY ProcSoundGrows DEF TokenInv
<1> QED BY <1>1, <1>2, <1>3, <1>4, <1>5, SoundNext

LEMMA IdleSound == ProcSound(Idle)'
BY DEF ProcSound, Idle

\* An append reaches no record that a mark covers.
LEMMA ConsumedStays ==
  ASSUME FilesOK, NEW c \in Containers, AppendTo(c), NEW w, NEW given, DOMAIN w \subseteq Containers,
         Consumed(w, given)
  PROVE  /\ Consumed(w, given)'
         /\ \A k \in DOMAIN w : files'[k][w[k]] = files[k][w[k]]
<1>1. PICK n \in Offsets :
        (\A x \in DOMAIN files[c] : x < n) /\ files' = [files EXCEPT ![c] = Write(files[c], {n})] BY DEF AppendTo
<1>2. n \notin DOMAIN files[c] BY <1>1, AppendAssumption DEF Offsets
<1>3. \A k \in Containers : files'[k] = IF k = c THEN Write(files[c], {n}) ELSE files[k] BY <1>1 DEF FilesOK
<1>4. DOMAIN files'[c] = DOMAIN files[c] \cup {n} /\ \A o \in DOMAIN files[c] : files'[c][o] = files[c][o]
  BY <1>2, <1>3 DEF Write
<1>5. accounted' = accounted BY DEF AppendTo
<1>6. ASSUME NEW k \in DOMAIN w
      PROVE  /\ w[k] \in DOMAIN files'[k] /\ files'[k][w[k]] = files[k][w[k]]
             /\ \A o \in DOMAIN files'[k] : o <= w[k] => o \in DOMAIN files[k] /\ files'[k][o] = files[k][o]
 <2>1. w[k] \in DOMAIN files[k] /\ k \in Containers /\ w[k] \in Int BY AppendAssumption DEF Consumed, FilesOK, Offsets
 <2>2. CASE k = c
  <3>1. w[k] < n /\ n \in Int BY <1>1, <2>1, <2>2, AppendAssumption DEF Offsets
  <3> QED BY <1>4, <2>1, <2>2, <3>1
 <2>3. CASE k # c BY <1>3, <2>1, <2>3
 <2> QED BY <2>2, <2>3
<1> QED BY <1>5, <1>6 DEF Consumed

LEMMA SoundAppends ==
  ASSUME FilesOK, NEW c \in Containers, AppendTo(c), NEW st, NEW given, st.water \in Waters, Sound(st, given)
  PROVE  Sound(st, given)'
<1>1. DOMAIN st.water \subseteq Containers /\ Consumed(st.water, given) BY WatersDef DEF Sound
<1>2. /\ Consumed(st.water, given)'
      /\ \A k \in DOMAIN st.water : files'[k][st.water[k]] = files[k][st.water[k]] BY <1>1, ConsumedStays
<1> QED BY <1>2 DEF Sound

LEMMA AppendsSound ==
  ASSUME WaterInv, TokenInv, NEW c \in Containers, AppendTo(c) PROVE TokenInv'
<1>0. PICK P, S, M, A : P = proc' /\ S = store' /\ M = tmp' /\ A = answers' OBVIOUS
<1>1. FilesOK /\ \A w \in Waters : DOMAIN w \subseteq Containers BY WatersDef DEF WaterInv
<1>2. P = proc /\ S = store /\ M = tmp /\ A = answers /\ held' = {} /\ cleared' = {} BY <1>0 DEF AppendTo, TokenInv
<1>3. Observed(files)' # {}
 <2>1. PICK n \in Offsets : files' = [files EXCEPT ![c] = Write(files[c], {n})] BY DEF AppendTo
 <2>2. c \in DOMAIN files' /\ n \in DOMAIN files'[c] BY <1>1, <2>1 DEF FilesOK, Write
 <2> QED BY <2>2 DEF Observed
<1>4. S # None => Sound(S, {})' BY <1>1, <1>2, SoundAppends DEF TokenInv, WaterInv
<1>5. M # None => Sound(M.st, M.given)' BY <1>1, <1>2, SoundAppends DEF TokenInv, WaterInv, OutOK
<1>6. \A a \in A : Consumed(a.to, {})' /\ DOMAIN a.to # {} BY <1>1, <1>2, ConsumedStays DEF TokenInv, WaterInv
<1>7. ASSUME NEW q \in Procs PROVE ProcSound(P[q])'
 <2>1. PICK s : s = proc[q] /\ s = P[q] BY <1>2
 <2>2. ProcSound(s) /\ ProcOK(s) BY <2>1 DEF TokenInv, WaterInv
 <2>3. s.pc \in {"scan", "rescan"} => Sound(s.st, {})' BY <1>1, <2>2, SoundAppends DEF ProcSound, ProcOK, LoadedOK
 <2>4. s.pc \in {"scan", "rescan"} /\ s.req.to => Consumed(s.ans.to, {})' /\ DOMAIN s.ans.to # {}
   BY <1>1, <2>2, ConsumedStays DEF ProcSound, ProcOK, LoadedOK
 <2>5. s.pc \in {"save", "rename"} => Sound(s.out.st, s.out.given)'
   BY <1>1, <2>2, SoundAppends DEF ProcSound, ProcOK, SavingOK, OutOK
 <2> QED BY <2>1, <2>2, <2>3, <2>4, <2>5 DEF ProcSound
<1> QED BY <1>0, <1>2, <1>3, <1>4, <1>5, <1>6, <1>7, SoundNext

\* A sound position is not reported as violated.
LEMMA SoundUnviolated ==
  ASSUME FilesOK, NEW st, NEW given, st.water \in Waters, Sound(st, given)
  PROVE  /\ Truncated(st.water, files) = {} /\ Rotated(st.water, files) = {}
         /\ Rewritten(st.water, st.fp, files) = {}
<1>1. ASSUME NEW c \in DOMAIN st.water
      PROVE  /\ c \in Observed(files) /\ st.water[c] \in DOMAIN files[c]
             /\ ~(ObservedWater(files)[c] < st.water[c])
 <2>1. c \in Containers /\ st.water[c] \in DOMAIN files[c] BY WatersDef DEF Sound, Consumed
 <2>2. c \in Observed(files) BY <2>1 DEF Observed, FilesOK
 <2>3. /\ \A o \in DOMAIN files[c] : o \in Int /\ o <= ObservedWater(files)[c]
       /\ ObservedWater(files)[c] \in Int BY <2>2, LastOffset, AppendAssumption DEF Offsets
 <2> QED BY <2>1, <2>2, <2>3
<1> QED BY <1>1 DEF Truncated, Rotated, Rewritten, BoundaryKept, Sound

\* The head that a scan over a sound position reports, with the records that it lets through.
LEMMA HeadConsumed ==
  ASSUME FilesOK, NEW w, w \in Waters, Consumed(w, {}), NEW rows,
         rows = UNION {Admitted(w, files, c) : c \in Containers}
  PROVE  /\ Consumed(NewWater(w, files), rows)
         /\ DOMAIN NewWater(w, files) = Observed(files)
         /\ \A c \in Observed(files) : NewWater(w, files)[c] = ObservedWater(files)[c]
<1> DEFINE nw == NewWater(w, files)
<1>1. /\ DOMAIN w \subseteq Containers /\ Observed(files) \subseteq Containers
      /\ \A c \in DOMAIN w : w[c] \in Int BY WatersDef, ObservedOffsets, AppendAssumption DEF Offsets
<1>2. \A c \in Observed(files) :
        /\ ObservedWater(files)[c] \in DOMAIN files[c]
        /\ \A o \in DOMAIN files[c] : o \in Int /\ o <= ObservedWater(files)[c] BY LastOffset
<1>3. \A c \in DOMAIN w : c \in Observed(files) /\ w[c] \in DOMAIN files[c] BY <1>1 DEF Consumed, Observed, FilesOK
<1>4. DOMAIN nw = Observed(files) BY <1>1, <1>3, NewWaterIs
<1>5. ASSUME NEW c \in Observed(files) PROVE nw[c] = ObservedWater(files)[c] BY <1>1, <1>2, <1>3, NewWaterIs
<1>6. ASSUME NEW c \in Observed(files), NEW o \in DOMAIN files[c] PROVE files[c][o] \in accounted \cup rows
 <2>1. CASE admit(w, c, o)
  <3>1. files[c][o] \in Admitted(w, files, c) /\ c \in Containers BY <1>1, <2>1 DEF Admitted
  <3> QED BY <3>1
 <2>2. CASE ~admit(w, c, o)
  <3>1. c \in DOMAIN w /\ o <= w[c] BY <1>1, <1>2, <2>2 DEF admit
  <3> QED BY <3>1 DEF Consumed
 <2> QED BY <2>1, <2>2
<1> HIDE DEF nw
<1>7. Consumed(nw, rows) BY <1>2, <1>4, <1>5, <1>6 DEF Consumed
<1> QED BY <1>4, <1>5, <1>7 DEF nw

\* The fingerprints that are saved beside a position are those of its marks.
LEMMA FingerprintsSound ==
  ASSUME FilesOK, NEW st, Sound(st, {}), NEW st2, NEW given, Consumed(st2.water, given),
         st2.fp = WaterFPMerge(st2.water, ObservedWater(files), FingerprintWater(files), st.water, st.fp)
  PROVE  Sound(st2, given)
<1>1. DOMAIN ObservedWater(files) = Observed(files) BY DEF ObservedWater
<1>2. \A c \in Observed(files) : FingerprintWater(files)[c] = files[c][ObservedWater(files)[c]] BY LastOffset
<1> QED BY <1>1, <1>2 DEF Sound, WaterFPMerge

\* A scan over a sound position finds nothing wrong and sees all that there is.
LEMMA CleanScan ==
  ASSUME FilesOK, NEW st, st.water \in Waters, Sound(st, {}), NEW r, NEW res,
         res = IF Isolates(r) THEN Isolate(RunCursorPack(st.water), st.water, {}) ELSE RunCursorPack(st.water)
  PROVE  /\ Consumed(res.water, res.rows) /\ DOMAIN res.water = Observed(files)
         /\ res.observed = ObservedWater(files) /\ res.fp = FingerprintWater(files)
<1> DEFINE rows == UNION {Admitted(st.water, files, c) : c \in Containers}
           nw == NewWater(st.water, files)
<1>1. Consumed(nw, rows) /\ DOMAIN nw = Observed(files) BY HeadConsumed DEF Sound
<1>2. /\ RunCursorPack(st.water).water = nw /\ RunCursorPack(st.water).rows = rows
      /\ RunCursorPack(st.water).observed = ObservedWater(files)
      /\ RunCursorPack(st.water).fp = FingerprintWater(files) BY DEF RunCursorPack
<1>3. /\ res.rows = rows /\ res.observed = ObservedWater(files) /\ res.fp = FingerprintWater(files)
      /\ res.water = nw \/ res.water = PinWater(nw, st.water, {})
 <2>1. CASE Isolates(r)
  <3>1. /\ res.rows = rows /\ res.observed = Scrub(ObservedWater(files), {})
        /\ res.fp = Scrub(FingerprintWater(files), {}) /\ res.water = PinWater(nw, st.water, {})
    BY <1>2, <2>1 DEF Isolate, RunCursorPack
  <3>2. /\ Scrub(ObservedWater(files), {}) = ObservedWater(files)
        /\ Scrub(FingerprintWater(files), {}) = FingerprintWater(files)
    BY DEF Scrub, Without, ObservedWater, FingerprintWater
  <3> QED BY <3>1, <3>2
 <2>2. CASE ~Isolates(r) BY <1>2, <2>2
 <2> QED BY <2>1, <2>2
<1> HIDE DEF nw, rows
<1>4. /\ DOMAIN PinWater(nw, st.water, {}) = DOMAIN nw
      /\ \A k \in DOMAIN nw : PinWater(nw, st.water, {})[k] = nw[k] BY DEF PinWater
<1>5. DOMAIN res.water = DOMAIN nw /\ \A k \in DOMAIN nw : res.water[k] = nw[k] BY <1>3, <1>4
<1> QED BY <1>1, <1>3, <1>5 DEF Consumed

\* With nothing found wrong, no flag moves a mark of the position that is asked for.
LEMMA CleanPosition ==
  ASSUME NEW p, NEW found, NEW res, found.violations = {}, found.truncated = {}, found.rotated = {},
         NEW asked, asked = IF Explicit(p) THEN proc[p].ans.to ELSE res.water
  PROVE  /\ DOMAIN Position(p, found, res) = DOMAIN asked
         /\ \A k \in DOMAIN asked : Position(p, found, res)[k] = asked[k]
<1> DEFINE kept == IF proc[p].req.accept THEN Rebaseline(asked, res.observed, {})
                                         ELSE PinWater(asked, proc[p].st.water, {})
<1>1. DOMAIN kept = DOMAIN asked /\ \A k \in DOMAIN asked : kept[k] = asked[k] BY DEF Rebaseline, PinWater
<1>2. Position(p, found, res) = IF proc[p].req.prune THEN Without(kept, {}) ELSE kept BY DEF Position
<1> HIDE DEF kept
<1>3. DOMAIN Without(kept, {}) = DOMAIN kept /\ \A k \in DOMAIN kept : Without(kept, {})[k] = kept[k] BY DEF Without
<1> QED BY <1>1, <1>2, <1>3

LEMMA FinishSound ==
  ASSUME WaterInv, TokenInv, NEW p \in Procs, NEW found, proc[p].pc = "scan",
         found.violations = {}, found.truncated = {}, found.rotated = {},
         Finish(p, found, RunCursorPack(proc[p].st.water)), UNCHANGED <<files, written, query, store>>
  PROVE  TokenInv'
<1> DEFINE r == proc[p].req
           st == proc[p].st
           ran == RunCursorPack(st.water)
           res0 == IF Isolates(r) THEN Isolate(ran, st.water, {}) ELSE ran
<1>0. PICK P, S, M, A, res : P = proc' /\ S = store' /\ M = tmp' /\ A = answers' /\ res = res0 OBVIOUS
<1>1. Peek(p, found, res) \/ Halt(p, found) \/ RefuseUnsafe(p, found, res) \/ Advance(p, found, res) BY <1>0 DEF Finish
<1>2. /\ FilesOK /\ st.water \in Waters /\ Sound(st, {}) /\ Observed(files) # {} /\ held = {} /\ cleared = {}
      /\ r.to => Consumed(proc[p].ans.to, {}) /\ DOMAIN proc[p].ans.to # {}
  BY DEF WaterInv, TokenInv, ProcSound, ProcOK, LoadedOK
<1>3. /\ Consumed(res.water, res.rows) /\ DOMAIN res.water = Observed(files)
      /\ res.observed = ObservedWater(files) /\ res.fp = FingerprintWater(files) BY <1>0, <1>2, CleanScan
<1> HIDE DEF res0, ran
<1>4. S = store /\ UNCHANGED files BY <1>0
<1>5. ASSUME NEW s, proc' = [proc EXCEPT ![p] = s] PROVE \A q \in Procs : P[q] = proc[q] \/ P[q] = s
  BY <1>0, <1>5 DEF WaterInv
<1>6. CASE Peek(p, found, res)
 <2>1. /\ accounted' = accounted \cup res.rows /\ held' = {} /\ cleared' = {} /\ M = tmp
       /\ proc' = [proc EXCEPT ![p] = Idle]
       /\ \A a \in A : a \in answers \/ a = [from |-> st.water, to |-> res.water] BY <1>0, <1>2, <1>6 DEF Peek
 <2>2. Consumed(res.water, {})' BY <1>3, <1>4, <2>1, ConsumedGrows
 <2>3. \A a \in A : a \in answers \/ (Consumed(a.to, {})' /\ DOMAIN a.to # {})
  <3> SUFFICES ASSUME NEW a \in A, a = [from |-> st.water, to |-> res.water]
               PROVE  Consumed(a.to, {})' /\ DOMAIN a.to # {} BY <2>1
  <3>1. PICK w : w = a.to /\ w = res.water OBVIOUS
  <3>2. Consumed(w, {})' BY <2>2, <3>1 DEF Consumed
  <3> QED BY <1>2, <1>3, <3>1, <3>2
 <2>4. \A q \in Procs : P[q] = proc[q] \/ ProcSound(P[q])' BY <1>5, <2>1, IdleSound DEF ProcSound
 <2> QED BY <1>0, <1>4, <2>1, <2>3, <2>4, SoundStays
<1>7. CASE RefuseUnsafe(p, found, res)
 <2>1. /\ accounted' = accounted /\ held' = {} /\ cleared' = {} /\ M = tmp /\ A = answers
       /\ proc' = [proc EXCEPT ![p] = Idle] BY <1>0, <1>2, <1>7 DEF RefuseUnsafe
 <2>2. \A q \in Procs : P[q] = proc[q] \/ ProcSound(P[q])' BY <1>5, <2>1, IdleSound DEF ProcSound
 <2> QED BY <1>0, <1>4, <2>1, <2>2, SoundStays
<1>8. CASE Advance(p, found, res)
 <2> DEFINE water == Position(p, found, res)
            new == [pc |-> "save", req |-> r, violations |-> found.violations,
                    out |-> [st |-> [water |-> water, queries |-> proc[p].queries,
                                     fp |-> WaterFPMerge(water, res.observed, res.fp, st.water, st.fp)],
                             given |-> (IF r.to /\ r.quiet THEN {} ELSE res.rows)
                                         \cup (IF r.accept THEN Behind(st.water, found.violations) ELSE {}),
                             base |-> st.water, asked |-> AskedFor(r, found), expect |-> r.expect]]
 <2>1. /\ proc' = [proc EXCEPT ![p] = new] /\ held' = {} /\ cleared' = {} /\ M = tmp /\ A = answers
       /\ accounted' = accounted BY <1>0, <1>2, <1>8 DEF Advance
 <2>2. PICK s, o, given : s = new /\ o = new.out.st /\ given = new.out.given OBVIOUS
 <2>3. /\ s.pc = "save" /\ s.violations = {} /\ s.out.st = o /\ s.out.given = given
       /\ o.water = water /\ o.fp = WaterFPMerge(o.water, res.observed, res.fp, st.water, st.fp)
       /\ r.to \/ res.rows \subseteq given BY <2>2
 <2> HIDE DEF new
 <2>4. PICK asked : asked = IF Explicit(p) THEN proc[p].ans.to ELSE res.water OBVIOUS
 <2>5. DOMAIN o.water = DOMAIN asked /\ \A k \in DOMAIN asked : o.water[k] = asked[k] BY <2>3, <2>4, CleanPosition
 <2>6. Consumed(asked, given)
  <3>1. CASE r.to
   <4>1. Explicit(p) BY <1>2, <3>1 DEF Explicit, Empty
   <4> QED BY <1>2, <2>4, <3>1, <4>1 DEF Consumed
  <3>2. CASE ~r.to
   <4>1. asked = res.water BY <2>4, <3>2 DEF Explicit
   <4> QED BY <1>3, <2>3, <3>2, <4>1 DEF Consumed
  <3> QED BY <3>1, <3>2
 <2> HIDE DEF water
 <2>7. Consumed(o.water, given) BY <2>5, <2>6 DEF Consumed
 <2>8. Sound(o, given) BY <1>2, <1>3, <2>3, <2>7, FingerprintsSound
 <2>9. Sound(o, given)' BY <1>4, <2>1, <2>8, SoundGrows
 <2>10. ProcSound(s)' BY <2>3, <2>9 DEF ProcSound
 <2>11. \A q \in Procs : P[q] = proc[q] \/ ProcSound(P[q])'
  <3>1. PICK n : n = s OBVIOUS
  <3>2. \A q \in Procs : P[q] = proc[q] \/ P[q] = s BY <1>5, <2>1, <2>2
  <3> QED BY <2>10, <3>2 DEF ProcSound
 <2> QED BY <1>0, <1>4, <2>1, <2>11, SoundStays
<1> QED BY <1>1, <1>6, <1>7, <1>8 DEF Halt

\* The writers only append; any number of commands run, with any flags.
LEMMA TokenSteps ==
  ASSUME WaterInv, TokenInv,
         \/ \E c \in Containers : AppendTo(c)
         \/ EditQuery \/ CursorRemove \/ \E p \in Procs : CursorStep(p)
  PROVE  TokenInv'
<1>0. PICK P, S, M, A : P = proc' /\ S = store' /\ M = tmp' /\ A = answers' OBVIOUS
<1>1. held = {} /\ cleared = {} /\ FilesOK BY DEF TokenInv, WaterInv
<1>2. CASE \E c \in Containers : AppendTo(c) BY <1>2, AppendsSound
<1>3. CASE EditQuery \/ CursorRemove
 <2>1. /\ UNCHANGED files /\ accounted' = accounted /\ held' = {} /\ cleared' = {}
       /\ S = store \/ S = None
       /\ M = tmp /\ A = answers /\ P = proc BY <1>0, <1>1, <1>3 DEF EditQuery, CursorRemove
 <2> QED BY <1>0, <2>1, SoundStays
<1>4. ASSUME NEW p \in Procs, NEW s, proc' = [proc EXCEPT ![p] = s], ProcSound(s)',
             UNCHANGED <<files, answers, held, cleared>>, accounted \subseteq accounted',
             S = store \/ S = None \/ Sound(S, {})', M = tmp \/ M = None \/ Sound(M.st, M.given)'
      PROVE  TokenInv'
 <2>1. held' = {} /\ cleared' = {} /\ A = answers BY <1>0, <1>1, <1>4
 <2>2. \A q \in Procs : P[q] = proc[q] \/ P[q] = s BY <1>0, <1>4 DEF WaterInv
 <2>3. \A q \in Procs : P[q] = proc[q] \/ ProcSound(P[q])' BY <1>4, <2>2 DEF ProcSound
 <2> QED BY <1>0, <1>4, <2>1, <2>3, SoundStays
<1>5. ASSUME NEW p \in Procs, CursorStep(p) PROVE TokenInv'
 <2>0. ProcOK(proc[p]) /\ ProcSound(proc[p]) BY DEF WaterInv, TokenInv
 <2>1. CASE CreateBegin(p)
  <3>1. PICK r \in Requests : proc' = [proc EXCEPT ![p] = [pc |-> "baseline", req |-> r, queries |-> query]]
    BY <2>1 DEF CreateBegin
  <3>2. PICK s : s = [pc |-> "baseline", req |-> r, queries |-> query] OBVIOUS
  <3>3. ProcSound(s)' BY <3>2 DEF ProcSound
  <3> QED BY <1>0, <1>4, <2>1, <3>1, <3>2, <3>3 DEF CreateBegin
 <2>2. CASE CreateScan(p)
  <3> DEFINE res == RunCursorPack(Empty)
             fp == WaterFPMerge(res.water, res.observed, res.fp, Empty, Empty)
             now == [water |-> res.water, fp |-> fp, queries |-> proc[p].queries]
             beginning == [now EXCEPT !.water = Empty, !.fp = Empty]
             start == proc[p].req.start
             out == [st |-> IF start THEN beginning ELSE now, given |-> IF start THEN {} ELSE res.rows,
                     base |-> None, asked |-> {}, expect |-> FALSE]
             new == [pc |-> "save", req |-> proc[p].req, violations |-> {}, out |-> out]
  <3>1. proc' = [proc EXCEPT ![p] = new] /\ UNCHANGED <<files, store, tmp, answers, accounted, held, cleared>>
    BY <2>2 DEF CreateScan
  <3>2. /\ res.water = NewWater(Empty, files) /\ res.rows = UNION {Admitted(Empty, files, c) : c \in Containers}
        /\ res.observed = ObservedWater(files) /\ res.fp = FingerprintWater(files) BY DEF RunCursorPack
  <3>3. Empty \in Waters /\ Consumed(Empty, {}) BY WatersDef DEF Empty, Consumed
  <3> HIDE DEF res
  <3>4. Consumed(res.water, res.rows) BY <1>1, <3>2, <3>3, HeadConsumed
  <3>5. Sound(now, res.rows)
   <4>1. PICK base : base = [water |-> Empty, fp |-> Empty] OBVIOUS
   <4>2. Sound(base, {}) BY <3>3, <4>1 DEF Sound, Empty
   <4>3. PICK n : n = now OBVIOUS
   <4>4. n.water = res.water
         /\ n.fp = WaterFPMerge(n.water, ObservedWater(files), FingerprintWater(files), base.water, base.fp)
     BY <3>2, <4>1, <4>3
   <4>5. Sound(n, res.rows) BY <1>1, <3>4, <4>2, <4>4, FingerprintsSound
   <4> QED BY <4>3, <4>5
  <3>6. Sound(beginning, {})
   <4>1. beginning.water = Empty /\ beginning.fp = Empty OBVIOUS
   <4> HIDE DEF beginning
   <4> QED BY <3>3, <4>1 DEF Sound, Empty
  <3>7. PICK s : s = new OBVIOUS
  <3>8. s.pc = "save" /\ s.violations = {} /\ Sound(s.out.st, s.out.given)
   <4> HIDE DEF now, beginning
   <4> QED BY <3>5, <3>6, <3>7
  <3> HIDE DEF new
  <3>9. ProcSound(s)'
   <4>1. PICK st, given : st = s.out.st /\ given = s.out.given OBVIOUS
   <4>2. Sound(st, given)' BY <3>1, <3>8, <4>1, SoundGrows
   <4> QED BY <3>8, <4>1, <4>2 DEF ProcSound
  <3> QED BY <1>0, <1>4, <3>1, <3>7, <3>9
 <2>3. CASE Begin(p)
  <3>1. PICK r \in Requests, a \in answers \cup {None} :
          /\ r.to \/ r.expect <=> a # None
          /\ proc' = [proc EXCEPT ![p] = [pc |-> "scan", req |-> r, ans |-> a, st |-> store, queries |-> query]]
    BY <2>3 DEF Begin
  <3>2. PICK s : s = [pc |-> "scan", req |-> r, ans |-> a, st |-> store, queries |-> query] OBVIOUS
  <3>3. s.pc = "scan" /\ s.st = store /\ s.ans = a /\ s.req = r BY <3>2
  <3>4. ProcSound(s) BY <2>3, <3>1, <3>3 DEF Begin, ProcSound, TokenInv
  <3>5. UNCHANGED <<files, store, tmp, answers, accounted, held, cleared>> BY <2>3 DEF Begin
  <3>6. ProcSound(s)' BY <3>4, <3>5, ProcSoundGrows
  <3> QED BY <1>0, <1>4, <3>1, <3>2, <3>5, <3>6
 <2>4. CASE Scan(p)
  <3> DEFINE st == proc[p].st
             found == SourceAnomalies(st.water, st.fp)
  <3>1. proc[p].pc = "scan" /\ st.water \in Waters /\ Sound(st, {}) /\ UNCHANGED <<files, written, query, store>>
    BY <2>0, <2>4 DEF Scan, ProcOK, LoadedOK, ProcSound
  <3>2. found.violations = {} /\ found.truncated = {} /\ found.rotated = {} /\ found.rewritten = {}
    BY <1>1, <3>1, SoundUnviolated DEF SourceAnomalies
  <3>3. Finish(p, found, RunCursorPack(st.water)) BY <2>4, <3>2 DEF Scan, NeedsRescan
  <3> HIDE DEF found
  <3> QED BY <3>1, <3>2, <3>3, FinishSound
 <2>5. CASE Rescan(p) BY <2>0, <2>5 DEF Rescan, ProcSound
 <2>6. CASE WriteTmp(p)
  <3>1. PICK s : s = [proc[p] EXCEPT !.pc = "rename"] OBVIOUS
  <3>2. /\ proc' = [proc EXCEPT ![p] = s] /\ M = proc[p].out /\ SavingOK(proc[p])
        /\ UNCHANGED <<files, store, answers, accounted, held, cleared>>
        /\ Sound(proc[p].out.st, proc[p].out.given) /\ proc[p].violations = {}
    BY <1>0, <2>0, <2>6, <3>1 DEF WriteTmp, ProcOK, ProcSound
  <3>3. s.pc = "rename" /\ s.out = proc[p].out /\ s.violations = proc[p].violations
   <4>1. proc[p] = [pc |-> proc[p].pc, req |-> proc[p].req, violations |-> proc[p].violations, out |-> proc[p].out]
     BY <3>2 DEF SavingOK
   <4> QED BY <3>1, <4>1
  <3>4. ProcSound(s) BY <3>2, <3>3 DEF ProcSound
  <3>5. ProcSound(s)' BY <3>2, <3>4, ProcSoundGrows
  <3>6. Sound(M.st, M.given)' BY <3>2, SoundGrows
  <3> QED BY <1>0, <1>4, <3>2, <3>5, <3>6
 <2>7. CASE Rename(p)
  <3>1. /\ tmp # None /\ S = tmp.st /\ M = None /\ proc' = [proc EXCEPT ![p] = Idle]
        /\ accounted' = accounted \cup tmp.given /\ UNCHANGED <<files, answers>>
        /\ held' = {} /\ cleared' = {} BY <1>0, <1>1, <2>0, <2>7 DEF Rename, ProcSound
  <3>2. Sound(S, {})' BY <3>1, SoundGrows DEF TokenInv
  <3> QED BY <1>0, <1>1, <1>4, <3>1, <3>2, IdleSound
 <2>8. CASE RenameFails(p) \/ Crash(p)
  <3>1. /\ proc' = [proc EXCEPT ![p] = Idle]
        /\ UNCHANGED <<files, store, tmp, answers, accounted, held, cleared>> BY <2>8 DEF RenameFails, Crash
  <3> QED BY <1>0, <1>4, <3>1, IdleSound
 <2> QED BY <1>5, <2>1, <2>2, <2>3, <2>4, <2>5, <2>6, <2>7, <2>8 DEF CursorStep
<1> QED BY <1>2, <1>3, <1>5

LEMMA TokenStutters == ASSUME TokenInv, UNCHANGED cursorVars PROVE TokenInv'
<1>1. PICK P, S, M, A : P = proc' /\ S = store' /\ M = tmp' /\ A = answers' OBVIOUS
<1>2. /\ P = proc /\ S = store /\ M = tmp /\ A = answers /\ accounted' = accounted /\ UNCHANGED files
      /\ held' = {} /\ cleared' = {} BY <1>1 DEF cursorVars, TokenInv
<1> QED BY <1>1, <1>2, SoundStays

LEMMA TokenHolds ==
  ASSUME WaterInv, TokenInv PROVE NeverMisses /\ ReDisclosed /\ AcceptClears
<1>1. NeverMisses BY DEF TokenInv, Sound, Consumed, NeverMisses
<1>2. ReDisclosed /\ AcceptClears BY DEF TokenInv, ReDisclosed, AcceptClears
<1> QED BY <1>1, <1>2

\* Some file has a record from the start.
SomeRecord == \A f \in InitialFiles : Observed(f) # {}

LEMMA TokenBegins == ASSUME SomeRecord, CursorInit PROVE TokenInv
BY DEF CursorInit, TokenInv, ProcSound, Idle, SomeRecord, Observed

\* Over files that only grow, with any number of concurrent commands, tokens however old,
\* any flags, crashes and lost renames, every committed position covers only records that
\* were delivered, and nothing is ever reported as violated.
THEOREM TokensNeverMiss ==
  ASSUME FileChanges \subseteq {"append"}, SomeRecord
  PROVE  CursorSpec => [](NeverMisses /\ ReDisclosed /\ AcceptClears)
<1>1. CursorInit => TokenInv BY TokenBegins
<1>2. WaterInv /\ TokenInv /\ [CursorNext]_cursorVars => TokenInv'
 <2>1. FileStep => \E c \in Containers : AppendTo(c) BY DEF FileStep, Replace, Truncate, Remove
 <2> QED BY <2>1, TokenSteps, TokenStutters DEF CursorNext
<1>3. WaterInv /\ TokenInv => NeverMisses /\ ReDisclosed /\ AcceptClears BY TokenHolds
<1> QED BY <1>1, <1>2, <1>3, Positions, PTL DEF CursorSpec

-----------------------------------------------------------------------------
(* Append mode: the parts of MCCursors, each with its command lines.        *)

LEMMA Parting ==
  /\ DOMAIN Scenario = {"one_step", "tokens", "two_step", "expect"}
  /\ \A k \in DOMAIN Scenario : Scenario[k].files \subseteq {"a", "b"}
  /\ Scenario["one_step"].requests = OneStep /\ Scenario["one_step"].callers = 1
  /\ \A k \in {"two_step", "expect"} : Scenario[k].changes = {"append"}
BY DEF Scenario

LEMMA OneStepRequests == Rm \notin OneStep /\ \A r \in OneStep : ~r.to
<1>1. Bare.verb = "advance" /\ ~Bare.to /\ "verb" \in DOMAIN Bare /\ "to" \in DOMAIN Bare BY DEF Bare
<1>2. /\ FromNow.verb = "create" /\ ~FromNow.to /\ "verb" \in DOMAIN FromNow /\ "to" \in DOMAIN FromNow
      /\ Peeking.verb = "peek" /\ ~Peeking.to /\ Rm.verb = "rm"
      /\ Accept.verb = "advance" /\ ~Accept.to BY <1>1 DEF FromNow, Peeking, Rm, Accept
<1>3. FromStart.verb = "create" /\ ~FromStart.to BY <1>2 DEF FromStart
<1>4. \A f \in {"halt", "prune"} : [Bare EXCEPT ![f] = TRUE].verb = "advance" /\ ~[Bare EXCEPT ![f] = TRUE].to BY <1>1
<1>5. \A r \in OneStep : r.verb # "rm" /\ ~r.to BY <1>1, <1>2, <1>3, <1>4 DEF OneStep
<1> QED BY <1>2, <1>5

\* What holds of the cursor depends on who moves it, and on what the writers do.
PartInv ==
  /\ part = "one_step" => KnownInv /\ HeldInv /\ Alone
  /\ part \in {"two_step", "expect"} => TokenInv
  /\ part \notin DOMAIN Scenario => store = None

LEMMA PartsStep ==
  ASSUME {"a", "b"} \subseteq Containers, AppendPart PROVE CursorNext
<1>1. ASSUME NEW c \in Scenario[part].files PROVE c \in Containers BY Parting DEF AppendPart
<1> QED BY <1>1 DEF AppendPart, Change, CursorNext, FileStep

LEMMA PartsAreCursors ==
  ASSUME {"a", "b"} \subseteq Containers PROVE Spec => CursorSpec
<1>1. Init => CursorInit BY DEF Init
<1>2. [Next]_vars => [CursorNext]_cursorVars BY PartsStep DEF Next, DiffPart, vars
<1> QED BY <1>1, <1>2, PTL DEF Spec, CursorSpec

\* One caller at a time is what the bound of its part says.
LEMMA OneCaller ==
  ASSUME NEW S, IsFiniteSet(S), Cardinality(S) <= 1 PROVE \A p, q \in S : p = q
<1> SUFFICES ASSUME NEW p \in S, NEW q \in S, p # q PROVE FALSE OBVIOUS
<1>1. IsFiniteSet(S) OBVIOUS
<1>2. IsFiniteSet(S \ {p}) /\ Cardinality(S \ {p}) = Cardinality(S) - 1 BY <1>1, FS_RemoveElement
<1>3. Cardinality(S \ {p}) # 0 /\ Cardinality(S \ {p}) \in Nat /\ Cardinality(S) \in Nat
  BY <1>1, <1>2, FS_EmptySet, FS_CardinalityType
<1> QED BY <1>2, <1>3

LEMMA PartSteps ==
  ASSUME {"a", "b"} \subseteq Containers, IsFiniteSet(Procs), ~RacyRescan, NoneIsNoState,
         WaterInv, WaterInv', PartInv, [Next]_vars
  PROVE  PartInv'
<1>1. CASE AppendPart
 <2> DEFINE s == Scenario[part]
 <2>1. /\ part \in DOMAIN Scenario /\ part' = part /\ s' = s /\ Within(s)' /\ CursorNext
       /\ \/ Change(s)
          \/ s.edits /\ query = FirstQuery /\ EditQuery
          \/ Rm \in s.requests /\ CursorRemove
          \/ \E p \in Procs : CursorStep(p) BY <1>1, PartsStep DEF AppendPart
 <2>2. \A c \in s.files : c \in Containers BY <2>1, Parting
 <2>3. CASE part = "one_step"
  <3>1. s.requests = OneStep /\ s.callers = 1 BY <2>3, Parting
  <3> HIDE DEF s
  <3>2. Cardinality(Running') <= 1 /\ \A p \in Running' : proc'[p].req \in OneStep BY <2>1, <3>1 DEF Within
  <3>3. Tokenless' BY <3>2, OneStepRequests DEF Tokenless, Running
  <3>4. Alone'
   <4>1. IsFiniteSet(Running') BY FS_Subset DEF Running
   <4>2. \A p, q \in Running' : p = q BY <3>2, <4>1, OneCaller
   <4> QED BY <4>2 DEF Running, Alone
  <3>5. FileStep \/ EditQuery \/ \E p \in Procs : CursorStep(p)
    BY <2>1, <2>2, <3>1, OneStepRequests DEF Change, FileStep
  <3>6. KnownInv' /\ HeldInv' BY <2>1, <2>3, <3>3, <3>4, <3>5, KnownSteps, HeldSteps DEF PartInv
  <3> QED BY <2>1, <2>3, <3>4, <3>6 DEF PartInv
 <2>4. CASE part \in {"two_step", "expect"}
  <3>1. s.changes = {"append"} BY <2>4, Parting
  <3> HIDE DEF s
  <3>2. \/ \E c \in Containers : AppendTo(c)
        \/ EditQuery \/ CursorRemove \/ \E p \in Procs : CursorStep(p) BY <2>1, <2>2, <3>1 DEF Change
  <3>3. TokenInv' BY <2>4, <3>2, TokenSteps DEF PartInv
  <3> QED BY <2>1, <2>4, <3>3 DEF PartInv
 <2>5. CASE part = "tokens" BY <2>1, <2>5 DEF PartInv
 <2> QED BY <2>1, <2>3, <2>4, <2>5, Parting
<1>2. CASE DiffPart \/ UNCHANGED vars
 <2>1. part' = part /\ UNCHANGED cursorVars BY <1>2 DEF DiffPart, vars
 <2>2. Alone => Alone' BY <2>1 DEF Alone, cursorVars
 <2>3. store' = store BY <2>1 DEF cursorVars
 <2> QED BY <2>1, <2>2, <2>3, KnownStutters, HeldStutters, TokenStutters DEF PartInv
<1> QED BY <1>1, <1>2 DEF Next

LEMMA PartsHold ==
  ASSUME {"a", "b"} \subseteq Containers, IsFiniteSet(Procs), ~RacyRescan, NoneIsNoState, SomeRecord
  PROVE  Spec => [](WaterInv /\ PartInv)
<1>1. Init => PartInv
 <2> SUFFICES ASSUME Init PROVE PartInv OBVIOUS
 <2>1. CursorInit BY DEF Init
 <2>2. KnownInv /\ TokenInv BY <2>1, KnownBegins, TokenBegins
 <2>3. HeldInv /\ Alone /\ store = None BY <2>1 DEF CursorInit, HeldInv, ProcHeld, Alone, Idle
 <2> QED BY <2>2, <2>3 DEF PartInv
<1>2. WaterInv /\ WaterInv' /\ PartInv /\ [Next]_vars => PartInv' BY PartSteps
<1>3. Spec => []WaterInv BY PartsAreCursors, Positions, PTL
<1> QED BY <1>1, <1>2, <1>3, PTL DEF Spec

\* The cursor never misses a record: where one caller moves it with one-step advances and
\* every flag about violations over files that are appended to, replaced, cut short, deleted
\* and created again, and where any number of callers peek, act and advance --to with tokens
\* however old over files that only grow; for any number of records, files and crashes.
THEOREM CursorsNeverMiss ==
  ASSUME {"a", "b"} \subseteq Containers, IsFiniteSet(Procs), ~RacyRescan, NoneIsNoState, SomeRecord
  PROVE  Spec => []NeverMissesAppends
<1>1. WaterInv /\ PartInv => NeverMissesAppends
 <2> SUFFICES ASSUME WaterInv, PartInv, part # "tokens" PROVE NeverMisses BY DEF NeverMissesAppends
 <2>1. CASE part = "one_step" BY <2>1, KnownHolds DEF PartInv
 <2>2. CASE part \in {"two_step", "expect"} BY <2>2, TokenHolds DEF PartInv
 <2>3. CASE part \notin DOMAIN Scenario BY <2>3 DEF PartInv, NeverMisses
 <2> QED BY <2>1, <2>2, <2>3, Parting
<1> QED BY <1>1, PartsHold, PTL

\* In the same parts, a violator that was disclosed and not acknowledged is disclosed again
\* by the next scan, and one that was acknowledged is not reported again.
THEOREM CursorsDisclose ==
  ASSUME {"a", "b"} \subseteq Containers, IsFiniteSet(Procs), ~RacyRescan, NoneIsNoState, SomeRecord
  PROVE  Spec => []DisclosedUntilAccepted
<1>1. WaterInv /\ PartInv => DisclosedUntilAccepted
 <2> SUFFICES ASSUME WaterInv, PartInv, part # "tokens" PROVE ReDisclosed /\ AcceptClears BY DEF DisclosedUntilAccepted
 <2>1. CASE part = "one_step" BY <2>1, HeldHolds DEF PartInv
 <2>2. CASE part \in {"two_step", "expect"} BY <2>2, TokenHolds DEF PartInv
 <2>3. CASE part \notin DOMAIN Scenario BY <2>3 DEF PartInv, ReDisclosed, AcceptClears
 <2> QED BY <2>1, <2>2, <2>3, Parting
<1> QED BY <1>1, PartsHold, PTL

=============================================================================
