--------------------------- MODULE SecondaryIndex ---------------------------
(***************************************************************************)
(* glue/idx_si.go and idx_backfill.go: a secondary index in a bbolt file   *)
(* of its own.  An operation is a query (open the index, then scan it), a  *)
(* rebuild that the user asks for, or a backfill page.  Its steps          *)
(* interleave with changes to the source: the walk lists its containers    *)
(* and then reads one after the other.  A transaction of bbolt is atomic   *)
(* and durable, so a crash loses only the operation.                       *)
(***************************************************************************)
EXTENDS IndexSource

CONSTANTS
  SiSince,   \* the definition's since=, as a modification time; 0 without one
  SiOps      \* bound: operations

ASSUME SinceAssumption == SiSince \in Nat

VARIABLES
  siDb,      \* the file: [built, ents, water, fp, floor, sig]; floor -1 when none is stored
  siOp,      \* what the operation under way is, and whether changes may overlap it
  siPc,      \* where it is
  siOpen,    \* what openSecondaryIndex determined: [floor, sig]
  siLeft,    \* containers that the walk under way has still to read
  siSeen,    \* what it has read: container -> records
  siRows,    \* records that the query returned
  siOps      \* operations begun

siVars == <<siDb, siOp, siPc, siOpen, siLeft, siSeen, siRows, siOps>>

NoWater == [c \in {} |-> 0]
NewDb == [built |-> FALSE, ents |-> {}, water |-> NoWater, fp |-> NoWater, floor |-> -1, sig |-> <<-1, 0>>]

SiInit ==
  /\ siDb = NewDb /\ siOp = [kind |-> "none", race |-> FALSE, pages |-> 0] /\ siPc = "idle"
  /\ siOpen = [floor |-> 0, sig |-> <<-1, 0>>] /\ siLeft = {} /\ siSeen = NoWater /\ siRows = {} /\ siOps = 0

getIndexFloor == IF siDb.floor = -1 THEN SiSince ELSE siDb.floor

SiBegin(ops) ==
  /\ siPc = "idle" /\ siOps < SiOps
  /\ siOp' \in ops
  /\ siPc' = "open" /\ siOps' = siOps + 1 /\ siRows' = {} /\ ixTouched' = {}
  /\ UNCHANGED <<siDb, siOpen, siLeft, siSeen, ixFiles, ixMtime, ixClock, ixChanges>>

\* A walk of the containers cs begins.
Walk(cs) == siLeft' = cs /\ siSeen' = NoWater

\* indexFresh, under the slot's lock, against a signature taken before the scan.
\* A query of an index that is taken as fresh goes on to its scan.
SiOpen ==
  /\ siPc = "open"
  /\ LET floor == getIndexFloor
         sig   == indexSourceSignature(floor)
     IN  /\ siOpen' = [floor |-> floor, sig |-> sig]
         /\ IF siOp.kind # "rebuild" /\ siDb.built /\ siDb.sig = sig
            THEN siPc' = "opened" /\ UNCHANGED <<siLeft, siSeen>>
            ELSE /\ siPc' = IF siOp.kind # "rebuild" /\ siDb.built /\ DOMAIN siDb.water # {} THEN "catchup" ELSE "build"
                 /\ Walk(InScope(floor))
  /\ UNCHANGED <<siDb, siOp, siRows, siOps, sourceVars>>

SiRead ==
  /\ siPc \in {"catchup", "build", "hybrid", "page"}
  /\ \E c \in siLeft : siLeft' = siLeft \ {c} /\ siSeen' = [x \in DOMAIN siSeen \cup {c} |-> IF x = c THEN ixFiles[c] ELSE siSeen[x]]
  /\ UNCHANGED <<siDb, siOp, siPc, siOpen, siRows, siOps, sourceVars>>

\* The scan saw a container that the fold cannot follow: its entries must be retracted.
Anomalies == Rotated(siDb.water, siSeen) \cup Truncated(siDb.water, siSeen)
               \cup Rewritten(siDb.water, siDb.fp, siSeen)

\* As Commit, but with the signature of the source as it is after the scan.
CommitLateSig(db, sig) == siDb' = [db EXCEPT !.sig = indexSourceSignature(siOpen.floor)]

Commit(db, sig) == siDb' = [db EXCEPT !.sig = sig]

catchUpIndex ==
  /\ siPc = "catchup" /\ siLeft = {}
  /\ IF Anomalies # {}
     THEN siPc' = "build" /\ Walk(InScope(siOpen.floor)) /\ UNCHANGED siDb
     ELSE /\ LET water == NewWater(siDb.water, siSeen)
                 fp    == WaterFPMerge(water, ObservedWater(siSeen), FingerprintWater(siSeen), siDb.water, siDb.fp)
             IN  Commit([siDb EXCEPT !.ents = @ \cup UNION {Admitted(siDb.water, siSeen, c) : c \in DOMAIN siSeen},
                                     !.water = water, !.fp = fp], siOpen.sig)
          /\ siPc' = "opened" /\ UNCHANGED <<siLeft, siSeen>>
  /\ UNCHANGED <<siOp, siOpen, siRows, siOps, sourceVars>>

\* The entries bucket is deleted and written anew in the transaction that stores the signature.
buildIndex ==
  /\ siPc = "build" /\ siLeft = {}
  /\ Commit([siDb EXCEPT !.built = TRUE, !.ents = Records(siSeen), !.water = ObservedWater(siSeen),
                         !.fp = FingerprintWater(siSeen)], siOpen.sig)
  /\ siPc' = "opened"
  /\ UNCHANGED <<siOp, siOpen, siLeft, siSeen, siRows, siOps, sourceVars>>

\* After the open: a query collects what lies below the floor, a backfill picks its page.
\* backfillPage: the newest candidates, with all that are as old as the oldest of them.
Page(floor, pages) ==
  {c \in BelowFloor(floor) : Cardinality({d \in BelowFloor(floor) : ixMtime[d] > ixMtime[c]}) < pages}

\* The oldest of the page, 0 (complete) when nothing is left below it.
NewFloor(page) ==
  IF BelowFloor(getIndexFloor) \subseteq page THEN 0 ELSE Min({ixMtime[c] : c \in page})

\* hybridScanSpan reads floorNanos, which the open stored.
SiOpened ==
  /\ siPc = "opened"
  /\ \/ /\ siOp.kind = "rebuild" \/ (siOp.kind = "backfill" /\ getIndexFloor = 0)
        /\ siPc' = "idle" /\ UNCHANGED <<siOpen, siLeft, siSeen>>
     \/ /\ siOp.kind = "query"
        /\ siPc' = "hybrid" /\ Walk(BelowFloor(siOpen.floor)) /\ UNCHANGED siOpen
     \/ /\ siOp.kind = "backfill" /\ getIndexFloor # 0
        /\ LET page == Page(getIndexFloor, siOp.pages)
           IN  siPc' = "page" /\ Walk(page) /\ siOpen' = [siOpen EXCEPT !.floor = NewFloor(page)]
  /\ UNCHANGED <<siDb, siOp, siRows, siOps, sourceVars>>

\* As SiScan, but the index alone answers.
SiScanIndexOnly ==
  /\ siPc = "hybrid" /\ siLeft = {}
  /\ siRows' = siDb.ents
  /\ siPc' = "scanned"
  /\ UNCHANGED <<siDb, siOp, siOpen, siLeft, siSeen, siOps, sourceVars>>

\* scanSpan over the whole range: the hybrid rows, then the walk in one View; seen holds
\* the ids, so that a record read by both comes once.
SiScan ==
  /\ siPc = "hybrid" /\ siLeft = {}
  /\ siRows' = siDb.ents \cup Records(siSeen)
  /\ siPc' = "scanned"
  /\ UNCHANGED <<siDb, siOp, siOpen, siLeft, siSeen, siOps, sourceVars>>

SiEnd ==
  /\ siPc = "scanned" /\ siPc' = "idle"
  /\ UNCHANGED <<siDb, siOp, siOpen, siLeft, siSeen, siRows, siOps, sourceVars>>

\* backfillSI's transaction; the signature is that of the source after the page was read.
backfillSI ==
  /\ siPc = "page" /\ siLeft = {}
  /\ Commit([siDb EXCEPT !.ents = @ \cup Records(siSeen), !.water = Over(ObservedWater(siSeen), @),
                         !.fp = Over(FingerprintWater(siSeen), @), !.floor = siOpen.floor],
            indexSourceSignature(siOpen.floor))
  /\ siPc' = "idle"
  /\ UNCHANGED <<siOp, siOpen, siLeft, siSeen, siRows, siOps, sourceVars>>

SiCrash ==
  /\ siPc # "idle" /\ siPc' = "idle" /\ siRows' = {}
  /\ UNCHANGED <<siDb, siOp, siOpen, siLeft, siSeen, siOps, sourceVars>>

SiSourceChange == (siPc = "idle" \/ siOp.race) /\ SourceChange /\ UNCHANGED siVars

SiNext(ops) ==
  \/ SiBegin(ops) \/ SiOpen \/ SiRead \/ catchUpIndex \/ buildIndex \/ SiOpened \/ SiScan \/ SiEnd
  \/ backfillSI \/ SiCrash \/ SiSourceChange

SiDone == siPc = "idle" /\ siOps = SiOps

-----------------------------------------------------------------------------
(* Properties *)

\* An index that the next open will take as fresh (its stored signature is the
\* source's) holds, of the containers there are, exactly the records in its scope.
FreshIsExact ==
  siDb.built /\ siDb.sig = indexSourceSignature(getIndexFloor) =>
    {r \in siDb.ents : Exists(r[1])} = ScopeRecords(getIndexFloor)

\* A query returns exactly the records of the containers that are there and that nobody
\* changed since it opened the index, whether they are indexed or lie below the floor.
QueryExact ==
  siPc = "scanned" =>
    LET same == {c \in IdxContainers : Exists(c)} \ ixTouched
    IN  {r \in siRows : r[1] \in same} = Records([c \in same |-> ixFiles[c]])

-----------------------------------------------------------------------------
(***************************************************************************)
(* glue/idx_mem.go: an index in memory, in three tiers: the process's      *)
(* slot, a blob that an earlier process wrote, a scan of the keyspace.     *)
(* Each tier is taken when its signature is the source's.  The blob's file *)
(* is written in place: a crash leaves any part of it.                     *)
(***************************************************************************)

CONSTANTS
  MiSince,   \* the definition's since=, 0 without one
  MiOpens    \* bound: opens

ASSUME MemSinceAssumption == MiSince \in Nat

VARIABLES
  miSlot,    \* [sig, ents, built] of the process
  miBlob,    \* [sig, ents, left]: the file, left counting the entries it announces and lacks
  miPc, miSig, miLeft, miSeen, miOpens

miVars == <<miSlot, miBlob, miPc, miSig, miLeft, miSeen, miOpens>>

NoneBuilt == [sig |-> <<-1, 0>>, ents |-> {}, built |-> FALSE]

MiInit ==
  /\ miSlot = NoneBuilt /\ miBlob = [sig |-> <<-1, 0>>, ents |-> {}, left |-> 0]
  /\ miPc = "idle" /\ miSig = <<-1, 0>> /\ miLeft = {} /\ miSeen = [c \in {} |-> 0] /\ miOpens = 0

\* As memBlobDecode, but what a truncated file holds is taken for all of it.
TakesTruncated(sig) == miBlob.sig = sig

\* The blob can be read to its end and is of this source.
memBlobDecode(sig) == miBlob.sig = sig /\ miBlob.left = 0

\* memIndexOpen, under the slot's lock, up to the scan.
MiOpen ==
  /\ miPc = "idle" /\ miOpens < MiOpens
  /\ miOpens' = miOpens + 1 /\ ixTouched' = {}
  /\ LET sig == indexSourceSignature(MiSince)
     IN  \/ /\ miSlot.built /\ miSlot.sig = sig
            /\ miPc' = "opened" /\ UNCHANGED <<miSlot, miSig, miLeft, miSeen>>
         \/ /\ ~(miSlot.built /\ miSlot.sig = sig) /\ memBlobDecode(sig)
            /\ miSlot' = [sig |-> sig, ents |-> miBlob.ents, built |-> TRUE]
            /\ miPc' = "opened" /\ UNCHANGED <<miSig, miLeft, miSeen>>
         \/ /\ ~(miSlot.built /\ miSlot.sig = sig) /\ ~memBlobDecode(sig)
            /\ miSig' = sig /\ miLeft' = InScope(MiSince) /\ miSeen' = [c \in {} |-> 0]
            /\ miPc' = "build" /\ UNCHANGED miSlot
  /\ UNCHANGED <<miBlob, ixFiles, ixMtime, ixClock, ixChanges>>

MiRead ==
  /\ miPc = "build"
  /\ \E c \in miLeft : miLeft' = miLeft \ {c} /\ miSeen' = [x \in DOMAIN miSeen \cup {c} |-> IF x = c THEN ixFiles[c] ELSE miSeen[x]]
  /\ UNCHANGED <<miSlot, miBlob, miPc, miSig, miOpens, sourceVars>>

\* The scan is over: memBlobPersist begins with an empty file that announces its entries;
\* it may fail, and then the blob waits for the host.
MiPersist ==
  /\ miPc = "build" /\ miLeft = {}
  /\ miBlob' \in {miBlob, [sig |-> miSig, ents |-> {}, left |-> Cardinality(Records(miSeen))]}
  /\ miPc' = IF miBlob' = miBlob THEN "built" ELSE "write"
  /\ UNCHANGED <<miSlot, miSig, miLeft, miSeen, miOpens, sourceVars>>

MiWrite ==
  /\ miPc = "write"
  /\ IF miBlob.left = 0
     THEN miPc' = "built" /\ UNCHANGED miBlob
     ELSE /\ \E r \in Records(miSeen) \ miBlob.ents :
               miBlob' = [miBlob EXCEPT !.ents = @ \cup {r}, !.left = @ - 1]
          /\ UNCHANGED miPc
  /\ UNCHANGED <<miSlot, miSig, miLeft, miSeen, miOpens, sourceVars>>

MiBuilt ==
  /\ miPc = "built"
  /\ miSlot' = [sig |-> miSig, ents |-> Records(miSeen), built |-> TRUE]
  /\ miPc' = "opened"
  /\ UNCHANGED <<miBlob, miSig, miLeft, miSeen, miOpens, sourceVars>>

MiEnd == miPc = "opened" /\ miPc' = "idle" /\ UNCHANGED <<miSlot, miBlob, miSig, miLeft, miSeen, miOpens, sourceVars>>

MiCrash ==
  /\ miSlot.built \/ miPc # "idle"
  /\ miPc' = "idle"
  /\ miSlot' = NoneBuilt
  /\ UNCHANGED <<miBlob, miSig, miLeft, miSeen, miOpens, sourceVars>>

MiSourceChange == SourceChange /\ UNCHANGED miVars

MiNext == MiOpen \/ MiRead \/ MiPersist \/ MiWrite \/ MiBuilt \/ MiEnd \/ MiCrash \/ MiSourceChange

MiDone == miPc = "idle" /\ miOpens = MiOpens

\* One of the two kinds of index, over files of lengths lens, with the operations ops.
indexVars == <<sourceVars, siVars, miVars>>

IndexSpec(lens, ops) ==
  /\ SourceInit(lens) /\ SiInit /\ MiInit
  /\ \/ [][SiNext(ops) /\ UNCHANGED miVars]_indexVars
     \/ [][MiNext /\ UNCHANGED siVars]_indexVars

\* An operation is one of the three; the files do not change under a backfill.
SiOpsOK(ops) ==
  \A op \in ops :
    op.kind \in {"query", "rebuild", "backfill"} /\ op.pages \in Nat \ {0} /\ (op.kind = "backfill" => ~op.race)

-----------------------------------------------------------------------------
(* Properties *)

\* What an open returns, from whichever tier, holds exactly the records in scope of the
\* containers that are there and did not change since it began.
MemOpenExact ==
  miPc = "opened" =>
    LET same == {c \in IdxContainers : Exists(c)} \ ixTouched
    IN  {r \in miSlot.ents : r[1] \in same} = Records([c \in same \cap InScope(MiSince) |-> ixFiles[c]])

\* An index that is taken for fresh holds its source's entries, on disk or in
\* memory, and what is read through it is what a scan would give.
IndexExact == FreshIsExact /\ QueryExact /\ MemOpenExact
=============================================================================
