------------------------------ MODULE FtsIndex ------------------------------
(***************************************************************************)
(* glue/idx_fts.go and backfillFTS: a full-text index.  The documents and  *)
(* the watermark are bleve's, written in atomic batches; the signature and *)
(* the floor are files beside it.  A rebuild removes the directory first,  *)
(* so that a crash finds one part written and another not.                 *)
(***************************************************************************)
EXTENDS IndexSource

CONSTANTS
  FtSince,   \* the definition's since=, 0 without one
  FtOps      \* bound: operations

ASSUME FtsSinceAssumption == FtSince \in Nat

VARIABLES
  ftBleve,   \* the directory: [built, ents, water, fp]
  ftSig,     \* the signature file
  ftFloor,   \* the floor file, -1 when there is none
  ftSlot,    \* the process's slot: "new", "open" once it was opened, "closed" after a failed rebuild, "err"
  ftCut,     \* history: a rebuild was cut short after it had removed the directory
  ftOp, ftPc, ftOpen, ftLeft, ftSeen, ftRows, ftOps   \* as in SecondaryIndex

ftVars == <<ftBleve, ftSig, ftFloor, ftSlot, ftCut, ftOp, ftPc, ftOpen, ftLeft, ftSeen, ftRows, ftOps>>

Empty == [c \in {} |-> 0]
NoBleve == [built |-> FALSE, ents |-> {}, water |-> Empty, fp |-> Empty]

FtInit ==
  /\ ftBleve = NoBleve /\ ftSig = <<-1, 0>> /\ ftFloor = -1 /\ ftSlot = "new" /\ ftCut = FALSE
  /\ ftOp = [kind |-> "none", race |-> FALSE, crash |-> FALSE, pages |-> 0] /\ ftPc = "idle"
  /\ ftOpen = [floor |-> 0, sig |-> <<-1, 0>>] /\ ftLeft = {} /\ ftSeen = Empty /\ ftRows = {} /\ ftOps = 0

readFTSFloor == IF ftFloor = -1 THEN FtSince ELSE ftFloor

FtBegin(ops) ==
  /\ ftPc = "idle" /\ ftOps < FtOps
  /\ ftOp' \in ops
  /\ ftPc' = (IF ftSlot = "err" THEN "idle" ELSE "open") /\ ftOps' = ftOps + 1 /\ ftRows' = {} /\ ixTouched' = {}
  /\ UNCHANGED <<ftCut, ftBleve, ftSig, ftFloor, ftSlot, ftOpen, ftLeft, ftSeen, ixFiles, ixMtime, ixClock, ixChanges>>

FtWalk(cs) == ftLeft' = cs /\ ftSeen' = Empty

\* getBleveWater answers nothing on a closed index.
HasWater == ftSlot # "closed" /\ DOMAIN ftBleve.water # {}

\* As FtFresh, but an index that the process has opened is not compared again.
FtFreshOnce(sig) == IF ftSlot = "new" THEN ftSig = sig /\ ftBleve.built ELSE TRUE

FtFresh(sig) == ftSig = sig /\ (ftSlot = "new" => ftBleve.built)

\* openFTSIndex: once with the slot's once, which knows no force, then again under its lock.
FtOpen ==
  /\ ftPc = "open"
  /\ LET floor == readFTSFloor
         sig   == indexSourceSignature(floor)
         force == ftOp.kind = "rebuild" /\ ftSlot # "new"
     IN  /\ ftOpen' = [floor |-> floor, sig |-> sig]
         /\ IF FtFresh(sig) /\ ~force
            THEN /\ ftPc' = IF ftSlot = "new" THEN "open" ELSE "opened"
                 /\ ftSlot' = (IF ftSlot = "new" THEN "open" ELSE ftSlot)
                 /\ UNCHANGED <<ftLeft, ftSeen>>
            ELSE /\ ftPc' = IF ~force /\ ftBleve.built /\ HasWater THEN "catchup" ELSE "remove"
                 /\ FtWalk(InScope(floor)) /\ UNCHANGED ftSlot
  /\ UNCHANGED <<ftCut, ftBleve, ftSig, ftFloor, ftOp, ftRows, ftOps, sourceVars>>

FtRead ==
  /\ ftPc \in {"catchup", "build", "page"}
  /\ \E c \in ftLeft : ftLeft' = ftLeft \ {c} /\ ftSeen' = [x \in DOMAIN ftSeen \cup {c} |-> IF x = c THEN ixFiles[c] ELSE ftSeen[x]]
  /\ UNCHANGED <<ftCut, ftBleve, ftSig, ftFloor, ftSlot, ftOp, ftPc, ftOpen, ftRows, ftOps, sourceVars>>

\* One batch: documents and watermark together.
Batch(ents, water, fp) == ftBleve' = [ftBleve EXCEPT !.ents = @ \cup ents, !.water = water, !.fp = fp]

FtAnomalies == Rotated(ftBleve.water, ftSeen) \cup Truncated(ftBleve.water, ftSeen)
                 \cup Rewritten(ftBleve.water, ftBleve.fp, ftSeen)

catchUpBleve ==
  /\ ftPc = "catchup" /\ ftLeft = {}
  /\ IF FtAnomalies # {}
     THEN ftPc' = "remove" /\ FtWalk(InScope(ftOpen.floor)) /\ UNCHANGED ftBleve
     ELSE /\ LET water == NewWater(ftBleve.water, ftSeen)
             IN  Batch(UNION {Admitted(ftBleve.water, ftSeen, c) : c \in DOMAIN ftSeen}, water,
                       WaterFPMerge(water, ObservedWater(ftSeen), FingerprintWater(ftSeen), ftBleve.water, ftBleve.fp))
          /\ ftPc' = "sig" /\ UNCHANGED <<ftLeft, ftSeen>>
  /\ UNCHANGED <<ftCut, ftSig, ftFloor, ftSlot, ftOp, ftOpen, ftRows, ftOps, sourceVars>>

\* buildBleve: RemoveAll and New, batches as the scan goes on, the last one with the watermark.
FtRemove ==
  /\ ftPc = "remove"
  /\ ftBleve' = [NoBleve EXCEPT !.built = TRUE] /\ UNCHANGED ftCut
  /\ ftPc' = "build" /\ FtWalk(InScope(ftOpen.floor))
  /\ UNCHANGED <<ftSig, ftFloor, ftSlot, ftOp, ftOpen, ftRows, ftOps, sourceVars>>

FtFlush ==
  /\ ftPc = "build" /\ ftLeft # {} /\ Records(ftSeen) \ ftBleve.ents # {}
  /\ Batch(Records(ftSeen), Empty, Empty)
  /\ UNCHANGED <<ftCut, ftSig, ftFloor, ftSlot, ftOp, ftPc, ftOpen, ftLeft, ftSeen, ftRows, ftOps, sourceVars>>

buildBleve ==
  /\ ftPc = "build" /\ ftLeft = {}
  /\ Batch(Records(ftSeen), ObservedWater(ftSeen), FingerprintWater(ftSeen))
  /\ ftPc' = "sig" /\ ftCut' = FALSE
  /\ UNCHANGED <<ftSig, ftFloor, ftSlot, ftOp, ftOpen, ftLeft, ftSeen, ftRows, ftOps, sourceVars>>

\* A read or a batch fails: the index is closed, and the slot of a first open keeps the error.
FtFail ==
  /\ ftPc = "build" /\ ftOp.crash
  /\ ftSlot' = (IF ftSlot = "new" THEN "err" ELSE "closed") /\ ftPc' = "idle" /\ ftCut' = TRUE
  /\ UNCHANGED <<ftBleve, ftSig, ftFloor, ftOp, ftOpen, ftLeft, ftSeen, ftRows, ftOps, sourceVars>>

\* As writeFTSSig, but the signature is that of the source after the scan.
SigAfterScan ==
  /\ ftPc = "sig"
  /\ ftSig' = indexSourceSignature(readFTSFloor)
  /\ ftPc' = (IF ftSlot = "new" THEN "open" ELSE "opened") /\ ftSlot' = "open"

writeFTSSig ==
  /\ ftPc = "sig"
  /\ ftSig' = ftOpen.sig
  /\ ftPc' = (IF ftSlot = "new" THEN "open" ELSE "opened") /\ ftSlot' = "open"

FtWriteSig ==
  /\ writeFTSSig
  /\ UNCHANGED <<ftCut, ftBleve, ftFloor, ftOp, ftOpen, ftLeft, ftSeen, ftRows, ftOps, sourceVars>>

FtPage(floor, pages) ==
  {c \in BelowFloor(floor) : Cardinality({d \in BelowFloor(floor) : ixMtime[d] > ixMtime[c]}) < pages}

\* After the open: Search, or backfillFTS's page.
FtOpened ==
  /\ ftPc = "opened"
  /\ \/ /\ ftOp.kind = "rebuild" \/ (ftOp.kind = "backfill" /\ readFTSFloor = 0)
        /\ ftPc' = "idle" /\ UNCHANGED <<ftOpen, ftLeft, ftSeen, ftRows>>
     \/ /\ ftOp.kind = "query"
        /\ ftRows' = (IF ftSlot = "closed" THEN {} ELSE ftBleve.ents)
        /\ ftPc' = (IF ftSlot = "closed" THEN "idle" ELSE "searched") /\ UNCHANGED <<ftOpen, ftLeft, ftSeen>>
     \/ /\ ftOp.kind = "backfill" /\ readFTSFloor # 0
        /\ LET page == FtPage(readFTSFloor, ftOp.pages)
           IN  /\ ftPc' = "page" /\ FtWalk(page)
               /\ ftOpen' = [ftOpen EXCEPT !.floor = IF BelowFloor(readFTSFloor) \subseteq page THEN 0
                                                     ELSE Min({ixMtime[c] : c \in page})]
        /\ UNCHANGED ftRows
  /\ UNCHANGED <<ftCut, ftBleve, ftSig, ftFloor, ftSlot, ftOp, ftOps, sourceVars>>

FtEnd ==
  /\ ftPc = "searched" /\ ftPc' = "idle"
  /\ UNCHANGED <<ftCut, ftBleve, ftSig, ftFloor, ftSlot, ftOp, ftOpen, ftLeft, ftSeen, ftRows, ftOps, sourceVars>>

\* backfillFTS: the batch, then the floor file, then the signature file.
FtPageBatch ==
  /\ ftPc = "page" /\ ftLeft = {}
  /\ IF ftSlot = "closed" THEN UNCHANGED ftBleve
     ELSE Batch(Records(ftSeen), Over(ObservedWater(ftSeen), ftBleve.water), Over(FingerprintWater(ftSeen), ftBleve.fp))
  /\ ftPc' = IF ftSlot = "closed" THEN "idle" ELSE "floor"
  /\ UNCHANGED <<ftCut, ftSig, ftFloor, ftSlot, ftOp, ftOpen, ftLeft, ftSeen, ftRows, ftOps, sourceVars>>

\* The signature is taken after the floor was written; then the operation is over.
FtPageFloor ==
  /\ ftPc = "floor"
  /\ ftFloor' = ftOpen.floor
  /\ ftOpen' = [ftOpen EXCEPT !.sig = indexSourceSignature(ftOpen.floor)]
  /\ ftPc' = "sig" /\ ftOp' = [ftOp EXCEPT !.kind = "rebuild"]
  /\ UNCHANGED <<ftCut, ftBleve, ftSig, ftSlot, ftLeft, ftSeen, ftRows, ftOps, sourceVars>>

FtCrash ==
  /\ ftPc # "idle" /\ ftOp.crash
  /\ ftPc' = "idle" /\ ftSlot' = "new" /\ ftRows' = {} /\ ftCut' = (ftCut \/ ftPc = "build")
  /\ UNCHANGED <<ftBleve, ftSig, ftFloor, ftOp, ftOpen, ftLeft, ftSeen, ftOps, sourceVars>>

FtSourceChange == (ftPc = "idle" \/ ftOp.race) /\ SourceChange /\ UNCHANGED ftVars

FtNext(ops) ==
  \/ FtBegin(ops) \/ FtOpen \/ FtRead \/ catchUpBleve \/ FtRemove \/ FtFlush \/ buildBleve \/ FtFail
  \/ FtWriteSig \/ FtOpened \/ FtEnd \/ FtPageBatch \/ FtPageFloor \/ FtCrash \/ FtSourceChange

FtDone == ftPc = "idle" /\ ftOps = FtOps

\* The index over files of lengths lens, with the operations ops.
FtsSpec(lens, ops) == SourceInit(lens) /\ FtInit /\ [][FtNext(ops)]_<<sourceVars, ftVars>>

\* An operation is one of the three; the files do not change under a backfill.
FtOpsOK(ops) ==
  /\ ops \subseteq [kind : {"query", "rebuild", "backfill"}, race : BOOLEAN, crash : BOOLEAN, pages : Nat \ {0}]
  /\ \A op \in ops : op.kind = "backfill" => ~op.race

-----------------------------------------------------------------------------
(* Properties *)

\* Between operations an index whose signature file matches the source holds every record
\* in its scope, whatever was cut short before ...
FtsCrashSafe ==
  ftPc = "idle" /\ ftBleve.built /\ ftSig = indexSourceSignature(readFTSFloor) =>
    ScopeRecords(readFTSFloor) \subseteq ftBleve.ents

\* ... as long as what was cut short was no rebuild: that leaves the signature file of the
\* index it has removed.
FtsFreshIsComplete == ~ftCut => FtsCrashSafe

\* A search sees every record that is in scope in a container nobody changed since the
\* index was opened, and no record that such a container does not have
\* (again but for a rebuild that was cut short).
SearchExact ==
  ftPc = "searched" /\ ~ftCut =>
    LET same == {c \in IdxContainers : Exists(c)} \ ixTouched
    IN  /\ Records([c \in same \cap InScope(readFTSFloor) |-> ixFiles[c]]) \subseteq ftRows
        /\ {r \in ftRows : r[1] \in same} \subseteq Records([c \in same |-> ixFiles[c]])

\* A full-text index that is taken for fresh is complete, and a search gives
\* the records that match.
FtsExact == FtsFreshIsComplete /\ SearchExact
=============================================================================
