------------------------------- MODULE Insert -------------------------------
(***************************************************************************)
(* INSERT INTO one keyspace file (glue/insert.go, glue/insert_writer.go).  *)
(* A statement looks whether the target exists, creates the temporary file *)
(* beside it (exclusively, under a fixed name), seeds it with the target's *)
(* rows in "append" mode, fills it, and renames it over the target.  With  *)
(* a SELECT as its source a second goroutine does the writing, fed over a  *)
(* bounded channel.  Each statement is a session of its own; statements    *)
(* run concurrently and may die at any moment.                             *)
(*                                                                         *)
(* A file is the sequence of its rows <<statement, i>>: bytes, lines and   *)
(* column types are left out.  What a row's VALUE evaluates to is a        *)
(* document, a "wide" one with a column more, MISSING (no document) or an  *)
(* error.  A Parquet file has the columns of its first row.  Any write may *)
(* fail, which stands for the I/O errors and for values of another type    *)
(* than their column's.                                                    *)
(***************************************************************************)
EXTENDS Naturals, Sequences, FiniteSets

CONSTANTS
  InsertStmts,      \* the statements
  InsertRows,      \* rows of a statement's source
  QueueCap,   \* insertWriterQueue
  InsertModes,      \* the modes in use, of "new", "append", "overwrite"
  InsertSources,    \* the statements in use: [kind, returning, rows], see below
  InsertOld,        \* the writer of the row that the file may hold at first
  NoTarget        \* "there is no such file"

Evaluated == {"doc", "wide", "missing", "bad"}

ASSUME InsertAssumption ==
  /\ InsertRows \in Nat /\ QueueCap \in Nat \ {0}
  /\ InsertSources \subseteq [kind : {"select", "values"}, returning : BOOLEAN, rows : [1..InsertRows -> Evaluated]]
  /\ InsertModes \subseteq {"new", "append", "overwrite"}
  /\ InsertOld \notin InsertStmts
  /\ NoTarget \notin Seq((InsertStmts \cup {InsertOld}) \X Nat)

VARIABLES
  inFormat,   \* of the target, by its extension: "jsonl" or "parquet"
  inFile,     \* the target, or NoTarget
  inTmp,      \* the temporary file: its rows, or NoTarget
  inSt,       \* the statements
  inOutcome   \* what each statement has returned: "none" yet, "ok", "error", or it "died"

inVars == <<inFormat, inFile, inTmp, inSt, inOutcome>>

\* What a statement has before it looks at the target.
FreshInsert == [pc |-> "idle", mode |-> "new", kind |-> "values", returning |-> FALSE, exists |-> FALSE,
          source |-> <<>>, i |-> 1, queue |-> <<>>, runErr |-> FALSE, evalErr |-> FALSE,
          writeErr |-> FALSE, n |-> 0, retErr |-> FALSE]

InsertInit(formats, targets) ==
  /\ inFormat \in formats
  /\ inFile \in targets
  /\ inTmp = NoTarget
  /\ inSt = [s \in InsertStmts |-> FreshInsert]
  /\ inOutcome = [s \in InsertStmts |-> "none"]

Become(s, r) == inSt' = [inSt EXCEPT ![s] = r]

\* s returns.  Only a success leaves something to look at.
InsertEnd(s, how) ==
  /\ Become(s, IF how = "ok" THEN [inSt[s] EXCEPT !.pc = "ended"] ELSE [FreshInsert EXCEPT !.pc = "ended"])
  /\ inOutcome' = [inOutcome EXCEPT ![s] = how]

-----------------------------------------------------------------------------
(* Up to the first row.                                                    *)

\* The target is looked at here, and trusted until the rename.
InsertRefused(mode, exists) == mode = "new" /\ exists

InsertStart(s) ==
  /\ inSt[s].pc = "idle"
  /\ \E mode \in InsertModes, src \in InsertSources :
       LET exists == inFile # NoTarget
       IN  IF InsertRefused(mode, exists) THEN InsertEnd(s, "error")
           ELSE /\ Become(s, [inSt[s] EXCEPT !.pc = "open", !.mode = mode, !.exists = exists, !.kind = src.kind,
                                           !.returning = src.returning, !.source = src.rows])
                /\ UNCHANGED inOutcome
  /\ UNCHANGED <<inFormat, inFile, inTmp>>

SeedFrom(s) == inSt[s].mode = "append" /\ inSt[s].exists

\* newInsertWriter: O_CREATE|O_EXCL fails while the temporary file stands.
NewWriter(s) ==
  /\ inSt[s].pc = "open"
  /\ IF inTmp # NoTarget \/ (inFormat = "parquet" /\ inSt[s].mode = "append")
     THEN InsertEnd(s, "error") /\ UNCHANGED inTmp
     ELSE /\ inTmp' = <<>>
          /\ Become(s, [inSt[s] EXCEPT !.pc = IF SeedFrom(s) THEN "seed" ELSE "run"])
          /\ UNCHANGED inOutcome
  /\ UNCHANGED <<inFormat, inFile>>

\* As Seeded, but the target's rows are not copied.
SeededNothing == <<>>

\* What the temporary file is pre-filled with.
Seeded == inFile

Seed(s) ==
  /\ inSt[s].pc = "seed"
  /\ \/ inTmp' = Seeded /\ Become(s, [inSt[s] EXCEPT !.pc = "run"])
     \/ Become(s, [inSt[s] EXCEPT !.pc = "abort"]) /\ UNCHANGED inTmp
  /\ UNCHANGED <<inFormat, inFile, inOutcome>>

-----------------------------------------------------------------------------
(* The writer: insertWriter.write and insertReturner.emit of one document. *)

\* The first error makes the writer skip what follows.
Latched(r) == r.writeErr

\* RETURNING's projection is evaluated, and may fail; the rows that it gives are left out.
Emits(r) == r.returning /\ ~r.retErr

\* parquetWriter.start: the columns are those of the first row; Parquet has no seed, so
\* that row is this statement's.
ParquetSchema(r) == IF inTmp = <<>> THEN "none" ELSE r.source[inTmp[1][2]]

\* As Fits, but a column that the file lacks is passed over.
ParquetFitsAny(r, i) == TRUE

\* parquetWriter.write: a column that the file lacks has nowhere to go.
ParquetFits(r, i) == inFormat = "parquet" /\ r.source[i] = "wide" => ParquetSchema(r) \in {"none", "wide"}

\* write, then emit, of the document that row i of the source gave, in record r.
WriteDoc(s, r, i) ==
  \E fails, retFails \in BOOLEAN :
    LET skipped == Latched(r) \/ r.source[i] = "missing"
        written == ~skipped /\ ~fails
    IN  /\ ~skipped /\ ~ParquetFits(r, i) => fails
        /\ inTmp' = IF written THEN Append(inTmp, <<s, i>>) ELSE inTmp
        /\ Become(s, [r EXCEPT !.writeErr = @ \/ (~skipped /\ fails),
                               !.n = IF written THEN @ + 1 ELSE @,
                               !.retErr = @ \/ (Emits(r) /\ retFails)])

\* As Drains, but the writer gives up at its first error.
DrainsUntilErr(r) == r.queue # <<>> /\ ~r.writeErr

\* range docs: the writer takes what there is, whatever has failed.
Drains(r) == r.queue # <<>>

WriterTake(s) ==
  /\ inSt[s].pc \in {"run", "drain"} /\ inSt[s].kind = "select"
  /\ Drains(inSt[s])
  /\ WriteDoc(s, [inSt[s] EXCEPT !.queue = Tail(@)], Head(inSt[s].queue))
  /\ UNCHANGED <<inFormat, inFile, inOutcome>>

-----------------------------------------------------------------------------
(* The source.                                                             *)

\* OnRow: evaluates a row's VALUE and sends it, waiting while the channel is full.
InsertOnRow(s) ==
  LET i == inSt[s].i
      doc == inSt[s].source[i]
      next == [inSt[s] EXCEPT !.i = @ + 1]
  IN  /\ inSt[s].pc = "run" /\ inSt[s].kind = "select" /\ i <= InsertRows
      /\ \/ inSt[s].evalErr /\ Become(s, next)
         \/ ~inSt[s].evalErr /\ doc = "bad" /\ Become(s, [next EXCEPT !.evalErr = TRUE])
         \/ /\ ~inSt[s].evalErr /\ doc # "bad" /\ Len(inSt[s].queue) < QueueCap
            /\ Become(s, [next EXCEPT !.queue = Append(@, i)])
      /\ UNCHANGED <<inFormat, inFile, inTmp, inOutcome>>

\* StatementRun returns, having failed or not; the channel is closed.
SourceEnds(s) ==
  /\ inSt[s].pc = "run" /\ inSt[s].kind = "select"
  /\ \E failed \in BOOLEAN :
       /\ failed \/ inSt[s].i > InsertRows
       /\ Become(s, [inSt[s] EXCEPT !.pc = "drain", !.runErr = failed])
  /\ UNCHANGED <<inFormat, inFile, inTmp, inOutcome>>

\* VALUES: one pair after the other, without a second goroutine.
ValuesPair(s) ==
  LET i == inSt[s].i
      next == [inSt[s] EXCEPT !.i = @ + 1]
  IN  /\ inSt[s].pc = "run" /\ inSt[s].kind = "values" /\ i <= InsertRows
      /\ \/ /\ inSt[s].source[i] = "bad"
            /\ Become(s, [next EXCEPT !.pc = "abort"])
            /\ UNCHANGED inTmp
         \/ inSt[s].source[i] # "bad" /\ WriteDoc(s, next, i)
      /\ UNCHANGED <<inFormat, inFile, inOutcome>>

\* As Joined, but the writer is not waited for.
SourceJoinedAtOnce(r) == r.pc = "drain"

\* The rows have all been dealt with: the writer goroutine has ended, or the pairs have.
SourceJoined(r) ==
  \/ r.kind = "select" /\ r.pc = "drain" /\ r.queue = <<>>
  \/ r.kind = "values" /\ r.pc = "run" /\ r.i > InsertRows

\* As Failed, but an error in evaluating a row's VALUE is forgotten.
InsertFailedToWrite(r) == r.runErr \/ r.writeErr \/ r.retErr

InsertFailed(r) == r.runErr \/ r.evalErr \/ r.writeErr \/ r.retErr

InsertJoin(s) ==
  /\ SourceJoined(inSt[s])
  /\ Become(s, [inSt[s] EXCEPT !.pc = IF InsertFailed(inSt[s]) THEN "abort" ELSE "finish"])
  /\ UNCHANGED <<inFormat, inFile, inTmp, inOutcome>>

-----------------------------------------------------------------------------
(* The end.                                                                *)

\* finish: flush and close, then the rename that commits; each may fail.
FinishFails(s) ==
  /\ inSt[s].pc = "finish"
  /\ Become(s, [inSt[s] EXCEPT !.pc = "abort"])
  /\ UNCHANGED <<inFormat, inFile, inTmp, inOutcome>>

InsertRename(s) ==
  /\ inSt[s].pc = "finish" /\ inTmp # NoTarget
  /\ inFile' = inTmp /\ inTmp' = NoTarget
  /\ InsertEnd(s, "ok")
  /\ UNCHANGED inFormat

\* As Abort, but the temporary file is left behind.
InsertAbortKeeping(s) ==
  /\ inSt[s].pc = "abort"
  /\ InsertEnd(s, "error")
  /\ UNCHANGED <<inFormat, inFile, inTmp>>

\* abort: removes the temporary file.
InsertAbort(s) ==
  /\ inSt[s].pc = "abort"
  /\ inTmp' = NoTarget
  /\ InsertEnd(s, "error")
  /\ UNCHANGED <<inFormat, inFile>>

\* The process dies; a temporary file of its own stays.
InsertCrash(s) ==
  /\ inSt[s].pc \notin {"idle", "ended"}
  /\ InsertEnd(s, "died")
  /\ UNCHANGED <<inFormat, inFile, inTmp>>

Holding(s) == inSt[s].pc \in {"seed", "run", "drain", "finish", "abort"}

\* Somebody removes what a dead process left.
RemoveStale ==
  /\ inTmp # NoTarget /\ \A s \in InsertStmts : ~Holding(s)
  /\ inTmp' = NoTarget
  /\ UNCHANGED <<inFormat, inFile, inSt, inOutcome>>

InsertSession(s) ==
  \/ NewWriter(s) \/ Seed(s) \/ InsertOnRow(s) \/ SourceEnds(s) \/ ValuesPair(s) \/ InsertJoin(s)
  \/ FinishFails(s) \/ InsertRename(s) \/ InsertAbort(s)

InsertNext == RemoveStale \/ \E s \in InsertStmts : InsertStart(s) \/ InsertSession(s) \/ WriterTake(s) \/ InsertCrash(s)

\* The two goroutines of a statement run; nothing else has to happen.
InsertFair == \A s \in InsertStmts : WF_inVars(InsertSession(s)) /\ WF_inVars(WriterTake(s))

InsertSpec(formats, targets) == InsertInit(formats, targets) /\ [][InsertNext]_inVars

InsertDone == \A s \in InsertStmts : inSt[s].pc = "ended"

-----------------------------------------------------------------------------
(* Correctness.                                                            *)

\* The rows of its source that a complete statement has in the target.
InsertDocuments(s) == {i \in 1..InsertRows : inSt[s].source[i] \in {"doc", "wide"}}

\* Where the rows of s are in file f.
RowsOf(f, s) == {k \in DOMAIN f : f[k][1] = s}

\* Of s, file f holds exactly these rows of its source, each once and in order.
HoldsRows(f, s, docs) ==
  /\ {f[k][2] : k \in RowsOf(f, s)} = docs
  /\ \A j, k \in RowsOf(f, s) : j < k => f[j][2] < f[k][2]

\* A reader of the target sees all rows of a statement, once and in order, or none:
\* whichever goroutine lags or fails, wherever the process dies, and whatever another
\* statement seeds its own temporary file with.
AllOrNothing ==
  inFile # NoTarget =>
    \A s \in InsertStmts : RowsOf(inFile, s) # {} => inOutcome[s] = "ok" /\ HoldsRows(inFile, s, InsertDocuments(s))

\* A statement that reports success has written exactly the documents of its source, none of
\* them having failed in evaluation, in the writer or in RETURNING, and counts them right.
CountTrue ==
  \A s \in InsertStmts : inOutcome[s] = "ok" => inSt[s].n = Cardinality(InsertDocuments(s)) /\ ~InsertFailed(inSt[s])

\* A statement that reports success has lost no column of any row, whatever the format of
\* the target: every row of a Parquet file has a place for all it holds in the columns of
\* the first (the contract that parquetWriter.write states).
NoColumnLost ==
  inFormat = "parquet" =>
    \A s \in InsertStmts : inOutcome[s] = "ok" =>
      \A i, j \in InsertDocuments(s) :
        (\A k \in InsertDocuments(s) : i <= k) /\ inSt[s].source[j] = "wide" => inSt[s].source[i] = "wide"

\* Rows leave the target only by an "overwrite", or by a statement that saw no target when
\* it started: appends that overlap do not lose each other's rows.
RowsLeaveOnlyBlindly ==
  [][inFile # NoTarget => \A s \in InsertStmts :
       inOutcome[s] # "ok" /\ inOutcome'[s] = "ok" /\ inSt[s].mode # "overwrite" /\ inSt[s].exists
         => \A i \in DOMAIN inFile : inFile'[i] = inFile[i]]_inVars

\* While nobody dies, the target can be inserted into again: a statement that ended, in
\* whatever way, has not left its temporary file.
NoLeftover == inTmp # NoTarget => \E s \in InsertStmts : Holding(s) \/ inOutcome[s] = "died"

\* Every statement ends: the producer never waits for ever on a writer that has failed.
InsertEnds == \A s \in InsertStmts : inSt[s].pc = "open" ~> inSt[s].pc = "ended"

\* A statement in "new" mode never replaces a file (the documented meaning of the mode).
NewNeverReplaces ==
  [][\A s \in InsertStmts : inSt[s].mode = "new" /\ inOutcome[s] # "ok" /\ inOutcome'[s] = "ok" => inFile = NoTarget]_inVars

\* An INSERT is all there or not at all, and says so (Insert, insert.go).
InsertAtomic == AllOrNothing /\ CountTrue /\ NoLeftover /\ NoColumnLost
=============================================================================
