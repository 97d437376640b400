---------------------------- MODULE SourceProofs ----------------------------
(***************************************************************************)
(* Proofs about INSERT (Insert), about how the bytes of a file become      *)
(* records (RecordSource), and about scans, fetches and index drains over  *)
(* the files of a keyspace (DatastoreScan).                                *)
(*                                                                         *)
(* Whatever the number of statements, their sources, modes and rows, and   *)
(* the room of the writer's channel, a file has all of a statement's rows  *)
(* or none, a success is a true one, and an append loses no row of         *)
(* another's.  Whatever the bytes of a .json file that was written from    *)
(* values, or of a .jsonl file, its records are those values and those     *)
(* lines; and whatever the number of scans, files and records, a lent      *)
(* record stays what it was.  Whatever the files of a keyspace, and        *)
(* whatever another program does to them, a scan gives all their records   *)
(* or warns, and a fetch finds the record that its id was given to; and a  *)
(* drain yields every document of an index's spans once.                   *)
(***************************************************************************)
EXTENDS Insert, RecordSource, DatastoreScan, FiniteSetTheorems, SequenceTheorems, WellFoundedInduction,
        TLAPS

-----------------------------------------------------------------------------
(* Files.                                                                  *)

Writers == InsertStmts \cup {InsertOld}
Files == Seq(Writers \X Nat)

\* The documents among the first n rows of a source.
Documents(source, n) == {i \in 1..n : source[i] \in {"doc", "wide"}}

LEMMA FileFacts ==
  ASSUME NEW f \in Files
  PROVE  /\ Len(f) \in Nat /\ DOMAIN f = 1..Len(f)
         /\ \A k \in 1..Len(f) : f[k] \in Writers \X Nat /\ f[k][1] \in Writers /\ f[k][2] \in Nat
         /\ f # NoTarget
<1>1. NoTarget \notin Files BY InsertAssumption DEF Files, Writers
<1>2. Len(f) \in Nat /\ DOMAIN f = 1..Len(f) /\ \A k \in 1..Len(f) : f[k] \in Writers \X Nat BY DEF Files
<1> QED BY <1>1, <1>2

\* A row at the end of a file.
LEMMA AppendRow ==
  ASSUME NEW f \in Files, NEW s \in InsertStmts, NEW i \in Nat
  PROVE  LET g == Append(f, <<s, i>>)
         IN  /\ g \in Files /\ Len(g) = Len(f) + 1 /\ DOMAIN g = 1..(Len(f) + 1)
             /\ g[Len(f) + 1] = <<s, i>> /\ \A k \in 1..Len(f) : g[k] = f[k]
<1>1. <<s, i>> \in Writers \X Nat BY DEF Writers
<1> HIDE DEF Writers
<1> QED BY <1>1, AppendProperties DEF Files

\* It is s's next row, and leaves the other statements' rows as they are.
LEMMA HoldsAppend ==
  ASSUME NEW f \in Files, NEW s \in InsertStmts, NEW i \in Nat, NEW D \in SUBSET Nat
  PROVE  /\ HoldsRows(f, s, D) /\ (\A d \in D : d < i) => HoldsRows(Append(f, <<s, i>>), s, D \cup {i})
         /\ \A t \in InsertStmts : t # s => /\ RowsOf(Append(f, <<s, i>>), t) = RowsOf(f, t)
                                            /\ HoldsRows(f, t, D) => HoldsRows(Append(f, <<s, i>>), t, D)
<1> DEFINE n == Len(f)
           g == Append(f, <<s, i>>)
<1>1. n \in Nat /\ DOMAIN f = 1..n /\ \A k \in 1..n : f[k][2] \in Nat BY FileFacts
<1>2. DOMAIN g = 1..(n + 1) /\ g[n + 1] = <<s, i>> /\ \A k \in 1..n : g[k] = f[k] BY AppendRow
<1> HIDE DEF n, g
<1>3. /\ \A k \in 1..(n + 1) : k \in 1..n \/ k = n + 1
      /\ \A k \in 1..n : k \in 1..(n + 1) /\ k < n + 1 /\ ~(n + 1 < k)
      /\ n + 1 \in 1..(n + 1) /\ n + 1 \notin 1..n /\ ~(n + 1 < n + 1) BY <1>1
<1>4. RowsOf(g, s) = RowsOf(f, s) \cup {n + 1}
 <2>1. \A k : k \in RowsOf(g, s) <=> k \in RowsOf(f, s) \/ k = n + 1 BY <1>1, <1>2, <1>3 DEF RowsOf
 <2> QED BY <2>1
<1>5. \A t \in InsertStmts : t # s => RowsOf(g, t) = RowsOf(f, t)
 <2>1. ASSUME NEW t \in InsertStmts, t # s PROVE \A k : k \in RowsOf(g, t) <=> k \in RowsOf(f, t)
   BY <1>1, <1>2, <1>3, <2>1 DEF RowsOf
 <2> QED BY <2>1
<1>6. \A t : \A k \in RowsOf(f, t) : k \in 1..n /\ g[k] = f[k] BY <1>1, <1>2 DEF RowsOf
<1>7. ASSUME HoldsRows(f, s, D), \A d \in D : d < i
      PROVE  HoldsRows(g, s, D \cup {i})
 <2>1. {f[k][2] : k \in RowsOf(f, s)} = D /\ \A j, k \in RowsOf(f, s) : j < k => f[j][2] < f[k][2]
   BY <1>7 DEF HoldsRows
 <2>2. g[n + 1][2] = i BY <1>2
 <2>3. {g[k][2] : k \in RowsOf(g, s)} = D \cup {i} BY <1>4, <1>6, <2>1, <2>2
 <2>4. \A j \in RowsOf(f, s) : f[j][2] < i BY <1>7, <2>1
 <2>5. \A j, k \in RowsOf(g, s) : j < k => g[j][2] < g[k][2] BY <1>3, <1>4, <1>6, <2>1, <2>2, <2>4
 <2> QED BY <2>3, <2>5 DEF HoldsRows
<1>8. ASSUME NEW t \in InsertStmts, t # s, HoldsRows(f, t, D)
      PROVE  HoldsRows(g, t, D)
 <2>1. {g[k][2] : k \in RowsOf(f, t)} = {f[k][2] : k \in RowsOf(f, t)} BY <1>6
 <2> QED BY <1>5, <1>6, <1>8, <2>1 DEF HoldsRows
<1> QED BY <1>5, <1>7, <1>8 DEF g

LEMMA DocumentsStep ==
  ASSUME NEW source, NEW n \in Nat
  PROVE  /\ Documents(source, n) \in SUBSET Nat /\ IsFiniteSet(Documents(source, n))
         /\ Cardinality(Documents(source, n)) \in Nat
         /\ \A d \in Documents(source, n) : d < n + 1
         /\ source[n + 1] \in {"doc", "wide"} =>
              /\ Documents(source, n + 1) = Documents(source, n) \cup {n + 1}
              /\ Cardinality(Documents(source, n + 1)) = Cardinality(Documents(source, n)) + 1
         /\ source[n + 1] \notin {"doc", "wide"} => Documents(source, n + 1) = Documents(source, n)
<1> DEFINE D == Documents(source, n)
<1>1. D \subseteq 1..n /\ D \in SUBSET Nat /\ \A d \in D : d < n + 1 BY DEF Documents
<1>2. IsFiniteSet(1..n) BY FS_Interval
<1>3. IsFiniteSet(D) /\ Cardinality(D) \in Nat
 <2> HIDE DEF D
 <2> QED BY <1>1, <1>2, FS_Subset, FS_CardinalityType
<1>4. n + 1 \notin D BY <1>1
<1>5. \A k : k \in 1..(n + 1) <=> k \in 1..n \/ k = n + 1 OBVIOUS
<1>6. source[n + 1] \in {"doc", "wide"} => Documents(source, n + 1) = D \cup {n + 1} BY <1>5 DEF Documents
<1>7. source[n + 1] \notin {"doc", "wide"} => Documents(source, n + 1) = D BY <1>5 DEF Documents
<1>8. Cardinality(D \cup {n + 1}) = Cardinality(D) + 1
 <2> HIDE DEF D
 <2> QED BY <1>3, <1>4, FS_AddElement
<1> QED BY <1>1, <1>3, <1>6, <1>7, <1>8

-----------------------------------------------------------------------------
(* The invariant: what a statement has done of its source, and what of it  *)
(* is in the temporary file.                                               *)

Outcomes == {"none", "ok", "error", "died"}
WorkingPcs == {"run", "drain", "finish"}
HoldingPcs == WorkingPcs \cup {"seed", "abort"}

Stmt ==
  [pc : HoldingPcs \cup {"idle", "open", "ended"}, mode : {"new", "append", "overwrite"}, kind : {"select", "values"},
   returning : BOOLEAN, exists : BOOLEAN, source : {<<>>} \cup [1..InsertRows -> Evaluated], i : Nat,
   queue : Seq(1..InsertRows), runErr : BOOLEAN, evalErr : BOOLEAN, writeErr : BOOLEAN, n : Nat, retErr : BOOLEAN]

InsertTypes ==
  /\ inFile \in Files \cup {NoTarget} /\ inTmp \in Files \cup {NoTarget}
  /\ inSt \in [InsertStmts -> Stmt] /\ inOutcome \in [InsertStmts -> Outcomes]

\* While nothing has failed, the first d rows of the source are in the temporary file.
Written(s, r, tmp, d) ==
  ~r.evalErr /\ ~r.writeErr =>
    /\ HoldsRows(tmp, s, Documents(r.source, d)) /\ r.n = Cardinality(Documents(r.source, d))
    /\ inFormat = "parquet" =>
         \A k \in DOMAIN tmp : tmp[k][1] = s /\ (r.source[tmp[k][2]] = "wide" => r.source[tmp[1][2]] = "wide")

\* The channel holds the last rows that the source has given.
Queued(r) ==
  Len(r.queue) < r.i
  /\ \A k \in 1..Len(r.queue) : r.queue[k] = r.i - 1 - Len(r.queue) + k /\ r.source[r.queue[k]] # "bad"

\* The rows of file f stay where they are in file g.
Keeps(f, g) == f \in Files /\ Len(f) <= Len(g) /\ \A k \in 1..Len(f) : g[k] = f[k]

Untouched(r) == r.i = 1 /\ r.queue = <<>> /\ r.n = 0 /\ ~InsertFailed(r)

Working(s, r, tmp, file) ==
  /\ tmp \in Files /\ r.i \in 1..(InsertRows + 1)
  /\ r.kind = "values" => r.queue = <<>>
  /\ ~r.evalErr => Queued(r)
  /\ Written(s, r, tmp, r.i - 1 - Len(r.queue))
  /\ r.mode = "append" /\ r.exists => Keeps(file, tmp)
  /\ r.pc = "drain" /\ ~r.runErr => r.i = InsertRows + 1
  /\ r.pc = "finish" => ~InsertFailed(r) /\ r.i = InsertRows + 1 /\ r.queue = <<>>

\* A statement that has reported success.
Succeeded(r) ==
  /\ ~InsertFailed(r) /\ r.n = Cardinality(Documents(r.source, InsertRows))
  /\ inFormat = "parquet" =>
       \A i, j \in Documents(r.source, InsertRows) :
         (\A k \in Documents(r.source, InsertRows) : i <= k) /\ r.source[j] = "wide" => r.source[i] = "wide"

Progress(s) ==
  LET r == inSt[s]
  IN  /\ r.pc = "ended" <=> inOutcome[s] # "none"
      /\ r.pc \in {"idle", "open", "seed"} => Untouched(r)
      /\ r.pc \in WorkingPcs \cup {"open", "seed"} =>
           r.source \in [1..InsertRows -> Evaluated] /\ (r.exists => r.mode # "new" /\ inFile # NoTarget)
      /\ r.pc = "seed" => inTmp = <<>> /\ r.mode = "append" /\ r.exists /\ inFormat # "parquet"
      /\ r.pc \in WorkingPcs => Working(s, r, inTmp, inFile)
      /\ inOutcome[s] = "ok" => Succeeded(r)

HolderInv == \A s, t \in InsertStmts : Holding(s) => inTmp # NoTarget /\ (Holding(t) => t = s)

\* File f has the rows of statement t, all or none.
FileOK(f, t) ==
  RowsOf(f, t) # {} => inOutcome[t] = "ok" /\ HoldsRows(f, t, Documents(inSt[t].source, InsertRows))

FilesInv ==
  /\ inFile # NoTarget => \A t \in InsertStmts : FileOK(inFile, t)
  /\ \A s, t \in InsertStmts : inSt[s].pc \in WorkingPcs /\ t # s => FileOK(inTmp, t)

InsertInv == InsertTypes /\ HolderInv /\ (\A s \in InsertStmts : Progress(s)) /\ FilesInv /\ NoLeftover

\* The rows of a file stay true when a statement that has not succeeded acts.
LEMMA FileStable ==
  ASSUME InsertInv, NEW s \in InsertStmts, NEW r, NEW o, Become(s, r), inOutcome' = [inOutcome EXCEPT ![s] = o],
         inOutcome[s] # "ok", NEW f, NEW t \in InsertStmts, FileOK(f, t)
  PROVE  FileOK(f, t)' /\ (t = s => RowsOf(f, t) = {})
<1>1. inSt \in [InsertStmts -> Stmt] /\ inOutcome \in [InsertStmts -> Outcomes] BY DEF InsertInv, InsertTypes
<1>2. CASE t = s BY <1>2 DEF FileOK
<1>3. CASE t # s
 <2>1. inSt'[t] = inSt[t] /\ inOutcome'[t] = inOutcome[t] BY <1>1, <1>3 DEF Become
 <2> QED BY <1>3, <2>1 DEF FileOK
<1> QED BY <1>2, <1>3

\* What a step of statement s has to show.
LEMMA StepFrame ==
  ASSUME InsertInv, NEW s \in InsertStmts, NEW r \in Stmt, NEW o \in Outcomes,
         Become(s, r), inOutcome' = [inOutcome EXCEPT ![s] = o], inFormat' = inFormat, inSt[s].pc # "ended",
         inFile' \in Files \cup {NoTarget}, inTmp' \in Files \cup {NoTarget}, inFile # NoTarget => inFile' # NoTarget,
         (inTmp' = inTmp /\ inFile' = inFile) \/ \A t \in InsertStmts \ {s} : ~Holding(t),
         Progress(s)',
         r.pc \in HoldingPcs => inTmp' # NoTarget /\ \A t \in InsertStmts \ {s} : ~Holding(t),
         inFile' = inFile \/ \A t \in InsertStmts : FileOK(inFile, t)',
         r.pc \in WorkingPcs => \A t \in InsertStmts \ {s} : FileOK(inTmp, t)',
         inTmp' # NoTarget => r.pc \in HoldingPcs \/ o = "died" \/ (inTmp' = inTmp /\ ~Holding(s))
  PROVE  InsertInv'
<1>1. inSt \in [InsertStmts -> Stmt] /\ inOutcome \in [InsertStmts -> Outcomes] /\ InsertTypes /\ inOutcome[s] = "none"
  BY DEF InsertInv, InsertTypes, Progress
<1>2. inSt'[s] = r /\ inOutcome'[s] = o /\ inSt' \in [InsertStmts -> Stmt] /\ inOutcome' \in [InsertStmts -> Outcomes]
  BY <1>1 DEF Become
<1>3. \A t \in InsertStmts : t # s => inSt'[t] = inSt[t] /\ inOutcome'[t] = inOutcome[t] BY <1>1 DEF Become
<1>4. InsertTypes' BY <1>2 DEF InsertTypes
<1>5. /\ \A t \in InsertStmts : Holding(t) <=> inSt[t].pc \in HoldingPcs
      /\ \A t \in InsertStmts : Holding(t)' <=> inSt'[t].pc \in HoldingPcs
      /\ WorkingPcs \subseteq HoldingPcs BY DEF Holding, HoldingPcs, WorkingPcs
<1>6. (Holding(s)' <=> r.pc \in HoldingPcs) /\ \A t \in InsertStmts : t # s => (Holding(t)' <=> Holding(t))
  BY <1>2, <1>3, <1>5
<1>7. HolderInv'
 <2>1. SUFFICES ASSUME NEW u \in InsertStmts, NEW t \in InsertStmts, Holding(u)'
                PROVE  inTmp' # NoTarget /\ (Holding(t)' => t = u) BY DEF HolderInv
 <2>2. CASE u = s BY <1>6, <2>1, <2>2
 <2>3. CASE u # s
  <3>1. Holding(u) /\ inTmp' = inTmp BY <1>6, <2>1, <2>3
  <3>2. inTmp' # NoTarget /\ (Holding(t) => t = u) BY <3>1 DEF InsertInv, HolderInv
  <3> QED BY <1>6, <2>1, <2>3, <3>1, <3>2
 <2> QED BY <2>2, <2>3
<1>8. ASSUME NEW t \in InsertStmts, t # s PROVE Progress(t)'
 <2>1. Progress(t) /\ inSt'[t] = inSt[t] /\ inOutcome'[t] = inOutcome[t] BY <1>3, <1>8 DEF InsertInv
 <2>2. CASE inTmp' = inTmp /\ inFile' = inFile BY <2>1, <2>2 DEF Progress, Succeeded, Working, Written
 <2>3. CASE ~Holding(t)
  <3>1. inSt[t].pc \notin HoldingPcs BY <1>5, <2>3
  <3> QED BY <2>1, <3>1 DEF Progress, Succeeded, HoldingPcs
 <2> QED BY <1>8, <2>2, <2>3
<1>9. FilesInv'
 <2>1. ASSUME NEW f, NEW t \in InsertStmts, FileOK(f, t) PROVE FileOK(f, t)' BY <1>1, <2>1, FileStable
 <2>2. ASSUME inFile' # NoTarget, NEW t \in InsertStmts PROVE FileOK(inFile, t)'
  <3>1. CASE inFile' = inFile
   <4>1. FileOK(inFile, t) BY <2>2, <3>1 DEF InsertInv, FilesInv
   <4>3. PICK f : f = inFile OBVIOUS
   <4>4. FileOK(f, t)' BY <2>1, <4>1, <4>3
   <4> QED BY <3>1, <4>3, <4>4 DEF FileOK
  <3>2. CASE \A u \in InsertStmts : FileOK(inFile, u)' BY <3>2
  <3> QED BY <3>1, <3>2
 <2>3. ASSUME NEW u \in InsertStmts, NEW t \in InsertStmts, inSt'[u].pc \in WorkingPcs, t # u PROVE FileOK(inTmp, t)'
  <3>1. CASE u = s BY <1>2, <2>3, <3>1
  <3>2. CASE u # s
   <4>1. inSt[u].pc \in WorkingPcs /\ Holding(u) /\ inTmp' = inTmp BY <1>3, <1>5, <2>3, <3>2
   <4>2. FileOK(inTmp, t) BY <2>3, <4>1 DEF InsertInv, FilesInv
   <4>3. PICK f : f = inTmp OBVIOUS
   <4>4. FileOK(f, t)' BY <2>1, <4>2, <4>3
   <4> QED BY <4>1, <4>3, <4>4 DEF FileOK
  <3> QED BY <3>1, <3>2
 <2> QED BY <2>2, <2>3 DEF FilesInv
<1>10. NoLeftover'
 <2>1. SUFFICES ASSUME inTmp' # NoTarget PROVE \E t \in InsertStmts : Holding(t)' \/ inOutcome'[t] = "died"
   BY DEF NoLeftover
 <2>2. CASE r.pc \in HoldingPcs \/ o = "died" BY <1>2, <1>6, <2>2
 <2>3. CASE inTmp' = inTmp /\ ~Holding(s)
  <3>1. PICK u \in InsertStmts : Holding(u) \/ inOutcome[u] = "died" BY <2>1, <2>3 DEF InsertInv, NoLeftover
  <3>2. u # s BY <1>1, <2>3, <3>1
  <3> QED BY <1>3, <1>6, <3>1, <3>2
 <2> QED BY <2>1, <2>2, <2>3
<1> QED BY <1>4, <1>7, <1>8, <1>9, <1>10 DEF InsertInv


-----------------------------------------------------------------------------
(* The writer.                                                             *)

\* One more row of the source is dealt with: it is in the temporary file, or
\* it is no document, or something has failed.
LEMMA WriteDocFacts ==
  ASSUME NEW s \in InsertStmts, NEW r \in Stmt, NEW i \in 1..InsertRows, NEW d \in Int,
         r.source \in [1..InsertRows -> Evaluated], inTmp \in Files, WriteDoc(s, r, i),
         ~r.evalErr => d \in Nat /\ i = d + 1 /\ r.source[i] # "bad",
         Written(s, r, inTmp, d)
  PROVE  \E r2 \in Stmt :
           /\ Become(s, r2)
           /\ r2.pc = r.pc /\ r2.mode = r.mode /\ r2.kind = r.kind /\ r2.exists = r.exists /\ r2.source = r.source
           /\ r2.i = r.i /\ r2.queue = r.queue /\ r2.runErr = r.runErr /\ r2.evalErr = r.evalErr
           /\ inTmp' \in Files /\ (inTmp' = inTmp \/ inTmp' = Append(inTmp, <<s, i>>))
           /\ Written(s, r2, inTmp', d + 1)
<1>1. InsertRows \in Nat /\ i \in Nat BY InsertAssumption
<1>2. PICK fails \in BOOLEAN, retFails \in BOOLEAN :
        LET skipped == Latched(r) \/ r.source[i] = "missing"
            written == ~skipped /\ ~fails
        IN  /\ ~skipped /\ ~ParquetFits(r, i) => fails
            /\ inTmp' = IF written THEN Append(inTmp, <<s, i>>) ELSE inTmp
            /\ Become(s, [r EXCEPT !.writeErr = @ \/ (~skipped /\ fails),
                                   !.n = IF written THEN @ + 1 ELSE @,
                                   !.retErr = @ \/ (Emits(r) /\ retFails)]) BY DEF WriteDoc
<1> DEFINE skipped == Latched(r) \/ r.source[i] = "missing"
           written == ~skipped /\ ~fails
           w2 == r.writeErr \/ (~skipped /\ fails)
           n2 == IF written THEN r.n + 1 ELSE r.n
           e2 == r.retErr \/ (Emits(r) /\ retFails)
           r2 == [r EXCEPT !.writeErr = w2, !.n = n2, !.retErr = e2]
<1>3. Become(s, r2) /\ inTmp' = (IF written THEN Append(inTmp, <<s, i>>) ELSE inTmp) /\ (~skipped /\ ~ParquetFits(r, i) => fails)
  BY <1>2
<1>4. w2 \in BOOLEAN /\ n2 \in Nat /\ e2 \in BOOLEAN BY DEF Stmt
<1>5. (w2 <=> r.writeErr \/ (~skipped /\ fails)) /\ (written => n2 = r.n + 1) /\ (~written => n2 = r.n) OBVIOUS
<1> HIDE DEF w2, n2, e2
<1>6. /\ r2 \in Stmt /\ r2.writeErr = w2 /\ r2.n = n2
      /\ r2.pc = r.pc /\ r2.mode = r.mode /\ r2.kind = r.kind /\ r2.exists = r.exists /\ r2.source = r.source
      /\ r2.i = r.i /\ r2.queue = r.queue /\ r2.runErr = r.runErr /\ r2.evalErr = r.evalErr BY <1>4 DEF Stmt
<1> HIDE DEF r2
<1>7. inTmp' \in Files /\ (inTmp' = inTmp \/ inTmp' = Append(inTmp, <<s, i>>)) BY <1>1, <1>3, AppendRow
<1>8. ASSUME ~r.evalErr, ~w2
      PROVE  /\ HoldsRows(inTmp', s, Documents(r.source, d + 1)) /\ n2 = Cardinality(Documents(r.source, d + 1))
             /\ inFormat = "parquet" =>
                  \A k \in DOMAIN inTmp' :
                    inTmp'[k][1] = s /\ (r.source[inTmp'[k][2]] = "wide" => r.source[inTmp'[1][2]] = "wide")
 <2> DEFINE src == r.source
            D == Documents(src, d)
 <2>1. ~r.writeErr /\ (skipped \/ ~fails) /\ (skipped <=> src[i] = "missing") BY <1>5, <1>8 DEF Latched
 <2>2. /\ HoldsRows(inTmp, s, D) /\ r.n = Cardinality(D)
       /\ inFormat = "parquet" =>
            \A k \in DOMAIN inTmp : inTmp[k][1] = s /\ (src[inTmp[k][2]] = "wide" => src[inTmp[1][2]] = "wide")
   BY <1>8, <2>1 DEF Written
 <2>3. d \in Nat /\ i = d + 1 /\ src[i] # "bad" /\ src[i] \in Evaluated BY <1>8
 <2>4. CASE src[i] = "missing"
  <3>1. inTmp' = inTmp /\ n2 = r.n BY <1>3, <1>5, <2>1, <2>4
  <3>2. Documents(src, d + 1) = D BY <2>3, <2>4, DocumentsStep
  <3> QED BY <2>2, <3>1, <3>2
 <2>5. CASE src[i] # "missing"
  <3>1. src[i] \in {"doc", "wide"} /\ ~skipped /\ written BY <2>1, <2>3, <2>5 DEF Evaluated
  <3>2. inTmp' = Append(inTmp, <<s, i>>) /\ n2 = r.n + 1 /\ ParquetFits(r, i) BY <1>3, <1>5, <3>1
  <3>3. /\ Documents(src, d + 1) = D \cup {i} /\ Cardinality(Documents(src, d + 1)) = Cardinality(D) + 1
        /\ D \in SUBSET Nat /\ \A x \in D : x < i BY <2>3, <3>1, DocumentsStep
  <3>4. HoldsRows(inTmp', s, D \cup {i})
   <4> HIDE DEF D
   <4> QED BY <1>1, <2>2, <3>2, <3>3, HoldsAppend
  <3>5. ASSUME inFormat = "parquet", NEW k \in DOMAIN inTmp'
        PROVE  inTmp'[k][1] = s /\ (src[inTmp'[k][2]] = "wide" => src[inTmp'[1][2]] = "wide")
   <4> DEFINE n == Len(inTmp)
              f == inTmp
              g == Append(f, <<s, i>>)
   <4>1. n \in Nat /\ DOMAIN f = 1..n /\ DOMAIN g = 1..(n + 1) /\ g[n + 1] = <<s, i>> /\ \A x \in 1..n : g[x] = f[x]
     BY <1>1, AppendRow, FileFacts
   <4>2. \A x \in 1..n : f[x][1] = s /\ (src[f[x][2]] = "wide" => src[f[1][2]] = "wide") BY <2>2, <3>5, <4>1
   <4>3. k \in 1..(n + 1) /\ inTmp' = g BY <3>2, <3>5, <4>1
   <4>4. CASE n = 0 BY <4>1, <4>3, <4>4
   <4>5. CASE n # 0
    <5>1. 1 \in 1..n /\ g[1] = f[1] /\ f # <<>> /\ (k \in 1..n \/ k = n + 1) BY <4>1, <4>3, <4>5
    <5>2. f[1][2] \in D
     <6>1. 1 \in RowsOf(f, s) BY <4>1, <4>2, <5>1 DEF RowsOf
     <6> QED BY <2>2, <6>1 DEF HoldsRows
    <5>3. src[f[1][2]] # "none" BY <5>2 DEF Documents
    <5>4. src[i] = "wide" => src[f[1][2]] = "wide" BY <3>2, <3>5, <5>1, <5>3 DEF ParquetFits, ParquetSchema
    <5> QED BY <4>1, <4>2, <4>3, <5>1, <5>4
   <4> QED BY <4>4, <4>5
  <3> QED BY <2>2, <3>2, <3>3, <3>4, <3>5
 <2> QED BY <2>4, <2>5
<1>9. Written(s, r2, inTmp', d + 1) BY <1>6, <1>8 DEF Written
<1> QED BY <1>3, <1>6, <1>7, <1>9

\* A writer that has dealt with all rows, and without a failure, has succeeded.
LEMMA WrittenAll ==
  ASSUME NEW s \in InsertStmts, NEW r \in Stmt, inTmp \in Files, Written(s, r, inTmp, InsertRows), ~InsertFailed(r)
  PROVE  Succeeded(r) /\ HoldsRows(inTmp, s, Documents(r.source, InsertRows))
<1> DEFINE src == r.source
           D == Documents(src, InsertRows)
           f == inTmp
<1>1. /\ HoldsRows(f, s, D) /\ r.n = Cardinality(D)
      /\ inFormat = "parquet" =>
           \A k \in DOMAIN f : f[k][1] = s /\ (src[f[k][2]] = "wide" => src[f[1][2]] = "wide")
  BY DEF InsertFailed, Written
<1>2. D \subseteq Nat BY InsertAssumption DEF Documents
<1>3. ASSUME inFormat = "parquet", NEW i \in D, NEW j \in D, \A k \in D : i <= k, src[j] = "wide"
      PROVE  src[i] = "wide"
 <2> HIDE DEF D
 <2>1. PICK a \in RowsOf(f, s) : f[a][2] = i BY <1>1 DEF HoldsRows
 <2>2. PICK b \in RowsOf(f, s) : f[b][2] = j BY <1>1 DEF HoldsRows
 <2>3. a \in 1..Len(f) /\ b \in 1..Len(f) /\ Len(f) \in Nat /\ DOMAIN f = 1..Len(f) BY FileFacts DEF RowsOf
 <2>4. 1 \in RowsOf(f, s) /\ src[f[1][2]] = "wide"
  <3>1. 1 \in DOMAIN f BY <2>3
  <3> QED BY <1>1, <1>3, <2>2, <2>3, <3>1 DEF RowsOf
 <2>5. f[1][2] \in D /\ i <= f[1][2] BY <1>1, <1>3, <2>4 DEF HoldsRows
 <2>6. i \in Nat /\ f[1][2] \in Nat BY <1>2, <2>5
 <2>7. a = 1
  <3>1. 1 < a => f[1][2] < f[a][2] BY <1>1, <2>1, <2>4 DEF HoldsRows
  <3> QED BY <2>1, <2>3, <2>5, <2>6, <3>1
 <2> QED BY <2>1, <2>4, <2>7
<1> QED BY <1>1, <1>3 DEF Succeeded


-----------------------------------------------------------------------------
(* The steps.                                                              *)

LEMMA ProgressNow ==
  ASSUME InsertTypes, NEW s \in InsertStmts, NEW r, NEW o, Become(s, r), inOutcome' = [inOutcome EXCEPT ![s] = o],
         inFormat' = inFormat,
         r.pc = "ended" <=> o # "none",
         r.pc \in {"idle", "open", "seed"} => Untouched(r),
         r.pc \in WorkingPcs \cup {"open", "seed"} =>
           r.source \in [1..InsertRows -> Evaluated] /\ (r.exists => r.mode # "new" /\ inFile' # NoTarget),
         r.pc = "seed" => inTmp' = <<>> /\ r.mode = "append" /\ r.exists /\ inFormat # "parquet",
         r.pc \in WorkingPcs => Working(s, r, inTmp', inFile'),
         o = "ok" => Succeeded(r)
  PROVE  Progress(s)'
<1>1. inSt'[s] = r /\ inOutcome'[s] = o BY DEF InsertTypes, Become
<1>2. Working(s, r, inTmp', inFile') => Working(s, inSt[s], inTmp, inFile)' BY <1>1 DEF Working, Written
<1>3. Succeeded(r) => Succeeded(inSt[s])' BY <1>1 DEF Succeeded
<1> QED BY <1>1, <1>2, <1>3 DEF Progress

\* A step that leaves the files alone.
LEMMA QuietStep ==
  ASSUME InsertInv, NEW s \in InsertStmts, NEW r \in Stmt, NEW o \in Outcomes, Become(s, r),
         inOutcome' = [inOutcome EXCEPT ![s] = o], UNCHANGED <<inFormat, inFile, inTmp>>, inSt[s].pc # "ended",
         Progress(s)',
         r.pc \in HoldingPcs => Holding(s),
         r.pc \in WorkingPcs => inSt[s].pc \in WorkingPcs,
         Holding(s) => r.pc \in HoldingPcs \/ o = "died"
  PROVE  InsertInv'
<1>1. InsertTypes /\ inOutcome[s] # "ok" BY DEF InsertInv, Progress
<1>2. r.pc \in HoldingPcs => inTmp' # NoTarget /\ \A t \in InsertStmts \ {s} : ~Holding(t) BY DEF InsertInv, HolderInv
<1>3. ASSUME r.pc \in WorkingPcs, NEW t \in InsertStmts \ {s} PROVE FileOK(inTmp, t)'
 <2>1. FileOK(inTmp, t) BY <1>3 DEF InsertInv, FilesInv
 <2>2. PICK f : f = inTmp OBVIOUS
 <2>3. FileOK(f, t)' BY <1>1, <2>1, <2>2, FileStable
 <2> QED BY <2>2, <2>3 DEF FileOK
<1>4. inFile' \in Files \cup {NoTarget} /\ inTmp' \in Files \cup {NoTarget} BY <1>1 DEF InsertTypes
<1> HIDE DEF HoldingPcs, WorkingPcs
<1> QED BY <1>2, <1>3, <1>4, StepFrame

\* A statement returns without success; a crash leaves its temporary file.
LEMMA FailureStep ==
  ASSUME InsertInv, NEW s \in InsertStmts, NEW how \in {"error", "died"}, InsertEnd(s, how),
         UNCHANGED <<inFormat, inFile>>, inSt[s].pc # "ended",
         (inTmp' = inTmp /\ (Holding(s) => how = "died")) \/ (inTmp' = NoTarget /\ Holding(s))
  PROVE  InsertInv'
<1> DEFINE r == [FreshInsert EXCEPT !.pc = "ended"]
<1>1. Become(s, r) /\ inOutcome' = [inOutcome EXCEPT ![s] = how] /\ how \in Outcomes BY DEF InsertEnd, Outcomes
<1>2. r \in Stmt /\ r.pc = "ended"
 <2> DEFINE S == Seq(1..InsertRows)
            T == {<<>>} \cup [1..InsertRows -> Evaluated]
            e == <<>>
 <2>1. e \in S /\ e \in T OBVIOUS
 <2>2. FreshInsert \in Stmt
  <3> HIDE DEF S, T, e
  <3>1. FreshInsert = [pc |-> "idle", mode |-> "new", kind |-> "values", returning |-> FALSE, exists |-> FALSE,
                       source |-> e, i |-> 1, queue |-> e, runErr |-> FALSE, evalErr |-> FALSE,
                       writeErr |-> FALSE, n |-> 0, retErr |-> FALSE] BY DEF FreshInsert, e
  <3>2. Stmt = [pc : HoldingPcs \cup {"idle", "open", "ended"}, mode : {"new", "append", "overwrite"},
                kind : {"select", "values"}, returning : BOOLEAN, exists : BOOLEAN, source : T, i : Nat,
                queue : S, runErr : BOOLEAN, evalErr : BOOLEAN, writeErr : BOOLEAN, n : Nat, retErr : BOOLEAN]
    BY DEF Stmt, S, T
  <3> QED BY <2>1, <3>1, <3>2
 <2> QED BY <2>2 DEF Stmt
<1>3. InsertTypes BY DEF InsertInv
<1> HIDE DEF r
<1>4. r.pc \notin HoldingPcs /\ r.pc \notin WorkingPcs BY <1>2 DEF HoldingPcs, WorkingPcs
<1>5. Progress(s)' BY <1>1, <1>2, <1>3, ProgressNow DEF WorkingPcs
<1>6. CASE inTmp' = inTmp /\ (Holding(s) => how = "died") BY <1>1, <1>2, <1>4, <1>5, <1>6, QuietStep
<1>7. CASE inTmp' = NoTarget /\ Holding(s)
 <2>1. \A t \in InsertStmts \ {s} : ~Holding(t) BY <1>7 DEF InsertInv, HolderInv
 <2>2. inFile' \in Files \cup {NoTarget} /\ inTmp' \in Files \cup {NoTarget} BY <1>3, <1>7 DEF InsertTypes
 <2> QED BY <1>1, <1>2, <1>4, <1>5, <1>7, <2>1, <2>2, StepFrame
<1> QED BY <1>6, <1>7

LEMMA InsertStartStep ==
  ASSUME InsertInv, NEW s \in InsertStmts, InsertStart(s)
  PROVE  InsertInv'
<1>1. PICK mode \in InsertModes, src \in InsertSources :
        IF InsertRefused(mode, inFile # NoTarget) THEN InsertEnd(s, "error")
        ELSE /\ Become(s, [inSt[s] EXCEPT !.pc = "open", !.mode = mode, !.exists = inFile # NoTarget, !.kind = src.kind,
                                        !.returning = src.returning, !.source = src.rows])
             /\ UNCHANGED inOutcome BY DEF InsertStart
<1>2. /\ inSt[s].pc = "idle" /\ UNCHANGED <<inFormat, inFile, inTmp>> /\ InsertTypes /\ inSt[s] \in Stmt
      /\ Untouched(inSt[s]) /\ inOutcome[s] = "none" /\ inOutcome \in [InsertStmts -> Outcomes]
  BY DEF InsertStart, InsertInv, InsertTypes, Progress
<1>3. ~Holding(s) BY <1>2 DEF Holding
<1>4. CASE InsertRefused(mode, inFile # NoTarget)
 <2>1. InsertEnd(s, "error") BY <1>1, <1>4
 <2> QED BY <1>2, <1>3, <2>1, FailureStep
<1>5. CASE ~InsertRefused(mode, inFile # NoTarget)
 <2> DEFINE ex == inFile # NoTarget
            r == [inSt[s] EXCEPT !.pc = "open", !.mode = mode, !.exists = ex, !.kind = src.kind,
                                 !.returning = src.returning, !.source = src.rows]
 <2>1. Become(s, r) /\ UNCHANGED inOutcome BY <1>1, <1>5
 <2>2. /\ mode \in {"new", "append", "overwrite"} /\ src.kind \in {"select", "values"} /\ src.returning \in BOOLEAN
       /\ src.rows \in [1..InsertRows -> Evaluated] BY InsertAssumption
 <2>3. ex => mode # "new" BY <1>5 DEF InsertRefused
 <2>4. ex \in BOOLEAN /\ (ex <=> inFile # NoTarget) OBVIOUS
 <2> HIDE DEF ex
 <2>5. /\ r \in Stmt /\ r.pc = "open" /\ r.mode = mode /\ r.exists = ex /\ r.source = src.rows
       /\ r.i = inSt[s].i /\ r.queue = inSt[s].queue /\ r.n = inSt[s].n /\ r.runErr = inSt[s].runErr
       /\ r.evalErr = inSt[s].evalErr /\ r.writeErr = inSt[s].writeErr /\ r.retErr = inSt[s].retErr
   BY <1>2, <2>2, <2>4 DEF Stmt
 <2> HIDE DEF r
 <2>6. Untouched(r) BY <1>2, <2>5 DEF Untouched, InsertFailed
 <2>7. inOutcome' = [inOutcome EXCEPT ![s] = "none"] /\ "none" \in Outcomes BY <1>2, <2>1 DEF Outcomes
 <2>8. r.pc \notin HoldingPcs /\ r.pc \notin WorkingPcs BY <2>5 DEF HoldingPcs, WorkingPcs
 <2>9. Progress(s)' BY <1>2, <2>1, <2>2, <2>3, <2>4, <2>5, <2>6, <2>7, <2>8, ProgressNow
 <2> QED BY <1>2, <1>3, <2>1, <2>5, <2>7, <2>8, <2>9, QuietStep
<1> QED BY <1>4, <1>5


LEMMA NothingHeld ==
  ASSUME NEW f, NEW s, NEW source, RowsOf(f, s) = {}
  PROVE  HoldsRows(f, s, Documents(source, 0)) /\ Cardinality(Documents(source, 0)) = 0
<1>1. Documents(source, 0) = {} BY DEF Documents
<1>2. Cardinality({}) = 0 BY FS_EmptySet
<1> QED BY <1>1, <1>2 DEF HoldsRows

LEMMA NewWriterStep ==
  ASSUME InsertInv, NEW s \in InsertStmts, NewWriter(s)
  PROVE  InsertInv'
<1>1. /\ inSt[s].pc = "open" /\ UNCHANGED <<inFormat, inFile>> /\ InsertTypes /\ inSt[s] \in Stmt
      /\ Untouched(inSt[s]) /\ inOutcome[s] = "none" /\ inOutcome \in [InsertStmts -> Outcomes] /\ Progress(s)
  BY DEF NewWriter, InsertInv, InsertTypes, Progress
<1>2. ~Holding(s) BY <1>1 DEF Holding
<1>3. CASE inTmp # NoTarget \/ (inFormat = "parquet" /\ inSt[s].mode = "append")
 <2>1. InsertEnd(s, "error") /\ inTmp' = inTmp BY <1>3 DEF NewWriter
 <2> QED BY <1>1, <1>2, <2>1, FailureStep
<1>4. CASE ~(inTmp # NoTarget \/ (inFormat = "parquet" /\ inSt[s].mode = "append"))
 <2> DEFINE r == [inSt[s] EXCEPT !.pc = IF SeedFrom(s) THEN "seed" ELSE "run"]
 <2>1. Become(s, r) /\ UNCHANGED inOutcome /\ inTmp' = <<>> BY <1>4 DEF NewWriter
 <2>2. (IF SeedFrom(s) THEN "seed" ELSE "run") \in HoldingPcs BY DEF HoldingPcs, WorkingPcs
 <2>3. /\ r \in Stmt /\ r.pc = (IF SeedFrom(s) THEN "seed" ELSE "run")
       /\ r.mode = inSt[s].mode /\ r.exists = inSt[s].exists /\ r.source = inSt[s].source
       /\ r.i = inSt[s].i /\ r.queue = inSt[s].queue /\ r.n = inSt[s].n /\ r.runErr = inSt[s].runErr
       /\ r.evalErr = inSt[s].evalErr /\ r.writeErr = inSt[s].writeErr /\ r.retErr = inSt[s].retErr
   BY <1>1, <2>2 DEF Stmt
 <2> HIDE DEF r
 <2>4. Untouched(r) BY <1>1, <2>3 DEF Untouched, InsertFailed
 <2>5. inOutcome' = [inOutcome EXCEPT ![s] = "none"] /\ "none" \in Outcomes BY <1>1, <2>1 DEF Outcomes
 <2>6. r.pc \in HoldingPcs /\ r.pc \in {"seed", "run"} /\ (r.pc = "seed" <=> r.mode = "append" /\ r.exists)
   BY <2>2, <2>3 DEF SeedFrom
 <2>7. \A t \in InsertStmts \ {s} : ~Holding(t) BY <1>4 DEF InsertInv, HolderInv
 <2>8. <<>> \in Files /\ \A t : RowsOf(<<>>, t) = {} BY DEF Files, RowsOf
 <2>9. r.source \in [1..InsertRows -> Evaluated] /\ (r.exists => r.mode # "new" /\ inFile' # NoTarget)
   BY <1>1, <2>3 DEF Progress
 <2>10. ASSUME r.pc = "run" PROVE Working(s, r, inTmp', inFile')
  <3>1. HoldsRows(<<>>, s, Documents(r.source, 0)) /\ Cardinality(Documents(r.source, 0)) = 0 BY <2>8, NothingHeld
  <3>2. r.i = 1 /\ Len(r.queue) = 0 /\ r.i - 1 - Len(r.queue) = 0 /\ r.n = 0 /\ r.queue = <<>>
   <4>1. r.i = 1 /\ r.n = 0 /\ r.queue = <<>> BY <2>4 DEF Untouched
   <4>2. Len(<<>>) = 0 OBVIOUS
   <4>3. Len(r.queue) = 0 BY <4>1, <4>2
   <4>4. r.i - 1 - Len(r.queue) = 1 - 1 - 0 BY <4>1, <4>3, Zenon
   <4>5. 1 - 1 - 0 = 0 OBVIOUS
   <4> QED BY <4>1, <4>3, <4>4, <4>5, Zenon
  <3>3. Written(s, r, <<>>, 0) BY <3>1, <3>2 DEF Written
  <3>4. Queued(r) BY <3>2 DEF Queued
  <3>5. 1 \in 1..(InsertRows + 1) BY InsertAssumption
  <3> QED BY <2>1, <2>6, <2>8, <2>10, <3>2, <3>3, <3>4, <3>5 DEF Working
 <2>11. Progress(s)'
  <3>1. r.pc \in WorkingPcs => r.pc = "run" BY <2>6 DEF WorkingPcs
  <3>2. r.pc = "seed" => inFormat # "parquet" BY <1>4, <2>3, <2>6
  <3> QED BY <1>1, <2>1, <2>4, <2>5, <2>6, <2>9, <2>10, <3>1, <3>2, ProgressNow
 <2>12. \A t \in InsertStmts \ {s} : FileOK(inTmp, t)' BY <2>1, <2>8 DEF FileOK
 <2>13. inFile' \in Files \cup {NoTarget} /\ inTmp' \in Files \cup {NoTarget} /\ inTmp' # NoTarget
   BY <1>1, <2>1, <2>8, FileFacts DEF InsertTypes
 <2> QED BY <1>1, <2>1, <2>3, <2>5, <2>6, <2>7, <2>11, <2>12, <2>13, StepFrame
<1> QED BY <1>3, <1>4

\* A step within the work of a statement that leaves the files alone, or its failure.
LEMMA WorkStep ==
  ASSUME InsertInv, NEW s \in InsertStmts, NEW r \in Stmt, Become(s, r), UNCHANGED <<inFormat, inFile, inTmp, inOutcome>>,
         inSt[s].pc \in WorkingPcs \cup {"seed"}, r.pc \in WorkingPcs \cup {"abort"},
         r.pc \in WorkingPcs =>
           /\ inSt[s].pc \in WorkingPcs /\ Working(s, r, inTmp, inFile)
           /\ r.source = inSt[s].source /\ r.exists = inSt[s].exists /\ r.mode = inSt[s].mode
  PROVE  InsertInv'
<1>1. /\ InsertTypes /\ inOutcome \in [InsertStmts -> Outcomes] /\ Progress(s) BY DEF InsertInv, InsertTypes
<1>2. inSt[s].pc # "ended" /\ r.pc \notin {"ended", "idle", "open", "seed"} /\ Holding(s) /\ r.pc \in HoldingPcs
  BY DEF WorkingPcs, HoldingPcs, Holding
<1>3. inOutcome[s] = "none" /\ inOutcome' = [inOutcome EXCEPT ![s] = "none"] /\ "none" \in Outcomes
  BY <1>1, <1>2 DEF Progress, Outcomes
<1>4. r.pc \in WorkingPcs => r.source \in [1..InsertRows -> Evaluated] /\ (r.exists => r.mode # "new" /\ inFile' # NoTarget)
  BY <1>1 DEF Progress
<1>5. Progress(s)' BY <1>1, <1>2, <1>3, <1>4, ProgressNow
<1> QED BY <1>2, <1>3, <1>5, QuietStep

\* The facts of a statement at work.
LEMMA WorkingFacts ==
  ASSUME InsertInv, NEW s \in InsertStmts, inSt[s].pc \in WorkingPcs
  PROVE  /\ Working(s, inSt[s], inTmp, inFile) /\ inSt[s] \in Stmt /\ inOutcome[s] = "none" /\ Holding(s)
         /\ inSt[s].source \in [1..InsertRows -> Evaluated]
         /\ (inSt[s].exists => inSt[s].mode # "new" /\ inFile # NoTarget)
         /\ InsertRows \in Nat /\ inSt[s].i \in 1..(InsertRows + 1) /\ inSt[s].queue \in Seq(1..InsertRows)
         /\ Len(inSt[s].queue) \in Nat /\ inTmp \in Files
BY InsertAssumption DEF InsertInv, InsertTypes, Progress, Working, WorkingPcs, Holding, Stmt

LEMMA SeedStep ==
  ASSUME InsertInv, NEW s \in InsertStmts, Seed(s)
  PROVE  InsertInv'
<1>1. /\ inSt[s].pc = "seed" /\ UNCHANGED <<inFormat, inFile, inOutcome>> /\ InsertTypes /\ inSt[s] \in Stmt /\ Progress(s)
      /\ inOutcome \in [InsertStmts -> Outcomes] BY DEF Seed, InsertInv, InsertTypes
<1>2. /\ Untouched(inSt[s]) /\ inSt[s].mode = "append" /\ inSt[s].exists /\ inFormat # "parquet" /\ inFile # NoTarget
      /\ inSt[s].source \in [1..InsertRows -> Evaluated] /\ inOutcome[s] = "none" BY <1>1 DEF Progress
<1>3. inFile \in Files /\ \A t \in InsertStmts : FileOK(inFile, t) BY <1>1, <1>2 DEF InsertInv, InsertTypes, FilesInv
<1>4. CASE inTmp' = Seeded /\ Become(s, [inSt[s] EXCEPT !.pc = "run"])
 <2> DEFINE r == [inSt[s] EXCEPT !.pc = "run"]
 <2>1. inTmp' = inFile /\ Become(s, r) BY <1>4 DEF Seeded
 <2>2. "run" \in HoldingPcs /\ Holding(s) BY <1>1 DEF HoldingPcs, WorkingPcs, Holding
 <2>3. /\ r \in Stmt /\ r.pc = "run"
       /\ r.mode = inSt[s].mode /\ r.exists = inSt[s].exists /\ r.source = inSt[s].source
       /\ r.i = inSt[s].i /\ r.queue = inSt[s].queue /\ r.n = inSt[s].n /\ r.runErr = inSt[s].runErr
       /\ r.evalErr = inSt[s].evalErr /\ r.writeErr = inSt[s].writeErr /\ r.retErr = inSt[s].retErr
   BY <1>1, <2>2 DEF Stmt
 <2> HIDE DEF r
 <2>4. Untouched(r) BY <1>2, <2>3 DEF Untouched, InsertFailed
 <2>5. inOutcome' = [inOutcome EXCEPT ![s] = "none"] /\ "none" \in Outcomes BY <1>1, <1>2 DEF Outcomes
 <2>6. \A t \in InsertStmts \ {s} : ~Holding(t) BY <2>2 DEF InsertInv, HolderInv
 <2>7. Working(s, r, inTmp', inFile')
  <3>1. RowsOf(inFile, s) = {} BY <1>2, <1>3 DEF FileOK
  <3>2. HoldsRows(inFile, s, Documents(r.source, 0)) /\ Cardinality(Documents(r.source, 0)) = 0 BY <3>1, NothingHeld
  <3>3. r.i = 1 /\ Len(r.queue) = 0 /\ r.i - 1 - Len(r.queue) = 0 /\ r.n = 0 /\ r.queue = <<>>
   <4>1. r.i = 1 /\ r.n = 0 /\ r.queue = <<>> BY <2>4 DEF Untouched
   <4>2. Len(<<>>) = 0 OBVIOUS
   <4>3. Len(r.queue) = 0 BY <4>1, <4>2
   <4>4. r.i - 1 - Len(r.queue) = 1 - 1 - 0 BY <4>1, <4>3, Zenon
   <4>5. 1 - 1 - 0 = 0 OBVIOUS
   <4> QED BY <4>1, <4>3, <4>4, <4>5, Zenon
  <3>4. Written(s, r, inFile, 0) BY <1>2, <3>2, <3>3 DEF Written
  <3>5. Queued(r) BY <3>3 DEF Queued
  <3>6. 1 \in 1..(InsertRows + 1) BY InsertAssumption
  <3>7. Keeps(inFile, inFile) BY <1>3, FileFacts DEF Keeps
  <3> QED BY <1>1, <1>3, <2>1, <2>3, <3>3, <3>4, <3>5, <3>6, <3>7 DEF Working
 <2>8. Progress(s)' BY <1>1, <1>2, <2>1, <2>3, <2>4, <2>5, <2>7, ProgressNow
 <2>9. ASSUME NEW t \in InsertStmts \ {s} PROVE FileOK(inTmp, t)'
  <3>1. PICK f : f = inFile OBVIOUS
  <3>2. FileOK(f, t)' BY <1>2, <1>3, <2>1, <2>5, <3>1, FileStable
  <3> QED BY <2>1, <3>1, <3>2 DEF FileOK
 <2>10. inFile' \in Files \cup {NoTarget} /\ inTmp' \in Files \cup {NoTarget} /\ inTmp' # NoTarget
   BY <1>1, <1>2, <1>3, <2>1
 <2> QED BY <1>1, <2>1, <2>2, <2>3, <2>5, <2>6, <2>8, <2>9, <2>10, StepFrame
<1>5. CASE Become(s, [inSt[s] EXCEPT !.pc = "abort"]) /\ UNCHANGED inTmp
 <2> DEFINE r == [inSt[s] EXCEPT !.pc = "abort"]
 <2>1. "abort" \in HoldingPcs /\ "abort" \notin WorkingPcs BY DEF HoldingPcs, WorkingPcs
 <2>2. r \in Stmt /\ r.pc = "abort" /\ Become(s, r) BY <1>1, <1>5, <2>1 DEF Stmt
 <2> HIDE DEF r
 <2> QED BY <1>1, <1>5, <2>1, <2>2, WorkStep
<1> QED BY <1>4, <1>5 DEF Seed


LEMMA KeepsAppend ==
  ASSUME NEW f, NEW g \in Files, NEW s \in InsertStmts, NEW i \in Nat, Keeps(f, g)
  PROVE  Keeps(f, Append(g, <<s, i>>))
<1>1. f \in Files /\ Len(f) <= Len(g) /\ (\A k \in 1..Len(f) : g[k] = f[k]) /\ Len(f) \in Nat /\ Len(g) \in Nat
  BY FileFacts DEF Keeps
<1>2. Len(Append(g, <<s, i>>)) = Len(g) + 1 /\ \A k \in 1..Len(g) : Append(g, <<s, i>>)[k] = g[k] BY AppendRow
<1>3. \A k \in 1..Len(f) : k \in 1..Len(g) BY <1>1
<1> QED BY <1>1, <1>2, <1>3 DEF Keeps

\* The writer deals with the next row, in record r that has it taken already.
LEMMA WriteStep ==
  ASSUME InsertInv, NEW s \in InsertStmts, NEW r \in Stmt, NEW i \in 1..InsertRows, NEW d \in Int, WriteDoc(s, r, i),
         UNCHANGED <<inFormat, inFile, inOutcome>>,
         inSt[s].pc \in WorkingPcs, r.pc \in {"run", "drain"},
         r.source = inSt[s].source, r.exists = inSt[s].exists, r.mode = inSt[s].mode,
         r.i \in 1..(InsertRows + 1), r.kind = "values" => r.queue = <<>>, ~r.evalErr => Queued(r),
         r.pc = "drain" /\ ~r.runErr => r.i = InsertRows + 1,
         Written(s, r, inTmp, d), r.i - 1 - Len(r.queue) = d + 1,
         ~r.evalErr => d \in Nat /\ i = d + 1 /\ r.source[i] # "bad"
  PROVE  InsertInv'
<1>1. /\ Working(s, inSt[s], inTmp, inFile) /\ inOutcome[s] = "none" /\ Holding(s) /\ inTmp \in Files
      /\ inSt[s].source \in [1..InsertRows -> Evaluated] /\ (inSt[s].exists => inSt[s].mode # "new" /\ inFile # NoTarget)
      /\ InsertTypes /\ inOutcome \in [InsertStmts -> Outcomes] /\ InsertRows \in Nat
  BY WorkingFacts DEF InsertInv, InsertTypes
<1>2. PICK r2 \in Stmt :
        /\ Become(s, r2)
        /\ r2.pc = r.pc /\ r2.mode = r.mode /\ r2.kind = r.kind /\ r2.exists = r.exists /\ r2.source = r.source
        /\ r2.i = r.i /\ r2.queue = r.queue /\ r2.runErr = r.runErr /\ r2.evalErr = r.evalErr
        /\ inTmp' \in Files /\ (inTmp' = inTmp \/ inTmp' = Append(inTmp, <<s, i>>))
        /\ Written(s, r2, inTmp', d + 1)
 <2>1. r.source \in [1..InsertRows -> Evaluated] BY <1>1
 <2> QED BY <1>1, <2>1, WriteDocFacts
<1>3. inOutcome' = [inOutcome EXCEPT ![s] = "none"] /\ "none" \in Outcomes BY <1>1 DEF Outcomes
<1>4. \A t \in InsertStmts \ {s} : ~Holding(t) BY <1>1 DEF InsertInv, HolderInv
<1>5. r2.pc \in HoldingPcs /\ r2.pc \in WorkingPcs /\ r2.pc \notin {"ended", "idle", "open", "seed", "finish"} /\ inSt[s].pc # "ended"
  BY <1>2 DEF HoldingPcs, WorkingPcs
<1>6. Working(s, r2, inTmp', inFile')
 <2>1. ASSUME r2.mode = "append", r2.exists PROVE Keeps(inFile, inTmp')
  <3>1. Keeps(inFile, inTmp) /\ i \in Nat BY <1>1, <1>2, <2>1 DEF Working
  <3>2. CASE inTmp' = inTmp BY <3>1, <3>2
  <3>3. CASE inTmp' = Append(inTmp, <<s, i>>) BY <1>1, <3>1, <3>3, KeepsAppend
  <3> QED BY <1>2, <3>2, <3>3
 <2>2. ~r2.evalErr => Queued(r2) BY <1>2 DEF Queued
 <2>3. Written(s, r2, inTmp', r2.i - 1 - Len(r2.queue)) BY <1>2
 <2> QED BY <1>2, <1>5, <2>1, <2>2, <2>3 DEF Working
<1>7. Progress(s)' BY <1>1, <1>2, <1>3, <1>5, <1>6, ProgressNow
<1>8. ASSUME NEW t \in InsertStmts \ {s} PROVE FileOK(inTmp, t)'
 <2>1. FileOK(inTmp, t) BY DEF InsertInv, FilesInv
 <2>2. PICK f : f = inTmp OBVIOUS
 <2>3. FileOK(f, t)' BY <1>1, <1>2, <1>3, <2>1, <2>2, FileStable
 <2>4. CASE inTmp' = inTmp BY <2>2, <2>3, <2>4 DEF FileOK
 <2>5. CASE inTmp' = Append(inTmp, <<s, i>>)
  <3> DEFINE D == Documents(inSt'[t].source, InsertRows)
             n == i
  <3>1. inTmp \in Files /\ s \in InsertStmts /\ n \in Nat /\ D \in SUBSET Nat BY <1>1, DocumentsStep
  <3>2. t # s /\ t \in InsertStmts /\ inTmp' = Append(inTmp, <<s, n>>) BY <2>5
  <3>3. RowsOf(inTmp', t) = RowsOf(inTmp, t) /\ (HoldsRows(inTmp, t, D) => HoldsRows(inTmp', t, D))
   <4> HIDE DEF D, n
   <4>1. \A u \in InsertStmts : u # s => /\ RowsOf(Append(inTmp, <<s, n>>), u) = RowsOf(inTmp, u)
                                         /\ HoldsRows(inTmp, u, D) => HoldsRows(Append(inTmp, <<s, n>>), u, D)
     BY ONLY <3>1, HoldsAppend
   <4> QED BY ONLY <3>2, <4>1
  <3> QED BY <2>2, <2>3, <3>3 DEF FileOK
 <2> QED BY <1>2, <2>4, <2>5
<1>9. inFile' \in Files \cup {NoTarget} /\ inTmp' \in Files \cup {NoTarget} /\ inTmp' # NoTarget
  BY <1>1, <1>2, FileFacts DEF InsertTypes
<1> QED BY <1>1, <1>2, <1>3, <1>4, <1>5, <1>7, <1>8, <1>9, StepFrame

LEMMA QueueFacts ==
  ASSUME NEW n \in Nat, NEW q \in Seq(1..n), q # <<>>
  PROVE  /\ Len(q) \in Nat /\ Len(q) >= 1 /\ Tail(q) \in Seq(1..n) /\ Len(Tail(q)) = Len(q) - 1
         /\ Head(q) = q[1] /\ Head(q) \in 1..n /\ \A k \in 1..(Len(q) - 1) : Tail(q)[k] = q[k + 1]
<1> DEFINE S == 1..n
<1>1. q \in Seq(S) OBVIOUS
<1> HIDE DEF S
<1>2. /\ Head(q) \in S /\ Tail(q) \in Seq(S) /\ Len(Tail(q)) = Len(q) - 1
      /\ \A i \in 1..(Len(q) - 1) : Tail(q)[i] = q[i + 1] BY <1>1, HeadTailProperties, LenProperties
<1>3. Len(q) \in Nat /\ Len(q) # 0 /\ Head(q) = q[1] BY <1>1, EmptySeq
<1> QED BY <1>2, <1>3 DEF S

LEMMA WriterTakeStep ==
  ASSUME InsertInv, NEW s \in InsertStmts, WriterTake(s)
  PROVE  InsertInv'
<1> DEFINE q == inSt[s].queue
           r == [inSt[s] EXCEPT !.queue = Tail(q)]
           i == Head(q)
           d == inSt[s].i - 1 - Len(q)
<1>1. /\ inSt[s].pc \in {"run", "drain"} /\ inSt[s].kind = "select" /\ q # <<>> /\ WriteDoc(s, r, i)
      /\ UNCHANGED <<inFormat, inFile, inOutcome>> BY DEF WriterTake, Drains
<1>2. inSt[s].pc \in WorkingPcs BY <1>1 DEF WorkingPcs
<1>3. /\ Working(s, inSt[s], inTmp, inFile) /\ inSt[s] \in Stmt /\ q \in Seq(1..InsertRows)
      /\ InsertRows \in Nat /\ inSt[s].i \in 1..(InsertRows + 1) BY <1>2, WorkingFacts
<1>4. /\ Len(q) \in Nat /\ Len(q) >= 1 /\ Tail(q) \in Seq(1..InsertRows) /\ Len(Tail(q)) = Len(q) - 1
      /\ i = q[1] /\ i \in 1..InsertRows /\ \A k \in 1..(Len(q) - 1) : Tail(q)[k] = q[k + 1]
 <2> HIDE DEF q
 <2> QED BY <1>1, <1>3, QueueFacts DEF i
<1>5. /\ r \in Stmt /\ r.queue = Tail(q) /\ r.pc = inSt[s].pc /\ r.kind = inSt[s].kind
      /\ r.mode = inSt[s].mode /\ r.exists = inSt[s].exists /\ r.source = inSt[s].source
      /\ r.i = inSt[s].i /\ r.n = inSt[s].n /\ r.runErr = inSt[s].runErr
      /\ r.evalErr = inSt[s].evalErr /\ r.writeErr = inSt[s].writeErr BY <1>3, <1>4 DEF Stmt
<1>6. d \in Int /\ r.i - 1 - Len(r.queue) = d + 1
 <2> DEFINE a == inSt[s].i
            b == Len(q)
 <2>1. a \in Int /\ b \in Int /\ d = a - 1 - b /\ r.i = a /\ Len(r.queue) = b - 1 BY <1>3, <1>4, <1>5
 <2> HIDE DEF a, b, d
 <2> QED BY <2>1
<1>7. Written(s, r, inTmp, d) BY <1>3, <1>5 DEF Working, Written
<1>8. ASSUME ~r.evalErr PROVE d \in Nat /\ i = d + 1 /\ r.source[i] # "bad" /\ Queued(r)
 <2>1. Len(q) < inSt[s].i /\ \A k \in 1..Len(q) : q[k] = d + k /\ inSt[s].source[q[k]] # "bad"
   BY <1>3, <1>5, <1>8 DEF Working, Queued
 <2>2. 1 \in 1..Len(q) /\ d \in Nat
  <3> DEFINE a == inSt[s].i
             b == Len(q)
  <3>1. a \in Int /\ b \in Nat /\ d = a - 1 - b /\ b < a /\ b >= 1 BY <1>3, <1>4, <2>1
  <3> HIDE DEF a, b, d
  <3>2. d \in Nat /\ 1 \in 1..b BY <3>1
  <3> QED BY <3>2 DEF b
 <2>3. \A k \in 1..(Len(q) - 1) : k + 1 \in 1..Len(q) /\ d + (k + 1) = (d + 1) + k BY <1>4, <2>2
 <2>4. i = d + 1 /\ r.source[i] # "bad" BY <1>4, <1>5, <2>1, <2>2
 <2>5. \A k \in 1..(Len(q) - 1) : Tail(q)[k] = (d + 1) + k /\ r.source[Tail(q)[k]] # "bad" BY <1>4, <1>5, <2>1, <2>3
 <2>6. Len(r.queue) < r.i BY <1>3, <1>4, <1>5, <2>1
 <2>7. \A k \in 1..Len(r.queue) : r.queue[k] = r.i - 1 - Len(r.queue) + k /\ r.source[r.queue[k]] # "bad"
  <3> HIDE DEF d
  <3> QED BY <1>4, <1>5, <1>6, <2>5
 <2> QED BY <2>2, <2>4, <2>6, <2>7 DEF Queued
<1>9. r.kind # "values" /\ (r.pc = "drain" /\ ~r.runErr => r.i = InsertRows + 1) BY <1>1, <1>3, <1>5 DEF Working
<1> HIDE DEF r, i, d, q
<1> QED BY <1>1, <1>2, <1>3, <1>4, <1>5, <1>6, <1>7, <1>8, <1>9, WriteStep


\* The source gives a row, to a channel that has room for it or to nobody.
LEMMA InsertOnRowStep ==
  ASSUME InsertInv, NEW s \in InsertStmts, InsertOnRow(s)
  PROVE  InsertInv'
<1> DEFINE o == inSt[s]
           i == o.i
           q == o.queue
<1>1. /\ o.pc = "run" /\ o.kind = "select" /\ i <= InsertRows /\ UNCHANGED <<inFormat, inFile, inTmp, inOutcome>>
      /\ \/ o.evalErr /\ Become(s, [o EXCEPT !.i = i + 1])
         \/ ~o.evalErr /\ o.source[i] = "bad" /\ Become(s, [[o EXCEPT !.i = i + 1] EXCEPT !.evalErr = TRUE])
         \/ /\ ~o.evalErr /\ o.source[i] # "bad" /\ Len(q) < QueueCap
            /\ Become(s, [[o EXCEPT !.i = i + 1] EXCEPT !.queue = Append(q, i)]) BY DEF InsertOnRow
<1>2. o.pc \in WorkingPcs BY <1>1 DEF WorkingPcs
<1>3. /\ Working(s, o, inTmp, inFile) /\ o \in Stmt /\ q \in Seq(1..InsertRows) /\ Len(q) \in Nat
      /\ InsertRows \in Nat /\ i \in 1..InsertRows /\ i + 1 \in 1..(InsertRows + 1) /\ i \in Nat /\ i + 1 \in Nat
  BY <1>1, <1>2, WorkingFacts
<1>4. ASSUME NEW r \in Stmt, Become(s, r), r.evalErr, r.pc = o.pc, r.kind = o.kind, r.i = i + 1, r.source = o.source,
             r.exists = o.exists, r.mode = o.mode
      PROVE  InsertInv'
 <2>1. Working(s, r, inTmp, inFile) BY <1>1, <1>3, <1>4 DEF Working, Written
 <2> QED BY <1>1, <1>2, <1>4, <2>1, WorkStep
<1>5. CASE o.evalErr /\ Become(s, [o EXCEPT !.i = i + 1])
 <2> DEFINE r == [o EXCEPT !.i = i + 1]
 <2>1. /\ r \in Stmt /\ r.evalErr /\ r.pc = o.pc /\ r.kind = o.kind /\ r.i = i + 1 /\ r.source = o.source
       /\ r.exists = o.exists /\ r.mode = o.mode BY <1>3, <1>5 DEF Stmt
 <2> HIDE DEF r
 <2> QED BY <1>4, <1>5, <2>1 DEF r
<1>6. CASE Become(s, [[o EXCEPT !.i = i + 1] EXCEPT !.evalErr = TRUE])
 <2> DEFINE r == [[o EXCEPT !.i = i + 1] EXCEPT !.evalErr = TRUE]
 <2>1. /\ r \in Stmt /\ r.evalErr /\ r.pc = o.pc /\ r.kind = o.kind /\ r.i = i + 1 /\ r.source = o.source
       /\ r.exists = o.exists /\ r.mode = o.mode BY <1>3 DEF Stmt
 <2> HIDE DEF r
 <2> QED BY <1>4, <1>6, <2>1 DEF r
<1>7. CASE ~o.evalErr /\ o.source[i] # "bad" /\ Become(s, [[o EXCEPT !.i = i + 1] EXCEPT !.queue = Append(q, i)])
 <2> DEFINE q2 == Append(q, i)
            r == [[o EXCEPT !.i = i + 1] EXCEPT !.queue = q2]
            n == Len(q)
            S == 1..InsertRows
 <2>1. q2 \in Seq(S) /\ Len(q2) = n + 1 /\ q2[n + 1] = i /\ \A k \in 1..n : q2[k] = q[k]
  <3>1. q \in Seq(S) /\ i \in S BY <1>3
  <3> HIDE DEF S
  <3> QED BY <3>1, AppendProperties
 <2> HIDE DEF q2
 <2>2. /\ r \in Stmt /\ r.queue = q2 /\ r.pc = o.pc /\ r.kind = o.kind /\ r.i = i + 1 /\ r.source = o.source
       /\ r.exists = o.exists /\ r.mode = o.mode /\ r.evalErr = o.evalErr /\ r.writeErr = o.writeErr /\ r.n = o.n
       /\ r.runErr = o.runErr BY <1>3, <2>1 DEF Stmt
 <2> HIDE DEF r
 <2>3. n < i /\ \A k \in 1..n : q[k] = i - 1 - n + k /\ o.source[q[k]] # "bad" BY <1>3, <1>7 DEF Working, Queued
 <2> HIDE DEF i, n, q
 <2>4. i \in Nat /\ n \in Nat /\ \A k \in 1..(n + 1) : k \in 1..n \/ k = n + 1 BY <1>3 DEF n
 <2>5. (i + 1) - 1 - (n + 1) = i - 1 - n /\ n + 1 < i + 1 /\ i - 1 - n + (n + 1) = i BY <2>3, <2>4
 <2>6. \A k \in 1..(n + 1) : q2[k] = i - 1 - n + k /\ o.source[q2[k]] # "bad" BY <1>7, <2>1, <2>3, <2>4, <2>5
 <2>7. r.i - 1 - Len(r.queue) = i - 1 - n BY <2>1, <2>2, <2>5
 <2>8. Queued(r)
  <3>1. Len(r.queue) = n + 1 BY <2>1, <2>2
  <3>2. Len(r.queue) < r.i BY <2>2, <2>5, <3>1
  <3>3. \A k \in 1..(n + 1) : r.queue[k] = r.i - 1 - Len(r.queue) + k /\ r.source[r.queue[k]] # "bad"
    BY <2>2, <2>6, <2>7
  <3> QED BY <3>1, <3>2, <3>3 DEF Queued
 <2>9. Written(s, r, inTmp, r.i - 1 - Len(r.queue))
  <3>1. Written(s, o, inTmp, i - 1 - n) BY <1>3 DEF Working, i, n, q
  <3> QED BY <2>2, <2>7, <3>1 DEF Written
 <2>10. Working(s, r, inTmp, inFile) BY <1>1, <1>3, <2>2, <2>8, <2>9 DEF Working
 <2> QED BY <1>1, <1>2, <1>7, <2>2, <2>10, WorkStep DEF r, q2
<1> QED BY <1>1, <1>5, <1>6, <1>7

LEMMA SourceEndsStep ==
  ASSUME InsertInv, NEW s \in InsertStmts, SourceEnds(s)
  PROVE  InsertInv'
<1> DEFINE o == inSt[s]
<1>1. /\ o.pc = "run" /\ o.kind = "select" /\ UNCHANGED <<inFormat, inFile, inTmp, inOutcome>> BY DEF SourceEnds
<1>2. PICK failed \in BOOLEAN : (failed \/ o.i > InsertRows) /\ Become(s, [o EXCEPT !.pc = "drain", !.runErr = failed])
  BY DEF SourceEnds
<1>3. o.pc \in WorkingPcs /\ "drain" \in WorkingPcs /\ "drain" \in HoldingPcs BY <1>1 DEF WorkingPcs, HoldingPcs
<1>4. Working(s, o, inTmp, inFile) /\ o \in Stmt /\ InsertRows \in Nat /\ o.i \in 1..(InsertRows + 1)
  BY <1>3, WorkingFacts
<1> DEFINE r == [o EXCEPT !.pc = "drain", !.runErr = failed]
<1>5. /\ r \in Stmt /\ r.queue = o.queue /\ r.pc = "drain" /\ r.kind = o.kind /\ r.i = o.i /\ r.source = o.source
      /\ r.exists = o.exists /\ r.mode = o.mode /\ r.evalErr = o.evalErr /\ r.writeErr = o.writeErr /\ r.n = o.n
      /\ r.runErr = failed BY <1>3, <1>4 DEF Stmt
<1>6. Become(s, r) BY <1>2
<1> HIDE DEF r
<1>7. Working(s, r, inTmp, inFile)
 <2>1. ~r.runErr => r.i = InsertRows + 1 BY <1>2, <1>4, <1>5
 <2> QED BY <1>4, <1>5, <2>1 DEF Working, Written, Queued
<1> QED BY <1>1, <1>3, <1>5, <1>6, <1>7, WorkStep

LEMMA AbortStep ==
  ASSUME InsertInv, NEW s \in InsertStmts, inSt[s].pc \in WorkingPcs, UNCHANGED <<inFormat, inFile, inTmp, inOutcome>>,
         NEW o \in Stmt, Become(s, [o EXCEPT !.pc = "abort"])
  PROVE  InsertInv'
<1> DEFINE r == [o EXCEPT !.pc = "abort"]
<1>1. "abort" \in HoldingPcs /\ "abort" \notin WorkingPcs BY DEF HoldingPcs, WorkingPcs
<1>2. r \in Stmt /\ r.pc = "abort" /\ Become(s, r) BY <1>1 DEF Stmt
<1> HIDE DEF r
<1> QED BY <1>1, <1>2, WorkStep

LEMMA ValuesPairStep ==
  ASSUME InsertInv, NEW s \in InsertStmts, ValuesPair(s)
  PROVE  InsertInv'
<1> DEFINE o == inSt[s]
           i == o.i
           r == [o EXCEPT !.i = i + 1]
<1>1. /\ o.pc = "run" /\ o.kind = "values" /\ i <= InsertRows /\ UNCHANGED <<inFormat, inFile, inOutcome>>
      /\ \/ o.source[i] = "bad" /\ Become(s, [r EXCEPT !.pc = "abort"]) /\ UNCHANGED inTmp
         \/ o.source[i] # "bad" /\ WriteDoc(s, r, i) BY DEF ValuesPair
<1>2. o.pc \in WorkingPcs BY <1>1 DEF WorkingPcs
<1>3. /\ Working(s, o, inTmp, inFile) /\ o \in Stmt /\ o.queue = <<>>
      /\ InsertRows \in Nat /\ i \in 1..InsertRows /\ i + 1 \in 1..(InsertRows + 1) /\ i + 1 \in Nat
 <2>1. Working(s, o, inTmp, inFile) /\ o \in Stmt /\ InsertRows \in Nat /\ i \in 1..(InsertRows + 1)
   BY <1>2, WorkingFacts
 <2>2. o.queue = <<>> BY <1>1, <2>1 DEF Working
 <2> QED BY <1>1, <2>1, <2>2
<1>4. /\ r \in Stmt /\ r.queue = o.queue /\ r.pc = o.pc /\ r.kind = o.kind /\ r.i = i + 1 /\ r.source = o.source
      /\ r.exists = o.exists /\ r.mode = o.mode /\ r.evalErr = o.evalErr /\ r.writeErr = o.writeErr /\ r.n = o.n
      /\ r.runErr = o.runErr BY <1>3 DEF Stmt
<1> HIDE DEF r
<1>5. CASE o.source[i] = "bad" /\ Become(s, [r EXCEPT !.pc = "abort"]) /\ UNCHANGED inTmp
  BY <1>1, <1>2, <1>4, <1>5, AbortStep
<1>6. CASE o.source[i] # "bad" /\ WriteDoc(s, r, i)
 <2>1. Len(<<>>) = 0 OBVIOUS
 <2>2. Len(r.queue) = 0 /\ Len(o.queue) = 0 BY <1>3, <1>4, <2>1, Zenon
 <2> DEFINE d == i - 1
 <2>3. d \in Nat /\ i = d + 1 /\ d \in Int /\ i - 1 - 0 = d /\ (i + 1) - 1 - 0 = d + 1 /\ 0 < i + 1 /\ 1..0 = {}
   BY <1>3
 <2>4. r.i - 1 - Len(r.queue) = d + 1
  <3>1. r.i - 1 - Len(r.queue) = (i + 1) - 1 - 0 BY <1>4, <2>2, Zenon
  <3> QED BY <2>3, <3>1, Zenon
 <2>5. Written(s, r, inTmp, d)
  <3>1. o.i - 1 - Len(o.queue) = d
   <4>1. o.i - 1 - Len(o.queue) = i - 1 - 0 BY <2>2, Zenon
   <4> QED BY <2>3, <4>1, Zenon
  <3>2. Written(s, o, inTmp, d) BY <1>3, <3>1 DEF Working
  <3> QED BY <1>4, <3>2 DEF Written
 <2>6. Queued(r)
  <3>1. Len(r.queue) < r.i BY <1>4, <2>2, <2>3
  <3>2. \A k \in 1..Len(r.queue) : FALSE BY <2>2, <2>3
  <3> QED BY <3>1, <3>2 DEF Queued
 <2>7. r.pc \in {"run", "drain"} /\ r.queue = <<>> /\ r.i \in 1..(InsertRows + 1) /\ r.pc # "drain" BY <1>1, <1>3, <1>4
 <2> HIDE DEF d, i
 <2> QED BY <1>1, <1>2, <1>3, <1>4, <1>6, <2>3, <2>4, <2>5, <2>6, <2>7, WriteStep
<1> QED BY <1>1, <1>5, <1>6

LEMMA InsertJoinStep ==
  ASSUME InsertInv, NEW s \in InsertStmts, InsertJoin(s)
  PROVE  InsertInv'
<1> DEFINE o == inSt[s]
           r == [o EXCEPT !.pc = IF InsertFailed(o) THEN "abort" ELSE "finish"]
<1>1. SourceJoined(o) /\ Become(s, r) /\ UNCHANGED <<inFormat, inFile, inTmp, inOutcome>> BY DEF InsertJoin
<1>2. o.pc \in WorkingPcs /\ o.pc \in {"run", "drain"} BY <1>1 DEF SourceJoined, WorkingPcs
<1>3. Working(s, o, inTmp, inFile) /\ o \in Stmt /\ InsertRows \in Nat /\ o.i \in 1..(InsertRows + 1)
  BY <1>2, WorkingFacts
<1>4. CASE InsertFailed(o)
 <2>1. Become(s, [o EXCEPT !.pc = "abort"]) BY <1>1, <1>4
 <2> HIDE DEF r
 <2> QED BY <1>1, <1>2, <1>3, <2>1, AbortStep
<1>5. CASE ~InsertFailed(o)
 <2>1. "finish" \in WorkingPcs /\ "finish" \in HoldingPcs /\ r = [o EXCEPT !.pc = "finish"]
   BY <1>5 DEF WorkingPcs, HoldingPcs
 <2>2. /\ r \in Stmt /\ r.queue = o.queue /\ r.pc = "finish" /\ r.kind = o.kind /\ r.i = o.i /\ r.source = o.source
       /\ r.exists = o.exists /\ r.mode = o.mode /\ r.evalErr = o.evalErr /\ r.writeErr = o.writeErr /\ r.n = o.n
       /\ r.runErr = o.runErr /\ r.retErr = o.retErr BY <1>3, <2>1 DEF Stmt
 <2> HIDE DEF r
 <2>3. o.queue = <<>> /\ o.i = InsertRows + 1 BY <1>1, <1>3, <1>5 DEF SourceJoined, Working, InsertFailed
 <2>4. ~InsertFailed(r) BY <1>5, <2>2 DEF InsertFailed
 <2>5. Working(s, r, inTmp, inFile) BY <1>3, <2>2, <2>3, <2>4 DEF Working, Written, Queued
 <2> QED BY <1>1, <1>2, <2>1, <2>2, <2>5, WorkStep
<1> QED BY <1>4, <1>5

\* The rename: the temporary file, complete, is the target.
LEMMA InsertRenameStep ==
  ASSUME InsertInv, NEW s \in InsertStmts, InsertRename(s)
  PROVE  InsertInv' /\ (inSt[s].mode # "overwrite" /\ inSt[s].exists => Keeps(inFile, inFile'))
<1> DEFINE o == inSt[s]
           r == [o EXCEPT !.pc = "ended"]
<1>1. /\ o.pc = "finish" /\ inFile' = inTmp /\ inTmp' = NoTarget /\ Become(s, r)
      /\ inOutcome' = [inOutcome EXCEPT ![s] = "ok"] /\ inFormat' = inFormat BY DEF InsertRename, InsertEnd
<1>2. o.pc \in WorkingPcs BY <1>1 DEF WorkingPcs
<1>3. /\ Working(s, o, inTmp, inFile) /\ o \in Stmt /\ inOutcome[s] = "none" /\ Holding(s) /\ inTmp \in Files
      /\ InsertTypes /\ InsertRows \in Nat /\ (o.exists => o.mode # "new") BY <1>2, WorkingFacts DEF InsertInv
<1>4. /\ r \in Stmt /\ r.pc = "ended" /\ r.source = o.source /\ r.n = o.n
      /\ r.runErr = o.runErr /\ r.retErr = o.retErr /\ r.evalErr = o.evalErr /\ r.writeErr = o.writeErr BY <1>3 DEF Stmt
<1> HIDE DEF r
<1>5. r.pc \notin HoldingPcs /\ r.pc \notin WorkingPcs /\ "ok" \in Outcomes BY <1>4 DEF HoldingPcs, WorkingPcs, Outcomes
<1>6. Succeeded(o) /\ HoldsRows(inTmp, s, Documents(o.source, InsertRows))
 <2>1. ~InsertFailed(o) /\ o.i = InsertRows + 1 /\ o.queue = <<>> /\ Written(s, o, inTmp, o.i - 1 - Len(o.queue))
   BY <1>1, <1>3 DEF Working
 <2>2. Len(<<>>) = 0 /\ (InsertRows + 1) - 1 - 0 = InsertRows BY <1>3
 <2>3. o.i - 1 - Len(o.queue) = (InsertRows + 1) - 1 - 0 BY <2>1, <2>2, Zenon
 <2>4. Written(s, o, inTmp, InsertRows) BY <2>1, <2>2, <2>3, Zenon
 <2> QED BY <1>3, <2>1, <2>4, WrittenAll
<1>7. Succeeded(r) BY <1>4, <1>6 DEF Succeeded, InsertFailed
<1>8. Progress(s)' BY <1>1, <1>3, <1>4, <1>5, <1>7, ProgressNow
<1>9. ASSUME NEW t \in InsertStmts PROVE FileOK(inFile, t)'
 <2>1. CASE t = s
  <3>1. inSt'[s] = r /\ inOutcome'[s] = "ok" BY <1>1, <1>3 DEF Become, InsertTypes
  <3> QED BY <1>1, <1>4, <1>6, <2>1, <3>1 DEF FileOK
 <2>2. CASE t # s
  <3>1. FileOK(inTmp, t) BY <1>2, <2>2 DEF InsertInv, FilesInv
  <3>2. PICK f : f = inTmp OBVIOUS
  <3>3. FileOK(f, t)' BY <1>1, <1>3, <3>1, <3>2, FileStable
  <3> QED BY <1>1, <3>2, <3>3 DEF FileOK
 <2> QED BY <2>1, <2>2
<1>10. \A t \in InsertStmts \ {s} : ~Holding(t) BY <1>3 DEF InsertInv, HolderInv
<1>11. inFile' \in Files \cup {NoTarget} /\ inTmp' \in Files \cup {NoTarget} /\ inFile' # NoTarget /\ inTmp' = NoTarget
  BY <1>1, <1>3, FileFacts
<1>12. InsertInv' BY <1>1, <1>3, <1>4, <1>5, <1>8, <1>9, <1>10, <1>11, StepFrame
<1>13. o.mode # "overwrite" /\ o.exists => Keeps(inFile, inFile') BY <1>1, <1>3 DEF Working, Stmt
<1> QED BY <1>12, <1>13


LEMMA RemoveStaleStep ==
  ASSUME InsertInv, RemoveStale
  PROVE  InsertInv'
<1>1. /\ inTmp' = NoTarget /\ UNCHANGED <<inFormat, inFile, inSt, inOutcome>> /\ \A s \in InsertStmts : ~Holding(s)
  BY DEF RemoveStale
<1>2. \A s \in InsertStmts : inSt[s].pc \notin WorkingPcs /\ inSt[s].pc # "seed" /\ ~Holding(s)'
  BY <1>1 DEF Holding, WorkingPcs
<1>3. InsertTypes' BY <1>1 DEF InsertInv, InsertTypes
<1>4. HolderInv' /\ NoLeftover' BY <1>1, <1>2 DEF HolderInv, NoLeftover
<1>5. ASSUME NEW s \in InsertStmts PROVE Progress(s)' BY <1>1, <1>2 DEF InsertInv, Progress, Succeeded
<1>6. FilesInv' BY <1>1, <1>2 DEF InsertInv, FilesInv, FileOK
<1> QED BY <1>3, <1>4, <1>5, <1>6 DEF InsertInv

LEMMA InsertStep ==
  ASSUME InsertInv, InsertNext
  PROVE  InsertInv'
<1>1. ASSUME NEW s \in InsertStmts, InsertAbort(s) PROVE InsertInv'
 <2>1. /\ inSt[s].pc = "abort" /\ inTmp' = NoTarget /\ InsertEnd(s, "error") /\ UNCHANGED <<inFormat, inFile>>
       /\ Holding(s) BY <1>1 DEF InsertAbort, Holding
 <2> QED BY <2>1, FailureStep
<1>2. ASSUME NEW s \in InsertStmts, InsertCrash(s) PROVE InsertInv'
 <2>1. inSt[s].pc # "ended" /\ inTmp' = inTmp /\ InsertEnd(s, "died") /\ UNCHANGED <<inFormat, inFile>>
   BY <1>2 DEF InsertCrash
 <2> QED BY <2>1, FailureStep
<1>3. ASSUME NEW s \in InsertStmts, FinishFails(s) PROVE InsertInv'
 <2>1. /\ inSt[s].pc \in WorkingPcs /\ UNCHANGED <<inFormat, inFile, inTmp, inOutcome>>
       /\ Become(s, [inSt[s] EXCEPT !.pc = "abort"]) BY <1>3 DEF FinishFails, WorkingPcs
 <2>2. inSt[s] \in Stmt BY <2>1, WorkingFacts
 <2> QED BY <2>1, <2>2, AbortStep
<1> QED BY <1>1, <1>2, <1>3, InsertStartStep, NewWriterStep, SeedStep, InsertOnRowStep, SourceEndsStep, ValuesPairStep,
           InsertJoinStep, InsertRenameStep, WriterTakeStep, RemoveStaleStep
        DEF InsertNext, InsertSession

\* What the target may be at first: no file, or one with rows of nobody's here.
TargetsOK(targets) == targets \subseteq {NoTarget} \cup Seq({InsertOld} \X Nat)

LEMMA InsertStarts ==
  ASSUME NEW formats, NEW targets, TargetsOK(targets), InsertInit(formats, targets)
  PROVE  InsertInv
<1>1. /\ inFile \in targets /\ inTmp = NoTarget /\ inSt = [s \in InsertStmts |-> FreshInsert]
      /\ inOutcome = [s \in InsertStmts |-> "none"] BY DEF InsertInit
<1>2. ASSUME inFile # NoTarget PROVE inFile \in Files /\ \A t \in InsertStmts : RowsOf(inFile, t) = {}
 <2> DEFINE S == {InsertOld} \X Nat
            T == Writers \X Nat
 <2>1. inFile \in Seq(S) BY <1>1, <1>2 DEF TargetsOK
 <2>2. \A k \in DOMAIN inFile : inFile[k] \in S BY <2>1
 <2>3. \A k \in DOMAIN inFile : inFile[k][1] = InsertOld BY <2>2
 <2>4. S \subseteq T BY DEF Writers
 <2>5. inFile \in Seq(T)
  <3> HIDE DEF S, T
  <3>1. Len(inFile) \in Nat /\ inFile \in [1..Len(inFile) -> S] BY <2>1
  <3>2. inFile \in [1..Len(inFile) -> T] BY <2>4, <3>1
  <3> QED BY <3>1, <3>2, SeqDef
 <2> QED BY <2>3, <2>5, InsertAssumption DEF RowsOf, Files
<1>3. InsertTypes
 <2>1. FreshInsert \in Stmt
  <3> DEFINE S == Seq(1..InsertRows)
             T == {<<>>} \cup [1..InsertRows -> Evaluated]
             e == <<>>
  <3>1. e \in S /\ e \in T OBVIOUS
  <3> HIDE DEF S, T, e
  <3>2. FreshInsert = [pc |-> "idle", mode |-> "new", kind |-> "values", returning |-> FALSE, exists |-> FALSE,
                       source |-> e, i |-> 1, queue |-> e, runErr |-> FALSE, evalErr |-> FALSE,
                       writeErr |-> FALSE, n |-> 0, retErr |-> FALSE] BY DEF FreshInsert, e
  <3>3. Stmt = [pc : HoldingPcs \cup {"idle", "open", "ended"}, mode : {"new", "append", "overwrite"},
                kind : {"select", "values"}, returning : BOOLEAN, exists : BOOLEAN, source : T, i : Nat,
                queue : S, runErr : BOOLEAN, evalErr : BOOLEAN, writeErr : BOOLEAN, n : Nat, retErr : BOOLEAN]
    BY DEF Stmt, S, T
  <3> QED BY <3>1, <3>2, <3>3
 <2> QED BY <1>1, <1>2, <2>1 DEF InsertTypes, Outcomes
<1>4. \A s \in InsertStmts : inSt[s] = FreshInsert /\ inSt[s].pc = "idle" /\ inOutcome[s] = "none" /\ ~Holding(s)
  BY <1>1 DEF FreshInsert, Holding
<1>5. ASSUME NEW s \in InsertStmts PROVE Progress(s)
  BY <1>4 DEF Progress, WorkingPcs, Untouched, FreshInsert, InsertFailed
<1>6. HolderInv /\ NoLeftover BY <1>1, <1>4 DEF HolderInv, NoLeftover
<1>7. FilesInv BY <1>2, <1>4 DEF FilesInv, FileOK, WorkingPcs
<1> QED BY <1>3, <1>5, <1>6, <1>7 DEF InsertInv

LEMMA InsertStutter ==
  ASSUME InsertInv, UNCHANGED inVars
  PROVE  InsertInv'
<1>1. UNCHANGED <<inFormat, inFile, inTmp, inSt, inOutcome>> BY DEF inVars
<1>2. InsertTypes' /\ HolderInv' /\ NoLeftover' /\ FilesInv'
  BY <1>1 DEF InsertInv, InsertTypes, HolderInv, NoLeftover, Holding, FilesInv, FileOK
<1>3. ASSUME NEW s \in InsertStmts PROVE Progress(s)' BY <1>1 DEF InsertInv, Progress, Succeeded, Working, Written
<1> QED BY <1>2, <1>3 DEF InsertInv

LEMMA InsertInvariance ==
  ASSUME NEW formats, NEW targets, TargetsOK(targets)
  PROVE  InsertSpec(formats, targets) => []InsertInv
<1>1. InsertInit(formats, targets) => InsertInv BY InsertStarts
<1>2. InsertInv /\ [InsertNext]_inVars => InsertInv' BY InsertStep, InsertStutter
<1> QED BY <1>1, <1>2, PTL DEF InsertSpec

\* glue/insert.go, glue/insert_writer.go: of a statement a reader of the target
\* sees all documents once and in order, or none; a success has written and
\* counted them all; and unless a process has died, no temporary file is left.
THEOREM AllOrNothingInserted ==
  ASSUME NEW formats, NEW targets, TargetsOK(targets)
  PROVE  InsertSpec(formats, targets) => []InsertAtomic
<1>1. ASSUME InsertInv PROVE InsertAtomic
 <2>1. \A s \in InsertStmts : InsertDocuments(s) = Documents(inSt[s].source, InsertRows)
   BY DEF InsertDocuments, Documents
 <2>2. AllOrNothing BY <1>1, <2>1 DEF AllOrNothing, InsertInv, FilesInv, FileOK
 <2>3. \A s \in InsertStmts : inOutcome[s] = "ok" => Succeeded(inSt[s]) BY <1>1 DEF InsertInv, Progress
 <2>4. CountTrue BY <2>1, <2>3 DEF CountTrue, Succeeded
 <2>5. NoColumnLost BY <2>1, <2>3 DEF NoColumnLost, Succeeded
 <2> QED BY <1>1, <2>2, <2>4, <2>5 DEF InsertAtomic, InsertInv
<1> QED BY <1>1, InsertInvariance, PTL

\* glue/insert.go: the rename of a statement that saw the target when it
\* started, and is not to overwrite it, keeps every row that is in the target by
\* then, also those that others have inserted meanwhile.
THEOREM NoRowLost ==
  ASSUME NEW formats, NEW targets, TargetsOK(targets)
  PROVE  InsertSpec(formats, targets) => RowsLeaveOnlyBlindly
<1> DEFINE Stays(s) ==
             inOutcome[s] # "ok" /\ inOutcome'[s] = "ok" /\ inSt[s].mode # "overwrite" /\ inSt[s].exists
               => \A i \in DOMAIN inFile : inFile'[i] = inFile[i]
           A == inFile # NoTarget => \A s \in InsertStmts : Stays(s)
<1>1. ASSUME InsertInv, InsertNext, inFile # NoTarget, NEW s \in InsertStmts,
             inOutcome[s] # "ok", inOutcome'[s] = "ok", inSt[s].mode # "overwrite", inSt[s].exists
      PROVE  \A i \in DOMAIN inFile : inFile'[i] = inFile[i]
 <2>1. inOutcome \in [InsertStmts -> Outcomes] BY <1>1 DEF InsertInv, InsertTypes
 <2>2. ASSUME NEW t \in InsertStmts, NEW how, InsertEnd(t, how) PROVE t = s /\ how = "ok"
   BY <1>1, <2>1, <2>2 DEF InsertEnd
 <2>3. ASSUME UNCHANGED inOutcome PROVE FALSE BY <1>1, <2>3
 <2>4. InsertRename(s)
  <3>1. ASSUME NEW t \in InsertStmts,
               InsertStart(t) \/ NewWriter(t) \/ InsertAbort(t) \/ InsertCrash(t)
        PROVE  FALSE
   <4>1. InsertEnd(t, "error") \/ InsertEnd(t, "died") \/ UNCHANGED inOutcome
    <5>1. CASE InsertStart(t) BY <5>1 DEF InsertStart
    <5>2. CASE NewWriter(t) BY <5>2 DEF NewWriter
    <5> QED BY <3>1, <5>1, <5>2 DEF InsertAbort, InsertCrash
   <4>2. "error" # "ok" /\ "died" # "ok" OBVIOUS
   <4> QED BY <2>2, <2>3, <4>1, <4>2
  <3>2. ASSUME NEW t \in InsertStmts,
               Seed(t) \/ InsertOnRow(t) \/ SourceEnds(t) \/ ValuesPair(t) \/ InsertJoin(t) \/ FinishFails(t) \/ WriterTake(t)
        PROVE  FALSE BY <2>3, <3>2 DEF Seed, InsertOnRow, SourceEnds, ValuesPair, InsertJoin, FinishFails, WriterTake
  <3>3. ~RemoveStale BY <2>3 DEF RemoveStale
  <3>4. ASSUME NEW t \in InsertStmts, InsertRename(t) PROVE t = s BY <2>2, <3>4 DEF InsertRename
  <3> QED BY <1>1, <3>1, <3>2, <3>3, <3>4 DEF InsertNext, InsertSession
 <2>5. Keeps(inFile, inFile') BY <1>1, <2>4, InsertRenameStep
 <2> QED BY <2>5, FileFacts DEF Keeps
<1>2. InsertInv /\ [InsertNext]_inVars => [A]_inVars BY <1>1
<1>3. [][A]_inVars => RowsLeaveOnlyBlindly BY DEF RowsLeaveOnlyBlindly
<1>4. InsertSpec(formats, targets) => [][InsertNext]_inVars BY PTL DEF InsertSpec
<1> HIDE DEF A
<1> QED BY <1>2, <1>3, <1>4, InsertInvariance, PTL


-----------------------------------------------------------------------------
(* The pool of sources (RecordSource).                                     *)

\* Every source was made for another file of another scan: the file that the scan is at, or
\* one that it has left.
MadeFor(o, n) ==
  /\ o \in [1..n -> SpScans \X (1..SpFiles)]
  /\ \A s, t \in 1..n : o[s] = o[t] => s = t
LeftBehind(o, n) == \A s \in 1..n : o[s][2] < spFile[o[s][1]] \/ (o[s][2] = spFile[o[s][1]] /\ spPc[o[s][1]] # "open")
MadeOnce == \E o : MadeFor(o, spMade) /\ LeftBehind(o, spMade)

Holds(w, s) == spCur[w] = s

PoolTyped ==
  /\ spMade \in Nat
  /\ spPool \in [Sources -> {0, 1}] /\ DOMAIN spBuf = Sources
  /\ spPc \in [SpScans -> {"open", "next", "stopped", "closed"}]
  /\ spFile \in [SpScans -> Nat \ {0}] /\ spCur \in [SpScans -> Nat]
  /\ DOMAIN spI = SpScans /\ spLent \in [SpScans -> [src : Nat, file : Nat]] /\ DOMAIN spErr = SpScans

\* A source is in the pool or with the one scan that holds it, which filled its buffers with
\* the file that it is at.
PoolExact ==
  /\ \A s \in Sources : s > spMade => spPool[s] = 0
  /\ \A s \in 1..spMade : spPool[s] = 0 <=> \E w \in SpScans : Holds(w, s)
  /\ \A v, w \in SpScans : spCur[v] = spCur[w] /\ spCur[v] # 0 => v = w
ScanExact(w) ==
  /\ spCur[w] \in 0..spMade
  /\ spPc[w] \in {"open", "closed"} => spCur[w] = 0
  /\ spPc[w] = "next" => spCur[w] # 0
  /\ spCur[w] # 0 => spBuf[spCur[w]] = <<w, spFile[w]>>
  /\ spLent[w].src # 0 => spPc[w] = "next" /\ spLent[w] = [src |-> spCur[w], file |-> spFile[w]]

PoolInv == PoolTyped /\ MadeOnce /\ PoolExact /\ \A w \in SpScans : ScanExact(w)

\* There are never more sources than scans have files.
LEMMA MadeBound ==
  ASSUME NEW n \in Nat, NEW o, MadeFor(o, n)
  PROVE  n <= 2 * Cardinality(SpScans) * SpFiles /\ 2 * Cardinality(SpScans) * SpFiles \in Nat
<1> DEFINE T == SpScans \X (1..SpFiles)
<1>1. IsFiniteSet(1..SpFiles) /\ Cardinality(1..SpFiles) = SpFiles BY SpAssumption, FS_Interval
<1>2. IsFiniteSet(T) /\ Cardinality(T) = Cardinality(SpScans) * SpFiles BY <1>1, SpAssumption, FS_Product
<1>3. IsFiniteSet(1..n) /\ Cardinality(1..n) = n BY FS_Interval
<1>4. o \in Injection(1..n, T) BY DEF MadeFor, Injection, IsInjective
<1>5. n <= Cardinality(T) /\ Cardinality(T) \in Nat BY <1>2, <1>3, <1>4, FS_Injection, FS_CardinalityType
<1>6. \A a \in Int : 2 * (a * SpFiles) = 2 * a * SpFiles BY SpAssumption
<1>7. Cardinality(SpScans) \in Nat BY SpAssumption, FS_CardinalityType
<1>8. 2 * Cardinality(T) = 2 * Cardinality(SpScans) * SpFiles BY <1>2, <1>6, <1>7
<1> HIDE DEF T
<1> QED BY <1>5, <1>8

\* The sources that were made are among those the model has room for.
LEMMA SourcesMade ==
  ASSUME PoolTyped, MadeOnce
  PROVE  1..spMade \subseteq Sources /\ 0 \notin Sources /\ Sources \subseteq Nat
<1>1. spMade <= 2 * Cardinality(SpScans) * SpFiles /\ 2 * Cardinality(SpScans) * SpFiles \in Nat
  BY MadeBound DEF MadeOnce, PoolTyped
<1> DEFINE m == 2 * Cardinality(SpScans) * SpFiles
<1> HIDE DEF m
<1>2. Sources = 1..m /\ m \in Nat /\ spMade <= m BY <1>1 DEF Sources, m
<1> QED BY <1>2 DEF PoolTyped

\* A scan that is about to open a file may have a new source made for it.
LEMMA MakesRoom ==
  ASSUME PoolTyped, MadeOnce, NEW w \in SpScans, spPc[w] = "open", spFile[w] <= SpFiles
  PROVE  /\ spMade + 1 \in Sources
         /\ \E o : /\ MadeFor(o, spMade + 1) /\ LeftBehind(o, spMade) /\ o[spMade + 1] = <<w, spFile[w]>>
<1> DEFINE n == spMade
<1>1. n \in Nat BY DEF PoolTyped
<1>2. PICK p : MadeFor(p, n) /\ LeftBehind(p, n) BY DEF MadeOnce
<1> DEFINE o == [s \in 1..(n + 1) |-> IF s = n + 1 THEN <<w, spFile[w]>> ELSE p[s]]
<1>3. <<w, spFile[w]>> \in SpScans \X (1..SpFiles) BY SpAssumption DEF PoolTyped
<1>4. \A s \in 1..n : s \in 1..(n + 1) /\ s # n + 1 /\ o[s] = p[s] BY <1>1
<1>5. n + 1 \in 1..(n + 1) /\ o[n + 1] = <<w, spFile[w]>> /\ \A s \in 1..(n + 1) : s = n + 1 \/ s \in 1..n BY <1>1
<1>6. \A s \in 1..n : p[s] # <<w, spFile[w]>>
 <2>1. SUFFICES ASSUME NEW s \in 1..n, p[s] = <<w, spFile[w]>> PROVE FALSE OBVIOUS
 <2>2. p[s][1] = w /\ p[s][2] = spFile[w] BY <2>1
 <2>3. spFile[w] \in Nat BY DEF PoolTyped
 <2> QED BY <1>2, <2>2, <2>3 DEF LeftBehind
<1>7. p \in [1..n -> SpScans \X (1..SpFiles)] /\ \A s, t \in 1..n : p[s] = p[t] => s = t BY <1>2 DEF MadeFor
<1>8. o \in [1..(n + 1) -> SpScans \X (1..SpFiles)] BY <1>3, <1>4, <1>5, <1>7
<1>9. \A s, t \in 1..(n + 1) : o[s] = o[t] => s = t
 <2> HIDE DEF o
 <2> QED BY <1>4, <1>5, <1>6, <1>7
<1>10. MadeFor(o, n + 1)
 <2> HIDE DEF o
 <2> QED BY <1>8, <1>9 DEF MadeFor
<1>11. LeftBehind(o, n)
 <2> HIDE DEF o
 <2> QED BY <1>2, <1>4 DEF LeftBehind
<1>12. n + 1 \in Sources
 <2>1. n + 1 <= 2 * Cardinality(SpScans) * SpFiles /\ 2 * Cardinality(SpScans) * SpFiles \in Nat
   BY <1>1, <1>10, MadeBound
 <2> DEFINE m == 2 * Cardinality(SpScans) * SpFiles
 <2> HIDE DEF m
 <2>2. Sources = 1..m /\ m \in Nat /\ n + 1 <= m BY <2>1 DEF Sources, m
 <2> QED BY <1>1, <2>2
<1> HIDE DEF o
<1> QED BY <1>5, <1>10, <1>11, <1>12

\* A scan moves on: what was made stays made for files that were begun.
LEMMA LeftStays ==
  ASSUME PoolTyped, NEW n \in Nat, NEW o, MadeFor(o, n), LeftBehind(o, n), NEW w \in SpScans,
         spFile' \in [SpScans -> Nat \ {0}], DOMAIN spPc' = SpScans,
         \A v \in SpScans : v # w => spFile'[v] = spFile[v] /\ spPc'[v] = spPc[v],
         \/ spFile'[w] = spFile[w] + 1
         \/ spFile'[w] = spFile[w] /\ spPc'[w] # "open"
         \/ spFile'[w] = spFile[w] /\ spPc[w] = "open"
  PROVE  LeftBehind(o, n)'
<1> SUFFICES ASSUME NEW s \in 1..n'
             PROVE  (o[s][2] < spFile[o[s][1]] \/ (o[s][2] = spFile[o[s][1]] /\ spPc[o[s][1]] # "open"))'
  BY DEF LeftBehind
<1> DEFINE v == o[s][1]
           f == o[s][2]
<1>1. v \in SpScans /\ f \in Nat BY DEF MadeFor
<1>2. f < spFile[v] \/ (f = spFile[v] /\ spPc[v] # "open") BY DEF LeftBehind
<1>3. spFile[v] \in Nat BY <1>1 DEF PoolTyped
<1> HIDE DEF v, f
<1>4. (f < spFile[v] \/ (f = spFile[v] /\ spPc[v] # "open"))' BY <1>1, <1>2, <1>3
<1> QED BY <1>4 DEF v, f

\* The parts of the invariant that do not speak of the files that were begun.
LEMMA PoolOpenStep ==
  ASSUME PoolInv, NEW w \in SpScans, NEW s \in 1..(spMade + 1), OpenFile(w, s)
  PROVE  PoolInv'
<1> USE DEF PoolInv
<1>1. spPc[w] = "open" /\ spFile[w] <= SpFiles BY DEF OpenFile
<1>2. 1..spMade \subseteq Sources /\ 0 \notin Sources /\ Sources \subseteq Nat /\ spMade + 1 \in Sources /\ spMade \in Nat
  BY <1>1, SourcesMade, MakesRoom DEF PoolTyped
<1>3. /\ s \in Sources /\ spBuf' = [spBuf EXCEPT ![s] = <<w, spFile[w]>>] /\ spCur' = [spCur EXCEPT ![w] = s]
      /\ spI' = [spI EXCEPT ![w] = 0] /\ spPc' = [spPc EXCEPT ![w] = "next"]
      /\ UNCHANGED <<spFile, spLent, spErr>> BY <1>2 DEF OpenFile
<1>4. \/ s \in 1..spMade /\ spPool[s] = 1 /\ spPool' = [spPool EXCEPT ![s] = 0] /\ spMade' = spMade
      \/ s = spMade + 1 /\ spMade' = s /\ spPool' = spPool
 <2>1. CASE spPool[s] > 0 /\ spPool' = [spPool EXCEPT ![s] = @ - 1] /\ UNCHANGED spMade
  <3>1. spPool[s] \in {0, 1} BY <1>3 DEF PoolTyped
  <3>2. s # spMade + 1 BY <1>2, <2>1 DEF PoolExact
  <3>3. spPool[s] = 1 /\ spPool[s] - 1 = 0 /\ s \in 1..spMade BY <1>2, <2>1, <3>1, <3>2
  <3> QED BY <2>1, <3>3
 <2> QED BY <2>1 DEF OpenFile, Get
<1>5. PoolTyped' BY <1>2, <1>3, <1>4 DEF PoolTyped, Sources
<1>6. MadeOnce'
 <2>0. spFile' \in [SpScans -> Nat \ {0}] /\ DOMAIN spPc' = SpScans BY <1>5 DEF PoolTyped
 <2>1. \A v \in SpScans : v # w => spFile'[v] = spFile[v] /\ spPc'[v] = spPc[v] BY <1>3 DEF PoolTyped
 <2>2. spPc'[w] = "next" /\ spFile'[w] = spFile[w] /\ spFile[w] \in Nat BY <1>3 DEF PoolTyped
 <2>3. CASE spMade' = spMade
  <3>1. PICK o : MadeFor(o, spMade) /\ LeftBehind(o, spMade) BY DEF MadeOnce
  <3>2. LeftBehind(o, spMade)' BY <1>2, <2>0, <2>1, <2>2, <3>1, <2>3, LeftStays DEF LeftBehind
  <3> QED BY <2>3, <3>1, <3>2 DEF MadeOnce, MadeFor
 <2>4. CASE spMade' = spMade + 1
  <3>1. PICK o : MadeFor(o, spMade + 1) /\ LeftBehind(o, spMade) /\ o[spMade + 1] = <<w, spFile[w]>>
    BY <1>1, MakesRoom
  <3>2. MadeFor(o, spMade)' BY <2>4, <3>1 DEF MadeFor
  <3>3. \A r \in 1..spMade : o[r] \in SpScans \X (1..SpFiles) BY <1>2, <3>1 DEF MadeFor
  <3>4. \A r \in 1..spMade : o[r][2] < spFile'[o[r][1]] \/ (o[r][2] = spFile'[o[r][1]] /\ spPc'[o[r][1]] # "open")
   <4> SUFFICES ASSUME NEW r \in 1..spMade
                PROVE  o[r][2] < spFile'[o[r][1]] \/ (o[r][2] = spFile'[o[r][1]] /\ spPc'[o[r][1]] # "open") OBVIOUS
   <4>1. o[r][1] \in SpScans BY <3>3
   <4>2. o[r][2] < spFile[o[r][1]] \/ (o[r][2] = spFile[o[r][1]] /\ spPc[o[r][1]] # "open") BY <3>1 DEF LeftBehind
   <4> QED BY <2>1, <2>2, <4>1, <4>2
  <3>5. \A r \in 1..(spMade + 1) : r = spMade + 1 \/ r \in 1..spMade BY <1>2
  <3>6. o[spMade + 1][1] = w /\ o[spMade + 1][2] = spFile'[w] /\ spPc'[w] # "open" BY <2>2, <3>1
  <3>7. \A r \in 1..spMade' : o[r][2] < spFile'[o[r][1]] \/ (o[r][2] = spFile'[o[r][1]] /\ spPc'[o[r][1]] # "open")
    BY <2>4, <3>4, <3>5, <3>6
  <3> QED BY <2>4, <3>2, <3>7 DEF MadeOnce, LeftBehind, MadeFor
 <2> QED BY <1>4, <2>3, <2>4
<1>7. \A v \in SpScans : spCur[v] # s /\ spCur[v] \in 0..spMade
 <2> SUFFICES ASSUME NEW v \in SpScans PROVE spCur[v] # s /\ spCur[v] \in 0..spMade OBVIOUS
 <2>1. spCur[v] \in 0..spMade BY DEF ScanExact
 <2>2. CASE s = spMade + 1 BY <1>2, <2>1, <2>2
 <2>3. CASE s \in 1..spMade /\ spPool[s] = 1 BY <2>1, <2>3 DEF PoolExact, Holds
 <2> QED BY <1>2, <1>4, <2>1, <2>2, <2>3
<1>8. spCur[w] = 0 BY <1>1 DEF ScanExact
<1>9. \A v \in SpScans : spCur'[v] = IF v = w THEN s ELSE spCur[v] BY <1>3 DEF PoolTyped
<1>10. s # 0 /\ \A r \in 1..spMade' : r = s \/ r \in 1..spMade BY <1>2, <1>3, <1>4
<1>11. \A r \in Sources : spPool'[r] = IF r = s THEN 0 ELSE spPool[r] BY <1>2, <1>4 DEF PoolTyped, PoolExact
<1>12. PoolExact'
 <2>1. \A r \in Sources : r > spMade' => spPool'[r] = 0 BY <1>2, <1>4, <1>11 DEF PoolExact
 <2>2. \A r \in 1..spMade' : spPool'[r] = 0 <=> \E v \in SpScans : spCur'[v] = r
  <3> SUFFICES ASSUME NEW r \in 1..spMade' PROVE spPool'[r] = 0 <=> \E v \in SpScans : spCur'[v] = r OBVIOUS
  <3>1. CASE r = s BY <1>3, <1>9, <1>11, <3>1
  <3>2. CASE r # s
   <4>1. r \in 1..spMade /\ r \in Sources /\ r # 0 BY <1>2, <1>10, <3>2
   <4>2. spPool[r] = 0 <=> \E v \in SpScans : spCur[v] = r BY <4>1 DEF PoolExact, Holds
   <4>3. \A v \in SpScans : spCur'[v] = r <=> spCur[v] = r BY <1>8, <1>9, <3>2, <4>1
   <4> QED BY <1>11, <3>2, <4>1, <4>2, <4>3
  <3> QED BY <3>1, <3>2
 <2>3. \A u, v \in SpScans : spCur'[u] = spCur'[v] /\ spCur'[u] # 0 => u = v BY <1>7, <1>9 DEF PoolExact
 <2>4. Sources' = Sources BY DEF Sources
 <2> QED BY <2>1, <2>2, <2>3, <2>4 DEF PoolExact, Holds
<1>13. ASSUME NEW v \in SpScans PROVE ScanExact(v)'
 <2>1. ScanExact(v) OBVIOUS
 <2>2. CASE v = w BY <1>1, <1>2, <1>3, <1>4, <1>9, <1>10, <2>1, <2>2 DEF ScanExact, PoolTyped
 <2>3. CASE v # w
  <3>1. spCur'[v] = spCur[v] /\ spPc'[v] = spPc[v] /\ spFile'[v] = spFile[v] /\ spLent'[v] = spLent[v]
    BY <1>3, <2>3 DEF PoolTyped
  <3>2. spCur[v] # 0 => spBuf'[spCur[v]] = spBuf[spCur[v]] BY <1>2, <1>3, <1>7, <2>1 DEF PoolTyped, ScanExact
  <3>3. spCur[v] \in 0..spMade' BY <1>2, <1>4, <2>1 DEF ScanExact
  <3> QED BY <2>1, <3>1, <3>2, <3>3 DEF ScanExact
 <2> QED BY <2>2, <2>3
<1> QED BY <1>5, <1>6, <1>12, <1>13

\* A file that does not open leaves its source in the pool.
LEMMA PoolFailStep ==
  ASSUME PoolInv, NEW w \in SpScans, NEW s \in 1..(spMade + 1), OpenFails(w, s)
  PROVE  PoolInv'
<1> USE DEF PoolInv
<1>1. spPc[w] = "open" /\ spFile[w] <= SpFiles /\ spFile[w] \in Nat \ {0} BY DEF OpenFails, PoolTyped
<1>2. 1..spMade \subseteq Sources /\ 0 \notin Sources /\ Sources \subseteq Nat /\ spMade + 1 \in Sources /\ spMade \in Nat
  BY <1>1, SourcesMade, MakesRoom DEF PoolTyped
<1>3. /\ s \in Sources /\ spBuf' = [spBuf EXCEPT ![s] = <<w, spFile[w]>>] /\ UNCHANGED <<spCur, spI>>
      /\ spLent' = [spLent EXCEPT ![w] = NotLent]
      /\ \/ spFile' = [spFile EXCEPT ![w] = @ + 1] /\ UNCHANGED <<spPc, spErr>>
         \/ spPc' = [spPc EXCEPT ![w] = "stopped"] /\ spErr' = [spErr EXCEPT ![w] = TRUE] /\ UNCHANGED spFile
  BY <1>2 DEF OpenFails
<1>4. \/ s \in 1..spMade /\ spPool[s] = 1 /\ spPool' = spPool /\ spMade' = spMade
      \/ s = spMade + 1 /\ spMade' = s /\ spPool' = [spPool EXCEPT ![s] = 1]
 <2>1. CASE spPool[s] > 0 /\ UNCHANGED <<spPool, spMade>>
  <3>1. spPool[s] \in {0, 1} BY <1>3 DEF PoolTyped
  <3>2. s # spMade + 1 BY <1>2, <2>1 DEF PoolExact
  <3>3. spPool[s] = 1 /\ spPool[s] - 1 = 0 /\ s \in 1..spMade BY <1>2, <2>1, <3>1, <3>2
  <3> QED BY <2>1, <3>3
 <2>2. CASE s = spMade + 1 /\ spMade' = s /\ Put(s)
  <3>1. spPool[s] = 0 BY <1>2, <2>2 DEF PoolExact
  <3> QED BY <2>2, <3>1 DEF Put
 <2> QED BY <2>1, <2>2 DEF OpenFails
<1>5. PoolTyped'
 <2>1. spMade' \in Nat /\ spPool' \in [Sources -> {0, 1}] /\ Sources' = Sources
   BY <1>2, <1>3, <1>4 DEF PoolTyped, Sources
 <2>2. spFile' \in [SpScans -> Nat \ {0}] BY <1>1, <1>3 DEF PoolTyped
 <2>3. NotLent \in [src : Nat, file : Nat] BY DEF NotLent
 <2>4. /\ spLent' \in [SpScans -> [src : Nat, file : Nat]]
       /\ spPc' \in [SpScans -> {"open", "next", "stopped", "closed"}]
       /\ DOMAIN spBuf' = Sources /\ spCur' \in [SpScans -> Nat] /\ DOMAIN spI' = SpScans /\ DOMAIN spErr' = SpScans
   BY <1>3, <2>3 DEF PoolTyped
 <2> QED BY <2>1, <2>2, <2>4 DEF PoolTyped
<1>0. /\ spFile' \in [SpScans -> Nat \ {0}] /\ DOMAIN spPc' = SpScans
      /\ \A v \in SpScans : v # w => spFile'[v] = spFile[v] /\ spPc'[v] = spPc[v]
      /\ spFile'[w] = spFile[w] + 1 \/ (spFile'[w] = spFile[w] /\ spPc'[w] # "open") BY <1>3, <1>5 DEF PoolTyped
<1>6. MadeOnce'
 <2>2. CASE spMade' = spMade
  <3>1. PICK o : MadeFor(o, spMade) /\ LeftBehind(o, spMade) BY DEF MadeOnce
  <3>2. LeftBehind(o, spMade)' BY <1>0, <1>2, <3>1, <2>2, LeftStays DEF LeftBehind
  <3> QED BY <2>2, <3>1, <3>2 DEF MadeOnce, MadeFor
 <2>3. CASE spMade' = spMade + 1
  <3>1. PICK o : MadeFor(o, spMade + 1) /\ LeftBehind(o, spMade) /\ o[spMade + 1] = <<w, spFile[w]>>
    BY <1>1, MakesRoom
  <3>2. MadeFor(o, spMade)' BY <2>3, <3>1 DEF MadeFor
  <3>3. \A r \in 1..spMade : o[r] \in SpScans \X (1..SpFiles) BY <1>2, <3>1 DEF MadeFor
  <3>4. \A r \in 1..spMade : o[r][2] < spFile'[o[r][1]] \/ (o[r][2] = spFile'[o[r][1]] /\ spPc'[o[r][1]] # "open")
   <4> SUFFICES ASSUME NEW r \in 1..spMade
                PROVE  o[r][2] < spFile'[o[r][1]] \/ (o[r][2] = spFile'[o[r][1]] /\ spPc'[o[r][1]] # "open") OBVIOUS
   <4>1. o[r][1] \in SpScans /\ o[r][2] \in Nat BY <3>3
   <4>2. o[r][2] < spFile[o[r][1]] \/ (o[r][2] = spFile[o[r][1]] /\ spPc[o[r][1]] # "open") BY <3>1 DEF LeftBehind
   <4>3. spFile[o[r][1]] \in Nat BY <4>1 DEF PoolTyped
   <4> QED BY <1>0, <1>1, <4>1, <4>2, <4>3
  <3>5. \A r \in 1..(spMade + 1) : r = spMade + 1 \/ r \in 1..spMade BY <1>2
  <3>6. o[spMade + 1][1] = w /\ o[spMade + 1][2] = spFile[w] BY <3>1
  <3>7. \A r \in 1..spMade' : o[r][2] < spFile'[o[r][1]] \/ (o[r][2] = spFile'[o[r][1]] /\ spPc'[o[r][1]] # "open")
    BY <1>0, <1>1, <2>3, <3>4, <3>5, <3>6
  <3> QED BY <2>3, <3>2, <3>7 DEF MadeOnce, LeftBehind
 <2> QED BY <1>4, <2>2, <2>3
<1>7. \A v \in SpScans : spCur[v] # s /\ spCur[v] \in 0..spMade
 <2> SUFFICES ASSUME NEW v \in SpScans PROVE spCur[v] # s /\ spCur[v] \in 0..spMade OBVIOUS
 <2>1. spCur[v] \in 0..spMade BY DEF ScanExact
 <2>2. CASE s = spMade + 1 BY <1>2, <2>1, <2>2
 <2>3. CASE s \in 1..spMade /\ spPool[s] = 1 BY <2>1, <2>3 DEF PoolExact, Holds
 <2> QED BY <1>2, <1>4, <2>1, <2>2, <2>3
<1>8. spCur[w] = 0 BY <1>1 DEF ScanExact
<1>10. \A r \in 1..spMade' : r = s \/ r \in 1..spMade BY <1>2, <1>3, <1>4
<1>11. \A r \in Sources : spPool'[r] = IF r = s THEN 1 ELSE spPool[r] BY <1>2, <1>4 DEF PoolTyped, PoolExact
<1>12. PoolExact'
 <2>1. \A r \in Sources : r > spMade' => spPool'[r] = 0 BY <1>2, <1>4, <1>11 DEF PoolExact
 <2>2. \A r \in 1..spMade' : spPool'[r] = 0 <=> \E v \in SpScans : spCur'[v] = r
  <3> SUFFICES ASSUME NEW r \in 1..spMade' PROVE spPool'[r] = 0 <=> \E v \in SpScans : spCur'[v] = r OBVIOUS
  <3>1. CASE r = s BY <1>3, <1>7, <1>11, <3>1
  <3>2. CASE r # s
   <4>1. r \in 1..spMade /\ r \in Sources BY <1>2, <1>10, <3>2
   <4>2. spPool[r] = 0 <=> \E v \in SpScans : spCur[v] = r BY <4>1 DEF PoolExact, Holds
   <4> QED BY <1>3, <1>11, <3>2, <4>1, <4>2
  <3> QED BY <3>1, <3>2
 <2>3. \A u, v \in SpScans : spCur'[u] = spCur'[v] /\ spCur'[u] # 0 => u = v BY <1>3 DEF PoolExact
 <2>4. Sources' = Sources BY DEF Sources
 <2> QED BY <2>1, <2>2, <2>3, <2>4 DEF PoolExact, Holds
<1>13. ASSUME NEW v \in SpScans PROVE ScanExact(v)'
 <2>1. ScanExact(v) OBVIOUS
 <2>2. CASE v = w
  <3>1. spCur'[v] = 0 /\ spLent'[v].src = 0 BY <1>3, <1>8, <2>2 DEF PoolTyped, NotLent
  <3>2. spPc'[v] \in {"open", "stopped"} BY <1>1, <1>3, <2>2 DEF PoolTyped
  <3>3. 0 \in 0..spMade' BY <1>5 DEF PoolTyped
  <3> QED BY <3>1, <3>2, <3>3 DEF ScanExact
 <2>3. CASE v # w
  <3>1. spCur'[v] = spCur[v] /\ spPc'[v] = spPc[v] /\ spFile'[v] = spFile[v] /\ spLent'[v] = spLent[v]
    BY <1>3, <2>3 DEF PoolTyped
  <3>2. spCur[v] # 0 => spBuf'[spCur[v]] = spBuf[spCur[v]] BY <1>2, <1>3, <1>7, <2>1 DEF PoolTyped, ScanExact
  <3>3. spCur[v] \in 0..spMade' BY <1>2, <1>4, <2>1 DEF ScanExact
  <3> QED BY <2>1, <3>1, <3>2, <3>3 DEF ScanExact
 <2> QED BY <2>2, <2>3
<1> QED BY <1>5, <1>6, <1>12, <1>13

\* A scan goes on, with the source that it has or without one.
LEMMA PoolScanStep ==
  ASSUME PoolInv, NEW w \in SpScans, NextRecord(w) \/ NextFails(w) \/ Stop(w)
  PROVE  PoolInv'
<1> USE DEF PoolInv
<1>1. /\ UNCHANGED <<spPool, spMade, spBuf, spFile, spCur>> /\ DOMAIN spI' = SpScans /\ DOMAIN spErr' = SpScans
      /\ \/ spLent' = [spLent EXCEPT ![w] = [src |-> spCur[w], file |-> spFile[w]]] /\ spPc[w] = "next" /\ spPc' = spPc
         \/ spLent' = [spLent EXCEPT ![w] = NotLent] /\ spPc[w] \in {"open", "next"} /\ spPc' = [spPc EXCEPT ![w] = "stopped"]
  BY DEF NextRecord, NextFails, Stop, PoolTyped
<1>0. spCur[w] \in Nat /\ spFile[w] \in Nat /\ spMade \in Nat BY DEF PoolTyped
<1>2. PoolTyped'
 <2>1. [src |-> spCur[w], file |-> spFile[w]] \in [src : Nat, file : Nat] /\ NotLent \in [src : Nat, file : Nat]
   BY <1>0 DEF NotLent
 <2>2. spLent' \in [SpScans -> [src : Nat, file : Nat]] BY <1>1, <2>1 DEF PoolTyped
 <2>3. spPc' \in [SpScans -> {"open", "next", "stopped", "closed"}] BY <1>1 DEF PoolTyped
 <2>4. Sources' = Sources BY DEF Sources
 <2> QED BY <1>1, <2>2, <2>3, <2>4 DEF PoolTyped
<1>3. MadeOnce'
 <2>1. PICK o : MadeFor(o, spMade) /\ LeftBehind(o, spMade) BY DEF MadeOnce
 <2>2. /\ spFile' \in [SpScans -> Nat \ {0}] /\ DOMAIN spPc' = SpScans
       /\ \A v \in SpScans : v # w => spFile'[v] = spFile[v] /\ spPc'[v] = spPc[v]
       /\ spFile'[w] = spFile[w] /\ spPc'[w] # "open" BY <1>1, <1>2 DEF PoolTyped
 <2>3. LeftBehind(o, spMade)'
  <3>1. PICK n : n = spMade OBVIOUS
  <3>2. n \in Nat /\ MadeFor(o, n) /\ LeftBehind(o, n) BY <1>0, <2>1, <3>1
  <3>3. LeftBehind(o, n)' BY <2>2, <3>2, LeftStays
  <3> QED BY <1>1, <3>1, <3>3 DEF LeftBehind
 <2> QED BY <1>1, <2>1, <2>3 DEF MadeOnce, MadeFor
<1>4. PoolExact' BY <1>1 DEF PoolExact, Sources, Holds
<1>5. ASSUME NEW v \in SpScans PROVE ScanExact(v)'
 <2>1. ScanExact(v) OBVIOUS
 <2>2. CASE v # w BY <1>1, <2>1, <2>2 DEF ScanExact, PoolTyped
 <2>3. CASE v = w BY <1>1, <2>1, <2>3 DEF ScanExact, PoolTyped, NotLent
 <2> QED BY <2>2, <2>3
<1> QED BY <1>2, <1>3, <1>4, <1>5

\* A scan gives its source back, once.
LEMMA PoolReturnStep ==
  ASSUME PoolInv, NEW w \in SpScans, FileDrained(w) \/ WalkClose(w)
  PROVE  PoolInv'
<1> USE DEF PoolInv
<1>1. /\ UNCHANGED <<spMade, spBuf, spI, spErr>>
      /\ \/ spCur[w] # 0 /\ Put(spCur[w])
         \/ spCur[w] = 0 /\ spPool' = spPool
      /\ spCur' = [spCur EXCEPT ![w] = 0]
      /\ \/ /\ spPc[w] = "next" /\ spPc' = [spPc EXCEPT ![w] = "open"] /\ spFile' = [spFile EXCEPT ![w] = @ + 1]
            /\ spLent' = [spLent EXCEPT ![w] = NotLent]
         \/ spPc[w] = "stopped" /\ spPc' = [spPc EXCEPT ![w] = "closed"] /\ spFile' = spFile /\ spLent' = spLent
 <2>1. ScanExact(w) OBVIOUS
 <2>2. CASE FileDrained(w) BY <2>1, <2>2 DEF FileDrained, ScanExact
 <2>3. CASE WalkClose(w)
  <3>1. CASE spCur[w] = 0
   <4>1. spCur = [spCur EXCEPT ![w] = 0] BY <3>1 DEF PoolTyped
   <4> QED BY <2>3, <3>1, <4>1 DEF WalkClose, CloseCur
  <3>2. CASE spCur[w] # 0 BY <2>3, <3>2 DEF WalkClose, CloseCur
  <3> QED BY <3>1, <3>2
 <2> QED BY <2>2, <2>3
<1>2. 1..spMade \subseteq Sources /\ 0 \notin Sources /\ Sources \subseteq Nat /\ spMade \in Nat
  BY SourcesMade DEF PoolTyped
<1> DEFINE s == spCur[w]
<1>3. s \in 0..spMade BY DEF ScanExact
<1>4. s # 0 => s \in 1..spMade /\ s \in Sources /\ spPool[s] = 0 BY <1>2, <1>3 DEF PoolExact, Holds
<1>5. \A r \in Sources : spPool'[r] = IF r = s THEN 1 ELSE spPool[r]
 <2>1. CASE s # 0 BY <1>1, <1>4, <2>1 DEF PoolTyped, Put
 <2>2. CASE s = 0 BY <1>1, <1>2, <2>2
 <2> QED BY <2>1, <2>2
<1>6. DOMAIN spPool' = Sources BY <1>1 DEF PoolTyped, Put
<1>7. spPool' \in [Sources -> {0, 1}]
 <2>1. spPool' = [r \in Sources |-> spPool'[r]] BY <1>1, <1>6 DEF PoolTyped, Put
 <2>2. \A r \in Sources : spPool'[r] \in {0, 1} BY <1>5 DEF PoolTyped
 <2> QED BY <2>1, <2>2
<1>8. PoolTyped'
 <2>1. NotLent \in [src : Nat, file : Nat] /\ spFile[w] \in Nat BY DEF NotLent, PoolTyped
 <2>2. spLent' \in [SpScans -> [src : Nat, file : Nat]] BY <1>1, <2>1 DEF PoolTyped
 <2>3. spPc' \in [SpScans -> {"open", "next", "stopped", "closed"}] BY <1>1 DEF PoolTyped
 <2>4. Sources' = Sources BY DEF Sources
 <2>5. spFile' \in [SpScans -> Nat \ {0}] BY <1>1, <2>1 DEF PoolTyped
 <2>6. spCur' \in [SpScans -> Nat] BY <1>1 DEF PoolTyped
 <2> QED BY <1>1, <1>7, <2>2, <2>3, <2>4, <2>5, <2>6 DEF PoolTyped
<1>9. MadeOnce'
 <2>1. PICK o : MadeFor(o, spMade) /\ LeftBehind(o, spMade) BY DEF MadeOnce
 <2>2. /\ spFile' \in [SpScans -> Nat \ {0}] /\ DOMAIN spPc' = SpScans
       /\ \A v \in SpScans : v # w => spFile'[v] = spFile[v] /\ spPc'[v] = spPc[v]
       /\ spFile'[w] = spFile[w] + 1 \/ (spFile'[w] = spFile[w] /\ spPc'[w] # "open") BY <1>1, <1>8 DEF PoolTyped
 <2>3. LeftBehind(o, spMade)' BY <1>1, <1>2, <2>1, <2>2, LeftStays DEF LeftBehind
 <2> QED BY <1>1, <2>1, <2>3 DEF MadeOnce, MadeFor
<1>10. \A v \in SpScans : spCur'[v] = IF v = w THEN 0 ELSE spCur[v] BY <1>1 DEF PoolTyped
<1>11. \A v \in SpScans : v # w /\ spCur[v] # 0 => spCur[v] # s BY DEF PoolExact
<1>12. PoolExact'
 <2>1. \A r \in Sources : r > spMade' => spPool'[r] = 0 BY <1>1, <1>2, <1>3, <1>5 DEF PoolExact
 <2>2. \A r \in 1..spMade' : spPool'[r] = 0 <=> \E v \in SpScans : spCur'[v] = r
  <3> SUFFICES ASSUME NEW r \in 1..spMade PROVE spPool'[r] = 0 <=> \E v \in SpScans : spCur'[v] = r BY <1>1
  <3>1. r # 0 /\ r \in Sources BY <1>2
  <3>2. spPool[r] = 0 <=> \E v \in SpScans : spCur[v] = r BY DEF PoolExact, Holds
  <3>3. CASE r = s
   <4>1. \A v \in SpScans : spCur'[v] # r BY <1>10, <1>11, <3>1, <3>3
   <4> QED BY <1>5, <3>1, <3>3, <4>1
  <3>4. CASE r # s
   <4>1. \A v \in SpScans : spCur'[v] = r <=> spCur[v] = r BY <1>10, <3>1, <3>4
   <4> QED BY <1>5, <3>1, <3>2, <3>4, <4>1
  <3> QED BY <3>3, <3>4
 <2>3. \A u, v \in SpScans : spCur'[u] = spCur'[v] /\ spCur'[u] # 0 => u = v BY <1>10 DEF PoolExact
 <2>4. Sources' = Sources BY DEF Sources
 <2> QED BY <2>1, <2>2, <2>3, <2>4 DEF PoolExact, Holds
<1>13. ASSUME NEW v \in SpScans PROVE ScanExact(v)'
 <2>1. ScanExact(v) OBVIOUS
 <2>2. CASE v = w
  <3>1. spCur'[v] = 0 /\ spPc'[v] \in {"open", "closed"} /\ spLent'[v].src = 0
    BY <1>1, <1>10, <2>1, <2>2 DEF PoolTyped, NotLent, ScanExact
  <3> QED BY <1>1, <1>2, <3>1 DEF ScanExact
 <2>3. CASE v # w BY <1>1, <1>10, <2>1, <2>3 DEF ScanExact, PoolTyped
 <2> QED BY <2>2, <2>3
<1> HIDE DEF s
<1> QED BY <1>8, <1>9, <1>12, <1>13

\* Nothing is made, lent or held at the beginning.
LEMMA PoolStarts ==
  ASSUME NEW on, SpInit(on)
  PROVE  PoolInv
<1>2. \A r \in Sources : r \in Nat BY DEF Sources
<1>3. PoolTyped BY DEF SpInit, PoolTyped, NotLent
<1>4. MadeOnce
 <2> DEFINE o == [s \in 1..0 |-> <<1, 1>>]
 <2>1. MadeFor(o, 0) /\ LeftBehind(o, 0) BY DEF MadeFor, LeftBehind
 <2> HIDE DEF o
 <2> QED BY <2>1 DEF MadeOnce, SpInit
<1>5. PoolExact BY <1>2 DEF SpInit, PoolExact, Holds
<1>6. ASSUME NEW v \in SpScans PROVE ScanExact(v) BY DEF SpInit, ScanExact, NotLent
<1> QED BY <1>3, <1>4, <1>5, <1>6 DEF PoolInv

\* Other components leave the pool alone.
LEMMA PoolStutter ==
  ASSUME PoolInv, UNCHANGED spVars
  PROVE  PoolInv'
<1> USE DEF spVars
<1>1. PoolTyped' /\ PoolExact' /\ \A w \in SpScans : ScanExact(w)'
  BY DEF PoolInv, PoolTyped, PoolExact, ScanExact, Sources, Holds
<1>2. MadeOnce' BY DEF PoolInv, MadeOnce, MadeFor, LeftBehind
<1> QED BY <1>1, <1>2 DEF PoolInv

\* So the invariant holds of every scan, under any interleaving of them.
LEMMA PoolInvariance ==
  ASSUME NEW on
  PROVE  SpSpec(on) => []PoolInv
<1>1. SpInit(on) => PoolInv BY PoolStarts
<1>2. PoolInv /\ [SpNext]_spVars => PoolInv'
 <2> SUFFICES ASSUME PoolInv, [SpNext]_spVars PROVE PoolInv' OBVIOUS
 <2>1. CASE UNCHANGED spVars BY <2>1, PoolStutter
 <2>2. CASE SpNext
  <3>1. PICK w \in SpScans : \/ \E s \in 1..(spMade + 1) : OpenFile(w, s) \/ OpenFails(w, s)
                             \/ NextRecord(w) \/ FileDrained(w) \/ NextFails(w) \/ Stop(w) \/ WalkClose(w)
    BY <2>2 DEF SpNext
  <3>2. CASE \E s \in 1..(spMade + 1) : OpenFile(w, s) \/ OpenFails(w, s) BY <3>2, PoolOpenStep, PoolFailStep
  <3>3. CASE NextRecord(w) \/ NextFails(w) \/ Stop(w) BY <3>3, PoolScanStep
  <3>4. CASE FileDrained(w) \/ WalkClose(w) BY <3>4, PoolReturnStep
  <3> QED BY <3>1, <3>2, <3>3, <3>4
 <2> QED BY <2>1, <2>2
<1> QED BY <1>1, <1>2, PTL DEF SpSpec

\* It is what keeps a lent record whole, and brings every source back.
LEMMA PoolInvImplies ==
  ASSUME PoolInv
  PROVE  LentRecordIntact /\ SourcesReturned
<1> USE DEF PoolInv
<1>1. LentRecordIntact
 <2> SUFFICES ASSUME NEW w \in SpScans, spLent[w].src # 0 PROVE spBuf[spLent[w].src] = <<w, spLent[w].file>>
   BY DEF LentRecordIntact
 <2>1. ScanExact(w) OBVIOUS
 <2>2. spLent[w] = [src |-> spCur[w], file |-> spFile[w]] /\ spCur[w] # 0 BY <2>1 DEF ScanExact
 <2> QED BY <2>1, <2>2 DEF ScanExact
<1>2. SourcesReturned
 <2> SUFFICES ASSUME SpDone, NEW s \in 1..spMade PROVE spPool[s] = 1 BY DEF SourcesReturned
 <2>1. s \in Sources /\ s # 0 BY SourcesMade
 <2>2. \A w \in SpScans : ScanExact(w) OBVIOUS
 <2>3. \A w \in SpScans : spCur[w] = 0 BY <2>2 DEF SpDone, ScanExact
 <2> QED BY <2>1, <2>3 DEF PoolExact, PoolTyped, Holds
<1> QED BY <1>1, <1>2

-----------------------------------------------------------------------------
(* The lines of a file (RecordSource).                                     *)

\* A set of numbers has a least element.
LEMMA LeastPlace ==
  ASSUME NEW T \in SUBSET Nat, T # {}
  PROVE  \E x \in T : \A y \in T : x <= y
<1> DEFINE R == OpToRel(<, Nat)
<1>1. IsWellFoundedOn(R, Nat) BY NatLessThanWellFounded
<1> HIDE DEF R
<1>2. PICK x \in T : \A y \in T : ~(<<y, x>> \in R) BY <1>1, WFMin
<1>3. \A y \in T : <<y, x>> \in R <=> y < x BY DEF R, OpToRel
<1>4. \A y \in T : ~(y < x) /\ y \in Nat /\ x \in Nat BY <1>2, <1>3
<1> QED BY <1>4

\* A bounded one has a greatest.
LEMMA LastPlace ==
  ASSUME NEW n \in Nat, NEW T \in SUBSET (0..n), T # {}
  PROVE  \E x \in T : \A y \in T : y <= x
<1> DEFINE U == {n - y : y \in T}
<1>1. U \in SUBSET Nat /\ U # {}
 <2>1. \A y \in T : n - y \in Nat OBVIOUS
 <2> QED BY <2>1
<1>2. PICK u \in U : \A v \in U : u <= v BY <1>1, LeastPlace
<1>3. PICK x \in T : u = n - x OBVIOUS
<1>4. \A y \in T : n - y \in U /\ u <= n - y BY <1>2
<1> QED BY <1>3, <1>4

DataOK == rtData \in Seq(Bytes)

\* The size of the file.
LEMMA DataFacts ==
  ASSUME DataOK
  PROVE  Size \in Nat /\ \A j \in 0..(Size - 1) : Byte(j) \in Bytes
<1>1. Size \in Nat /\ \A k \in 1..Size : rtData[k] \in Bytes BY DEF DataOK, Size
<1>2. \A j \in 0..(Size - 1) : j + 1 \in 1..Size BY <1>1
<1> QED BY <1>1, <1>2 DEF Byte

\* The bytes between two offsets.
LEMMA SliceFacts ==
  ASSUME DataOK, NEW i \in Nat, NEW j \in i..Size
  PROVE  /\ Slice(i, j) \in Seq(Bytes) /\ Len(Slice(i, j)) = j - i
         /\ \A k \in 1..(j - i) : Slice(i, j)[k] = Byte(i + k - 1)
<1>1. Size \in Nat /\ \A k \in 1..Size : rtData[k] \in Bytes BY DEF DataOK, Size
<1>2. \A k \in (i + 1)..j : rtData[k] \in Bytes BY <1>1
<1>3. i + 1 \in Int /\ j \in Int BY <1>1
<1>4. /\ Slice(i, j) \in Seq(Bytes)
      /\ Len(Slice(i, j)) = IF i + 1 <= j THEN j - (i + 1) + 1 ELSE 0
      /\ \A k \in 1..(j - (i + 1) + 1) : Slice(i, j)[k] = rtData[(i + 1) + k - 1]
  BY <1>2, <1>3, SubSeqProperties DEF Slice
<1>5. \A k \in 1..(j - i) : (i + 1) + k - 1 = (i + k - 1) + 1 /\ k \in 1..(j - (i + 1) + 1) BY <1>1
<1>6. Len(Slice(i, j)) = j - i BY <1>1, <1>4
<1> QED BY <1>4, <1>5, <1>6 DEF Byte

-----------------------------------------------------------------------------
(* White space at the end of a line.                                       *)

Kept(s) == {k \in 1..Len(s) : s[k] \notin Space}

\* Trimming depends only on the bytes that are not white space.
LEMMA TrimFacts ==
  ASSUME NEW s \in Seq(Bytes)
  PROVE  /\ Kept(s) = {} => TrimSpace(s) = <<>>
         /\ Kept(s) # {} => \E a, b \in Kept(s) : /\ \A k \in Kept(s) : a <= k /\ k <= b
                                                  /\ TrimSpace(s) = SubSeq(s, a, b)
         /\ TrimSpace(s) \in Seq(Bytes)
<1>1. Kept(s) = {} => TrimSpace(s) = <<>> BY DEF Kept, TrimSpace
<1>2. ASSUME Kept(s) # {}
      PROVE  \E a, b \in Kept(s) : /\ \A k \in Kept(s) : a <= k /\ k <= b
                                   /\ TrimSpace(s) = SubSeq(s, a, b)
 <2> DEFINE K == Kept(s)
            a == CHOOSE a \in K : \A k \in K : a <= k
            b == CHOOSE b \in K : \A k \in K : b >= k
 <2>1. Len(s) \in Nat /\ K \in SUBSET (0..Len(s)) /\ K \in SUBSET Nat BY DEF Kept
 <2>2. TrimSpace(s) = SubSeq(s, a, b) BY <1>2 DEF Kept, TrimSpace
 <2> HIDE DEF K
 <2>3. \E x \in K : \A k \in K : x <= k BY <1>2, <2>1, LeastPlace DEF K
 <2>4. \E x \in K : \A k \in K : k <= x BY <1>2, <2>1, LastPlace DEF K
 <2>5. \A x, k \in K : k <= x <=> x >= k BY <2>1
 <2>6. a \in K /\ \A k \in K : a <= k BY <2>3
 <2>7. \E x \in K : \A k \in K : x >= k BY <2>4, <2>5
 <2>8. b \in K /\ \A k \in K : b >= k BY <2>7
 <2> HIDE DEF a, b
 <2>9. a \in K /\ b \in K /\ \A k \in K : a <= k /\ k <= b BY <2>5, <2>6, <2>8
 <2> QED BY <2>2, <2>9 DEF K
<1>3. TrimSpace(s) \in Seq(Bytes)
 <2>1. CASE Kept(s) = {} BY <1>1, <2>1
 <2>2. CASE Kept(s) # {}
  <3>1. PICK a, b \in Kept(s) : TrimSpace(s) = SubSeq(s, a, b) BY <1>2, <2>2
  <3>2. a \in Int /\ b \in Int /\ \A k \in a..b : s[k] \in Bytes BY DEF Kept
  <3> QED BY <3>1, <3>2, SubSeqProperties
 <2> QED BY <2>1, <2>2
<1> QED BY <1>1, <1>2, <1>3

\* A newline at the end is trimmed away.
LEMMA TrimNewline ==
  ASSUME NEW s \in Seq(Bytes), NEW t \in Seq(Bytes), Len(t) = Len(s) + 1, t[Len(t)] = "n",
         \A k \in 1..Len(s) : t[k] = s[k]
  PROVE  TrimSpace(t) = TrimSpace(s)
<1>1. Len(s) \in Nat OBVIOUS
<1>2. Kept(t) = Kept(s)
 <2>1. \A k \in 1..Len(t) : k = Len(t) \/ k \in 1..Len(s) BY <1>1
 <2>2. \A k \in 1..Len(s) : k \in 1..Len(t) BY <1>1
 <2> QED BY <2>1, <2>2 DEF Kept, Space
<1>3. CASE Kept(s) = {} BY <1>2, <1>3, TrimFacts
<1>4. CASE Kept(s) # {}
 <2>1. PICK a, b \in Kept(s) : (\A k \in Kept(s) : a <= k /\ k <= b) /\ TrimSpace(s) = SubSeq(s, a, b)
   BY <1>4, TrimFacts
 <2>2. PICK c, d \in Kept(t) : (\A k \in Kept(t) : c <= k /\ k <= d) /\ TrimSpace(t) = SubSeq(t, c, d)
   BY <1>2, <1>4, TrimFacts
 <2>3. a \in 1..Len(s) /\ b \in 1..Len(s) /\ c \in 1..Len(s) /\ d \in 1..Len(s) BY <1>2 DEF Kept
 <2>4. a = c /\ b = d
  <3>1. a <= c /\ c <= a /\ b <= d /\ d <= b BY <1>2, <2>1, <2>2
  <3> QED BY <2>3, <3>1
 <2>5. /\ SubSeq(s, a, b) \in Seq(Bytes) /\ Len(SubSeq(s, a, b)) = IF a <= b THEN b - a + 1 ELSE 0
       /\ \A i \in 1..(b - a + 1) : SubSeq(s, a, b)[i] = s[a + i - 1]
  <3>1. a \in Int /\ b \in Int /\ \A k \in a..b : s[k] \in Bytes BY <2>3
  <3> QED BY ONLY <3>1, SubSeqProperties
 <2>6. /\ SubSeq(t, a, b) \in Seq(Bytes) /\ Len(SubSeq(t, a, b)) = IF a <= b THEN b - a + 1 ELSE 0
       /\ \A i \in 1..(b - a + 1) : SubSeq(t, a, b)[i] = t[a + i - 1]
  <3>1. a \in Int /\ b \in Int /\ \A k \in a..b : t[k] \in Bytes BY <2>3
  <3> QED BY ONLY <3>1, SubSeqProperties
 <2>7. a <= b BY <2>1
 <2>8. \A i \in 1..(b - a + 1) : a + i - 1 \in 1..Len(s) BY <2>3, <2>7
 <2>9. \A i \in 1..Len(SubSeq(s, a, b)) : SubSeq(s, a, b)[i] = SubSeq(t, a, b)[i] BY <2>5, <2>6, <2>7, <2>8
 <2>10. SubSeq(s, a, b) = SubSeq(t, a, b) BY <2>5, <2>6, <2>9, SeqEqual
 <2> QED BY <2>1, <2>2, <2>4, <2>10
<1> QED BY <1>3, <1>4

-----------------------------------------------------------------------------
(* Where lines begin and end.                                              *)

LineStart(o) == o = 0 \/ Byte(o - 1) = "n"
NoNewline(i, j) == \A k \in i..(j - 1) : Byte(k) # "n"
Newlines(o) == {j \in 0..(o - 1) : Byte(j) = "n"}

\* The line at an offset goes up to the first newline from there on.
LEMMA LineAtIs ==
  ASSUME DataOK, NEW o \in Nat, NEW e \in o..Size, NoNewline(o, e), e = Size \/ Byte(e) = "n"
  PROVE  LineAt(o) = Slice(o, e)
<1> DEFINE nl == {k \in o..(Size - 1) : Byte(k) = "n"}
<1>1. Size \in Nat BY DataFacts
<1>2. CASE e = Size
 <2>1. nl = {} BY <1>1, <1>2 DEF NoNewline
 <2> QED BY <1>2, <2>1 DEF LineAt
<1>3. CASE e # Size
 <2>1. e \in nl BY <1>1, <1>3
 <2>2. \A k \in nl : e <= k BY <1>1 DEF NoNewline
 <2>3. nl \subseteq Int OBVIOUS
 <2> DEFINE c == CHOOSE k \in nl : \A j \in nl : k <= j
 <2>4. LineAt(o) = Slice(o, c) BY <2>1 DEF LineAt
 <2> HIDE DEF nl
 <2>5. c \in nl /\ \A j \in nl : c <= j BY <2>1, <2>2
 <2> HIDE DEF c
 <2>6. c = e
  <3>1. c <= e /\ e <= c /\ c \in Int /\ e \in Int BY <2>1, <2>2, <2>3, <2>5
  <3> QED BY <3>1
 <2> QED BY <2>4, <2>6
<1> QED BY <1>2, <1>3

\* Every line ends.
LEMMA LineEnds ==
  ASSUME DataOK, NEW o \in Nat, o <= Size
  PROVE  \E e \in o..Size : NoNewline(o, e) /\ (e = Size \/ Byte(e) = "n")
<1> DEFINE T == {e \in o..Size : e = Size \/ Byte(e) = "n"}
<1>1. Size \in Nat BY DataFacts
<1>2. T \in SUBSET Nat /\ Size \in T BY <1>1
<1>3. PICK e \in T : \A y \in T : e <= y BY <1>2, LeastPlace
<1>4. NoNewline(o, e)
 <2> SUFFICES ASSUME NEW k \in o..(e - 1), Byte(k) = "n" PROVE FALSE BY DEF NoNewline
 <2>1. k \in T /\ k < e BY <1>1, <1>2
 <2> QED BY <1>2, <1>3, <2>1
<1> QED BY <1>3, <1>4

\* The same of the file as it is after a step.
LEMMA LinesThen ==
  ( /\ \A o \in Nat : \A e \in o..Size : DataOK /\ NoNewline(o, e) /\ (e = Size \/ Byte(e) = "n") => LineAt(o) = Slice(o, e)
    /\ \A i \in Nat : \A j \in i..Size : DataOK => /\ Slice(i, j) \in Seq(Bytes) /\ Len(Slice(i, j)) = j - i
                                                  /\ \A k \in 1..(j - i) : Slice(i, j)[k] = Byte(i + k - 1) )'
<1>1. /\ \A o \in Nat : \A e \in o..Size : DataOK /\ NoNewline(o, e) /\ (e = Size \/ Byte(e) = "n") => LineAt(o) = Slice(o, e)
      /\ \A i \in Nat : \A j \in i..Size : DataOK => /\ Slice(i, j) \in Seq(Bytes) /\ Len(Slice(i, j)) = j - i
                                                    /\ \A k \in 1..(j - i) : Slice(i, j)[k] = Byte(i + k - 1)
  BY LineAtIs, SliceFacts
<1> QED BY <1>1, PTL

-----------------------------------------------------------------------------
(* The invariant of the reading by lines: what was read up to rtI.         *)

LineConfig(c) == c.fmt = "jsonl" /\ c.data \in Seq(Bytes)

\* A record of the line at its offset.
RecordAt(d, i) ==
  /\ d.off \in 0..(i - 1) /\ LineStart(d.off)
  /\ d.doc = TrimSpace(LineAt(d.off)) /\ d.doc # <<>>
  /\ d.line = Cardinality(Newlines(d.off))
LineTyped ==
  /\ DataOK /\ rtCfg.fmt = "jsonl" /\ rtCfg.data \in Seq(Bytes)
  /\ rtPc \in {"lines", "done"}
  /\ rtI \in Nat /\ rtFed \in rtI..Size
  /\ rtDocs \in Seq([doc : Seq(Bytes), line : Nat, off : Nat])
\* Every line before rtI with something on it is a record, and no other.
LinesRead ==
  /\ \A k \in 1..Len(rtDocs) : RecordAt(rtDocs[k], rtI)
  /\ \A o \in 0..(rtI - 1) : LineStart(o) /\ TrimSpace(LineAt(o)) # <<>> => \E k \in 1..Len(rtDocs) : rtDocs[k].off = o
LinesCounted == LineStart(rtI) => rtLine = Cardinality(Newlines(rtI))
\* The file is as it was until the reading is over, and then has at most whole lines more.
LinesAsWritten ==
  /\ rtPc = "lines" => rtData = rtCfg.data
  /\ rtI = Size \/ LineStart(rtI)
  /\ rtPc = "done" => rtI = Len(rtCfg.data) /\ Len(rtCfg.data) <= Size

LineInv == LineTyped /\ LinesRead /\ LinesCounted /\ LinesAsWritten

\* There are finitely many newlines before an offset.
LEMMA NewlinesFinite ==
  ASSUME NEW o \in Nat
  PROVE  IsFiniteSet(Newlines(o)) /\ Cardinality(Newlines(o)) \in Nat
<1>1. Newlines(o) \subseteq 0..(o - 1) BY DEF Newlines
<1>2. IsFiniteSet(0..(o - 1)) BY FS_Interval
<1> QED BY <1>1, <1>2, FS_Subset, FS_CardinalityType

\* Before the first line there is no record.
LEMMA LineStarts ==
  ASSUME NEW Cfgs, \A c \in Cfgs : c.fmt = "jsonl" => LineConfig(c), RtInit(Cfgs), rtCfg.fmt = "jsonl"
  PROVE  LineInv
<1>1. LineTyped BY DEF RtInit, LineTyped, LineConfig, DataOK, Size
<1>2. LinesRead BY DEF RtInit, LinesRead
<1>3. Newlines(0) = {} /\ Cardinality({}) = 0 BY FS_EmptySet DEF Newlines
<1>4. LinesCounted BY <1>3 DEF RtInit, LinesCounted
<1>5. LinesAsWritten BY DEF RtInit, LinesAsWritten, LineStart
<1> QED BY <1>1, <1>2, <1>4, <1>5 DEF LineInv

\* One line is read.
LEMMA OneLineRead ==
  ASSUME LineInv, rtPc = "lines", NEW e \in Nat, rtI < e, e <= Size,
         NEW f \in rtI..e, NoNewline(rtI, f), f = Size \/ Byte(f) = "n",
         IF f = Size THEN e = Size ELSE e = f + 1,
         NEW doc, doc = TrimSpace(Slice(rtI, e)),
         rtI' = e, rtLine' = rtLine + 1, UNCHANGED <<rtCfg, rtData, rtFed, rtPc>>, e <= rtFed,
         rtDocs' = IF doc = <<>> THEN rtDocs ELSE Append(rtDocs, [doc |-> doc, line |-> rtLine, off |-> rtI])
  PROVE  LineInv'
<1> USE DEF LineInv
<1>1. Size \in Nat /\ rtI \in Nat /\ rtFed \in rtI..Size /\ DataOK BY DataFacts DEF LineTyped
<1>2. LineAt(rtI) = Slice(rtI, f) BY <1>1, LineAtIs
<1>3. doc = TrimSpace(LineAt(rtI)) /\ doc \in Seq(Bytes)
 <2>1. /\ Slice(rtI, f) \in Seq(Bytes) /\ Len(Slice(rtI, f)) = f - rtI
       /\ \A k \in 1..(f - rtI) : Slice(rtI, f)[k] = Byte(rtI + k - 1)
  <3>1. f \in rtI..Size BY <1>1
  <3> QED BY <1>1, <3>1, SliceFacts
 <2>2. /\ Slice(rtI, e) \in Seq(Bytes) /\ Len(Slice(rtI, e)) = e - rtI
       /\ \A k \in 1..(e - rtI) : Slice(rtI, e)[k] = Byte(rtI + k - 1) BY <1>1, SliceFacts
 <2>3. CASE f = Size BY <1>2, <2>2, <2>3, TrimFacts
 <2>4. CASE f # Size
  <3>1. e = f + 1 /\ Byte(f) = "n" BY <2>4
  <3>2. Len(Slice(rtI, e)) = Len(Slice(rtI, f)) + 1 /\ Slice(rtI, e)[Len(Slice(rtI, e))] = "n"
    BY <1>1, <2>1, <2>2, <3>1
  <3>3. \A k \in 1..Len(Slice(rtI, f)) : Slice(rtI, e)[k] = Slice(rtI, f)[k] BY <1>1, <2>1, <2>2, <3>1
  <3>4. TrimSpace(Slice(rtI, e)) = TrimSpace(Slice(rtI, f)) BY <2>1, <2>2, <3>2, <3>3, TrimNewline
  <3> QED BY <1>2, <2>2, <3>4, TrimFacts
 <2> QED BY <2>3, <2>4
<1>4. LineStart(rtI) /\ rtLine = Cardinality(Newlines(rtI)) /\ rtLine \in Nat
 <2>1. LineStart(rtI) BY <1>1 DEF LinesAsWritten
 <2>2. rtLine = Cardinality(Newlines(rtI)) BY <2>1 DEF LinesCounted
 <2>3. Cardinality(Newlines(rtI)) \in Nat BY <1>1, NewlinesFinite
 <2> QED BY ONLY <2>1, <2>2, <2>3
<1>5. \A o \in (rtI + 1)..(e - 1) : ~LineStart(o) BY <1>1 DEF NoNewline, LineStart
<1>6. LineStart(e) => rtLine + 1 = Cardinality(Newlines(e))
 <2>1. ASSUME LineStart(e) PROVE f # Size /\ e = f + 1
  <3>1. Byte(e - 1) = "n" BY <1>1, <2>1 DEF LineStart
  <3>2. f = Size => e - 1 \in rtI..(f - 1) BY <1>1
  <3> QED BY <3>1, <3>2 DEF NoNewline
 <2>2. ASSUME LineStart(e) PROVE Newlines(e) = Newlines(rtI) \cup {f}
  <3>1. e = f + 1 /\ f \in Nat BY <1>1, <2>1, <2>2
  <3>2. Byte(f) = "n" BY <2>1, <2>2
  <3>3. \A j \in 0..(e - 1) : j = f \/ j \in 0..(rtI - 1) \/ j \in rtI..(f - 1) BY <1>1, <3>1
  <3>4. \A j \in 0..(rtI - 1) : j \in 0..(e - 1) BY <1>1, <3>1
  <3>5. f \in 0..(e - 1) BY <3>1
  <3> QED BY <3>2, <3>3, <3>4, <3>5 DEF Newlines, NoNewline
 <2>3. f \notin Newlines(rtI) BY <1>1 DEF Newlines
 <2> QED BY <1>1, <1>4, <2>2, <2>3, NewlinesFinite, FS_AddElement
<1>7. rtData' = rtData OBVIOUS
<1> DEFINE rec == [doc |-> doc, line |-> rtLine, off |-> rtI]
<1>8. rec \in [doc : Seq(Bytes), line : Nat, off : Nat] BY <1>1, <1>3, <1>4
<1>9. doc # <<>> => RecordAt(rec, e) BY <1>1, <1>3, <1>4 DEF RecordAt
<1>10. \A d : RecordAt(d, rtI) => RecordAt(d, e) BY <1>1 DEF RecordAt
<1>11. rtDocs \in Seq([doc : Seq(Bytes), line : Nat, off : Nat]) BY DEF LineTyped
<1>12. /\ rtDocs' \in Seq([doc : Seq(Bytes), line : Nat, off : Nat])
       /\ \A k \in 1..Len(rtDocs) : k \in 1..Len(rtDocs') /\ rtDocs'[k] = rtDocs[k]
       /\ \A k \in 1..Len(rtDocs') : k \in 1..Len(rtDocs) \/ (doc # <<>> /\ rtDocs'[k] = rec)
       /\ doc # <<>> => \E k \in 1..Len(rtDocs') : rtDocs'[k] = rec
 <2>1. CASE doc = <<>> BY <1>11, <2>1
 <2>2. CASE doc # <<>>
  <3>1. rtDocs' = Append(rtDocs, rec) BY <2>2
  <3> HIDE DEF rec
  <3>2. /\ rtDocs' \in Seq([doc : Seq(Bytes), line : Nat, off : Nat]) /\ Len(rtDocs') = Len(rtDocs) + 1
        /\ rtDocs'[Len(rtDocs) + 1] = rec /\ \A k \in 1..Len(rtDocs) : rtDocs'[k] = rtDocs[k]
   <4> DEFINE T == [doc : Seq(Bytes), line : Nat, off : Nat]
   <4>1. rec \in T /\ rtDocs \in Seq(T) BY <1>8, <1>11
   <4> HIDE DEF T
   <4>2. /\ Append(rtDocs, rec) \in Seq(T) /\ Len(Append(rtDocs, rec)) = Len(rtDocs) + 1
         /\ Append(rtDocs, rec)[Len(rtDocs) + 1] = rec /\ \A k \in 1..Len(rtDocs) : Append(rtDocs, rec)[k] = rtDocs[k]
     BY <4>1, AppendProperties
   <4> QED BY <3>1, <4>2 DEF T
  <3>3. Len(rtDocs) \in Nat BY <1>11
  <3>4. \A k \in 1..(Len(rtDocs) + 1) : k \in 1..Len(rtDocs) \/ k = Len(rtDocs) + 1 BY <3>3
  <3>5. Len(rtDocs) + 1 \in 1..(Len(rtDocs) + 1) /\ \A k \in 1..Len(rtDocs) : k \in 1..(Len(rtDocs) + 1) BY <3>3
  <3> QED BY <2>2, <3>2, <3>4, <3>5
 <2> QED BY <2>1, <2>2
<1> DEFINE Sound(i) == /\ \A k \in 1..Len(rtDocs') : RecordAt(rtDocs'[k], i)
                       /\ \A o \in 0..(i - 1) : LineStart(o) /\ TrimSpace(LineAt(o)) # <<>> => \E k \in 1..Len(rtDocs') : rtDocs'[k].off = o
<1>13. Sound(e)
 <2>1. \A k \in 1..Len(rtDocs') : RecordAt(rtDocs'[k], e) BY <1>9, <1>10, <1>12 DEF LinesRead
 <2>2. \A o \in 0..(e - 1) : o \in 0..(rtI - 1) \/ o = rtI \/ o \in (rtI + 1)..(e - 1) BY <1>1
 <2>3. rec.off = rtI OBVIOUS
 <2> HIDE DEF rec
 <2>4. ASSUME NEW o \in 0..(e - 1), LineStart(o), TrimSpace(LineAt(o)) # <<>>
       PROVE  \E k \in 1..Len(rtDocs') : rtDocs'[k].off = o
  <3>1. CASE o \in 0..(rtI - 1) BY <1>12, <2>4, <3>1 DEF LinesRead
  <3>2. CASE o = rtI BY <1>3, <1>12, <2>3, <2>4, <3>2
  <3> QED BY <1>5, <2>2, <2>4, <3>1, <3>2
 <2> QED BY <2>1, <2>4
<1> HIDE DEF rec
<1>14. LinesRead'
 <2>1. \A o : LineStart(o)' <=> LineStart(o) BY <1>7 DEF LineStart, Byte
 <2>2. \A o : LineAt(o)' = LineAt(o) BY <1>7 DEF LineAt, Slice, Byte, Size
 <2>3. \A o : Newlines(o)' = Newlines(o) BY <1>7 DEF Newlines, Byte
 <2>4. \A k \in 1..Len(rtDocs') : RecordAt(rtDocs[k], e)' BY <1>13, <2>1, <2>2, <2>3 DEF RecordAt
 <2> QED BY <1>13, <2>1, <2>2, <2>4 DEF LinesRead
<1>15. LinesCounted' BY <1>6, <1>7 DEF LinesCounted, LineStart, Newlines, Byte
<1>16. e = Size \/ LineStart(e) BY <1>1 DEF LineStart
<1>17. LinesAsWritten' BY <1>7, <1>16 DEF LinesAsWritten, LineStart, Byte, Size
<1>18. LineTyped' BY <1>1, <1>7, <1>12 DEF LineTyped, Size, DataOK
<1> QED BY <1>14, <1>15, <1>17, <1>18

\* The splitting by lines finds the line's end, or waits for it.
LEMMA AdvanceFacts ==
  ASSUME LineInv, rtPc = "lines"
  PROVE  /\ Advance \in Nat /\ rtI + Advance <= rtFed
         /\ Advance = 0 => rtFed # Size \/ rtI = Size
         /\ Advance # 0 => \E f \in rtI..(rtI + Advance) :
              /\ NoNewline(rtI, f) /\ (f = Size \/ Byte(f) = "n")
              /\ IF f = Size THEN rtI + Advance = Size ELSE rtI + Advance = f + 1
<1> DEFINE nl == {k \in rtI..(rtFed - 1) : Byte(k) = "n"}
<1>1. Size \in Nat /\ rtI \in Nat /\ rtFed \in rtI..Size BY DataFacts DEF LineInv, LineTyped
<1>2. CASE nl = {}
 <2>1. Advance = IF rtFed = Size THEN rtFed - rtI ELSE 0 BY <1>2 DEF Advance
 <2>2. rtFed = Size => NoNewline(rtI, Size) BY <1>2 DEF NoNewline
 <2>3. Size \in rtI..Size /\ (rtFed = Size => rtI + Advance = Size) BY <1>1, <2>1
 <2> QED BY <1>1, <2>1, <2>2, <2>3
<1>3. CASE nl # {}
 <2> DEFINE c == CHOOSE k \in nl : \A j \in nl : k <= j
 <2>1. Advance = c + 1 - rtI BY <1>3 DEF Advance
 <2>2. nl \in SUBSET Nat BY <1>1
 <2>3. \A k \in rtI..(rtFed - 1) : Byte(k) = "n" => k \in nl OBVIOUS
 <2>4. \A k \in nl : k \in rtI..(rtFed - 1) /\ Byte(k) = "n" OBVIOUS
 <2> HIDE DEF nl
 <2>5. \E k \in nl : \A j \in nl : k <= j BY <1>3, <2>2, LeastPlace
 <2>6. c \in nl /\ \A j \in nl : c <= j BY <2>5
 <2> HIDE DEF c
 <2>7. c \in rtI..(rtFed - 1) /\ Byte(c) = "n" BY <2>4, <2>6
 <2>8. NoNewline(rtI, c) BY <1>1, <2>3, <2>6, <2>7 DEF NoNewline
 <2>9. c # Size /\ rtI + Advance = c + 1 /\ Advance \in Nat /\ Advance # 0 /\ rtI + Advance <= rtFed /\ c \in rtI..(rtI + Advance)
   BY <1>1, <2>1, <2>7
 <2> QED BY <2>7, <2>8, <2>9
<1> QED BY <1>2, <1>3

\* One call of the split function: one more line is read.
LEMMA SplitLineStep ==
  ASSUME LineInv, SplitLine
  PROVE  LineInv'
<1> USE DEF LineInv
<1>1. rtPc = "lines" /\ rtI' = rtI + Advance /\ rtTokOff' = rtI /\ UNCHANGED <<rtCfg, rtData, rtFed>>
  BY DEF SplitLine, LineOffset
<1>2. Size \in Nat /\ rtI \in Nat /\ rtFed \in rtI..Size BY DataFacts DEF LineTyped
<1>3. Advance \in Nat /\ rtI + Advance <= rtFed BY <1>1, AdvanceFacts
<1>4. CASE Advance = 0
 <2>1. rtI' = rtI /\ rtPc' = (IF rtFed = Size THEN "done" ELSE "lines") /\ UNCHANGED <<rtLine, rtDocs>>
   BY <1>1, <1>2, <1>4 DEF SplitLine
 <2>2. LinesRead' /\ LinesCounted'
  <3>1. \A o : (LineStart(o)' <=> LineStart(o)) /\ LineAt(o)' = LineAt(o) /\ Newlines(o)' = Newlines(o)
    BY <1>1 DEF LineStart, LineAt, Slice, Newlines, Byte, Size
  <3>2. \A d, i : RecordAt(d, i)' <=> RecordAt(d, i) BY <3>1 DEF RecordAt
  <3>3. \A k \in 1..Len(rtDocs) : RecordAt(rtDocs[k], rtI)' BY <2>1, <3>2 DEF LinesRead
  <3> QED BY <2>1, <3>1, <3>3 DEF LinesRead, LinesCounted
 <2>3. LineTyped' BY <1>1, <2>1 DEF LineTyped, DataOK, Size
 <2>4. rtFed = Size => rtI = Size BY <1>1, <1>4, AdvanceFacts
 <2>5. LinesAsWritten'
  <3>1. rtData = rtCfg.data /\ Size = Len(rtCfg.data) /\ Size' = Size BY <1>1 DEF LinesAsWritten, Size
  <3>2. LineStart(rtI)' <=> LineStart(rtI) BY <1>1, <2>1 DEF LineStart, Byte
  <3> QED BY <1>1, <1>2, <2>1, <2>4, <3>1, <3>2 DEF LinesAsWritten
 <2> QED BY <2>2, <2>3, <2>5
<1>5. CASE Advance # 0
 <2> DEFINE e == rtI + Advance
            doc == TrimSpace(Slice(rtI, e))
 <2>1. rtPc' = rtPc /\ rtLine' = rtLine + 1 BY <1>5 DEF SplitLine, NextLine
 <2>2. rtLine \in Nat
  <3>1. rtI # Size BY <1>2, <1>3, <1>5
  <3> QED BY <1>2, <3>1, NewlinesFinite DEF LinesAsWritten, LinesCounted
 <2>3. rtLine' - 1 = rtLine BY <2>1, <2>2
 <2>4. rtDocs' = IF doc = <<>> THEN rtDocs ELSE Append(rtDocs, [doc |-> doc, line |-> rtLine, off |-> rtI])
   BY <1>1, <1>5, <2>3 DEF SplitLine
 <2>5. PICK f \in rtI..e : NoNewline(rtI, f) /\ (f = Size \/ Byte(f) = "n") /\ IF f = Size THEN e = Size ELSE e = f + 1
   BY <1>1, <1>5, AdvanceFacts
 <2>6. e \in Nat /\ rtI < e /\ e <= Size /\ rtI' = e /\ e <= rtFed BY <1>1, <1>2, <1>3, <1>5
 <2> HIDE DEF e
 <2> QED BY <1>1, <2>1, <2>4, <2>5, <2>6, OneLineRead
<1> QED BY <1>4, <1>5

\* What another program appends comes after the lines that were read.
LEMMA AppendLineStep ==
  ASSUME LineInv, AppendLine
  PROVE  LineInv'
<1> USE DEF LineInv
<1>1. /\ rtPc = "done" /\ Size = Len(rtCfg.data) /\ (Size > 0 => Byte(Size - 1) = "n")
      /\ rtData' = rtData \o <<"y", "n">> /\ UNCHANGED <<rtCfg, rtPc, rtI, rtTokOff, rtFed, rtLine, rtDocs>>
  BY DEF AppendLine
<1>2. Size \in Nat /\ DataOK BY DataFacts DEF LineTyped
<1>3. rtData' \in Seq(Bytes) /\ Size' = Size + 2 /\ \A j \in 0..(Size - 1) : Byte(j)' = Byte(j)
 <2>1. <<"y", "n">> \in Seq(Bytes) /\ Len(<<"y", "n">>) = 2 BY DEF Bytes
 <2>2. /\ rtData' \in Seq(Bytes) /\ Len(rtData') = Len(rtData) + 2
       /\ \A k \in 1..(Len(rtData) + 2) : rtData'[k] = IF k <= Len(rtData) THEN rtData[k] ELSE <<"y", "n">>[k - Len(rtData)]
   BY <1>1, <1>2, <2>1, ConcatProperties DEF DataOK
 <2>3. \A j \in 0..(Size - 1) : j + 1 \in 1..(Len(rtData) + 2) /\ j + 1 <= Len(rtData) BY <1>2 DEF Size
 <2> QED BY <2>2, <2>3 DEF Size, Byte
<1>4. rtI = Size BY <1>1 DEF LinesAsWritten
<1>5. \A o \in 0..Size : LineStart(o)' <=> LineStart(o)
 <2>1. \A o \in 0..Size : o = 0 \/ o - 1 \in 0..(Size - 1) BY <1>2
 <2> QED BY <1>3, <2>1 DEF LineStart
<1>6. \A o \in 0..Size : Newlines(o)' = Newlines(o)
 <2>1. \A o \in 0..Size : \A j \in 0..(o - 1) : j \in 0..(Size - 1) BY <1>2
 <2> QED BY <1>3, <2>1 DEF Newlines
<1>7. ASSUME NEW o \in 0..(Size - 1) PROVE LineAt(o)' = LineAt(o)
 <2>1. o \in Nat /\ o <= Size /\ Size - 1 \in o..(Size - 1) /\ Byte(Size - 1) = "n" BY <1>1, <1>2
 <2>2. PICK e \in o..Size : NoNewline(o, e) /\ (e = Size \/ Byte(e) = "n") BY <1>2, <2>1, LineEnds
 <2>3. e # Size BY <1>2, <2>1, <2>2 DEF NoNewline
 <2>4. e \in 0..(Size - 1) /\ \A k \in o..(e - 1) : k \in 0..(Size - 1) BY <1>2, <2>1, <2>3
 <2>5. NoNewline(o, e)' /\ Byte(e)' = "n" BY <1>3, <2>2, <2>3, <2>4 DEF NoNewline
 <2>6. LineAt(o) = Slice(o, e) BY <1>2, <2>1, <2>2, LineAtIs
 <2>7. e \in o..Size' /\ DataOK' BY <1>2, <1>3, <2>1 DEF DataOK
 <2>8. LineAt(o)' = Slice(o, e)' BY <2>1, <2>5, <2>7, LinesThen
 <2>9. Slice(o, e)' = Slice(o, e)
  <3>1. /\ Slice(o, e) \in Seq(Bytes) /\ Len(Slice(o, e)) = e - o
        /\ \A k \in 1..(e - o) : Slice(o, e)[k] = Byte(o + k - 1) BY <1>2, <2>1, SliceFacts
  <3>2. /\ Slice(o, e)' \in Seq(Bytes) /\ Len(Slice(o, e)') = e - o
        /\ \A k \in 1..(e - o) : Slice(o, e)'[k] = Byte(o + k - 1)' BY <2>1, <2>7, LinesThen
  <3>3. \A k \in 1..(e - o) : o + k - 1 \in 0..(Size - 1) BY <1>2, <2>1, <2>4
  <3> QED BY <1>3, <3>1, <3>2, <3>3, SeqEqual
 <2> QED BY <2>6, <2>8, <2>9
<1>8. \A d : RecordAt(d, rtI) => RecordAt(d, rtI)'
 <2> SUFFICES ASSUME NEW d, RecordAt(d, rtI) PROVE RecordAt(d, rtI)' OBVIOUS
 <2>1. d.off \in 0..(Size - 1) /\ d.off \in 0..Size BY <1>2, <1>4 DEF RecordAt
 <2> QED BY <1>1, <1>4, <1>5, <1>6, <1>7, <2>1 DEF RecordAt
<1>9. LinesRead'
 <2>1. \A o \in 0..(rtI - 1) : o \in 0..(Size - 1) /\ o \in 0..Size BY <1>2, <1>4
 <2>2. \A o \in 0..(rtI - 1) : LineStart(o)' /\ TrimSpace(LineAt(o)') # <<>> => \E k \in 1..Len(rtDocs) : rtDocs[k].off = o
   BY <1>5, <1>7, <2>1 DEF LinesRead
 <2>3. \A k \in 1..Len(rtDocs) : RecordAt(rtDocs[k], rtI)' BY <1>1, <1>8 DEF LinesRead, RecordAt
 <2> QED BY <1>1, <2>2, <2>3 DEF LinesRead, TrimSpace
<1>10. rtI \in 0..Size BY <1>2, <1>4
<1>11. LinesCounted' BY <1>1, <1>5, <1>6, <1>10 DEF LinesCounted
<1>12. LineStart(rtI) BY <1>1, <1>2, <1>4 DEF LineStart
<1>13. LinesAsWritten'
 <2>1. LineStart(rtI)' BY <1>1, <1>5, <1>10, <1>12 DEF LineStart
 <2> QED BY <1>1, <1>2, <1>3, <1>4, <2>1 DEF LinesAsWritten
<1>14. LineTyped' BY <1>1, <1>2, <1>3 DEF LineTyped, DataOK
<1> QED BY <1>9, <1>11, <1>13, <1>14

\* At the end of the file, every line was read.
LEMMA LineInvImplies ==
  ASSUME LineInv
  PROVE  SeekFindsRecord /\ LinesExact
<1> USE DEF LineInv
<1>1. SeekFindsRecord BY DEF SeekFindsRecord, LinesRead, RecordAt
<1>2. LinesExact
 <2> SUFFICES ASSUME rtPc = "done"
              PROVE  /\ \A k \in 1..Len(rtDocs) : rtDocs[k].line = Cardinality(Newlines(rtDocs[k].off))
                     /\ {rtDocs[k].off : k \in 1..Len(rtDocs)} =
                          {o \in 0..(Len(rtCfg.data) - 1) : LineStart(o) /\ TrimSpace(LineAt(o)) # <<>>}
   BY DEF LinesExact, Newlines, LineStart
 <2>1. rtI = Len(rtCfg.data) BY DEF LinesAsWritten
 <2>2. \A k \in 1..Len(rtDocs) : RecordAt(rtDocs[k], rtI) BY DEF LinesRead
 <2>3. \A k \in 1..Len(rtDocs) : rtDocs[k].off \in {o \in 0..(rtI - 1) : LineStart(o) /\ TrimSpace(LineAt(o)) # <<>>}
   BY <2>2 DEF RecordAt
 <2>4. \A o \in 0..(rtI - 1) : LineStart(o) /\ TrimSpace(LineAt(o)) # <<>> => \E k \in 1..Len(rtDocs) : rtDocs[k].off = o
   BY DEF LinesRead
 <2> QED BY <2>1, <2>2, <2>3, <2>4 DEF RecordAt
<1> QED BY <1>1, <1>2

\* Each step of the reading keeps the invariant, and so does an append after it.
LEMMA LineStep ==
  ASSUME LineInv, [RtNext]_rtVars
  PROVE  LineInv'
<1> USE DEF LineInv
<1>1. rtPc \in {"lines", "done"} /\ Size \in Nat /\ rtI \in Nat /\ rtFed \in rtI..Size BY DataFacts DEF LineTyped
<1>2. CASE UNCHANGED rtVars \/ Refill
 <2>1. /\ UNCHANGED <<rtCfg, rtData, rtPc, rtI, rtLine, rtDocs>>
       /\ rtFed' \in rtI..Size BY <1>1, <1>2 DEF Refill, rtVars
 <2>2. \A o : (LineStart(o)' <=> LineStart(o)) /\ LineAt(o)' = LineAt(o) /\ Newlines(o)' = Newlines(o)
   BY <2>1 DEF LineStart, LineAt, Slice, Newlines, Byte, Size
 <2>3. \A k \in 1..Len(rtDocs) : RecordAt(rtDocs[k], rtI)' BY <2>1, <2>2 DEF LinesRead, RecordAt
 <2>4. LinesRead' /\ LinesCounted' BY <2>1, <2>2, <2>3 DEF LinesRead, LinesCounted
 <2>5. LineTyped' /\ LinesAsWritten' BY <2>1 DEF LineTyped, LinesAsWritten, LineStart, Byte, DataOK, Size
 <2> QED BY <2>4, <2>5
<1>3. CASE SplitStart \/ SplitElement \/ SplitStream BY <1>1, <1>3 DEF SplitStart, SplitElement, SplitStream
<1> QED BY <1>2, <1>3, SplitLineStep, AppendLineStep DEF RtNext

-----------------------------------------------------------------------------
(* What a .json file is written from: values, each of which is complete    *)
(* with its last byte and not before, and what may stand between them.     *)

Delim(c) == c \in Space \cup {",", "]", "}"}


\* The brackets outside of strings are closed, and so is the string.
Closed(d) == Nesting(d).depth = 0 /\ ~Nesting(d).str

Container(v) ==
  /\ v[1] \in {"{", "["} /\ Closed(v) /\ \A k \in 1..(Len(v) - 1) : ~Closed(SubSeq(v, 1, k))
QuotedText(v) ==
  /\ v[1] = "q" /\ Len(v) >= 2 /\ ~Nesting(v).str /\ \A k \in 2..(Len(v) - 1) : Nesting(SubSeq(v, 1, k)).str
Scalar(v) ==
  v[1] \notin {"{", "[", "q"} /\ \A k \in 1..Len(v) : ~Delim(v[k])
JsonValue(v) == v \in Seq(Bytes) /\ v # <<>> /\ (Container(v) \/ QuotedText(v) \/ Scalar(v))

\* The k-th value begins at offset at[k]; at[Len(docs) + 1] is the end of the file or of its
\* array, which begins before the offset open.
EndOf(docs, at, open, k) == IF k = 0 THEN open ELSE at[k] + Len(docs[k])
Filler(c) == c \in Space \cup {","}
Layout(data, docs, at, open, between) ==
  /\ data \in Seq(Bytes) /\ open \in Nat /\ docs \in Seq(Seq(Bytes)) /\ at \in [1..(Len(docs) + 1) -> 0..Len(data)]
  /\ \A k \in 1..Len(docs) : JsonValue(docs[k]) /\ \A j \in 1..Len(docs[k]) : data[at[k] + j] = docs[k][j]
  /\ \A k \in 0..Len(docs) :
       /\ EndOf(docs, at, open, k) <= at[k + 1]
       /\ \A j \in EndOf(docs, at, open, k)..(at[k + 1] - 1) : data[j + 1] \in between
  /\ \A k \in 1..(Len(docs) - 1) : Scalar(docs[k]) => EndOf(docs, at, open, k) < at[k + 1]
ArrayText(data, docs, at, open) ==
  /\ Layout(data, docs, at, open, Space \cup {","})
  /\ open > 0 /\ data[open] = "[" /\ \A j \in 1..(open - 1) : data[j] \in Space
  /\ at[Len(docs) + 1] < Len(data) /\ data[at[Len(docs) + 1] + 1] = "]"
StreamText(data, docs, at, open) ==
  /\ Layout(data, docs, at, open, Space)
  /\ open = 0 /\ (docs # <<>> => docs[1][1] # "[")
  /\ at[Len(docs) + 1] = Len(data)

\* The file is such a text, or one of an array that is cut off before its end.
WholeSource(c, docs, at, open) ==
  c.whole /\ c.docs = docs /\ (ArrayText(c.data, docs, at, open) \/ StreamText(c.data, docs, at, open))
CutText(c, text, docs, at, open) ==
  /\ ~c.whole /\ ArrayText(text, docs, at, open)
  /\ Len(c.data) \in 1..at[Len(docs) + 1] /\ \A j \in 1..Len(c.data) : c.data[j] = text[j]
JsonConfig(c) ==
  /\ c.fmt = "json" /\ c.data \in Seq(Bytes)
  /\ \/ \E docs, at, open : WholeSource(c, docs, at, open)
     \/ \E text, docs, at, open : CutText(c, text, docs, at, open)

\* SkipSpace stops at the first byte that is not white space.
LEMMA SkipSpaceFacts ==
  ASSUME DataOK, NEW i \in 0..Size
  PROVE  /\ SkipSpace(i) \in i..Size /\ \A k \in i..(SkipSpace(i) - 1) : Byte(k) \in Space
         /\ SkipSpace(i) = Size \/ Byte(SkipSpace(i)) \notin Space
<1>1. Size \in Nat BY DataFacts
<1> DEFINE T == {j \in i..Size : j = Size \/ Byte(j) \notin Space}
<1>2. T \in SUBSET Nat /\ Size \in T BY <1>1
<1>3. PICK j \in T : \A y \in T : j <= y BY <1>2, LeastPlace
<1>4. \A k \in i..(j - 1) : Byte(k) \in Space
 <2> SUFFICES ASSUME NEW k \in i..(j - 1), Byte(k) \notin Space PROVE FALSE OBVIOUS
 <2>1. k \in T /\ k < j BY <1>1, <1>2
 <2> QED BY <1>2, <1>3, <2>1
<1>5. \E m \in i..Size : (\A k \in i..(m - 1) : Byte(k) \in Space) /\ (m = Size \/ Byte(m) \notin Space) BY <1>3, <1>4
<1> QED BY <1>5 DEF SkipSpace

\* ScanEnd1 chooses the first end.
LEMMA FirstEnd ==
  ASSUME NEW i, NEW none, NEW ends \in SUBSET Nat, NEW e \in ends, \A f \in ends : e <= f
  PROVE  ScanEnd1(i, ends, none) = e
<1>1. ends # {} OBVIOUS
<1> DEFINE c == CHOOSE d \in ends : \A f \in ends : d <= f
<1>2. c \in ends /\ \A f \in ends : c <= f OBVIOUS
<1>3. ScanEnd1(i, ends, none) = c BY <1>1 DEF ScanEnd1
<1> HIDE DEF c
<1>4. c \in Nat /\ e \in Nat /\ c <= e /\ e <= c BY <1>2
<1> QED BY <1>3, <1>4

\* A value's bytes are at an offset, as far as the file goes.
Begins(v, i) == \A j \in 1..Len(v) : i + j <= Size => rtData[i + j] = v[j]

\* The bytes from an offset where a value begins are the value, or its beginning.
LEMMA SliceIsPart ==
  ASSUME DataOK, NEW v \in Seq(Bytes), NEW i \in Nat, Begins(v, i), NEW e \in i..Size, e - i <= Len(v)
  PROVE  Slice(i, e) = SubSeq(v, 1, e - i) /\ (e - i = Len(v) => Slice(i, e) = v)
<1>1. Size \in Nat /\ Len(v) \in Nat /\ e - i \in Nat BY DataFacts
<1>2. /\ Slice(i, e) \in Seq(Bytes) /\ Len(Slice(i, e)) = e - i
      /\ \A k \in 1..(e - i) : Slice(i, e)[k] = rtData[i + k]
 <2>1. \A k \in 1..(e - i) : (i + k - 1) + 1 = i + k BY <1>1
 <2>2. /\ Slice(i, e) \in Seq(Bytes) /\ Len(Slice(i, e)) = e - i
       /\ \A k \in 1..(e - i) : Slice(i, e)[k] = Byte(i + k - 1) BY SliceFacts
 <2>3. \A k \in 1..(e - i) : Byte(i + k - 1) = rtData[i + k] BY <2>1 DEF Byte
 <2> QED BY ONLY <2>2, <2>3
<1>3. \A k \in 1..(e - i) : k \in 1..Len(v) /\ i + k <= Size BY <1>1
<1>4. \A k \in 1..(e - i) : Slice(i, e)[k] = v[k] BY <1>2, <1>3 DEF Begins
<1>5. /\ SubSeq(v, 1, e - i) \in Seq(Bytes) /\ Len(SubSeq(v, 1, e - i)) = e - i
      /\ \A k \in 1..(e - i) : SubSeq(v, 1, e - i)[k] = v[k]
 <2>1. \A k \in 1..(e - i) : v[k] \in Bytes /\ 1 + k - 1 = k BY <1>3
 <2>2. 1 \in Int /\ e - i \in Int /\ (e - i) - 1 + 1 = e - i BY <1>1
 <2>3. /\ SubSeq(v, 1, e - i) \in Seq(Bytes)
       /\ Len(SubSeq(v, 1, e - i)) = IF 1 <= e - i THEN (e - i) - 1 + 1 ELSE 0
       /\ \A k \in 1..((e - i) - 1 + 1) : SubSeq(v, 1, e - i)[k] = v[1 + k - 1] BY <2>1, <2>2, SubSeqProperties
 <2> QED BY <1>1, <2>1, <2>2, <2>3
<1>6. Slice(i, e) = SubSeq(v, 1, e - i) BY <1>2, <1>4, <1>5, SeqEqual
<1>7. e - i = Len(v) => Slice(i, e) = v BY <1>2, <1>4, SeqEqual
<1> QED BY <1>6, <1>7

\* scanJSONValue ends a value at its last byte; a value that is cut off never ends before
\* the file does.
LEMMA ScanFinds ==
  ASSUME DataOK, NEW v, JsonValue(v), NEW i \in Nat, i < Size, Begins(v, i),
         Scalar(v) /\ i + Len(v) < Size => Delim(Byte(i + Len(v)))
  PROVE  /\ i + Len(v) <= Size => ScanJSONValue(i) = i + Len(v) /\ Slice(i, i + Len(v)) = v
         /\ i + Len(v) > Size => ScanJSONValue(i) \in {-1, Size}
<1> DEFINE n == Len(v)
<1>1. v \in Seq(Bytes) /\ n \in Nat /\ n >= 1 /\ Size \in Nat BY DataFacts DEF JsonValue
<1>2. Byte(i) = v[1] BY <1>1 DEF Begins, Byte
<1>3. \A e \in i..Size : e - i <= n => Slice(i, e) = SubSeq(v, 1, e - i) BY <1>1, SliceIsPart
<1>4. i + n <= Size => Slice(i, i + n) = v
 <2>1. i + n <= Size => i + n \in i..Size /\ (i + n) - i = n BY <1>1
 <2> QED BY <1>1, <2>1, SliceIsPart
<1> HIDE DEF n
<1>5. ASSUME Container(v)
      PROVE  (i + n <= Size => ScanJSONValue(i) = i + n) /\ (i + n > Size => ScanJSONValue(i) = -1)
 <2> DEFINE ends == {e \in (i + 1)..Size : Closed(Slice(i, e))}
 <2>1. ScanJSONValue(i) = ScanEnd1(i, ends, -1) BY <1>2, <1>5 DEF Container, ScanJSONValue, Closed
 <2>2. \A e \in (i + 1)..Size : e < i + n => e \notin ends
  <3> SUFFICES ASSUME NEW e \in (i + 1)..Size, e < i + n PROVE e \notin ends OBVIOUS
  <3>1. e - i \in 1..(n - 1) /\ e \in i..Size /\ e - i <= n BY <1>1
  <3> QED BY <1>3, <1>5, <3>1 DEF Container, n
 <2>3. CASE i + n <= Size
  <3>1. i + n \in ends
   <4>1. Closed(v) BY <1>5 DEF Container
   <4>2. Slice(i, i + n) = v BY <1>4, <2>3
   <4>3. i + n \in (i + 1)..Size BY <1>1, <2>3
   <4> QED BY <4>1, <4>2, <4>3
  <3>2. ends \in SUBSET Nat /\ \A e \in ends : e \in (i + 1)..Size BY <1>1
  <3> HIDE DEF ends
  <3>3. \A e \in ends : i + n <= e BY <1>1, <2>2, <3>2
  <3> QED BY <1>1, <2>1, <2>3, <3>1, <3>2, <3>3, FirstEnd
 <2>4. CASE i + n > Size
  <3>1. ends = {} BY <1>1, <2>2, <2>4
  <3> QED BY <1>1, <2>1, <2>4, <3>1 DEF ScanEnd1
 <2> QED BY <1>1, <2>3, <2>4
<1>6. ASSUME QuotedText(v)
      PROVE  (i + n <= Size => ScanJSONValue(i) = i + n) /\ (i + n > Size => ScanJSONValue(i) = -1)
 <2> DEFINE ends == {e \in (i + 2)..Size : ~Nesting(Slice(i, e)).str}
 <2>0. n >= 2 BY <1>6 DEF QuotedText, n
 <2>1. ScanJSONValue(i) = ScanEnd1(i, ends, -1) BY <1>2, <1>6 DEF QuotedText, ScanJSONValue
 <2>2. \A e \in (i + 2)..Size : e < i + n => e \notin ends
  <3> SUFFICES ASSUME NEW e \in (i + 2)..Size, e < i + n PROVE e \notin ends OBVIOUS
  <3>1. e - i \in 2..(n - 1) /\ e \in i..Size /\ e - i <= n BY <1>1
  <3> QED BY <1>3, <1>6, <3>1 DEF QuotedText, n
 <2>3. CASE i + n <= Size
  <3>1. i + n \in ends BY <1>1, <1>4, <1>6, <2>0, <2>3 DEF QuotedText
  <3>2. ends \in SUBSET Nat /\ \A e \in ends : e \in (i + 2)..Size BY <1>1
  <3> HIDE DEF ends
  <3>3. \A e \in ends : i + n <= e BY <1>1, <2>2, <3>2
  <3> QED BY <1>1, <2>1, <2>3, <3>1, <3>2, <3>3, FirstEnd
 <2>4. CASE i + n > Size
  <3>1. ends = {} BY <1>1, <2>2, <2>4
  <3> QED BY <1>1, <2>1, <2>4, <3>1 DEF ScanEnd1
 <2> QED BY <1>1, <2>3, <2>4
<1>7. ASSUME Scalar(v)
      PROVE  (i + n <= Size => ScanJSONValue(i) = i + n) /\ (i + n > Size => ScanJSONValue(i) = Size)
 <2> DEFINE ends == {e \in i..(Size - 1) : Delim(Byte(e))}
 <2>1. ScanJSONValue(i) = ScanEnd1(i, ends, Size) BY <1>2, <1>7 DEF Scalar, ScanJSONValue, Delim
 <2>2. \A e \in i..(Size - 1) : e < i + n => e \notin ends
  <3> SUFFICES ASSUME NEW e \in i..(Size - 1), e < i + n PROVE e \notin ends OBVIOUS
  <3>1. e - i + 1 \in 1..n /\ i + (e - i + 1) = e + 1 /\ e + 1 <= Size BY <1>1
  <3>2. Byte(e) = v[e - i + 1] BY <3>1 DEF Begins, Byte, n
  <3> QED BY <1>7, <3>1, <3>2 DEF Scalar, n
 <2>3. CASE i + n < Size
  <3>1. i + n \in ends BY <1>1, <1>7, <2>3 DEF n
  <3>2. ends \in SUBSET Nat /\ \A e \in ends : e \in i..(Size - 1) BY <1>1
  <3> HIDE DEF ends
  <3>3. \A e \in ends : i + n <= e BY <1>1, <2>2, <3>2
  <3> QED BY <1>1, <2>1, <2>3, <3>1, <3>2, <3>3, FirstEnd
 <2>4. CASE i + n >= Size
  <3>1. ends = {} BY <1>1, <2>2, <2>4
  <3> QED BY <1>1, <2>1, <2>4, <3>1 DEF ScanEnd1
 <2> QED BY <1>1, <2>3, <2>4
<1> QED BY <1>4, <1>5, <1>6, <1>7 DEF JsonValue, n

-----------------------------------------------------------------------------
(* The invariant of the splitting: the values so far are the first of      *)
(* those that the file was written from, and rtI stands between two.       *)

\* The file as a text, whole or cut off.
TextIs(text, docs, at, open) ==
  /\ DataOK /\ rtCfg.fmt = "json" /\ rtCfg.data = rtData
  /\ Size <= Len(text) /\ \A j \in 1..Size : rtData[j] = text[j]
  /\ \/ rtCfg.whole /\ rtCfg.docs = docs /\ Size = Len(text) /\ (ArrayText(text, docs, at, open) \/ StreamText(text, docs, at, open))
     \/ ~rtCfg.whole /\ Size \in 1..at[Len(docs) + 1] /\ ArrayText(text, docs, at, open)

Between(docs, at, open) ==
  /\ Len(rtDocs) <= Len(docs) /\ \A k \in 1..Len(rtDocs) : rtDocs[k].doc = docs[k]
  /\ EndOf(docs, at, open, Len(rtDocs)) <= rtI /\ rtI <= at[Len(rtDocs) + 1] /\ rtI <= Size
SplitProgress(text, docs, at, open) ==
  /\ rtI \in Nat /\ rtPc \in {"start", "array", "stream", "done", "error"}
  /\ rtDocs \in Seq([doc : Seq(Bytes), line : Nat, off : Nat])
  /\ \A k \in 1..Len(rtDocs) : rtDocs[k].doc # <<>>
  /\ rtPc = "start" => rtI = 0 /\ rtDocs = <<>>
  /\ rtPc = "array" => ArrayText(text, docs, at, open) /\ (Between(docs, at, open) \/ (~rtCfg.whole /\ rtI = Size))
  /\ rtPc = "stream" => StreamText(text, docs, at, open) /\ rtCfg.whole /\ Between(docs, at, open)
  /\ rtPc = "done" => IF rtCfg.whole THEN Len(rtDocs) = Len(docs) /\ \A k \in 1..Len(docs) : rtDocs[k].doc = docs[k]
                      ELSE rtData[1] # "["
  /\ rtPc = "error" => ~rtCfg.whole
SplitInv(text, docs, at, open) == TextIs(text, docs, at, open) /\ SplitProgress(text, docs, at, open)

\* The k-th value: where it stands, and what its first byte is not.
LEMMA ValuePlace ==
  ASSUME NEW text, NEW docs, NEW at, NEW open, NEW between, Layout(text, docs, at, open, between), NEW k \in 1..Len(docs)
  PROVE  /\ JsonValue(docs[k]) /\ Len(docs[k]) \in Nat \ {0} /\ at[k] \in Nat /\ at[k + 1] \in Nat
         /\ EndOf(docs, at, open, k) = at[k] + Len(docs[k]) /\ EndOf(docs, at, open, k) <= at[k + 1]
         /\ at[k + 1] <= Len(text)
         /\ text[at[k] + 1] = docs[k][1] /\ ~Delim(docs[k][1])
         /\ \A j \in 1..Len(docs[k]) : text[at[k] + j] = docs[k][j]
<1>1. Len(docs) \in Nat /\ k \in 1..(Len(docs) + 1) /\ k + 1 \in 1..(Len(docs) + 1) /\ k \in 0..Len(docs) /\ k # 0
  BY DEF Layout
<1>2. at[k] \in Nat /\ at[k + 1] \in Nat /\ at[k + 1] <= Len(text)
 <2>1. at \in [1..(Len(docs) + 1) -> 0..Len(text)] BY DEF Layout
 <2>2. at[k] \in 0..Len(text) /\ at[k + 1] \in 0..Len(text) BY <1>1, <2>1
 <2>3. Len(text) \in Nat BY DEF Layout
 <2> QED BY <2>2, <2>3
<1>3. JsonValue(docs[k]) /\ \A j \in 1..Len(docs[k]) : text[at[k] + j] = docs[k][j] BY DEF Layout
<1>4. Len(docs[k]) \in Nat \ {0} /\ 1 \in 1..Len(docs[k]) BY <1>3 DEF JsonValue
<1>5. ~Delim(docs[k][1]) BY <1>3, <1>4 DEF JsonValue, Container, QuotedText, Scalar, Delim, Space
<1>6. EndOf(docs, at, open, k) = at[k] + Len(docs[k]) /\ EndOf(docs, at, open, k) <= at[k + 1] BY <1>1 DEF EndOf, Layout
<1> QED BY <1>2, <1>3, <1>4, <1>5, <1>6

\* What follows the values, if anything does, is the end of the array.
Comma(between) == "," \in between
IsComma(c) == c = ","
IsEnd(c) == c = "]"
EndsArray(text, docs, at) == at[Len(docs) + 1] < Len(text) => text[at[Len(docs) + 1] + 1] = "]"

\* Skipping white space, the splitting comes to what stands between two values, to the next
\* value, to the end of the array, or to the end of the file.
LEMMA NextToken ==
  ASSUME NEW text, NEW docs, NEW at, NEW open, NEW between, \A c \in between : Filler(c),
         TextIs(text, docs, at, open), Layout(text, docs, at, open, between),
         EndsArray(text, docs, at), rtI \in Nat, Len(rtDocs) \in Nat, Between(docs, at, open)
  PROVE  LET i == SkipSpace(rtI)
             m == Len(rtDocs)
         IN  /\ i \in rtI..Size /\ i <= at[m + 1] /\ at[m + 1] \in Nat
             /\ i < Size /\ i < at[m + 1] => Byte(i) = "," /\ Comma(between)
             /\ i < Size /\ i = at[m + 1] /\ m < Len(docs) => Byte(i) = docs[m + 1][1] /\ ~Delim(Byte(i))
             /\ i < Size /\ i = at[m + 1] /\ m = Len(docs) => Byte(i) = "]"
<1> DEFINE i == SkipSpace(rtI)
           m == Len(rtDocs)
           e == EndOf(docs, at, open, m)
<1>1. Size \in Nat /\ DataOK /\ Size <= Len(text) /\ \A j \in 1..Size : rtData[j] = text[j] BY DataFacts DEF TextIs
<1>2. rtI \in 0..Size /\ m <= Len(docs) /\ e <= rtI /\ rtI <= at[m + 1] BY <1>1 DEF Between
<1>3. Len(docs) \in Nat /\ m \in 0..Len(docs) /\ m + 1 \in 1..(Len(docs) + 1) BY <1>2 DEF Layout
<1>4. at[m + 1] \in Nat /\ e \in Nat /\ \A j \in e..(at[m + 1] - 1) : text[j + 1] \in between
 <2>1. at[m + 1] \in Nat /\ \A j \in e..(at[m + 1] - 1) : text[j + 1] \in between BY <1>3 DEF Layout, e
 <2>2. CASE m = 0 BY <2>1, <2>2 DEF Layout, EndOf
 <2>3. CASE m # 0
  <3>1. m \in 1..Len(docs) BY <1>3, <2>3
  <3>2. Len(docs[m]) \in Nat \ {0} /\ at[m] \in Nat /\ EndOf(docs, at, open, m) = at[m] + Len(docs[m])
    BY <3>1, ValuePlace
  <3> QED BY <2>1, <3>2
 <2> QED BY <2>2, <2>3
<1>5. i \in rtI..Size /\ (\A k \in rtI..(i - 1) : Byte(k) \in Space) /\ (i = Size \/ Byte(i) \notin Space)
  BY <1>1, <1>2, SkipSpaceFacts
<1> HIDE DEF i, e
<1>6. \A j \in 0..(Size - 1) : Byte(j) = text[j + 1]
 <2>1. \A j \in 0..(Size - 1) : j + 1 \in 1..Size BY <1>1
 <2> QED BY <1>1, <2>1 DEF Byte
<1>7. m < Len(docs) => m + 1 \in 1..Len(docs) /\ text[at[m + 1] + 1] = docs[m + 1][1] /\ ~Delim(docs[m + 1][1])
 <2>1. m < Len(docs) => m + 1 \in 1..Len(docs) BY <1>3
 <2> QED BY <2>1, ValuePlace
<1>8. at[m + 1] < Size => Byte(at[m + 1]) \notin Space
 <2>1. SUFFICES ASSUME at[m + 1] < Size PROVE Byte(at[m + 1]) \notin Space OBVIOUS
 <2>2. at[m + 1] \in 0..(Size - 1) /\ Byte(at[m + 1]) = text[at[m + 1] + 1] BY <1>1, <1>4, <1>6, <2>1
 <2>3. CASE m < Len(docs) BY <1>7, <2>2, <2>3 DEF Delim
 <2>4. CASE m = Len(docs) BY <1>1, <1>4, <2>1, <2>2, <2>4 DEF Space, EndsArray
 <2> QED BY <1>2, <1>3, <2>3, <2>4
<1>9. i <= at[m + 1]
 <2>1. SUFFICES ASSUME at[m + 1] < i PROVE FALSE BY <1>1, <1>4, <1>5
 <2>2. at[m + 1] \in rtI..(i - 1) /\ at[m + 1] < Size BY <1>1, <1>2, <1>4, <1>5, <2>1
 <2> QED BY <1>5, <1>8, <2>2
<1>10. i < Size /\ i < at[m + 1] => Byte(i) = "," /\ Comma(between)
 <2>1. SUFFICES ASSUME i < Size, i < at[m + 1] PROVE Byte(i) = "," /\ Comma(between) OBVIOUS
 <2>2. i \in e..(at[m + 1] - 1) /\ i \in 0..(Size - 1) BY <1>1, <1>2, <1>4, <1>5, <2>1
 <2>3. Byte(i) \in between /\ Byte(i) \notin Space BY <1>1, <1>4, <1>5, <1>6, <2>1, <2>2
 <2> QED BY <2>3 DEF Filler, Comma
<1>11. i < Size /\ i = at[m + 1] => i \in 0..(Size - 1) /\ Byte(i) = text[at[m + 1] + 1] BY <1>1, <1>2, <1>5, <1>6
<1>12. i < Size /\ i = at[m + 1] /\ m = Len(docs) => Byte(i) = "]" BY <1>1, <1>4, <1>5, <1>11 DEF EndsArray
<1> QED BY <1>4, <1>5, <1>7, <1>9, <1>10, <1>11, <1>12 DEF i

\* The value that begins where the splitting stands, unless the file ends within it.
LEMMA ValueRead ==
  ASSUME NEW text, NEW docs, NEW at, NEW open, NEW between, \A c \in between : Filler(c),
         TextIs(text, docs, at, open), Layout(text, docs, at, open, between),
         EndsArray(text, docs, at), Len(rtDocs) \in Nat, Len(rtDocs) < Len(docs),
         NEW i, i = at[Len(rtDocs) + 1], i < Size
  PROVE  LET e == ScanJSONValue(i)
             m == Len(rtDocs)
         IN  \/ e = -1 /\ ~rtCfg.whole
             \/ /\ e = EndOf(docs, at, open, m + 1) /\ e \in Nat /\ e <= Size /\ e <= at[m + 1 + 1]
                /\ Slice(i, e) = docs[m + 1] /\ docs[m + 1] \in Seq(Bytes) /\ docs[m + 1] # <<>>
             \/ ~rtCfg.whole /\ e = Size /\ e \in Nat /\ Slice(i, e) \in Seq(Bytes) /\ Slice(i, e) # <<>>
<1> DEFINE m == Len(rtDocs)
           v == docs[m + 1]
           e == at[m + 1] + Len(v)
<1>1. Size \in Nat /\ DataOK /\ Size <= Len(text) /\ \A j \in 1..Size : rtData[j] = text[j] BY DataFacts DEF TextIs
<1>2. Len(docs) \in Nat /\ m + 1 \in 1..Len(docs) /\ Len(text) \in Nat BY DEF Layout
<1>3. /\ JsonValue(v) /\ Len(v) \in Nat \ {0} /\ at[m + 1] \in Nat /\ at[m + 1 + 1] \in Nat /\ at[m + 1 + 1] <= Len(text)
      /\ EndOf(docs, at, open, m + 1) = e /\ e <= at[m + 1 + 1]
      /\ \A j \in 1..Len(v) : text[at[m + 1] + j] = v[j]
 <2> DEFINE k == m + 1
 <2>1. Layout(text, docs, at, open, between) /\ k \in 1..Len(docs) BY <1>2
 <2> HIDE DEF k
 <2>2. /\ JsonValue(docs[k]) /\ Len(docs[k]) \in Nat \ {0} /\ at[k] \in Nat /\ at[k + 1] \in Nat
       /\ EndOf(docs, at, open, k) = at[k] + Len(docs[k]) /\ EndOf(docs, at, open, k) <= at[k + 1]
       /\ at[k + 1] <= Len(text)
       /\ \A j \in 1..Len(docs[k]) : text[at[k] + j] = docs[k][j] BY ONLY <2>1, ValuePlace
 <2> QED BY ONLY <2>2 DEF k
<1>4. v \in Seq(Bytes) /\ v # <<>> BY <1>3 DEF JsonValue
<1> HIDE DEF v
<1>5. i \in Nat /\ e = i + Len(v) /\ e \in Nat BY <1>3
<1>6. Begins(v, i)
 <2>1. \A j \in 1..Len(v) : i + j <= Size => i + j \in 1..Size
  <3>1. Size \in Nat /\ Len(v) \in Nat /\ i \in Nat BY <1>1, <1>3, <1>5
  <3> QED BY ONLY <3>1
 <2> QED BY <1>1, <1>3, <2>1 DEF Begins
<1>7. ASSUME Scalar(v), e < Size PROVE Delim(Byte(e))
 <2>1. e + 1 \in 1..Size /\ Byte(e) = text[e + 1]
  <3>1. Size \in Nat /\ e \in Nat /\ e < Size BY <1>1, <1>5, <1>7
  <3>2. e + 1 \in 1..Size BY ONLY <3>1
  <3> QED BY <1>1, <3>2 DEF Byte
 <2>2. CASE e < at[m + 1 + 1]
  <3>1. e \in EndOf(docs, at, open, m + 1)..(at[m + 1 + 1] - 1) /\ m + 1 \in 0..Len(docs) BY <1>2, <1>3, <1>5, <2>2
  <3>2. text[e + 1] \in between BY <3>1 DEF Layout
  <3>3. Filler(text[e + 1]) BY <3>2
  <3> QED BY <2>1, <3>3 DEF Filler, Delim
 <2>3. CASE e = at[m + 1 + 1]
  <3>1. m + 1 = Len(docs)
   <4>1. SUFFICES ASSUME m + 1 \in 1..(Len(docs) - 1) PROVE FALSE BY <1>2
   <4>2. EndOf(docs, at, open, m + 1) < at[m + 1 + 1] BY <1>7, <4>1 DEF Layout, v
   <4> QED BY <1>3, <1>5, <2>3, <4>2
  <3>2. at[Len(docs) + 1] = e /\ e < Len(text) BY <1>1, <1>2, <1>5, <1>7, <2>3, <3>1
  <3>3. text[e + 1] = "]" BY <3>2 DEF EndsArray
  <3> QED BY <2>1, <3>3 DEF Delim
 <2> QED BY <1>3, <1>5, <2>2, <2>3
<1> HIDE DEF e
<1>8. /\ e <= Size => ScanJSONValue(i) = e /\ Slice(i, e) = v
      /\ e > Size => ScanJSONValue(i) \in {-1, Size} BY <1>1, <1>3, <1>5, <1>6, <1>7, ScanFinds
<1>9. e > Size => ~rtCfg.whole
 <2>1. rtCfg.whole => Size = Len(text) BY DEF TextIs
 <2> QED BY <1>1, <1>2, <1>3, <1>5, <2>1
<1>10. Slice(i, Size) \in Seq(Bytes) /\ Slice(i, Size) # <<>>
 <2>1. Slice(i, Size) \in Seq(Bytes) /\ Len(Slice(i, Size)) = Size - i /\ Size - i > 0
  <3>1. Size \in i..Size BY <1>1, <1>5
  <3>2. Slice(i, Size) \in Seq(Bytes) /\ Len(Slice(i, Size)) = Size - i BY <1>1, <1>5, <3>1, SliceFacts
  <3>3. Size - i > 0 BY <1>1, <1>5
  <3> QED BY <3>2, <3>3
 <2> QED BY <2>1
<1>11. CASE e <= Size BY <1>3, <1>4, <1>5, <1>8, <1>11 DEF v
<1>12. CASE e > Size BY <1>1, <1>8, <1>9, <1>10, <1>12
<1> QED BY <1>1, <1>5, <1>11, <1>12

\* The file and its text do not change while it is split.
LEMMA TextStays ==
  ASSUME NEW text, NEW docs, NEW at, NEW open, TextIs(text, docs, at, open), UNCHANGED <<rtCfg, rtData>>
  PROVE  TextIs(text, docs, at, open)'
BY DEF TextIs, DataOK, Size

Recs == [doc : Seq(Bytes), line : Nat, off : Nat]

\* One more record.
LEMMA AppendDocFacts ==
  ASSUME rtDocs \in Seq(Recs), NEW i \in Nat, NEW e, Slice(i, e) \in Seq(Bytes), AppendDoc(i, e)
  PROVE  /\ rtDocs' \in Seq(Recs) /\ Len(rtDocs) \in Nat /\ Len(rtDocs') = Len(rtDocs) + 1 /\ rtI' = e
         /\ rtDocs'[Len(rtDocs) + 1].doc = Slice(i, e)
         /\ \A k \in 1..Len(rtDocs) : rtDocs'[k] = rtDocs[k]
         /\ \A k \in 1..Len(rtDocs') : k = Len(rtDocs) + 1 \/ k \in 1..Len(rtDocs)
<1> DEFINE rec == [doc |-> Slice(i, e), line |-> 0, off |-> 0]
<1>1. rec \in Recs /\ rec.doc = Slice(i, e) BY DEF Recs
<1>2. rtDocs' = Append(rtDocs, rec) /\ rtI' = e BY DEF AppendDoc
<1> HIDE DEF rec
<1>3. /\ Append(rtDocs, rec) \in Seq(Recs) /\ Len(Append(rtDocs, rec)) = Len(rtDocs) + 1
      /\ Append(rtDocs, rec)[Len(rtDocs) + 1] = rec /\ \A k \in 1..Len(rtDocs) : Append(rtDocs, rec)[k] = rtDocs[k]
  BY <1>1, AppendProperties
<1>4. Len(rtDocs) \in Nat OBVIOUS
<1> QED BY <1>1, <1>2, <1>3, <1>4

\* What the splitting does with the value that begins where it stands.
LEMMA SplitValueStep ==
  ASSUME NEW text, NEW docs, NEW at, NEW open, NEW between, \A c \in between : Filler(c),
         SplitInv(text, docs, at, open), Layout(text, docs, at, open, between), EndsArray(text, docs, at),
         Between(docs, at, open), Len(rtDocs) < Len(docs), rtPc \in {"array", "stream"},
         NEW i, i = at[Len(rtDocs) + 1], i < Size, SplitValue(i), UNCHANGED <<rtCfg, rtData>>
  PROVE  SplitInv(text, docs, at, open)'
<1> USE DEF SplitInv
<1> DEFINE m == Len(rtDocs)
           e == ScanJSONValue(i)
<1>1. rtDocs \in Seq(Recs) /\ m \in Nat /\ rtI \in Nat BY DEF SplitProgress, Recs
<1>2. TextIs(text, docs, at, open)' BY TextStays
<1>3. Size \in Nat /\ Size' = Size /\ rtCfg' = rtCfg BY DataFacts DEF TextIs, Size
<1>4. i \in Nat /\ Len(docs) \in Nat
 <2>1. Len(docs) \in Nat BY DEF Layout
 <2>2. m + 1 \in 1..Len(docs) BY <1>1, <2>1
 <2> QED BY <2>1, <2>2, ValuePlace
<1>5. CASE e = -1 /\ ~rtCfg.whole
 <2>1. rtPc' = "error" /\ UNCHANGED <<rtI, rtDocs>> BY <1>5 DEF SplitValue
 <2>2. SplitProgress(text, docs, at, open)' BY <1>3, <1>5, <2>1 DEF SplitProgress
 <2> QED BY <1>2, <2>2
<1> DEFINE Full == /\ e = EndOf(docs, at, open, m + 1) /\ e \in Nat /\ e <= Size /\ e <= at[m + 1 + 1]
                   /\ Slice(i, e) = docs[m + 1] /\ docs[m + 1] \in Seq(Bytes) /\ docs[m + 1] # <<>>
           Part == ~rtCfg.whole /\ e = Size /\ e \in Nat /\ Slice(i, e) \in Seq(Bytes) /\ Slice(i, e) # <<>>
<1>6. (e = -1 /\ ~rtCfg.whole) \/ Full \/ Part BY <1>1, ValueRead
<1> HIDE DEF e
<1>7. CASE Full \/ Part
 <2>1. e # -1 /\ Slice(i, e) \in Seq(Bytes) /\ Slice(i, e) # <<>> /\ e \in Nat BY <1>7
 <2>2. AppendDoc(i, e) /\ rtPc' = rtPc BY <2>1 DEF SplitValue, e
 <2>3. /\ rtDocs' \in Seq(Recs) /\ Len(rtDocs') = m + 1 /\ rtI' = e
       /\ rtDocs'[m + 1].doc = Slice(i, e) /\ \A k \in 1..m : rtDocs'[k] = rtDocs[k]
       /\ \A k \in 1..Len(rtDocs') : k = m + 1 \/ k \in 1..m BY <1>1, <1>4, <2>1, <2>2, AppendDocFacts
 <2>4. \A k \in 1..Len(rtDocs') : rtDocs'[k].doc # <<>> BY <2>1, <2>3 DEF SplitProgress
 <2>5. Full => Between(docs, at, open)'
  <3>1. SUFFICES ASSUME Full PROVE Between(docs, at, open)' OBVIOUS
  <3>2. \A k \in 1..Len(rtDocs') : rtDocs'[k].doc = docs[k] BY <2>3, <3>1 DEF Between
  <3>3. Len(rtDocs') <= Len(docs) BY <1>1, <1>4, <2>3
  <3> HIDE DEF Full
  <3>4. EndOf(docs, at, open, Len(rtDocs')) <= rtI' /\ rtI' <= at[Len(rtDocs') + 1] /\ rtI' <= Size'
    BY <1>3, <2>3, <3>1 DEF Full
  <3> QED BY <3>2, <3>3, <3>4 DEF Between
 <2>6. Part => ~rtCfg'.whole /\ rtI' = Size' BY <1>3, <2>3
 <2>7. Part => rtPc = "array"
  <3>1. Part => ~rtCfg.whole OBVIOUS
  <3> QED BY <3>1 DEF SplitProgress
 <2> HIDE DEF Full, Part
 <2>8. SplitProgress(text, docs, at, open)'
  <3>1. rtPc = "array" => ArrayText(text, docs, at, open) BY DEF SplitProgress
  <3>2. rtPc = "stream" => StreamText(text, docs, at, open) /\ rtCfg.whole BY DEF SplitProgress
  <3>3. rtI' \in Nat /\ rtPc' \in {"array", "stream"} /\ rtPc' = rtPc BY <2>1, <2>2, <2>3
  <3> QED BY <1>3, <1>7, <2>3, <2>4, <2>5, <2>6, <2>7, <3>1, <3>2, <3>3 DEF SplitProgress, Recs
 <2> QED BY <1>2, <2>8
<1> QED BY <1>5, <1>6, <1>7

\* What may stand between the values of an array, and of a stream.
LEMMA TextKinds ==
  ASSUME NEW text, NEW docs, NEW at, NEW open
  PROVE  /\ ArrayText(text, docs, at, open) => /\ Layout(text, docs, at, open, Space \cup {","}) /\ EndsArray(text, docs, at)
                                               /\ \A c \in Space \cup {","} : Filler(c)
         /\ StreamText(text, docs, at, open) => /\ Layout(text, docs, at, open, Space) /\ EndsArray(text, docs, at)
                                                /\ \A c \in Space : Filler(c)
<1>1. /\ \A c \in Space \cup {","} : Filler(c)
      /\ \A c \in Space : Filler(c) BY DEF Filler, Space
<1>2. ArrayText(text, docs, at, open) => Layout(text, docs, at, open, Space \cup {","}) /\ EndsArray(text, docs, at)
  BY DEF ArrayText, EndsArray
<1>3. StreamText(text, docs, at, open) => Layout(text, docs, at, open, Space) /\ EndsArray(text, docs, at)
 <2>1. SUFFICES ASSUME StreamText(text, docs, at, open) PROVE Layout(text, docs, at, open, Space) /\ EndsArray(text, docs, at)
   OBVIOUS
 <2>2. Layout(text, docs, at, open, Space) /\ at[Len(docs) + 1] = Len(text) BY <2>1 DEF StreamText
 <2>3. Len(text) \in Nat BY <2>2 DEF Layout
 <2> QED BY <2>2, <2>3 DEF EndsArray
<1> QED BY <1>1, <1>2, <1>3

\* One value of a stream, or its end.
LEMMA SplitStreamStep ==
  ASSUME NEW text, NEW docs, NEW at, NEW open, SplitInv(text, docs, at, open), SplitStream
  PROVE  SplitInv(text, docs, at, open)'
<1> USE DEF SplitInv
<1> DEFINE i == SkipSpace(rtI)
           m == Len(rtDocs)
<1>1. /\ rtPc = "stream" /\ UNCHANGED <<rtCfg, rtData>>
      /\ IF i >= Size THEN rtPc' = "done" /\ UNCHANGED <<rtI, rtDocs>> ELSE SplitValue(i) BY DEF SplitStream
<1>2. StreamText(text, docs, at, open) /\ rtCfg.whole /\ Between(docs, at, open) BY <1>1 DEF SplitProgress
<1>3. Layout(text, docs, at, open, Space) /\ EndsArray(text, docs, at) /\ \A c \in Space : Filler(c) BY <1>2, TextKinds
<1>4. rtI \in Nat /\ m \in Nat /\ m <= Len(docs) /\ Len(docs) \in Nat
 <2>1. rtI \in Nat /\ m \in Nat BY DEF SplitProgress
 <2>2. m <= Len(docs) BY <1>2 DEF Between
 <2>3. docs \in Seq(Seq(Bytes)) BY <1>3 DEF Layout
 <2> QED BY ONLY <2>1, <2>2, <2>3
<1>5. Size \in Nat /\ Size = Len(text) /\ Size = at[Len(docs) + 1] BY <1>2, DataFacts DEF TextIs, StreamText
<1>6. /\ i \in rtI..Size /\ i <= at[m + 1] /\ at[m + 1] \in Nat
      /\ i < Size /\ i < at[m + 1] => Comma(Space) BY <1>2, <1>3, <1>4, NextToken
<1>7. ~Comma(Space) BY DEF Space, Comma
<1> HIDE DEF i
<1>8. CASE i >= Size
 <2>1. m = Len(docs)
  <3>1. SUFFICES ASSUME m < Len(docs) PROVE FALSE BY <1>4
  <3>2. /\ m + 1 \in 1..Len(docs) BY <1>4, <3>1
  <3>3. /\ Len(docs[m + 1]) \in Nat \ {0} /\ at[m + 1] \in Nat /\ at[m + 1 + 1] \in Nat /\ at[m + 1 + 1] <= Len(text)
        /\ at[m + 1] + Len(docs[m + 1]) <= at[m + 1 + 1] BY <1>3, <3>2, ValuePlace
  <3> QED BY <1>5, <1>6, <1>8, <3>3
 <2>2. rtPc' = "done" /\ UNCHANGED <<rtI, rtDocs>> BY <1>1, <1>8
 <2>3. \A k \in 1..Len(docs) : rtDocs[k].doc = docs[k] BY <1>2, <2>1 DEF Between
 <2>4. SplitProgress(text, docs, at, open)' BY <1>1, <1>2, <2>1, <2>2, <2>3 DEF SplitProgress
 <2> QED BY <1>1, <2>4, TextStays
<1>9. CASE i < Size
 <2>1. i = at[m + 1] BY <1>4, <1>5, <1>6, <1>7, <1>9
 <2>2. m < Len(docs)
  <3>1. m = Len(docs) => at[m + 1] = Size BY <1>5
  <3> QED BY <1>4, <1>5, <1>6, <1>9, <2>1, <3>1
 <2>3. SplitValue(i) BY <1>1, <1>5, <1>6, <1>9
 <2> QED BY <1>1, <1>2, <1>3, <1>9, <2>1, <2>2, <2>3, SplitValueStep
<1> QED BY <1>4, <1>5, <1>6, <1>8, <1>9

\* One element of an array, a comma, its end, or the end of a file that is cut off.
LEMMA SplitElementStep ==
  ASSUME NEW text, NEW docs, NEW at, NEW open, SplitInv(text, docs, at, open), SplitElement
  PROVE  SplitInv(text, docs, at, open)'
<1> USE DEF SplitInv
<1> DEFINE i == SkipSpace(rtI)
           m == Len(rtDocs)
<1>1. /\ rtPc = "array" /\ UNCHANGED <<rtCfg, rtData>>
      /\ IF i >= Size THEN ArrayEnd
         ELSE IF IsEnd(Byte(i)) THEN rtPc' = "done" /\ UNCHANGED <<rtI, rtDocs>>
         ELSE IF IsComma(Byte(i)) THEN rtI' = i + 1 /\ UNCHANGED <<rtPc, rtDocs>>
         ELSE SplitValue(i) BY DEF SplitElement, IsEnd, IsComma
<1>2. ArrayText(text, docs, at, open) /\ (Between(docs, at, open) \/ (~rtCfg.whole /\ rtI = Size))
  BY <1>1 DEF SplitProgress
<1> DEFINE between == Space \cup {","}
<1>3. Layout(text, docs, at, open, between) /\ EndsArray(text, docs, at) /\ \A c \in between : Filler(c)
  BY <1>2, TextKinds
<1> HIDE DEF between
<1>4. rtI \in Nat /\ m \in Nat /\ Len(docs) \in Nat /\ Size \in Nat /\ Size' = Size /\ rtCfg' = rtCfg
 <2>1. rtI \in Nat /\ m \in Nat BY DEF SplitProgress
 <2>2. Len(docs) \in Nat BY <1>3 DEF Layout
 <2>3. Size \in Nat BY DataFacts DEF TextIs
 <2> QED BY <1>1, <2>1, <2>2, <2>3 DEF Size
<1>5. TextIs(text, docs, at, open)' BY <1>1, TextStays
<1>6. ASSUME rtPc' = "error", UNCHANGED <<rtI, rtDocs>>, ~rtCfg.whole
      PROVE  SplitProgress(text, docs, at, open)' BY <1>1, <1>6 DEF SplitProgress
<1>7. CASE ~Between(docs, at, open)
 <2>1. rtI = Size /\ ~rtCfg.whole BY <1>2, <1>7
 <2>2. i = Size
  <3>1. rtI \in 0..Size /\ DataOK BY <1>4, <2>1 DEF TextIs
  <3>2. i \in rtI..Size BY <3>1, SkipSpaceFacts
  <3> HIDE DEF i
  <3> QED BY <1>4, <2>1, <3>2
 <2>3. i >= Size BY <1>4, <2>2
 <2> QED BY <1>1, <1>5, <1>6, <2>1, <2>3 DEF ArrayEnd
<1>8. CASE Between(docs, at, open)
 <2>1. m <= Len(docs) BY <1>8 DEF Between
 <2>2. i \in rtI..Size /\ i <= at[m + 1] /\ at[m + 1] \in Nat BY <1>3, <1>4, <1>8, NextToken
 <2>20. /\ i < Size /\ i < at[m + 1] => IsComma(Byte(i))
        /\ i < Size /\ i = at[m + 1] /\ m < Len(docs) => ~Delim(Byte(i))
        /\ i < Size /\ i = at[m + 1] /\ m = Len(docs) => IsEnd(Byte(i))
   BY <1>3, <1>4, <1>8, NextToken DEF IsComma, IsEnd
 <2>3. Size <= Len(text) /\ Len(text) \in Nat /\ at[Len(docs) + 1] < Len(text) /\ (rtCfg.whole => Size = Len(text))
  <3>1. at[Len(docs) + 1] < Len(text) BY <1>2 DEF ArrayText
  <3>2. Len(text) \in Nat BY <1>3 DEF Layout
  <3> QED BY <3>1, <3>2 DEF TextIs
 <2> HIDE DEF i
 <2>5. m < Len(docs) => m + 1 \in 1..Len(docs) /\ at[m + 1] < Len(text)
  <3>1. SUFFICES ASSUME m < Len(docs) PROVE m + 1 \in 1..Len(docs) /\ at[m + 1] < Len(text) OBVIOUS
  <3>2. m + 1 \in 1..Len(docs) BY <1>4, <3>1
  <3>3. /\ Len(docs[m + 1]) \in Nat \ {0} /\ at[m + 1] \in Nat /\ at[m + 1 + 1] \in Nat /\ at[m + 1 + 1] <= Len(text)
        /\ at[m + 1] + Len(docs[m + 1]) <= at[m + 1 + 1] BY <1>3, <3>2, ValuePlace
  <3> QED BY <2>3, <3>2, <3>3
 <2>6. CASE i >= Size
  <3>1. at[m + 1] < Len(text) BY <1>4, <2>1, <2>3, <2>5
  <3>2. ~rtCfg.whole BY <1>4, <2>2, <2>3, <2>6, <3>1
  <3> QED BY <1>1, <1>5, <1>6, <2>6, <3>2 DEF ArrayEnd
 <2>7. CASE i < Size /\ IsEnd(Byte(i))
  <3>1. ~(i >= Size) BY <1>4, <2>2, <2>7
  <3>2. Delim(Byte(i)) /\ ~IsComma(Byte(i)) BY <2>7 DEF Delim, IsEnd, IsComma
  <3>3. i = at[m + 1] /\ m = Len(docs) BY <1>4, <2>1, <2>2, <2>20, <2>7, <3>2
  <3>4. rtPc' = "done" /\ UNCHANGED <<rtI, rtDocs>> BY <1>1, <2>7, <3>1
  <3>5. rtCfg.whole
   <4>1. ~rtCfg.whole => Size <= at[Len(docs) + 1]
    <5>1. ~rtCfg.whole => Size \in 1..at[Len(docs) + 1] BY DEF TextIs
    <5> QED BY <2>2, <3>3, <5>1
   <4> QED BY <1>4, <2>2, <2>7, <3>3, <4>1
  <3>6. \A k \in 1..Len(docs) : rtDocs[k].doc = docs[k] BY <1>8, <3>3 DEF Between
  <3>7. SplitProgress(text, docs, at, open)' BY <1>4, <3>3, <3>4, <3>5, <3>6 DEF SplitProgress
  <3> QED BY <1>5, <3>7
 <2>8. CASE i < Size /\ IsComma(Byte(i))
  <3>2. Delim(Byte(i)) /\ ~IsEnd(Byte(i)) BY <2>8 DEF Delim, IsEnd, IsComma
  <3>1. ~(i >= Size) /\ ~IsEnd(Byte(i)) BY <1>4, <2>2, <2>8, <3>2
  <3>3. i < at[m + 1]
   <4>1. SUFFICES ASSUME i = at[m + 1] PROVE FALSE BY <1>4, <2>2
   <4> QED BY <1>4, <2>1, <2>2, <2>20, <2>8, <3>2, <4>1
  <3>4. rtI' = i + 1 /\ UNCHANGED <<rtPc, rtDocs>> BY <1>1, <2>8, <3>1
  <3>5. rtI <= rtI' /\ rtI' <= at[m + 1] /\ rtI' <= Size /\ rtI' \in Nat BY <1>4, <2>2, <2>8, <3>3, <3>4
  <3>6. Between(docs, at, open)'
   <4>1. EndOf(docs, at, open, m) <= rtI /\ EndOf(docs, at, open, m) \in Nat
    <5>1. EndOf(docs, at, open, m) <= rtI BY <1>8 DEF Between
    <5>2. CASE m = 0 BY <1>3, <5>1, <5>2 DEF EndOf, Layout
    <5>3. CASE m # 0
     <6>1. m \in 1..Len(docs) BY <1>4, <2>1, <5>3
     <6> QED BY <1>3, <5>1, <6>1, ValuePlace
    <5> QED BY <5>2, <5>3
   <4>2. EndOf(docs, at, open, m) <= rtI' BY <1>4, <3>5, <4>1
   <4> QED BY <1>4, <1>8, <3>4, <3>5, <4>2 DEF Between
  <3>7. SplitProgress(text, docs, at, open)' BY <1>1, <1>2, <1>4, <3>4, <3>5, <3>6 DEF SplitProgress
  <3> QED BY <1>5, <3>7
 <2>9. CASE i < Size /\ ~IsEnd(Byte(i)) /\ ~IsComma(Byte(i))
  <3>1. ~(i >= Size) BY <1>4, <2>2, <2>9
  <3>2. SplitValue(i) BY <1>1, <2>9, <3>1
  <3>3. i = at[m + 1] /\ m < Len(docs) BY <1>4, <2>1, <2>2, <2>20, <2>9
  <3> QED BY <1>1, <1>3, <1>8, <2>9, <3>2, <3>3, SplitValueStep
 <2> QED BY <1>4, <2>2, <2>6, <2>7, <2>8, <2>9
<1> QED BY <1>7, <1>8

\* What an array begins with: white space and its bracket, if the file goes that far.
LEMMA ArrayBegins ==
  ASSUME NEW text, NEW docs, NEW at, NEW open, TextIs(text, docs, at, open), ArrayText(text, docs, at, open)
  PROVE  /\ open \in Nat \ {0} /\ Size \in Nat /\ open <= at[1] /\ at[1] \in Nat /\ (rtCfg.whole => at[1] < Size)
         /\ SkipSpace(0) = Size \/ SkipSpace(0) = open - 1
         /\ open <= Size => Byte(open - 1) = "[" /\ SkipSpace(0) = open - 1
         /\ SkipSpace(0) = Size => (~rtCfg.whole /\ rtData[1] # "[")
<1> DEFINE i == SkipSpace(0)
<1>1. Size \in Nat /\ DataOK /\ Size <= Len(text) /\ \A j \in 1..Size : rtData[j] = text[j] BY DataFacts DEF TextIs
<1>2. /\ open \in Nat \ {0} /\ text[open] = "[" /\ \A j \in 1..(open - 1) : text[j] \in Space
      /\ Len(text) \in Nat /\ Len(docs) \in Nat /\ at \in [1..(Len(docs) + 1) -> 0..Len(text)]
      /\ EndOf(docs, at, open, 0) <= at[0 + 1] /\ at[Len(docs) + 1] < Len(text)
 <2> DEFINE between == Space \cup {","}
 <2>1. Layout(text, docs, at, open, between) BY DEF ArrayText
 <2> HIDE DEF between
 <2>2. /\ Len(text) \in Nat /\ Len(docs) \in Nat /\ at \in [1..(Len(docs) + 1) -> 0..Len(text)] /\ open \in Nat
   BY <2>1 DEF Layout
 <2>3. 0 \in 0..Len(docs) BY <2>2
 <2>4. EndOf(docs, at, open, 0) <= at[0 + 1] BY <2>1, <2>3 DEF Layout
 <2>5. open > 0 /\ text[open] = "[" /\ (\A j \in 1..(open - 1) : text[j] \in Space) /\ at[Len(docs) + 1] < Len(text)
   BY DEF ArrayText
 <2> QED BY <2>2, <2>4, <2>5
<1>3. at[1] \in Nat /\ open <= at[1] /\ at[1] < Len(text)
 <2>1. 1 \in 1..(Len(docs) + 1) /\ 0 + 1 = 1 BY <1>2
 <2>2. at[1] \in 0..Len(text) /\ open <= at[1] BY <1>2, <2>1 DEF EndOf
 <2>3. CASE Len(docs) = 0 BY <1>2, <2>2, <2>3
 <2>4. CASE Len(docs) # 0
  <3>1. 1 \in 1..Len(docs) BY <1>2, <2>4
  <3> DEFINE between == Space \cup {","}
  <3>2. Layout(text, docs, at, open, between) BY DEF ArrayText
  <3> HIDE DEF between
  <3>3. /\ Len(docs[1]) \in Nat \ {0} /\ at[1 + 1] \in Nat /\ at[1 + 1] <= Len(text)
        /\ at[1] + Len(docs[1]) <= at[1 + 1] /\ at[1] \in Nat BY <3>1, <3>2, ValuePlace
  <3> QED BY <1>2, <2>2, <3>3
 <2> QED BY <2>3, <2>4
<1>4. i \in 0..Size /\ (\A k \in 0..(i - 1) : Byte(k) \in Space) /\ (i = Size \/ Byte(i) \notin Space)
 <2>1. 0 \in 0..Size BY <1>1
 <2> QED BY <1>1, <2>1, SkipSpaceFacts
<1> HIDE DEF i
<1>5. \A j \in 0..(Size - 1) : Byte(j) = text[j + 1]
 <2>1. \A j \in 0..(Size - 1) : j + 1 \in 1..Size BY <1>1
 <2> QED BY <1>1, <2>1 DEF Byte
<1>6. \A j \in 0..(open - 2) : j < Size => Byte(j) \in Space
 <2>1. \A j \in 0..(open - 2) : j + 1 \in 1..(open - 1) /\ (j < Size => j \in 0..(Size - 1)) BY <1>1, <1>2
 <2> QED BY <1>2, <1>5, <2>1
<1>7. i < Size => i >= open - 1
 <2>1. SUFFICES ASSUME i < Size, i < open - 1 PROVE FALSE BY <1>1, <1>2, <1>4
 <2>2. i \in 0..(open - 2) BY <1>2, <1>4, <2>1
 <2> QED BY <1>1, <1>4, <1>6, <2>1, <2>2
<1>8. open <= Size => Byte(open - 1) = "[" /\ Byte(open - 1) \notin Space
 <2>1. SUFFICES ASSUME open <= Size PROVE Byte(open - 1) = "[" /\ Byte(open - 1) \notin Space OBVIOUS
 <2>2. open - 1 \in 0..(Size - 1) /\ (open - 1) + 1 = open BY <1>1, <1>2, <2>1
 <2>3. Byte(open - 1) = text[open] BY <1>5, <2>2
 <2> QED BY <1>2, <2>3 DEF Space
<1>9. open <= Size => i <= open - 1
 <2>1. SUFFICES ASSUME open <= Size, open - 1 < i PROVE FALSE BY <1>1, <1>2, <1>4
 <2>2. open - 1 \in 0..(i - 1) BY <1>2, <1>4, <2>1
 <2> QED BY <1>4, <1>8, <2>1, <2>2
<1>10. open <= Size => i = open - 1
 <2>1. SUFFICES ASSUME open <= Size PROVE i = open - 1 OBVIOUS
 <2>2. i <= open - 1 /\ i < Size BY <1>1, <1>2, <1>4, <1>9, <2>1
 <2> QED BY <1>1, <1>2, <1>4, <1>7, <2>2
<1>11. i = Size \/ i = open - 1
 <2>1. SUFFICES ASSUME i < Size PROVE i = open - 1 BY <1>1, <1>4
 <2>2. open - 1 <= i BY <1>1, <1>2, <1>4, <1>7, <2>1
 <2>3. open <= Size BY <1>1, <1>2, <1>4, <2>1, <2>2
 <2> QED BY <1>10, <2>3
<1>12. rtCfg.whole => at[1] < Size BY <1>3 DEF TextIs
<1>13. i = Size => ~rtCfg.whole /\ rtData[1] # "["
 <2>1. SUFFICES ASSUME i = Size PROVE ~rtCfg.whole /\ rtData[1] # "[" OBVIOUS
 <2>2. ~(open <= Size)
  <3>1. SUFFICES ASSUME open <= Size PROVE FALSE OBVIOUS
  <3> QED BY <1>1, <1>2, <1>10, <2>1, <3>1
 <2>3. ~rtCfg.whole BY <1>1, <1>2, <1>3, <1>12, <2>2
 <2>4. Size >= 1
  <3>1. Size \in 1..at[Len(docs) + 1] BY <2>3 DEF TextIs
  <3> QED BY <1>1, <3>1
 <2>5. 0 \in 0..(i - 1) /\ Byte(0) = rtData[1] BY <1>1, <2>1, <2>4 DEF Byte
 <2>6. rtData[1] \in Space BY <1>4, <2>5
 <2> QED BY <2>3, <2>6 DEF Space
<1> QED BY <1>1, <1>2, <1>3, <1>8, <1>10, <1>11, <1>12, <1>13 DEF i

\* An array is told from a stream by its first byte that is not white space.
LEMMA SplitStartStep ==
  ASSUME NEW text, NEW docs, NEW at, NEW open, SplitInv(text, docs, at, open), SplitStart
  PROVE  SplitInv(text, docs, at, open)'
<1> USE DEF SplitInv
<1> DEFINE i == SkipSpace(0)
           IsOpen(c) == c = "["
<1>1. /\ rtPc = "start" /\ rtI = 0 /\ rtDocs = <<>> /\ UNCHANGED <<rtCfg, rtData, rtDocs>> /\ Size' = Size
      /\ IF i >= Size THEN rtPc' = "done" /\ rtI' = i
         ELSE IF IsOpen(Byte(i)) THEN rtPc' = "array" /\ rtI' = i + 1
         ELSE rtPc' = "stream" /\ rtI' = i BY DEF SplitStart, SplitProgress, Size
<1>2. Size \in Nat /\ DataOK BY DataFacts DEF TextIs
<1>3. TextIs(text, docs, at, open)' BY <1>1, TextStays
<1>4. Len(rtDocs) = 0 /\ EndOf(docs, at, open, 0) = open BY <1>1 DEF EndOf
<1>5. CASE ArrayText(text, docs, at, open)
 <2>1. /\ open \in Nat \ {0} /\ open <= at[1] /\ at[1] \in Nat
       /\ i = Size \/ i = open - 1
       /\ open <= Size => IsOpen(Byte(open - 1)) /\ i = open - 1
       /\ i = Size => (~rtCfg.whole /\ rtData[1] # "[") BY <1>5, ArrayBegins
 <2> HIDE DEF i, IsOpen
 <2>2. CASE i = Size
  <3>1. rtPc' = "done" /\ rtI' = Size BY <1>1, <1>2, <2>2
  <3> QED BY <1>1, <1>2, <1>3, <2>1, <2>2, <3>1 DEF SplitProgress
 <2>3. CASE i # Size
  <3>1. i = open - 1 BY <2>1, <2>3
  <3>2. i \in 0..Size
   <4>1. 0 \in 0..Size BY <1>2
   <4> QED BY <1>2, <4>1, SkipSpaceFacts DEF i
  <3>3. open <= Size BY <1>2, <2>1, <2>3, <3>1, <3>2
  <3>4. ~(i >= Size) /\ IsOpen(Byte(i)) /\ i + 1 = open BY <1>2, <2>1, <2>3, <3>1, <3>2, <3>3
  <3>5. rtPc' = "array" /\ rtI' = open BY <1>1, <3>4
  <3> DEFINE between == Space \cup {","}
  <3>8. Layout(text, docs, at, open, between) BY <1>5 DEF ArrayText
  <3> HIDE DEF between
  <3>6. Len(docs) \in Nat /\ open <= at[0 + 1] BY <2>1, <3>8 DEF Layout
  <3>7. Between(docs, at, open)' BY <1>1, <1>4, <2>1, <3>3, <3>5, <3>6 DEF Between
  <3> QED BY <1>1, <1>3, <1>5, <2>1, <3>5, <3>7 DEF SplitProgress
 <2> QED BY <2>2, <2>3
<1>6. CASE ~ArrayText(text, docs, at, open)
 <2>1. StreamText(text, docs, at, open) /\ rtCfg.whole /\ Size = Len(text) BY <1>6 DEF TextIs
 <2>2. /\ Layout(text, docs, at, open, Space) /\ open = 0 /\ (docs # <<>> => ~IsOpen(docs[1][1])) /\ at[Len(docs) + 1] = Len(text)
   BY <2>1 DEF StreamText
 <2>3. Len(docs) \in Nat /\ 0 \in 0..Len(docs) BY <2>2 DEF Layout
 <2>4. EndOf(docs, at, open, 0) <= at[0 + 1] BY <2>2, <2>3 DEF Layout
 <2>5. Between(docs, at, open) BY <1>1, <1>2, <1>4, <2>2, <2>3, <2>4 DEF Between
 <2>6. EndsArray(text, docs, at) /\ \A c \in Space : Filler(c) BY <2>1, TextKinds
 <2>7. /\ i \in 0..Size /\ i <= at[1] /\ at[1] \in Nat
       /\ i < Size /\ i < at[1] => Comma(Space)
       /\ i < Size /\ i = at[1] /\ 0 < Len(docs) => Byte(i) = docs[1][1]
  <3> DEFINE space == Space
             m == Len(rtDocs)
             k == SkipSpace(rtI)
  <3>1. /\ \A c \in space : Filler(c)
        /\ TextIs(text, docs, at, open) /\ Layout(text, docs, at, open, space)
        /\ EndsArray(text, docs, at) /\ rtI \in Nat /\ m \in Nat /\ Between(docs, at, open)
    BY <1>1, <1>4, <2>2, <2>5, <2>6
  <3>2. m = 0 /\ rtI = 0 /\ i = k BY <1>1, <1>4
  <3> HIDE DEF i, space
  <3>3. /\ k \in rtI..Size /\ k <= at[m + 1] /\ at[m + 1] \in Nat
        /\ k < Size /\ k < at[m + 1] => Byte(k) = "," /\ Comma(space)
        /\ k < Size /\ k = at[m + 1] /\ m < Len(docs) => Byte(k) = docs[m + 1][1] /\ ~Delim(Byte(k))
        /\ k < Size /\ k = at[m + 1] /\ m = Len(docs) => Byte(k) = "]" BY ONLY <3>1, NextToken
  <3> HIDE DEF m, k
  <3>4. m + 1 = 1 BY <3>2
  <3> QED BY ONLY <3>2, <3>3, <3>4 DEF space
 <2>9. ~Comma(Space) BY DEF Comma, Space
 <2> HIDE DEF i, IsOpen
 <2>10. CASE i >= Size
  <3>1. rtPc' = "done" BY <1>1, <2>10
  <3>2. Len(docs) = 0
   <4>1. SUFFICES ASSUME Len(docs) # 0 PROVE FALSE OBVIOUS
   <4>2. 1 \in 1..Len(docs) BY <2>3, <4>1
   <4>3. /\ Len(docs[1]) \in Nat \ {0} /\ at[1 + 1] \in Nat /\ at[1 + 1] <= Len(text)
         /\ at[1] + Len(docs[1]) <= at[1 + 1] /\ at[1] \in Nat BY <2>2, <4>2, ValuePlace
   <4> QED BY <1>2, <2>1, <2>7, <2>10, <4>3
  <3>3. rtI' \in Nat BY <1>1, <2>7, <2>10
  <3> QED BY <1>1, <1>3, <1>4, <2>1, <3>1, <3>2, <3>3 DEF SplitProgress
 <2>11. CASE i < Size
  <3>1. i = at[1] /\ ~(i >= Size) BY <1>2, <2>7, <2>9, <2>11
  <3>2. Len(docs) > 0
   <4>1. Len(docs) = 0 => at[0 + 1] = Size BY <2>1, <2>2
   <4> QED BY <1>2, <2>3, <2>7, <2>11, <3>1, <4>1
  <3>3. docs # <<>> /\ Byte(i) = docs[1][1] BY <2>7, <2>11, <3>1, <3>2
  <3>4. ~IsOpen(Byte(i)) BY <2>2, <3>3
  <3>5. rtPc' = "stream" /\ rtI' = i BY <1>1, <3>1, <3>4
  <3>6. Between(docs, at, open)'
   <4>1. Len(rtDocs') = 0 /\ 0 <= Len(docs) /\ 0 + 1 = 1 BY <1>1, <2>3
   <4>2. rtI' <= at[1] /\ rtI' <= Size' /\ EndOf(docs, at, open, 0) <= rtI'
     BY <1>1, <1>2, <1>4, <2>2, <2>7, <3>1, <3>5
   <4> QED BY <4>1, <4>2 DEF Between
  <3>7. rtI' \in Nat BY <2>7, <3>5
  <3> QED BY <1>1, <1>3, <2>1, <3>5, <3>6, <3>7 DEF SplitProgress
 <2> QED BY <1>2, <2>7, <2>10, <2>11
<1> QED BY <1>5, <1>6

\* Before the splitting begins, the file is the text it was written as, or a part of it.
LEMMA SplitStarts ==
  ASSUME NEW Cfgs, \A c \in Cfgs : c.fmt = "json" => JsonConfig(c), RtInit(Cfgs), rtCfg.fmt = "json"
  PROVE  \E text, docs, at, open : SplitInv(text, docs, at, open)
<1>1. /\ JsonConfig(rtCfg) /\ rtData = rtCfg.data /\ rtData \in Seq(Bytes)
      /\ rtI = 0 /\ rtDocs = <<>> /\ rtPc = "start" BY DEF RtInit, JsonConfig
<1>2. Size \in Nat /\ DataOK BY <1>1 DEF DataOK, Size
<1>3. \A text, docs, at, open : SplitProgress(text, docs, at, open) BY <1>1 DEF SplitProgress
<1>4. ASSUME NEW docs, NEW at, NEW open, WholeSource(rtCfg, docs, at, open)
      PROVE  TextIs(rtData, docs, at, open) BY <1>1, <1>2, <1>4 DEF TextIs, WholeSource, Size
<1>5. ASSUME NEW text, NEW docs, NEW at, NEW open, CutText(rtCfg, text, docs, at, open)
      PROVE  TextIs(text, docs, at, open)
 <2> DEFINE between == Space \cup {","}
 <2>1. Layout(text, docs, at, open, between) /\ at[Len(docs) + 1] < Len(text) BY <1>5 DEF CutText, ArrayText
 <2> HIDE DEF between
 <2>2. Len(docs) \in Nat /\ Len(text) \in Nat /\ at \in [1..(Len(docs) + 1) -> 0..Len(text)] BY <2>1 DEF Layout
 <2>3. Len(docs) + 1 \in 1..(Len(docs) + 1) BY <2>2
 <2>4. at[Len(docs) + 1] \in Nat BY <2>2, <2>3
 <2>5. ~rtCfg.whole /\ ArrayText(text, docs, at, open) /\ Size \in 1..at[Len(docs) + 1] /\ \A j \in 1..Size : rtData[j] = text[j]
   BY <1>1, <1>5 DEF CutText, Size
 <2>6. Size <= Len(text) BY <1>2, <2>1, <2>2, <2>4, <2>5
 <2> QED BY <1>1, <1>2, <2>5, <2>6 DEF TextIs
<1> QED BY <1>1, <1>3, <1>4, <1>5 DEF JsonConfig, SplitInv

\* Each step of the splitting keeps the invariant.
LEMMA SplitStep ==
  ASSUME NEW text, NEW docs, NEW at, NEW open, SplitInv(text, docs, at, open), [RtNext]_rtVars
  PROVE  SplitInv(text, docs, at, open)'
<1>1. CASE SplitStart BY <1>1, SplitStartStep
<1>2. CASE SplitElement BY <1>2, SplitElementStep
<1>3. CASE SplitStream BY <1>3, SplitStreamStep
<1>4. CASE Refill \/ SplitLine \/ AppendLine BY <1>4 DEF SplitInv, TextIs, SplitProgress, Refill, SplitLine, AppendLine
<1>5. CASE UNCHANGED rtVars BY <1>5 DEF SplitInv, TextIs, SplitProgress, Between, DataOK, Size, rtVars
<1> QED BY <1>1, <1>2, <1>3, <1>4, <1>5 DEF RtNext

\* At the end, the values that were found are those that were written.
LEMMA SplitInvImplies ==
  ASSUME NEW text, NEW docs, NEW at, NEW open, SplitInv(text, docs, at, open)
  PROVE  SplitExact /\ SplitAdvances
<1>1. SplitAdvances BY DEF SplitAdvances, SplitInv, SplitProgress
<1>2. docs = [k \in 1..Len(docs) |-> docs[k]] /\ Len(docs) \in Nat
 <2>1. docs \in Seq(Seq(Bytes)) BY DEF SplitInv, TextIs, ArrayText, StreamText, Layout
 <2> QED BY <2>1
<1>3. ASSUME rtPc = "done" \/ rtPc = "error"
      PROVE  IF rtCfg.whole THEN rtPc = "done" /\ [k \in 1..Len(rtDocs) |-> rtDocs[k].doc] = docs /\ docs = rtCfg.docs
             ELSE rtData[1] = "[" => rtPc = "error" BY <1>2, <1>3 DEF SplitInv, TextIs, SplitProgress
<1> QED BY <1>1, <1>3 DEF SplitExact

-----------------------------------------------------------------------------
(* The theorem about RecordSource.                                         *)

\* Whatever may be read: the .jsonl files, and the .json files that were written whole from
\* JSON values or were cut off inside their array.
SourceConfig(c) == (c.fmt = "json" => JsonConfig(c)) /\ (c.fmt = "jsonl" => LineConfig(c))

\* The reading of a file of either format.
ReadingInv ==
  /\ rtCfg.fmt = "json" => \E text, docs, at, open : SplitInv(text, docs, at, open)
  /\ rtCfg.fmt = "jsonl" => LineInv

\* The invariant of the splitting and of the line reader holds of every file.
LEMMA ReadingInvariance ==
  ASSUME NEW Cfgs, \A c \in Cfgs : SourceConfig(c)
  PROVE  RtSpec(Cfgs) => []ReadingInv
<1>1. RtInit(Cfgs) => ReadingInv BY SplitStarts, LineStarts DEF ReadingInv, SourceConfig
<1>2. ReadingInv /\ [RtNext]_rtVars => ReadingInv'
 <2> SUFFICES ASSUME ReadingInv, [RtNext]_rtVars PROVE ReadingInv' OBVIOUS
 <2>1. rtCfg' = rtCfg BY DEF RtNext, SplitStart, SplitElement, SplitStream, Refill, SplitLine, AppendLine, rtVars
 <2>2. ASSUME rtCfg.fmt = "json" PROVE (\E text, docs, at, open : SplitInv(text, docs, at, open))'
  <3>1. PICK text, docs, at, open : SplitInv(text, docs, at, open) BY <2>2 DEF ReadingInv
  <3>2. SplitInv(text, docs, at, open)' BY <3>1, SplitStep
  <3> QED BY <3>2
 <2>3. ASSUME rtCfg.fmt = "jsonl" PROVE LineInv' BY <2>3, LineStep DEF ReadingInv
 <2> QED BY <2>1, <2>2, <2>3 DEF ReadingInv
<1> QED BY <1>1, <1>2, PTL DEF RtSpec

\* A .json file gives exactly the values it was written from, or an error when it was cut
\* off; every line of a .jsonl file with something on it is a record that can be sought
\* again; and a record that a scan lends stays its own while pooled sources change hands
\* (splitJSONValues, jsonlSource.Next, readLineAtInto, walkSource).
THEOREM RecordsAreExact ==
  ASSUME NEW Cfgs, NEW on, \A c \in Cfgs : SourceConfig(c)
  PROVE  RtSpec(Cfgs) /\ SpSpec(on) => []RecordsExact
<1>1. RtSpec(Cfgs) => []ReadingInv BY ReadingInvariance
<1>2. SpSpec(on) => []PoolInv BY PoolInvariance
<1>3. ReadingInv /\ PoolInv => RecordsExact
 <2> SUFFICES ASSUME ReadingInv, PoolInv PROVE RecordsExact OBVIOUS
 <2>1. SplitExact /\ SplitAdvances
  <3>1. CASE rtCfg.fmt = "json" BY <3>1, SplitInvImplies DEF ReadingInv
  <3>2. CASE rtCfg.fmt # "json" BY <3>2 DEF SplitExact, SplitAdvances
  <3> QED BY <3>1, <3>2
 <2>2. SeekFindsRecord /\ LinesExact
  <3>1. CASE rtCfg.fmt = "jsonl" BY <3>1, LineInvImplies DEF ReadingInv
  <3>2. CASE rtCfg.fmt # "jsonl" BY <3>2 DEF SeekFindsRecord, LinesExact
  <3> QED BY <3>1, <3>2
 <2> QED BY <2>1, <2>2, PoolInvImplies DEF RecordsExact
<1> QED BY <1>1, <1>2, <1>3, PTL

-----------------------------------------------------------------------------
(* The files of a keyspace (DatastoreScan).                                *)

Texts == STRING \cup {Blank, "new", "late", "jsonl"}
Damage == {Blank, "open", "read"}
File == [dir : Texts, stem : Texts, fmt : Texts, gz : BOOLEAN, array : BOOLEAN, units : Seq(Texts), bad : Damage]

\* A toml file is one document; a file that breaks while its records are read has one; and
\* "error" stands for an error only.
FileSound(f) ==
  /\ f.fmt = "toml" => Cardinality(Docs(f)) <= 1
  /\ f.bad = "read" => OpensWhole(f) \/ Docs(f) # {}
  /\ \A i \in 1..Len(f.units) : f.units[i] # "error"

\* A file of one document is named by its stem; <key>.json is what a fetch looks for then.
NamedByStem(f) == f.fmt \notin {"jsonl", "csv"} /\ (f.fmt = "toml" \/ Cardinality(Docs(f)) = 1) /\ ~(f.fmt = "yaml" /\ f.array)
KeyJson(f) == f.dir = Blank /\ f.fmt = "json" /\ ~f.gz

FilesConfigOK(c) ==
  /\ DOMAIN c.disk \subseteq Nat \ {0} /\ IsFiniteSet(DOMAIN c.disk)
  /\ c.disk \in [DOMAIN c.disk -> File] /\ (\A f \in DOMAIN c.disk : FileSound(c.disk[f]))
  /\ \A f, g \in DOMAIN c.disk : NamedByStem(c.disk[f]) /\ KeyJson(c.disk[g]) /\ c.disk[f].stem = c.disk[g].stem => f = g
  /\ c.kind \in {"classic", "flat"} /\ c.halt \in BOOLEAN

-----------------------------------------------------------------------------
(* What becomes of the files while the request runs.                       *)

\* b is the file a, to which lines may have been appended, or which may be gone.
Evolved(a, b) ==
  /\ b.dir = a.dir /\ b.stem = a.stem /\ b.fmt = a.fmt /\ b.gz = a.gz /\ b.array = a.array
  /\ Len(a.units) <= Len(b.units) /\ \A i \in 1..Len(a.units) : b.units[i] = a.units[i]
  /\ b.fmt # "jsonl" \/ b.gz => b.units = a.units
  /\ b.bad = a.bad \/ (a.bad = Blank /\ b.bad = "open")

DiskInv ==
  /\ FilesConfigOK(rfCfg)
  /\ DOMAIN rfCfg.disk \subseteq DOMAIN rfDisk /\ DOMAIN rfDisk \subseteq Nat \ {0}
  /\ rfDisk \in [DOMAIN rfDisk -> File] /\ (\A f \in DOMAIN rfDisk : FileSound(rfDisk[f]))
  /\ \A f \in DOMAIN rfDisk : IF f \in DOMAIN rfCfg.disk THEN Evolved(rfCfg.disk[f], rfDisk[f])
                              ELSE rfDisk[f].fmt = "jsonl"
ListInv ==
  /\ rfScans \in Nat
  /\ rfScans = 0 => rfDisk = rfCfg.disk /\ rfPc = "idle"
  /\ rfList = IF rfScans = 0 THEN <<0>> ELSE WalkFiles(rfCfg.disk, rfCfg.opts)

\* A record of a file that is or was there.
Ids == [rel : Nat, stem : Texts, n : Int, off : Int]
Row == [id : Ids, doc : Texts, file : Nat]
Given(disk, r) == \E f \in DOMAIN disk : \E i \in Docs(disk[f]) : r = RecordOf(f, disk[f], i)
AllGiven(disk, rows) == \A k \in 1..Len(rows) : Given(disk, rows[k])
RowsInv ==
  /\ rfPc \in {"idle", "open", "next", "fetch", "hits", "error"}
  /\ rfRows \in Seq(Row) /\ rfCur \in Seq(Row) /\ rfKeys \in Seq(Row)
  /\ AllGiven(rfDisk, rfRows) /\ AllGiven(rfDisk, rfCur) /\ AllGiven(rfDisk, rfKeys)

-----------------------------------------------------------------------------
\* The rows of a file among these: all it had, one after another, or none and a warning.
RowsIn(rows, f) == {k \in 1..Len(rows) : rows[k].file = f}
Settled(rows, warned, all, f) ==
  \/ RowsIn(rows, f) = {} /\ f \in warned
  \/ \E from \in 0..Len(rows) : \E n \in Len(all)..Len(rows) :
       RowsIn(rows, f) = (from + 1)..(from + n) /\ \A k \in 1..Len(all) : rows[from + k] = all[k]

\* Of the file that is open, these rows were given, from a place on, and those are to come.
ReadOn(rows, cur, whole, all, f, from) ==
  LET n == Len(rows) - from
  IN  /\ RowsIn(rows, f) = (from + 1)..Len(rows)
      /\ \A k \in 1..Len(cur) : cur[k].file = f
      /\ whole => /\ Len(all) <= n + Len(cur)
                  /\ \A k \in 1..Len(all) : all[k] = IF k <= n THEN rows[from + k] ELSE cur[k - n]

WasOf(cfg, f) == Records(f, cfg.disk[f])
Whole(disk, f) == f \in DOMAIN disk /\ disk[f].bad # "read"

ScanInv ==
  /\ rfPc \in {"open", "next"} =>
       /\ rfAt \in 1..(Len(rfList) + 1)
       /\ \A j \in 1..(rfAt - 1) : Settled(rfRows, rfWarned, WasOf(rfCfg, rfList[j]), rfList[j])
       /\ \A k \in 1..Len(rfRows) : \E j \in 1..Len(rfList) : rfRows[k].file = rfList[j] /\ (j < rfAt \/ (j = rfAt /\ rfPc = "next"))
  /\ rfPc = "next" =>
       /\ rfAt <= Len(rfList)
       /\ \E from \in 0..Len(rfRows) : ReadOn(rfRows, rfCur, Whole(rfDisk, rfList[rfAt]), WasOf(rfCfg, rfList[rfAt]), rfList[rfAt], from)
  /\ rfPc = "fetch" => \A j \in 1..Len(rfList) : Settled(rfRows, rfWarned, WasOf(rfCfg, rfList[j]), rfList[j])

-----------------------------------------------------------------------------
\* The document is what a fetch of the id would find, while the file is there.
KeyFiles(disk, id) == {f \in DOMAIN disk : KeyJson(disk[f]) /\ disk[f].stem = id.stem}
Found(disk, kind, id, doc) ==
  \/ /\ id.off # -1 /\ id.rel \in DOMAIN disk
     /\ id.off \in 0..(Len(disk[id.rel].units) - 1) /\ doc = disk[id.rel].units[id.off + 1]
  \/ /\ id.off = -1 /\ id.n = -1 /\ kind = "classic"
     /\ \E f \in KeyFiles(disk, id) : doc = WholeText(disk[f])
CacheInv ==
  /\ \A e \in rfCache : Found(rfDisk, rfCfg.kind, e.id, e.doc)
  /\ IsFiniteSet(rfCache) /\ Cardinality(rfCache) <= RfCacheMax
GotInv == \A g \in rfGot : g.file \in DOMAIN rfDisk


-----------------------------------------------------------------------------
(* An index drain.                                                         *)

DrainSpan == [kind : {"range", "error", "empty"}, entries : Seq(Nat)]
DrainConfigOK(c) == c.spans \in Seq(DrainSpan)

NoRepeat(s) == \A i, j \in 1..Len(s) : s[i] = s[j] => i = j
\* The first n entries of a span were sent.
Sent(c, seen, k, n) == c.spans[k].kind = "range" => \A j \in 1..n : c.spans[k].entries[j] \in seen
DrainInv ==
  /\ DrainConfigOK(idCfg)
  /\ idSpan \in 1..(Len(idCfg.spans) + 1) /\ idAt \in Nat \ {0} /\ idClosed \in {0, 1}
  /\ idClosed = 1 => idSpan = Len(idCfg.spans) + 1 \/ idCfg.spans = <<>>
  /\ idPc = "drain" =>
      /\ ~idStopped /\ idOut \in Seq(Nat) /\ idQueue \in Seq(Nat)
      /\ NoRepeat(idOut) /\ NoRepeat(idQueue) /\ ToSet(idOut) \cap ToSet(idQueue) = {} /\ idSeen = ToSet(idOut) \cup ToSet(idQueue)
      /\ \A k \in 1..(idSpan - 1) : Sent(idCfg, idSeen, k, Len(idCfg.spans[k].entries))
      /\ idSpan <= Len(idCfg.spans) => Sent(idCfg, idSeen, idSpan, idAt - 1) /\ (idCfg.spans[idSpan].kind = "range" => idAt <= Len(idCfg.spans[idSpan].entries) + 1)
      /\ idSeen \subseteq AllEntries
  /\ idPc = "done" => idClosed = 1 /\ DrainComplete

-----------------------------------------------------------------------------
(* Sets of numbers in order.                                               *)

Below(S, x) == {y \in S : y < x}

\* A number is told by how many of the set are below it.
LEMMA BelowFacts ==
  ASSUME NEW S \in SUBSET Nat, IsFiniteSet(S), NEW x \in S
  PROVE  /\ Cardinality(Below(S, x)) \in 0..(Cardinality(S) - 1)
         /\ \A y \in S : x < y => Cardinality(Below(S, x)) < Cardinality(Below(S, y))
<1>1. IsFiniteSet(S \ {x}) /\ Cardinality(S \ {x}) = Cardinality(S) - 1 /\ Cardinality(S) \in Nat
  BY FS_RemoveElement, FS_CardinalityType
<1>2. \A y \in S : IsFiniteSet(Below(S, y)) /\ Cardinality(Below(S, y)) \in Nat
 <2>1. \A y \in S : Below(S, y) \in SUBSET S BY DEF Below
 <2> QED BY <2>1, FS_Subset, FS_CardinalityType
<1>3. Below(S, x) \in SUBSET (S \ {x}) BY DEF Below
<1>4. Cardinality(Below(S, x)) <= Cardinality(S) - 1 BY <1>1, <1>3, FS_Subset
<1>5. ASSUME NEW y \in S, x < y PROVE Cardinality(Below(S, x)) < Cardinality(Below(S, y))
 <2>0. \A z \in S : z < x => z < y BY <1>5
 <2>4. ~(x < x) OBVIOUS
 <2>5. \A z : z \in Below(S, x) \cup {x} => z \in Below(S, y) BY <1>5, <2>0 DEF Below
 <2>1. x \notin Below(S, x) /\ Below(S, x) \cup {x} \in SUBSET Below(S, y) BY <2>4, <2>5 DEF Below
 <2>2. Cardinality(Below(S, x) \cup {x}) = Cardinality(Below(S, x)) + 1 BY <1>2, <2>1, FS_AddElement
 <2>3. Cardinality(Below(S, x) \cup {x}) <= Cardinality(Below(S, y)) BY <1>2, <2>1, FS_Subset
 <2> QED BY <1>2, <2>2, <2>3
<1> QED BY <1>1, <1>2, <1>4, <1>5

\* A set of numbers in order: each of them once, rising.
LEMMA InOrderFacts ==
  ASSUME NEW S \in SUBSET Nat, IsFiniteSet(S)
  PROVE  /\ Cardinality(S) \in Nat /\ DOMAIN InOrder(S) = 1..Cardinality(S) /\ Len(InOrder(S)) = Cardinality(S)
         /\ \A k \in 1..Cardinality(S) : InOrder(S)[k] \in S /\ Cardinality(Below(S, InOrder(S)[k])) = k - 1
         /\ \A i, j \in 1..Cardinality(S) : i < j => InOrder(S)[i] < InOrder(S)[j]
         /\ \A x \in S : \E k \in 1..Cardinality(S) : InOrder(S)[k] = x
<1> DEFINE n == Cardinality(S)
           rank == [x \in S |-> Cardinality(Below(S, x))]
<1>1. n \in Nat BY FS_CardinalityType
<1>2. \A x \in S : Cardinality(Below(S, x)) \in 0..(n - 1) BY BelowFacts
<1>3. \A x, y \in S : Cardinality(Below(S, x)) = Cardinality(Below(S, y)) => x = y
 <2> SUFFICES ASSUME NEW x \in S, NEW y \in S, Cardinality(Below(S, x)) = Cardinality(Below(S, y)), x # y PROVE FALSE
   OBVIOUS
 <2>1. x < y \/ y < x OBVIOUS
 <2>2. Cardinality(Below(S, x)) < Cardinality(Below(S, y)) \/ Cardinality(Below(S, y)) < Cardinality(Below(S, x))
   BY <2>1, BelowFacts
 <2> QED BY <1>1, <1>2, <2>2
<1>4. \A k \in 1..n : \E x \in S : Cardinality(Below(S, x)) = k - 1
 <2>1. rank \in Injection(S, 0..(n - 1)) BY <1>2, <1>3 DEF Injection, IsInjective
 <2>2. IsFiniteSet(0..(n - 1)) /\ Cardinality(0..(n - 1)) = n
  <3>1. 0 \in Int /\ n - 1 \in Int BY <1>1
  <3>2. IsFiniteSet(0..(n - 1)) /\ Cardinality(0..(n - 1)) = IF 0 > n - 1 THEN 0 ELSE (n - 1) - 0 + 1
    BY <3>1, FS_Interval
  <3> QED BY <1>1, <3>2
 <2>3. rank \in Surjection(S, 0..(n - 1)) BY <2>1, <2>2, FS_Injection
 <2>4. \A z \in 0..(n - 1) : \E x \in S : rank[x] = z BY <2>3 DEF Surjection
 <2> QED
  <3> SUFFICES ASSUME NEW k \in 1..n PROVE \E x \in S : Cardinality(Below(S, x)) = k - 1 OBVIOUS
  <3>1. k - 1 \in 0..(n - 1) BY <1>1
  <3> QED BY <2>4, <3>1
<1>5. \A k \in 1..n : InOrder(S)[k] \in S /\ Cardinality(Below(S, InOrder(S)[k])) = k - 1 BY <1>4 DEF InOrder, Below
<1>6. DOMAIN InOrder(S) = 1..n /\ Len(InOrder(S)) = n BY <1>1 DEF InOrder
<1>7. \A i, j \in 1..n : i < j => InOrder(S)[i] < InOrder(S)[j]
 <2> SUFFICES ASSUME NEW i \in 1..n, NEW j \in 1..n, i < j, ~(InOrder(S)[i] < InOrder(S)[j]) PROVE FALSE OBVIOUS
 <2> DEFINE a == InOrder(S)[i]
            b == InOrder(S)[j]
 <2>1. a \in S /\ b \in S /\ Cardinality(Below(S, a)) = i - 1 /\ Cardinality(Below(S, b)) = j - 1 /\ ~(a < b) BY <1>5
 <2> HIDE DEF a, b
 <2>2. b < a \/ a = b BY <2>1
 <2>3. Cardinality(Below(S, b)) < Cardinality(Below(S, a)) \/ a = b BY <2>1, <2>2, BelowFacts
 <2> QED BY <1>1, <2>1, <2>3
<1>8. ASSUME NEW x \in S PROVE \E k \in 1..n : InOrder(S)[k] = x
 <2>1. Cardinality(Below(S, x)) + 1 \in 1..n /\ (Cardinality(Below(S, x)) + 1) - 1 = Cardinality(Below(S, x))
   BY <1>1, <1>2
 <2> QED BY <1>3, <1>5, <2>1
<1> QED BY <1>1, <1>5, <1>6, <1>7, <1>8

\* What is added behind a set comes behind it in order.
LEMMA InOrderGrows ==
  ASSUME NEW S \in SUBSET Nat, IsFiniteSet(S), NEW T \in SUBSET Nat, IsFiniteSet(T), S \subseteq T,
         \A x \in S : \A y \in T \ S : x < y
  PROVE  Cardinality(S) <= Cardinality(T) /\ \A k \in 1..Cardinality(S) : InOrder(T)[k] = InOrder(S)[k]
<1>1. Cardinality(S) \in Nat /\ Cardinality(T) \in Nat /\ Cardinality(S) <= Cardinality(T)
  BY FS_CardinalityType, FS_Subset
<1>2. \A x \in S : Below(T, x) = Below(S, x)
 <2>1. \A x \in S : \A y \in T : y < x => y \in S
  <3>1. \A x \in S : \A y \in T : x < y => ~(y < x) OBVIOUS
  <3> QED BY <3>1
 <2> QED BY <2>1 DEF Below
<1>3. ASSUME NEW k \in 1..Cardinality(S) PROVE InOrder(T)[k] = InOrder(S)[k]
 <2> DEFINE x == InOrder(S)[k]
 <2>1. x \in S /\ Cardinality(Below(S, x)) = k - 1 BY InOrderFacts
 <2>6. k \in 1..Cardinality(T) BY <1>1
 <2>2. x \in T /\ Cardinality(Below(T, x)) = k - 1 /\ k \in 1..Cardinality(T) BY <1>2, <2>1, <2>6
 <2> HIDE DEF x
 <2>3. PICK j \in 1..Cardinality(T) : InOrder(T)[j] = x BY <2>2, InOrderFacts
 <2>4. Cardinality(Below(T, InOrder(T)[j])) = j - 1 BY InOrderFacts
 <2>5. j = k BY <1>1, <2>2, <2>3, <2>4
 <2> QED BY <2>3, <2>5 DEF x
<1> QED BY <1>1, <1>3

-----------------------------------------------------------------------------
(* Files and their records.                                                *)

\* Blank is none of the words that the model uses.
LEMMA BlankFacts == Blank # "open" /\ Blank # "read" /\ Blank # "error" /\ Blank # "new" /\ Blank # "late" /\ Blank # "file"
BY Zenon DEF Blank

\* Numbers up to a bound.
LEMMA Within ==
  ASSUME NEW m \in Nat, NEW n \in Nat
  PROVE  /\ m <= n => \A i \in 1..m : i \in 1..n
         /\ \A x \in 1..n : x > m \/ x \in 1..m
OBVIOUS

\* The documents are finitely many units of the file.
LEMMA DocsFacts ==
  ASSUME NEW f \in File
  PROVE  /\ Docs(f) \in SUBSET Nat /\ IsFiniteSet(Docs(f)) /\ Docs(f) \subseteq 1..Len(f.units) /\ Len(f.units) \in Nat
         /\ \A i \in 1..Len(f.units) : i \in Docs(f) <=> f.units[i] # Blank
<1>1. Len(f.units) \in Nat BY DEF File
<1>2. Docs(f) \in SUBSET (1..Len(f.units)) BY DEF Docs
<1>3. IsFiniteSet(1..Len(f.units)) BY <1>1, FS_Interval
<1>4. Docs(f) \in SUBSET Nat BY <1>1, <1>2
<1>5. IsFiniteSet(Docs(f)) BY <1>2, <1>3, FS_Subset
<1> QED BY <1>1, <1>2, <1>4, <1>5 DEF Docs

\* One record for each document.
LEMMA RecordsFacts ==
  ASSUME NEW f \in File, NEW p
  PROVE  /\ Len(Records(p, f)) = Cardinality(Docs(f)) /\ Len(Records(p, f)) \in Nat
         /\ \A k \in 1..Len(Records(p, f)) : /\ InOrder(Docs(f))[k] \in Docs(f)
                                             /\ Records(p, f)[k] = RecordOf(p, f, InOrder(Docs(f))[k])
<1>1. Docs(f) \in SUBSET Nat /\ IsFiniteSet(Docs(f)) BY DocsFacts
<1>2. /\ Cardinality(Docs(f)) \in Nat /\ Len(InOrder(Docs(f))) = Cardinality(Docs(f))
      /\ \A k \in 1..Cardinality(Docs(f)) : InOrder(Docs(f))[k] \in Docs(f) BY <1>1, InOrderFacts
<1>3. Records(p, f) = [k \in 1..Cardinality(Docs(f)) |-> RecordOf(p, f, InOrder(Docs(f))[k])] BY <1>2 DEF Records
<1> QED BY <1>2, <1>3

\* Appending keeps the documents, and adds some behind them.
LEMMA EvolvedDocs ==
  ASSUME NEW a \in File, NEW b \in File, Evolved(a, b)
  PROVE  /\ Docs(a) \subseteq Docs(b) /\ \A x \in Docs(b) \ Docs(a) : x > Len(a.units)
         /\ b.fmt # "jsonl" \/ b.gz => Docs(b) = Docs(a)
<1>1. /\ Len(a.units) \in Nat /\ Len(b.units) \in Nat /\ Docs(a) \subseteq 1..Len(a.units) /\ Docs(b) \subseteq 1..Len(b.units)
      /\ \A i \in 1..Len(a.units) : i \in Docs(a) <=> a.units[i] # Blank
      /\ \A i \in 1..Len(b.units) : i \in Docs(b) <=> b.units[i] # Blank BY DocsFacts
<1>2. Len(a.units) <= Len(b.units) /\ \A i \in 1..Len(a.units) : b.units[i] = a.units[i] BY DEF Evolved
<1>6. \A i \in 1..Len(a.units) : i \in 1..Len(b.units) BY <1>1, <1>2, Within
<1>3. \A i \in 1..Len(a.units) : i \in 1..Len(b.units) /\ (i \in Docs(b) <=> i \in Docs(a)) BY <1>1, <1>2, <1>6
<1>4. \A x \in Docs(b) \ Docs(a) : x > Len(a.units)
 <2>1. \A x \in 1..Len(b.units) : x > Len(a.units) \/ x \in 1..Len(a.units) BY <1>1, Within
 <2> QED BY <1>1, <1>3, <2>1
<1>5. b.fmt # "jsonl" \/ b.gz => Docs(b) = Docs(a) BY DEF Evolved, Docs
<1> QED BY <1>1, <1>3, <1>4, <1>5

\* A record stays what it is, under the id that it has.
LEMMA EvolvedRecord ==
  ASSUME NEW a \in File, NEW b \in File, Evolved(a, b), NEW p, NEW i \in Docs(a)
  PROVE  i \in Docs(b) /\ RecordOf(p, b, i) = RecordOf(p, a, i)
<1>1. i \in 1..Len(a.units) /\ i \in Docs(b) BY EvolvedDocs, DocsFacts
<1>2. b.units[i] = a.units[i] /\ b.fmt = a.fmt /\ b.gz = a.gz /\ b.array = a.array /\ b.stem = a.stem BY <1>1 DEF Evolved
<1>3. RecordId(p, b, i) = RecordId(p, a, i)
 <2>1. CASE b.fmt = "jsonl" BY <1>2, <2>1 DEF RecordId, LineId
 <2>2. CASE b.fmt # "jsonl"
  <3>1. Docs(b) = Docs(a) BY <2>2, EvolvedDocs
  <3>2. Ordinal(b, i) = Ordinal(a, i) /\ StemId(b) = StemId(a) BY <1>2, <3>1 DEF Ordinal, StemId
  <3> QED BY <1>2, <2>2, <3>1, <3>2 DEF RecordId
 <2> QED BY <2>1, <2>2
<1> QED BY <1>1, <1>2, <1>3 DEF RecordOf

\* What was appended comes after all the records there were.
LEMMA EvolvedRecords ==
  ASSUME NEW a \in File, NEW b \in File, Evolved(a, b), NEW p
  PROVE  /\ Len(Records(p, a)) <= Len(Records(p, b))
         /\ \A k \in 1..Len(Records(p, a)) : Records(p, b)[k] = Records(p, a)[k]
<1>1. /\ Docs(a) \in SUBSET Nat /\ IsFiniteSet(Docs(a)) /\ Docs(b) \in SUBSET Nat /\ IsFiniteSet(Docs(b))
      /\ Docs(a) \subseteq 1..Len(a.units) /\ Len(a.units) \in Nat BY DocsFacts
<1>2. Docs(a) \subseteq Docs(b) /\ \A x \in Docs(a) : \A y \in Docs(b) \ Docs(a) : x < y
 <2>1. Docs(a) \subseteq Docs(b) /\ \A y \in Docs(b) \ Docs(a) : y > Len(a.units) BY EvolvedDocs
 <2> QED BY <1>1, <2>1
<1>3. /\ Cardinality(Docs(a)) <= Cardinality(Docs(b))
      /\ \A k \in 1..Cardinality(Docs(a)) : InOrder(Docs(b))[k] = InOrder(Docs(a))[k] BY <1>1, <1>2, InOrderGrows
<1>4. /\ Len(Records(p, a)) = Cardinality(Docs(a)) /\ Len(Records(p, a)) \in Nat
      /\ Len(Records(p, b)) = Cardinality(Docs(b)) /\ Len(Records(p, b)) \in Nat
      /\ \A k \in 1..Len(Records(p, a)) : /\ InOrder(Docs(a))[k] \in Docs(a)
                                           /\ Records(p, a)[k] = RecordOf(p, a, InOrder(Docs(a))[k])
      /\ \A k \in 1..Len(Records(p, b)) : Records(p, b)[k] = RecordOf(p, b, InOrder(Docs(b))[k]) BY RecordsFacts
<1>5. \A k \in 1..Len(Records(p, a)) : k \in 1..Len(Records(p, b)) BY <1>3, <1>4
<1> QED BY <1>3, <1>4, <1>5, EvolvedRecord

\* What becomes of what a file has become, has become of the file.
LEMMA EvolvedOn ==
  ASSUME NEW a \in File, NEW b \in File, NEW c \in File, Evolved(a, b), Evolved(b, c)
  PROVE  Evolved(a, c)
<1>1. Len(a.units) \in Nat /\ Len(b.units) \in Nat /\ Len(c.units) \in Nat BY DEF File
<1>3. Len(a.units) <= Len(b.units) /\ Len(b.units) <= Len(c.units) BY DEF Evolved
<1>4. \A i \in 1..Len(a.units) : i \in 1..Len(b.units) BY <1>1, <1>3, Within
<1>2. Len(a.units) <= Len(c.units) /\ \A i \in 1..Len(a.units) : c.units[i] = a.units[i]
 <2>1. \A i, j, k \in Nat : i <= j /\ j <= k => i <= k OBVIOUS
 <2>2. Len(a.units) <= Len(c.units) BY <1>1, <1>3, <2>1
 <2>3. \A i \in 1..Len(a.units) : c.units[i] = b.units[i] /\ b.units[i] = a.units[i] BY <1>4 DEF Evolved
 <2> QED BY <2>2, <2>3
<1> QED BY <1>2 DEF Evolved

-----------------------------------------------------------------------------
(* What the other program does to them.                                    *)

\* A file that is removed.
LEMMA FileVanishes ==
  ASSUME NEW a \in File, FileSound(a), a.bad = Blank
  PROVE  LET b == [a EXCEPT !.bad = "open"] IN b \in File /\ FileSound(b) /\ Evolved(a, b)
<1> DEFINE b == [a EXCEPT !.bad = "open"]
<1>1. b \in File BY DEF File, Damage
<1>2. /\ b.units = a.units /\ b.dir = a.dir /\ b.stem = a.stem /\ b.fmt = a.fmt /\ b.gz = a.gz /\ b.array = a.array /\ b.bad = "open"
  BY DEF File
<1>3. Len(a.units) \in Nat BY DocsFacts
<1> HIDE DEF b
<1>4. Docs(b) = Docs(a) BY <1>2 DEF Docs
<1>5. FileSound(b) BY <1>2, <1>4 DEF FileSound
<1>6. Evolved(a, b) BY <1>2, <1>3 DEF Evolved
<1> QED BY <1>1, <1>5, <1>6 DEF b

\* A file that a line is appended to.
LEMMA FileGrows ==
  ASSUME NEW a \in File, FileSound(a), a.bad = Blank, a.fmt = "jsonl", ~a.gz
  PROVE  LET b == [a EXCEPT !.units = Append(@, "new")]
         IN  b \in File /\ FileSound(b) /\ Evolved(a, b) /\ Docs(b) # {}
<1> DEFINE u == Append(a.units, "new")
           b == [a EXCEPT !.units = u]
           n == Len(a.units)
<1>1. a.units \in Seq(Texts) /\ "new" \in Texts BY DEF File, Texts
<1>2. n \in Nat /\ u \in Seq(Texts) /\ Len(u) = n + 1 /\ u[n + 1] = "new" /\ \A i \in 1..n : u[i] = a.units[i]
  BY <1>1, AppendProperties
<1> HIDE DEF u
<1>3. b \in File BY <1>2 DEF File
<1>4. b.units = u /\ b.dir = a.dir /\ b.stem = a.stem /\ b.fmt = a.fmt /\ b.gz = a.gz /\ b.array = a.array /\ b.bad = a.bad BY DEF File
<1> HIDE DEF b, n
<1>5. \A i \in 1..(n + 1) : i \in 1..n \/ i = n + 1 BY <1>2
<1>6. n + 1 \in 1..(n + 1) /\ n <= n + 1 BY <1>2
<1>7. Docs(b) # {}
 <2>1. Len(b.units) = n + 1 /\ b.units[n + 1] # Blank BY <1>2, <1>4, BlankFacts
 <2>2. n + 1 \in Docs(b) BY <1>6, <2>1 DEF Docs
 <2> QED BY <2>2
<1>8. FileSound(b) BY <1>2, <1>4, <1>5, <1>7 DEF FileSound, n
<1>9. Evolved(a, b) BY <1>2, <1>4, <1>6 DEF Evolved, n
<1> QED BY <1>3, <1>7, <1>8, <1>9 DEF b, u

\* The files change in these ways only.
DiskGoesOn == DOMAIN rfDisk \subseteq DOMAIN rfDisk' /\ \A f \in DOMAIN rfDisk : Evolved(rfDisk[f], rfDisk'[f])

\* A file that nothing happens to.
LEMMA SameEvolved ==
  ASSUME NEW a \in File PROVE Evolved(a, a)
BY DocsFacts DEF Evolved

\* Each step leaves the files as they were, or as the other program makes them.
LEMMA DiskStep ==
  ASSUME DiskInv, [RfNext]_rfVars
  PROVE  DiskInv' /\ DiskGoesOn
<1>1. \A f \in DOMAIN rfDisk : rfDisk[f] \in File /\ FileSound(rfDisk[f]) BY DEF DiskInv
<1>2. rfCfg' = rfCfg
  BY DEF RfNext, KeyspaceRecordsOpen, OpenNext, ScanRow, FileEnds, ScanDone, FetchOne, FetchDone, SearchHits, FetchHit,
         HitsDone, Vanish, Grow, Arrive, Changes, rfVars
<1>3. CASE rfDisk' = rfDisk BY <1>1, <1>2, <1>3, SameEvolved DEF DiskInv, DiskGoesOn
<1>4. ASSUME NEW f \in DOMAIN rfDisk, NEW b \in File, FileSound(b), Evolved(rfDisk[f], b), rfDisk' = [rfDisk EXCEPT ![f] = b]
      PROVE  DiskInv' /\ DiskGoesOn
 <2>1. DOMAIN rfDisk' = DOMAIN rfDisk /\ rfDisk'[f] = b /\ \A g \in DOMAIN rfDisk : g # f => rfDisk'[g] = rfDisk[g]
   BY <1>4 DEF DiskInv
 <2>2. rfDisk' \in [DOMAIN rfDisk' -> File] /\ \A g \in DOMAIN rfDisk' : FileSound(rfDisk'[g])
   BY <1>4, <2>1 DEF DiskInv
 <2>3. \A g \in DOMAIN rfDisk : Evolved(rfDisk[g], rfDisk'[g]) BY <1>1, <1>4, <2>1, SameEvolved
 <2>4. ASSUME NEW g \in DOMAIN rfDisk'
       PROVE  IF g \in DOMAIN rfCfg.disk THEN Evolved(rfCfg.disk[g], rfDisk'[g]) ELSE rfDisk'[g].fmt = "jsonl"
  <3>1. CASE g \in DOMAIN rfCfg.disk
   <4>1. rfCfg.disk[g] \in File /\ rfDisk[g] \in File /\ rfDisk'[g] \in File /\ Evolved(rfCfg.disk[g], rfDisk[g])
     BY <2>1, <2>2, <2>4, <3>1 DEF DiskInv, FilesConfigOK
   <4> QED BY <2>1, <2>3, <2>4, <3>1, <4>1, EvolvedOn
  <3>2. CASE g \notin DOMAIN rfCfg.disk BY <2>1, <2>3, <2>4, <3>2 DEF DiskInv, Evolved
  <3> QED BY <3>1, <3>2
 <2> QED BY <1>2, <2>1, <2>2, <2>3, <2>4 DEF DiskInv, DiskGoesOn
<1>5. ASSUME NEW f \in DOMAIN rfDisk, Vanish(f) PROVE DiskInv' /\ DiskGoesOn
 <2>1. rfDisk[f].bad = Blank /\ rfDisk' = [rfDisk EXCEPT ![f] = [rfDisk[f] EXCEPT !.bad = "open"]]
   BY <1>5 DEF Vanish, Changes, FileAt
 <2> QED BY <1>1, <1>4, <2>1, FileVanishes
<1>6. ASSUME NEW f \in DOMAIN rfDisk, Grow(f) PROVE DiskInv' /\ DiskGoesOn
 <2>1. rfDisk[f].bad = Blank /\ rfDisk[f].fmt = "jsonl" /\ ~rfDisk[f].gz
       /\ rfDisk' = [rfDisk EXCEPT ![f] = [rfDisk[f] EXCEPT !.units = Append(@, "new")]]
   BY <1>6 DEF Grow, Changes, FileAt
 <2> QED BY <1>1, <1>4, <2>1, FileGrows
<1>7. ASSUME Arrive(9) PROVE DiskInv' /\ DiskGoesOn
 <2> DEFINE late == [dir |-> Blank, stem |-> "late", fmt |-> "jsonl", gz |-> FALSE, array |-> FALSE, units |-> <<"late">>, bad |-> Blank]
 <2>1. 9 \notin DOMAIN rfDisk /\ rfDisk' = [g \in DOMAIN rfDisk \cup {9} |-> IF g = 9 THEN late ELSE rfDisk[g]]
   BY <1>7 DEF Arrive, Changes
 <2> DEFINE text == <<"late">>
 <2>7. Blank \in Texts /\ "late" \in Texts /\ Blank \in Damage BY DEF Texts, Damage
 <2>8. "jsonl" \in Texts BY DEF Texts
 <2>9. text \in Seq(Texts) /\ Len(text) = 1 /\ text[1] = "late" BY <2>7
 <2>10. late.units = text /\ late.fmt = "jsonl" /\ late.bad = Blank OBVIOUS
 <2> HIDE DEF text
 <2>2. late \in File BY <2>7, <2>8, <2>9 DEF File, text
 <2> HIDE DEF late
 <2>3. FileSound(late) /\ late.fmt = "jsonl"
  <3>1. late.fmt # "toml" /\ late.bad # "read" BY <2>10, BlankFacts
  <3>3. \A i \in 1..Len(text) : i = 1 BY <2>9
  <3>4. \A i \in 1..Len(text) : text[i] = "late" BY <2>9, <3>3
  <3>2. \A i \in 1..Len(late.units) : late.units[i] = "late" BY <2>10, <3>4
  <3> QED BY <2>10, <3>1, <3>2 DEF FileSound
 <2>4. DOMAIN rfDisk' = DOMAIN rfDisk \cup {9} /\ rfDisk'[9] = late /\ \A g \in DOMAIN rfDisk : rfDisk'[g] = rfDisk[g]
   BY <2>1
 <2>5. rfDisk' \in [DOMAIN rfDisk' -> File] /\ \A g \in DOMAIN rfDisk' : FileSound(rfDisk'[g])
   BY <1>1, <2>1, <2>2, <2>3, <2>4
 <2>6. \A g \in DOMAIN rfDisk' : IF g \in DOMAIN rfCfg.disk THEN Evolved(rfCfg.disk[g], rfDisk'[g]) ELSE rfDisk'[g].fmt = "jsonl"
   BY <2>1, <2>3, <2>4 DEF DiskInv
 <2> QED BY <1>1, <1>2, <2>4, <2>5, <2>6, SameEvolved DEF DiskInv, DiskGoesOn
<1>8. CASE KeyspaceRecordsOpen \/ OpenNext \/ ScanRow \/ FileEnds \/ ScanDone \/ FetchOne \/ FetchDone
           \/ SearchHits \/ FetchHit \/ HitsDone \/ UNCHANGED rfVars
  BY <1>3, <1>8 DEF KeyspaceRecordsOpen, OpenNext, ScanRow, FileEnds, ScanDone, FetchOne, FetchDone, SearchHits, FetchHit,
         HitsDone, rfVars
<1> QED BY <1>5, <1>6, <1>7, <1>8 DEF RfNext

-----------------------------------------------------------------------------
(* What the id of a record says of it.                                     *)

\* Ordinals rise with the places of the documents.
LEMMA OrdinalType ==
  ASSUME NEW f \in File, NEW i \in Docs(f)
  PROVE  /\ Ordinal(f, i) \in Nat /\ i \in Nat \ {0} /\ i \in 1..Len(f.units)
         /\ \A j \in Docs(f) : i < j => Ordinal(f, i) < Ordinal(f, j)
<1>1. Docs(f) \in SUBSET Nat /\ IsFiniteSet(Docs(f)) /\ Docs(f) \subseteq 1..Len(f.units) BY DocsFacts
<1>2. \A j \in Docs(f) : Ordinal(f, j) = Cardinality(Below(Docs(f), j)) BY DEF Ordinal, Below
<1>3. Cardinality(Docs(f)) \in Nat BY <1>1, FS_CardinalityType
<1>4. /\ Cardinality(Below(Docs(f), i)) \in 0..(Cardinality(Docs(f)) - 1)
      /\ \A j \in Docs(f) : i < j => Cardinality(Below(Docs(f), i)) < Cardinality(Below(Docs(f), j)) BY <1>1, BelowFacts
<1> HIDE DEF Ordinal
<1> QED BY <1>1, <1>2, <1>3, <1>4

\* The offset leads back to the document, and a stem names a file of one document.
LEMMA RecordIdFacts ==
  ASSUME NEW f \in File, NEW p \in Nat, NEW i \in Docs(f)
  PROVE  LET id == RecordId(p, f, i)
         IN  /\ id \in Ids
             /\ id.off # -1 => id.rel = p /\ id.off = i - 1 /\ ~f.gz /\ id.n # -1
             /\ id.off = -1 /\ id.n = -1 => NamedByStem(f) /\ id.stem = f.stem
<1> DEFINE id == RecordId(p, f, i)
           o == Ordinal(f, i)
<1>1. o \in Nat /\ i \in Nat \ {0} BY OrdinalType
<1>2. f.stem \in Texts /\ Blank \in Texts BY DEF File, Texts
<1>3. \A n, off : Id(p, n, off).rel = p /\ Id(p, n, off).n = n /\ Id(p, n, off).off = off BY DEF Id
<1>4. \A n, off \in Int : Id(p, n, off) \in Ids BY <1>2 DEF Id, Ids
<1>5. StemId(f) \in Ids /\ StemId(f).off = -1 /\ StemId(f).n = -1 /\ StemId(f).stem = f.stem BY <1>2 DEF StemId, Ids
<1>6. o # -1 /\ i - 1 # -1 /\ i - 1 \in Int /\ o \in Int /\ -1 \in Int BY <1>1
<1>7. \/ f.fmt = "jsonl" /\ id = Id(p, i - 1, IF f.gz THEN -1 ELSE i - 1)
      \/ id = Id(p, o, -1)
      \/ NamedByStem(f) /\ id = StemId(f)
      \/ id = Id(p, o, IF f.gz THEN -1 ELSE i - 1) BY DEF RecordId, LineId, NamedByStem
<1> HIDE DEF o
<1>8. CASE id = Id(p, i - 1, IF f.gz THEN -1 ELSE i - 1)
 <2> DEFINE m == i - 1
 <2>1. id = Id(p, m, IF f.gz THEN -1 ELSE m) /\ m # -1 /\ m \in Int BY <1>6, <1>8
 <2> HIDE DEF id, m
 <2>2. CASE f.gz
  <3>1. id = Id(p, m, -1) BY <2>1, <2>2
  <3>2. id \in Ids /\ id.n # -1 /\ id.off = -1 BY <1>3, <1>4, <1>6, <2>1, <3>1
  <3> QED BY <3>2 DEF id
 <2>3. CASE ~f.gz
  <3>1. id = Id(p, m, m) BY <2>1, <2>3
  <3>2. id \in Ids /\ id.n # -1 /\ id.off = m /\ id.rel = p BY <1>3, <1>4, <2>1, <3>1
  <3> QED BY <2>1, <2>3, <3>2 DEF id, m
 <2> QED BY <2>2, <2>3
<1>9. CASE id = Id(p, o, -1) BY <1>3, <1>4, <1>6, <1>9
<1>10. CASE NamedByStem(f) /\ id = StemId(f) BY <1>5, <1>10
<1>11. CASE id = Id(p, o, IF f.gz THEN -1 ELSE i - 1)
 <2> HIDE DEF id
 <2>2. CASE f.gz BY <1>3, <1>4, <1>6, <1>11, <2>2 DEF id
 <2>3. CASE ~f.gz BY <1>3, <1>4, <1>6, <1>11, <2>3 DEF id
 <2> QED BY <2>2, <2>3
<1> QED BY <1>7, <1>8, <1>9, <1>10, <1>11

\* The form of a record.
LEMMA RecordTyped ==
  ASSUME NEW f \in File, NEW p \in Nat, NEW i \in Docs(f)
  PROVE  LET r == RecordOf(p, f, i)
         IN  r \in Row /\ r.file = p /\ r.doc = f.units[i] /\ r.id = RecordId(p, f, i)
<1>1. RecordId(p, f, i) \in Ids BY RecordIdFacts
<1>2. f.units[i] \in Texts BY OrdinalType DEF File
<1> QED BY <1>1, <1>2 DEF RecordOf, Row

\* The form of the records of a file.
LEMMA RecordsTyped ==
  ASSUME NEW f \in File, NEW p \in Nat
  PROVE  /\ Records(p, f) \in Seq(Row)
         /\ \A k \in 1..Len(Records(p, f)) : Records(p, f)[k].file = p
<1>1. /\ Len(Records(p, f)) = Cardinality(Docs(f)) /\ Len(Records(p, f)) \in Nat
      /\ \A k \in 1..Len(Records(p, f)) : /\ InOrder(Docs(f))[k] \in Docs(f)
                                          /\ Records(p, f)[k] = RecordOf(p, f, InOrder(Docs(f))[k]) BY RecordsFacts
<1>2. \A k \in 1..Len(Records(p, f)) : Records(p, f)[k] \in Row /\ Records(p, f)[k].file = p BY <1>1, RecordTyped
<1>3. Records(p, f) = [k \in 1..Len(Records(p, f)) |-> Records(p, f)[k]]
 <2>1. Len(InOrder(Docs(f))) = Len(Records(p, f))
  <3>1. Docs(f) \in SUBSET Nat /\ IsFiniteSet(Docs(f)) BY DocsFacts
  <3> QED BY <1>1, <3>1, InOrderFacts
 <2>2. Records(p, f) = [k \in 1..Len(InOrder(Docs(f))) |-> RecordOf(p, f, InOrder(Docs(f))[k])] BY DEF Records
 <2> QED BY <2>1, <2>2
<1> QED BY <1>1, <1>2, <1>3

\* A document is the only one.
LEMMA OnlyDoc ==
  ASSUME NEW f \in File, Cardinality(Docs(f)) <= 1, NEW i \in Docs(f)
  PROVE  Docs(f) = {i} /\ WholeText(f) = IF f.array THEN "file" ELSE f.units[i]
<1>1. IsFiniteSet(Docs(f)) /\ Docs(f) \in SUBSET Nat BY DocsFacts
<1>2. Cardinality(Docs(f)) = 1
 <2>1. Cardinality(Docs(f)) \in Nat /\ Cardinality(Docs(f)) # 0 BY <1>1, FS_CardinalityType, FS_EmptySet
 <2> QED BY <2>1
<1>3. Docs(f) = {i} BY <1>1, <1>2, FS_Singleton
<1>4. (CHOOSE j \in Docs(f) : TRUE) = i BY <1>3
<1> QED BY <1>2, <1>3, <1>4 DEF WholeText

-----------------------------------------------------------------------------
(* What was given, and what was found, stays so.                           *)

GoesOn(d, e) ==
  /\ DOMAIN d \subseteq DOMAIN e /\ DOMAIN e \subseteq Nat \ {0}
  /\ \A f \in DOMAIN d : d[f] \in File /\ e[f] \in File /\ Evolved(d[f], e[f])

\* A record that was there is one that was there.
LEMMA GivenStays ==
  ASSUME NEW d, NEW e, GoesOn(d, e)
  PROVE  \A r : Given(d, r) => Given(e, r)
<1> SUFFICES ASSUME NEW f \in DOMAIN d, NEW i \in Docs(d[f]) PROVE Given(e, RecordOf(f, d[f], i)) BY DEF Given
<1>1. f \in DOMAIN e /\ d[f] \in File /\ e[f] \in File /\ Evolved(d[f], e[f]) BY DEF GoesOn
<1>2. i \in Docs(e[f]) /\ RecordOf(f, e[f], i) = RecordOf(f, d[f], i) BY <1>1, EvolvedRecord
<1> QED BY <1>1, <1>2 DEF Given

\* What is found under an id goes on being found.
LEMMA FoundStays ==
  ASSUME NEW d, NEW e, GoesOn(d, e), NEW kind
  PROVE  \A id, doc : Found(d, kind, id, doc) => Found(e, kind, id, doc)
<1> SUFFICES ASSUME NEW id, NEW doc, Found(d, kind, id, doc) PROVE Found(e, kind, id, doc) OBVIOUS
<1>1. CASE /\ id.off # -1 /\ id.rel \in DOMAIN d
           /\ id.off \in 0..(Len(d[id.rel].units) - 1) /\ doc = d[id.rel].units[id.off + 1]
 <2>1. id.rel \in DOMAIN e /\ d[id.rel] \in File /\ e[id.rel] \in File /\ Evolved(d[id.rel], e[id.rel])
   BY <1>1 DEF GoesOn
 <2> DEFINE u == d[id.rel].units
            v == e[id.rel].units
 <2>2. Len(u) \in Nat /\ Len(v) \in Nat BY <2>1, DocsFacts
 <2>3. Len(u) <= Len(v) /\ \A i \in 1..Len(u) : v[i] = u[i] BY <2>1 DEF Evolved
 <2>4. id.off \in 0..(Len(u) - 1) /\ doc = u[id.off + 1] BY <1>1
 <2> HIDE DEF u, v
 <2>5. id.off \in 0..(Len(v) - 1) /\ id.off + 1 \in 1..Len(u) BY <2>2, <2>3, <2>4
 <2> QED BY <1>1, <2>1, <2>3, <2>4, <2>5 DEF Found, v
<1>2. CASE /\ id.off = -1 /\ id.n = -1 /\ kind = "classic"
           /\ \E f \in KeyFiles(d, id) : doc = WholeText(d[f])
 <2>1. PICK f \in KeyFiles(d, id) : doc = WholeText(d[f]) BY <1>2
 <2>2. f \in DOMAIN e /\ d[f] \in File /\ e[f] \in File /\ Evolved(d[f], e[f]) /\ d[f].fmt = "json" /\ KeyJson(d[f]) /\ d[f].stem = id.stem
   BY <2>1 DEF GoesOn, KeyFiles, KeyJson
 <2>3. KeyJson(e[f]) /\ e[f].stem = id.stem /\ e[f].units = d[f].units /\ e[f].array = d[f].array BY <2>2 DEF Evolved, KeyJson
 <2>4. WholeText(e[f]) = WholeText(d[f]) BY <2>3 DEF Docs, WholeText
 <2> QED BY <1>2, <2>1, <2>2, <2>3, <2>4 DEF Found, KeyFiles
<1> QED BY <1>1, <1>2 DEF Found

\* The disk goes on, as the steps need it.
LEMMA GoesOnStep ==
  ASSUME DiskInv, [RfNext]_rfVars
  PROVE  DiskInv' /\ GoesOn(rfDisk, rfDisk')
<1>1. DiskInv' /\ DiskGoesOn BY DiskStep
<1>2. /\ DOMAIN rfDisk' \subseteq Nat \ {0} /\ rfDisk' \in [DOMAIN rfDisk' -> File]
      /\ rfDisk \in [DOMAIN rfDisk -> File] BY <1>1 DEF DiskInv
<1> QED BY <1>1, <1>2 DEF GoesOn, DiskGoesOn

\* As the list of files was made: every file of it was there to begin with.
LEMMA ListOfFiles ==
  ASSUME DiskInv, ListInv, rfScans # 0
  PROVE  /\ Len(rfList) \in Nat /\ rfList # <<0>>
         /\ \A j \in 1..Len(rfList) : rfList[j] \in DOMAIN rfCfg.disk /\ Visible(rfCfg.disk[rfList[j]], rfCfg.opts)
         /\ \A i, j \in 1..Len(rfList) : rfList[i] = rfList[j] => i = j
         /\ rfList = WalkFiles(rfCfg.disk, rfCfg.opts)
<1> DEFINE S == {f \in DOMAIN rfCfg.disk : Eligible(rfCfg.disk[f], rfCfg.opts) /\ Visible(rfCfg.disk[f], rfCfg.opts)}
<1>1. rfList = WalkFiles(rfCfg.disk, rfCfg.opts) BY DEF ListInv
<1>2. S \in SUBSET DOMAIN rfCfg.disk /\ IsFiniteSet(DOMAIN rfCfg.disk) /\ DOMAIN rfCfg.disk \subseteq Nat \ {0}
  BY DEF DiskInv, FilesConfigOK
<1>3. S \in SUBSET Nat /\ IsFiniteSet(S) BY <1>2, FS_Subset
<1>4. rfList = InOrder(S) BY <1>1 DEF WalkFiles
<1>5. /\ Cardinality(S) \in Nat /\ Len(InOrder(S)) = Cardinality(S)
      /\ \A k \in 1..Cardinality(S) : InOrder(S)[k] \in S
      /\ \A i, j \in 1..Cardinality(S) : i < j => InOrder(S)[i] < InOrder(S)[j] BY <1>3, InOrderFacts
<1>6. \A i, j \in 1..Len(rfList) : rfList[i] = rfList[j] => i = j
 <2> SUFFICES ASSUME NEW i \in 1..Len(rfList), NEW j \in 1..Len(rfList), rfList[i] = rfList[j], i # j PROVE FALSE
   OBVIOUS
 <2>1. i \in Nat /\ j \in Nat /\ i \in 1..Cardinality(S) /\ j \in 1..Cardinality(S) BY <1>4, <1>5
 <2>2. i < j \/ j < i BY <2>1
 <2>3. rfList[i] < rfList[j] \/ rfList[j] < rfList[i] BY <1>4, <1>5, <2>1, <2>2
 <2>4. rfList[i] \in Nat BY <1>3, <1>4, <1>5, <2>1
 <2> QED BY <2>3, <2>4
<1>7. \A j \in 1..Len(rfList) : rfList[j] \in S BY <1>4, <1>5
<1>8. rfList # <<0>>
 <2> SUFFICES ASSUME rfList = << 0 >> PROVE FALSE OBVIOUS
 <2>1. rfList[1] = 0 /\ Len(rfList) = 1 OBVIOUS
 <2>2. 0 \in S BY <1>7, <2>1
 <2> HIDE DEF S
 <2> QED BY <1>2, <2>2
<1> QED BY <1>1, <1>2, <1>4, <1>5, <1>6, <1>7, <1>8

\* The request stays what it is.
LEMMA CfgStays == [RfNext]_rfVars => rfCfg' = rfCfg
BY DEF RfNext, KeyspaceRecordsOpen, OpenNext, ScanRow, FileEnds, ScanDone, FetchOne, FetchDone, SearchHits, FetchHit,
       HitsDone, Vanish, Grow, Arrive, Changes, rfVars

\* The other program's steps touch the files and what the open one has still to give.
OthersStep ==
  /\ rfScans # 0 /\ rfPc # "error"
  /\ \/ rfCur' = rfCur
     \/ /\ rfPc = "next" /\ rfList[rfAt] \in DOMAIN rfDisk'
        /\ \E i \in Docs(rfDisk'[rfList[rfAt]]) : rfCur' = Append(rfCur, RecordOf(rfList[rfAt], rfDisk'[rfList[rfAt]], i))
  /\ UNCHANGED <<rfCfg, rfList, rfPc, rfAt, rfRows, rfWarned, rfKeys, rfCache, rfGot, rfScans>>

\* Removing a file and appending to one are such steps.
LEMMA OthersDo ==
  ASSUME DiskInv, ListInv, NEW f \in DOMAIN rfDisk, Vanish(f) \/ Grow(f)
  PROVE  OthersStep
<1>1. CASE Vanish(f) BY <1>1 DEF Vanish, Changes, OthersStep, ListInv
<1>2. ASSUME Grow(f), rfCur' = rfCur PROVE OthersStep BY <1>2 DEF Grow, Changes, OthersStep, ListInv
<1>3. ASSUME Grow(f), rfCur' # rfCur PROVE OthersStep
 <2> DEFINE b == [rfDisk[f] EXCEPT !.units = Append(@, "new")]
 <2>1. /\ FileAt(f).fmt = "jsonl" /\ FileAt(f).bad = Blank /\ ~FileAt(f).gz /\ rfPc = "next" /\ rfList[rfAt] = f
       /\ Changes([rfDisk EXCEPT ![f].units = Append(@, "new")],
                  Append(rfCur, Records(f, [rfDisk EXCEPT ![f].units = Append(@, "new")][f])[Len(Records(f, [rfDisk EXCEPT ![f].units = Append(@, "new")][f]))]))
   BY <1>3 DEF Grow, Changes
 <2>2. rfDisk' = [rfDisk EXCEPT ![f] = b] BY <2>1 DEF Changes
 <2>3. rfDisk'[f] = b /\ f \in DOMAIN rfDisk' BY <2>2 DEF DiskInv
 <2>4. rfCur' = Append(rfCur, Records(f, b)[Len(Records(f, b))]) BY <2>1, <2>2, <2>3 DEF Changes
 <2>5. b \in File /\ Docs(b) # {}
  <3>1. rfDisk[f] \in File /\ FileSound(rfDisk[f]) BY DEF DiskInv
  <3>2. rfDisk[f].bad = Blank /\ rfDisk[f].fmt = "jsonl" /\ ~rfDisk[f].gz BY <2>1 DEF FileAt
  <3> QED BY <3>1, <3>2, FileGrows
 <2> HIDE DEF b
 <2>6. Cardinality(Docs(b)) \in Nat /\ Cardinality(Docs(b)) # 0
  <3>1. IsFiniteSet(Docs(b)) BY <2>5, DocsFacts
  <3> QED BY <2>5, <3>1, FS_CardinalityType, FS_EmptySet
 <2> DEFINE n == Len(Records(f, b))
            i == InOrder(Docs(b))[n]
 <2>7. n \in 1..n BY <2>5, <2>6, RecordsFacts
 <2>8. i \in Docs(b) /\ Records(f, b)[n] = RecordOf(f, b, i) BY <2>5, <2>7, RecordsFacts
 <2>9. rfCur' = Append(rfCur, RecordOf(f, b, i)) BY <2>4, <2>8
 <2> HIDE DEF n, i
 <2>10. rfScans # 0 /\ rfPc # "error" /\ UNCHANGED <<rfCfg, rfList, rfPc, rfAt, rfRows, rfWarned, rfKeys, rfCache, rfGot, rfScans>>
   BY <1>3 DEF Grow, Changes, ListInv
 <2> QED BY <2>1, <2>3, <2>8, <2>9, <2>10 DEF OthersStep
<1> QED BY <1>1, <1>2, <1>3

\* So is a file that arrives.
LEMMA ArriveDoes == ListInv /\ Arrive(9) => OthersStep
BY DEF Arrive, Changes, OthersStep, ListInv

\* The list is made once.
LEMMA ListStep ==
  ASSUME DiskInv, ListInv, [RfNext]_rfVars
  PROVE  ListInv'
<1>1. rfCfg' = rfCfg BY CfgStays
<1>2. CASE KeyspaceRecordsOpen
 <2>1. rfScans' = rfScans + 1 /\ rfScans' \in Nat /\ rfScans' # 0 /\ rfList' = Listing
   BY <1>2 DEF KeyspaceRecordsOpen, ListInv
 <2>2. CASE rfScans = 0
  <3>1. rfList' = WalkFiles(rfCfg.disk, rfCfg.opts) BY <2>1, <2>2 DEF Listing, ListInv
  <3> QED BY <1>1, <2>1, <3>1 DEF ListInv
 <2>3. CASE rfScans # 0
  <3>1. rfList' = WalkFiles(rfCfg.disk, rfCfg.opts) BY <2>1, <2>3, ListOfFiles DEF Listing
  <3> QED BY <1>1, <2>1, <3>1 DEF ListInv
 <2> QED BY <2>2, <2>3
<1>3. CASE SearchHits BY <1>1, <1>3 DEF SearchHits, ListInv
<1>4. ASSUME OthersStep PROVE ListInv' BY <1>1, <1>4 DEF OthersStep, ListInv
<1>5. CASE OpenNext \/ ScanRow \/ FileEnds \/ ScanDone \/ FetchOne \/ FetchDone \/ FetchHit \/ HitsDone
 <2>1. rfPc # "idle" /\ rfScans' = rfScans /\ rfList' = rfList
   BY <1>5 DEF OpenNext, ScanRow, FileEnds, ScanDone, FetchOne, FetchDone, FetchHit, HitsDone
 <2> QED BY <1>1, <2>1 DEF ListInv
<1>6. CASE UNCHANGED rfVars BY <1>6 DEF rfVars, ListInv
<1> QED BY <1>2, <1>3, <1>4, <1>5, <1>6, OthersDo, ArriveDoes DEF RfNext

-----------------------------------------------------------------------------

\* Every row and every key is a record of a file.
LEMMA RowsStep ==
  ASSUME DiskInv, ListInv, RowsInv, ScanInv, [RfNext]_rfVars
  PROVE  RowsInv'
<1>1. GoesOn(rfDisk, rfDisk') /\ \A r : Given(rfDisk, r) => Given(rfDisk', r) BY GoesOnStep, GivenStays
<1>2. AllGiven(rfDisk', rfRows) /\ AllGiven(rfDisk', rfCur) /\ AllGiven(rfDisk', rfKeys) BY <1>1 DEF RowsInv, AllGiven
<1>3. rfRows \in Seq(Row) /\ rfCur \in Seq(Row) /\ rfKeys \in Seq(Row) BY DEF RowsInv
<1>4. \A d : AllGiven(d, <<>>) BY DEF AllGiven
<1>5. CASE KeyspaceRecordsOpen BY <1>2, <1>3, <1>4, <1>5 DEF KeyspaceRecordsOpen, RowsInv
<1>6. ASSUME OpenNext PROVE RowsInv'
 <2> DEFINE f == rfList[rfAt]
 <2>1. rfDisk' = rfDisk /\ rfRows' = rfRows /\ rfKeys' = rfKeys BY <1>6 DEF OpenNext
 <2>2. rfPc = "open" /\ rfPc' \in {"open", "next", "error"} BY <1>6 DEF OpenNext, Unreadable
 <2>3. f \in DOMAIN rfDisk /\ rfDisk[f] \in File /\ FileAt(f) = rfDisk[f] /\ f \in Nat /\ FileSound(rfDisk[f])
  <3>1. rfAt \in 1..Len(rfList) /\ rfScans # 0 BY <1>6, ListOfFiles DEF OpenNext, ScanInv, ListInv
  <3>2. f \in DOMAIN rfCfg.disk BY <3>1, ListOfFiles
  <3> QED BY <3>2 DEF DiskInv, FileAt
 <2> DEFINE all == Records(f, rfDisk[f])
 <2>4. all \in Seq(Row) /\ AllGiven(rfDisk, all)
  <3>1. \A k \in 1..Len(all) : InOrder(Docs(rfDisk[f]))[k] \in Docs(rfDisk[f]) /\ all[k] = RecordOf(f, rfDisk[f], InOrder(Docs(rfDisk[f]))[k])
    BY <2>3, RecordsFacts
  <3>2. AllGiven(rfDisk, all) BY <2>3, <3>1 DEF AllGiven, Given
  <3> QED BY <2>3, <3>2, RecordsTyped
 <2>5. CASE rfCur' = rfCur BY <1>3, <2>1, <2>2, <2>5, <1>2 DEF RowsInv
 <2>6. CASE rfCur' = all BY <1>3, <2>1, <2>2, <2>4, <2>6, <1>2 DEF RowsInv
 <2>7. CASE rfCur' = <<all[1]>> /\ rfDisk[f].bad = "read" /\ ~OpensWhole(rfDisk[f])
  <3>1. Docs(rfDisk[f]) # {} BY <2>3, <2>7 DEF FileSound
  <3>2. Cardinality(Docs(rfDisk[f])) \in Nat /\ Cardinality(Docs(rfDisk[f])) # 0
   <4>1. IsFiniteSet(Docs(rfDisk[f])) BY <2>3, DocsFacts
   <4> QED BY <3>1, <4>1, FS_CardinalityType, FS_EmptySet
  <3>3. 1 \in 1..Len(all) BY <2>3, <3>2, RecordsFacts
  <3> HIDE DEF all
  <3>4. <<all[1]>> \in Seq(Row) /\ AllGiven(rfDisk, <<all[1]>>)
   <4>1. all[1] \in Row /\ Given(rfDisk, all[1]) BY <2>4, <3>3 DEF AllGiven
   <4> QED BY <4>1 DEF AllGiven
  <3> QED BY <1>3, <2>1, <2>2, <2>7, <3>4, <1>2 DEF RowsInv
 <2>8. rfCur' = rfCur \/ rfCur' = all \/ (rfCur' = <<all[1]>> /\ rfDisk[f].bad = "read" /\ ~OpensWhole(rfDisk[f]))
  <3> HIDE DEF all
  <3> QED BY <1>6, <2>3 DEF OpenNext, all
 <2> QED BY <2>5, <2>6, <2>7, <2>8
<1>7. CASE ScanRow
 <2>1. rfCur # <<>> /\ rfCur' = Tail(rfCur) /\ rfRows' = Append(rfRows, rfCur[1]) /\ rfPc' = rfPc /\ rfKeys' = rfKeys /\ rfDisk' = rfDisk
   BY <1>7 DEF ScanRow
 <2>2. Len(rfCur) \in Nat /\ Len(rfCur) # 0 /\ rfCur[1] \in Row /\ Given(rfDisk, rfCur[1])
  <3>1. Len(rfCur) \in Nat /\ Len(rfCur) # 0 BY <1>3, <2>1, EmptySeq
  <3>2. 1 \in 1..Len(rfCur) BY <3>1
  <3> QED BY <1>3, <3>1, <3>2 DEF RowsInv, AllGiven
 <2>3. rfCur' \in Seq(Row) /\ Len(rfCur') = Len(rfCur) - 1 /\ \A k \in 1..Len(rfCur') : rfCur'[k] = rfCur[k + 1]
   BY <1>3, <2>1, HeadTailProperties
 <2>4. rfRows' \in Seq(Row) /\ Len(rfRows') = Len(rfRows) + 1 /\ rfRows'[Len(rfRows) + 1] = rfCur[1]
       /\ \A k \in 1..Len(rfRows) : rfRows'[k] = rfRows[k] BY <1>3, <2>1, <2>2, AppendProperties
 <2>5. AllGiven(rfDisk, rfCur') BY <2>2, <2>3 DEF RowsInv, AllGiven
 <2>6. AllGiven(rfDisk, rfRows')
  <3>1. Len(rfRows) \in Nat BY <1>3
  <3>2. \A k \in 1..Len(rfRows') : k \in 1..Len(rfRows) \/ k = Len(rfRows) + 1 BY <2>4, <3>1
  <3> QED BY <2>2, <2>4, <3>2 DEF RowsInv, AllGiven
 <2> QED BY <1>3, <2>1, <2>3, <2>4, <2>5, <2>6 DEF RowsInv
<1>8. CASE FileEnds \/ FetchDone \/ HitsDone
  BY <1>2, <1>3, <1>8 DEF FileEnds, MidReadError, FetchDone, HitsDone, RowsInv
<1>9. CASE ScanDone \/ SearchHits BY <1>2, <1>3, <1>9 DEF ScanDone, SearchHits, RowsInv
<1>10. CASE FetchOne \/ FetchHit
 <2>1. rfKeys # <<>> /\ rfKeys' = Tail(rfKeys) /\ rfPc' = rfPc /\ rfRows' = rfRows /\ rfCur' = rfCur /\ rfDisk' = rfDisk
   BY <1>10 DEF FetchOne, FetchHit
 <2>2. Len(rfKeys) \in Nat /\ Len(rfKeys) # 0 BY <1>3, <2>1, EmptySeq
 <2>3. rfKeys' \in Seq(Row) /\ Len(rfKeys') = Len(rfKeys) - 1 /\ \A k \in 1..Len(rfKeys') : rfKeys'[k] = rfKeys[k + 1]
   BY <1>3, <2>1, HeadTailProperties
 <2>4. AllGiven(rfDisk, rfKeys') BY <2>2, <2>3 DEF RowsInv, AllGiven
 <2> QED BY <1>3, <2>1, <2>3, <2>4 DEF RowsInv
<1>11. ASSUME OthersStep PROVE RowsInv'
 <2>1. rfRows' = rfRows /\ rfKeys' = rfKeys /\ rfPc' = rfPc BY <1>11 DEF OthersStep
 <2>2. CASE rfCur' = rfCur BY <1>2, <1>3, <2>1, <2>2 DEF RowsInv
 <2>3. CASE rfCur' # rfCur
  <3>1. PICK i \in Docs(rfDisk'[rfList[rfAt]]) :
          rfList[rfAt] \in DOMAIN rfDisk' /\ rfCur' = Append(rfCur, RecordOf(rfList[rfAt], rfDisk'[rfList[rfAt]], i))
    BY <1>11, <2>3 DEF OthersStep
  <3> DEFINE r == RecordOf(rfList[rfAt], rfDisk'[rfList[rfAt]], i)
  <3>2. r \in Row /\ Given(rfDisk', r)
   <4>1. rfDisk'[rfList[rfAt]] \in File /\ rfList[rfAt] \in Nat BY <3>1, GoesOnStep DEF DiskInv
   <4> QED BY <3>1, <4>1, RecordTyped DEF Given
  <3>3. rfCur' = Append(rfCur, r) BY <3>1
  <3> HIDE DEF r
  <3>4. rfCur' \in Seq(Row) /\ Len(rfCur') = Len(rfCur) + 1 /\ rfCur'[Len(rfCur) + 1] = r
        /\ \A k \in 1..Len(rfCur) : rfCur'[k] = rfCur[k] BY <1>3, <3>2, <3>3, AppendProperties
  <3>5. AllGiven(rfDisk', rfCur')
   <4>1. Len(rfCur) \in Nat BY <1>3
   <4>2. \A k \in 1..Len(rfCur') : k \in 1..Len(rfCur) \/ k = Len(rfCur) + 1 BY <3>4, <4>1
   <4> QED BY <1>2, <3>2, <3>4, <4>2 DEF AllGiven
  <3> QED BY <1>2, <1>3, <2>1, <3>4, <3>5 DEF RowsInv
 <2> QED BY <2>2, <2>3
<1>12. CASE UNCHANGED rfVars BY <1>2, <1>3, <1>12 DEF rfVars, RowsInv
<1> QED BY <1>5, <1>6, <1>7, <1>8, <1>9, <1>10, <1>11, <1>12, OthersDo, ArriveDoes DEF RfNext

-----------------------------------------------------------------------------
(* What the rows of a scan are, file by file.                              *)

\* A row that is added is of a file that is not settled yet.
LEMMA SettledAppend ==
  ASSUME NEW rows \in Seq(Row), NEW r \in Row, NEW warned, NEW all, Len(all) \in Nat, NEW f, r.file # f, Settled(rows, warned, all, f)
  PROVE  RowsIn(Append(rows, r), f) = RowsIn(rows, f) /\ Settled(Append(rows, r), warned, all, f)
<1> DEFINE more == Append(rows, r)
<1>1. /\ Len(rows) \in Nat /\ Len(more) = Len(rows) + 1 /\ more[Len(rows) + 1] = r
      /\ \A k \in 1..Len(rows) : more[k] = rows[k] BY AppendProperties
<1> HIDE DEF more
<1>2. \A k : k \in 1..Len(more) <=> k \in 1..Len(rows) \/ k = Len(rows) + 1 BY <1>1
<1>3. RowsIn(more, f) = RowsIn(rows, f)
 <2>1. \A k \in 1..Len(more) : more[k].file = f <=> k \in 1..Len(rows) /\ rows[k].file = f BY <1>1, <1>2
 <2> QED BY <1>2, <2>1 DEF RowsIn
<1>4. CASE RowsIn(rows, f) = {} /\ f \in warned BY <1>3, <1>4 DEF Settled, more
<1>5. CASE \E from \in 0..Len(rows) : \E n \in Len(all)..Len(rows) :
             RowsIn(rows, f) = (from + 1)..(from + n) /\ \A k \in 1..Len(all) : rows[from + k] = all[k]
 <2>1. PICK from \in 0..Len(rows), n \in Len(all)..Len(rows) :
         RowsIn(rows, f) = (from + 1)..(from + n) /\ \A k \in 1..Len(all) : rows[from + k] = all[k] BY <1>5
 <2>4. from \in 0..Len(more) /\ n \in Len(all)..Len(more) BY <1>1, <2>1
 <2>5. \A k \in 1..Len(all) : from + k \in 1..Len(rows)
  <3> SUFFICES ASSUME NEW k \in 1..Len(all) PROVE from + k \in 1..Len(rows) OBVIOUS
  <3>1. from + k \in (from + 1)..(from + n) BY <1>1, <2>1
  <3> QED BY <2>1, <3>1 DEF RowsIn
 <2>6. \A k \in 1..Len(all) : more[from + k] = all[k] BY <1>1, <2>1, <2>5
 <2>7. Settled(more, warned, all, f) BY <1>3, <2>1, <2>4, <2>6 DEF Settled
 <2> QED BY <1>3, <2>7 DEF more
<1> QED BY <1>4, <1>5 DEF Settled

\* A warning does not undo what is settled.
LEMMA SettledWarned ==
  ASSUME NEW rows, NEW warned, NEW more, warned \subseteq more, NEW all, NEW f, Settled(rows, warned, all, f)
  PROVE  Settled(rows, more, all, f)
BY DEF Settled

\* The open file gives a row.
LEMMA ReadOnRow ==
  ASSUME NEW rows \in Seq(Row), NEW cur \in Seq(Row), cur # <<>>, NEW whole, NEW all, NEW f, NEW from \in 0..Len(rows),
         Len(all) \in Nat, ReadOn(rows, cur, whole, all, f, from)
  PROVE  from \in 0..Len(Append(rows, cur[1])) /\ ReadOn(Append(rows, cur[1]), Tail(cur), whole, all, f, from)
<1> DEFINE more == Append(rows, cur[1])
           rest == Tail(cur)
<1>1. Len(cur) \in Nat \ {0} /\ cur[1] \in Row /\ cur[1].file = f
 <2>1. Len(cur) \in Nat /\ Len(cur) # 0 BY EmptySeq
 <2>2. 1 \in 1..Len(cur) BY <2>1
 <2> QED BY <2>1, <2>2 DEF ReadOn
<1>2. /\ Len(rows) \in Nat /\ Len(more) = Len(rows) + 1 /\ more[Len(rows) + 1] = cur[1]
      /\ \A k \in 1..Len(rows) : more[k] = rows[k] BY <1>1, AppendProperties
<1>3. Len(rest) = Len(cur) - 1 /\ \A k \in 1..Len(rest) : rest[k] = cur[k + 1] BY HeadTailProperties
<1> HIDE DEF more, rest
<1>4. \A k : k \in 1..Len(more) <=> k \in 1..Len(rows) \/ k = Len(rows) + 1 BY <1>2
<1>5. RowsIn(more, f) = (from + 1)..Len(more)
 <2>1. \A k \in 1..Len(more) : more[k].file = f <=> k \in RowsIn(rows, f) \/ k = Len(rows) + 1
   BY <1>1, <1>2, <1>4 DEF RowsIn
 <2>2. RowsIn(more, f) = RowsIn(rows, f) \cup {Len(rows) + 1} BY <1>4, <2>1 DEF RowsIn
 <2>3. RowsIn(rows, f) = (from + 1)..Len(rows) BY DEF ReadOn
 <2> QED BY <1>2, <2>2, <2>3
<1>6. \A k \in 1..Len(rest) : rest[k].file = f
 <2>1. \A k \in 1..Len(rest) : k + 1 \in 1..Len(cur) BY <1>1, <1>3
 <2> QED BY <1>3, <2>1 DEF ReadOn
<1>7. ASSUME whole PROVE /\ Len(all) <= (Len(more) - from) + Len(rest)
                         /\ \A k \in 1..Len(all) : all[k] = IF k <= Len(more) - from THEN more[from + k] ELSE rest[k - (Len(more) - from)]
 <2> DEFINE n == Len(rows) - from
 <2>1. n \in Nat /\ Len(more) - from = n + 1 /\ from + n = Len(rows) BY <1>2
 <2>2. Len(all) <= n + Len(cur) /\ \A k \in 1..Len(all) : all[k] = IF k <= n THEN rows[from + k] ELSE cur[k - n]
   BY <1>7 DEF ReadOn
 <2> HIDE DEF n
 <2>3. Len(all) <= (n + 1) + Len(rest) BY <1>1, <1>3, <2>1, <2>2
 <2>4. ASSUME NEW k \in 1..Len(all) PROVE all[k] = IF k <= n + 1 THEN more[from + k] ELSE rest[k - (n + 1)]
  <3>1. CASE k <= n
   <4>1. from + k \in 1..Len(rows) /\ k <= n + 1 BY <1>2, <2>1, <3>1
   <4> QED BY <1>2, <2>2, <3>1, <4>1
  <3>2. CASE k = n + 1
   <4>1. from + k = Len(rows) + 1 /\ k - n = 1 /\ ~(k <= n) /\ k <= n + 1 BY <1>2, <2>1, <3>2
   <4> QED BY <1>2, <2>2, <4>1
  <3>3. CASE k > n + 1
   <4>1. k - (n + 1) \in 1..Len(rest) /\ (k - (n + 1)) + 1 = k - n /\ ~(k <= n) /\ ~(k <= n + 1)
     BY <1>1, <1>3, <2>1, <2>2, <3>3
   <4> QED BY <1>3, <2>2, <4>1
  <3> QED BY <2>1, <3>1, <3>2, <3>3
 <2> QED BY <2>1, <2>3, <2>4
<1>8. from \in 0..Len(more) BY <1>2
<1> QED BY <1>5, <1>6, <1>7, <1>8 DEF ReadOn, more, rest

\* Something is appended to what it has still to give.
LEMMA ReadOnMore ==
  ASSUME NEW rows \in Seq(Row), NEW cur \in Seq(Row), NEW r \in Row, NEW whole, NEW all, NEW f, NEW from \in 0..Len(rows),
         Len(all) \in Nat, r.file = f, ReadOn(rows, cur, whole, all, f, from)
  PROVE  ReadOn(rows, Append(cur, r), whole, all, f, from)
<1> DEFINE more == Append(cur, r)
<1>1. /\ Len(cur) \in Nat /\ Len(rows) \in Nat /\ Len(more) = Len(cur) + 1 /\ more[Len(cur) + 1] = r
      /\ \A k \in 1..Len(cur) : more[k] = cur[k] BY AppendProperties
<1> HIDE DEF more
<1>2. \A k \in 1..Len(more) : more[k].file = f
 <2>1. \A k \in 1..Len(more) : k \in 1..Len(cur) \/ k = Len(cur) + 1 BY <1>1
 <2> QED BY <1>1, <2>1 DEF ReadOn
<1>3. ASSUME whole PROVE /\ Len(all) <= (Len(rows) - from) + Len(more)
                         /\ \A k \in 1..Len(all) : all[k] = IF k <= Len(rows) - from THEN rows[from + k] ELSE more[k - (Len(rows) - from)]
 <2> DEFINE n == Len(rows) - from
 <2>1. n \in Nat BY <1>1
 <2>2. Len(all) <= n + Len(cur) /\ \A k \in 1..Len(all) : all[k] = IF k <= n THEN rows[from + k] ELSE cur[k - n]
   BY <1>3 DEF ReadOn
 <2> HIDE DEF n
 <2>3. \A k \in 1..Len(all) : ~(k <= n) => k - n \in 1..Len(cur) BY <1>1, <2>1, <2>2
 <2>4. Len(all) <= n + Len(more) BY <1>1, <2>1, <2>2
 <2>5. \A k \in 1..Len(all) : all[k] = IF k <= n THEN rows[from + k] ELSE more[k - n] BY <1>1, <2>2, <2>3
 <2> QED BY <2>4, <2>5 DEF n
<1> QED BY <1>2, <1>3 DEF ReadOn, more

\* A file that was read to its end is settled.
LEMMA ReadOnEnds ==
  ASSUME NEW rows \in Seq(Row), NEW all, NEW f, NEW from \in 0..Len(rows), NEW warned,
         Len(all) \in Nat, ReadOn(rows, <<>>, TRUE, all, f, from)
  PROVE  Settled(rows, warned, all, f)
<1> DEFINE n == Len(rows) - from
<1>1. Len(rows) \in Nat /\ n \in 0..Len(rows) /\ from + n = Len(rows) OBVIOUS
<1>2. /\ RowsIn(rows, f) = (from + 1)..Len(rows) /\ Len(all) <= n + Len(<<>>)
      /\ \A k \in 1..Len(all) : all[k] = IF k <= n THEN rows[from + k] ELSE <<>>[k - n] BY DEF ReadOn
<1>3. Len(<<>>) = 0 OBVIOUS
<1> HIDE DEF n
<1>4. Len(all) <= n /\ \A k \in 1..Len(all) : k <= n BY <1>1, <1>2, <1>3
<1>5. n \in Len(all)..Len(rows) /\ \A k \in 1..Len(all) : rows[from + k] = all[k] BY <1>1, <1>2, <1>4
<1> QED BY <1>1, <1>2, <1>5 DEF Settled

\* The file that a scan is at.
LEMMA FileOfList ==
  ASSUME DiskInv, ListInv, rfScans # 0, NEW j \in 1..Len(rfList)
  PROVE  LET f == rfList[j]
         IN  /\ f \in DOMAIN rfCfg.disk /\ f \in DOMAIN rfDisk /\ f \in Nat
             /\ rfDisk[f] \in File /\ FileSound(rfDisk[f]) /\ rfCfg.disk[f] \in File
             /\ FileAt(f) = rfDisk[f] /\ Evolved(rfCfg.disk[f], rfDisk[f])
             /\ Len(WasOf(rfCfg, f)) \in Nat
<1> DEFINE f == rfList[j]
<1>1. f \in DOMAIN rfCfg.disk BY ListOfFiles
<1> HIDE DEF f
<1>2. f \in DOMAIN rfDisk /\ f \in Nat /\ rfDisk[f] \in File /\ FileSound(rfDisk[f]) /\ rfCfg.disk[f] \in File
      /\ Evolved(rfCfg.disk[f], rfDisk[f]) BY <1>1 DEF DiskInv, FilesConfigOK
<1>3. Len(WasOf(rfCfg, f)) \in Nat BY <1>2, RecordsFacts DEF WasOf
<1> QED BY <1>1, <1>2, <1>3 DEF f, FileAt

\* The next file is opened, or passed over with a warning, or ends the scan.
LEMMA OpenStep ==
  ASSUME DiskInv, ListInv, RowsInv, ScanInv, OpenNext
  PROVE  ScanInv'
<1> DEFINE f == rfList[rfAt]
           all == WasOf(rfCfg, f)
<1>1. /\ rfPc = "open" /\ rfAt \in 1..Len(rfList) /\ rfScans # 0 /\ Len(rfList) \in Nat
      /\ UNCHANGED <<rfCfg, rfDisk, rfList, rfRows>> BY ListOfFiles DEF OpenNext, ScanInv, ListInv
<1>2. /\ f \in DOMAIN rfCfg.disk /\ f \in DOMAIN rfDisk /\ rfDisk[f] \in File /\ rfCfg.disk[f] \in File /\ f \in Nat
      /\ FileAt(f) = rfDisk[f] /\ Evolved(rfCfg.disk[f], rfDisk[f]) /\ FileSound(rfDisk[f]) /\ Len(all) \in Nat
  BY <1>1, FileOfList
<1>3. Len(rfRows) \in Nat /\ rfRows \in Seq(Row) BY DEF RowsInv
<1>4. RowsIn(rfRows, f) = {}
 <2> SUFFICES ASSUME NEW k \in 1..Len(rfRows), rfRows[k].file = f PROVE FALSE BY DEF RowsIn
 <2>1. PICK j \in 1..Len(rfList) : rfRows[k].file = rfList[j] /\ j < rfAt BY <1>1 DEF ScanInv
 <2>2. rfList[j] = rfList[rfAt] BY <2>1
 <2>3. j = rfAt BY <1>1, <2>2, ListOfFiles
 <2> QED BY <1>1, <2>1, <2>3
<1>5. /\ \A j \in 1..(rfAt - 1) : Settled(rfRows, rfWarned, WasOf(rfCfg, rfList[j]), rfList[j])
      /\ \A k \in 1..Len(rfRows) : \E j \in 1..Len(rfList) : rfRows[k].file = rfList[j] /\ j < rfAt BY <1>1 DEF ScanInv
<1>6. CASE Unreadable(f) /\ rfCfg.halt
 <2>1. rfPc' = "error" BY <1>6 DEF Unreadable
 <2> QED BY <2>1 DEF ScanInv
<1>7. CASE Unreadable(f) /\ ~rfCfg.halt
 <2>1. rfAt' = rfAt + 1 /\ rfWarned' = rfWarned \cup {f} /\ rfPc' = "open" BY <1>1, <1>7 DEF Unreadable
 <2>2. \A j \in 1..(rfAt' - 1) : Settled(rfRows, rfWarned', WasOf(rfCfg, rfList[j]), rfList[j])
  <3>1. \A j \in 1..(rfAt' - 1) : j \in 1..(rfAt - 1) \/ j = rfAt BY <1>1, <2>1
  <3>2. Settled(rfRows, rfWarned', all, f) BY <1>4, <2>1 DEF Settled
  <3>3. \A j \in 1..(rfAt - 1) : Settled(rfRows, rfWarned', WasOf(rfCfg, rfList[j]), rfList[j])
   <4>1. rfWarned \subseteq rfWarned' BY <2>1
   <4> QED BY <1>5, <4>1, SettledWarned
  <3> QED BY <3>1, <3>2, <3>3
 <2>3. \A k \in 1..Len(rfRows) : \E j \in 1..Len(rfList) : rfRows[k].file = rfList[j] /\ j < rfAt'
  <3>2. \A j \in 1..Len(rfList) : j < rfAt => j < rfAt' BY <1>1, <2>1
  <3> QED BY <1>5, <3>2
 <2>4. rfAt' \in 1..(Len(rfList) + 1) BY <1>1, <2>1
 <2> QED BY <1>1, <2>1, <2>2, <2>3, <2>4 DEF ScanInv
<1>8. CASE rfPc' = "next" /\ UNCHANGED <<rfAt, rfWarned>>
           /\ rfCur' = (IF FileAt(f).bad = "read" THEN <<Records(f, FileAt(f))[1]>> ELSE Records(f, FileAt(f)))
           /\ ~(FileAt(f).bad = "read" /\ OpensWhole(FileAt(f)))
 <2> DEFINE now == Records(f, rfDisk[f])
 <2>1. /\ now \in Seq(Row) /\ (\A k \in 1..Len(now) : now[k].file = f)
       /\ Len(all) <= Len(now) /\ \A k \in 1..Len(all) : now[k] = all[k]
   BY <1>2, RecordsTyped, EvolvedRecords DEF WasOf
 <2>2. rfCur' = IF rfDisk[f].bad = "read" THEN <<now[1]>> ELSE now BY <1>2, <1>8
 <2>3. rfDisk[f].bad = "read" => 1 \in 1..Len(now)
  <3>1. rfDisk[f].bad = "read" => Docs(rfDisk[f]) # {} BY <1>2, <1>8 DEF FileSound
  <3>2. Docs(rfDisk[f]) # {} => Cardinality(Docs(rfDisk[f])) # 0
   <4>1. IsFiniteSet(Docs(rfDisk[f])) BY <1>2, DocsFacts
   <4> QED BY <4>1, FS_EmptySet
  <3>3. Len(now) \in Nat /\ Len(now) = Cardinality(Docs(rfDisk[f])) BY <1>2, RecordsFacts
  <3> QED BY <3>1, <3>2, <3>3
 <2> HIDE DEF now
 <2>4. \A k \in 1..Len(rfCur') : rfCur'[k].file = f
  <3>1. CASE rfDisk[f].bad = "read"
   <4>1. rfCur' = <<now[1]>> /\ now[1].file = f BY <2>1, <2>2, <2>3, <3>1
   <4> QED BY <4>1
  <3>2. CASE rfDisk[f].bad # "read" BY <2>1, <2>2, <3>2
  <3> QED BY <3>1, <3>2
 <2> DEFINE from == Len(rfRows)
            whole == Whole(rfDisk, f)
 <2>5. ReadOn(rfRows, rfCur', whole, all, f, from)
  <3>1. RowsIn(rfRows, f) = (from + 1)..Len(rfRows) BY <1>3, <1>4
  <3>2. ASSUME whole PROVE /\ Len(all) <= (Len(rfRows) - from) + Len(rfCur')
                           /\ \A k \in 1..Len(all) : all[k] = IF k <= Len(rfRows) - from THEN rfRows[from + k] ELSE rfCur'[k - (Len(rfRows) - from)]
   <4>1. rfCur' = now BY <2>2, <3>2 DEF Whole
   <4> HIDE DEF all
   <4>2. Len(rfRows) - from = 0 /\ Len(now) \in Nat BY <1>3, <2>1
   <4>3. Len(all) <= 0 + Len(now) /\ \A k \in 1..Len(all) : ~(k <= 0) /\ k - 0 = k BY <1>2, <2>1, <4>2
   <4> QED BY <2>1, <4>1, <4>2, <4>3
  <3> HIDE DEF from, all, whole
  <3> QED BY <2>4, <3>1, <3>2 DEF ReadOn
 <2>6. from \in 0..Len(rfRows) BY <1>3
 <2>7. \A k \in 1..Len(rfRows) : \E j \in 1..Len(rfList) : rfRows[k].file = rfList[j] /\ (j < rfAt \/ (j = rfAt /\ rfPc' = "next"))
   BY <1>5
 <2>8. /\ rfAt \in 1..(Len(rfList) + 1) /\ rfAt <= Len(rfList) BY <1>1
 <2> QED BY <1>1, <1>5, <1>8, <2>5, <2>6, <2>7, <2>8 DEF ScanInv
<1>9. Unreadable(f) \/ /\ rfPc' = "next" /\ UNCHANGED <<rfAt, rfWarned>>
                       /\ rfCur' = (IF FileAt(f).bad = "read" THEN <<Records(f, FileAt(f))[1]>> ELSE Records(f, FileAt(f)))
                       /\ ~(FileAt(f).bad = "read" /\ OpensWhole(FileAt(f))) BY DEF OpenNext
<1> QED BY <1>6, <1>7, <1>8, <1>9

\* A row of the open file is given.
LEMMA RowStep ==
  ASSUME DiskInv, ListInv, RowsInv, ScanInv, ScanRow
  PROVE  ScanInv'
<1> DEFINE f == rfList[rfAt]
           all == WasOf(rfCfg, f)
           r == rfCur[1]
           whole == Whole(rfDisk, f)
<1>1. /\ rfPc = "next" /\ rfCur # <<>> /\ rfRows' = Append(rfRows, r) /\ rfCur' = Tail(rfCur)
      /\ UNCHANGED <<rfCfg, rfDisk, rfList, rfPc, rfAt, rfWarned>> BY DEF ScanRow
<1>2. /\ rfAt \in 1..Len(rfList) /\ rfScans # 0 /\ Len(rfList) \in Nat BY <1>1, ListOfFiles DEF ScanInv, ListInv
<1>3. f \in DOMAIN rfCfg.disk /\ Len(all) \in Nat /\ rfRows \in Seq(Row) /\ rfCur \in Seq(Row)
  BY <1>2, FileOfList DEF RowsInv
<1>4. PICK from \in 0..Len(rfRows) : ReadOn(rfRows, rfCur, whole, all, f, from) BY <1>1 DEF ScanInv
<1>5. r \in Row /\ r.file = f
 <2>1. Len(rfCur) \in Nat /\ Len(rfCur) # 0 BY <1>1, <1>3, EmptySeq
 <2>2. 1 \in 1..Len(rfCur) BY <2>1
 <2> QED BY <1>3, <1>4, <2>1, <2>2 DEF ReadOn
<1>6. from \in 0..Len(rfRows') /\ ReadOn(rfRows', rfCur', whole, all, f, from)
 <2> HIDE DEF f, all, whole
 <2> QED BY <1>1, <1>3, <1>4, ReadOnRow DEF r
<1> HIDE DEF r
<1>7. \A j \in 1..(rfAt - 1) : Settled(rfRows', rfWarned, WasOf(rfCfg, rfList[j]), rfList[j])
 <2> SUFFICES ASSUME NEW j \in 1..(rfAt - 1) PROVE Settled(rfRows', rfWarned, WasOf(rfCfg, rfList[j]), rfList[j])
   OBVIOUS
 <2>1. j \in 1..Len(rfList) /\ j # rfAt BY <1>2
 <2>2. rfList[j] # f BY <1>2, <2>1, ListOfFiles
 <2>3. Len(WasOf(rfCfg, rfList[j])) \in Nat BY <1>2, <2>1, FileOfList
 <2>4. Settled(rfRows, rfWarned, WasOf(rfCfg, rfList[j]), rfList[j]) BY <1>1 DEF ScanInv
 <2> QED BY <1>1, <1>3, <1>5, <2>2, <2>3, <2>4, SettledAppend
<1>8. \A k \in 1..Len(rfRows') : \E j \in 1..Len(rfList) : rfRows'[k].file = rfList[j] /\ (j < rfAt \/ j = rfAt)
 <2>1. /\ Len(rfRows) \in Nat /\ Len(rfRows') = Len(rfRows) + 1 /\ rfRows'[Len(rfRows) + 1] = r
       /\ \A k \in 1..Len(rfRows) : rfRows'[k] = rfRows[k] BY <1>1, <1>3, <1>5, AppendProperties
 <2>2. \A k \in 1..Len(rfRows') : k \in 1..Len(rfRows) \/ k = Len(rfRows) + 1 BY <2>1
 <2>3. \A k \in 1..Len(rfRows) : \E j \in 1..Len(rfList) : rfRows[k].file = rfList[j] /\ (j < rfAt \/ j = rfAt)
   BY <1>1 DEF ScanInv
 <2> QED BY <1>2, <1>5, <2>1, <2>2, <2>3
<1>9. rfAt \in 1..(Len(rfList) + 1) /\ rfAt <= Len(rfList) BY <1>2
<1> QED BY <1>1, <1>6, <1>7, <1>8, <1>9 DEF ScanInv

\* The open file is at its end, or breaks.
LEMMA EndStep ==
  ASSUME DiskInv, ListInv, RowsInv, ScanInv, FileEnds
  PROVE  ScanInv'
<1> DEFINE f == rfList[rfAt]
           all == WasOf(rfCfg, f)
<1>1. /\ rfPc = "next" /\ rfCur = <<>>
      /\ UNCHANGED <<rfCfg, rfDisk, rfList, rfRows, rfWarned>> BY DEF FileEnds
<1>2. /\ rfAt \in 1..Len(rfList) /\ rfScans # 0 /\ Len(rfList) \in Nat BY <1>1, ListOfFiles DEF ScanInv, ListInv
<1>3. /\ f \in DOMAIN rfDisk /\ FileAt(f) = rfDisk[f] /\ Len(all) \in Nat /\ rfRows \in Seq(Row)
  BY <1>2, FileOfList DEF RowsInv
<1>4. CASE rfDisk[f].bad = "read"
 <2>1. rfPc' = "error" BY <1>3, <1>4 DEF FileEnds, MidReadError
 <2> QED BY <2>1 DEF ScanInv
<1>5. CASE rfDisk[f].bad # "read"
 <2>1. rfAt' = rfAt + 1 /\ rfPc' = "open" BY <1>3, <1>5 DEF FileEnds
 <2>2. PICK from \in 0..Len(rfRows) : ReadOn(rfRows, <<>>, TRUE, all, f, from)
   BY <1>1, <1>3, <1>5 DEF ScanInv, Whole, ReadOn
 <2>3. Settled(rfRows, rfWarned, all, f)
  <3> HIDE DEF f, all
  <3> QED BY <1>3, <2>2, ReadOnEnds
 <2>4. \A j \in 1..(rfAt' - 1) : Settled(rfRows, rfWarned, WasOf(rfCfg, rfList[j]), rfList[j])
  <3>1. \A j \in 1..(rfAt' - 1) : j \in 1..(rfAt - 1) \/ j = rfAt BY <1>2, <2>1
  <3> QED BY <1>1, <2>3, <3>1 DEF ScanInv
 <2>5. \A k \in 1..Len(rfRows) : \E j \in 1..Len(rfList) : rfRows[k].file = rfList[j] /\ j < rfAt'
  <3>1. \A k \in 1..Len(rfRows) : \E j \in 1..Len(rfList) : rfRows[k].file = rfList[j] /\ (j < rfAt \/ j = rfAt)
    BY <1>1 DEF ScanInv
  <3>2. \A j \in 1..Len(rfList) : j < rfAt \/ j = rfAt => j < rfAt' BY <1>2, <2>1
  <3> QED BY <3>1, <3>2
 <2>6. rfAt' \in 1..(Len(rfList) + 1) BY <1>2, <2>1
 <2> QED BY <1>1, <2>1, <2>4, <2>5, <2>6 DEF ScanInv
<1> QED BY <1>4, <1>5

\* The other program does not disturb what the scan has given.
LEMMA OtherScanSteps ==
  ASSUME DiskInv, ListInv, RowsInv, ScanInv, OthersStep, GoesOn(rfDisk, rfDisk')
  PROVE  ScanInv'
<1>1. UNCHANGED <<rfCfg, rfList, rfPc, rfAt, rfRows, rfWarned>> /\ rfScans # 0 BY DEF OthersStep
<1>2. CASE rfPc # "next" BY <1>1, <1>2 DEF ScanInv
<1>3. CASE rfPc = "next"
 <2> DEFINE f == rfList[rfAt]
            all == WasOf(rfCfg, f)
 <2>1. /\ rfAt \in 1..Len(rfList) /\ Len(rfList) \in Nat BY <1>1, <1>3, ListOfFiles DEF ScanInv, ListInv
 <2>2. /\ f \in DOMAIN rfDisk /\ f \in Nat /\ Len(all) \in Nat /\ rfRows \in Seq(Row) /\ rfCur \in Seq(Row)
   BY <1>1, <2>1, FileOfList DEF RowsInv
 <2>3. PICK from \in 0..Len(rfRows) : ReadOn(rfRows, rfCur, Whole(rfDisk, f), all, f, from) BY <1>3 DEF ScanInv
 <2>4. Whole(rfDisk', f) => Whole(rfDisk, f)
  <3>1. f \in DOMAIN rfDisk' /\ Evolved(rfDisk[f], rfDisk'[f]) /\ rfDisk[f] \in File BY <2>2 DEF GoesOn
  <3>2. rfDisk'[f].bad = rfDisk[f].bad \/ rfDisk[f].bad = Blank BY <3>1 DEF Evolved
  <3> HIDE DEF f
  <3> QED BY <2>2, <3>1, <3>2, BlankFacts DEF Whole
 <2>5. ReadOn(rfRows, rfCur, Whole(rfDisk', f), all, f, from)
  <3> HIDE DEF f, all
  <3> QED BY <2>3, <2>4 DEF ReadOn
 <2>6. ReadOn(rfRows, rfCur', Whole(rfDisk', f), all, f, from)
  <3>1. CASE rfCur' = rfCur BY <2>5, <3>1
  <3>2. CASE rfCur' # rfCur
   <4>1. PICK i \in Docs(rfDisk'[f]) : f \in DOMAIN rfDisk' /\ rfCur' = Append(rfCur, RecordOf(f, rfDisk'[f], i))
     BY <3>2 DEF OthersStep
   <4> DEFINE r == RecordOf(f, rfDisk'[f], i)
   <4>2. r \in Row /\ r.file = f
    <5>1. rfDisk'[f] \in File BY <2>2 DEF GoesOn
    <5> HIDE DEF f
    <5> QED BY <2>2, <4>1, <5>1, RecordTyped
   <4>3. rfCur' = Append(rfCur, r) BY <4>1
   <4> HIDE DEF r, f, all
   <4> QED BY <2>2, <2>5, <4>2, <4>3, ReadOnMore
  <3> QED BY <3>1, <3>2
 <2>7. rfPc' = "next" /\ rfAt' = rfAt /\ rfList'[rfAt'] = f /\ WasOf(rfCfg', f) = all BY <1>1, <1>3
 <2>8. \E m \in 0..Len(rfRows) : ReadOn(rfRows, rfCur', Whole(rfDisk', f), all, f, m) BY <2>6
 <2> HIDE DEF f, all
 <2> QED BY <1>1, <1>3, <2>7, <2>8 DEF ScanInv
<1> QED BY <1>2, <1>3

\* Each step keeps the account of the rows.
LEMMA ScanStep ==
  ASSUME DiskInv, ListInv, RowsInv, ScanInv, [RfNext]_rfVars
  PROVE  ScanInv'
<1>1. CASE KeyspaceRecordsOpen
 <2>1. rfPc' = "open" /\ rfAt' = 1 /\ rfRows' = <<>> BY <1>1 DEF KeyspaceRecordsOpen
 <2>2. Len(rfList') \in Nat
  <3>1. DiskInv' /\ ListInv' /\ rfScans' # 0 BY <1>1, ListStep, GoesOnStep DEF KeyspaceRecordsOpen, ListInv
  <3>2. rfList' = WalkFiles(rfCfg'.disk, rfCfg'.opts) BY <3>1 DEF ListInv
  <3> DEFINE S == {f \in DOMAIN rfCfg'.disk : Eligible(rfCfg'.disk[f], rfCfg'.opts) /\ Visible(rfCfg'.disk[f], rfCfg'.opts)}
  <3>3. S \in SUBSET DOMAIN rfCfg'.disk /\ IsFiniteSet(DOMAIN rfCfg'.disk) /\ DOMAIN rfCfg'.disk \subseteq Nat \ {0}
    BY <3>1 DEF DiskInv, FilesConfigOK
  <3>4. S \in SUBSET Nat /\ IsFiniteSet(S) BY <3>3, FS_Subset
  <3> QED BY <3>2, <3>4, InOrderFacts DEF WalkFiles
 <2>3. rfAt' \in 1..(Len(rfList') + 1) BY <2>1, <2>2
 <2> QED BY <2>1, <2>3 DEF ScanInv
<1>2. CASE ScanDone
 <2>1. rfPc = "open" /\ rfPc' = "fetch" /\ rfAt > Len(rfList) /\ UNCHANGED <<rfCfg, rfList, rfRows, rfWarned>>
   BY <1>2 DEF ScanDone
 <2>2. Len(rfList) \in Nat BY <2>1, ListOfFiles DEF ListInv
 <2>3. \A j \in 1..Len(rfList) : j \in 1..(rfAt - 1) BY <2>1, <2>2 DEF ScanInv
 <2> QED BY <2>1, <2>3 DEF ScanInv
<1>3. CASE SearchHits \/ FetchHit \/ HitsDone \/ FetchDone
  BY <1>3 DEF SearchHits, FetchHit, HitsDone, FetchDone, ScanInv
<1>4. CASE FetchOne
 <2>1. rfPc = "fetch" /\ UNCHANGED <<rfCfg, rfList, rfPc, rfRows, rfWarned>> BY <1>4 DEF FetchOne
 <2> QED BY <2>1 DEF ScanInv
<1>5. CASE UNCHANGED rfVars BY <1>5 DEF rfVars, ScanInv
<1> QED BY <1>1, <1>2, <1>3, <1>4, <1>5, OpenStep, RowStep, EndStep, OtherScanSteps, OthersDo, ArriveDoes, GoesOnStep DEF RfNext

-----------------------------------------------------------------------------
(* Fetches.                                                                *)

\* A document of its own, <key>.json, is told by its stem among the files as they are.
LEMMA StemsNow ==
  ASSUME DiskInv, NEW f \in DOMAIN rfDisk, NEW g \in DOMAIN rfDisk, NamedByStem(rfDisk[f]), KeyJson(rfDisk[g]), rfDisk[f].stem = rfDisk[g].stem
  PROVE  f = g
<1>1. \A h \in DOMAIN rfDisk : rfDisk[h].fmt # "jsonl" =>
        /\ h \in DOMAIN rfCfg.disk /\ Evolved(rfCfg.disk[h], rfDisk[h]) /\ rfCfg.disk[h] \in File /\ rfDisk[h] \in File
        /\ Docs(rfDisk[h]) = Docs(rfCfg.disk[h])
 <2> SUFFICES ASSUME NEW h \in DOMAIN rfDisk, rfDisk[h].fmt # "jsonl"
              PROVE  /\ h \in DOMAIN rfCfg.disk /\ Evolved(rfCfg.disk[h], rfDisk[h]) /\ rfCfg.disk[h] \in File /\ rfDisk[h] \in File
                     /\ Docs(rfDisk[h]) = Docs(rfCfg.disk[h]) OBVIOUS
 <2>1. h \in DOMAIN rfCfg.disk /\ Evolved(rfCfg.disk[h], rfDisk[h]) /\ rfCfg.disk[h] \in File /\ rfDisk[h] \in File
   BY DEF DiskInv, FilesConfigOK
 <2> QED BY <2>1, EvolvedDocs
<1>2. rfDisk[f].fmt # "jsonl" /\ rfDisk[g].fmt # "jsonl" BY DEF NamedByStem, KeyJson
<1>3. NamedByStem(rfCfg.disk[f]) /\ KeyJson(rfCfg.disk[g]) /\ rfCfg.disk[f].stem = rfCfg.disk[g].stem
  BY <1>1, <1>2 DEF NamedByStem, KeyJson, Evolved
<1> QED BY <1>1, <1>2, <1>3 DEF DiskInv, FilesConfigOK

\* A .json file that is named by its stem has one document.
LEMMA OneDoc ==
  ASSUME NEW f, NamedByStem(f), KeyJson(f)
  PROVE  Cardinality(Docs(f)) <= 1
BY DEF NamedByStem, KeyJson

\* What a fetch of a record is to give.
DueOf(r) == IF ReadWhole(r) /\ FileAt(r.file).array THEN "file" ELSE r.doc

\* What is found under the id of a record is what a fetch of it is to give.
LEMMA FoundIsIt ==
  ASSUME DiskInv, NEW r \in Row, Given(rfDisk, r), NEW doc, Found(rfDisk, rfCfg.kind, r.id, doc)
  PROVE  doc = DueOf(r)
<1>1. PICK f \in DOMAIN rfDisk : \E i \in Docs(rfDisk[f]) : r = RecordOf(f, rfDisk[f], i) BY DEF Given
<1>2. PICK i \in Docs(rfDisk[f]) : r = RecordOf(f, rfDisk[f], i) BY <1>1
<1> DEFINE a == rfDisk[f]
<1>3. a \in File /\ f \in Nat \ {0} /\ FileSound(a) BY DEF DiskInv
<1>4. /\ r.doc = a.units[i] /\ r.file = f
      /\ r.id.off # -1 => r.id.rel = f /\ r.id.off = i - 1 /\ ~a.gz /\ r.id.n # -1
      /\ r.id.off = -1 /\ r.id.n = -1 => NamedByStem(a) /\ r.id.stem = a.stem
 <2> HIDE DEF a
 <2> QED BY <1>2, <1>3, RecordTyped, RecordIdFacts DEF a
<1>5. i \in Nat BY <1>3, OrdinalType
<1>10. FileAt(r.file) = a BY <1>4 DEF FileAt
<1>6. CASE r.id.off # -1
 <2>1. (i - 1) + 1 = i BY <1>5
 <2>2. doc = rfDisk[r.id.rel].units[r.id.off + 1] BY <1>6 DEF Found
 <2>3. r.id.rel = f /\ r.id.off = i - 1 BY <1>4, <1>6
 <2>4. doc = rfDisk[f].units[(i - 1) + 1] BY <2>2, <2>3
 <2>5. DueOf(r) = r.doc BY <1>6 DEF DueOf, ReadWhole
 <2> QED BY <1>4, <2>1, <2>4, <2>5
<1>7. CASE r.id.off = -1
 <2>1. r.id.n = -1 /\ rfCfg.kind = "classic" /\ \E g \in KeyFiles(rfDisk, r.id) : doc = WholeText(rfDisk[g])
   BY <1>7 DEF Found
 <2>2. PICK g \in KeyFiles(rfDisk, r.id) : doc = WholeText(rfDisk[g]) BY <2>1
 <2>3. NamedByStem(a) /\ KeyJson(rfDisk[g]) /\ rfDisk[g].stem = a.stem /\ g \in DOMAIN rfDisk
   BY <1>4, <1>7, <2>1, <2>2 DEF KeyFiles
 <2>4. f = g BY <2>3, StemsNow
 <2>5. Cardinality(Docs(a)) <= 1 BY <2>3, <2>4, OneDoc
 <2>6. KeyJson(a) BY <2>3, <2>4
 <2>7. doc = WholeText(a) BY <2>2, <2>4
 <2> HIDE DEF a
 <2>8. doc = IF a.array THEN "file" ELSE a.units[i] BY <1>2, <1>3, <2>5, <2>7, OnlyDoc DEF a
 <2>9. ReadWhole(r) BY <1>7, <1>10, <2>1, <2>6 DEF ReadWhole, KeyJson
 <2> QED BY <1>4, <1>10, <2>8, <2>9 DEF DueOf
<1> QED BY <1>6, <1>7

\* What a fetch may say when it finds nothing.
MayMiss(r) == FileAt(r.file).bad = "open" \/ (r.id.off = -1 /\ ~ReadWhole(r))

\* A read gives what it is to give, or misses it where it may.
LEMMA ReadFacts ==
  ASSUME DiskInv, NEW r \in Row, Given(rfDisk, r)
  PROVE  LET doc == ReadDoc(r.id)
         IN  /\ r.file \in DOMAIN rfDisk /\ r.doc # Blank /\ r.doc # "error"
             /\ doc \in {Blank, DueOf(r)} /\ DueOf(r) # Blank /\ DueOf(r) # "error"
             /\ doc = Blank => MayMiss(r)
             /\ doc # Blank => Found(rfDisk, rfCfg.kind, r.id, doc)
<1>1. PICK f \in DOMAIN rfDisk : \E i \in Docs(rfDisk[f]) : r = RecordOf(f, rfDisk[f], i) BY DEF Given
<1>2. PICK i \in Docs(rfDisk[f]) : r = RecordOf(f, rfDisk[f], i) BY <1>1
<1> DEFINE a == rfDisk[f]
           doc == ReadDoc(r.id)
<1>3. a \in File /\ f \in Nat \ {0} /\ FileSound(a) /\ FileAt(f) = a /\ rfCfg.kind \in {"classic", "flat"}
  BY DEF DiskInv, FileAt, FilesConfigOK
<1>4. /\ r.doc = a.units[i] /\ r.file = f
      /\ r.id.off # -1 => r.id.rel = f /\ r.id.off = i - 1 /\ ~a.gz /\ r.id.n # -1
      /\ r.id.off = -1 /\ r.id.n = -1 => NamedByStem(a) /\ r.id.stem = a.stem
 <2> HIDE DEF a
 <2> QED BY <1>2, <1>3, RecordTyped, RecordIdFacts DEF a
<1>5. i \in 1..Len(a.units) /\ Len(a.units) \in Nat /\ a.units[i] # Blank
 <2> HIDE DEF a
 <2> QED BY <1>2, <1>3, DocsFacts DEF a
<1>6. r.doc # Blank /\ r.doc # "error" BY <1>3, <1>4, <1>5 DEF FileSound
<1>10. DueOf(r) # Blank /\ DueOf(r) # "error"
 <2>1. "file" # Blank /\ "file" # "error" BY Zenon, BlankFacts
 <2> QED BY <1>6, <2>1 DEF DueOf
<1>11. FileAt(r.file) = a BY <1>3, <1>4
<1>7. CASE r.id.off # -1
 <2>1. r.id.rel = f /\ r.id.off = i - 1 /\ (i - 1) + 1 = i /\ i - 1 \in 0..(Len(a.units) - 1) /\ ~(i - 1 >= Len(a.units))
  <3> DEFINE n == Len(a.units)
  <3>1. n \in Nat /\ i \in 1..n BY <1>5
  <3> HIDE DEF n
  <3>2. (i - 1) + 1 = i /\ i - 1 \in 0..(n - 1) /\ ~(i - 1 >= n) BY <3>1
  <3> QED BY <1>4, <1>7, <3>2 DEF n
 <2>2. doc = IF a.bad = "open" THEN Blank ELSE a.units[i]
  <3>1. doc = ContainerRecord(r.id) BY <1>7 DEF ReadDoc
  <3>2. FetchBase = ScanBase BY <1>3 DEF FetchBase, ScanBase
  <3>3. FileAt(r.id.rel) = a BY <1>3, <2>1
  <3> HIDE DEF a, doc
  <3>4. doc = IF a.bad = "open" \/ r.id.off >= Len(a.units) THEN Blank ELSE a.units[r.id.off + 1]
    BY <3>1, <3>2, <3>3 DEF ContainerRecord
  <3> QED BY <2>1, <3>4
 <2>3. a.bad = "open" => MayMiss(r) BY <1>3, <1>4 DEF MayMiss
 <2>4. Found(rfDisk, rfCfg.kind, r.id, r.doc)
  <3>1. r.doc = rfDisk[r.id.rel].units[r.id.off + 1] BY <1>4, <2>1
  <3>2. r.id.rel \in DOMAIN rfDisk /\ r.id.off \in 0..(Len(rfDisk[r.id.rel].units) - 1) BY <2>1
  <3> QED BY <1>7, <3>1, <3>2 DEF Found
 <2> HIDE DEF a, doc
 <2>5. CASE a.bad = "open" BY <1>1, <1>4, <1>6, <1>10, <2>2, <2>3, <2>5 DEF doc
 <2>7. DueOf(r) = r.doc BY <1>7 DEF DueOf, ReadWhole
 <2>6. CASE a.bad # "open" BY <1>1, <1>4, <1>6, <1>10, <2>2, <2>4, <2>6, <2>7 DEF doc
 <2> QED BY <2>5, <2>6
<1>8. CASE r.id.off = -1 /\ ~(rfCfg.kind = "classic" /\ r.id.n = -1)
 <2>1. doc = Blank BY <1>8 DEF ReadDoc, WholeFile
 <2>2. MayMiss(r) BY <1>8 DEF MayMiss, ReadWhole
 <2> HIDE DEF doc
 <2> QED BY <1>1, <1>4, <1>6, <1>10, <2>1, <2>2 DEF doc
<1>9. CASE r.id.off = -1 /\ rfCfg.kind = "classic" /\ r.id.n = -1
 <2>1. NamedByStem(a) /\ r.id.stem = a.stem BY <1>4, <1>9
 <2>2. doc = WholeFile(r.id) BY <1>9 DEF ReadDoc
 <2>3. DocFile(r.id) = KeyFiles(rfDisk, r.id) BY DEF DocFile, KeyFiles, KeyJson
 <2>4. \A g \in DocFile(r.id) : g = f /\ KeyJson(a) /\ WholeText(a) = IF a.array THEN "file" ELSE a.units[i]
  <3> SUFFICES ASSUME NEW g \in DocFile(r.id)
               PROVE  g = f /\ KeyJson(a) /\ WholeText(a) = IF a.array THEN "file" ELSE a.units[i] OBVIOUS
  <3>1. g \in DOMAIN rfDisk /\ KeyJson(rfDisk[g]) /\ rfDisk[g].stem = a.stem BY <2>1, <2>3 DEF KeyFiles
  <3>2. f = g BY <2>1, <3>1, StemsNow
  <3>3. Cardinality(Docs(a)) <= 1 /\ KeyJson(a) BY <2>1, <3>1, <3>2, OneDoc
  <3> HIDE DEF a
  <3> QED BY <1>2, <1>3, <3>2, <3>3, OnlyDoc DEF a
 <2>5. CASE DocFile(r.id) = {}
  <3>1. doc = Blank BY <2>2, <2>5 DEF WholeFile
  <3>2. ~KeyJson(a) BY <2>1, <2>3, <2>5 DEF KeyFiles
  <3>3. MayMiss(r)
   <4> HIDE DEF a
   <4> QED BY <1>9, <1>11, <3>2 DEF MayMiss, ReadWhole, KeyJson
  <3> HIDE DEF doc
  <3> QED BY <1>1, <1>4, <1>6, <1>10, <3>1, <3>3 DEF doc
 <2>6. CASE DocFile(r.id) # {}
  <3>1. (CHOOSE g \in DocFile(r.id) : TRUE) = f /\ f \in DocFile(r.id) BY <2>4, <2>6
  <3>2. KeyJson(a) /\ WholeText(a) = IF a.array THEN "file" ELSE a.units[i] BY <2>4, <3>1
  <3>3. a.units # <<>>
   <4> HIDE DEF a
   <4> QED BY <1>5, EmptySeq
  <3>4. DueOf(r) = WholeText(a)
   <4> HIDE DEF a
   <4>1. ReadWhole(r) BY <1>9, <1>11, <3>2 DEF ReadWhole, KeyJson
   <4> QED BY <1>4, <1>11, <3>2, <4>1 DEF DueOf
  <3>5. doc = IF a.bad = "open" THEN Blank ELSE WholeText(a)
   <4>1. doc = IF a.bad = "open" \/ (a.units = <<>> /\ ~a.array) THEN Blank ELSE WholeText(a)
     BY <1>9, <2>2, <2>6, <3>1 DEF WholeFile
   <4> HIDE DEF doc, a
   <4> QED BY <3>3, <4>1
  <3>6. a.bad = "open" => MayMiss(r) BY <1>3, <1>4 DEF MayMiss
  <3>7. Found(rfDisk, rfCfg.kind, r.id, WholeText(a))
   <4>1. f \in KeyFiles(rfDisk, r.id) BY <2>3, <3>1
   <4> QED BY <1>9, <4>1 DEF Found
  <3> HIDE DEF a, doc
  <3>8. CASE a.bad = "open" BY <1>1, <1>4, <1>6, <1>10, <3>5, <3>6, <3>8 DEF doc
  <3>9. CASE a.bad # "open" BY <1>1, <1>4, <1>6, <1>10, <3>4, <3>5, <3>7, <3>9 DEF doc
  <3> QED BY <3>8, <3>9
 <2> QED BY <2>5, <2>6
<1> QED BY <1>7, <1>8, <1>9

\* What was fetched stays right while the files go on.
LEMMA FetchedStays ==
  ASSUME GoesOn(rfDisk, rfDisk'), rfCfg' = rfCfg, GotInv, FetchFindsRecord, NEW g \in rfGot
  PROVE  /\ g.file \in DOMAIN rfDisk' /\ g.doc \in {Blank, Due(g)'}
         /\ g.doc = Blank => FileAt(g.file)'.bad = "open" \/ (g.id.off = -1 /\ ~ReadWhole(g)')
<1>1. g.file \in DOMAIN rfDisk /\ g.file \in DOMAIN rfDisk' BY DEF GotInv, GoesOn
<1> DEFINE a == rfDisk[g.file]
           b == rfDisk'[g.file]
<1>2. FileAt(g.file) = a /\ FileAt(g.file)' = b /\ Evolved(a, b) BY <1>1 DEF FileAt, GoesOn
<1>3. /\ g.doc \in {Blank, Due(g)}
      /\ g.doc = Blank => a.bad = "open" \/ (g.id.off = -1 /\ ~ReadWhole(g)) BY <1>2 DEF FetchFindsRecord
<1>4. (a.bad = "open" => b.bad = "open") /\ b.fmt = a.fmt /\ b.dir = a.dir /\ b.gz = a.gz /\ b.array = a.array
 <2> HIDE DEF a, b
 <2> QED BY <1>2, BlankFacts DEF Evolved
<1> HIDE DEF a, b
<1>5. ReadWhole(g)' = ReadWhole(g) BY <1>2, <1>4 DEF ReadWhole
<1>6. Due(g)' = Due(g) BY <1>2, <1>4, <1>5 DEF Due
<1> QED BY <1>1, <1>2, <1>3, <1>4, <1>5, <1>6

\* The next key to be fetched is a record of a file.
LEMMA KeyIsGiven ==
  ASSUME RowsInv, rfKeys # <<>>
  PROVE  rfKeys[1] \in Row /\ Given(rfDisk, rfKeys[1])
<1>1. Len(rfKeys) \in Nat /\ Len(rfKeys) # 0 /\ rfKeys \in Seq(Row) BY EmptySeq DEF RowsInv
<1>2. 1 \in 1..Len(rfKeys) BY <1>1
<1> QED BY <1>1, <1>2 DEF RowsInv, AllGiven

\* What a fetch adds is right.
LEMMA FetchAdds ==
  ASSUME DiskInv, NEW k \in Row, Given(rfDisk, k), GotInv, FetchFindsRecord, rfDisk' = rfDisk, rfCfg' = rfCfg,
         NEW doc, doc \in {Blank, DueOf(k)}, doc = Blank => MayMiss(k),
         NEW s, rfGot' = rfGot \cup {[id |-> k.id, doc |-> doc, want |-> k.doc, file |-> k.file, scan |-> s]}
  PROVE  GotInv' /\ FetchFindsRecord'
<1> DEFINE new == [id |-> k.id, doc |-> doc, want |-> k.doc, file |-> k.file, scan |-> s]
<1>1. k.file \in DOMAIN rfDisk BY ReadFacts
<1>2. new.file = k.file /\ new.id = k.id /\ new.doc = doc /\ new.want = k.doc OBVIOUS
<1>3. rfGot' = rfGot \cup {new} OBVIOUS
<1> HIDE DEF new
<1>4. GotInv' BY <1>1, <1>2, <1>3 DEF GotInv
<1>5. \A f : FileAt(f)' = FileAt(f) BY DEF FileAt
<1>6. FetchFindsRecord'
 <2>1. \A g : ReadWhole(g)' = ReadWhole(g) BY <1>5 DEF ReadWhole
 <2>2. \A g : Due(g)' = Due(g) BY <1>5, <2>1 DEF Due
 <2>3. ASSUME NEW g \in rfGot
       PROVE  /\ g.doc \in {Blank, Due(g)'}
              /\ g.doc = Blank => FileAt(g.file)'.bad = "open" \/ (g.id.off = -1 /\ ~ReadWhole(g)')
   BY <1>5, <2>1, <2>2 DEF FetchFindsRecord
 <2>4. ReadWhole(new) <=> ReadWhole(k) BY <1>2 DEF ReadWhole
 <2>5. Due(new) = DueOf(k) BY <1>2, <2>4 DEF Due, DueOf
 <2>6. /\ new.doc \in {Blank, Due(new)'}
       /\ new.doc = Blank => FileAt(new.file)'.bad = "open" \/ (new.id.off = -1 /\ ~ReadWhole(new)')
   BY <1>2, <1>5, <2>1, <2>2, <2>4, <2>5 DEF MayMiss
 <2> QED BY <1>3, <2>3, <2>6 DEF FetchFindsRecord
<1> QED BY <1>4, <1>6

\* The cache takes what was found, within its bound.
LEMMA CacheAdds ==
  ASSUME CacheInv, RfCacheMax \in Nat, NEW id, NEW doc, Found(rfDisk, rfCfg.kind, id, doc), CachePut(id, doc), rfDisk' = rfDisk, rfCfg' = rfCfg
  PROVE  CacheInv'
<1>1. IsFiniteSet(rfCache) /\ Cardinality(rfCache) \in Nat /\ Cardinality(rfCache) <= RfCacheMax /\ RfCacheMax \in Nat
  BY FS_CardinalityType DEF CacheInv
<1>2. CASE rfCache' = rfCache BY <1>2 DEF CacheInv
<1>3. CASE Cardinality(rfCache) < RfCacheMax /\ rfCache' = rfCache \cup {[id |-> id, doc |-> doc]}
 <2> DEFINE e == [id |-> id, doc |-> doc]
 <2>1. e.id = id /\ e.doc = doc /\ rfCache' = rfCache \cup {e} BY <1>3
 <2> HIDE DEF e
 <2>2. \A x \in rfCache' : Found(rfDisk', rfCfg.kind, x.id, x.doc) BY <2>1 DEF CacheInv
 <2>3. IsFiniteSet(rfCache') /\ Cardinality(rfCache') <= Cardinality(rfCache) + 1
  <3>1. IsFiniteSet(rfCache') /\ (Cardinality(rfCache') = Cardinality(rfCache) \/ Cardinality(rfCache') = Cardinality(rfCache) + 1)
    BY <1>1, <2>1, FS_AddElement
  <3>2. \A n \in Nat : n <= n + 1 OBVIOUS
  <3> QED BY <1>1, <3>1, <3>2
 <2>4. Cardinality(rfCache') <= RfCacheMax
  <3>1. Cardinality(rfCache') \in Nat BY <2>3, FS_CardinalityType
  <3> QED BY <1>1, <1>3, <2>3, <3>1
 <2> QED BY <2>2, <2>3, <2>4 DEF CacheInv
<1> QED BY <1>2, <1>3 DEF CachePut

\* Each step keeps the cache and the answers right.
LEMMA FetchStep ==
  ASSUME DiskInv, ListInv, RowsInv, CacheInv, GotInv, FetchFindsRecord, RfCacheMax \in Nat, [RfNext]_rfVars
  PROVE  CacheInv' /\ GotInv' /\ FetchFindsRecord'
<1>1. GoesOn(rfDisk, rfDisk') /\ \A id, doc : Found(rfDisk, rfCfg.kind, id, doc) => Found(rfDisk', rfCfg.kind, id, doc)
  BY GoesOnStep, FoundStays
<1>2. rfCfg' = rfCfg BY CfgStays
<1>3. rfCache' = rfCache => CacheInv' BY <1>1, <1>2 DEF CacheInv
<1>4. ASSUME rfGot' = rfGot PROVE GotInv' /\ FetchFindsRecord'
  BY <1>1, <1>2, <1>4, FetchedStays DEF GotInv, FetchFindsRecord
<1>5. CASE FetchOne
 <2> DEFINE k == rfKeys[1]
            hit == Cached(k.id)
            doc == IF hit # {} THEN (CHOOSE e \in hit : TRUE).doc ELSE ReadDoc(k.id)
 <2>1. /\ rfKeys # <<>> /\ rfDisk' = rfDisk
       /\ rfGot' = rfGot \cup {[id |-> k.id, doc |-> doc, want |-> k.doc, file |-> k.file, scan |-> rfScans]}
       /\ IF hit # {} \/ doc \in {Blank, "error"} THEN rfCache' = rfCache ELSE CachePut(k.id, doc) BY <1>5 DEF FetchOne
 <2>2. k \in Row /\ Given(rfDisk, k) BY <2>1, KeyIsGiven
 <2>3. /\ k.doc # Blank /\ k.doc # "error" /\ ReadDoc(k.id) \in {Blank, DueOf(k)} /\ DueOf(k) # Blank /\ DueOf(k) # "error"
       /\ ReadDoc(k.id) = Blank => MayMiss(k)
       /\ ReadDoc(k.id) # Blank => Found(rfDisk, rfCfg.kind, k.id, ReadDoc(k.id)) BY <2>2, ReadFacts
 <2>4. CASE hit # {}
  <3>1. PICK e \in hit : doc = e.doc BY <2>4
  <3>2. e.id = k.id /\ Found(rfDisk, rfCfg.kind, k.id, doc) BY <3>1 DEF Cached, CacheInv
  <3>3. doc = DueOf(k) BY <2>2, <3>2, FoundIsIt
  <3> HIDE DEF k, doc, hit
  <3>4. GotInv' /\ FetchFindsRecord' BY <1>2, <2>1, <2>2, <2>3, <3>3, FetchAdds
  <3> QED BY <1>3, <2>1, <2>4, <3>4
 <2>5. CASE hit = {}
  <3>1. doc = ReadDoc(k.id) BY <2>5
  <3> HIDE DEF k, doc, hit
  <3>2. GotInv' /\ FetchFindsRecord' BY <1>2, <2>1, <2>2, <2>3, <3>1, FetchAdds
  <3>3. doc \in {Blank, "error"} \/ (CachePut(k.id, doc) /\ Found(rfDisk, rfCfg.kind, k.id, doc)) BY <2>1, <2>3, <2>5, <3>1
  <3>4. CacheInv' BY <1>2, <1>3, <2>1, <3>3, CacheAdds
  <3> QED BY <3>2, <3>4
 <2> QED BY <2>4, <2>5
<1>6. CASE FetchHit
 <2> DEFINE k == rfKeys[1]
            read == ReadDoc(k.id)
            doc == IF read = "error" THEN Blank ELSE read
 <2>1. /\ rfKeys # <<>> /\ rfDisk' = rfDisk /\ rfCache' = rfCache
       /\ rfGot' = rfGot \cup {[id |-> k.id, doc |-> doc, want |-> k.doc, file |-> k.file, scan |-> rfScans]}
   BY <1>6 DEF FetchHit
 <2>2. k \in Row /\ Given(rfDisk, k) BY <2>1, KeyIsGiven
 <2>3. /\ k.doc # Blank /\ k.doc # "error" /\ read \in {Blank, DueOf(k)} /\ DueOf(k) # Blank /\ DueOf(k) # "error"
       /\ read = Blank => MayMiss(k) BY <2>2, ReadFacts
 <2>4. doc = read
  <3> HIDE DEF read, k
  <3> QED BY <2>3, BlankFacts
 <2> HIDE DEF k, doc, read
 <2> QED BY <1>2, <1>3, <2>1, <2>2, <2>3, <2>4, FetchAdds
<1>7. CASE KeyspaceRecordsOpen \/ OpenNext \/ ScanRow \/ FileEnds \/ ScanDone \/ FetchDone \/ SearchHits \/ HitsDone \/ UNCHANGED rfVars
 <2>1. rfGot' = rfGot /\ rfCache' = rfCache
   BY <1>7 DEF KeyspaceRecordsOpen, OpenNext, ScanRow, FileEnds, ScanDone, FetchDone, SearchHits, HitsDone, rfVars
 <2> QED BY <1>3, <1>4, <2>1
<1>8. ASSUME OthersStep PROVE CacheInv' /\ GotInv' /\ FetchFindsRecord'
 <2>1. rfGot' = rfGot /\ rfCache' = rfCache BY <1>8 DEF OthersStep
 <2> QED BY <1>3, <1>4, <2>1
<1> QED BY <1>5, <1>6, <1>7, <1>8, OthersDo, ArriveDoes DEF RfNext

-----------------------------------------------------------------------------
(* What the invariant says of a scan.                                      *)

\* The positions of the records of a file rise.
LEMMA PositionsOf ==
  ASSUME NEW f \in File, FileSound(f), NEW p \in Nat, NEW j \in 2..Len(Records(p, f))
  PROVE  LET a == ParseRecordPos(Records(p, f)[j - 1].id)
             b == ParseRecordPos(Records(p, f)[j].id)
         IN a.ok /\ b.ok /\ a.path = b.path /\ a.pos < b.pos /\ (a.seekable => ~f.gz)
<1> DEFINE x == InOrder(Docs(f))[j - 1]
           y == InOrder(Docs(f))[j]
           n == Cardinality(Docs(f))
<1>1. /\ n \in Nat /\ Len(Records(p, f)) = n /\ Docs(f) \in SUBSET Nat /\ IsFiniteSet(Docs(f))
      /\ \A k \in 1..n : InOrder(Docs(f))[k] \in Docs(f) /\ Records(p, f)[k] = RecordOf(p, f, InOrder(Docs(f))[k])
  BY RecordsFacts, DocsFacts
<1>2. j \in 1..n /\ j - 1 \in 1..n /\ j - 1 < j /\ n >= 2 BY <1>1
<1>3. /\ x \in Docs(f) /\ y \in Docs(f) /\ x < y
      /\ Records(p, f)[j - 1] = RecordOf(p, f, x) /\ Records(p, f)[j] = RecordOf(p, f, y) BY <1>1, <1>2, InOrderFacts
<1> HIDE DEF x, y
<1> DEFINE u == RecordId(p, f, x)
           v == RecordId(p, f, y)
<1>4. Records(p, f)[j - 1].id = u /\ Records(p, f)[j].id = v BY <1>3, RecordTyped
<1>5. /\ Ordinal(f, x) \in Nat /\ Ordinal(f, y) \in Nat /\ Ordinal(f, x) < Ordinal(f, y)
      /\ x \in Nat \ {0} /\ y \in Nat \ {0} BY <1>3, OrdinalType
<1>6. ~(n = 1) /\ f.fmt # "toml" BY <1>1, <1>2 DEF FileSound
<1>7. \/ u = Id(p, x - 1, IF f.gz THEN -1 ELSE x - 1) /\ v = Id(p, y - 1, IF f.gz THEN -1 ELSE y - 1)
      \/ u = Id(p, Ordinal(f, x), -1) /\ v = Id(p, Ordinal(f, y), -1)
      \/ u = Id(p, Ordinal(f, x), IF f.gz THEN -1 ELSE x - 1) /\ v = Id(p, Ordinal(f, y), IF f.gz THEN -1 ELSE y - 1)
  BY <1>6 DEF RecordId, LineId
<1>8. \E m, k \in Nat : \E c, d \in Int :
        /\ u = Id(p, m, c) /\ v = Id(p, k, d) /\ m < k
        /\ (c = -1 /\ d = -1) \/ (~f.gz /\ c # -1 /\ d # -1 /\ c < d)
 <2>1. x - 1 \in Nat /\ y - 1 \in Nat /\ x - 1 < y - 1 /\ x - 1 # -1 /\ y - 1 # -1 /\ -1 \in Int BY <1>3, <1>5
 <2> DEFINE x1 == x - 1
            y1 == y - 1
            ox == Ordinal(f, x)
            oy == Ordinal(f, y)
 <2>2. x1 \in Nat /\ y1 \in Nat /\ x1 < y1 /\ x1 # -1 /\ y1 # -1 /\ -1 \in Int /\ x1 \in Int /\ y1 \in Int BY <2>1
 <2>3. ox \in Nat /\ oy \in Nat /\ ox < oy BY <1>5
 <2>4. \/ u = Id(p, x1, IF f.gz THEN -1 ELSE x1) /\ v = Id(p, y1, IF f.gz THEN -1 ELSE y1)
       \/ u = Id(p, ox, -1) /\ v = Id(p, oy, -1)
       \/ u = Id(p, ox, IF f.gz THEN -1 ELSE x1) /\ v = Id(p, oy, IF f.gz THEN -1 ELSE y1) BY <1>7
 <2> HIDE DEF u, v, x1, y1, ox, oy
 <2>5. CASE f.gz BY <2>2, <2>3, <2>4, <2>5
 <2>6. CASE ~f.gz BY <2>2, <2>3, <2>4, <2>6
 <2> QED BY <2>5, <2>6
<1> HIDE DEF u, v
<1>9. PICK m, k \in Nat, c, d \in Int :
        /\ u = Id(p, m, c) /\ v = Id(p, k, d) /\ m < k
        /\ (c = -1 /\ d = -1) \/ (~f.gz /\ c # -1 /\ d # -1 /\ c < d) BY <1>8
<1>10. \A q, w \in Int : ParseRecordPos(Id(p, q, w)) = [path |-> p, pos |-> IF w # -1 THEN w ELSE q, ok |-> q # -1, seekable |-> w # -1]
  BY DEF ParseRecordPos, Id
<1> DEFINE a == ParseRecordPos(u)
           b == ParseRecordPos(v)
<1>14. /\ a = [path |-> p, pos |-> IF c # -1 THEN c ELSE m, ok |-> TRUE, seekable |-> c # -1]
       /\ b = [path |-> p, pos |-> IF d # -1 THEN d ELSE k, ok |-> TRUE, seekable |-> d # -1]
 <2>1. m # -1 /\ k # -1 /\ m \in Int /\ k \in Int OBVIOUS
 <2>2. u = Id(p, m, c) /\ v = Id(p, k, d) BY <1>9
 <2> QED BY ONLY <1>10, <2>1, <2>2
<1> HIDE DEF a, b
<1>15. a.ok /\ b.ok /\ a.path = b.path /\ a.pos < b.pos /\ (a.seekable => ~f.gz)
 <2>1. a.ok /\ b.ok /\ a.path = b.path BY ONLY <1>14
 <2>2. /\ a.pos = (IF c # -1 THEN c ELSE m) /\ b.pos = (IF d # -1 THEN d ELSE k) /\ a.seekable = (c # -1) BY ONLY <1>14
 <2> QED BY <1>9, <2>1, <2>2
<1> QED BY <1>4, <1>15 DEF a, b

\* The invariant says of scans and fetches what they promise.
LEMMA ScanExactNow ==
  ASSUME DiskInv, ListInv, RowsInv, ScanInv, CacheInv, FetchFindsRecord
  PROVE  ScanAllOrWarned /\ ScansSeeOneListing /\ FetchFindsRecord /\ FetchCacheBounded /\ PositionsRise
<1>1. ScanAllOrWarned
 <2> SUFFICES ASSUME rfPc = "fetch", NEW j \in 1..Len(rfList)
              PROVE  LET f == rfList[j] IN (RowsOfFile(f) = {} /\ f \in rfWarned) \/ GaveAll(f, Records(f, rfCfg.disk[f]))
  <3>1. \A f \in ToSet(rfList) : \E j \in 1..Len(rfList) : rfList[j] = f BY ONLY TRUE DEF ToSet
  <3> QED BY <3>1 DEF ScanAllOrWarned
 <2>1. Settled(rfRows, rfWarned, WasOf(rfCfg, rfList[j]), rfList[j]) BY DEF ScanInv
 <2> QED BY <2>1 DEF Settled, RowsIn, RowsOfFile, GaveAll, WasOf
<1>2. ScansSeeOneListing
 <2>1. CASE rfScans = 0 BY <2>1 DEF ListInv, ScansSeeOneListing, Listed
 <2>2. CASE rfScans # 0
  <3>1. Blank # Hidden BY Zenon DEF Blank, Hidden
  <3> QED BY <2>2, <3>1, ListOfFiles DEF Visible, ScansSeeOneListing
 <2> QED BY <2>1, <2>2
<1>3. FetchCacheBounded BY DEF CacheInv, FetchCacheBounded
<1>4. PositionsRise BY PositionsOf DEF DiskInv, PositionsRise
<1> QED BY <1>1, <1>2, <1>3, <1>4

-----------------------------------------------------------------------------
(* Index drains.                                                           *)

\* The elements of a sequence, with one more at its end.
LEMMA ToSetAppend ==
  ASSUME NEW s \in Seq(Nat), NEW e \in Nat
  PROVE  /\ ToSet(Append(s, e)) = ToSet(s) \cup {e} /\ Append(s, e) \in Seq(Nat)
         /\ NoRepeat(s) /\ e \notin ToSet(s) => NoRepeat(Append(s, e))
<1> DEFINE t == Append(s, e)
<1>1. /\ Len(s) \in Nat /\ t \in Seq(Nat) /\ Len(t) = Len(s) + 1 /\ t[Len(s) + 1] = e
      /\ \A k \in 1..Len(s) : t[k] = s[k] BY AppendProperties
<1> HIDE DEF t
<1>2. \A k : k \in 1..Len(t) <=> k \in 1..Len(s) \/ k = Len(s) + 1 BY <1>1
<1>3. ToSet(t) = ToSet(s) \cup {e}
 <2>1. DOMAIN t = 1..Len(t) /\ DOMAIN s = 1..Len(s) BY <1>1
 <2>2. \A k \in 1..Len(t) : t[k] \in ToSet(s) \cup {e} BY ONLY <1>1, <1>2, <2>1 DEF ToSet
 <2>3. \A k \in 1..Len(s) : k \in 1..Len(t) /\ t[k] = s[k] BY ONLY <1>1, <1>2
 <2>4. Len(s) + 1 \in 1..Len(t) BY ONLY <1>2
 <2>5. \A x \in ToSet(s) : x \in ToSet(t) BY ONLY <2>1, <2>3 DEF ToSet
 <2>6. e \in ToSet(t) BY ONLY <1>1, <2>1, <2>4 DEF ToSet
 <2>7. \A x \in ToSet(t) : x \in ToSet(s) \cup {e} BY ONLY <2>1, <2>2 DEF ToSet
 <2> QED BY ONLY <2>5, <2>6, <2>7
<1>4. ASSUME NoRepeat(s), e \notin ToSet(s) PROVE NoRepeat(t)
 <2>1. \A k \in 1..Len(s) : s[k] # e BY <1>4 DEF ToSet
 <2> QED BY <1>1, <1>2, <1>4, <2>1 DEF NoRepeat
<1> QED BY <1>1, <1>3, <1>4 DEF t

\* The elements of a sequence.
LEMMA ToSetMember ==
  ASSUME NEW s \in Seq(Nat)
  PROVE  \A x : x \in ToSet(s) <=> \E k \in 1..Len(s) : x = s[k]
<1>1. DOMAIN s = 1..Len(s) OBVIOUS
<1> QED BY <1>1 DEF ToSet

\* The elements of a sequence, without its first.
LEMMA ToSetTail ==
  ASSUME NEW s \in Seq(Nat), s # <<>>
  PROVE  /\ s[1] \in Nat /\ s[1] \in ToSet(s) /\ Tail(s) \in Seq(Nat) /\ ToSet(s) = ToSet(Tail(s)) \cup {s[1]}
         /\ NoRepeat(s) => NoRepeat(Tail(s)) /\ s[1] \notin ToSet(Tail(s))
<1> DEFINE t == Tail(s)
<1>1. Len(s) \in Nat /\ Len(s) # 0 BY EmptySeq
<1>2. t \in Seq(Nat) /\ Len(t) = Len(s) - 1 /\ \A k \in 1..Len(t) : t[k] = s[k + 1] BY HeadTailProperties
<1> HIDE DEF t
<1>3. 1 \in 1..Len(s) /\ \A k \in 1..Len(t) : k + 1 \in 1..Len(s) /\ k + 1 # 1 BY <1>1, <1>2
<1>4. \A k \in 1..Len(s) : k = 1 \/ (k - 1 \in 1..Len(t) /\ (k - 1) + 1 = k) BY <1>1, <1>2
<1>5. s[1] \in ToSet(s) /\ s[1] \in Nat BY <1>3 DEF ToSet
<1>6. ToSet(s) = ToSet(t) \cup {s[1]}
 <2>1. \A k \in 1..Len(s) : k = 1 \/ s[k] = t[k - 1] BY <1>2, <1>4
 <2>2. \A k \in 1..Len(s) : s[k] \in ToSet(t) \cup {s[1]} BY <1>2, <1>4, <2>1, ToSetMember
 <2>3. \A k \in 1..Len(t) : t[k] \in ToSet(s) BY <1>2, <1>3, ToSetMember
 <2>4. \A x : x \in ToSet(s) => x \in ToSet(t) \cup {s[1]} BY <2>2, ToSetMember
 <2>5. \A x : x \in ToSet(t) => x \in ToSet(s) BY <1>2, <2>3, ToSetMember
 <2> QED BY <1>5, <2>4, <2>5
<1>7. ASSUME NoRepeat(s) PROVE NoRepeat(t) /\ s[1] \notin ToSet(t)
 <2>1. NoRepeat(t)
  <3> SUFFICES ASSUME NEW i \in 1..Len(t), NEW j \in 1..Len(t), t[i] = t[j] PROVE i = j BY DEF NoRepeat
  <3>1. i + 1 = j + 1 BY <1>2, <1>3, <1>7 DEF NoRepeat
  <3> QED BY <1>1, <1>2, <3>1
 <2>2. \A k \in 1..Len(t) : t[k] # s[1] BY <1>2, <1>3, <1>7 DEF NoRepeat
 <2> QED BY <2>1, <2>2 DEF ToSet
<1> QED BY <1>2, <1>5, <1>6, <1>7 DEF t

\* A sequence without repetition is as long as it has elements.
LEMMA SetOfDistinct ==
  ASSUME NEW s \in Seq(Nat), NoRepeat(s)
  PROVE  Len(s) = Cardinality(ToSet(s))
<1>1. Len(s) \in Nat OBVIOUS
<1> DEFINE f == [k \in 1..Len(s) |-> s[k]]
<1>2. f \in [1..Len(s) -> ToSet(s)] BY DEF ToSet
<1>3. \A a, b \in 1..Len(s) : f[a] = f[b] => a = b BY DEF NoRepeat
<1>4. \A x \in ToSet(s) : \E k \in 1..Len(s) : f[k] = x BY DEF ToSet
<1>5. f \in Bijection(1..Len(s), ToSet(s))
 <2> HIDE DEF f
 <2> QED BY <1>2, <1>3, <1>4 DEF Bijection, Injection, Surjection, IsInjective
<1>6. ExistsBijection(1..Len(s), ToSet(s)) BY <1>5 DEF ExistsBijection
<1> QED BY <1>1, <1>6, FS_CountingElements

\* The entries of the spans.
LEMMA SpanFacts ==
  ASSUME DrainConfigOK(idCfg)
  PROVE  /\ Len(idCfg.spans) \in Nat
         /\ \A k \in 1..Len(idCfg.spans) :
              idCfg.spans[k].entries \in Seq(Nat) /\ Len(idCfg.spans[k].entries) \in Nat
         /\ \A x : x \in AllEntries <=> \E k \in 1..Len(idCfg.spans) : idCfg.spans[k].kind = "range" /\ \E j \in 1..Len(idCfg.spans[k].entries) : x = idCfg.spans[k].entries[j]
<1>1. Len(idCfg.spans) \in Nat /\ \A k \in 1..Len(idCfg.spans) : idCfg.spans[k] \in DrainSpan BY DEF DrainConfigOK
<1>2. \A k \in 1..Len(idCfg.spans) : idCfg.spans[k].entries \in Seq(Nat) /\ Len(idCfg.spans[k].entries) \in Nat
  BY <1>1 DEF DrainSpan
<1>3. \A x : x \in AllEntries <=> \E k \in 1..Len(idCfg.spans) : idCfg.spans[k].kind = "range" /\ \E j \in 1..Len(idCfg.spans[k].entries) : x = idCfg.spans[k].entries[j]
 <2>1. ASSUME NEW k \in 1..Len(idCfg.spans)
       PROVE  \A x : x \in ToSet(Entries(k)) <=> \E j \in 1..Len(idCfg.spans[k].entries) : x = idCfg.spans[k].entries[j]
   BY <1>2, ToSetMember DEF Entries
 <2> QED BY ONLY <2>1 DEF AllEntries, SpanKind
<1> QED BY <1>1, <1>2, <1>3

\* Nothing was sent at the beginning.
LEMMA DrainStart ==
  ASSUME NEW Cfgs, \A c \in Cfgs : DrainConfigOK(c), IdInit(Cfgs)
  PROVE  DrainInv
<1>1. DrainConfigOK(idCfg) /\ Len(idCfg.spans) \in Nat BY SpanFacts DEF IdInit
<1>2. idSpan \in 1..(Len(idCfg.spans) + 1) /\ idAt \in Nat \ {0} /\ idClosed \in {0, 1} BY <1>1 DEF IdInit
<1>3. idClosed = 1 => idCfg.spans = <<>> BY DEF IdInit
<1>4. ToSet(<<>>) = {} /\ NoRepeat(<<>>) /\ <<>> \in Seq(Nat) BY DEF ToSet, NoRepeat
<1>5. CASE idCfg.spans = <<>>
 <2>1. idPc = "done" /\ idClosed = 1 /\ idOut = <<>> BY <1>5 DEF IdInit
 <2>2. Len(idCfg.spans) = 0 BY <1>5
 <2>3. AllEntries = {} BY <1>1, <2>2, SpanFacts
 <2>4. DrainComplete BY <1>4, <2>1, <2>3, FS_EmptySet DEF DrainComplete
 <2> QED BY <1>1, <1>2, <1>3, <2>1, <2>4 DEF DrainInv
<1>6. CASE idCfg.spans # <<>>
 <2>1. idPc = "drain" /\ ~idStopped /\ idOut = <<>> /\ idQueue = <<>> /\ idSeen = {} /\ idSpan = 1 /\ idAt = 1 /\ idClosed = 0
   BY <1>6 DEF IdInit
 <2>2. \A k \in 1..(idSpan - 1) : Sent(idCfg, idSeen, k, Len(idCfg.spans[k].entries)) BY <2>1
 <2>3. idSpan <= Len(idCfg.spans) => Sent(idCfg, idSeen, idSpan, idAt - 1) /\ (idCfg.spans[idSpan].kind = "range" => idAt <= Len(idCfg.spans[idSpan].entries) + 1)
  <3>1. \A n \in Nat : 1 <= n + 1 OBVIOUS
  <3>2. idSpan <= Len(idCfg.spans) => 1 \in 1..Len(idCfg.spans) BY <1>1, <2>1
  <3>3. idSpan <= Len(idCfg.spans) => Len(idCfg.spans[1].entries) \in Nat BY <1>1, <3>2, SpanFacts
  <3> QED BY <2>1, <3>1, <3>3 DEF Sent
 <2> QED BY <1>1, <1>2, <1>4, <2>1, <2>2, <2>3 DEF DrainInv
<1> QED BY <1>5, <1>6

\* The producer's place moves from a span to the next when all of the one was sent.
LEMMA NextSpan ==
  ASSUME DrainInv, idPc = "drain", idSpan <= Len(idCfg.spans), Sent(idCfg, idSeen, idSpan, Len(idCfg.spans[idSpan].entries))
  PROVE  /\ idSpan + 1 \in 1..(Len(idCfg.spans) + 1)
         /\ \A k \in 1..idSpan : Sent(idCfg, idSeen, k, Len(idCfg.spans[k].entries))
         /\ idSpan + 1 <= Len(idCfg.spans) => Sent(idCfg, idSeen, idSpan + 1, 0) /\ 1 <= Len(idCfg.spans[idSpan + 1].entries) + 1
<1>1. Len(idCfg.spans) \in Nat /\ idSpan \in 1..Len(idCfg.spans) BY SpanFacts DEF DrainInv
<1>2. \A k \in 1..idSpan : k \in 1..(idSpan - 1) \/ k = idSpan BY <1>1
<1>3. idSpan + 1 <= Len(idCfg.spans) => 1 <= Len(idCfg.spans[idSpan + 1].entries) + 1
 <2>1. idSpan + 1 <= Len(idCfg.spans) => idSpan + 1 \in 1..Len(idCfg.spans) BY <1>1
 <2>2. idSpan + 1 <= Len(idCfg.spans) => Len(idCfg.spans[idSpan + 1].entries) \in Nat BY <2>1, SpanFacts DEF DrainInv
 <2>3. \A n \in Nat : 1 <= n + 1 OBVIOUS
 <2> QED BY <2>2, <2>3
<1>4. \A k : Sent(idCfg, idSeen, k, 0) BY DEF Sent
<1>5. idSpan + 1 \in 1..(Len(idCfg.spans) + 1) BY <1>1
<1> QED BY <1>2, <1>3, <1>4, <1>5 DEF DrainInv

\* The goroutine that walks the spans keeps the account of the entries.
LEMMA ProducerStep ==
  ASSUME DrainInv, Producer
  PROVE  DrainInv'
<1>1. /\ DrainConfigOK(idCfg) /\ Len(idCfg.spans) \in Nat
      /\ idSpan \in 1..(Len(idCfg.spans) + 1) /\ idAt \in Nat \ {0} /\ idClosed \in {0, 1}
      /\ idCfg' = idCfg /\ idPc' = idPc /\ idOut' = idOut /\ idStopped' = idStopped
  BY SpanFacts DEF DrainInv, Producer, SkipSpan, SendEntry, EndSpan, CloseSender
<1>2. AllEntries' = AllEntries /\ (DrainComplete => DrainComplete')
 <2>1. AllEntries' = AllEntries BY <1>1 DEF AllEntries, Entries, SpanKind
 <2> QED BY <1>1, <2>1 DEF DrainComplete
<1>3. CASE CloseSender
 <2>1. idSpan = Len(idCfg.spans) + 1 /\ idClosed' = 1 /\ UNCHANGED <<idSpan, idAt, idSeen, idQueue>>
   BY <1>1, <1>3 DEF CloseSender
 <2> QED BY <1>1, <1>2, <2>1 DEF DrainInv
<1>4. ASSUME Scanning PROVE idSpan \in 1..Len(idCfg.spans) /\ idClosed = 0 /\ idPc # "done" /\ Len(idCfg.spans[idSpan].entries) \in Nat
  BY <1>1, <1>4, SpanFacts DEF Scanning, DrainInv
<1>5. CASE SkipSpan \/ EndSpan
 <2>1. Scanning /\ idSpan' = idSpan + 1 /\ idAt' = 1 /\ UNCHANGED <<idSeen, idQueue, idClosed>>
   BY <1>5 DEF SkipSpan, EndSpan, SpanEnd
 <2>2. idSpan' \in 1..(Len(idCfg.spans) + 1) BY <1>1, <1>4, <2>1
 <2>3. CASE idPc = "drain"
  <3>1. Sent(idCfg, idSeen, idSpan, Len(idCfg.spans[idSpan].entries))
   <4>1. CASE idCfg.spans[idSpan].kind # "range" BY <4>1 DEF Sent
   <4>2. CASE idCfg.spans[idSpan].kind = "range"
    <5>1. idAt > Len(idCfg.spans[idSpan].entries)
      BY <1>5, <2>3, <4>2 DEF SkipSpan, EndSpan, SpanStopped, SpanKind, Entries, DrainInv
    <5>2. Sent(idCfg, idSeen, idSpan, idAt - 1) BY <1>4, <2>1, <2>3 DEF DrainInv
    <5>3. \A j \in 1..Len(idCfg.spans[idSpan].entries) : j \in 1..(idAt - 1)
     <6> DEFINE n == Len(idCfg.spans[idSpan].entries)
     <6>1. n \in Nat /\ idAt > n /\ idAt \in Nat BY <1>1, <1>4, <2>1, <5>1
     <6> HIDE DEF n
     <6>2. \A j \in 1..n : j \in 1..(idAt - 1) BY <6>1
     <6> QED BY <6>2 DEF n
    <5> QED BY <5>2, <5>3 DEF Sent
   <4> QED BY <4>1, <4>2
  <3>2. /\ \A k \in 1..idSpan : Sent(idCfg, idSeen, k, Len(idCfg.spans[k].entries))
        /\ idSpan + 1 <= Len(idCfg.spans) => Sent(idCfg, idSeen, idSpan + 1, 0) /\ 1 <= Len(idCfg.spans[idSpan + 1].entries) + 1
    BY <1>1, <1>4, <2>1, <2>3, <3>1, NextSpan
  <3>3. idSpan' - 1 = idSpan /\ idAt' - 1 = 0 BY <1>1, <2>1
  <3> QED BY <1>1, <1>2, <1>4, <2>1, <2>2, <2>3, <3>2, <3>3 DEF DrainInv
 <2>4. CASE idPc # "drain" BY <1>1, <1>2, <1>4, <2>1, <2>2, <2>4 DEF DrainInv
 <2> QED BY <2>3, <2>4
<1>6. CASE SendEntry
 <2> DEFINE e == idCfg.spans[idSpan].entries[idAt]
 <2>1. Scanning /\ idCfg.spans[idSpan].kind = "range" /\ idAt <= Len(idCfg.spans[idSpan].entries) /\ idAt' = idAt + 1
       /\ Emit(e) /\ UNCHANGED <<idSpan, idClosed>> BY <1>6 DEF SendEntry, SpanKind, Entries
 <2>2. idAt' \in Nat \ {0} /\ idAt' - 1 = idAt /\ idAt' <= Len(idCfg.spans[idSpan].entries) + 1 /\ idAt \in 1..Len(idCfg.spans[idSpan].entries)
   BY <1>1, <1>4, <2>1
 <2>3. e \in Nat /\ e \in AllEntries
  <3>1. idSpan \in 1..Len(idCfg.spans) BY <1>1, <2>1 DEF Scanning
  <3>2. DrainConfigOK(idCfg) BY <1>1 DEF DrainInv
  <3>3. idCfg.spans[idSpan].entries \in Seq(Nat) BY ONLY <3>1, <3>2, SpanFacts
  <3>4. e \in Nat
   <4> DEFINE s == idCfg.spans[idSpan].entries
   <4>1. s \in Seq(Nat) /\ idAt \in 1..Len(s) BY <2>2, <3>3
   <4> HIDE DEF s
   <4>2. s[idAt] \in Nat BY ONLY <4>1
   <4> QED BY ONLY <4>2 DEF s
  <3>5. \E j \in 1..Len(idCfg.spans[idSpan].entries) : e = idCfg.spans[idSpan].entries[j] BY ONLY <2>2
  <3>6. e \in AllEntries BY <2>1, <3>1, <3>2, <3>5, SpanFacts
  <3> QED BY ONLY <3>4, <3>6
 <2>4. CASE idPc # "drain" BY <1>1, <1>2, <1>4, <2>1, <2>2, <2>4 DEF DrainInv
 <2>5. CASE idPc = "drain"
  <3>1. /\ ~idStopped /\ idOut \in Seq(Nat) /\ idQueue \in Seq(Nat)
        /\ NoRepeat(idOut) /\ NoRepeat(idQueue) /\ ToSet(idOut) \cap ToSet(idQueue) = {} /\ idSeen = ToSet(idOut) \cup ToSet(idQueue)
        /\ \A k \in 1..(idSpan - 1) : Sent(idCfg, idSeen, k, Len(idCfg.spans[k].entries))
        /\ Sent(idCfg, idSeen, idSpan, idAt - 1)
        /\ idSeen \subseteq AllEntries BY <1>4, <2>1, <2>5 DEF DrainInv
  <3>2. /\ idQueue' \in Seq(Nat) /\ NoRepeat(idQueue') /\ ToSet(idOut) \cap ToSet(idQueue') = {} /\ idSeen' = ToSet(idOut) \cup ToSet(idQueue')
        /\ idSeen' = idSeen \cup {e}
   <4> HIDE DEF e
   <4>1. CASE e \in idSeen
    <5>1. idQueue' = idQueue /\ idSeen' = idSeen BY <2>1, <4>1 DEF Emit
    <5> QED BY <3>1, <4>1, <5>1
   <4>2. CASE e \notin idSeen
    <5>1. idQueue' = Append(idQueue, e) /\ idSeen' = idSeen \cup {e} /\ e \notin ToSet(idQueue) /\ e \notin ToSet(idOut)
      BY <2>1, <3>1, <4>2 DEF Emit
    <5>2. idQueue' \in Seq(Nat) /\ NoRepeat(idQueue') /\ ToSet(idQueue') = ToSet(idQueue) \cup {e}
      BY <2>3, <3>1, <5>1, ToSetAppend
    <5> QED BY <3>1, <5>1, <5>2
   <4> QED BY <4>1, <4>2
  <3>3. \A k \in 1..(idSpan - 1) : Sent(idCfg, idSeen', k, Len(idCfg.spans[k].entries)) BY <3>1, <3>2 DEF Sent
  <3>4. Sent(idCfg, idSeen', idSpan, idAt)
   <4>1. \A j \in 1..idAt : j \in 1..(idAt - 1) \/ j = idAt BY <1>1
   <4> QED BY <3>1, <3>2, <4>1 DEF Sent
  <3>5. idSeen' \subseteq AllEntries BY <2>3, <3>1, <3>2
  <3> HIDE DEF e
  <3> QED BY <1>1, <1>2, <1>4, <2>1, <2>2, <2>5, <3>1, <3>2, <3>3, <3>4, <3>5 DEF DrainInv
 <2> QED BY <2>4, <2>5
<1> QED BY <1>3, <1>5, <1>6 DEF Producer

\* So does the drain.
LEMMA ConsumerStep ==
  ASSUME DrainInv, GetEntry \/ DrainDone
  PROVE  DrainInv'
<1>1. idPc = "drain" /\ UNCHANGED <<idCfg, idSpan, idAt, idSeen, idClosed>> BY DEF GetEntry, DrainDone
<1>2. AllEntries' = AllEntries BY <1>1 DEF AllEntries, Entries, SpanKind
<1>3. /\ ~idStopped /\ idOut \in Seq(Nat) /\ idQueue \in Seq(Nat)
      /\ NoRepeat(idOut) /\ NoRepeat(idQueue) /\ ToSet(idOut) \cap ToSet(idQueue) = {} /\ idSeen = ToSet(idOut) \cup ToSet(idQueue)
      /\ idSeen \subseteq AllEntries /\ DrainConfigOK(idCfg) /\ idClosed \in {0, 1} /\ Len(idCfg.spans) \in Nat
  BY <1>1, SpanFacts DEF DrainInv
<1>4. CASE GetEntry /\ idPc' = "error" BY <1>1, <1>4 DEF DrainInv
<1>5. CASE GetEntry /\ idPc' # "error"
 <2> DEFINE e == idQueue[1]
 <2>1. idQueue # <<>> /\ idOut' = Append(idOut, e) /\ idQueue' = Tail(idQueue) /\ UNCHANGED <<idPc, idStopped>>
   BY <1>5 DEF GetEntry, TakeEntry
 <2>2. e \in Nat /\ e \in ToSet(idQueue) /\ idQueue' \in Seq(Nat) /\ ToSet(idQueue) = ToSet(idQueue') \cup {e} /\ NoRepeat(idQueue') /\ e \notin ToSet(idQueue')
   BY <1>3, <2>1, ToSetTail
 <2> HIDE DEF e
 <2>3. idOut' \in Seq(Nat) /\ ToSet(idOut') = ToSet(idOut) \cup {e} /\ NoRepeat(idOut')
   BY <1>3, <2>1, <2>2, ToSetAppend
 <2>4. ToSet(idOut') \cap ToSet(idQueue') = {} /\ idSeen = ToSet(idOut') \cup ToSet(idQueue') BY <1>3, <2>2, <2>3
 <2> QED BY <1>1, <1>2, <1>3, <2>1, <2>2, <2>3, <2>4 DEF DrainInv
<1>6. CASE DrainDone
 <2>1. idQueue = <<>> /\ idClosed > 0 /\ idPc' = "done" /\ idOut' = idOut BY <1>6 DEF DrainDone
 <2>2. idClosed = 1 BY <1>3, <2>1
 <2>3. idSeen = ToSet(idOut) BY <1>3, <2>1 DEF ToSet
 <2>4. AllEntries \subseteq idSeen
  <3>1. idSpan = Len(idCfg.spans) + 1
   <4>1. idCfg.spans = <<>> => Len(idCfg.spans) = 0 OBVIOUS
   <4> QED BY <1>3, <2>2, <4>1 DEF DrainInv
  <3>2. \A k \in 1..Len(idCfg.spans) : idCfg.spans[k].kind = "range" => \A j \in 1..Len(idCfg.spans[k].entries) : idCfg.spans[k].entries[j] \in idSeen
   <4>1. \A k \in 1..Len(idCfg.spans) : k \in 1..(idSpan - 1) BY <1>3, <3>1
   <4> QED BY <1>1, <4>1 DEF DrainInv, Sent
  <3>3. \A x : x \in AllEntries => x \in idSeen
   <4> SUFFICES ASSUME NEW x \in AllEntries PROVE x \in idSeen OBVIOUS
   <4> DrainConfigOK(idCfg) BY <1>3
   <4>1. PICK k \in 1..Len(idCfg.spans) : idCfg.spans[k].kind = "range" /\ \E j \in 1..Len(idCfg.spans[k].entries) : x = idCfg.spans[k].entries[j]
     BY SpanFacts
   <4> QED BY <3>2, <4>1
  <3> QED BY <3>3
 <2>5. ToSet(idOut) = AllEntries /\ Len(idOut) = Cardinality(AllEntries) BY <1>3, <2>3, <2>4, SetOfDistinct
 <2>6. DrainComplete' BY <1>2, <2>1, <2>5 DEF DrainComplete
 <2> QED BY <1>1, <2>1, <2>2, <2>6 DEF DrainInv
<1> QED BY <1>4, <1>5, <1>6

\* And so does every step.
LEMMA DrainStep ==
  ASSUME DrainInv, [IdNext]_idVars
  PROVE  DrainInv'
<1>1. CASE UNCHANGED idVars
 <2>1. AllEntries' = AllEntries BY <1>1 DEF idVars, AllEntries, Entries, SpanKind
 <2> QED BY <1>1, <2>1 DEF idVars, DrainInv, DrainComplete
<1> QED BY <1>1, ProducerStep, ConsumerStep DEF IdNext

-----------------------------------------------------------------------------

\* The scans and the drains of a request, from the start.
LEMMA RfStart ==
  ASSUME NEW Cfgs, \A c \in Cfgs : FilesConfigOK(c), RfInit(Cfgs), RfCacheMax \in Nat
  PROVE  DiskInv /\ ListInv /\ RowsInv /\ ScanInv /\ CacheInv /\ GotInv /\ FetchFindsRecord
<1>1. DiskInv
 <2>1. FilesConfigOK(rfCfg) /\ rfDisk = rfCfg.disk BY DEF RfInit
 <2>2. \A f \in DOMAIN rfDisk : rfDisk[f] \in File BY <2>1 DEF FilesConfigOK
 <2> QED BY <2>1, <2>2, SameEvolved DEF DiskInv, FilesConfigOK
<1>2. ListInv BY DEF RfInit, ListInv
<1>3. RowsInv BY DEF RfInit, RowsInv, AllGiven
<1>4. ScanInv BY DEF RfInit, ScanInv
<1>5. CacheInv BY FS_EmptySet DEF RfInit, CacheInv
<1>6. GotInv /\ FetchFindsRecord BY DEF RfInit, GotInv, FetchFindsRecord
<1> QED BY <1>1, <1>2, <1>3, <1>4, <1>5, <1>6

\* A scan gives every record of the files it lists, in order, or warns of the file, and every
\* scan of a request sees the same files; a fetch finds the record that its id was given
\* to, or nothing where it may miss it; the cache keeps to its bound; positions rise; and a
\* drain of an index yields each document of its spans once (walkFiles, walkSource.Next,
\* fetchOne, ParseRecordPos, SISpansScan, datastoreScanDrain).
THEOREM DatastoreIsExact ==
  ASSUME NEW RfCfgs, NEW IdCfgs, \A c \in RfCfgs : FilesConfigOK(c), \A c \in IdCfgs : DrainConfigOK(c)
  PROVE  RfSpec(RfCfgs) /\ IdSpec(IdCfgs) => []DatastoreExact
<1> DEFINE Inv == DiskInv /\ ListInv /\ RowsInv /\ ScanInv /\ CacheInv /\ GotInv /\ FetchFindsRecord /\ DrainInv
<1>1. RfInit(RfCfgs) /\ IdInit(IdCfgs) => Inv BY RfAssumption, RfStart, DrainStart
<1>2. Inv /\ [RfNext]_rfVars /\ [IdNext]_idVars => Inv'
 <2> SUFFICES ASSUME Inv, [RfNext]_rfVars, [IdNext]_idVars PROVE Inv' OBVIOUS
 <2>1. DiskInv' BY GoesOnStep
 <2>2. ListInv' BY ListStep
 <2>3. RowsInv' BY RowsStep
 <2>4. ScanInv' BY ScanStep
 <2>5. CacheInv' /\ GotInv' /\ FetchFindsRecord' BY FetchStep, RfAssumption
 <2>6. DrainInv' BY DrainStep
 <2> QED BY <2>1, <2>2, <2>3, <2>4, <2>5, <2>6
<1>3. Inv => DatastoreExact
 <2> SUFFICES ASSUME Inv PROVE DatastoreExact OBVIOUS
 <2>1. ScanAllOrWarned /\ ScansSeeOneListing /\ FetchFindsRecord /\ FetchCacheBounded /\ PositionsRise BY ScanExactNow
 <2>2. DrainComplete BY DEF DrainInv, DrainComplete
 <2> QED BY <2>1, <2>2 DEF DatastoreExact
<1> HIDE DEF Inv
<1> QED BY <1>1, <1>2, <1>3, PTL DEF RfSpec, IdSpec
=============================================================================
