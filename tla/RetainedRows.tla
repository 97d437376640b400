---------------------------- MODULE RetainedRows ----------------------------
(***************************************************************************)
(* glue/multiquery_cache.go: the shared-scan cache of a pack of entries.   *)
(* The first scan of a keyspace that two or more correlation entries read  *)
(* is captured while it is served; later scans with the same key are       *)
(* replayed from the capture.  The two sides of a streaming join scan in   *)
(* goroutines of their own: the mutex guards the maps, and is not held     *)
(* while rows flow.                                                        *)
(*                                                                         *)
(* A scan is [qn, cols, limit, hint, fail]: its keyspace, its projected    *)
(* columns (the pushdown that is part of the key), the LIMIT of its plan,  *)
(* the raw-size hint of the keyspace (-1 for none), and whether the        *)
(* source fails at its end.  A row of keyspace qn is <<qn, number, cols>>. *)
(***************************************************************************)
EXTENDS Integers, Sequences, FiniteSets

CONSTANTS
  ScBudget,     \* MultiQueryScanCacheBudgetBytes, in rows
  ScFactor      \* MultiQueryScanCacheSizeFactor

ASSUME BudgetAssumption == ScBudget \in Nat

VARIABLES
  scCfg,        \* [scans, sizes, groups]: the scans, the rows of each keyspace,
                \* the correlation groups
  scPc,         \* scan -> where its goroutine is
  scHeap,       \* scan -> the rows of the heap that it fills or replays
  scCap,        \* scan -> its capture: "ok", "over" the budget, "err" of a push
  scNext,       \* scan -> rows it has yielded
  scOut,        \* scan -> <<rows, error or end as the consumer saw it>>
  scCaptured,   \* captured: key -> heap, the scan that filled it
  scTooBig      \* tooBig

scanCacheVars == <<scCfg, scPc, scHeap, scCap, scNext, scOut, scCaptured, scTooBig>>

Scans == DOMAIN scCfg.scans
Scan(s) == scCfg.scans[s]

\* correlationKeyspaceQNs: shared are the keyspaces that two entries read;
\* groups is a set of <<left keyspace, right keyspace, number of entries>>.
correlationKeyspaceQNs(groups) ==
  LET uses(k) == {g \in groups : k \in {g[1], g[2]}}
      total[G \in SUBSET groups] ==
        IF G = {} THEN 0 ELSE LET g == CHOOSE g \in G : TRUE IN g[3] + total[G \ {g}]
  IN {k \in UNION {{g[1], g[2]} : g \in groups} : total[uses(k)] >= 2}

\* scanCacheKey: the keyspace and the projection; NoKey for a scan that
\* cannot be cached.
NoKey == <<>>

\* Mutant: the projection is not part of the key.
scanCacheKeyNoCols(s) ==
  IF Scan(s).qn \in correlationKeyspaceQNs(scCfg.groups) /\ Scan(s).cols # "other" THEN <<Scan(s).qn, "all">> ELSE NoKey

scanCacheKey(s) ==
  IF Scan(s).qn \in correlationKeyspaceQNs(scCfg.groups) /\ Scan(s).cols # "other" THEN <<Scan(s).qn, Scan(s).cols>> ELSE NoKey

\* DatastoreScanRecords, the provider underneath: its rows, up to the LIMIT.
Source(s) ==
  LET n == scCfg.sizes[Scan(s).qn]
  IN [i \in 1..(IF Scan(s).limit < n THEN Scan(s).limit ELSE n) |-> <<Scan(s).qn, i, Scan(s).cols>>]

ScanCacheInit(Cfgs) ==
  /\ scCfg \in Cfgs
  /\ scPc = [s \in Scans |-> "op"] /\ scHeap = [s \in Scans |-> <<>>]
  /\ scCap = [s \in Scans |-> "ok"] /\ scNext = [s \in Scans |-> 0]
  /\ scOut = [s \in Scans |-> [rows |-> <<>>, end |-> "none"]]
  /\ scCaptured = [k \in {} |-> 0] /\ scTooBig = {}

ScanGoto(s, pc) == scPc' = [scPc EXCEPT ![s] = pc]

\* Op, the section under the lock: delegate, replay or capture.
ScanOp(s) ==
  LET key == scanCacheKey(s) IN
  /\ scPc[s] = "op"
  /\ ScanGoto(s, IF key = NoKey \/ key \in scTooBig THEN "delegate"
                 ELSE IF key \in DOMAIN scCaptured THEN "replay" ELSE "gate")
  /\ scHeap' = IF scPc'[s] = "replay" THEN [scHeap EXCEPT ![s] = scHeap[scCaptured[key]]] ELSE scHeap
  /\ UNCHANGED <<scCfg, scCap, scNext, scOut, scCaptured, scTooBig>>

\* The size gate: a keyspace that is sure to exceed the budget is not tried.
SizeGate(s) ==
  LET big == Scan(s).hint >= 0 /\ Scan(s).hint * ScFactor > ScBudget IN
  /\ scPc[s] = "gate"
  /\ scTooBig' = IF big THEN scTooBig \cup {scanCacheKey(s)} ELSE scTooBig
  /\ ScanGoto(s, IF big THEN "delegate" ELSE "capture")
  /\ UNCHANGED <<scCfg, scHeap, scCap, scNext, scOut, scCaptured>>

ScanYield(s, row) ==
  /\ scNext' = [scNext EXCEPT ![s] = @ + 1]
  /\ scOut' = [scOut EXCEPT ![s].rows = Append(@, row)]

\* A row of the provider, unchanged.
DelegateRow(s) ==
  /\ scPc[s] = "delegate" /\ scNext[s] < Len(Source(s))
  /\ ScanYield(s, Source(s)[scNext[s] + 1])
  /\ UNCHANGED <<scCfg, scPc, scHeap, scCap, scCaptured, scTooBig>>

\* Mutant: the budget is compared before the row is added.
OverBudgetLate(n) == n - 1 > ScBudget

OverBudget(n) == n > ScBudget

\* capYield: the row goes into the heap, which is closed when it exceeds the
\* budget, and to the consumer.
CaptureRow(s) ==
  LET row == Source(s)[scNext[s] + 1] IN
  /\ scPc[s] = "capture" /\ scNext[s] < Len(Source(s))
  /\ \E pushed \in BOOLEAN :
       /\ scCap' = [scCap EXCEPT ![s] = IF @ # "ok" THEN @ ELSE IF OverBudget(scNext[s] + 1) THEN "over"
                                        ELSE IF pushed THEN "ok" ELSE "err"]
       /\ scHeap' = [scHeap EXCEPT ![s] = CASE scCap'[s] = "over" -> <<>>
                                            [] scCap'[s] = "ok" -> Append(@, row)
                                            [] OTHER -> @]
  /\ ScanYield(s, row)
  /\ UNCHANGED <<scCfg, scPc, scCaptured, scTooBig>>

\* The provider's yieldErr, then Op's last section under the lock: whatever
\* the scan has yielded becomes the capture, unless it was too much or a
\* push failed.
ScanEnd(s) ==
  /\ scPc[s] \in {"delegate", "capture"} /\ scNext[s] = Len(Source(s))
  /\ scOut' = [scOut EXCEPT ![s].end = IF Scan(s).fail THEN "error" ELSE "nil"]
  /\ IF scPc[s] = "capture"
     THEN /\ scTooBig' = IF scCap[s] = "over" THEN scTooBig \cup {scanCacheKey(s)} ELSE scTooBig
          /\ scCaptured' = IF scCap[s] = "ok"
                           THEN [k \in DOMAIN scCaptured \cup {scanCacheKey(s)} |->
                                   IF k = scanCacheKey(s) THEN s ELSE scCaptured[k]]
                           ELSE scCaptured
     ELSE UNCHANGED <<scCaptured, scTooBig>>
  /\ ScanGoto(s, "done")
  /\ UNCHANGED <<scCfg, scHeap, scCap, scNext>>

\* replayHeap: the rows of the heap; it never calls yieldErr(nil).
ReplayRow(s) ==
  /\ scPc[s] = "replay" /\ scNext[s] < Len(scHeap[s])
  /\ ScanYield(s, scHeap[s][scNext[s] + 1])
  /\ UNCHANGED <<scCfg, scPc, scHeap, scCap, scCaptured, scTooBig>>

ReplayEnd(s) ==
  /\ scPc[s] = "replay" /\ scNext[s] = Len(scHeap[s])
  /\ ScanGoto(s, "done")
  /\ UNCHANGED <<scCfg, scHeap, scCap, scNext, scOut, scCaptured, scTooBig>>

ScanCacheNext ==
  \E s \in Scans :
    ScanOp(s) \/ SizeGate(s) \/ DelegateRow(s) \/ CaptureRow(s) \/ ScanEnd(s) \/ ReplayRow(s) \/ ReplayEnd(s)

ScanCacheSpec(Cfgs) == ScanCacheInit(Cfgs) /\ [][ScanCacheNext]_scanCacheVars

ScanCacheDone == \A s \in Scans : scPc[s] = "done"

-----------------------------------------------------------------------------
(* Properties.                                                             *)

\* Could a scan of the same key have ended early?
scCutShort(s) == \E t \in Scans : Scan(t).qn = Scan(s).qn /\ (Scan(t).fail \/ Scan(t).limit < scCfg.sizes[Scan(t).qn])

\* Whoever else captures, abandons or replays the keyspace at the same time,
\* a scan yields all rows of its own keyspace under its own projection, in
\* order, provided that no scan of the keyspace ends early.
ScanRowsExact ==
  \A s \in Scans : scPc[s] = "done" /\ ~scCutShort(s) => scOut[s].rows = Source(s)

\* A capture keeps no more than its budget, and a heap that scans replay is
\* neither the one of a scan under way nor one that was closed.
CaptureBounded ==
  /\ \A s \in Scans : Len(scHeap[s]) <= ScBudget
  /\ \A k \in DOMAIN scCaptured : scPc[scCaptured[k]] = "done" /\ scCap[scCaptured[k]] = "ok"

\* A scan served by the cache is what it is without the cache: the same rows
\* and the same end of the stream.
CacheTransparent ==
  \A s \in Scans : scPc[s] = "done" =>
    /\ scOut[s].rows = Source(s)
    /\ scOut[s].end = (IF Scan(s).fail THEN "error" ELSE "nil")

-----------------------------------------------------------------------------
(***************************************************************************)
(* glue/temp_keyspace.go and glue/temp_stmt.go: CREATE [OR REPLACE] and    *)
(* DROP TEMP KEYSPACE, and the scans that read what they made.  The        *)
(* statements of a session run one after the other; a scan that a          *)
(* statement opened reads the heap that its name had when it was planned.  *)
(*                                                                         *)
(* A name is <<letters, spelling>>: two spellings of the same letters are  *)
(* equal but for case.                                                     *)
(***************************************************************************)

CONSTANTS
  TkNames,        \* the names statements use
  TkStatements,   \* bound: statements of a session
  TkRows          \* bound: rows that a CREATE captures

VARIABLES
  tkKs,      \* ks: name -> heap
  tkHeap,    \* heap -> [rows, open]; a heap is a number, seq is the last one
  tkStmt,    \* the statement under way, or [kind |-> "none"]
  tkRead,    \* rows its scan has read, and the heap it reads
  tkDone,    \* statements run
  tkErr,     \* the last statement failed
  tkClosed   \* the session is closed

tempVars == <<tkKs, tkHeap, tkStmt, tkRead, tkDone, tkErr, tkClosed>>

NoStmt == [kind |-> "none"]
NoHeap == 0

TempInit ==
  /\ tkKs = [n \in {} |-> 0] /\ tkHeap = <<>> /\ tkStmt = NoStmt
  /\ tkRead = [heap |-> NoHeap, n |-> 0] /\ tkDone = 0 /\ tkErr = FALSE /\ tkClosed = FALSE

\* get: the name itself, else any name that differs in case only.
Named(n) ==
  IF n \in DOMAIN tkKs THEN {n} ELSE {m \in DOMAIN tkKs : m[1] = n[1]}

Without(f, k) == [x \in DOMAIN f \ {k} |-> f[x]]
With(f, k, v) == [x \in DOMAIN f \cup {k} |-> IF x = k THEN v ELSE f[x]]
CloseHeap(h) == [tkHeap EXCEPT ![h].open = FALSE]

Finish(err) ==
  /\ tkStmt' = NoStmt /\ tkErr' = err /\ tkDone' = tkDone + 1
  /\ tkRead' = [heap |-> NoHeap, n |-> 0]

\* NewHeap: the registry has no part in the heap until Put.
NewHeap == Append(tkHeap, [rows |-> <<>>, open |-> TRUE])

\* createTempKeyspace, up to the heap that will hold the rows; from is the
\* heap of the temporary keyspace that its SELECT reads, if it reads one.
CreateBegin ==
  \E n \in TkNames, orReplace \in BOOLEAN, from \in {tkKs[m] : m \in DOMAIN tkKs} \cup {NoHeap} :
    /\ tkStmt = NoStmt /\ ~tkClosed /\ tkDone < TkStatements
    /\ IF Named(n) # {} /\ ~orReplace
       THEN Finish(TRUE) /\ UNCHANGED tkHeap
       ELSE /\ tkHeap' = NewHeap
            /\ tkStmt' = [kind |-> "create", name |-> n, heap |-> Len(tkHeap) + 1]
            /\ tkRead' = [heap |-> from, n |-> 0]
            /\ UNCHANGED <<tkDone, tkErr>>
    /\ UNCHANGED <<tkKs, tkClosed>>

\* OnRow: a row of the SELECT goes into the new heap.
CreateRow ==
  LET h == tkStmt.heap
      src == tkRead.heap
  IN
  /\ tkStmt.kind = "create" /\ Len(tkHeap[h].rows) < TkRows
  /\ IF src = NoHeap
     THEN tkHeap' = [tkHeap EXCEPT ![h].rows = Append(@, <<h, Len(tkHeap[h].rows)>>)] /\ UNCHANGED tkRead
     ELSE /\ tkRead.n < Len(tkHeap[src].rows)
          /\ tkHeap' = [tkHeap EXCEPT ![h].rows = Append(@, tkHeap[src].rows[tkRead.n + 1])]
          /\ tkRead' = [tkRead EXCEPT !.n = @ + 1]
  /\ UNCHANGED <<tkKs, tkStmt, tkDone, tkErr, tkClosed>>

\* Mutant: the old rows are dropped when the statement begins to fail.
CreateFailsDropping ==
  /\ tkHeap' = [h \in DOMAIN tkHeap |->
                  IF h = tkStmt.heap \/ (tkStmt.name \in DOMAIN tkKs /\ h = tkKs[tkStmt.name])
                  THEN [tkHeap[h] EXCEPT !.open = FALSE] ELSE tkHeap[h]]

\* The new heap is closed when the SELECT or a push fails.
CreateFailsHeap == tkHeap' = CloseHeap(tkStmt.heap)

CreateFails ==
  /\ tkStmt.kind = "create"
  /\ CreateFailsHeap /\ Finish(TRUE)
  /\ UNCHANGED <<tkKs, tkClosed>>

\* Put: the registry takes the heap; the one it replaces is closed.
\* Mutant: the heap that is replaced is not closed.
PutHeapKept == tkHeap

PutHeap == IF tkStmt.name \in DOMAIN tkKs THEN CloseHeap(tkKs[tkStmt.name]) ELSE tkHeap

CreateEnd ==
  /\ tkStmt.kind = "create"
  /\ tkRead.heap # NoHeap => tkRead.n = Len(tkHeap[tkRead.heap].rows)
  /\ tkHeap' = PutHeap
  /\ tkKs' = With(tkKs, tkStmt.name, tkStmt.heap)
  /\ Finish(FALSE)
  /\ UNCHANGED tkClosed

\* Drop: by the exact name only.
DropTemp ==
  \E n \in TkNames, ifExists \in BOOLEAN :
    /\ tkStmt = NoStmt /\ ~tkClosed /\ tkDone < TkStatements
    /\ IF n \in DOMAIN tkKs
       THEN tkHeap' = CloseHeap(tkKs[n]) /\ tkKs' = Without(tkKs, n) /\ Finish(FALSE)
       ELSE Finish(~ifExists) /\ UNCHANGED <<tkHeap, tkKs>>
    /\ UNCHANGED tkClosed

\* A SELECT of a temporary keyspace.
SelectBegin ==
  \E n \in TkNames : \E m \in Named(n) :
    /\ tkStmt = NoStmt /\ ~tkClosed /\ tkDone < TkStatements
    /\ tkStmt' = [kind |-> "select", name |-> m]
    /\ tkRead' = [heap |-> tkKs[m], n |-> 0]
    /\ UNCHANGED <<tkKs, tkHeap, tkDone, tkErr, tkClosed>>

SelectRow ==
  /\ tkStmt.kind = "select" /\ tkRead.n < Len(tkHeap[tkRead.heap].rows)
  /\ tkRead' = [tkRead EXCEPT !.n = @ + 1]
  /\ UNCHANGED <<tkKs, tkHeap, tkStmt, tkDone, tkErr, tkClosed>>

SelectEnd ==
  /\ tkStmt.kind = "select" /\ tkRead.n = Len(tkHeap[tkRead.heap].rows)
  /\ Finish(FALSE)
  /\ UNCHANGED <<tkKs, tkHeap, tkClosed>>

\* Close: every heap of the registry, then the directory.
CloseSession ==
  /\ tkStmt = NoStmt /\ ~tkClosed
  /\ tkHeap' = [h \in DOMAIN tkHeap |-> IF \E n \in DOMAIN tkKs : tkKs[n] = h THEN [tkHeap[h] EXCEPT !.open = FALSE] ELSE tkHeap[h]]
  /\ tkKs' = [n \in {} |-> 0] /\ tkClosed' = TRUE
  /\ UNCHANGED <<tkStmt, tkRead, tkDone, tkErr>>

TempNext ==
  \/ CreateBegin \/ CreateRow \/ CreateFails \/ CreateEnd \/ DropTemp
  \/ SelectBegin \/ SelectRow \/ SelectEnd \/ CloseSession

TempSpec == TempInit /\ [][TempNext]_tempVars

-----------------------------------------------------------------------------
(* Properties.                                                             *)

\* What a statement reads is there: a name has an open heap, also one whose
\* CREATE OR REPLACE failed half way, and the heap of a scan stays open until
\* the scan's statement ends, also when the statement replaces its own source.
ScansReadOpenHeaps ==
  /\ \A n \in DOMAIN tkKs : tkHeap[tkKs[n]].open
  /\ tkRead.heap # NoHeap => tkHeap[tkRead.heap].open

\* No heap outlives its use: one that is open is the heap of a name or of the
\* CREATE under way, and no two names share one.
HeapsOwned ==
  /\ \A h \in DOMAIN tkHeap : tkHeap[h].open =>
       (\E n \in DOMAIN tkKs : tkKs[n] = h) \/ (tkStmt.kind = "create" /\ tkStmt.heap = h)
  /\ \A n, m \in DOMAIN tkKs : tkKs[n] = tkKs[m] => n = m

\* Rows that outlive a scan, in the scan cache and in temporary keyspaces, are
\* those of their source, in heaps that are open while they are read, owned by
\* one and bounded.
RetainedRowsExact == ScanRowsExact /\ CaptureBounded /\ ScansReadOpenHeaps /\ HeapsOwned
=============================================================================
