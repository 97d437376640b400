--------------------------- MODULE DatastoreScan ---------------------------
(***************************************************************************)
(* records/records.go and glue/datastore_scan.go, glue/datastore_fetch.go: *)
(* a keyspace is the files of a directory.  A scan lists them once for the *)
(* request, opens each in turn and names every record; a fetch finds a     *)
(* record again by that name, through a cache of the request.  A nested    *)
(* loop scans and fetches again, or a text search fetches its hits, while  *)
(* another program removes files, appends to them and adds new ones.       *)
(*                                                                         *)
(* A file is [dir, stem, fmt, gz, array, units, bad]: its units are its    *)
(* lines or documents, "" for a blank one, and a unit's offset is its      *)
(* place; of an array, the documents are the elements.  A                  *)
(* file that is bad "open" cannot be opened, one that is bad "read" breaks *)
(* after its first record.  An id is [rel, stem, n, off]: the path, or the *)
(* stem alone of a file of one document; -1 is a part that the id lacks.   *)
(***************************************************************************)
EXTENDS Integers, Sequences, FiniteSets, SequencesExt

CONSTANTS
  RfCacheMax,      \* DatastoreFetchCacheMaxBytes, in documents
  RfScans,         \* bound on the scans of the request
  RfChanges        \* bound on the steps of the other program

ASSUME RfAssumption == RfCacheMax \in Nat

VARIABLES
  rfCfg,           \* [disk, opts, halt, kind]: the files to begin with, the walk options, ScanHaltUnreadable, the kind of keyspace
  rfDisk,          \* the files, by name, as they are
  rfList,          \* walkFileCache: the sorted listing of the request, <<0>> before it
  rfPc,            \* "idle", "open", "next", "fetch", "hits", "error"
  rfAt,            \* walkSource: i
  rfCur,           \* walkSource: cur, as the records it has still to give
  rfRows,          \* the rows of this scan: [id, doc, file]
  rfWarned,        \* files disclosed as skipped
  rfKeys,          \* the ids that are still to be fetched
  rfCache,         \* fetchCache: a set of [id, doc]
  rfGot,           \* what every fetch returned: [id, doc, file]; the doc "" is a skip
  rfScans,         \* scans begun
  rfChanged        \* steps of the other program

rfVars == <<rfCfg, rfDisk, rfList, rfPc, rfAt, rfCur, rfRows, rfWarned, rfKeys, rfCache, rfGot, rfScans, rfChanged>>

\* A blank unit, the top directory, no damage, no document.
Blank == ""
Hidden == ".hidden"
NoFile == [dir |-> Blank, stem |-> Blank, fmt |-> "none", gz |-> FALSE, array |-> FALSE, units |-> <<>>, bad |-> "open"]
FileAt(f) == IF f \in DOMAIN rfDisk THEN rfDisk[f] ELSE NoFile

\* The numbers of a set, in order.
InOrder(S) == [k \in 1..Cardinality(S) |-> CHOOSE x \in S : Cardinality({y \in S : y < x}) = k - 1]

-----------------------------------------------------------------------------
(* Discovery: WalkOptions.eligible, WalkFiles *)

RecordExts == {"json", "jsonl", "yaml", "csv", "toml"}

Eligible(f, o) == f.fmt \in RecordExts /\ (f.gz => o.gzip) /\ f.fmt \in o.formats

\* A hidden directory is skipped, and every sub-directory when the walk is flat.
Visible(f, o) == f.dir = Blank \/ (o.recurse /\ f.dir # Hidden)

WalkFiles(disk, o) == InOrder({f \in DOMAIN disk : Eligible(disk[f], o) /\ Visible(disk[f], o)})

-----------------------------------------------------------------------------
(* Decoding: the records of an open file and their ids *)

Id(rel, n, off) == [rel |-> rel, stem |-> Blank, n |-> n, off |-> off]
StemId(f) == [rel |-> 0, stem |-> f.stem, n |-> -1, off |-> -1]
Docs(f) == {i \in 1..Len(f.units) : f.units[i] # Blank}
\* The ordinal of a unit among the documents, from 0.
Ordinal(f, i) == Cardinality({j \in Docs(f) : j < i})

\* As LineId, but of a compressed file too.
LineIdAlways(p, f, i) == Id(p, i - 1, i - 1)
\* jsonlSource.Next: every line counts; only raw bytes can be sought.
LineId(p, f, i) == Id(p, i - 1, IF f.gz THEN -1 ELSE i - 1)

\* newYAMLSource, newJSONSource, newTOMLSource: a file of one document is named by its stem,
\* and so is a .json array of one element; an element of a YAML sequence cannot be sought.
RecordId(p, f, i) ==
  CASE f.fmt = "jsonl" -> LineId(p, f, i)
    [] f.fmt = "csv" -> Id(p, Ordinal(f, i), -1)
    [] f.fmt = "toml" -> StemId(f)
    [] f.fmt = "yaml" -> IF f.array THEN Id(p, Ordinal(f, i), -1) ELSE IF Cardinality(Docs(f)) = 1 THEN StemId(f)
                         ELSE Id(p, Ordinal(f, i), IF f.gz THEN -1 ELSE i - 1)
    [] OTHER -> IF Cardinality(Docs(f)) = 1 THEN StemId(f) ELSE Id(p, Ordinal(f, i), -1)

\* ParseRecordPos: the container and the position within it, the offset before the
\* ordinal; the id of a whole file has none.
ParseRecordPos(id) ==
  [path |-> id.rel, pos |-> IF id.off # -1 THEN id.off ELSE id.n, ok |-> id.n # -1, seekable |-> id.off # -1]

RecordOf(p, f, i) == [id |-> RecordId(p, f, i), doc |-> f.units[i], file |-> p]
Records(p, f) ==
  LET units == InOrder(Docs(f)) IN [k \in 1..Len(units) |-> RecordOf(p, f, units[k])]

-----------------------------------------------------------------------------
(* Scan: GlueContext.walkFiles, walkSource.Next, DatastoreScanRecords *)

RfInit(Cfgs) ==
  /\ rfCfg \in Cfgs /\ rfDisk = rfCfg.disk
  /\ rfList = <<0>> /\ rfPc = "idle" /\ rfAt = 1 /\ rfCur = <<>> /\ rfRows = <<>> /\ rfWarned = {}
  /\ rfKeys = <<>> /\ rfCache = {} /\ rfGot = {} /\ rfScans = 0 /\ rfChanged = 0

\* As Listing, but the tree is walked for every scan.
ListingAnew == WalkFiles(rfDisk, rfCfg.opts)
\* walkFiles: the listing of the first scan is the request's.
Listing == IF rfList = <<0>> THEN WalkFiles(rfDisk, rfCfg.opts) ELSE rfList

KeyspaceRecordsOpen ==
  /\ rfPc = "idle" /\ rfScans < RfScans
  /\ rfList' = Listing /\ rfScans' = rfScans + 1
  /\ rfPc' = "open" /\ rfAt' = 1 /\ rfRows' = <<>>
  /\ UNCHANGED <<rfCfg, rfDisk, rfCur, rfWarned, rfKeys, rfCache, rfGot, rfChanged>>

\* As Unreadable, but nothing is said of the file.
UnreadableSilent(f) == IF rfCfg.halt THEN rfPc' = "error" /\ UNCHANGED <<rfAt, rfWarned>>
                       ELSE rfAt' = rfAt + 1 /\ UNCHANGED <<rfPc, rfWarned>>
\* FileUnreadable: the scan skips the container and discloses it, or fails.
Unreadable(f) == IF rfCfg.halt THEN rfPc' = "error" /\ UNCHANGED <<rfAt, rfWarned>>
                 ELSE rfAt' = rfAt + 1 /\ rfWarned' = rfWarned \cup {f} /\ UNCHANGED rfPc

\* A format that is read whole when it is opened meets its broken bytes there.
OpensWhole(f) == f.fmt \in {"json", "yaml", "toml"}

OpenNext ==
  /\ rfPc = "open" /\ rfAt <= Len(rfList)
  /\ LET f == rfList[rfAt]
     IN IF FileAt(f).bad = "open" \/ (FileAt(f).bad = "read" /\ OpensWhole(FileAt(f)))
        THEN Unreadable(f) /\ UNCHANGED rfCur
        ELSE /\ rfCur' = (IF FileAt(f).bad = "read" THEN <<Records(f, FileAt(f))[1]>> ELSE Records(f, FileAt(f)))
             /\ rfPc' = "next" /\ UNCHANGED <<rfAt, rfWarned>>
  /\ UNCHANGED <<rfCfg, rfDisk, rfList, rfRows, rfKeys, rfCache, rfGot, rfScans, rfChanged>>

\* One row of the open file.
ScanRow ==
  /\ rfPc = "next" /\ rfCur # <<>>
  /\ rfRows' = Append(rfRows, rfCur[1]) /\ rfCur' = Tail(rfCur)
  /\ UNCHANGED <<rfCfg, rfDisk, rfList, rfPc, rfAt, rfWarned, rfKeys, rfCache, rfGot, rfScans, rfChanged>>

\* The file breaks after rows of it were given: the scan ends with the error.
MidReadError == rfPc' = "error" /\ UNCHANGED rfAt

FileEnds ==
  /\ rfPc = "next" /\ rfCur = <<>>
  /\ IF FileAt(rfList[rfAt]).bad = "read" THEN MidReadError ELSE rfAt' = rfAt + 1 /\ rfPc' = "open"
  /\ UNCHANGED <<rfCfg, rfDisk, rfList, rfCur, rfRows, rfWarned, rfKeys, rfCache, rfGot, rfScans, rfChanged>>

\* The scan is over; a fetch of all it named follows.
ScanDone ==
  /\ rfPc = "open" /\ rfAt > Len(rfList)
  /\ rfPc' = "fetch" /\ rfKeys' = rfRows
  /\ UNCHANGED <<rfCfg, rfDisk, rfList, rfAt, rfCur, rfRows, rfWarned, rfCache, rfGot, rfScans, rfChanged>>

-----------------------------------------------------------------------------
(* Fetch: DatastoreFetch's fetchOne *)

\* globWalkBase: what the paths in the ids are relative to; a keyspace that is bound to one
\* file is anchored at a directory above it.
ScanBase == "dir"
\* containerBaseDir: what a fetch takes them to be relative to, RecordsDir(), which for a
\* keyspace bound to one file is the file.
FetchBase == IF rfCfg.kind = "bound" THEN "file" ELSE "dir"

\* readContainerRecord: the one line or document that begins at the offset, of a file that
\* is there; a path below a file is an error.
ContainerRecord(id) ==
  LET f == FileAt(id.rel)
  IN IF FetchBase # ScanBase THEN "error"
     ELSE IF f.bad = "open" \/ id.off >= Len(f.units) THEN Blank ELSE f.units[id.off + 1]

\* The bytes of a file, white space aside: they are its document when it has one and no
\* brackets around it; otherwise they are none of its documents.
WholeText(f) == IF f.array \/ Cardinality(Docs(f)) # 1 THEN "file" ELSE f.units[CHOOSE i \in Docs(f) : TRUE]

\* docPath, readWholeFileInto: the whole of <dir>/<key>.json, nothing of an empty one.
DocFile(id) == {f \in DOMAIN rfDisk : rfDisk[f].dir = Blank /\ rfDisk[f].stem = id.stem /\ rfDisk[f].fmt = "json" /\ ~rfDisk[f].gz}
WholeFile(id) ==
  IF id.n # -1 \/ DocFile(id) = {} THEN Blank
  ELSE LET f == rfDisk[CHOOSE f \in DocFile(id) : TRUE]
       IN IF f.bad = "open" \/ (f.units = <<>> /\ ~f.array) THEN Blank ELSE WholeText(f)

\* As ReadDoc, but an ordinal is taken for an offset when the id has none.
ReadDocWhole(id) == IF id.n # -1 THEN ContainerRecord([id EXCEPT !.off = id.n]) ELSE IF rfCfg.kind = "classic" THEN WholeFile(id) ELSE Blank
\* A synthetic keyspace has no <key>.json: the key goes to the datastore's own fetch, which finds nothing.
ReadDoc(id) == IF id.off # -1 THEN ContainerRecord(id) ELSE IF rfCfg.kind = "classic" THEN WholeFile(id) ELSE Blank

Cached(id) == {e \in rfCache : e.id = id}

\* As CachePut, but the room is not looked at.
CachePutAlways(id, doc) == rfCache' = rfCache \cup {[id |-> id, doc |-> doc]}
\* fetchCachePut: kept while there is room.
CachePut(id, doc) ==
  rfCache' = IF Cardinality(rfCache) < RfCacheMax THEN rfCache \cup {[id |-> id, doc |-> doc]} ELSE rfCache

FetchOne ==
  /\ rfPc = "fetch" /\ rfKeys # <<>>
  /\ LET k == rfKeys[1]
         hit == Cached(k.id)
         doc == IF hit # {} THEN (CHOOSE e \in hit : TRUE).doc ELSE ReadDoc(k.id)
     IN /\ rfGot' = rfGot \cup {[id |-> k.id, doc |-> doc, want |-> k.doc, file |-> k.file, scan |-> rfScans]}
        /\ IF hit # {} \/ doc \in {Blank, "error"} THEN UNCHANGED rfCache ELSE CachePut(k.id, doc)
  /\ rfKeys' = Tail(rfKeys)
  /\ UNCHANGED <<rfCfg, rfDisk, rfList, rfPc, rfAt, rfCur, rfRows, rfWarned, rfScans, rfChanged>>

FetchDone ==
  /\ rfPc = "fetch" /\ rfKeys = <<>> /\ rfPc' = "idle"
  /\ UNCHANGED <<rfCfg, rfDisk, rfList, rfAt, rfCur, rfRows, rfWarned, rfKeys, rfCache, rfGot, rfScans, rfChanged>>

-----------------------------------------------------------------------------
(* DatastoreScanFTS: a search whose hits it fetches itself, without the cache *)

\* The index was built from the records that the scan gave; all of them are hits.
SearchHits ==
  /\ rfPc = "idle" /\ rfScans > 0 /\ rfScans < RfScans
  /\ rfPc' = "hits" /\ rfKeys' = rfRows /\ rfScans' = rfScans + 1
  /\ UNCHANGED <<rfCfg, rfDisk, rfList, rfAt, rfCur, rfRows, rfWarned, rfCache, rfGot, rfChanged>>

\* fetchDoc: a hit that cannot be read is left out, whatever the reason.
FetchHit ==
  /\ rfPc = "hits" /\ rfKeys # <<>>
  /\ LET k == rfKeys[1]
         doc == ReadDoc(k.id)
     IN rfGot' = rfGot \cup {[id |-> k.id, doc |-> IF doc = "error" THEN Blank ELSE doc, want |-> k.doc, file |-> k.file, scan |-> rfScans]}
  /\ rfKeys' = Tail(rfKeys)
  /\ UNCHANGED <<rfCfg, rfDisk, rfList, rfPc, rfAt, rfCur, rfRows, rfWarned, rfCache, rfScans, rfChanged>>

HitsDone ==
  /\ rfPc = "hits" /\ rfKeys = <<>> /\ rfPc' = "idle"
  /\ UNCHANGED <<rfCfg, rfDisk, rfList, rfAt, rfCur, rfRows, rfWarned, rfKeys, rfCache, rfGot, rfScans, rfChanged>>

-----------------------------------------------------------------------------
(* The other program *)

Changes(disk, cur) ==
  /\ rfPc # "error" /\ rfScans > 0 /\ rfChanged < RfChanges /\ rfChanged' = rfChanged + 1
  /\ rfDisk' = disk /\ rfCur' = cur
  /\ UNCHANGED <<rfCfg, rfList, rfPc, rfAt, rfRows, rfWarned, rfKeys, rfCache, rfGot, rfScans>>

Vanish(f) == FileAt(f).bad = Blank /\ Changes([rfDisk EXCEPT ![f].bad = "open"], rfCur)

\* A scan that has the file open may come to the line that was appended, or not.
Grow(f) ==
  /\ FileAt(f).fmt = "jsonl" /\ FileAt(f).bad = Blank /\ ~FileAt(f).gz
  /\ LET disk == [rfDisk EXCEPT ![f].units = Append(@, "new")]
     IN \/ Changes(disk, rfCur)
        \/ rfPc = "next" /\ rfList[rfAt] = f /\ Changes(disk, Append(rfCur, Records(f, disk[f])[Len(Records(f, disk[f]))]))

Arrive(f) ==
  /\ f \notin DOMAIN rfDisk
  /\ Changes([g \in DOMAIN rfDisk \cup {f} |->
               IF g = f THEN [dir |-> Blank, stem |-> "late", fmt |-> "jsonl", gz |-> FALSE, array |-> FALSE, units |-> <<"late">>, bad |-> Blank] ELSE rfDisk[g]], rfCur)

RfNext ==
  \/ KeyspaceRecordsOpen \/ OpenNext \/ ScanRow \/ FileEnds \/ ScanDone \/ FetchOne \/ FetchDone
  \/ SearchHits \/ FetchHit \/ HitsDone
  \/ \E f \in DOMAIN rfDisk : Vanish(f) \/ Grow(f)
  \/ Arrive(9)

RfSpec(Cfgs) == RfInit(Cfgs) /\ [][RfNext]_rfVars

RfDone == rfPc = "error" \/ (rfPc = "idle" /\ rfScans = RfScans)

-----------------------------------------------------------------------------
(* Properties *)

Listed == rfList # <<0>>

\* The places of a file's rows in this scan.
RowsOfFile(f) == {k \in 1..Len(rfRows) : rfRows[k].file = f}
\* They follow one another, and the first of them are these.
GaveAll(f, records) ==
  \E from \in 0..Len(rfRows) : \E n \in Len(records)..Len(rfRows) :
    RowsOfFile(f) = (from + 1)..(from + n) /\ \A k \in 1..Len(records) : rfRows[from + k] = records[k]

\* A scan that ends without an error gave, for every file of the listing, either all of its
\* records as they were at the beginning, in order, with at most new ones after them, or
\* none of them and a warning that names the file: never a file that is silently short.
ScanAllOrWarned ==
  rfPc = "fetch" =>
    \A f \in ToSet(rfList) \cap DOMAIN rfCfg.disk :
      \/ RowsOfFile(f) = {} /\ f \in rfWarned
      \/ GaveAll(f, Records(f, rfCfg.disk[f]))

\* Only what the options and the format allow is read, nothing of a hidden directory, and
\* the scans of one request see the same files: one that arrives in between belongs to none
\* of them.
ScansSeeOneListing ==
  Listed => \A k \in 1..Len(rfList) :
    rfList[k] \in DOMAIN rfCfg.disk /\ rfCfg.disk[rfList[k]].dir # Hidden

\* The id is the stem of a <key>.json, which a fetch reads whole.
ReadWhole(g) ==
  /\ rfCfg.kind = "classic" /\ g.id.off = -1 /\ g.id.n = -1
  /\ FileAt(g.file).fmt = "json" /\ FileAt(g.file).dir = Blank /\ ~FileAt(g.file).gz
\* What it is to give: the record, but of an array of one element the array.
Due(g) == IF ReadWhole(g) /\ FileAt(g.file).array THEN "file" ELSE g.want

\* A fetch never gives another record's document for an id that the scan gave out, and it
\* finds every record that can be sought, and every document of a <key>.json, as long as
\* its file is there.  One record comes back as another value than it was scanned as: the
\* only element of a <key>.json that is an array comes back in its brackets.
FetchFindsRecord ==
  \A g \in rfGot :
    /\ g.doc \in {Blank, Due(g)}
    /\ g.doc = Blank => FileAt(g.file).bad = "open" \/ (g.id.off = -1 /\ ~ReadWhole(g))

\* What the request keeps of its documents is bounded.
FetchCacheBounded == Cardinality(rfCache) <= RfCacheMax

\* Within a file the positions rise, and the bytes at an offset can be sought: the
\* positions that an append cursor keeps are an order of the records (ParseRecordPos).
PositionsRise ==
  \A f \in DOMAIN rfDisk : \A j \in 2..Len(Records(f, rfDisk[f])) :
    LET a == ParseRecordPos(Records(f, rfDisk[f])[j - 1].id)
        b == ParseRecordPos(Records(f, rfDisk[f])[j].id)
    IN a.ok /\ b.ok /\ a.path = b.path /\ a.pos < b.pos /\ (a.seekable => ~rfDisk[f].gz)

-----------------------------------------------------------------------------
(***************************************************************************)
(* glue/datastore_scan.go: SISpansScan walks the spans of an index scan in *)
(* one goroutine and sends the entries to a bounded sender, which          *)
(* datastoreScanDrain empties; DatastoreScanIndexCovering builds the       *)
(* document of each entry, which may fail and end the drain.  The sender   *)
(* and its stop channel belong to the datastore package: an entry that is  *)
(* sent after the stop is refused.                                         *)
(***************************************************************************)

CONSTANT IdRoom    \* the sender's capacity

VARIABLES
  idCfg,           \* [spans, bad]: each span's entries, "error" or "empty"; the entry that no row can be built of
  idSpan,          \* the span the scan goroutine is at
  idAt,            \* the entry of it
  idSeen,          \* seen: the document ids that were sent
  idQueue,         \* the sender
  idClosed,        \* how often the sender was closed
  idStopped,       \* SendStop was called
  idPc,            \* the drain: "drain", "done", "error"
  idOut,           \* the rows that were yielded
  idErrors         \* evaluation errors that were reported

idVars == <<idCfg, idSpan, idAt, idSeen, idQueue, idClosed, idStopped, idPc, idOut, idErrors>>

\* A statement without spans has nothing to drain.
IdInit(Cfgs) ==
  /\ idCfg \in Cfgs /\ idSpan = 1 /\ idAt = 1 /\ idSeen = {} /\ idQueue = <<>> /\ idClosed = (IF idCfg.spans = <<>> THEN 1 ELSE 0)
  /\ idStopped = FALSE /\ idPc = (IF idCfg.spans = <<>> THEN "done" ELSE "drain") /\ idOut = <<>> /\ idErrors = 0

SpanKind(k) == idCfg.spans[k].kind
Entries(k) == idCfg.spans[k].entries
Scanning == idSpan <= Len(idCfg.spans) /\ idClosed = 0

\* EvalSpan: a span that cannot be evaluated is reported, one that is empty is passed over.
SkipSpan ==
  /\ Scanning /\ SpanKind(idSpan) # "range"
  /\ idErrors' = idErrors + (IF SpanKind(idSpan) = "error" THEN 1 ELSE 0)
  /\ idSpan' = idSpan + 1 /\ idAt' = 1
  /\ UNCHANGED <<idCfg, idSeen, idQueue, idClosed, idStopped, idPc, idOut>>

\* A document that an earlier span had is not sent again.
Emit(e) == IF e \in idSeen THEN UNCHANGED <<idQueue, idSeen>> ELSE idQueue' = Append(idQueue, e) /\ idSeen' = idSeen \cup {e}

SendEntry ==
  /\ Scanning /\ SpanKind(idSpan) = "range" /\ idAt <= Len(Entries(idSpan))
  /\ ~idStopped /\ Len(idQueue) < IdRoom
  /\ Emit(Entries(idSpan)[idAt]) /\ idAt' = idAt + 1
  /\ UNCHANGED <<idCfg, idSpan, idClosed, idStopped, idPc, idOut, idErrors>>

\* As SpanEnd, but the sender is closed with the span.
SpanEndCloses == idSpan' = idSpan + 1 /\ idClosed' = idClosed + 1
\* The sender stays open for the other spans.
SpanEnd == idSpan' = idSpan + 1 /\ UNCHANGED idClosed

\* As SpanStopped, but only the end of the span is looked at.
SpanStoppedNever == idAt > Len(Entries(idSpan))
\* The span is at its end, or the sender refuses what is sent.
SpanStopped == idAt > Len(Entries(idSpan)) \/ idStopped

EndSpan ==
  /\ Scanning /\ SpanKind(idSpan) = "range" /\ SpanStopped
  /\ SpanEnd /\ idAt' = 1
  /\ UNCHANGED <<idCfg, idSeen, idQueue, idStopped, idPc, idOut, idErrors>>

\* The goroutine's deferred Close, once, after all the spans.
CloseSender ==
  /\ idSpan > Len(idCfg.spans) /\ idClosed = 0
  /\ idClosed' = 1
  /\ UNCHANGED <<idCfg, idSpan, idAt, idSeen, idQueue, idStopped, idPc, idOut, idErrors>>

\* buildRow fails: the error, and by the deferred calls the stop.
TakeEntry ==
  IF idQueue[1] = idCfg.bad THEN idPc' = "error" /\ idStopped' = TRUE /\ UNCHANGED idOut
  ELSE idOut' = Append(idOut, idQueue[1]) /\ UNCHANGED <<idPc, idStopped>>

GetEntry ==
  /\ idPc = "drain" /\ idQueue # <<>>
  /\ TakeEntry /\ idQueue' = Tail(idQueue)
  /\ UNCHANGED <<idCfg, idSpan, idAt, idSeen, idClosed, idErrors>>

DrainDone ==
  /\ idPc = "drain" /\ idQueue = <<>> /\ idClosed > 0
  /\ idPc' = "done" /\ idStopped' = TRUE
  /\ UNCHANGED <<idCfg, idSpan, idAt, idSeen, idQueue, idClosed, idOut, idErrors>>

Producer == SkipSpan \/ SendEntry \/ EndSpan \/ CloseSender
IdNext == Producer \/ GetEntry \/ DrainDone

IdSpec(Cfgs) == IdInit(Cfgs) /\ [][IdNext]_idVars

\* A goroutine that can go on is run.
IdFair == WF_idVars(Producer) /\ WF_idVars(GetEntry \/ DrainDone)

\* The statement is over when the drain is; the goroutine may still have to end.
IdDone == idPc # "drain"

-----------------------------------------------------------------------------
(* Properties *)

AllEntries == UNION {ToSet(Entries(k)) : k \in {j \in 1..Len(idCfg.spans) : SpanKind(j) = "range"}}

\* A drain that ends without an error yielded every document of every span exactly once,
\* although the spans overlap and the sender is smaller than the answer; one that met an
\* entry it could not turn into a row says so.
DrainComplete ==
  idPc = "done" => ToSet(idOut) = AllEntries /\ Len(idOut) = Cardinality(AllEntries)

\* The scan's goroutine comes to its end and closes the sender, also when the drain was
\* given up while it was about to send.
ScannerEnds == idCfg.spans # <<>> => <>(idClosed > 0)

\* Scans, fetches and index drains give every record of the files they list,
\* once, or say which they could not read.
DatastoreExact ==
  /\ ScanAllOrWarned
  /\ ScansSeeOneListing
  /\ FetchFindsRecord
  /\ FetchCacheBounded
  /\ PositionsRise
  /\ DrainComplete
=============================================================================
