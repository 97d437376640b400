---------------------------- MODULE RecordSource ----------------------------
(***************************************************************************)
(* records/records.go: how the bytes of one file become records.  A .json  *)
(* file is split into its values (splitJSONValues, scanJSONValue); a       *)
(* .jsonl file is read line by line through a buffer that is filled in     *)
(* pieces, and every record carries the byte offset of its line, where     *)
(* glue/datastore_fetch.go later reads it again (readLineAtInto).          *)
(*                                                                         *)
(* A byte is its class: "{" "}" "[" "]" "," the quote "q", the backslash   *)
(* "b", white space "s", the newline "n" and two others, "x" and "y".      *)
(* Offsets count from 0, as in the code; byte i is rtData[i + 1].          *)
(***************************************************************************)
EXTENDS Integers, Sequences, FiniteSets

VARIABLES
  rtCfg,           \* [fmt, data, whole, docs]: the file, whether it is complete, the values it was written from
  rtData,          \* the bytes of the file, which another program may append lines to
  rtPc,            \* "start", "array", "stream", "lines", "done", "error"
  rtI,             \* splitJSONValues: i; jsonlSource: off
  rtTokOff,        \* jsonlSource: tokOff
  rtFed,           \* bytes of the file that reached the scanner's buffer
  rtLine,          \* jsonlSource: line
  rtDocs           \* the records so far: [doc, line, off]

rtVars == <<rtCfg, rtData, rtPc, rtI, rtTokOff, rtFed, rtLine, rtDocs>>

Bytes == {"{", "}", "[", "]", ",", "q", "b", "s", "n", "x", "y"}
Byte(i) == rtData[i + 1]
Size == Len(rtData)
Space == {"s", "n"}
Slice(i, j) == SubSeq(rtData, i + 1, j)

\* The first position from i on whose byte is not white space.
SkipSpace(i) == CHOOSE j \in i..Size : (\A k \in i..(j - 1) : Byte(k) \in Space) /\ (j = Size \/ Byte(j) \notin Space)

TrimSpace(s) ==
  LET keep == {k \in 1..Len(s) : s[k] \notin Space}
  IN IF keep = {} THEN <<>>
     ELSE SubSeq(s, CHOOSE a \in keep : \A k \in keep : a <= k, CHOOSE b \in keep : \A k \in keep : b >= k)

RtInit(Cfgs) ==
  /\ rtCfg \in Cfgs /\ rtData = rtCfg.data
  /\ rtPc = IF rtCfg.fmt = "json" THEN "start" ELSE "lines"
  /\ rtI = 0 /\ rtTokOff = 0 /\ rtFed = 0 /\ rtLine = 0 /\ rtDocs = <<>>

-----------------------------------------------------------------------------
(* splitJSONValues *)

\* The nesting after the bytes from i to j, and whether j is inside a string: a byte after
\* a backslash is never a quote.
NestingBlind[d \in Seq(Bytes)] ==
  IF d = <<>> THEN [depth |-> 0, str |-> FALSE, esc |-> FALSE]
  ELSE LET p == NestingBlind[SubSeq(d, 1, Len(d) - 1)]
           c == d[Len(d)]
       IN [p EXCEPT !.depth = @ + (IF c \in {"{", "["} THEN 1 ELSE IF c \in {"}", "]"} THEN -1 ELSE 0)]
\* As Nesting, but a bracket inside a string counts.
NestingAnyByte(d) == NestingBlind[d]

NestingOf[d \in Seq(Bytes)] ==
  IF d = <<>> THEN [depth |-> 0, str |-> FALSE, esc |-> FALSE]
  ELSE LET p == NestingOf[SubSeq(d, 1, Len(d) - 1)]
           c == d[Len(d)]
       IN IF p.str THEN [p EXCEPT !.esc = ~p.esc /\ c = "b", !.str = p.esc \/ c # "q"]
          ELSE [p EXCEPT !.str = c = "q",
                         !.depth = @ + (IF c \in {"{", "["} THEN 1 ELSE IF c \in {"}", "]"} THEN -1 ELSE 0)]
Nesting(d) == NestingOf[d]

\* scanJSONValue: where the value that begins at i ends, or -1 when the file ends first.
ScanEnd1(i, ends, none) == IF ends = {} THEN none ELSE CHOOSE e \in ends : \A f \in ends : e <= f
ScanJSONValue(i) ==
  CASE Byte(i) \in {"{", "["} ->
         ScanEnd1(i, {e \in (i + 1)..Size : Nesting(Slice(i, e)).depth = 0 /\ ~Nesting(Slice(i, e)).str}, -1)
    [] Byte(i) = "q" -> ScanEnd1(i, {e \in (i + 2)..Size : ~Nesting(Slice(i, e)).str}, -1)
    [] OTHER -> ScanEnd1(i, {e \in i..(Size - 1) : Byte(e) \in Space \cup {",", "]", "}"}}, Size)

\* As AppendDoc, but a value's start is taken after its first byte was passed.
AppendDocLate(i, e) == rtDocs' = Append(rtDocs, [doc |-> Slice(i + 1, e), line |-> 0, off |-> 0]) /\ rtI' = e
AppendDoc(i, e) == rtDocs' = Append(rtDocs, [doc |-> Slice(i, e), line |-> 0, off |-> 0]) /\ rtI' = e

SplitStart ==
  /\ rtPc = "start"
  /\ LET i == SkipSpace(rtI)
     IN IF i >= Size THEN rtPc' = "done" /\ rtI' = i
        ELSE IF Byte(i) = "[" THEN rtPc' = "array" /\ rtI' = i + 1
        ELSE rtPc' = "stream" /\ rtI' = i
  /\ UNCHANGED <<rtCfg, rtData, rtTokOff, rtFed, rtLine, rtDocs>>

\* One value from i on, or the error of a value that does not end.
SplitValue(i) ==
  LET e == ScanJSONValue(i)
  IN IF e = -1 THEN rtPc' = "error" /\ UNCHANGED <<rtI, rtDocs>> ELSE AppendDoc(i, e) /\ UNCHANGED rtPc

ArrayEnd == rtPc' = "error" /\ UNCHANGED <<rtI, rtDocs>>

SplitElement ==
  /\ rtPc = "array"
  /\ LET i == SkipSpace(rtI)
     IN IF i >= Size THEN ArrayEnd
        ELSE IF Byte(i) = "]" THEN rtPc' = "done" /\ UNCHANGED <<rtI, rtDocs>>
        ELSE IF Byte(i) = "," THEN rtI' = i + 1 /\ UNCHANGED <<rtPc, rtDocs>>
        ELSE SplitValue(i)
  /\ UNCHANGED <<rtCfg, rtData, rtTokOff, rtFed, rtLine>>

SplitStream ==
  /\ rtPc = "stream"
  /\ LET i == SkipSpace(rtI)
     IN IF i >= Size THEN rtPc' = "done" /\ UNCHANGED <<rtI, rtDocs>> ELSE SplitValue(i)
  /\ UNCHANGED <<rtCfg, rtData, rtTokOff, rtFed, rtLine>>

-----------------------------------------------------------------------------
(* jsonlSource *)

\* The reader hands the scanner some more bytes.
Refill ==
  /\ rtPc = "lines" /\ rtFed < Size
  /\ rtFed' \in (rtFed + 1)..Size
  /\ UNCHANGED <<rtCfg, rtData, rtPc, rtI, rtTokOff, rtLine, rtDocs>>

\* bufio.ScanLines on the bytes that are there: how far to advance, 0 for more data.
Advance ==
  LET nl == {k \in rtI..(rtFed - 1) : Byte(k) = "n"}
  IN IF nl # {} THEN (CHOOSE k \in nl : \A j \in nl : k <= j) + 1 - rtI
     ELSE IF rtFed = Size THEN rtFed - rtI ELSE 0

\* As LineOffset, but where the reading stands after the line.
LineOffsetAfter == rtI + Advance
\* The wrapped split function remembers where the bytes it was given begin.
LineOffset == rtI

\* As NextLine, but only the lines with a record are counted.
NextLineOfRecords(blank) == IF blank THEN rtLine ELSE rtLine + 1
NextLine(blank) == rtLine + 1

\* jsonlSource.Next: one call of the split function, and the record of its line.
SplitLine ==
  /\ rtPc = "lines"
  /\ rtTokOff' = LineOffset
  /\ rtI' = rtI + Advance
  /\ LET doc == TrimSpace(Slice(rtI, rtI + Advance))
     IN IF Advance = 0
        THEN rtPc' = (IF rtFed = Size THEN "done" ELSE "lines") /\ UNCHANGED <<rtLine, rtDocs>>
        ELSE /\ rtLine' = NextLine(doc = <<>>) /\ UNCHANGED rtPc
             /\ rtDocs' = IF doc = <<>> THEN rtDocs ELSE Append(rtDocs, [doc |-> doc, line |-> rtLine' - 1, off |-> rtTokOff'])
  /\ UNCHANGED <<rtCfg, rtData, rtFed>>

\* Another program appends a line after the scan, to a file whose last line is ended.
AppendLine ==
  /\ rtPc = "done" /\ rtCfg.fmt = "jsonl" /\ Size = Len(rtCfg.data) /\ (Size > 0 => Byte(Size - 1) = "n")
  /\ rtData' = rtData \o <<"y", "n">>
  /\ UNCHANGED <<rtCfg, rtPc, rtI, rtTokOff, rtFed, rtLine, rtDocs>>

RtNext == SplitStart \/ SplitElement \/ SplitStream \/ Refill \/ SplitLine \/ AppendLine

RtSpec(Cfgs) == RtInit(Cfgs) /\ [][RtNext]_rtVars

\* readLineAtInto: the line that begins at an offset.
LineAt(off) ==
  LET nl == {k \in off..(Size - 1) : Byte(k) = "n"}
  IN Slice(off, IF nl = {} THEN Size ELSE CHOOSE k \in nl : \A j \in nl : k <= j)

-----------------------------------------------------------------------------
(* Properties *)

\* A .json file that was written whole gives exactly the values it was written from, in
\* order, whatever brackets, quotes and backslashes are inside their strings; a file cut
\* off inside its array gives an error and never some of the elements as if they were all.
SplitExact ==
  rtCfg.fmt = "json" /\ rtPc \in {"done", "error"} =>
    IF rtCfg.whole THEN rtPc = "done" /\ [k \in 1..Len(rtDocs) |-> rtDocs[k].doc] = rtCfg.docs
    ELSE rtData[1] = "[" => rtPc = "error"

\* Every value that the splitting finds has at least one byte, so that it comes to an end.
SplitAdvances == rtCfg.fmt = "json" => \A k \in 1..Len(rtDocs) : rtDocs[k].doc # <<>>

\* The offset in a record's id is where its line begins: reading a line there, trimmed,
\* gives the record back, however the bytes came in and whatever was appended since.
SeekFindsRecord ==
  rtCfg.fmt = "jsonl" => \A k \in 1..Len(rtDocs) : TrimSpace(LineAt(rtDocs[k].off)) = rtDocs[k].doc

\* A record's ordinal is the number of lines before it, blank ones too, and every line with
\* something on it is a record, in order.
LinesExact ==
  rtCfg.fmt = "jsonl" /\ rtPc = "done" =>
    /\ \A k \in 1..Len(rtDocs) : rtDocs[k].line = Cardinality({j \in 0..(rtDocs[k].off - 1) : Byte(j) = "n"})
    /\ {rtDocs[k].off : k \in 1..Len(rtDocs)} =
         {o \in 0..(Len(rtCfg.data) - 1) : (o = 0 \/ Byte(o - 1) = "n") /\ TrimSpace(LineAt(o)) # <<>>}

-----------------------------------------------------------------------------
(***************************************************************************)
(* records/records.go: the sources of opened files come from a pool and go *)
(* back to it, with their buffers, when they are closed.  A walkSource     *)
(* opens the files of a keyspace one after another, for rows (Next) or for *)
(* column batches (NextColumns), and lends the record it returned until it *)
(* is asked for the next.  The scans of a join run one inside the other,   *)
(* those of a union at the same time.                                      *)
(***************************************************************************)

CONSTANTS
  SpScans,         \* the walk sources
  SpFiles,         \* how many files each of them has
  SpRecords        \* how many records a file has

ASSUME SpAssumption == IsFiniteSet(SpScans) /\ SpFiles \in Nat /\ SpRecords \in Nat

VARIABLES
  spOn,            \* whether this component runs
  spPool,          \* jsonSourcePool: the sources in it, each as often as it was put
  spMade,          \* how many sources were made
  spBuf,           \* source -> what its buffers hold: <<scan, file>>
  spPc,            \* scan -> "open", "next", "stopped", "closed"
  spFile,          \* scan -> walkSource's i
  spCur,           \* scan -> walkSource's cur, 0 for none
  spI,             \* scan -> jsonSource's i
  spLent,          \* scan -> the record it lends: [src, file], src 0 for none
  spErr            \* scan -> whether it ended with an error

spVars == <<spOn, spPool, spMade, spBuf, spPc, spFile, spCur, spI, spLent, spErr>>

Sources == 1..(2 * Cardinality(SpScans) * SpFiles)
NotLent == [src |-> 0, file |-> 0]

SpInit(on) ==
  /\ spOn = on /\ spPool = [s \in Sources |-> 0] /\ spMade = 0 /\ spBuf = [s \in Sources |-> <<"none", 0>>]
  /\ spPc = [w \in SpScans |-> "open"] /\ spFile = [w \in SpScans |-> 1] /\ spCur = [w \in SpScans |-> 0]
  /\ spI = [w \in SpScans |-> 0] /\ spLent = [w \in SpScans |-> NotLent] /\ spErr = [w \in SpScans |-> FALSE]

Put(s) == spPool' = [spPool EXCEPT ![s] = @ + 1]

\* sync.Pool.Get: any source of the pool, or a new one.
Get(s) ==
  \/ spPool[s] > 0 /\ spPool' = [spPool EXCEPT ![s] = @ - 1] /\ UNCHANGED spMade
  \/ s = spMade + 1 /\ spMade' = s /\ UNCHANGED spPool

\* newJSONSource: the source's buffers are filled with the values of the file.
OpenFile(w, s) ==
  /\ spPc[w] = "open" /\ spFile[w] <= SpFiles
  /\ Get(s)
  /\ spBuf' = [spBuf EXCEPT ![s] = <<w, spFile[w]>>]
  /\ spCur' = [spCur EXCEPT ![w] = s] /\ spI' = [spI EXCEPT ![w] = 0] /\ spPc' = [spPc EXCEPT ![w] = "next"]
  /\ UNCHANGED <<spOn, spFile, spLent, spErr>>

\* newJSONSource fails: the source went back to the pool, with what it had read; the
\* container is skipped, or the scan fails.
OpenFails(w, s) ==
  /\ spPc[w] = "open" /\ spFile[w] <= SpFiles
  /\ \/ spPool[s] > 0 /\ UNCHANGED <<spPool, spMade>>
     \/ s = spMade + 1 /\ spMade' = s /\ Put(s)
  /\ spBuf' = [spBuf EXCEPT ![s] = <<w, spFile[w]>>]
  /\ \/ spFile' = [spFile EXCEPT ![w] = @ + 1] /\ UNCHANGED <<spPc, spErr>>
     \/ spPc' = [spPc EXCEPT ![w] = "stopped"] /\ spErr' = [spErr EXCEPT ![w] = TRUE] /\ UNCHANGED spFile
  /\ spLent' = [spLent EXCEPT ![w] = NotLent]
  /\ UNCHANGED <<spOn, spCur, spI>>

\* As NextRecord, but the source is closed with its last record.
NextRecordCloses(w) ==
  /\ spPc[w] = "next" /\ spI[w] < SpRecords
  /\ spI' = [spI EXCEPT ![w] = @ + 1] /\ spLent' = [spLent EXCEPT ![w] = [src |-> spCur[w], file |-> spFile[w]]]
  /\ IF spI[w] + 1 < SpRecords THEN UNCHANGED <<spPool, spPc, spFile, spCur>>
     ELSE /\ Put(spCur[w]) /\ spCur' = [spCur EXCEPT ![w] = 0]
          /\ spFile' = [spFile EXCEPT ![w] = @ + 1] /\ spPc' = [spPc EXCEPT ![w] = "open"]
  /\ UNCHANGED <<spOn, spMade, spBuf, spErr>>
\* walkSource.Next, NextColumns: the next record of the open file, lent to the caller.
NextRecord(w) ==
  /\ spPc[w] = "next" /\ spI[w] < SpRecords
  /\ spI' = [spI EXCEPT ![w] = @ + 1] /\ spLent' = [spLent EXCEPT ![w] = [src |-> spCur[w], file |-> spFile[w]]]
  /\ UNCHANGED <<spOn, spPool, spMade, spBuf, spPc, spFile, spCur, spErr>>

\* The file is at its end: its source is closed and let go of, and the next is opened.
FileDrained(w) ==
  /\ spPc[w] = "next" /\ spI[w] = SpRecords
  /\ Put(spCur[w]) /\ spCur' = [spCur EXCEPT ![w] = 0]
  /\ spFile' = [spFile EXCEPT ![w] = @ + 1] /\ spPc' = [spPc EXCEPT ![w] = "open"]
  /\ spLent' = [spLent EXCEPT ![w] = NotLent]
  /\ UNCHANGED <<spOn, spMade, spBuf, spI, spErr>>

\* The source fails in the middle: the walk source keeps it until it is closed.
NextFails(w) ==
  /\ spPc[w] = "next"
  /\ spPc' = [spPc EXCEPT ![w] = "stopped"] /\ spErr' = [spErr EXCEPT ![w] = TRUE] /\ spLent' = [spLent EXCEPT ![w] = NotLent]
  /\ UNCHANGED <<spOn, spPool, spMade, spBuf, spFile, spCur, spI>>

\* The caller is done with the scan, at its end or before it, and closes it.
Stop(w) ==
  /\ spPc[w] \in {"open", "next"}
  /\ spPc' = [spPc EXCEPT ![w] = "stopped"] /\ spLent' = [spLent EXCEPT ![w] = NotLent]
  /\ UNCHANGED <<spOn, spPool, spMade, spBuf, spFile, spCur, spI, spErr>>

\* As CloseCur, but the open file's source is left behind.
CloseCurNever(w) == UNCHANGED <<spPool, spCur>>
\* walkSource.Close: the open source is closed once, if there is one.
CloseCur(w) == IF spCur[w] = 0 THEN UNCHANGED <<spPool, spCur>> ELSE Put(spCur[w]) /\ spCur' = [spCur EXCEPT ![w] = 0]

WalkClose(w) ==
  /\ spPc[w] = "stopped"
  /\ CloseCur(w)
  /\ spPc' = [spPc EXCEPT ![w] = "closed"]
  /\ UNCHANGED <<spOn, spMade, spBuf, spFile, spI, spLent, spErr>>

SpNext ==
  \E w \in SpScans :
    \/ \E s \in 1..(spMade + 1) : OpenFile(w, s) \/ OpenFails(w, s)
    \/ NextRecord(w) \/ FileDrained(w) \/ NextFails(w) \/ Stop(w) \/ WalkClose(w)

SpSpec(on) == SpInit(on) /\ [][SpNext]_spVars

SpDone == \A w \in SpScans : spPc[w] = "closed"

-----------------------------------------------------------------------------
(* Properties *)

\* The record that a scan lends is still the one it returned, whatever other scans opened
\* and closed since: no two of them ever have the same source.
LentRecordIntact == \A w \in SpScans : spLent[w].src # 0 => spBuf[spLent[w].src] = <<w, spLent[w].file>>

\* When every scan is closed, every source that was made is in the pool, exactly once.
SourcesReturned == SpDone => \A s \in 1..spMade : spPool[s] = 1

\* The bytes of a file become its records, at their positions, and the record
\* that a scan lends stays its own while pooled sources change hands.
RecordsExact ==
  /\ SplitExact
  /\ SplitAdvances
  /\ SeekFindsRecord
  /\ LinesExact
  /\ LentRecordIntact
  /\ SourcesReturned
=============================================================================
