--------------------------- MODULE SessionProofs ---------------------------
(***************************************************************************)
(* Proofs about Session: what each statement of a script prints and keeps, *)
(* which interrupts halt it, and what a closed session has freed.          *)
(***************************************************************************)
EXTENDS Session, SequenceTheorems, FiniteSetTheorems, TLAPS

Records == STRING \ {"absent"}
Keyspaces == {"f", "t"}
Statement ==
  [op : {"bad", "select", "explain", "create", "drop", "insert", "prepare", "execute"},
   ks : Keyspaces, name : STRING, using : Nat, flag : BOOLEAN]

\* A script of any statements, and any way to run it, where each prepared
\* statement reads what its first EXECUTE found: keyspace t is not replaced or
\* dropped after an EXECUTE, unless only f is read by prepared statements.  With
\* -exec=compiled the output does not stream and no name is prepared twice; no
\* operator panics while a temporary keyspace is made.
SessionConfigOK(c) ==
  /\ c \in [script : Seq(Statement), stream : BOOLEAN, full : BOOLEAN, bail : BOOLEAN, arg : Nat,
            reads : Nat, presses : BOOLEAN, panics : BOOLEAN, file : Seq(Records)]
  /\ \/ \A i \in DOMAIN c.script : c.script[i].op = "prepare" => c.script[i].ks = "f"
     \/ \A i, j \in DOMAIN c.script :
          c.script[i].op = "execute" /\ i < j => c.script[j].op \notin {"create", "drop"}
  /\ c.full => ~c.stream
  /\ c.full => \A i, j \in DOMAIN c.script :
       c.script[i].op = "prepare" /\ c.script[j].op = "prepare" /\ i < j => c.script[i].name # c.script[j].name
  /\ c.panics => \A i \in DOMAIN c.script : c.script[i].op # "create"

-----------------------------------------------------------------------------
Pcs == {"prompt", "parse", "plan", "build", "start", "scan", "ended", "exit", "killed"}
Hows == {"none", "ok", "prepared", "halted", "err", "unsupported"}
Hooks == {"none", "print", "collect", "write"}
Lines == (Records \X Nat) \cup {"plan", "summary"}

Runs ==
  [plan : Int, arg : Nat, pos : Nat, rows : Seq(Lines), back : Hooks, heap : Nat, doc : Seq(Records),
   how : Hows, landed : {"no", "due", "late"}, want : Seq(Lines), from : Nat]

RunTypes == seRun \in Runs

Prepareds == [ks : Keyspaces, plan : Int, arg : Nat, native : BOOLEAN, tried : BOOLEAN, bin : Nat]
Heaps == [rows : Seq(Records), open : BOOLEAN]

SessionTypes ==
  /\ SessionConfigOK(seCfg)
  /\ sePc \in Pcs /\ seAt \in Nat \ {0} /\ seHalt \in {0, 1} /\ seOnRow \in Hooks /\ seOutErr \in BOOLEAN
  /\ RunTypes
  /\ sePrep \in [DOMAIN sePrep -> Prepareds]
  /\ seHeap \in Seq(Heaps) /\ seTemp \in 0..Len(seHeap)
  /\ seFile \in Seq(Records) /\ IsFiniteSet(seBins)
  /\ seOut \in Seq(Lines)
  /\ seWant \in [f : Seq(Records), t : Seq(Records) \cup {Absent}]

\* The keyspaces hold what the statements that ended well made of them.
StoreInv ==
  sePc \notin {"exit", "killed"} =>
    /\ seFile = seWant.f
    /\ seTemp = 0 <=> seWant.t = Absent
    /\ seTemp # 0 => seHeap[seTemp].open /\ seHeap[seTemp].rows = seWant.t

\* A heap under way is the one of the CREATE that runs.
Creates == sePc \in {"plan", "start", "scan"} /\ Stmt.op = "create"

OpenInv ==
  sePc # "killed" =>
    \A h \in DOMAIN seHeap : seHeap[h].open =>
      (h = seTemp /\ sePc # "exit") \/ (Creates /\ h = seRun.heap)

\* A name was prepared, and by an earlier statement; a plan it has was made by
\* an EXECUTE and is still what its keyspace resolves to.
PreparedBy(n) ==
  \E i \in DOMAIN seCfg.script :
    /\ i <= seAt /\ (sePc \in {"prompt", "parse"} => i < seAt)
    /\ seCfg.script[i].op = "prepare" /\ seCfg.script[i].name = n /\ seCfg.script[i].ks = sePrep[n].ks

PrepInv ==
  sePc \notin {"exit", "killed"} =>
    \A n \in DOMAIN sePrep :
      /\ PreparedBy(n)
      /\ sePrep[n].plan # NoPlan =>
           /\ \E i \in DOMAIN seCfg.script : i <= seAt /\ seCfg.script[i].op = "execute"
           /\ sePrep[n].plan = Resolve(sePrep[n].ks)

\* The binaries on disk are those of the prepared statements.
BinInv ==
  sePc # "killed" =>
    /\ \A n \in DOMAIN sePrep : (sePrep[n].tried /\ seCfg.full) \/ sePrep[n].bin = NoBin
    /\ seBins = {sePrep[n].bin : n \in DOMAIN sePrep} \ {NoBin}

\* A closed session has removed them.
ExitInv == sePc = "exit" => seBins = {}

Running == sePc \in {"parse", "plan", "build", "start", "scan", "ended"}
Prints == seCfg.stream /\ Stmt.op # "explain"
Caller == IF Prints THEN "print" ELSE "none"
Hook == CASE Stmt.op = "create" -> "collect" [] Stmt.op = "insert" -> "write" [] OTHER -> Caller
SourceOf == IF Stmt.op = "execute" THEN sePrep[Stmt.name].ks ELSE Stmt.ks
Bound == IF Stmt.op = "execute" /\ Stmt.using # NoArg THEN Stmt.using ELSE seCfg.arg

\* What a Run that has not ended knows of its statement.
RunInv ==
  /\ Running => seAt <= Len(seCfg.script) /\ seRun.from <= Len(seOut)
  /\ sePc \in {"parse", "plan", "build", "start", "scan"} => seRun.want = Asked
  /\ sePc \in {"parse", "plan", "build", "start"} =>
       /\ seRun.pos = 0 /\ seRun.rows = <<>> /\ seRun.doc = <<>> /\ seRun.landed = "no"
       /\ Len(seOut) = seRun.from /\ ~seOutErr
  /\ sePc = "parse" => seOnRow = Caller
  /\ sePc \in {"plan", "build", "start", "scan"} =>
       /\ seRun.back = Caller /\ seOnRow = Hook /\ seRun.arg = Bound
       /\ Stmt.op \in {"select", "explain", "create", "insert", "execute"}
       /\ Stmt.op = "execute" => Stmt.name \in DOMAIN sePrep
       /\ Stmt.op = "create" => /\ seRun.heap \in DOMAIN seHeap /\ seRun.heap # seTemp /\ seHeap[seRun.heap].open
                                /\ sePc # "scan" => seHeap[seRun.heap].rows = <<>>
  /\ sePc = "plan" => Stmt.op # "execute"
  /\ sePc = "build" => Stmt.op = "execute" /\ seCfg.full
  /\ sePc \in {"build", "start", "scan"} =>
       Stmt.op # "explain" /\ seRun.plan = Resolve(SourceOf) /\ seRun.plan # NoPlan

\* The records taken so far, in the order of the source.
Taken(seq) == Len(seq) = seRun.pos /\ \A i \in 1..seRun.pos : seq[i] = SeRecords[i]
Printed == Len(seOut) - seRun.from

ScanInv ==
  sePc = "scan" =>
    /\ seRun.pos <= Len(SeRecords)
    /\ \/ seHalt = 0 /\ seRun.landed = "no"
       \/ seHalt = 1 /\ seRun.landed = Landing(seRun.pos)
    /\ Stmt.op = "create" => Taken(seHeap[seRun.heap].rows)
    /\ Stmt.op = "insert" => Taken(seRun.doc)
    /\ seOnRow = "none" => Len(seRun.rows) = seRun.pos /\ \A i \in 1..seRun.pos : seRun.rows[i] = <<SeRecords[i], seRun.arg>>
    /\ seOnRow = "print" =>
         /\ Printed <= seRun.pos /\ (~seOutErr => Printed = seRun.pos)
         /\ \A i \in 1..Printed : seOut[seRun.from + i] = <<SeRecords[i], seRun.arg>>
    /\ seOnRow # "print" => Printed = 0 /\ ~seOutErr

\* How a Run has ended: what it printed, what it returns, and why it stopped.
EndInv ==
  sePc = "ended" =>
    /\ Printed <= Len(seRun.want) /\ \A i \in 1..Printed : seOut[seRun.from + i] = seRun.want[i]
    /\ seRun.how = "ok" => IF Prints THEN ~seOutErr => Printed = Len(seRun.want) ELSE seRun.rows = seRun.want
    /\ ~Prints => Printed = 0 /\ ~seOutErr
    /\ seRun.how = "err" => Printed = 0
    /\ seRun.how = "halted" => seRun.landed = "due"
    /\ seRun.landed = "due" => seRun.how \in {"halted", "unsupported"}

Ends == [how : Hows, landed : {"no", "due", "late"}, want : Seq(Lines), lines : Seq(Lines), cut : BOOLEAN]
EndsInv == seEnds \in Seq(Ends) /\ SessionOutput /\ SessionHalts

SessionInv ==
  /\ SessionTypes /\ StoreInv /\ OpenInv /\ PrepInv /\ BinInv /\ ExitInv
  /\ RunInv /\ ScanInv /\ EndInv /\ EndsInv

-----------------------------------------------------------------------------
(* Lemmas.                                                                 *)

LEMMA StmtType ==
  ASSUME SessionTypes, seAt <= Len(seCfg.script)
  PROVE  /\ Stmt \in Statement /\ seAt \in DOMAIN seCfg.script
         /\ Stmt.op \in {"bad", "select", "explain", "create", "drop", "insert", "prepare", "execute"}
         /\ Stmt.ks \in Keyspaces /\ Stmt.name \in STRING /\ Stmt.using \in Nat /\ Stmt.flag \in BOOLEAN
<1>1. seCfg.script \in Seq(Statement) BY DEF SessionTypes, SessionConfigOK
<1>2. seAt \in 1..Len(seCfg.script) BY DEF SessionTypes
<1>3. Stmt \in Statement BY <1>1, <1>2 DEF Stmt
<1> QED BY <1>1, <1>2, <1>3 DEF Statement

LEMMA AbsentIsNoRows == Absent \notin Seq(Records)
BY DEF Absent, Records

LEMMA LinesForm ==
  /\ "plan" \in Lines /\ "summary" \in Lines
  /\ \A r \in Records, a \in Nat : <<r, a>> \in Lines
BY DEF Lines

LEMMA BoundType ==
  ASSUME NEW recs \in Seq(Records), NEW arg \in Nat
  PROVE  /\ SeBound(recs, arg) \in Seq(Lines) /\ Len(SeBound(recs, arg)) = Len(recs)
         /\ \A i \in 1..Len(recs) : SeBound(recs, arg)[i] = <<recs[i], arg>>
<1>1. \A i \in 1..Len(recs) : <<recs[i], arg>> \in Lines BY LinesForm
<1>2. SeBound(recs, arg) = [i \in 1..Len(recs) |-> <<recs[i], arg>>] BY DEF SeBound
<1> HIDE DEF Lines
<1> QED BY <1>1, <1>2

\* What a resolved plan reads is what its keyspace should hold.
LEMMA SourceIsWanted ==
  ASSUME SessionTypes, StoreInv, sePc \notin {"exit", "killed"}, NEW ks \in Keyspaces, Resolve(ks) # NoPlan
  PROVE  /\ SeSource(Resolve(ks)) = seWant[ks]
         /\ seWant[ks] \in Seq(Records) /\ seWant[ks] # Absent
<1>1. CASE ks = "f" BY <1>1, AbsentIsNoRows DEF SessionTypes, StoreInv, Resolve, SeSource, FilePlan
<1>2. CASE ks = "t" BY <1>2 DEF SessionTypes, StoreInv, Resolve, SeSource, FilePlan, NoPlan
<1> QED BY <1>1, <1>2 DEF Keyspaces

LEMMA ResolveType ==
  ASSUME SessionTypes, NEW ks \in Keyspaces
  PROVE  Resolve(ks) \in Int
BY DEF Resolve, SessionTypes, FilePlan, NoPlan, Keyspaces

LEMMA WantedRows ==
  ASSUME SessionTypes, NEW ks \in Keyspaces, NEW arg \in Nat
  PROVE  WantRows(ks, arg) \in Seq(Lines)
BY BoundType DEF SessionTypes, WantRows, Keyspaces

LEMMA AskedType ==
  ASSUME SessionTypes, seAt <= Len(seCfg.script)
  PROVE  Asked \in Seq(Lines)
<1> USE StmtType, WantedRows, LinesForm
<1> seCfg.arg \in Nat BY DEF SessionTypes, SessionConfigOK
<1>1. CASE Stmt.op = "execute" /\ Stmt.name \in DOMAIN sePrep
 <2>1. sePrep[Stmt.name].ks \in Keyspaces BY <1>1 DEF SessionTypes, Prepareds
 <2> QED BY <1>1, <2>1 DEF Asked
<1>2. CASE ~(Stmt.op = "execute" /\ Stmt.name \in DOMAIN sePrep)
 <2> HIDE DEF Lines
 <2> QED BY <1>2 DEF Asked
<1> QED BY <1>1, <1>2

\* The forms that a Run takes, and the heaps.
LEMMA RunForms ==
  ASSUME NEW r \in Runs
  PROVE  /\ \A a \in Nat, b \in Hooks : [r EXCEPT !.arg = a, !.back = b] \in Runs
         /\ \A a \in Nat, b \in Hooks, n \in Nat : [r EXCEPT !.arg = a, !.back = b, !.heap = n] \in Runs
         /\ \A p \in Int, a \in Nat, b \in Hooks : [r EXCEPT !.plan = p, !.arg = a, !.back = b] \in Runs
         /\ \A p \in Int : [r EXCEPT !.plan = p] \in Runs
         /\ \A h \in Hows : [r EXCEPT !.how = h] \in Runs
         /\ \A h \in Hows, rows \in Seq(Lines) : [r EXCEPT !.how = h, !.rows = rows] \in Runs
         /\ \A l \in {"no", "due", "late"} : [r EXCEPT !.landed = l] \in Runs
         /\ \A n \in Nat : [r EXCEPT !.pos = n] \in Runs
         /\ \A n \in Nat, l \in {"no", "due", "late"} : [r EXCEPT !.pos = n, !.landed = l] \in Runs
         /\ \A n \in Nat, rows \in Seq(Lines) : [r EXCEPT !.pos = n, !.rows = rows] \in Runs
         /\ \A n \in Nat, doc \in Seq(Records) : [r EXCEPT !.pos = n, !.doc = doc] \in Runs
BY DEF Runs

LEMMA IdleForm ==
  ASSUME NEW want \in Seq(Lines), NEW n \in Nat
  PROVE  [SeIdleRun EXCEPT !.want = want, !.from = n] \in Runs
<1>1. <<>> \in Seq(Lines) /\ <<>> \in Seq(Records) /\ NoPlan \in Int BY DEF NoPlan
<1>2. SeIdleRun \in Runs BY <1>1 DEF Runs, Hows, Hooks, SeIdleRun, NoArg
<1> HIDE DEF SeIdleRun
<1> QED BY <1>2 DEF Runs

LEMMA CloseHeap ==
  ASSUME NEW heap \in Seq(Heaps), NEW h \in DOMAIN heap
  PROVE  /\ [heap EXCEPT ![h].open = FALSE] \in Seq(Heaps) /\ Len([heap EXCEPT ![h].open = FALSE]) = Len(heap)
         /\ \A i \in DOMAIN heap : /\ [heap EXCEPT ![h].open = FALSE][i].rows = heap[i].rows
                                   /\ [heap EXCEPT ![h].open = FALSE][i].open = (heap[i].open /\ i # h)
<1> DEFINE c == [heap[h] EXCEPT !.open = FALSE]
<1>1. heap[h] \in Heaps /\ \A i \in DOMAIN heap : heap[i] \in Heaps OBVIOUS
<1>2. c \in Heaps BY <1>1 DEF Heaps
<1>3. c.rows = heap[h].rows BY <1>1 DEF Heaps
<1>7. c.open = FALSE BY <1>1 DEF Heaps
<1>8. \A i \in DOMAIN heap : heap[i].open \in BOOLEAN BY <1>1 DEF Heaps
<1> HIDE DEF c
<1>4. [heap EXCEPT ![h] = c] \in Seq(Heaps) /\ Len([heap EXCEPT ![h] = c]) = Len(heap) BY <1>2
<1>5. \A i \in DOMAIN heap : [heap EXCEPT ![h] = c][i] = IF i = h THEN c ELSE heap[i] OBVIOUS
<1>6. [heap EXCEPT ![h].open = FALSE] = [heap EXCEPT ![h] = c] BY DEF c
<1> DEFINE new == [heap EXCEPT ![h] = c]
<1> HIDE DEF new
<1>9. \A i \in DOMAIN heap : new[i].rows = heap[i].rows /\ new[i].open = (heap[i].open /\ i # h)
  BY <1>3, <1>5, <1>7, <1>8 DEF new
<1> QED BY <1>4, <1>6, <1>9 DEF new

LEMMA NewHeap ==
  ASSUME NEW heap \in Seq(Heaps)
  PROVE  LET new == Append(heap, [rows |-> <<>>, open |-> TRUE]) IN
         /\ new \in Seq(Heaps) /\ Len(new) = Len(heap) + 1
         /\ \A i \in DOMAIN heap : new[i] = heap[i]
         /\ new[Len(heap) + 1].rows = <<>> /\ new[Len(heap) + 1].open
<1>1. [rows |-> <<>>, open |-> TRUE] \in Heaps BY DEF Heaps
<1> QED BY <1>1

LEMMA CollectHeap ==
  ASSUME NEW heap \in Seq(Heaps), NEW h \in DOMAIN heap, NEW r \in Records
  PROVE  /\ [heap EXCEPT ![h].rows = Append(@, r)] \in Seq(Heaps) /\ Len([heap EXCEPT ![h].rows = Append(@, r)]) = Len(heap)
         /\ \A i \in DOMAIN heap : /\ [heap EXCEPT ![h].rows = Append(@, r)][i].rows = IF i = h THEN Append(heap[h].rows, r) ELSE heap[i].rows
                                   /\ [heap EXCEPT ![h].rows = Append(@, r)][i].open = heap[i].open
<1> DEFINE rows == Append(heap[h].rows, r)
           c == [heap[h] EXCEPT !.rows = rows]
<1>1. heap[h] \in Heaps OBVIOUS
<1>2. rows \in Seq(Records) BY <1>1 DEF Heaps
<1> HIDE DEF rows
<1>3. c \in Heaps BY <1>1, <1>2 DEF Heaps
<1>7. c.rows = rows BY <1>1, <1>2 DEF Heaps
<1>8. c.open = heap[h].open BY <1>1, <1>2 DEF Heaps
<1> HIDE DEF c
<1>4. [heap EXCEPT ![h] = c] \in Seq(Heaps) /\ Len([heap EXCEPT ![h] = c]) = Len(heap) BY <1>3
<1>5. \A i \in DOMAIN heap : [heap EXCEPT ![h] = c][i] = IF i = h THEN c ELSE heap[i] OBVIOUS
<1>6. [heap EXCEPT ![h].rows = Append(@, r)] = [heap EXCEPT ![h] = c] BY DEF c, rows
<1> QED BY <1>3, <1>4, <1>5, <1>6, <1>7, <1>8 DEF rows

LEMMA SameElements ==
  ASSUME NEW S, NEW a \in Seq(S), NEW b \in Seq(S), Len(a) = Len(b), \A i \in 1..Len(b) : a[i] = b[i]
  PROVE  a = b
OBVIOUS

-----------------------------------------------------------------------------
(* The steps.                                                              *)

LEMMA TypesStep ==
  ASSUME SessionInv, SessionNext
  PROVE  SessionTypes'
<1> USE DEF SessionInv
<1> SUFFICES RunTypes' /\ SessionTypes' OBVIOUS
<1>c. seCfg' = seCfg /\ SessionConfigOK(seCfg) /\ seCfg.arg \in Nat /\ seCfg.script \in Seq(Statement)
      /\ seCfg.reads \in Nat /\ seCfg.file \in Seq(Records)
  BY DEF SessionTypes, SessionConfigOK, SessionNext, SeExec, ParseFails, ParseSelect, ParseCreate, ParseInsert, ParseDrop, PrepareRun, ExecuteRun, Build, RunChild, SePlan, ClearHalt, ScanHalted, ScanRecord, ScanPanics, ScanDone, SeRender, SeClose, SePress, SeSignal, SeInterrupt
<1>s. sePc \in {"parse", "plan", "build", "start", "scan", "ended"} => seAt <= Len(seCfg.script) /\ seRun.from <= Len(seOut)
  BY DEF RunInv, Running
<1>r. seRun \in Runs /\ seHeap \in Seq(Heaps) /\ seOut \in Seq(Lines) /\ seTemp \in 0..Len(seHeap) /\ seOnRow \in Hooks
  BY DEF SessionTypes, RunTypes
<1>f. /\ seRun.pos \in Nat /\ seRun.rows \in Seq(Lines) /\ seRun.doc \in Seq(Records) /\ seRun.back \in Hooks
      /\ seRun.arg \in Nat BY <1>r DEF Runs
<1>h. /\ "ok" \in Hows /\ "prepared" \in Hows /\ "halted" \in Hows /\ "err" \in Hows /\ "unsupported" \in Hows
      /\ "none" \in Hooks /\ "print" \in Hooks /\ "collect" \in Hooks /\ "write" \in Hooks
      /\ "parse" \in Pcs /\ "plan" \in Pcs /\ "build" \in Pcs /\ "start" \in Pcs /\ "scan" \in Pcs /\ "ended" \in Pcs
      /\ "prompt" \in Pcs /\ "exit" \in Pcs /\ "killed" \in Pcs BY DEF Hows, Hooks, Pcs
<1>p. \A p \in Nat : Landing(p) \in {"no", "due", "late"} BY DEF Landing
<1>l. <<"plan">> \in Seq(Lines) /\ <<"summary">> \in Seq(Lines) BY LinesForm
<1> USE DEF RunTypes, SeReturn
<1>1. CASE SeExec
 <2>1. Asked \in Seq(Lines) /\ Len(seOut) \in Nat BY <1>1, <1>c, <1>r, AskedType DEF SeExec, SessionTypes
 <2>2. RunTypes' BY <1>1, <2>1, IdleForm DEF SeExec
 <2> QED BY <1>1, <1>c, <1>h, <2>2 DEF SeExec, SessionTypes, seStoreVars
<1>2. CASE ParseFails
 <2>2. RunTypes' BY <1>2, <1>r, <1>h, RunForms DEF ParseFails
 <2> QED BY <1>2, <1>c, <1>h, <2>2 DEF ParseFails, SessionTypes, seStoreVars
<1>3. CASE ParseSelect
 <2>2. RunTypes' BY <1>3, <1>c, <1>r, RunForms DEF ParseSelect
 <2> QED BY <1>3, <1>c, <1>h, <2>2 DEF ParseSelect, SessionTypes, seStoreVars
<1>4. CASE ParseCreate
 <2>2. RunTypes'
  <3>1. Len(seHeap) + 1 \in Nat BY <1>r
  <3> QED BY <1>4, <1>c, <1>r, <3>1, RunForms DEF ParseCreate
 <2>3. seHeap' \in Seq(Heaps) /\ seTemp' \in 0..Len(seHeap')
  <3>1. seHeap' \in Seq(Heaps) /\ Len(seHeap') = Len(seHeap) + 1 /\ seTemp' = seTemp
    BY <1>4, <1>r, NewHeap DEF ParseCreate
  <3> QED BY <1>r, <3>1
 <2> QED BY <1>4, <1>c, <1>h, <2>2, <2>3 DEF ParseCreate, SessionTypes
<1>5. CASE ParseInsert
 <2>2. RunTypes' BY <1>5, <1>c, <1>r, RunForms DEF ParseInsert
 <2> QED BY <1>5, <1>c, <1>h, <2>2 DEF ParseInsert, SessionTypes, seStoreVars
<1>6. CASE ParseDrop
 <2>2. RunTypes'
  <3> DEFINE rows == <<"summary">>
  <3>1. seRun' = [seRun EXCEPT !.how = "ok"] \/ seRun' = [seRun EXCEPT !.how = "ok", !.rows = rows]
    BY <1>6 DEF ParseDrop, Summarize
  <3> HIDE DEF rows
  <3>2. rows \in Seq(Lines) BY <1>l DEF rows
  <3>3. [seRun EXCEPT !.how = "ok"] \in Runs /\ [seRun EXCEPT !.how = "ok", !.rows = rows] \in Runs
    BY <1>r, <1>h, <3>2, RunForms
  <3> QED BY <3>1, <3>3
 <2>3. seHeap' \in Seq(Heaps) /\ seTemp' \in 0..Len(seHeap')
  <3>1. seTemp \in DOMAIN seHeap BY <1>6, <1>r DEF ParseDrop
  <3>2. seHeap' \in Seq(Heaps) /\ Len(seHeap') = Len(seHeap) /\ seTemp' = 0
    BY <1>6, <1>r, <3>1, CloseHeap DEF ParseDrop
  <3> QED BY <1>r, <3>2
 <2>4. seOut' \in Seq(Lines) /\ seOutErr' \in BOOLEAN /\ seHalt' \in {0, 1} /\ seOnRow' \in Hooks /\ sePc' \in Pcs
  <3>1. Append(seOut, "summary") \in Seq(Lines) BY <1>r, LinesForm
  <3> QED BY <1>6, <1>c, <1>r, <1>h, <3>1 DEF ParseDrop, SessionTypes, Summarize, Written
 <2>5. seWant' \in [f : Seq(Records), t : Seq(Records) \cup {Absent}] BY <1>6 DEF ParseDrop, SessionTypes
 <2> QED BY <1>6, <1>c, <2>2, <2>3, <2>4, <2>5 DEF ParseDrop, SessionTypes
<1>7. CASE PrepareRun
 <2>1. Stmt \in Statement /\ Stmt.ks \in Keyspaces /\ Stmt.flag \in BOOLEAN BY <1>7, <1>s, StmtType DEF PrepareRun
 <2>2. RunTypes' BY <1>7, <1>r, <1>h, RunForms DEF PrepareRun
 <2>3. sePrep' \in [DOMAIN sePrep' -> Prepareds]
   BY <1>7, <2>1 DEF PrepareRun, SessionTypes, SePut, Prepareds, NoPlan, NoArg, NoBin
 <2> QED BY <1>7, <1>c, <1>h, <2>2, <2>3 DEF PrepareRun, SessionTypes
<1>8. CASE ExecuteRun
 <2> DEFINE name == Stmt.name
            ps == sePrep[name]
            plan == IF ps.plan # NoPlan THEN ps.plan ELSE Resolve(ps.ks)
            arg == ExecuteArg(ps, Stmt.using)
            entry == [ps EXCEPT !.plan = plan, !.arg = IF ps.plan = NoPlan THEN arg ELSE ps.arg]
 <2>1. Stmt.using \in Nat /\ ps \in Prepareds /\ ps.ks \in Keyspaces /\ ps.plan \in Int /\ ps.arg \in Nat
   BY <1>8, <1>s, StmtType DEF ExecuteRun, SessionTypes, Prepareds
 <2>2. plan \in Int /\ arg \in Nat BY <1>c, <2>1, ResolveType DEF ExecuteArg
 <2>3. sePrep' \in [DOMAIN sePrep' -> Prepareds]
  <3>1. entry \in Prepareds BY <2>1, <2>2 DEF Prepareds
  <3>2. sePrep' = sePrep \/ sePrep' = [sePrep EXCEPT ![name] = entry] BY <1>8 DEF ExecuteRun, SessionTypes, Prepareds
  <3> HIDE DEF entry
  <3> QED BY <3>1, <3>2 DEF SessionTypes
 <2>4. seRun' = [seRun EXCEPT !.how = "err"] \/ seRun' = [seRun EXCEPT !.plan = plan, !.arg = arg, !.back = seOnRow]
   BY <1>8 DEF ExecuteRun
 <2> HIDE DEF plan, arg
 <2>5. RunTypes'
  <3>1. [seRun EXCEPT !.how = "err"] \in Runs BY <1>r, <1>h, RunForms
  <3>2. [seRun EXCEPT !.plan = plan, !.arg = arg, !.back = seOnRow] \in Runs BY <1>r, <2>2, RunForms
  <3> QED BY <2>4, <3>1, <3>2
 <2> QED BY <1>8, <1>c, <1>h, <2>3, <2>5 DEF ExecuteRun, SessionTypes
<1>9. CASE Build
 <2>1. RunTypes'
  <3>1. seRun' = seRun \/ seRun' = [seRun EXCEPT !.how = "err"] BY <1>9 DEF Build
  <3> QED BY <1>r, <1>h, <3>1, RunForms
 <2>2. Cardinality(seBins) \in Nat BY FS_CardinalityType DEF SessionTypes
 <2>3. IsFiniteSet(seBins')
  <3>1. IsFiniteSet(seBins \cup {Cardinality(seBins) + 1}) BY FS_AddElement DEF SessionTypes
  <3> QED BY <1>9, <3>1 DEF Build, SessionTypes
 <2>4. sePrep' \in [DOMAIN sePrep' -> Prepareds]
  <3>1. ASSUME sePrep[Stmt.name] \in Prepareds, NEW b \in Nat
        PROVE  /\ [sePrep[Stmt.name] EXCEPT !.tried = TRUE] \in Prepareds
               /\ [sePrep[Stmt.name] EXCEPT !.tried = TRUE, !.bin = b] \in Prepareds BY <3>1 DEF Prepareds
  <3>2. sePrep \in [DOMAIN sePrep -> Prepareds] /\ Stmt.name \in DOMAIN sePrep BY <1>9 DEF Build, RunInv, SessionTypes
  <3> DEFINE e1 == [sePrep[Stmt.name] EXCEPT !.tried = TRUE]
             e2 == [sePrep[Stmt.name] EXCEPT !.tried = TRUE, !.bin = Cardinality(seBins) + 1]
  <3>3. sePrep' = [sePrep EXCEPT ![Stmt.name] = e1] \/ sePrep' = [sePrep EXCEPT ![Stmt.name] = e2]
    BY <1>9, <3>2 DEF Build
  <3>4. e1 \in Prepareds /\ e2 \in Prepareds
   <4>1. Cardinality(seBins) + 1 \in Nat /\ sePrep[Stmt.name] \in Prepareds BY <2>2, <3>2
   <4> QED BY <3>1, <4>1
  <3> HIDE DEF e1, e2
  <3> QED BY <3>2, <3>3, <3>4
 <2> QED BY <1>9, <1>c, <1>h, <2>1, <2>3, <2>4 DEF Build, SessionTypes
<1>10. CASE RunChild
 <2>1. sePc = "build" /\ SeSource(seRun.plan) \in Seq(Records)
  <3>1. sePc = "build" BY <1>10 DEF RunChild
  <3>2. SourceOf \in Keyspaces BY <3>1 DEF RunInv, SourceOf, SessionTypes, Prepareds
  <3> QED BY <3>1, <3>2, SourceIsWanted DEF RunInv
 <2>2. SeBound(SeSource(seRun.plan), seRun.arg) \in Seq(Lines) BY <1>f, <2>1, BoundType
 <2>3. RunTypes'
  <3> DEFINE rows == SeBound(SeSource(seRun.plan), seRun.arg)
  <3>1. seRun' = seRun \/ seRun' = [seRun EXCEPT !.how = "ok", !.rows = rows] BY <1>10 DEF RunChild
  <3>2. rows \in Seq(Lines) BY <2>2
  <3> HIDE DEF rows
  <3>3. [seRun EXCEPT !.how = "ok", !.rows = rows] \in Runs BY <1>r, <1>h, <3>2, RunForms
  <3> QED BY <1>r, <3>1, <3>3
 <2> QED BY <1>10, <1>c, <1>h, <2>3 DEF RunChild, SessionTypes, seStoreVars
<1>11. CASE SePlan
 <2>1. Stmt.ks \in Keyspaces /\ Resolve(Stmt.ks) \in Int BY <1>11, <1>s, StmtType, ResolveType DEF SePlan
 <2>2. RunTypes'
  <3> DEFINE rows == <<"plan">>
             plan == Resolve(Stmt.ks)
  <3>1. \/ seRun' = [seRun EXCEPT !.how = "err"]
        \/ seRun' = [seRun EXCEPT !.how = "ok", !.rows = rows]
        \/ seRun' = [seRun EXCEPT !.plan = plan] BY <1>11 DEF SePlan, SeFail
  <3> HIDE DEF rows, plan
  <3>2. rows \in Seq(Lines) /\ plan \in Int BY <1>l, <2>1 DEF rows, plan
  <3>3. [seRun EXCEPT !.how = "err"] \in Runs /\ [seRun EXCEPT !.how = "ok", !.rows = rows] \in Runs
    BY <1>r, <1>h, <3>2, RunForms
  <3>4. [seRun EXCEPT !.plan = plan] \in Runs BY <1>r, <3>2, RunForms
  <3> QED BY <3>1, <3>3, <3>4
 <2>3. seHeap' \in Seq(Heaps) /\ Len(seHeap') = Len(seHeap)
  <3>1. Stmt.op = "create" => seRun.heap \in DOMAIN seHeap BY <1>11 DEF SePlan, RunInv
  <3>2. CASE Resolve(Stmt.ks) = NoPlan
   <4>1. seHeap' = IF Stmt.op = "create" THEN [seHeap EXCEPT ![seRun.heap].open = FALSE] ELSE seHeap
     BY <1>11, <3>2 DEF SePlan, SeFail
   <4> QED BY <1>r, <3>1, <4>1, CloseHeap
  <3>3. CASE Resolve(Stmt.ks) # NoPlan BY <1>11, <1>r, <3>3 DEF SePlan
  <3> QED BY <3>2, <3>3
 <2> QED BY <1>11, <1>c, <1>h, <1>f, <2>2, <2>3 DEF SePlan, SeFail, SessionTypes
<1>12. CASE ClearHalt
 <2>1. RunTypes' BY <1>12, <1>r, RunForms DEF ClearHalt
 <2> QED BY <1>12, <1>c, <1>h, <2>1 DEF ClearHalt, SessionTypes, seStoreVars
<1>13. CASE ScanHalted
 <2>1. RunTypes' BY <1>13, <1>r, <1>h, RunForms DEF ScanHalted, SeFail
 <2>2. seHeap' \in Seq(Heaps) /\ Len(seHeap') = Len(seHeap)
  <3>1. Stmt.op = "create" => seRun.heap \in DOMAIN seHeap BY <1>13 DEF ScanHalted, RunInv
  <3> QED BY <1>13, <1>r, <3>1, CloseHeap DEF ScanHalted, SeFail
 <2> QED BY <1>13, <1>c, <1>h, <1>f, <2>1, <2>2 DEF ScanHalted, SeFail, SessionTypes
<1>14. CASE ScanRecord
 <2> DEFINE rec == SeRecords[seRun.pos + 1]
            row == <<rec, seRun.arg>>
            rows == Append(seRun.rows, row)
            doc == Append(seRun.doc, rec)
            out == Append(seOut, row)
 <2>1. sePc = "scan" /\ rec \in Records /\ row \in Lines
  <3>1. sePc = "scan" BY <1>14 DEF ScanRecord
  <3>2. SourceOf \in Keyspaces BY <3>1, <1>s, StmtType DEF RunInv, SourceOf, SessionTypes, Prepareds
  <3>3. SeRecords \in Seq(Records) BY <3>1, <3>2, SourceIsWanted DEF RunInv, SeRecords
  <3>4. seRun.pos + 1 \in 1..Len(SeRecords) BY <1>14, <1>f, <3>3 DEF ScanRecord
  <3>5. rec \in Records BY <3>3, <3>4
  <3> HIDE DEF rec
  <3> QED BY <3>1, <3>5, <1>f, LinesForm
 <2>2. seRun.pos + 1 \in Nat /\ rows \in Seq(Lines) /\ doc \in Seq(Records) /\ out \in Seq(Lines)
  <3> HIDE DEF row, rec
  <3> QED BY <1>r, <1>f, <2>1
 <2>3. /\ seOnRow = "print" => \/ seRun' = [seRun EXCEPT !.pos = seRun.pos + 1, !.landed = Landing(seRun.pos + 1)]
                               \/ seRun' = [seRun EXCEPT !.pos = seRun.pos + 1, !.landed = seRun.landed]
       /\ seOnRow = "collect" => seRun' = [seRun EXCEPT !.pos = seRun.pos + 1]
       /\ seOnRow = "write" => seRun' = [seRun EXCEPT !.pos = seRun.pos + 1, !.doc = doc]
       /\ seOnRow = "none" => seRun' = [seRun EXCEPT !.pos = seRun.pos + 1, !.rows = rows]
   BY <1>14, <1>r DEF ScanRecord, Runs
 <2>4. seRun.landed \in {"no", "due", "late"} BY <1>r DEF Runs
 <2>5. seHeap' \in Seq(Heaps) /\ Len(seHeap') = Len(seHeap)
  <3>1. seOnRow = "collect" => seRun.heap \in DOMAIN seHeap /\ seHeap' = [seHeap EXCEPT ![seRun.heap].rows = Append(@, rec)]
    BY <1>14, <2>1 DEF ScanRecord, RunInv, Hook, Caller
  <3> HIDE DEF rec
  <3>2. seOnRow # "collect" => seHeap' = seHeap BY <1>14, <1>r DEF ScanRecord, Hooks
  <3>3. CASE seOnRow = "collect"
   <4> DEFINE h == seRun.heap
   <4>1. h \in DOMAIN seHeap /\ seHeap' = [seHeap EXCEPT ![h].rows = Append(@, rec)] BY <3>1, <3>3
   <4> HIDE DEF h
   <4>2. /\ [seHeap EXCEPT ![h].rows = Append(@, rec)] \in Seq(Heaps)
         /\ Len([seHeap EXCEPT ![h].rows = Append(@, rec)]) = Len(seHeap) BY ONLY <1>r, <2>1, <4>1, CollectHeap
   <4> QED BY <4>1, <4>2
  <3> QED BY <1>r, <3>2, <3>3
 <2>6. /\ seOut' = seOut \/ seOut' = out
       /\ seOutErr' = seOutErr \/ seOutErr' = TRUE
       /\ seHalt' = seHalt \/ seHalt' = 1 BY <1>14, <1>r DEF ScanRecord, Written, Hooks
 <2> HIDE DEF rows, doc, out, rec, row
 <2>7. RunTypes'
  <3> DEFINE n == seRun.pos + 1
             landed == Landing(n)
  <3>1. n \in Nat /\ landed \in {"no", "due", "late"} BY <1>p, <2>2
  <3> HIDE DEF n, landed
  <3>2. [seRun EXCEPT !.pos = n, !.landed = landed] \in Runs /\ [seRun EXCEPT !.pos = n, !.landed = seRun.landed] \in Runs
    BY <1>r, <2>4, <3>1, RunForms
  <3>3. [seRun EXCEPT !.pos = n] \in Runs BY <1>r, <3>1, RunForms
  <3>4. [seRun EXCEPT !.pos = n, !.doc = doc] \in Runs BY <1>r, <2>2, <3>1, RunForms
  <3>5. [seRun EXCEPT !.pos = n, !.rows = rows] \in Runs BY <1>r, <2>2, <3>1, RunForms
  <3>6. seOnRow \in {"none", "print", "collect", "write"} BY <1>r DEF Hooks
  <3> QED BY <2>3, <3>2, <3>3, <3>4, <3>5, <3>6 DEF n, landed
 <2>8. seOut' \in Seq(Lines) /\ seOutErr' \in BOOLEAN /\ seHalt' \in {0, 1} BY <1>r, <2>2, <2>6 DEF SessionTypes
 <2> QED BY <1>14, <1>c, <2>5, <2>7, <2>8 DEF ScanRecord, SessionTypes
<1>15. CASE ScanPanics
 <2>1. RunTypes' BY <1>15, <1>r, <1>h, RunForms DEF ScanPanics
 <2> QED BY <1>15, <1>c, <1>h, <2>1 DEF ScanPanics, SessionTypes, seStoreVars
<1>16. CASE ScanDone
 <2>1. RunTypes'
  <3> DEFINE rows == <<"summary">>
  <3>1. seRun' = [seRun EXCEPT !.how = "ok"] \/ seRun' = [seRun EXCEPT !.how = "ok", !.rows = rows]
    BY <1>16 DEF ScanDone, Summarize
  <3> HIDE DEF rows
  <3>2. rows \in Seq(Lines) BY <1>l DEF rows
  <3>3. [seRun EXCEPT !.how = "ok"] \in Runs /\ [seRun EXCEPT !.how = "ok", !.rows = rows] \in Runs
    BY <1>r, <1>h, <3>2, RunForms
  <3> QED BY <3>1, <3>3
 <2>2. Stmt.ks \in Keyspaces /\ sePc = "scan" BY <1>16, <1>s, StmtType DEF ScanDone
 <2>3. seHeap' \in Seq(Heaps) /\ Len(seHeap') = Len(seHeap) /\ seTemp' \in 0..Len(seHeap')
  <3>1. CASE Stmt.op = "create"
   <4>1. seRun.heap \in DOMAIN seHeap /\ seTemp' = seRun.heap BY <1>16, <2>2, <3>1 DEF ScanDone, RunInv
   <4>2. seTemp # 0 => seTemp \in DOMAIN seHeap BY <1>r
   <4>3. seHeap' \in Seq(Heaps) /\ Len(seHeap') = Len(seHeap)
    <5>1. seHeap' = IF seTemp = 0 THEN seHeap ELSE [seHeap EXCEPT ![seTemp].open = FALSE]
      BY <1>16, <3>1 DEF ScanDone
    <5> QED BY <1>r, <4>2, <5>1, CloseHeap
   <4> QED BY <1>r, <4>1, <4>3
  <3>2. CASE Stmt.op # "create" BY <1>16, <1>r, <3>2 DEF ScanDone
  <3> QED BY <3>1, <3>2
 <2>4. Stmt.op = "insert" => seWant[Stmt.ks] \in Seq(Records) BY <2>2, SourceIsWanted DEF RunInv, SourceOf
 <2>5. seFile' \in Seq(Records) /\ seWant' \in [f : Seq(Records), t : Seq(Records) \cup {Absent}]
  <3>1. seFile \in Seq(Records) /\ seWant \in [f : Seq(Records), t : Seq(Records) \cup {Absent}] BY DEF SessionTypes
  <3>2. CASE Stmt.op = "create" BY <1>16, <3>1, <3>2 DEF ScanDone
  <3>3. CASE Stmt.op = "insert"
   <4> DEFINE new == seFile \o seRun.doc
              all == seWant.f \o seWant[Stmt.ks]
   <4>1. new \in Seq(Records) /\ all \in Seq(Records) BY <1>f, <2>4, <3>1, <3>3
   <4>2. seFile' = new /\ seWant' = [seWant EXCEPT !.f = all] BY <1>16, <3>1, <3>3 DEF ScanDone
   <4> HIDE DEF new, all
   <4> QED BY <3>1, <4>1, <4>2
  <3>4. CASE Stmt.op \notin {"create", "insert"} BY <1>16, <3>1, <3>4 DEF ScanDone
  <3> QED BY <3>2, <3>3, <3>4
 <2>6. seOut' \in Seq(Lines) /\ seOutErr' \in BOOLEAN /\ seHalt' \in {0, 1} /\ seOnRow' \in Hooks /\ sePc' \in Pcs
  <3>1. Append(seOut, "summary") \in Seq(Lines) BY <1>r, LinesForm
  <3> QED BY <1>16, <1>f, <1>r, <1>h, <3>1 DEF ScanDone, SessionTypes, Summarize, Written
 <2> QED BY <1>16, <1>c, <2>1, <2>3, <2>5, <2>6 DEF ScanDone, SessionTypes
<1>17. CASE SeRender
 <2> DEFINE shown == IF seRun.how = "ok" /\ ~(seCfg.stream /\ Stmt.op # "explain") THEN seRun.rows ELSE <<>>
            fits == IF Len(seOut) + Len(shown) <= seCfg.reads THEN Len(shown)
                    ELSE IF Len(seOut) >= seCfg.reads THEN 0 ELSE seCfg.reads - Len(seOut)
 <2>1. shown \in Seq(Lines) BY <1>f
 <2> HIDE DEF shown
 <2>2. fits \in 0..Len(shown) BY <1>c, <1>r, <2>1
 <2>3. seOut' = seOut \o SubSeq(shown, 1, fits) BY <1>17 DEF SeRender, shown
 <2> HIDE DEF fits
 <2>4. SubSeq(shown, 1, fits) \in Seq(Lines) BY <2>1, <2>2
 <2>5. seOut' \in Seq(Lines) BY <1>r, <2>3, <2>4
 <2>6. seAt' \in Nat \ {0}
  <3>1. seAt' = Len(seCfg.script) + 1 \/ seAt' = seAt + 1 BY <1>17 DEF SeRender
  <3>2. Len(seCfg.script) \in Nat /\ seAt \in Nat BY <1>c DEF SessionTypes
  <3> QED BY <3>1, <3>2
 <2> QED BY <1>17, <1>c, <1>h, <2>5, <2>6 DEF SeRender, SessionTypes, seStoreVars
<1>18. CASE SeClose
 <2>1. sePrep' \in [DOMAIN sePrep' -> Prepareds]
  <3>1. ASSUME NEW n \in DOMAIN sePrep PROVE [sePrep[n] EXCEPT !.bin = NoBin] \in Prepareds
   <4>1. sePrep[n] \in Prepareds BY DEF SessionTypes
   <4> QED BY ONLY <4>1 DEF Prepareds, NoBin
  <3> QED BY <1>18, <3>1 DEF SeClose
 <2>2. seHeap' \in Seq(Heaps) /\ seTemp' \in 0..Len(seHeap')
  <3>1. seTemp # 0 => seTemp \in DOMAIN seHeap BY <1>r
  <3>2. seHeap' \in Seq(Heaps) /\ Len(seHeap') = Len(seHeap) /\ seTemp' = 0
    BY <1>18, <1>r, <3>1, CloseHeap DEF SeClose
  <3> QED BY <1>r, <3>2
 <2>3. IsFiniteSet(seBins') BY <1>18, FS_Difference DEF SeClose, SessionTypes
 <2> QED BY <1>18, <1>c, <1>h, <2>1, <2>2, <2>3 DEF SeClose, SessionTypes, seRunVars
<1>19. CASE SePress BY <1>19, <1>c DEF SePress, SessionTypes, seStoreVars, seRunVars
<1>20. CASE SeSignal BY <1>20, <1>c, <1>h DEF SeSignal, SessionTypes, seStoreVars, seRunVars
<1>21. CASE SeInterrupt
 <2>1. RunTypes' BY <1>21, <1>r, <1>p, <1>f, RunForms DEF SeInterrupt
 <2> QED BY <1>21, <1>c, <2>1 DEF SeInterrupt, SessionTypes, seStoreVars
<1> QED BY <1>1, <1>2, <1>3, <1>4, <1>5, <1>6, <1>7, <1>8, <1>9, <1>10, <1>11, <1>12, <1>13, <1>14, <1>15, <1>16, <1>17, <1>18, <1>19, <1>20, <1>21 DEF SessionNext

\* Steps that leave the keyspaces and their heaps as they are.
LEMMA StoreUnchanged ==
  ASSUME StoreInv, sePc \notin {"exit", "killed"}, UNCHANGED <<seFile, seWant, seHeap, seTemp>>
  PROVE  StoreInv'
BY DEF StoreInv

LEMMA OpenUnchanged ==
  ASSUME OpenInv, sePc \notin {"exit", "killed"}, UNCHANGED <<seHeap, seTemp>>,
         sePc' # "exit", Creates => Creates' /\ seRun'.heap = seRun.heap
  PROVE  OpenInv'
BY DEF OpenInv

LEMMA StoreStep ==
  ASSUME SessionInv, SessionNext
  PROVE  StoreInv' /\ OpenInv'
<1> USE DEF SessionInv
<1>r. seHeap \in Seq(Heaps) /\ seTemp \in 0..Len(seHeap) /\ seRun \in Runs BY DEF SessionTypes, RunTypes
<1>o. sePc # "killed" =>
        \A h \in DOMAIN seHeap : seHeap[h].open => (h = seTemp /\ sePc # "exit") \/ (Creates /\ h = seRun.heap)
  BY DEF OpenInv
<1> USE DEF SeReturn
<1>1. CASE SeExec
 <2>1. ~Creates BY <1>1 DEF SeExec, Creates
 <2> QED BY <1>1, <2>1, StoreUnchanged, OpenUnchanged DEF SeExec, seStoreVars
<1>2. CASE ParseFails
 <2>1. ~Creates BY <1>2 DEF ParseFails, Creates
 <2> QED BY <1>2, <2>1, StoreUnchanged, OpenUnchanged DEF ParseFails, seStoreVars
<1>3. CASE ParseSelect
 <2>1. ~Creates BY <1>3 DEF ParseSelect, Creates
 <2> QED BY <1>3, <2>1, StoreUnchanged, OpenUnchanged DEF ParseSelect, seStoreVars
<1>4. CASE ParseCreate
 <2>1. ~Creates /\ sePc \notin {"exit", "killed"} BY <1>4 DEF ParseCreate, Creates
 <2>2. /\ seHeap' \in Seq(Heaps) /\ Len(seHeap') = Len(seHeap) + 1
       /\ \A i \in DOMAIN seHeap : seHeap'[i] = seHeap[i]
       /\ seTemp' = seTemp /\ UNCHANGED <<seFile, seWant>> BY <1>4, <1>r, NewHeap DEF ParseCreate
 <2>3. Creates' /\ seRun'.heap = Len(seHeap) + 1 BY <1>4, <1>r DEF ParseCreate, Creates, Stmt, Runs
 <2>4. StoreInv' BY <1>r, <2>1, <2>2 DEF StoreInv
 <2>5. OpenInv' BY <1>r, <1>o, <2>1, <2>2, <2>3 DEF OpenInv, Creates
 <2> QED BY <2>4, <2>5
<1>5. CASE ParseInsert
 <2>1. ~Creates BY <1>5 DEF ParseInsert, Creates
 <2> QED BY <1>5, <2>1, StoreUnchanged, OpenUnchanged DEF ParseInsert, seStoreVars
<1>6. CASE ParseDrop
 <2>1. ~Creates /\ sePc \notin {"exit", "killed"} /\ seTemp \in DOMAIN seHeap BY <1>6, <1>r DEF ParseDrop, Creates
 <2>2. /\ DOMAIN seHeap' = DOMAIN seHeap /\ \A i \in DOMAIN seHeap : seHeap'[i].open = (seHeap[i].open /\ i # seTemp)
       /\ seTemp' = 0 /\ seFile' = seFile /\ sePc' = "ended" BY <1>6, <1>r, <2>1, CloseHeap DEF ParseDrop, Summarize
 <2>3. seWant'.f = seWant.f /\ seWant'.t = Absent BY <1>6 DEF ParseDrop, SessionTypes
 <2>4. StoreInv' BY <2>1, <2>2, <2>3 DEF StoreInv
 <2>5. OpenInv' BY <1>o, <2>1, <2>2 DEF OpenInv
 <2> QED BY <2>4, <2>5
<1>7. CASE PrepareRun
 <2>1. ~Creates BY <1>7 DEF PrepareRun, Creates
 <2> QED BY <1>7, <2>1, StoreUnchanged, OpenUnchanged DEF PrepareRun
<1>8. CASE ExecuteRun
 <2>1. ~Creates BY <1>8 DEF ExecuteRun, Creates
 <2> QED BY <1>8, <2>1, StoreUnchanged, OpenUnchanged DEF ExecuteRun
<1>9. CASE Build
 <2>1. ~Creates BY <1>9 DEF Build, Creates
 <2> QED BY <1>9, <2>1, StoreUnchanged, OpenUnchanged DEF Build
<1>10. CASE RunChild
 <2>1. ~Creates BY <1>10 DEF RunChild, Creates
 <2> QED BY <1>10, <2>1, StoreUnchanged, OpenUnchanged DEF RunChild, seStoreVars
<1>11. CASE SePlan
 <2>1. CASE Resolve(Stmt.ks) = NoPlan /\ Stmt.op = "create"
  <3>1. /\ seHeap' = [seHeap EXCEPT ![seRun.heap].open = FALSE] /\ sePc' = "ended" /\ sePc = "plan"
        /\ UNCHANGED <<seFile, seWant, seTemp>> BY <1>11, <2>1 DEF SePlan, SeFail
  <3>2. seRun.heap \in DOMAIN seHeap /\ seRun.heap # seTemp BY <2>1, <3>1 DEF RunInv
  <3>3. /\ DOMAIN seHeap' = DOMAIN seHeap
        /\ \A i \in DOMAIN seHeap : /\ seHeap'[i].rows = seHeap[i].rows
                                    /\ seHeap'[i].open = (seHeap[i].open /\ i # seRun.heap)
    BY <1>r, <3>1, <3>2, CloseHeap
  <3>4. seTemp # 0 => seTemp \in DOMAIN seHeap BY <1>r
  <3>5. StoreInv' BY <3>1, <3>2, <3>3, <3>4 DEF StoreInv
  <3>6. OpenInv' BY <1>o, <3>1, <3>2, <3>3 DEF OpenInv
  <3> QED BY <3>5, <3>6
 <2>2. CASE Resolve(Stmt.ks) = NoPlan /\ Stmt.op # "create"
  <3>1. ~Creates BY <2>2 DEF Creates
  <3> QED BY <1>11, <2>2, <3>1, StoreUnchanged, OpenUnchanged DEF SePlan, SeFail
 <2>3. CASE Resolve(Stmt.ks) # NoPlan
  <3>1. UNCHANGED <<seFile, seWant, seHeap, seTemp>> /\ sePc = "plan" /\ sePc' \in {"ended", "start"}
    BY <1>11, <2>3 DEF SePlan
  <3>2. Creates => Creates' /\ seRun'.heap = seRun.heap BY <1>11, <1>r, <2>3 DEF SePlan, Creates, Stmt, Runs
  <3> QED BY <3>1, <3>2, StoreUnchanged, OpenUnchanged
 <2> QED BY <2>1, <2>2, <2>3
<1>12. CASE ClearHalt
 <2>1. Creates => Creates' /\ seRun'.heap = seRun.heap BY <1>12, <1>r DEF ClearHalt, Creates, Stmt, Runs
 <2> QED BY <1>12, <2>1, StoreUnchanged, OpenUnchanged DEF ClearHalt, seStoreVars
<1>13. CASE ScanHalted
 <2>1. CASE Stmt.op = "create"
  <3>1. /\ seHeap' = [seHeap EXCEPT ![seRun.heap].open = FALSE] /\ sePc' = "ended" /\ sePc = "scan"
        /\ UNCHANGED <<seFile, seWant, seTemp>> BY <1>13, <2>1 DEF ScanHalted, SeFail
  <3>2. seRun.heap \in DOMAIN seHeap /\ seRun.heap # seTemp BY <2>1, <3>1 DEF RunInv
  <3>3. /\ DOMAIN seHeap' = DOMAIN seHeap
        /\ \A i \in DOMAIN seHeap : /\ seHeap'[i].rows = seHeap[i].rows
                                    /\ seHeap'[i].open = (seHeap[i].open /\ i # seRun.heap)
    BY <1>r, <3>1, <3>2, CloseHeap
  <3>4. seTemp # 0 => seTemp \in DOMAIN seHeap BY <1>r
  <3>5. StoreInv' BY <3>1, <3>2, <3>3, <3>4 DEF StoreInv
  <3>6. OpenInv' BY <1>o, <3>1, <3>2, <3>3 DEF OpenInv
  <3> QED BY <3>5, <3>6
 <2>2. CASE Stmt.op # "create"
  <3>1. ~Creates BY <2>2 DEF Creates
  <3> QED BY <1>13, <2>2, <3>1, StoreUnchanged, OpenUnchanged DEF ScanHalted, SeFail
 <2> QED BY <2>1, <2>2
<1>14. CASE ScanRecord
 <2>1. sePc = "scan" /\ sePc' = "scan" /\ UNCHANGED <<seFile, seWant, seTemp, seCfg, seAt>> /\ seRun'.heap = seRun.heap
   BY <1>14, <1>r DEF ScanRecord, Runs, RunInv, SessionTypes, Hooks
 <2>2. Creates' <=> Creates BY <2>1 DEF Creates, Stmt
 <2>3. /\ DOMAIN seHeap' = DOMAIN seHeap
       /\ \A i \in DOMAIN seHeap : /\ seHeap'[i].open = seHeap[i].open
                                   /\ i = seTemp => seHeap'[i].rows = seHeap[i].rows
  <3>1. CASE seOnRow = "collect"
   <4>1. Stmt.op = "create" BY <2>1, <3>1 DEF RunInv, Hook, Caller
   <4>2. seRun.heap \in DOMAIN seHeap /\ seRun.heap # seTemp BY <2>1, <4>1 DEF RunInv
   <4> DEFINE rec == SeRecords[seRun.pos + 1]
   <4>3. seHeap' = [seHeap EXCEPT ![seRun.heap].rows = Append(@, rec)] BY <1>14, <3>1 DEF ScanRecord
   <4>4. rec \in Records
    <5>1. SourceOf \in Keyspaces BY <2>1, StmtType DEF RunInv, Running, SourceOf, SessionTypes, Prepareds
    <5>2. SeRecords \in Seq(Records) BY <2>1, <5>1, SourceIsWanted DEF RunInv, SeRecords
    <5>3. seRun.pos + 1 \in 1..Len(SeRecords) BY <1>14, <1>r, <5>2 DEF ScanRecord, Runs
    <5> QED BY <5>2, <5>3
   <4> HIDE DEF rec
   <4> QED BY <1>r, <4>2, <4>3, <4>4, CollectHeap
  <3>2. CASE seOnRow # "collect"
   <4>1. seHeap' = seHeap BY <1>14, <3>2 DEF ScanRecord, SessionTypes, Hooks
   <4> QED BY <4>1
  <3> QED BY <3>1, <3>2
 <2>4. seTemp # 0 => seTemp \in DOMAIN seHeap BY <1>r
 <2>5. StoreInv' BY <2>1, <2>3, <2>4 DEF StoreInv
 <2>6. OpenInv' BY <1>o, <2>1, <2>2, <2>3 DEF OpenInv
 <2> QED BY <2>5, <2>6
<1>15. CASE ScanPanics
 <2>1. ~Creates
  <3>1. Stmt.op # "create" BY <1>15, StmtType DEF ScanPanics, SessionTypes, SessionConfigOK, RunInv, Running, Stmt
  <3> QED BY <3>1 DEF Creates
 <2> QED BY <1>15, <2>1, StoreUnchanged, OpenUnchanged DEF ScanPanics, seStoreVars
<1>16. CASE ScanDone
 <2>1. sePc = "scan" /\ sePc' = "ended" /\ seRun.pos = Len(SeRecords) BY <1>16 DEF ScanDone, Summarize
 <2>2. SourceOf \in Keyspaces BY <2>1, StmtType DEF RunInv, Running, SourceOf, SessionTypes, Prepareds
 <2>3. SeRecords = seWant[SourceOf] /\ SeRecords \in Seq(Records) BY <2>1, <2>2, SourceIsWanted DEF RunInv, SeRecords
 <2>4. CASE Stmt.op = "create"
  <3>1. seTemp' = seRun.heap /\ seRun.heap \in DOMAIN seHeap /\ seRun.heap # seTemp /\ seHeap[seRun.heap].open
    BY <1>16, <2>1, <2>4 DEF ScanDone, RunInv
  <3>2. seHeap[seRun.heap].rows = SeRecords
   <4>1. seHeap[seRun.heap].rows \in Seq(Records)
    <5>1. seHeap[seRun.heap] \in Heaps BY <1>r, <3>1
    <5> QED BY <5>1 DEF Heaps
   <4>2. Taken(seHeap[seRun.heap].rows) BY <2>1, <2>4 DEF ScanInv
   <4> QED BY <2>1, <2>3, <4>1, <4>2 DEF Taken
  <3>3. /\ DOMAIN seHeap' = DOMAIN seHeap
        /\ \A i \in DOMAIN seHeap : /\ seHeap'[i].rows = seHeap[i].rows
                                    /\ seHeap'[i].open = (seHeap[i].open /\ i # seTemp)
   <4>1. CASE seTemp = 0
    <5>1. seHeap' = seHeap BY <1>16, <2>4, <4>1 DEF ScanDone
    <5>2. \A i \in DOMAIN seHeap : seHeap[i] \in Heaps /\ i # seTemp BY <1>r, <4>1
    <5>3. \A i \in DOMAIN seHeap : seHeap[i].open \in BOOLEAN BY <5>2 DEF Heaps
    <5> QED BY <5>1, <5>2, <5>3
   <4>2. CASE seTemp # 0
    <5>1. seHeap' = [seHeap EXCEPT ![seTemp].open = FALSE] /\ seTemp \in DOMAIN seHeap
      BY <1>16, <1>r, <2>4, <4>2 DEF ScanDone
    <5> QED BY <1>r, <5>1, CloseHeap
   <4> QED BY <4>1, <4>2
  <3>4. seFile' = seFile /\ seWant'.f = seWant.f /\ seWant'.t = SeRecords
    BY <1>16, <2>2, <2>3, <2>4 DEF ScanDone, SessionTypes, SourceOf, Keyspaces
  <3>5. SeRecords # Absent /\ 0 \notin DOMAIN seHeap BY <1>r, <2>3, AbsentIsNoRows
  <3> HIDE DEF SeRecords
  <3>6. StoreInv' BY <2>1, <3>1, <3>2, <3>3, <3>4, <3>5 DEF StoreInv
  <3>7. OpenInv' BY <1>o, <2>1, <3>1, <3>3 DEF OpenInv
  <3> QED BY <3>6, <3>7
 <2>5. CASE Stmt.op = "insert"
  <3>1. UNCHANGED <<seHeap, seTemp>> /\ seFile' = seFile \o seRun.doc /\ seWant' = [seWant EXCEPT !.f = @ \o seWant[Stmt.ks]]
    BY <1>16, <2>5 DEF ScanDone
  <3>2. seRun.doc = SeRecords
   <4>1. seRun.doc \in Seq(Records) /\ SeRecords \in Seq(Records) BY <1>r, <2>3 DEF Runs
   <4>2. Taken(seRun.doc) /\ seRun.pos = Len(SeRecords) BY <2>1, <2>5 DEF ScanInv
   <4>3. Len(seRun.doc) = Len(SeRecords) /\ \A i \in 1..Len(SeRecords) : seRun.doc[i] = SeRecords[i]
     BY <4>2 DEF Taken
   <4> QED BY <4>1, <4>3, SameElements
  <3>3. seFile = seWant.f BY <2>1 DEF StoreInv
  <3>4. seFile' = seWant'.f /\ seWant'.t = seWant.t BY <2>3, <2>5, <3>1, <3>2, <3>3 DEF SessionTypes, SourceOf
  <3>5. StoreInv' BY <2>1, <3>1, <3>4 DEF StoreInv
  <3>6. ~Creates BY <2>5 DEF Creates
  <3> QED BY <2>1, <3>1, <3>5, <3>6, OpenUnchanged
 <2>6. CASE Stmt.op \notin {"create", "insert"}
  <3>1. UNCHANGED <<seFile, seWant, seHeap, seTemp>> BY <1>16, <2>6 DEF ScanDone
  <3>2. ~Creates BY <2>6 DEF Creates
  <3> QED BY <2>1, <3>1, <3>2, StoreUnchanged, OpenUnchanged
 <2> QED BY <2>4, <2>5, <2>6
<1>17. CASE SeRender
 <2>1. ~Creates BY <1>17 DEF SeRender, Creates
 <2> QED BY <1>17, <2>1, StoreUnchanged, OpenUnchanged DEF SeRender, seStoreVars
<1>18. CASE SeClose
 <2>1. sePc' = "exit" /\ sePc = "prompt" /\ ~Creates BY <1>18 DEF SeClose, Creates
 <2>2. /\ DOMAIN seHeap' = DOMAIN seHeap
       /\ \A i \in DOMAIN seHeap : seHeap'[i].open => seHeap[i].open /\ i # seTemp
  <3>1. CASE seTemp = 0
   <4>1. seHeap' = seHeap /\ \A i \in DOMAIN seHeap : i # seTemp BY <1>18, <1>r, <3>1 DEF SeClose
   <4> QED BY <4>1
  <3>2. CASE seTemp # 0
   <4>1. seHeap' = [seHeap EXCEPT ![seTemp].open = FALSE] /\ seTemp \in DOMAIN seHeap
     BY <1>18, <1>r, <3>2 DEF SeClose
   <4> QED BY <1>r, <4>1, CloseHeap
  <3> QED BY <3>1, <3>2
 <2> QED BY <1>o, <2>1, <2>2 DEF StoreInv, OpenInv
<1>19. CASE SePress
 <2>1. Creates' = Creates /\ seRun'.heap = seRun.heap BY <1>19 DEF SePress, Creates, Stmt, seRunVars
 <2> QED BY <1>19, <2>1, StoreUnchanged, OpenUnchanged DEF SePress, seStoreVars
<1>20. CASE SeSignal
 <2>1. sePc' = "killed" \/ (Creates' = Creates /\ seRun'.heap = seRun.heap)
   BY <1>20 DEF SeSignal, Creates, Stmt, seRunVars
 <2>2. CASE sePc' = "killed" BY <2>2 DEF StoreInv, OpenInv
 <2>3. CASE sePc' # "killed" BY <1>20, <2>1, <2>3, StoreUnchanged, OpenUnchanged DEF SeSignal, seStoreVars
 <2> QED BY <2>2, <2>3
<1>21. CASE SeInterrupt
 <2>1. Creates' = Creates /\ seRun'.heap = seRun.heap BY <1>21, <1>r DEF SeInterrupt, Creates, Stmt, Runs
 <2> QED BY <1>21, <2>1, StoreUnchanged, OpenUnchanged DEF SeInterrupt, seStoreVars
<1> QED BY <1>1, <1>2, <1>3, <1>4, <1>5, <1>6, <1>7, <1>8, <1>9, <1>10, <1>11, <1>12, <1>13, <1>14, <1>15, <1>16, <1>17, <1>18, <1>19, <1>20, <1>21 DEF SessionNext

LEMMA PrepUnchanged ==
  ASSUME PrepInv, SessionTypes, sePc \notin {"exit", "killed"}, UNCHANGED <<seCfg, sePrep, seTemp>>, seAt' \in Nat, seAt <= seAt',
         sePc' \in {"prompt", "parse"} => sePc \in {"prompt", "parse"} \/ seAt < seAt'
  PROVE  PrepInv'
<1> SUFFICES ASSUME NEW n \in DOMAIN sePrep
             PROVE  /\ PreparedBy(n)'
                    /\ sePrep[n].plan # NoPlan =>
                         /\ \E i \in DOMAIN seCfg.script : i <= seAt' /\ seCfg.script[i].op = "execute"
                         /\ sePrep[n].plan = Resolve(sePrep[n].ks)' BY DEF PrepInv
<1>1. DOMAIN seCfg.script \subseteq Nat /\ seAt \in Nat BY DEF SessionTypes, SessionConfigOK
<1>2. PreparedBy(n)'
 <2>1. PICK i \in DOMAIN seCfg.script :
         /\ i <= seAt /\ (sePc \in {"prompt", "parse"} => i < seAt)
         /\ seCfg.script[i].op = "prepare" /\ seCfg.script[i].name = n /\ seCfg.script[i].ks = sePrep[n].ks
   BY DEF PrepInv, PreparedBy
 <2>2. i \in Nat /\ i <= seAt' /\ (sePc' \in {"prompt", "parse"} => i < seAt') BY <1>1, <2>1
 <2> QED BY <2>1, <2>2 DEF PreparedBy
<1>3. ASSUME sePrep[n].plan # NoPlan
      PROVE  /\ \E i \in DOMAIN seCfg.script : i <= seAt' /\ seCfg.script[i].op = "execute"
             /\ sePrep[n].plan = Resolve(sePrep[n].ks)'
 <2>1. PICK i \in DOMAIN seCfg.script : i <= seAt /\ seCfg.script[i].op = "execute" BY <1>3 DEF PrepInv
 <2>2. i <= seAt' BY <1>1, <2>1
 <2>3. sePrep[n].plan = Resolve(sePrep[n].ks) BY <1>3 DEF PrepInv
 <2> QED BY <2>1, <2>2, <2>3 DEF Resolve
<1> QED BY <1>2, <1>3

LEMMA BinUnchanged ==
  ASSUME BinInv, sePc # "killed", UNCHANGED <<seCfg, sePrep, seBins>>
  PROVE  BinInv'
BY DEF BinInv

\* While keyspace t is replaced or dropped, only f was planned for.
LEMMA PlansOfF ==
  ASSUME SessionTypes, PrepInv, Running, seAt <= Len(seCfg.script), Stmt.op \in {"create", "drop"},
         NEW n \in DOMAIN sePrep, sePrep[n].plan # NoPlan
  PROVE  sePrep[n].ks = "f"
<1>1. PICK i \in DOMAIN seCfg.script : seCfg.script[i].op = "prepare" /\ seCfg.script[i].ks = sePrep[n].ks
  BY DEF PrepInv, PreparedBy, Running
<1>2. PICK e \in DOMAIN seCfg.script : e <= seAt /\ seCfg.script[e].op = "execute" BY DEF PrepInv, Running
<1>3. seAt \in DOMAIN seCfg.script /\ seCfg.script[seAt].op \in {"create", "drop"} /\ DOMAIN seCfg.script \subseteq Nat
 <2>1. seCfg.script \in Seq(Statement) BY DEF SessionTypes, SessionConfigOK
 <2>2. DOMAIN seCfg.script \subseteq Nat BY ONLY <2>1
 <2>3. seAt \in DOMAIN seCfg.script BY StmtType
 <2> QED BY <2>2, <2>3 DEF Stmt
<1>4. e < seAt BY <1>2, <1>3
<1> QED BY <1>1, <1>2, <1>3, <1>4 DEF SessionTypes, SessionConfigOK

LEMMA PrepStep ==
  ASSUME SessionInv, SessionNext, SessionTypes'
  PROVE  PrepInv' /\ BinInv'
<1> USE DEF SessionInv, SeReturn
<1>t. seAt \in Nat /\ DOMAIN seCfg.script \subseteq Nat /\ seAt' \in Nat /\ sePrep \in [DOMAIN sePrep -> Prepareds]
 <2>1. seCfg.script \in Seq(Statement) BY DEF SessionTypes, SessionConfigOK
 <2>2. DOMAIN seCfg.script \subseteq Nat BY ONLY <2>1
 <2>3. sePrep \in [DOMAIN sePrep -> Prepareds] BY DEF SessionTypes
 <2>4. seAt \in Nat /\ seAt' \in Nat BY DEF SessionTypes
 <2> QED BY ONLY <2>2, <2>3, <2>4
<1>1. CASE SeExec BY <1>1, <1>t, PrepUnchanged, BinUnchanged DEF SeExec, seStoreVars
<1>2. CASE ParseFails BY <1>2, <1>t, PrepUnchanged, BinUnchanged DEF ParseFails, seStoreVars
<1>3. CASE ParseSelect BY <1>3, <1>t, PrepUnchanged, BinUnchanged DEF ParseSelect, seStoreVars
<1>4. CASE ParseCreate BY <1>4, <1>t, PrepUnchanged, BinUnchanged DEF ParseCreate
<1>5. CASE ParseInsert BY <1>5, <1>t, PrepUnchanged, BinUnchanged DEF ParseInsert, seStoreVars
<1>6. CASE ParseDrop
 <2>1. sePc = "parse" /\ sePc' = "ended" /\ Stmt.op = "drop" /\ UNCHANGED <<seCfg, seAt, sePrep, seBins>>
   BY <1>6 DEF ParseDrop, Summarize
 <2>2. \A n \in DOMAIN sePrep : sePrep[n].plan # NoPlan => sePrep[n].ks = "f" BY <2>1, PlansOfF DEF RunInv, Running
 <2>3. PrepInv' BY <2>1, <2>2 DEF PrepInv, PreparedBy, Resolve
 <2> QED BY <2>1, <2>3, BinUnchanged
<1>7. CASE PrepareRun
 <2> DEFINE name == Stmt.name
            new == [ks |-> Stmt.ks, plan |-> NoPlan, arg |-> NoArg, native |-> Stmt.flag, tried |-> FALSE, bin |-> NoBin]
 <2>1. /\ sePc = "parse" /\ sePc' = "ended" /\ Stmt.op = "prepare" /\ UNCHANGED <<seCfg, seAt, seBins, seTemp>>
       /\ DOMAIN sePrep' = DOMAIN sePrep \cup {name}
       /\ sePrep'[name] = new /\ \A n \in DOMAIN sePrep \ {name} : sePrep'[n] = sePrep[n] BY <1>7 DEF PrepareRun, SePut
 <2>2. seAt \in DOMAIN seCfg.script /\ seCfg.script[seAt] = Stmt BY <2>1, StmtType DEF RunInv, Running, Stmt
 <2>3. new.plan = NoPlan /\ new.bin = NoBin /\ new.ks = Stmt.ks OBVIOUS
 <2> HIDE DEF new
 <2>4. PrepInv'
  <3> SUFFICES ASSUME NEW n \in DOMAIN sePrep'
               PROVE  /\ PreparedBy(n)'
                      /\ sePrep'[n].plan # NoPlan =>
                           /\ \E i \in DOMAIN seCfg'.script : i <= seAt' /\ seCfg'.script[i].op = "execute"
                           /\ sePrep'[n].plan = Resolve(sePrep[n].ks)' BY DEF PrepInv
  <3>1. CASE n = name BY <1>t, <2>1, <2>2, <2>3, <3>1 DEF PreparedBy
  <3>2. CASE n # name
   <4>1. n \in DOMAIN sePrep /\ sePrep'[n] = sePrep[n] BY <2>1, <3>2
   <4> HIDE DEF name
   <4>2. PreparedBy(n)' BY <2>1, <4>1 DEF PrepInv, PreparedBy
   <4>3. ASSUME sePrep[n].plan # NoPlan
         PROVE  /\ \E i \in DOMAIN seCfg.script : i <= seAt /\ seCfg.script[i].op = "execute"
                /\ sePrep[n].plan = Resolve(sePrep[n].ks) BY <2>1, <4>1, <4>3 DEF PrepInv
   <4>4. Resolve(sePrep[n].ks)' = Resolve(sePrep[n].ks) BY <2>1, <4>1 DEF Resolve
   <4> QED BY <2>1, <4>1, <4>2, <4>3, <4>4
  <3> QED BY <3>1, <3>2
 <2>5. BinInv'
  <3>1. name \in DOMAIN sePrep => ~seCfg.full
   <4> SUFFICES ASSUME name \in DOMAIN sePrep, seCfg.full PROVE FALSE BY DEF SessionTypes, SessionConfigOK
   <4>1. PICK i \in DOMAIN seCfg.script : i < seAt /\ seCfg.script[i].op = "prepare" /\ seCfg.script[i].name = name
     BY <2>1 DEF PrepInv, PreparedBy
   <4> QED BY <2>1, <2>2, <4>1 DEF SessionTypes, SessionConfigOK
  <3>2. name \in DOMAIN sePrep => sePrep[name].bin = NoBin BY <2>1, <3>1 DEF BinInv
  <3>3. {sePrep'[n].bin : n \in DOMAIN sePrep'} \ {NoBin} = {sePrep[n].bin : n \in DOMAIN sePrep} \ {NoBin}
   <4> HIDE DEF name
   <4> QED BY <2>1, <2>3, <3>2
  <3>4. \A n \in DOMAIN sePrep' : (sePrep'[n].tried /\ seCfg.full) \/ sePrep'[n].bin = NoBin
   <4> HIDE DEF name
   <4> QED BY <2>1, <2>3 DEF BinInv
  <3> QED BY <2>1, <3>3, <3>4 DEF BinInv
 <2> QED BY <2>4, <2>5
<1>8. CASE ExecuteRun
 <2> DEFINE name == Stmt.name
            ps == sePrep[name]
            plan == IF ps.plan # NoPlan THEN ps.plan ELSE Resolve(ps.ks)
            arg == ExecuteArg(ps, Stmt.using)
            entry == [ps EXCEPT !.plan = plan, !.arg = IF ps.plan = NoPlan THEN arg ELSE ps.arg]
 <2>1. /\ sePc = "parse" /\ sePc' \in {"ended", "build", "start"} /\ Stmt.op = "execute" /\ name \in DOMAIN sePrep
       /\ UNCHANGED <<seCfg, seAt, seBins, seTemp>> BY <1>8 DEF ExecuteRun
 <2>2. ps \in Prepareds BY <1>t, <2>1
 <2>3. CASE sePrep' = sePrep BY <2>1, <2>3, <1>t, PrepUnchanged, BinUnchanged
 <2>4. CASE sePrep' = [sePrep EXCEPT ![name] = entry]
  <3>1. entry.plan = plan /\ entry.ks = ps.ks /\ entry.bin = ps.bin /\ entry.tried = ps.tried BY <2>2 DEF Prepareds
  <3>2. plan = NoPlan \/ plan = Resolve(ps.ks) BY <2>1 DEF PrepInv
  <3>3. seAt \in DOMAIN seCfg.script /\ seCfg.script[seAt].op = "execute" BY <2>1, StmtType DEF RunInv, Running, Stmt
  <3> HIDE DEF entry, plan
  <3>4. /\ DOMAIN sePrep' = DOMAIN sePrep
        /\ \A n \in DOMAIN sePrep : sePrep'[n].ks = sePrep[n].ks /\ sePrep'[n].bin = sePrep[n].bin /\ sePrep'[n].tried = sePrep[n].tried
        /\ \A n \in DOMAIN sePrep \ {name} : sePrep'[n] = sePrep[n]
        /\ sePrep'[name].plan = plan BY <1>t, <2>1, <2>4, <3>1
  <3>5. ASSUME NEW n \in DOMAIN sePrep PROVE PreparedBy(n)'
   <4>1. PreparedBy(n) BY <2>1 DEF PrepInv
   <4> QED BY <2>1, <3>4, <4>1 DEF PreparedBy
  <3>6. ASSUME NEW n \in DOMAIN sePrep, sePrep'[n].plan # NoPlan
        PROVE  sePrep'[n].plan = Resolve(sePrep[n].ks)'
   <4>1. sePrep'[n].plan = Resolve(sePrep[n].ks)
    <5>1. CASE n = name BY <3>2, <3>4, <3>6, <5>1
    <5>2. CASE n # name BY <2>1, <3>4, <3>6, <5>2 DEF PrepInv
    <5> QED BY <5>1, <5>2
   <4> QED BY <2>1, <3>4, <4>1 DEF Resolve
  <3>7. PrepInv' BY <1>t, <2>1, <3>3, <3>4, <3>5, <3>6 DEF PrepInv
  <3>8. BinInv' BY <2>1, <3>4 DEF BinInv
  <3> QED BY <3>7, <3>8
 <2> QED BY <1>8, <2>2, <2>3, <2>4 DEF ExecuteRun, Prepareds
<1>9. CASE Build
 <2> DEFINE name == Stmt.name
            e1 == [sePrep[name] EXCEPT !.tried = TRUE]
            id == Cardinality(seBins) + 1
            e2 == [sePrep[name] EXCEPT !.tried = TRUE, !.bin = id]
 <2>1. /\ sePc = "build" /\ sePc' \in {"build", "ended"} /\ name \in DOMAIN sePrep /\ seCfg.full /\ ~sePrep[name].tried
       /\ UNCHANGED <<seCfg, seAt, seTemp>> BY <1>9 DEF Build, RunInv
 <2>2. sePrep[name] \in Prepareds /\ sePrep[name].bin = NoBin /\ id \in Nat /\ id # NoBin
  <3>1. sePrep[name] \in Prepareds BY <1>t, <2>1
  <3>2. sePrep[name].bin = NoBin BY <2>1 DEF BinInv
  <3>3. IsFiniteSet(seBins) BY DEF SessionTypes
  <3>4. Cardinality(seBins) \in Nat BY ONLY <3>3, FS_CardinalityType
  <3>5. id \in Nat /\ id # NoBin BY ONLY <3>4 DEF NoBin
  <3> QED BY ONLY <3>1, <3>2, <3>5
 <2> HIDE DEF id
 <2>3. /\ e1.plan = sePrep[name].plan /\ e1.ks = sePrep[name].ks /\ e1.bin = NoBin /\ e1.tried BY <2>2 DEF Prepareds
 <2>4. /\ e2.plan = sePrep[name].plan /\ e2.ks = sePrep[name].ks /\ e2.bin = id /\ e2.tried BY <2>2 DEF Prepareds
 <2>5. \/ sePrep' = [sePrep EXCEPT ![name] = e1] /\ seBins' = seBins
       \/ sePrep' = [sePrep EXCEPT ![name] = e2] /\ seBins' = seBins \cup {id} BY <1>9, <2>1, <1>t DEF Build, id
 <2> HIDE DEF e1, e2, name
 <2>6. /\ DOMAIN sePrep' = DOMAIN sePrep
       /\ \A n \in DOMAIN sePrep : sePrep'[n].ks = sePrep[n].ks /\ sePrep'[n].plan = sePrep[n].plan
       /\ \A n \in DOMAIN sePrep \ {name} : sePrep'[n] = sePrep[n]
       /\ sePrep'[name].tried /\ seBins' = seBins \cup ({sePrep'[name].bin} \ {NoBin})
   BY <1>t, <2>1, <2>2, <2>3, <2>4, <2>5
 <2>7. PrepInv'
  <3>1. ASSUME NEW n \in DOMAIN sePrep PROVE PreparedBy(n)'
   <4>1. PreparedBy(n) BY <2>1 DEF PrepInv
   <4> QED BY <2>1, <2>6, <4>1 DEF PreparedBy
  <3>2. ASSUME NEW n \in DOMAIN sePrep, sePrep'[n].plan # NoPlan
        PROVE  /\ sePrep'[n].plan = Resolve(sePrep[n].ks)'
               /\ \E i \in DOMAIN seCfg.script : i <= seAt /\ seCfg.script[i].op = "execute"
   <4>1. /\ sePrep'[n].plan = Resolve(sePrep[n].ks)
         /\ \E i \in DOMAIN seCfg.script : i <= seAt /\ seCfg.script[i].op = "execute"
     BY <2>1, <2>6, <3>2 DEF PrepInv
   <4> QED BY <2>1, <2>6, <4>1 DEF Resolve
  <3> QED BY <2>1, <2>6, <3>1, <3>2 DEF PrepInv
 <2>8. BinInv'
  <3>1. seBins' = {sePrep'[n].bin : n \in DOMAIN sePrep'} \ {NoBin} BY <2>1, <2>2, <2>6 DEF BinInv
  <3> QED BY <2>1, <2>6, <3>1 DEF BinInv
 <2> QED BY <2>7, <2>8
<1>10. CASE RunChild BY <1>10, <1>t, PrepUnchanged, BinUnchanged DEF RunChild, seStoreVars
<1>11. CASE SePlan
 <2>1. sePc = "plan" /\ sePc' \in {"ended", "start"} /\ UNCHANGED <<seCfg, seAt, sePrep, seBins, seTemp>>
   BY <1>11 DEF SePlan, SeFail
 <2> QED BY <1>t, <2>1, PrepUnchanged, BinUnchanged
<1>12. CASE ClearHalt BY <1>12, <1>t, PrepUnchanged, BinUnchanged DEF ClearHalt, seStoreVars
<1>13. CASE ScanHalted BY <1>13, <1>t, PrepUnchanged, BinUnchanged DEF ScanHalted, SeFail
<1>14. CASE ScanRecord
 <2>1. sePc = "scan" /\ sePc' = "scan" /\ UNCHANGED <<seCfg, seAt, sePrep, seBins, seTemp>> BY <1>14 DEF ScanRecord
 <2> QED BY <1>t, <2>1, PrepUnchanged, BinUnchanged
<1>15. CASE ScanPanics BY <1>15, <1>t, PrepUnchanged, BinUnchanged DEF ScanPanics, seStoreVars
<1>16. CASE ScanDone
 <2>1. sePc = "scan" /\ sePc' = "ended" /\ UNCHANGED <<seCfg, seAt, sePrep, seBins>> BY <1>16 DEF ScanDone, Summarize
 <2>2. CASE Stmt.op = "create"
  <3>1. \A n \in DOMAIN sePrep : sePrep[n].plan # NoPlan => sePrep[n].ks = "f"
    BY <2>1, <2>2, PlansOfF DEF RunInv, Running
  <3>2. PrepInv' BY <2>1, <3>1 DEF PrepInv, PreparedBy, Resolve
  <3> QED BY <2>1, <3>2, BinUnchanged
 <2>3. CASE Stmt.op # "create"
  <3>1. seTemp' = seTemp BY <1>16, <2>3 DEF ScanDone
  <3> QED BY <1>t, <2>1, <3>1, PrepUnchanged, BinUnchanged
 <2> QED BY <2>2, <2>3
<1>17. CASE SeRender
 <2>1. sePc = "ended" /\ sePc' = "prompt" /\ UNCHANGED <<seCfg, sePrep, seBins, seTemp>>
   BY <1>17 DEF SeRender, seStoreVars
 <2>2. seAt < seAt'
  <3>1. seAt <= Len(seCfg.script) BY <2>1 DEF RunInv, Running
  <3>2. seAt' = Len(seCfg.script) + 1 \/ seAt' = seAt + 1 BY <1>17 DEF SeRender
  <3>3. seCfg.script \in Seq(Statement) BY DEF SessionTypes, SessionConfigOK
  <3>4. Len(seCfg.script) \in Nat BY ONLY <3>3
  <3> QED BY ONLY <1>t, <3>1, <3>2, <3>4
 <2> QED BY <1>t, <2>1, <2>2, PrepUnchanged, BinUnchanged
<1>18. CASE SeClose
 <2>1. sePc' = "exit" /\ sePc = "prompt" BY <1>18 DEF SeClose
 <2>2. \A n \in DOMAIN sePrep : [sePrep[n] EXCEPT !.bin = NoBin].bin = NoBin BY <1>t DEF Prepareds
 <2>3. DOMAIN sePrep' = DOMAIN sePrep /\ \A n \in DOMAIN sePrep : sePrep'[n].bin = NoBin BY <1>18, <2>2 DEF SeClose
 <2>4. seBins' = {} BY <1>18, <2>1 DEF SeClose, BinInv
 <2>5. BinInv' BY <2>3, <2>4 DEF BinInv
 <2> QED BY <2>1, <2>5 DEF PrepInv
<1>19. CASE SePress BY <1>19, <1>t, PrepUnchanged, BinUnchanged DEF SePress, seStoreVars
<1>20. CASE SeSignal
 <2>1. CASE sePc' = "killed" BY <2>1 DEF PrepInv, BinInv
 <2>2. CASE sePc' # "killed" BY <1>20, <1>t, <2>2, PrepUnchanged, BinUnchanged DEF SeSignal, seStoreVars
 <2> QED BY <2>1, <2>2
<1>21. CASE SeInterrupt BY <1>21, <1>t, PrepUnchanged, BinUnchanged DEF SeInterrupt, seStoreVars
<1> QED BY <1>1, <1>2, <1>3, <1>4, <1>5, <1>6, <1>7, <1>8, <1>9, <1>10, <1>11, <1>12, <1>13, <1>14, <1>15, <1>16, <1>17, <1>18, <1>19, <1>20, <1>21 DEF SessionNext

LEMMA ExitStep ==
  ASSUME SessionInv, SessionNext
  PROVE  ExitInv'
<1> SUFFICES ASSUME sePc' = "exit" PROVE seBins' = {} BY DEF ExitInv
<1>1. SeClose
  BY DEF SessionNext, SeExec, ParseFails, ParseSelect, ParseCreate, ParseInsert, ParseDrop, PrepareRun, ExecuteRun, Build, RunChild, SePlan, ClearHalt, Summarize, ScanHalted, ScanRecord, ScanPanics, ScanDone, SeRender, SeFail, SeReturn, SePress, SeSignal, SeInterrupt
<1> QED BY <1>1 DEF SessionInv, SeClose, BinInv

LEMMA AskedUnchanged ==
  ASSUME UNCHANGED <<seCfg, seAt, seWant>>, DOMAIN sePrep' = DOMAIN sePrep,
         \A n \in DOMAIN sePrep : sePrep'[n].ks = sePrep[n].ks
  PROVE  Asked' = Asked
BY DEF Asked, WantRows, Stmt

\* A step that leaves the Run, its statement and the stores alone.
LEMMA SameRun ==
  ASSUME UNCHANGED <<sePc, seCfg, seAt, seHalt, seWant, seOut, seRunVars, seStoreVars>>, RunInv, ScanInv, EndInv
  PROVE  RunInv' /\ ScanInv' /\ EndInv'
<1>1. UNCHANGED <<sePc, seCfg, seAt, seHalt, seWant, seOut, seOnRow, seOutErr, seRun, sePrep, seHeap, seTemp, seFile, seBins>>
  BY DEF seRunVars, seStoreVars
<1>2. /\ Stmt' = Stmt /\ Prints' = Prints /\ Printed' = Printed /\ SeRecords' = SeRecords /\ SourceOf' = SourceOf
      /\ Bound' = Bound /\ Running' = Running
  BY <1>1 DEF Stmt, Prints, Printed, SeRecords, SeSource, SourceOf, Bound, Running
<1>3. Asked' = Asked BY <1>1, AskedUnchanged
<1>4. Caller' = Caller /\ Resolve(SourceOf)' = Resolve(SourceOf) BY <1>1, <1>2 DEF Caller, Resolve
<1>5. Hook' = Hook BY <1>2, <1>4 DEF Hook
<1>6. Landing(seRun.pos)' = Landing(seRun.pos) BY <1>1, <1>2 DEF Landing
<1>7. RunInv' BY <1>1, <1>2, <1>3, <1>4, <1>5 DEF RunInv
<1>8. ScanInv' BY <1>1, <1>2, <1>6 DEF ScanInv, Taken
<1>9. EndInv' BY <1>1, <1>2 DEF EndInv
<1> QED BY <1>7, <1>8, <1>9

\* The source of a scan, and what its statement asks for.
LEMMA ScanSource ==
  ASSUME SessionInv, sePc \in {"build", "start", "scan"}
  PROVE  /\ SourceOf \in Keyspaces /\ SeRecords = seWant[SourceOf] /\ SeRecords \in Seq(Records)
         /\ Stmt.op \in {"select", "execute"} =>
              Len(seRun.want) = Len(SeRecords) /\ \A i \in 1..Len(SeRecords) : seRun.want[i] = <<SeRecords[i], seRun.arg>>
         /\ Stmt.op \in {"create", "insert"} => seRun.want = <<"summary">>
<1> USE DEF SessionInv
<1>1. SourceOf \in Keyspaces BY StmtType DEF RunInv, Running, SourceOf, SessionTypes, Prepareds
<1>2. SeRecords = seWant[SourceOf] /\ SeRecords \in Seq(Records) /\ seWant[SourceOf] # Absent
  BY <1>1, SourceIsWanted DEF RunInv, SeRecords
<1>3. ASSUME Stmt.op \in {"select", "execute"}
      PROVE  Len(seRun.want) = Len(SeRecords) /\ \A i \in 1..Len(SeRecords) : seRun.want[i] = <<SeRecords[i], seRun.arg>>
 <2>1. seRun.want = SeBound(SeRecords, Bound) BY <1>2, <1>3 DEF RunInv, Asked, WantRows, SourceOf, Bound
 <2>2. seRun.arg = Bound /\ Bound \in Nat BY StmtType DEF RunInv, Running, Bound, SessionTypes, SessionConfigOK
 <2> HIDE DEF SeRecords, Bound
 <2> QED BY <1>2, <2>1, <2>2, BoundType
<1>4. Stmt.op \in {"create", "insert"} => seRun.want = <<"summary">> BY DEF RunInv, Asked
<1> QED BY <1>1, <1>2, <1>3, <1>4

\* A Run that ended without a row.
LEMMA EndsUnprinted ==
  ASSUME SessionTypes', sePc' = "ended", Len(seOut') = seRun'.from, ~seOutErr',
         seRun'.how \in {"err", "prepared"}, seRun'.landed = "no"
  PROVE  EndInv'
<1>1. Len(seRun'.want) \in Nat /\ seRun'.from \in Nat BY DEF SessionTypes, RunTypes, Runs
<1> QED BY <1>1 DEF EndInv, Printed

\* A Run that ended with its summary.
LEMMA EndsSummarized ==
  ASSUME SessionTypes, UNCHANGED <<seCfg, seAt>>, Len(seOut) = seRun.from, ~seOutErr,
         seRun.want = <<"summary">>, seRun.landed # "due", Summarize(Caller)
  PROVE  EndInv' /\ seRun'.from = seRun.from /\ seRun'.from <= Len(seOut')
<1>1. seRun \in Runs /\ seOut \in Seq(Lines) /\ seRun.from \in Nat BY DEF SessionTypes, RunTypes, Runs
<1>2. /\ seRun'.want = seRun.want /\ seRun'.from = seRun.from /\ seRun'.landed = seRun.landed /\ seRun'.how = "ok"
      /\ Prints' = Prints /\ sePc' = "ended" BY <1>1 DEF Summarize, Runs, Prints, Stmt
<1>3. Len(seRun.want) = 1 /\ seRun.want[1] = "summary" OBVIOUS
<1>4. CASE Prints
 <2>1. Written("summary") BY <1>4 DEF Summarize, Caller
 <2>2. CASE seOut' = seOut /\ seOutErr' BY <1>1, <1>2, <1>3, <1>4, <2>2 DEF EndInv, Printed
 <2>3. CASE seOut' = Append(seOut, "summary")
  <3>1. Len(seOut') = seRun'.from + 1 /\ seOut'[seRun'.from + 1] = "summary" BY <1>1, <1>2, <2>3
  <3>2. Printed' = 1 BY <1>1, <1>2, <3>1 DEF Printed
  <3>3. \A i \in 1..Printed' : seOut'[seRun'.from + i] = seRun'.want[i] BY <1>2, <1>3, <3>1, <3>2
  <3> QED BY <1>1, <1>2, <1>3, <1>4, <3>1, <3>2, <3>3 DEF EndInv
 <2> QED BY <2>1, <2>2, <2>3 DEF Written
<1>5. CASE ~Prints
 <2>1. seOut' = seOut /\ seOutErr' = seOutErr /\ seRun'.rows = <<"summary">> BY <1>1, <1>5 DEF Summarize, Caller, Runs
 <2> QED BY <1>1, <1>2, <1>3, <1>5, <2>1 DEF EndInv, Printed
<1> QED BY <1>4, <1>5

LEMMA RunsOn ==
  ASSUME SessionInv, SessionNext, SessionTypes',
         sePc \notin {"scan", "ended", "exit", "killed"}, sePc' \in {"prompt", "parse", "plan", "build", "start", "scan", "ended"}
  PROVE  RunInv' /\ ScanInv' /\ EndInv'
<1> USE DEF SessionInv, SeReturn
<1>r. seRun \in Runs /\ seOut \in Seq(Lines) /\ seRun.from \in Nat /\ seRun.want \in Seq(Lines)
  BY DEF SessionTypes, RunTypes, Runs
<1>1. CASE SeExec
 <2>1. /\ seRun'.want = Asked /\ seRun'.from = Len(seOut) /\ seRun'.pos = 0 /\ seRun'.rows = <<>> /\ seRun'.doc = <<>>
       /\ seRun'.landed = "no" BY <1>1 DEF SeExec, SeIdleRun
 <2>2. Asked' = Asked /\ Caller' = seOnRow' /\ sePc' = "parse" /\ seOut' = seOut /\ ~seOutErr'
       /\ seAt' <= Len(seCfg'.script) BY <1>1, AskedUnchanged DEF SeExec, seStoreVars, Caller, Prints, Stmt
 <2> QED BY <1>r, <2>1, <2>2 DEF RunInv, ScanInv, EndInv
<1>2. CASE ParseFails
 <2>1. seRun'.from = seRun.from /\ seRun'.landed = "no" /\ seRun'.how = "err" /\ sePc' = "ended" /\ UNCHANGED <<seOut, seOutErr, seCfg, seAt>>
       /\ sePc = "parse" BY <1>2, <1>r DEF ParseFails, Runs, RunInv
 <2> QED BY <2>1, EndsUnprinted DEF RunInv, ScanInv, Running
<1>3. ASSUME sePc = "parse", sePc' = "plan", UNCHANGED <<seCfg, seAt, seOut, seOutErr, sePrep, seWant>>,
             seRun'.want = seRun.want, seRun'.from = seRun.from, seRun'.pos = seRun.pos, seRun'.rows = seRun.rows,
             seRun'.doc = seRun.doc, seRun'.landed = seRun.landed, seRun'.arg = seCfg.arg, seRun'.back = seOnRow,
             seOnRow' = Hook, Stmt.op \in {"select", "explain", "create", "insert"},
             Stmt.op = "create" => /\ seRun'.heap \in DOMAIN seHeap' /\ seRun'.heap # seTemp' /\ seHeap'[seRun'.heap].open
                                   /\ seHeap'[seRun'.heap].rows = <<>>
      PROVE  RunInv' /\ ScanInv' /\ EndInv'
 <2>1. Asked' = Asked /\ Stmt' = Stmt /\ Hook' = Hook /\ Caller' = Caller /\ Bound' = seCfg.arg
   BY <1>3, AskedUnchanged DEF Stmt, Hook, Caller, Prints, Bound
 <2>2. RunInv' BY <1>3, <2>1 DEF RunInv, Running
 <2> QED BY <1>3, <2>2 DEF ScanInv, EndInv
<1>4. CASE ParseSelect
 <2>1. /\ seRun'.want = seRun.want /\ seRun'.from = seRun.from /\ seRun'.pos = seRun.pos /\ seRun'.rows = seRun.rows
       /\ seRun'.doc = seRun.doc /\ seRun'.landed = seRun.landed /\ seRun'.arg = seCfg.arg /\ seRun'.back = seOnRow
   BY <1>4, <1>r DEF ParseSelect, Runs
 <2>2. seOnRow' = Hook BY <1>4 DEF ParseSelect, RunInv, Hook
 <2> QED BY <1>3, <1>4, <2>1, <2>2 DEF ParseSelect, seStoreVars
<1>5. CASE ParseCreate
 <2>1. /\ seRun'.want = seRun.want /\ seRun'.from = seRun.from /\ seRun'.pos = seRun.pos /\ seRun'.rows = seRun.rows
       /\ seRun'.doc = seRun.doc /\ seRun'.landed = seRun.landed /\ seRun'.arg = seCfg.arg /\ seRun'.back = seOnRow
       /\ seRun'.heap = Len(seHeap) + 1 BY <1>5, <1>r DEF ParseCreate, Runs
 <2>2. seOnRow' = Hook BY <1>5 DEF ParseCreate, Hook
 <2>3. /\ seRun'.heap \in DOMAIN seHeap' /\ seRun'.heap # seTemp' /\ seHeap'[seRun'.heap].open
       /\ seHeap'[seRun'.heap].rows = <<>>
  <3>1. seHeap \in Seq(Heaps) /\ seTemp \in 0..Len(seHeap) /\ seTemp' = seTemp BY <1>5 DEF ParseCreate, SessionTypes
  <3>2. /\ seHeap' \in Seq(Heaps) /\ Len(seHeap') = Len(seHeap) + 1
        /\ seHeap'[Len(seHeap) + 1].rows = <<>> /\ seHeap'[Len(seHeap) + 1].open
    BY <1>5, <3>1, NewHeap DEF ParseCreate
  <3> QED BY <2>1, <3>1, <3>2
 <2> QED BY <1>3, <1>5, <2>1, <2>2, <2>3 DEF ParseCreate
<1>6. CASE ParseInsert
 <2>1. /\ seRun'.want = seRun.want /\ seRun'.from = seRun.from /\ seRun'.pos = seRun.pos /\ seRun'.rows = seRun.rows
       /\ seRun'.doc = seRun.doc /\ seRun'.landed = seRun.landed /\ seRun'.arg = seCfg.arg /\ seRun'.back = seOnRow
   BY <1>6, <1>r DEF ParseInsert, Runs
 <2>2. seOnRow' = Hook BY <1>6 DEF ParseInsert, Hook
 <2> QED BY <1>3, <1>6, <2>1, <2>2 DEF ParseInsert, seStoreVars
<1>7. CASE ParseDrop
 <2>1. sePc = "parse" /\ Stmt.op = "drop" /\ Summarize(Caller) /\ UNCHANGED <<seCfg, seAt>>
   BY <1>7 DEF ParseDrop, RunInv
 <2>2. seRun.want = <<"summary">> /\ Len(seOut) = seRun.from /\ ~seOutErr /\ seRun.landed = "no" /\ seAt <= Len(seCfg.script)
   BY <2>1 DEF RunInv, Asked, Running
 <2>3. EndInv' /\ seRun'.from <= Len(seOut') BY <2>1, <2>2, EndsSummarized
 <2>4. sePc' = "ended" BY <2>1 DEF Summarize
 <2> QED BY <2>1, <2>2, <2>3, <2>4 DEF RunInv, ScanInv
<1>8. CASE PrepareRun
 <2>1. seRun'.from = seRun.from /\ seRun'.landed = "no" /\ seRun'.how = "prepared" /\ sePc' = "ended" /\ UNCHANGED <<seOut, seOutErr, seCfg, seAt>>
       /\ sePc = "parse" BY <1>8, <1>r DEF PrepareRun, Runs, RunInv
 <2> QED BY <2>1, EndsUnprinted DEF RunInv, ScanInv, Running
<1>9. CASE ExecuteRun
 <2> DEFINE name == Stmt.name
            ps == sePrep[name]
            plan == IF ps.plan # NoPlan THEN ps.plan ELSE Resolve(ps.ks)
            arg == ExecuteArg(ps, Stmt.using)
 <2>1. sePc = "parse" /\ Stmt.op = "execute" /\ name \in DOMAIN sePrep /\ UNCHANGED <<seCfg, seAt, seWant, seTemp, seOnRow, seOut, seOutErr>>
   BY <1>9 DEF ExecuteRun
 <2>2. ps \in Prepareds BY <2>1 DEF SessionTypes
 <2>3. CASE plan = NoPlan
  <3>1. seRun'.from = seRun.from /\ seRun'.landed = "no" /\ seRun'.how = "err" /\ sePc' = "ended"
    BY <1>9, <1>r, <2>1, <2>3 DEF ExecuteRun, Runs, RunInv
  <3> QED BY <2>1, <3>1, EndsUnprinted DEF RunInv, ScanInv, Running
 <2>4. CASE plan # NoPlan
  <3> DEFINE entry == [ps EXCEPT !.plan = plan, !.arg = IF ps.plan = NoPlan THEN arg ELSE ps.arg]
  <3>1. sePrep' = [sePrep EXCEPT ![name] = entry]
        /\ seRun' = [seRun EXCEPT !.plan = plan, !.arg = arg, !.back = seOnRow]
        /\ sePc' = IF seCfg.full /\ arg = NoArg THEN "build" ELSE "start"
    BY <1>9, <2>2, <2>4 DEF ExecuteRun, SessionTypes, Prepareds
  <3>2. entry.ks = ps.ks BY <2>2 DEF Prepareds
  <3>3. plan = Resolve(ps.ks) /\ arg = Bound BY <2>1, <2>4 DEF PrepInv, ExecuteArg, Bound
  <3> HIDE DEF entry, plan, arg
  <3>4. DOMAIN sePrep' = DOMAIN sePrep /\ \A n \in DOMAIN sePrep : sePrep'[n].ks = sePrep[n].ks
    BY <3>1, <3>2, <2>1 DEF SessionTypes
  <3>5. /\ seRun'.want = seRun.want /\ seRun'.from = seRun.from /\ seRun'.pos = seRun.pos /\ seRun'.rows = seRun.rows
        /\ seRun'.doc = seRun.doc /\ seRun'.landed = seRun.landed /\ seRun'.arg = arg /\ seRun'.back = seOnRow /\ seRun'.plan = plan
    BY <1>r, <3>1 DEF Runs
  <3>6. Asked' = Asked /\ Stmt' = Stmt /\ Hook' = Hook /\ Caller' = Caller /\ Bound' = Bound /\ Hook = Caller
        /\ Resolve(SourceOf)' = Resolve(ps.ks)
    BY <2>1, <3>4, AskedUnchanged DEF Stmt, Hook, Caller, Prints, Bound, SourceOf, Resolve
  <3>7. RunInv' BY <2>1, <2>4, <3>1, <3>3, <3>4, <3>5, <3>6 DEF RunInv, Running
  <3>8. sePc' # "scan" /\ sePc' # "ended" BY <3>1
  <3> QED BY <3>7, <3>8 DEF ScanInv, EndInv
 <2> QED BY <2>3, <2>4
<1>10. CASE Build
 <2>1. sePc = "build" /\ UNCHANGED <<seCfg, seAt, seWant, seTemp, seHeap, seOnRow, seOut, seOutErr>> /\ Stmt.op = "execute" /\ Stmt.name \in DOMAIN sePrep
   BY <1>10 DEF Build, RunInv
 <2>2. CASE sePc' = "ended"
  <3>1. seRun'.from = seRun.from /\ seRun'.landed = "no" /\ seRun'.how = "err"
    BY <1>10, <1>r, <2>1, <2>2 DEF Build, Runs, RunInv
  <3> QED BY <2>1, <2>2, <3>1, EndsUnprinted DEF RunInv, ScanInv, Running
 <2>3. CASE sePc' # "ended"
  <3>1. sePc' = "build" /\ seRun' = seRun BY <1>10, <2>1, <2>3 DEF Build
  <3>2. DOMAIN sePrep' = DOMAIN sePrep /\ \A n \in DOMAIN sePrep : sePrep'[n].ks = sePrep[n].ks
   <4> DEFINE e1 == [sePrep[Stmt.name] EXCEPT !.tried = TRUE]
              e2 == [sePrep[Stmt.name] EXCEPT !.tried = TRUE, !.bin = Cardinality(seBins) + 1]
   <4>1. sePrep[Stmt.name] \in Prepareds BY <2>1 DEF SessionTypes
   <4>2. e1.ks = sePrep[Stmt.name].ks /\ e2.ks = sePrep[Stmt.name].ks BY <4>1 DEF Prepareds
   <4>3. sePrep' = [sePrep EXCEPT ![Stmt.name] = e1] \/ sePrep' = [sePrep EXCEPT ![Stmt.name] = e2]
     BY <1>10, <2>1 DEF Build, SessionTypes
   <4> HIDE DEF e1, e2
   <4> QED BY <2>1, <4>2, <4>3 DEF SessionTypes
  <3>3. Asked' = Asked /\ Stmt' = Stmt /\ Hook' = Hook /\ Caller' = Caller /\ Bound' = Bound
        /\ Resolve(SourceOf)' = Resolve(SourceOf)
    BY <2>1, <3>2, AskedUnchanged DEF Stmt, Hook, Caller, Prints, Bound, SourceOf, Resolve
  <3>4. RunInv' BY <2>1, <3>1, <3>2, <3>3 DEF RunInv, Running
  <3> QED BY <3>1, <3>4 DEF ScanInv, EndInv
 <2> QED BY <2>2, <2>3
<1>11. CASE RunChild
 <2>1. sePc = "build" /\ UNCHANGED <<seCfg, seAt, seWant, sePrep, seTemp, seHeap, seOnRow, seOut, seOutErr>> /\ Stmt.op = "execute" /\ Stmt.name \in DOMAIN sePrep
   BY <1>11 DEF RunChild, RunInv, seStoreVars
 <2>2. CASE sePc' = "ended"
  <3>1. /\ seRun'.from = seRun.from /\ seRun'.landed = "no" /\ seRun'.how = "ok" /\ seRun'.want = seRun.want
        /\ seRun'.rows = SeBound(SeRecords, seRun.arg)
    BY <1>11, <1>r, <2>1, <2>2 DEF RunChild, Runs, RunInv, SeRecords
  <3>2. seRun.want = SeBound(SeRecords, seRun.arg)
   <4>1. seRun.arg \in Nat BY <1>r DEF Runs
   <4>2. /\ SeRecords \in Seq(Records) /\ Len(seRun.want) = Len(SeRecords)
         /\ \A i \in 1..Len(SeRecords) : seRun.want[i] = <<SeRecords[i], seRun.arg>> BY <2>1, ScanSource
   <4> HIDE DEF SeRecords
   <4>3. /\ SeBound(SeRecords, seRun.arg) \in Seq(Lines) /\ Len(SeBound(SeRecords, seRun.arg)) = Len(SeRecords)
         /\ \A i \in 1..Len(SeRecords) : SeBound(SeRecords, seRun.arg)[i] = <<SeRecords[i], seRun.arg>>
     BY <4>1, <4>2, BoundType
   <4> DEFINE b == SeBound(SeRecords, seRun.arg)
              w == seRun.want
   <4>4. b \in Seq(Lines) /\ w \in Seq(Lines) /\ Len(b) = Len(w) /\ \A i \in 1..Len(w) : w[i] = b[i]
     BY <1>r, <4>2, <4>3
   <4> HIDE DEF b, w
   <4>5. w = b BY <4>4
   <4> QED BY <4>5 DEF b, w
  <3>3. ~Prints' /\ Printed' = 0 /\ Len(seRun.want) \in Nat /\ seAt <= Len(seCfg.script) /\ seRun.from = Len(seOut) /\ ~seOutErr
   <4>1. seAt <= Len(seCfg.script) /\ Len(seOut) = seRun.from /\ ~seOutErr BY <2>1, <3>1 DEF RunInv, Running
   <4>2. Len(seOut) \in Nat /\ seRun.want \in Seq(Lines) BY <1>r DEF SessionTypes
   <4>3. Len(seRun.want) \in Nat BY ONLY <4>2
   <4>4. Printed' = 0 BY <2>1, <3>1, <4>1, <4>2 DEF Printed
   <4>5. ~Prints' BY <2>1 DEF RunInv, SessionTypes, SessionConfigOK, Prints, Stmt
   <4> QED BY ONLY <4>1, <4>3, <4>4, <4>5
  <3> QED BY <2>1, <2>2, <3>1, <3>2, <3>3 DEF RunInv, ScanInv, EndInv
 <2>3. CASE sePc' # "ended"
  <3>1. sePc' = "start" /\ seRun' = seRun BY <1>11, <2>1, <2>3 DEF RunChild
  <3>2. Asked' = Asked /\ Stmt' = Stmt /\ Hook' = Hook /\ Caller' = Caller /\ Bound' = Bound
        /\ Resolve(SourceOf)' = Resolve(SourceOf)
    BY <2>1, AskedUnchanged DEF Stmt, Hook, Caller, Prints, Bound, SourceOf, Resolve
  <3>4. RunInv' BY <2>1, <3>1, <3>2 DEF RunInv, Running
  <3> QED BY <3>1, <3>4 DEF ScanInv, EndInv
 <2> QED BY <2>2, <2>3
<1>12. CASE SePlan
 <2>1. sePc = "plan" /\ UNCHANGED <<seCfg, seAt, seWant, sePrep, seTemp, seOut, seOutErr>> /\ Stmt.op # "execute"
   BY <1>12 DEF SePlan, SeFail, RunInv
 <2>2. CASE Resolve(Stmt.ks) = NoPlan
  <3>1. seRun'.from = seRun.from /\ seRun'.landed = "no" /\ seRun'.how = "err" /\ sePc' = "ended"
    BY <1>12, <1>r, <2>2 DEF SePlan, SeFail, Runs, RunInv
  <3> QED BY <2>1, <3>1, EndsUnprinted DEF RunInv, ScanInv, Running
 <2>3. CASE Resolve(Stmt.ks) # NoPlan /\ Stmt.op = "explain"
  <3>1. /\ seRun'.from = seRun.from /\ seRun'.landed = "no" /\ seRun'.how = "ok" /\ sePc' = "ended"
        /\ seRun'.want = seRun.want /\ seRun'.rows = <<"plan">> BY <1>12, <1>r, <2>3 DEF SePlan, Runs, RunInv
  <3>2. seRun.want = <<"plan">> /\ ~Prints' /\ Printed' = 0 /\ seAt <= Len(seCfg.script) /\ Len(seOut) = seRun.from /\ ~seOutErr
    BY <2>1, <2>3, <1>r, <3>1 DEF RunInv, Asked, Prints, Stmt, Running, Printed
  <3>3. Len(seRun.want) = 1 BY <3>2
  <3> QED BY <2>1, <3>1, <3>2, <3>3 DEF RunInv, ScanInv, EndInv
 <2>4. CASE Resolve(Stmt.ks) # NoPlan /\ Stmt.op # "explain"
  <3>1. /\ sePc' = "start" /\ seRun'.plan = Resolve(Stmt.ks) /\ UNCHANGED <<seOnRow, seHeap>>
        /\ seRun'.from = seRun.from /\ seRun'.landed = seRun.landed /\ seRun'.want = seRun.want /\ seRun'.rows = seRun.rows
        /\ seRun'.pos = seRun.pos /\ seRun'.doc = seRun.doc /\ seRun'.arg = seRun.arg /\ seRun'.back = seRun.back
        /\ seRun'.heap = seRun.heap BY <1>12, <1>r, <2>4 DEF SePlan, Runs
  <3>2. Asked' = Asked /\ Stmt' = Stmt /\ Hook' = Hook /\ Caller' = Caller /\ Bound' = Bound
        /\ Resolve(SourceOf)' = Resolve(Stmt.ks)
    BY <2>1, AskedUnchanged DEF Stmt, Hook, Caller, Prints, Bound, SourceOf, Resolve
  <3>4. RunInv' BY <2>1, <2>4, <3>1, <3>2 DEF RunInv, Running
  <3> QED BY <3>1, <3>4 DEF ScanInv, EndInv
 <2> QED BY <2>2, <2>3, <2>4
<1>13. CASE ClearHalt
 <2>1. /\ sePc = "start" /\ sePc' = "scan" /\ seHalt' = 0
       /\ UNCHANGED <<seCfg, seAt, seWant, sePrep, seTemp, seHeap, seFile, seOnRow, seOut, seOutErr>>
       /\ seRun'.landed = "no" /\ seRun'.plan = seRun.plan
       /\ seRun'.from = seRun.from /\ seRun'.want = seRun.want /\ seRun'.rows = seRun.rows
       /\ seRun'.pos = seRun.pos /\ seRun'.doc = seRun.doc /\ seRun'.arg = seRun.arg /\ seRun'.back = seRun.back
       /\ seRun'.heap = seRun.heap BY <1>13, <1>r DEF ClearHalt, Runs, seStoreVars
 <2>2. Asked' = Asked /\ Stmt' = Stmt /\ Hook' = Hook /\ Caller' = Caller /\ Bound' = Bound
       /\ Resolve(SourceOf)' = Resolve(SourceOf)
   BY <2>1, AskedUnchanged DEF Stmt, Hook, Caller, Prints, Bound, SourceOf, Resolve
 <2>3. RunInv' BY <2>1, <2>2 DEF RunInv, Running
 <2>4. SeRecords' = SeRecords /\ Len(SeRecords) \in Nat
  <3>1. SeRecords \in Seq(Records) BY <2>1, ScanSource
  <3> QED BY <2>1, <3>1 DEF SeRecords, SeSource
 <2>5. /\ seRun'.pos = 0 /\ seRun'.rows = <<>> /\ seRun'.doc = <<>> /\ Printed' = 0 /\ ~seOutErr'
       /\ Stmt.op = "create" => seHeap'[seRun'.heap].rows = <<>> BY <1>r, <2>1 DEF RunInv, Printed
 <2>6. ScanInv'
  <3> DEFINE e == <<>>
  <3>1. Len(e) = 0 OBVIOUS
  <3>2. seRun'.rows = e /\ seRun'.doc = e /\ (Stmt.op = "create" => seHeap'[seRun'.heap].rows = e) BY <2>5
  <3> HIDE DEF e, SeRecords
  <3>3. \A i \in 1..0 : FALSE OBVIOUS
  <3> QED BY <2>1, <2>2, <2>4, <2>5, <3>1, <3>2, <3>3 DEF ScanInv, Taken
 <2> QED BY <2>1, <2>3, <2>6 DEF EndInv
<1>14. CASE SeClose \/ SeRender \/ ScanHalted \/ ScanRecord \/ ScanPanics \/ ScanDone
  BY <1>14 DEF SeClose, SeRender, ScanHalted, ScanRecord, ScanPanics, ScanDone
<1>15. CASE SePress \/ SeSignal \/ SeInterrupt
 <2>1. sePc' = sePc /\ seRun' = seRun /\ UNCHANGED <<seCfg, seAt, seWant, sePrep, seTemp, seHeap, seFile, seOnRow, seOut, seOutErr>>
   BY <1>15 DEF SePress, SeSignal, SeInterrupt, seStoreVars, seRunVars
 <2>2. Asked' = Asked /\ Stmt' = Stmt /\ Hook' = Hook /\ Caller' = Caller /\ Bound' = Bound
       /\ Resolve(SourceOf)' = Resolve(SourceOf)
   BY <2>1, AskedUnchanged DEF Stmt, Hook, Caller, Prints, Bound, SourceOf, Resolve
 <2>3. RunInv' BY <2>1, <2>2 DEF RunInv, Running
 <2> QED BY <2>1, <2>3 DEF ScanInv, EndInv
<1> QED BY <1>1, <1>2, <1>4, <1>5, <1>6, <1>7, <1>8, <1>9, <1>10, <1>11, <1>12, <1>13, <1>14, <1>15 DEF SessionNext

\* What a scan has printed is the beginning of what its statement asks for.
LEMMA ScanPrinted ==
  ASSUME SessionInv, sePc = "scan"
  PROVE  /\ Printed <= Len(seRun.want) /\ \A i \in 1..Printed : seOut[seRun.from + i] = seRun.want[i]
         /\ ~Prints => Printed = 0 /\ ~seOutErr
<1> USE DEF SessionInv
<1>1. seRun \in Runs /\ seRun.pos \in Nat /\ seRun.from \in Nat /\ Len(seOut) \in Nat /\ Len(seRun.want) \in Nat
 <2>1. seRun \in Runs /\ seOut \in Seq(Lines) BY DEF SessionTypes, RunTypes
 <2>2. seRun.pos \in Nat /\ seRun.from \in Nat /\ seRun.want \in Seq(Lines) BY ONLY <2>1 DEF Runs
 <2> QED BY ONLY <2>1, <2>2
<1>2. seOnRow = Hook /\ Stmt.op \in {"select", "create", "insert", "execute"} BY DEF RunInv
<1>3. SeRecords \in Seq(Records) BY ScanSource
<1> HIDE DEF SeRecords
<1>4. CASE seOnRow = "print"
 <2>1. Prints /\ Stmt.op \in {"select", "execute"} BY <1>2, <1>4 DEF Hook, Caller
 <2>2. Len(seRun.want) = Len(SeRecords) /\ \A i \in 1..Len(SeRecords) : seRun.want[i] = <<SeRecords[i], seRun.arg>>
   BY <2>1, ScanSource DEF SeRecords
 <2>3. /\ seRun.pos <= Len(SeRecords) /\ Printed <= seRun.pos
       /\ \A i \in 1..Printed : seOut[seRun.from + i] = <<SeRecords[i], seRun.arg>> BY <1>4 DEF ScanInv
 <2>4. Printed \in Int /\ Len(SeRecords) \in Nat BY <1>1, <1>3 DEF Printed
 <2>5. \A i \in 1..Printed : i \in 1..Len(SeRecords) BY <1>1, <2>3, <2>4
 <2>6. ASSUME NEW i \in 1..Printed PROVE seOut[seRun.from + i] = seRun.want[i] BY <2>2, <2>3, <2>5, <2>6
 <2>7. Printed <= Len(seRun.want) BY <1>1, <2>2, <2>3, <2>4
 <2> QED BY <2>1, <2>6, <2>7
<1>5. CASE seOnRow # "print"
 <2>1. Printed = 0 /\ ~seOutErr BY <1>5 DEF ScanInv
 <2> QED BY <1>1, <2>1
<1> QED BY <1>4, <1>5

LEMMA AppendTaken ==
  ASSUME NEW S, NEW q \in Seq(S), NEW x \in S
  PROVE  /\ Append(q, x) \in Seq(S) /\ Len(Append(q, x)) = Len(q) + 1 /\ Append(q, x)[Len(q) + 1] = x
         /\ \A i \in 1..Len(q) : Append(q, x)[i] = q[i]
OBVIOUS

LEMMA ScanRecordStep ==
  ASSUME SessionInv, SessionTypes', ScanRecord
  PROVE  RunInv' /\ ScanInv' /\ EndInv'
<1> USE DEF SessionInv
<1> DEFINE pos == seRun.pos
           recs == SeRecords
           rec == recs[pos + 1]
           row == <<rec, seRun.arg>>
<1>1. /\ seRun \in Runs /\ pos \in Nat /\ seRun.from \in Nat /\ seOut \in Seq(Lines) /\ seRun.rows \in Seq(Lines)
      /\ seRun.doc \in Seq(Records) /\ seRun.arg \in Nat /\ seHeap \in Seq(Heaps) BY DEF SessionTypes, RunTypes, Runs
<1>2. /\ sePc = "scan" /\ sePc' = "scan" /\ ~(Looks /\ seHalt = 1) /\ pos < Len(recs)
      /\ UNCHANGED <<seCfg, seAt, seWant, sePrep, seTemp, seFile, seOnRow>> BY DEF ScanRecord
<1>3. seOnRow = Hook /\ Stmt.op \in {"select", "create", "insert", "execute"} BY <1>2 DEF RunInv
<1>4. recs \in Seq(Records) /\ Len(recs) \in Nat
 <2>1. recs \in Seq(Records) BY <1>2, ScanSource
 <2> QED BY <2>1
<1>5. rec \in Records /\ row \in Lines
 <2>1. rec \in Records
  <3> HIDE DEF recs
  <3> QED BY <1>1, <1>2, <1>4
 <2> QED BY <1>1, <2>1, LinesForm
<1>6. /\ seRun'.pos = pos + 1 /\ seRun'.plan = seRun.plan /\ seRun'.arg = seRun.arg /\ seRun'.back = seRun.back
      /\ seRun'.heap = seRun.heap /\ seRun'.want = seRun.want /\ seRun'.from = seRun.from
      /\ seOnRow # "print" => seRun'.landed = seRun.landed
      /\ seOnRow = "print" => seRun'.landed = IF ~seOutErr /\ Len(seOut) >= seCfg.reads THEN Landing(pos + 1) ELSE seRun.landed
      /\ seOnRow = "none" => seRun'.rows = Append(seRun.rows, row)
      /\ seOnRow = "write" => seRun'.doc = Append(seRun.doc, rec)
 <2>1. seOnRow \in {"none", "print", "collect", "write"} BY DEF SessionTypes, Hooks
 <2>2. CASE seOnRow = "print" BY <1>1, <2>2 DEF ScanRecord, Runs
 <2>3. CASE seOnRow = "collect" BY <1>1, <2>3 DEF ScanRecord, Runs
 <2>4. CASE seOnRow = "write" BY <1>1, <2>4 DEF ScanRecord, Runs
 <2>5. CASE seOnRow = "none" BY <1>1, <2>5 DEF ScanRecord, Runs
 <2> QED BY <2>1, <2>2, <2>3, <2>4, <2>5
<1>7. /\ seOnRow # "print" => UNCHANGED <<seOut, seOutErr, seHalt>>
      /\ seOnRow = "print" => Written(row)
      /\ seOnRow # "collect" => seHeap' = seHeap
      /\ seOnRow = "collect" => seHeap' = [seHeap EXCEPT ![seRun.heap].rows = Append(@, rec)]
 <2>1. seOnRow \in {"none", "print", "collect", "write"} BY DEF SessionTypes, Hooks
 <2> QED BY <2>1 DEF ScanRecord
<1>8. Stmt.op = "create" => seRun.heap \in DOMAIN seHeap /\ seRun.heap # seTemp /\ seHeap[seRun.heap].open
  BY <1>2 DEF RunInv
<1>9. /\ DOMAIN seHeap' = DOMAIN seHeap
      /\ \A h \in DOMAIN seHeap : seHeap'[h].open = seHeap[h].open
      /\ \A h \in DOMAIN seHeap : h # seRun.heap \/ Stmt.op # "create" => seHeap'[h].rows = seHeap[h].rows
      /\ Stmt.op = "create" => seHeap'[seRun.heap].rows = Append(seHeap[seRun.heap].rows, rec)
 <2>1. CASE Stmt.op = "create"
  <3>1. seHeap' = [seHeap EXCEPT ![seRun.heap].rows = Append(@, rec)] /\ seRun.heap \in DOMAIN seHeap
    BY <1>3, <1>7, <1>8, <2>1 DEF Hook
  <3> DEFINE h == seRun.heap
             new == [seHeap EXCEPT ![h].rows = Append(@, rec)]
  <3>2. h \in DOMAIN seHeap /\ seHeap' = new BY <3>1
  <3> HIDE DEF h, rec
  <3>3. /\ Len(new) = Len(seHeap) /\ new \in Seq(Heaps)
        /\ \A i \in DOMAIN seHeap : /\ new[i].rows = IF i = h THEN Append(seHeap[h].rows, rec) ELSE seHeap[i].rows
                                    /\ new[i].open = seHeap[i].open
   <4>1. seHeap \in Seq(Heaps) /\ h \in DOMAIN seHeap /\ rec \in Records BY <1>1, <1>5, <3>2
   <4>2. /\ new \in Seq(Heaps) /\ Len(new) = Len(seHeap)
         /\ \A i \in DOMAIN seHeap : /\ new[i].rows = IF i = h THEN Append(seHeap[h].rows, rec) ELSE seHeap[i].rows
                                     /\ new[i].open = seHeap[i].open BY ONLY <4>1, CollectHeap
   <4> QED BY ONLY <4>2
  <3> HIDE DEF new
  <3>4. DOMAIN new = DOMAIN seHeap BY <1>1, <3>3
  <3> QED BY <2>1, <3>2, <3>3, <3>4 DEF h
 <2>2. CASE Stmt.op # "create"
  <3>1. seHeap' = seHeap BY <1>3, <1>7, <2>2 DEF Hook, Caller
  <3> QED BY <2>2, <3>1
 <2> QED BY <2>1, <2>2
<1>10. SeRecords' = recs
 <2>1. seRun.plan = Resolve(SourceOf) /\ seRun.plan # NoPlan /\ SourceOf \in Keyspaces BY <1>2, ScanSource DEF RunInv
 <2>2. CASE seRun.plan = FilePlan BY <1>2, <1>6, <2>2 DEF SeRecords, SeSource
 <2>3. CASE seRun.plan # FilePlan
  <3>1. seRun.plan = seTemp /\ seTemp \in DOMAIN seHeap BY <2>1, <2>3 DEF Resolve, Keyspaces, SessionTypes
  <3> QED BY <1>6, <1>8, <1>9, <2>3, <3>1 DEF SeRecords, SeSource
 <2> QED BY <2>2, <2>3
<1>11. Asked' = Asked /\ Stmt' = Stmt /\ Hook' = Hook /\ Caller' = Caller /\ Bound' = Bound
       /\ Resolve(SourceOf)' = Resolve(SourceOf)
  BY <1>2, AskedUnchanged DEF Stmt, Hook, Caller, Prints, Bound, SourceOf, Resolve
<1>12. RunInv'
 <2>1. seRun'.from <= Len(seOut')
  <3> HIDE DEF row
  <3>1. seOut' = seOut \/ seOut' = Append(seOut, row) BY <1>7 DEF Written
  <3>2. seRun.from <= Len(seOut) BY <1>2 DEF RunInv, Running
  <3> QED BY <1>1, <1>5, <1>6, <3>1, <3>2
 <2> QED BY <1>2, <1>3, <1>6, <1>8, <1>9, <1>11, <2>1 DEF RunInv, Running
<1>13. pos + 1 <= Len(recs) BY <1>1, <1>2, <1>4
<1> USE DEF Looks
<1>14. \/ seHalt' = 0 /\ seRun'.landed = "no"
       \/ seHalt' = 1 /\ seRun'.landed = Landing(seRun.pos)'
 <2>2. pos % SeEvery # 0 =>
         ((\E p \in (pos + 1)..Len(recs) : p % SeEvery = 0) <=> (\E p \in pos..Len(recs) : p % SeEvery = 0))
  <3> HIDE DEF recs
  <3>1. \A p \in Int : p \in pos..Len(recs) <=> (p = pos /\ pos <= Len(recs)) \/ p \in (pos + 1)..Len(recs)
    BY <1>1, <1>4
  <3> QED BY <1>1, <1>4, <3>1
 <2>3. pos % SeEvery # 0 => Landing(pos + 1) = Landing(pos) BY <2>2 DEF Landing
 <2>4. Landing(seRun.pos)' = Landing(pos + 1) BY <1>6, <1>10 DEF Landing
 <2>5. \/ seHalt = 0 /\ seRun.landed = "no"
       \/ seHalt = 1 /\ seRun.landed = Landing(pos) /\ pos % SeEvery # 0 BY <1>2 DEF ScanInv
 <2>6. \/ seHalt' = seHalt /\ seRun'.landed = seRun.landed
       \/ seHalt' = 1 /\ seRun'.landed = Landing(pos + 1) BY <1>6, <1>7 DEF Written
 <2> QED BY <2>3, <2>4, <2>5, <2>6
<1>15. ScanInv'
 <2> HIDE DEF recs, pos
 <2>1. seRun'.pos = pos + 1 /\ seRun.pos = pos /\ SeRecords = recs BY <1>6 DEF recs, pos
 <2>2. rec = recs[pos + 1] /\ \A i \in 1..(pos + 1) : i \in 1..pos \/ i = pos + 1 BY <1>1, <2>1 DEF pos, recs
 <2> HIDE DEF rec
 <2>3. ASSUME Stmt.op = "create" PROVE Taken(seHeap[seRun.heap].rows)'
  <3> DEFINE q == seHeap[seRun.heap].rows
  <3>1. seHeap[seRun.heap] \in Heaps BY <1>1, <1>8, <2>3
  <3>2. q \in Seq(Records) BY <3>1 DEF Heaps
  <3>3. Len(q) = pos /\ \A i \in 1..pos : q[i] = recs[i] BY <1>2, <2>1, <2>3 DEF ScanInv, Taken
  <3>4. seHeap'[seRun'.heap].rows = Append(q, rec) BY <1>6, <1>9, <2>3
  <3> HIDE DEF q
  <3>5. Len(Append(q, rec)) = pos + 1 /\ \A i \in 1..(pos + 1) : Append(q, rec)[i] = recs[i]
    BY ONLY <1>5, <2>2, <3>2, <3>3, AppendTaken
  <3> QED BY <1>10, <2>1, <3>4, <3>5 DEF Taken
 <2>4. ASSUME Stmt.op = "insert" PROVE Taken(seRun.doc)'
  <3> DEFINE q == seRun.doc
  <3>1. seOnRow = "write" /\ q \in Seq(Records) BY <1>1, <1>3, <2>4 DEF Hook
  <3>2. Len(q) = pos /\ \A i \in 1..pos : q[i] = recs[i] BY <1>2, <2>1, <2>4 DEF ScanInv, Taken
  <3>3. seRun'.doc = Append(q, rec) BY <1>6, <3>1
  <3> HIDE DEF q
  <3>5. Len(Append(q, rec)) = pos + 1 /\ \A i \in 1..(pos + 1) : Append(q, rec)[i] = recs[i]
    BY ONLY <1>5, <2>2, <3>1, <3>2, AppendTaken
  <3> QED BY <1>10, <2>1, <3>3, <3>5 DEF Taken
 <2>5. ASSUME seOnRow = "none"
       PROVE  Len(seRun'.rows) = pos + 1 /\ \A i \in 1..(pos + 1) : seRun'.rows[i] = <<recs[i], seRun.arg>>
  <3> DEFINE q == seRun.rows
  <3>1. Len(q) = pos /\ (\A i \in 1..pos : q[i] = <<recs[i], seRun.arg>>) /\ q \in Seq(Lines)
    BY <1>1, <1>2, <2>1, <2>5 DEF ScanInv
  <3>2. seRun'.rows = Append(q, row) /\ row = <<recs[pos + 1], seRun.arg>> BY <1>6, <2>2, <2>5
  <3> HIDE DEF row, q
  <3>3. Len(Append(q, row)) = pos + 1 /\ Append(q, row)[pos + 1] = row /\ \A i \in 1..pos : Append(q, row)[i] = q[i]
    BY ONLY <1>5, <3>1, AppendTaken
  <3> QED BY <2>2, <3>1, <3>2, <3>3
 <2>6. ASSUME seOnRow = "print"
       PROVE  /\ Printed' <= pos + 1 /\ (~seOutErr' => Printed' = pos + 1)
              /\ \A i \in 1..Printed' : seOut'[seRun.from + i] = <<recs[i], seRun.arg>>
  <3>1. /\ Printed <= pos /\ (~seOutErr => Printed = pos)
        /\ \A i \in 1..Printed : seOut[seRun.from + i] = <<recs[i], seRun.arg>> BY <1>2, <2>1, <2>6 DEF ScanInv
  <3>2. Printed = Len(seOut) - seRun.from /\ Printed' = Len(seOut') - seRun.from BY <1>6 DEF Printed
  <3>3. CASE seOut' = seOut /\ seOutErr' BY <1>1, <2>1, <3>1, <3>2, <3>3
  <3>4. CASE seOut' = Append(seOut, row) /\ ~seOutErr
   <4>1. row = <<recs[pos + 1], seRun.arg>> BY <2>2
   <4> HIDE DEF row
   <4>2. Len(seOut') = Len(seOut) + 1 /\ seOut'[Len(seOut) + 1] = row /\ \A i \in 1..Len(seOut) : seOut'[i] = seOut[i]
     BY <1>1, <1>5, <3>4
   <4>3. Len(seOut) = seRun.from + pos /\ Printed' = pos + 1 /\ Len(seOut) \in Nat
    <5>1. seRun.from \in Nat /\ Len(seOut) \in Nat /\ pos \in Nat BY <1>1, <2>1
    <5>2. Len(seOut) - seRun.from = pos BY <3>1, <3>2, <3>4
    <5>3. Printed' = Len(seOut') - seRun.from /\ Len(seOut') = Len(seOut) + 1 BY ONLY <3>2, <4>2
    <5> DEFINE n == Len(seOut)
               m == Len(seOut')
    <5> HIDE DEF n, m
    <5>4. n \in Nat /\ n - seRun.from = pos /\ Printed' = m - seRun.from /\ m = n + 1 BY ONLY <5>1, <5>2, <5>3 DEF n, m
    <5>5. n = seRun.from + pos /\ Printed' = pos + 1 BY ONLY <5>1, <5>4
    <5> QED BY ONLY <5>4, <5>5 DEF n
   <4>4. ASSUME NEW i \in 1..pos PROVE seOut'[seRun.from + i] = <<recs[i], seRun.arg>>
    <5>0. seRun.from \in Nat /\ pos \in Nat /\ Len(seOut) \in Nat /\ Len(seOut) = seRun.from + pos /\ Printed = pos
      BY <1>1, <2>1, <3>1, <3>4, <4>3
    <5>1. seRun.from + i \in 1..Len(seOut) /\ i \in 1..Printed BY ONLY <4>4, <5>0
    <5> QED BY <3>1, <4>2, <5>1
   <4>5. seRun.from + (pos + 1) = Len(seOut) + 1 BY <1>1, <2>1, <4>3
   <4>6. seOut'[seRun.from + (pos + 1)] = <<recs[pos + 1], seRun.arg>> BY <4>1, <4>2, <4>5
   <4>7. \A i \in 1..Printed' : i \in 1..pos \/ i = pos + 1 BY <2>2, <4>3
   <4>8. ASSUME NEW i \in 1..Printed' PROVE seOut'[seRun.from + i] = <<recs[i], seRun.arg>> BY <4>4, <4>6, <4>7, <4>8
   <4>9. Printed' <= pos + 1 BY <1>1, <2>1, <4>3
   <4> QED BY <4>3, <4>8, <4>9
  <3>5. Written(row) BY <1>7, <2>6
  <3> QED BY <3>3, <3>4, <3>5 DEF Written
 <2>7. ASSUME seOnRow # "print" PROVE Printed' = 0 /\ ~seOutErr'
  <3>1. Printed = 0 /\ ~seOutErr BY <1>2, <2>7 DEF ScanInv
  <3> QED BY <1>6, <1>7, <2>7, <3>1 DEF Printed
 <2> HIDE DEF row
 <2> QED BY <1>2, <1>6, <1>10, <1>11, <1>13, <1>14, <2>1, <2>3, <2>4, <2>5, <2>6, <2>7 DEF ScanInv
<1> QED BY <1>2, <1>12, <1>15 DEF EndInv

LEMMA ScanEnds ==
  ASSUME SessionInv, SessionTypes', ScanHalted \/ ScanPanics \/ ScanDone
  PROVE  RunInv' /\ ScanInv' /\ EndInv'
<1> USE DEF SessionInv, SeReturn
<1>1. /\ seRun \in Runs /\ seRun.pos \in Nat /\ seRun.from \in Nat /\ seOut \in Seq(Lines) /\ seRun.rows \in Seq(Lines)
      /\ seRun.want \in Seq(Lines) BY DEF SessionTypes, RunTypes, Runs
<1>2. sePc = "scan" /\ sePc' = "ended" /\ UNCHANGED <<seCfg, seAt>>
  BY DEF ScanHalted, ScanPanics, ScanDone, SeFail, Summarize
<1>3. seAt <= Len(seCfg.script) /\ seRun.from <= Len(seOut) BY <1>2 DEF RunInv, Running
<1>4. SeRecords \in Seq(Records) /\ Len(SeRecords) \in Nat
 <2>1. SeRecords \in Seq(Records) BY <1>2, ScanSource
 <2> QED BY <2>1
<1>5. seOnRow = Hook /\ seRun.back = Caller /\ Stmt.op \in {"select", "create", "insert", "execute"} BY <1>2 DEF RunInv
<1>6. \/ seHalt = 0 /\ seRun.landed = "no"
      \/ seHalt = 1 /\ seRun.landed = Landing(seRun.pos) BY <1>2 DEF ScanInv
<1>7. seRun.pos <= Len(SeRecords) BY <1>2 DEF ScanInv
<1>8. CASE ScanHalted
 <2>1. /\ seRun'.how = "halted" /\ seRun'.from = seRun.from /\ seRun'.want = seRun.want /\ seRun'.landed = seRun.landed
       /\ UNCHANGED <<seOut, seOutErr>> BY <1>1, <1>8 DEF ScanHalted, SeFail, Runs
 <2>2. seRun.landed = "due"
  <3>1. seHalt = 1 /\ seRun.pos % SeEvery = 0 BY <1>8 DEF ScanHalted, Looks
  <3>2. seRun.pos \in seRun.pos..Len(SeRecords) BY <1>1, <1>4, <1>7
  <3> QED BY <1>6, <3>1, <3>2 DEF Landing
 <2>3. Printed' = Printed /\ Prints' = Prints BY <1>2, <2>1 DEF Printed, Prints, Stmt
 <2> QED BY <1>2, <1>3, <2>1, <2>2, <2>3, ScanPrinted DEF RunInv, ScanInv, EndInv
<1>9. CASE ScanPanics
 <2>1. /\ seRun'.how = "unsupported" /\ seRun'.from = seRun.from /\ seRun'.want = seRun.want
       /\ UNCHANGED <<seOut, seOutErr>> BY <1>1, <1>9 DEF ScanPanics, Runs
 <2>2. Printed' = Printed /\ Prints' = Prints BY <1>2, <2>1 DEF Printed, Prints, Stmt
 <2> QED BY <1>2, <1>3, <2>1, <2>2, ScanPrinted DEF RunInv, ScanInv, EndInv
<1>10. CASE ScanDone
 <2>1. seRun.pos = Len(SeRecords) /\ ~(Looks /\ seHalt = 1) BY <1>10 DEF ScanDone
 <2>2. seRun.landed # "due"
  <3> DEFINE n == Len(SeRecords)
  <3>1. n \in Nat /\ seRun.pos = n BY <1>4, <2>1
  <3>2. Landing(seRun.pos) = IF \E p \in n..n : p % SeEvery = 0 THEN "due" ELSE "late" BY <3>1 DEF Landing
  <3> HIDE DEF n
  <3>3. \A p \in n..n : p = n BY <3>1
  <3>4. seHalt = 1 => seRun.pos % SeEvery # 0 BY <2>1 DEF Looks
  <3> QED BY <1>6, <3>1, <3>2, <3>3, <3>4
 <2>3. CASE Stmt.op \in {"create", "insert"}
  <3>1. seOnRow # "print" BY <1>5, <2>3 DEF Hook
  <3>2. Printed = 0 /\ ~seOutErr BY <1>2, <3>1 DEF ScanInv
  <3>3. Len(seOut) = seRun.from BY <1>1, <3>2 DEF Printed
  <3>4. Summarize(Caller) BY <1>5, <1>10, <2>3 DEF ScanDone
  <3>5. seRun.want = <<"summary">> BY <1>2, <2>3, ScanSource
  <3>6. EndInv' /\ seRun'.from = seRun.from /\ seRun'.from <= Len(seOut')
    BY <1>2, <2>2, <3>2, <3>3, <3>4, <3>5, EndsSummarized
  <3> QED BY <1>2, <1>3, <3>6 DEF RunInv, ScanInv
 <2>4. CASE Stmt.op \in {"select", "execute"}
  <3>1. /\ seRun'.how = "ok" /\ seRun'.from = seRun.from /\ seRun'.want = seRun.want /\ seRun'.landed = seRun.landed
        /\ seRun'.rows = seRun.rows /\ UNCHANGED <<seOut, seOutErr>> BY <1>1, <1>10, <2>4 DEF ScanDone, Runs
  <3>2. Printed' = Printed /\ Prints' = Prints BY <1>2, <3>1 DEF Printed, Prints, Stmt
  <3>3. Len(seRun.want) = Len(SeRecords) /\ \A i \in 1..Len(SeRecords) : seRun.want[i] = <<SeRecords[i], seRun.arg>>
    BY <1>2, <2>4, ScanSource
  <3>4. Prints /\ ~seOutErr => Printed = Len(seRun.want) BY <1>2, <1>5, <2>1, <2>4, <3>3 DEF ScanInv, Hook, Caller
  <3>5. ASSUME ~Prints PROVE seRun.rows = seRun.want
   <4>1. seOnRow = "none" BY <1>5, <2>4, <3>5 DEF Hook, Caller
   <4>2. Len(seRun.rows) = seRun.pos /\ \A i \in 1..seRun.pos : seRun.rows[i] = <<SeRecords[i], seRun.arg>>
     BY <1>2, <4>1 DEF ScanInv
   <4> HIDE DEF SeRecords
   <4> DEFINE a == seRun.rows
              w == seRun.want
   <4>3. a \in Seq(Lines) /\ w \in Seq(Lines) /\ Len(a) = Len(w) /\ \A i \in 1..Len(w) : a[i] = w[i]
     BY <1>1, <2>1, <3>3, <4>2
   <4> HIDE DEF a, w
   <4>4. a = w BY <4>3
   <4> QED BY <4>4 DEF a, w
  <3> QED BY <1>2, <1>3, <2>2, <3>1, <3>2, <3>4, <3>5, ScanPrinted DEF RunInv, ScanInv, EndInv
 <2> QED BY <1>5, <2>3, <2>4
<1> QED BY <1>8, <1>9, <1>10

LEMMA RunStep ==
  ASSUME SessionInv, SessionNext, SessionTypes'
  PROVE  RunInv' /\ ScanInv' /\ EndInv'
<1> USE DEF SessionInv
<1>1. CASE ScanHalted \/ ScanPanics \/ ScanDone BY <1>1, ScanEnds
<1>2. CASE ScanRecord BY <1>2, ScanRecordStep
<1>3. CASE SeRender \/ SeClose \/ sePc' = "killed"
 <2>1. sePc' \in {"prompt", "exit", "killed"} BY <1>3 DEF SeRender, SeClose
 <2> QED BY <2>1 DEF RunInv, Running, ScanInv, EndInv
<1>4. CASE (SePress \/ SeSignal) /\ sePc' # "killed"
 <2>1. UNCHANGED <<sePc, seCfg, seAt, seHalt, seWant, seOut, seRunVars, seStoreVars>> BY <1>4 DEF SePress, SeSignal
 <2> QED BY <2>1, SameRun
<1>5. CASE SeInterrupt
 <2>1. /\ sePc' = sePc /\ seHalt' = 1 /\ UNCHANGED <<seCfg, seAt, seWant, sePrep, seTemp, seHeap, seFile, seOnRow, seOut, seOutErr>>
       /\ sePc # "scan" => seRun' = seRun
       /\ sePc = "scan" => seRun' = [seRun EXCEPT !.landed = Landing(seRun.pos)] BY <1>5 DEF SeInterrupt, seStoreVars
 <2>2. CASE sePc # "scan"
  <3>1. UNCHANGED <<sePc, seCfg, seAt, seWant, sePrep, seTemp, seHeap, seFile, seOnRow, seOut, seOutErr, seRun>>
    BY <2>1, <2>2
  <3>2. Asked' = Asked /\ Stmt' = Stmt /\ Hook' = Hook /\ Caller' = Caller /\ Bound' = Bound /\ Prints' = Prints
        /\ Resolve(SourceOf)' = Resolve(SourceOf) /\ Printed' = Printed
    BY <3>1, AskedUnchanged DEF Stmt, Hook, Caller, Prints, Bound, SourceOf, Resolve, Printed
  <3>3. RunInv' BY <3>1, <3>2 DEF RunInv, Running
  <3>4. EndInv' BY <3>1, <3>2 DEF EndInv
  <3> QED BY <2>2, <3>1, <3>3, <3>4 DEF ScanInv
 <2>3. CASE sePc = "scan"
  <3>1. /\ seRun'.landed = Landing(seRun.pos) /\ seRun'.plan = seRun.plan
        /\ seRun'.from = seRun.from /\ seRun'.want = seRun.want /\ seRun'.rows = seRun.rows
        /\ seRun'.pos = seRun.pos /\ seRun'.doc = seRun.doc /\ seRun'.arg = seRun.arg /\ seRun'.back = seRun.back
        /\ seRun'.heap = seRun.heap BY <2>1, <2>3 DEF SessionTypes, RunTypes, Runs
  <3>2. Asked' = Asked /\ Stmt' = Stmt /\ Hook' = Hook /\ Caller' = Caller /\ Bound' = Bound
        /\ Resolve(SourceOf)' = Resolve(SourceOf) /\ SeRecords' = SeRecords /\ Printed' = Printed
    BY <2>1, <3>1, AskedUnchanged DEF Stmt, Hook, Caller, Prints, Bound, SourceOf, Resolve, SeRecords, SeSource, Printed
  <3>3. Landing(seRun.pos)' = Landing(seRun.pos) BY <3>1, <3>2 DEF Landing
  <3>4. RunInv' BY <2>1, <2>3, <3>1, <3>2 DEF RunInv, Running
  <3>5. ScanInv' BY <2>1, <2>3, <3>1, <3>2, <3>3 DEF ScanInv, Taken
  <3> QED BY <2>1, <2>3, <3>4, <3>5 DEF EndInv
 <2> QED BY <2>2, <2>3
<1>6. CASE sePc \notin {"scan", "ended", "exit", "killed"} /\ sePc' \in {"prompt", "parse", "plan", "build", "start", "scan", "ended"}
  BY <1>6, RunsOn
<1> QED
  BY <1>1, <1>2, <1>3, <1>4, <1>5, <1>6
  DEF SessionNext, SeExec, ParseFails, ParseSelect, ParseCreate, ParseInsert, ParseDrop, PrepareRun, ExecuteRun, Build, RunChild, SePlan, ClearHalt, Summarize, SeFail, SeReturn

LEMMA EndsStep ==
  ASSUME SessionInv, SessionNext, SessionTypes'
  PROVE  EndsInv'
<1> USE DEF SessionInv
<1>1. CASE ~SeRender
 <2>1. seEnds' = seEnds
   BY <1>1 DEF SessionNext, SeExec, ParseFails, ParseSelect, ParseCreate, ParseInsert, ParseDrop, PrepareRun, ExecuteRun, Build, RunChild, SePlan, ClearHalt, ScanHalted, ScanRecord, ScanPanics, ScanDone, SeClose, SePress, SeSignal, SeInterrupt
 <2> QED BY <2>1 DEF EndsInv, SessionOutput, SessionHalts
<1>2. CASE SeRender
 <2> DEFINE shown == IF seRun.how = "ok" /\ ~(seCfg.stream /\ Stmt.op # "explain") THEN seRun.rows ELSE <<>>
            fits == IF Len(seOut) + Len(shown) <= seCfg.reads THEN Len(shown)
                    ELSE IF Len(seOut) >= seCfg.reads THEN 0 ELSE seCfg.reads - Len(seOut)
            lines == SubSeq(seOut', seRun.from + 1, Len(seOut'))
            cut == seOutErr \/ fits < Len(shown)
            want == seRun.want
            e == [how |-> seRun.how, landed |-> seRun.landed, want |-> want, lines |-> lines, cut |-> cut]
 <2>1. sePc = "ended" /\ seOut' = seOut \o SubSeq(shown, 1, fits) /\ seEnds' = Append(seEnds, e) BY <1>2 DEF SeRender
 <2>2. /\ seRun.from \in Nat /\ seOut \in Seq(Lines) /\ seRun.rows \in Seq(Lines) /\ want \in Seq(Lines)
       /\ seRun.how \in Hows /\ seRun.landed \in {"no", "due", "late"} /\ seOutErr \in BOOLEAN /\ seOut' \in Seq(Lines)
       /\ seCfg.reads \in Nat BY DEF SessionTypes, RunTypes, Runs, SessionConfigOK
 <2>3. seRun.from <= Len(seOut) BY <2>1 DEF RunInv, Running
 <2>4. /\ Printed <= Len(want) /\ \A i \in 1..Printed : seOut[seRun.from + i] = want[i]
       /\ seRun.how = "ok" => IF Prints THEN ~seOutErr => Printed = Len(want) ELSE seRun.rows = want
       /\ ~Prints => Printed = 0 /\ ~seOutErr
       /\ seRun.how = "err" => Printed = 0
       /\ seRun.how = "halted" => seRun.landed = "due"
       /\ seRun.landed = "due" => seRun.how \in {"halted", "unsupported"} BY <2>1 DEF EndInv
 <2>5. shown = IF seRun.how = "ok" /\ ~Prints THEN want ELSE <<>> BY <2>4 DEF Prints
 <2>6. shown \in Seq(Lines) BY <2>2, <2>5
 <2> HIDE DEF shown, want
 <2>7. fits \in 0..Len(shown) BY <2>2, <2>6
 <2> HIDE DEF fits
 <2>8. Len(seOut') = Len(seOut) + fits /\ (\A i \in 1..Len(seOut) : seOut'[i] = seOut[i])
       /\ \A i \in 1..fits : seOut'[Len(seOut) + i] = shown[i] BY <2>1, <2>2, <2>6, <2>7
 <2>9. lines \in Seq(Lines) /\ Len(lines) = Printed + fits /\ \A i \in 1..(Printed + fits) : lines[i] = seOut'[seRun.from + i]
  <3>1. Printed \in Nat /\ Len(seOut') = seRun.from + (Printed + fits) BY <2>2, <2>3, <2>6, <2>7, <2>8 DEF Printed
  <3> DEFINE from == seRun.from
             size == Printed + fits
             out == seOut'
  <3>2. from \in Nat /\ size \in Nat /\ out \in Seq(Lines) /\ Len(out) = from + size BY <2>2, <2>7, <3>1
  <3>3. lines = SubSeq(out, from + 1, Len(out)) OBVIOUS
  <3> HIDE DEF from, size, out, Lines, lines
  <3>4. lines \in Seq(Lines) /\ Len(lines) = size /\ \A i \in 1..size : lines[i] = out[from + i] BY <3>2, <3>3
  <3> QED BY <3>4 DEF from, size, out
 <2> HIDE DEF lines
 <2>10. Printed \in Nat /\ Len(want) \in Nat /\ seRun.from + Printed = Len(seOut) BY <2>2, <2>3 DEF Printed
 <2>11. Len(lines) <= Len(want) /\ \A i \in 1..Len(lines) : lines[i] = want[i]
  <3>1. CASE seRun.how = "ok" /\ ~Prints
   <4>1. Printed = 0 /\ shown = want /\ Len(seOut) = seRun.from BY <2>2, <2>4, <2>5, <2>10, <3>1
   <4> QED BY <2>7, <2>8, <2>9, <2>10, <4>1
  <3>2. CASE ~(seRun.how = "ok" /\ ~Prints)
   <4>1. Len(shown) = 0 BY <2>5, <3>2
   <4>2. fits = 0 BY <2>7, <4>1
   <4>3. ASSUME NEW i \in 1..Printed PROVE lines[i] = want[i]
    <5>1. seRun.from + i \in 1..Len(seOut) BY <2>2, <2>10
    <5> QED BY <2>4, <2>8, <2>9, <2>10, <4>2, <5>1
   <4> QED BY <2>4, <2>9, <2>10, <4>2, <4>3
  <3> QED BY <3>1, <3>2
 <2>12. ASSUME seRun.how = "ok", ~cut PROVE lines = want
  <3>1. Len(lines) = Len(want)
   <4>1. CASE Prints
    <5>1. Len(shown) = 0 BY <2>5, <4>1
    <5> QED BY <2>4, <2>7, <2>9, <2>10, <2>12, <4>1, <5>1
   <4>2. CASE ~Prints
    <5>1. Printed = 0 /\ shown = want BY <2>4, <2>5, <2>12, <4>2
    <5> QED BY <2>6, <2>7, <2>9, <2>12, <5>1
   <4> QED BY <4>1, <4>2
  <3> QED BY <2>2, <2>9, <2>11, <3>1 DEF want
 <2>13. ASSUME seRun.how = "err" PROVE lines = <<>>
  <3>1. Len(shown) = 0 /\ Printed = 0 BY <2>4, <2>5, <2>13
  <3>2. Len(lines) = 0 BY <2>7, <2>9, <3>1
  <3> QED BY <2>9, <3>2
 <2>14. cut \in BOOLEAN OBVIOUS
 <2> HIDE DEF cut
 <2>15. /\ e \in Ends /\ e.how = seRun.how /\ e.landed = seRun.landed /\ e.want = want /\ e.lines = lines /\ e.cut = cut
   BY <2>2, <2>9, <2>14 DEF Ends, want
 <2> HIDE DEF e
 <2>16. seEnds \in Seq(Ends) BY DEF EndsInv
 <2>17. seEnds' \in Seq(Ends) /\ \A i \in DOMAIN seEnds' : (i \in DOMAIN seEnds /\ seEnds'[i] = seEnds[i]) \/ seEnds'[i] = e
   BY <2>1, <2>15, <2>16
 <2>18. DOMAIN lines = 1..Len(lines) BY <2>9
 <2>19. SessionOutput' BY <2>11, <2>12, <2>13, <2>15, <2>17, <2>18 DEF EndsInv, SessionOutput
 <2>20. SessionHalts' BY <2>4, <2>15, <2>17 DEF EndsInv, SessionHalts
 <2> QED BY <2>17, <2>19, <2>20 DEF EndsInv
<1> QED BY <1>1, <1>2

-----------------------------------------------------------------------------
\* session.go: Run, PlanExec, ExecuteRun, Interrupt, Close; temp_stmt.go:
\* createTempKeyspace; exec.go: exec: whatever script is run, streamed or kept,
\* with plans and binaries that earlier statements made, with Ctrl-C at any
\* time, build failures, panics and a reader that stops: each statement prints a
\* prefix of its rows, all when it ends well, an interrupt halts the statement
\* whose scan it landed in and no other, the keyspaces hold what ended well, and
\* a closed session leaves no open heap and no binary.
THEOREM SessionsExact ==
  ASSUME NEW Cfgs, \A c \in Cfgs : SessionConfigOK(c)
  PROVE  SessionSpec(Cfgs) => []SessionExact
<1>1. SessionInit(Cfgs) => SessionInv
 <2> SUFFICES ASSUME SessionInit(Cfgs) PROVE SessionInv OBVIOUS
 <2>1. SessionConfigOK(seCfg) /\ seCfg.file \in Seq(Records) BY DEF SessionInit, SessionConfigOK
 <2>2. SeIdleRun \in Runs
  <3>1. <<>> \in Seq(Lines) /\ <<>> \in Seq(Records) /\ NoPlan \in Int BY DEF NoPlan
  <3> QED BY <3>1 DEF Runs, Hows, Hooks, SeIdleRun, NoArg
 <2>3. /\ sePrep = [n \in {} |-> 0] /\ seHeap = <<>> /\ seTemp = 0 /\ seOut = <<>> /\ seEnds = <<>> /\ seBins = {}
       /\ seWant = [f |-> seCfg.file, t |-> Absent] /\ seFile = seCfg.file /\ seRun = SeIdleRun
       /\ sePc = "prompt" /\ seAt = 1 /\ seHalt = 0 /\ seOnRow = "none" /\ seOutErr = FALSE BY DEF SessionInit
 <2>4. SessionTypes
  <3>1. IsFiniteSet(seBins) BY <2>3, FS_EmptySet
  <3>2. seWant \in [f : Seq(Records), t : Seq(Records) \cup {Absent}] BY <2>1, <2>3
  <3>3. sePrep \in [DOMAIN sePrep -> Prepareds] BY <2>3
  <3>4. seHeap \in Seq(Heaps) /\ seTemp \in 0..Len(seHeap) BY <2>3
  <3>5. seOut \in Seq(Lines) /\ seFile \in Seq(Records) /\ RunTypes BY <2>1, <2>2, <2>3 DEF RunTypes
  <3>6. sePc \in Pcs /\ seAt \in Nat \ {0} /\ seHalt \in {0, 1} /\ seOnRow \in Hooks BY <2>3 DEF Pcs, Hooks
  <3>7. seOutErr \in BOOLEAN BY <2>3, Zenon
  <3> HIDE DEF Prepareds, Heaps, Lines, Records, Pcs, Hooks, RunTypes, SessionConfigOK
  <3> QED BY <2>1, <3>1, <3>2, <3>3, <3>4, <3>5, <3>6, <3>7 DEF SessionTypes
 <2>5. StoreInv /\ OpenInv /\ PrepInv /\ BinInv /\ ExitInv BY <2>3 DEF StoreInv, OpenInv, PrepInv, BinInv, ExitInv
 <2>6. RunInv /\ ScanInv /\ EndInv BY <2>3 DEF RunInv, Running, ScanInv, EndInv
 <2>7. EndsInv BY <2>3 DEF EndsInv, SessionOutput, SessionHalts
 <2> QED BY <2>4, <2>5, <2>6, <2>7 DEF SessionInv
<1>2. SessionInv /\ [SessionNext]_sessionVars => SessionInv'
 <2>1. ASSUME SessionInv, SessionNext PROVE SessionInv'
  <3>1. SessionTypes' BY <2>1, TypesStep
  <3> QED BY <2>1, <3>1, StoreStep, PrepStep, ExitStep, RunStep, EndsStep DEF SessionInv
 <2>2. ASSUME SessionInv, UNCHANGED sessionVars PROVE SessionInv'
  <3>1. UNCHANGED <<sePc, seCfg, seAt, seHalt, seWant, seOut, seEnds, seRunVars, seStoreVars>> BY <2>2 DEF sessionVars
  <3>2. UNCHANGED <<sePc, seCfg, seAt, seHalt, seWant, seOut, seEnds, seOnRow, seOutErr, seRun, sePrep, seHeap, seTemp, seFile, seBins>>
    BY <3>1 DEF seRunVars, seStoreVars
  <3>3. SessionTypes' BY <2>2, <3>2 DEF SessionInv, SessionTypes, RunTypes
  <3>4. StoreInv' /\ OpenInv' /\ BinInv' /\ ExitInv'
    BY <2>2, <3>2 DEF SessionInv, ExitInv, StoreInv, OpenInv, Creates, Stmt, BinInv
  <3>5. PrepInv'
   <4>1. \A n \in DOMAIN sePrep : PreparedBy(n)' = PreparedBy(n) BY <3>2 DEF PreparedBy
   <4>2. \A ks : Resolve(ks)' = Resolve(ks) BY <3>2 DEF Resolve
   <4> QED BY <2>2, <3>2, <4>1, <4>2 DEF SessionInv, PrepInv
  <3>6. RunInv' /\ ScanInv' /\ EndInv' BY <2>2, <3>1, SameRun DEF SessionInv
  <3>7. EndsInv' BY <2>2, <3>2 DEF SessionInv, EndsInv, SessionOutput, SessionHalts
  <3> QED BY <3>3, <3>4, <3>5, <3>6, <3>7 DEF SessionInv
 <2> QED BY <2>1, <2>2
<1>3. SessionInv => SessionExact
 <2> SUFFICES ASSUME SessionInv PROVE SessionExact OBVIOUS
 <2>1. SessionKeyspaces BY DEF SessionInv, StoreInv, SessionKeyspaces
 <2>2. SessionFrees BY DEF SessionInv, OpenInv, ExitInv, Creates, SessionFrees
 <2> QED BY <2>1, <2>2 DEF SessionInv, EndsInv, SessionExact
<1> QED BY <1>1, <1>2, <1>3, PTL DEF SessionSpec
=============================================================================
