---------------------------- MODULE IndexProofs ----------------------------
(***************************************************************************)
(* Proofs about the persistent and the in-memory indexes: what an index    *)
(* that is taken for fresh holds, and what is read through it, while other *)
(* programs change the files that it was built from.                       *)
(*                                                                         *)
(* The facts about files, walks and watermarks are stated of any entries,  *)
(* watermark and source, so that each kind of index can cite them.         *)
(***************************************************************************)
EXTENDS SecondaryIndex, FtsIndex, FiniteSetTheorems, WellFoundedInduction, TLAPS

-----------------------------------------------------------------------------
(* Files and sets of records                                               *)

\* A file of container c, written by the time k: the offsets are 1..n.
IsFile(F, c, k) ==
  \E n \in Nat : DOMAIN F = 1..n /\ \A o \in 1..n : \E g \in 0..k : F[o] = <<c, o, g>>

Content(F) == {F[o] : o \in DOMAIN F}

\* The records of container c among E.
Of(E, c) == {r \in E : r[1] = c}

\* Two versions of a file that hold the same record hold the same records before it.
Agree(F, G) == \A o \in DOMAIN F \cap DOMAIN G : F[o] = G[o] => \A p \in 1..o : F[p] = G[p]

SourceOK(files, mtime, clock) ==
  /\ mtime \in [IdxContainers -> Nat] /\ clock \in Nat /\ DOMAIN files = IdxContainers
  /\ \A c \in IdxContainers : mtime[c] <= clock /\ IsFile(files[c], c, clock)

\* One step of the source: container c changed, every record in it that was not
\* there, with all before it, is written at the new time.
Touched(c, files, mtime, clock, files2, mtime2) ==
  /\ \A d \in IdxContainers \ {c} : files2[d] = files[d] /\ mtime2[d] = mtime[d]
  /\ mtime2[c] \in {0, clock + 1}
  /\ \A o \in DOMAIN files2[c] :
       \/ o \in DOMAIN files[c] /\ \A p \in 1..o : files2[c][p] = files[c][p]
       \/ files2[c][o] = <<c, o, clock + 1>>

LEMMA LeastOffset ==
  ASSUME NEW T \in SUBSET Nat, T # {}
  PROVE  \E x \in T : \A y \in T : x <= y
<1> DEFINE R == OpToRel(<, Nat)
<1>1. IsWellFoundedOn(R, Nat) BY NatLessThanWellFounded
<1> HIDE DEF R
<1>2. PICK x \in T : \A y \in T : ~(<<y, x>> \in R) BY <1>1, WFMin
<1>3. \A y \in T : <<y, x>> \in R <=> y < x BY DEF R, OpToRel
<1>4. \A y \in T : ~(y < x) /\ y \in Nat /\ x \in Nat BY <1>2, <1>3
<1> QED BY <1>4

\* A bounded set of numbers has a greatest and a least element.
LEMMA MaxMin ==
  ASSUME NEW k \in Nat, NEW S \in SUBSET (0..k), S # {}
  PROVE  /\ Max(S) \in S /\ \A y \in S : y <= Max(S)
         /\ Min(S) \in S /\ \A y \in S : Min(S) <= y
<1>1. \E x \in S : \A y \in S : x >= y
 <2> DEFINE T == {k - x : x \in S}
 <2>1. T \in SUBSET Nat /\ T # {}
  <3>1. \A x \in S : k - x \in Nat OBVIOUS
  <3> QED BY <3>1
 <2>2. PICK m \in T : \A y \in T : m <= y BY <2>1, LeastOffset
 <2>3. PICK x \in S : m = k - x OBVIOUS
 <2>4. \A y \in S : m <= k - y BY <2>2
 <2>5. \A y \in S : x >= y BY <2>3, <2>4
 <2> QED BY <2>5
<1>2. \E x \in S : \A y \in S : x =< y
 <2>1. S \in SUBSET Nat OBVIOUS
 <2> QED BY <2>1, LeastOffset
<1>3. Max(S) \in S /\ \A y \in S : Max(S) >= y BY <1>1 DEF Max
<1>4. Min(S) \in S /\ \A y \in S : Min(S) =< y BY <1>2 DEF Min
<1>5. \A y \in S : y \in Int OBVIOUS
<1> QED BY <1>3, <1>4, <1>5

\* Where a file ends.
LEMMA LastRecord ==
  ASSUME NEW F, NEW c, NEW k \in Nat, IsFile(F, c, k), DOMAIN F # {}
  PROVE  /\ Max(DOMAIN F) \in Nat \ {0}
         /\ DOMAIN F = 1..Max(DOMAIN F)
         /\ \E g \in 0..k : F[Max(DOMAIN F)] = <<c, Max(DOMAIN F), g>>
<1>1. PICK n \in Nat : DOMAIN F = 1..n /\ \A o \in 1..n : \E g \in 0..k : F[o] = <<c, o, g>> BY DEF IsFile
<1>2. n # 0 BY <1>1
<1>3. DOMAIN F \in SUBSET (0..n) BY <1>1
<1>4. Max(DOMAIN F) \in 1..n /\ \A y \in 1..n : y <= Max(DOMAIN F) BY <1>1, <1>3, MaxMin
<1>5. Max(DOMAIN F) = n BY <1>2, <1>4
<1>6. n \in 1..n /\ n \in Nat \ {0} BY <1>2
<1>7. \E g \in 0..k : F[n] = <<c, n, g>> BY ONLY <1>1, <1>6
<1> QED BY ONLY <1>1, <1>5, <1>6, <1>7

\* The records of a container in what was read are those of its file.
LEMMA RecordsOf ==
  ASSUME NEW files, NEW k, NEW c,
         \A d \in DOMAIN files : IsFile(files[d], d, k)
  PROVE  /\ \A r \in Records(files) : r[1] \in DOMAIN files
         /\ c \in DOMAIN files => Of(Records(files), c) = Content(files[c])
         /\ c \notin DOMAIN files => Of(Records(files), c) = {}
<1>1. \A d \in DOMAIN files : \A o \in DOMAIN files[d] : files[d][o][1] = d BY DEF IsFile
<1>2. \A r : r \in Records(files) <=> \E d \in DOMAIN files : \E o \in DOMAIN files[d] : r = files[d][o] BY DEF Records
<1>3. \A r \in Records(files) : r[1] \in DOMAIN files BY <1>1, <1>2
<1>4. ASSUME c \in DOMAIN files PROVE Of(Records(files), c) = Content(files[c])
 <2>1. \A r \in Content(files[c]) : r \in Records(files) /\ r[1] = c BY <1>1, <1>2, <1>4 DEF Content
 <2>2. \A r \in Records(files) : r[1] = c => r \in Content(files[c]) BY <1>1, <1>2 DEF Content
 <2> QED BY <2>1, <2>2 DEF Of
<1>5. ASSUME c \notin DOMAIN files PROVE Of(Records(files), c) = {} BY <1>3, <1>5 DEF Of
<1> QED BY <1>3, <1>4, <1>5

-----------------------------------------------------------------------------
(* What a change of the source leaves true                                 *)

\* A file stays one, and stays in agreement with what was read of it.
LEMMA FileChanges ==
  ASSUME NEW c \in IdxContainers, NEW files, NEW mtime, NEW clock \in Nat, NEW files2, NEW mtime2,
         Touched(c, files, mtime, clock, files2, mtime2),
         NEW d \in IdxContainers, NEW F, IsFile(F, d, clock), Agree(F, files[d])
  PROVE  IsFile(F, d, clock + 1) /\ Agree(F, files2[d])
<1>1. PICK n \in Nat : DOMAIN F = 1..n /\ \A o \in 1..n : \E g \in 0..clock : F[o] = <<d, o, g>> BY DEF IsFile
<1>2. IsFile(F, d, clock + 1)
 <2>1. \A g \in 0..clock : g \in 0..(clock + 1) OBVIOUS
 <2> QED BY <1>1, <2>1 DEF IsFile
<1>3. ASSUME NEW o \in DOMAIN F \cap DOMAIN files2[d], F[o] = files2[d][o], NEW p \in 1..o
      PROVE  F[p] = files2[d][p]
 <2>1. CASE d # c
  <3>1. files2[d] = files[d] BY <2>1 DEF Touched
  <3> QED BY <1>3, <3>1 DEF Agree
 <2>2. CASE d = c
  <3>1. PICK g \in 0..clock : F[o] = <<d, o, g>> BY <1>1, <1>3
  <3>2. g # clock + 1 OBVIOUS
  <3>3. files2[c][o] # <<c, o, clock + 1>> BY <1>3, <2>2, <3>1, <3>2
  <3>4. o \in DOMAIN files[c] /\ \A q \in 1..o : files2[c][q] = files[c][q] BY <1>3, <2>2, <3>3 DEF Touched
  <3>5. o \in 1..o BY <1>1, <1>3
  <3>6. F[o] = files[d][o] BY <1>3, <2>2, <3>4, <3>5
  <3>7. F[p] = files[d][p] BY <1>3, <2>2, <3>4, <3>6 DEF Agree
  <3> QED BY <1>3, <2>2, <3>4, <3>7
 <2> QED BY <2>1, <2>2
<1> QED BY <1>2, <1>3 DEF Agree

\* Agreement of a file with itself.
LEMMA AgreeSelf == ASSUME NEW F PROVE Agree(F, F) BY DEF Agree

SourceState == SourceOK(ixFiles, ixMtime, ixClock) /\ ixTouched \in SUBSET IdxContainers

\* A change touches one container, and the source stays well formed.
LEMMA SourceSteps ==
  ASSUME SourceState, SourceChange
  PROVE  /\ SourceState' /\ ixClock' = ixClock + 1
         /\ \E c \in IdxContainers : /\ Touched(c, ixFiles, ixMtime, ixClock, ixFiles', ixMtime')
                                     /\ ixTouched' = ixTouched \cup {c}
<1>1. PICK c \in IdxContainers : AppendTo(c) \/ Rewrite(c) \/ RemoveFile(c) BY DEF SourceChange
<1> DEFINE k == ixClock
           k2 == ixClock + 1
<1>2. k \in Nat /\ k2 \in Nat /\ k <= k2 /\ k2 \in 0..k2 /\ \A g \in 0..k : g \in 0..k2 BY DEF SourceState, SourceOK
<1>3. PICK n \in Nat : DOMAIN ixFiles[c] = 1..n /\ \A o \in 1..n : \E g \in 0..k : ixFiles[c][o] = <<c, o, g>>
  BY DEF SourceState, SourceOK, IsFile
<1>4. Cardinality(DOMAIN ixFiles[c]) = n
 <2>1. 1 \in Int /\ n \in Int /\ (IF 1 > n THEN 0 ELSE n - 1 + 1) = n OBVIOUS
 <2> QED BY <1>3, <2>1, FS_Interval
<1>5. \E recs : \E mtime \in {0, k2} :
        /\ Change(c, recs, mtime)
        /\ IsFile(recs, c, k2)
        /\ \A o \in DOMAIN recs : \/ o \in DOMAIN ixFiles[c] /\ \A p \in 1..o : recs[p] = ixFiles[c][p]
                                  \/ recs[o] = <<c, o, k2>>
 <2>1. CASE AppendTo(c)
  <3> DEFINE m == n + 1
             recs == [o \in 1..m |-> IF o = m THEN <<c, m, k2>> ELSE ixFiles[c][o]]
  <3>1. Change(c, recs, k2) BY <2>1, <1>4 DEF AppendTo
  <3>2. m \in Nat /\ \A o \in 1..m : o # m => o \in 1..n OBVIOUS
  <3>3. DOMAIN recs = 1..m /\ \A o \in 1..m : \E g \in 0..k2 : recs[o] = <<c, o, g>>
   <4>1. ASSUME NEW o \in 1..m PROVE \E g \in 0..k2 : recs[o] = <<c, o, g>>
    <5>1. CASE o = m BY <5>1, <1>2
    <5>2. CASE o # m
     <6>1. recs[o] = ixFiles[c][o] BY <5>2
     <6> QED BY <6>1, <5>2, <3>2, <1>2, <1>3
    <5> QED BY <5>1, <5>2
   <4> QED BY <4>1
  <3>4. ASSUME NEW o \in DOMAIN recs
        PROVE  \/ o \in DOMAIN ixFiles[c] /\ \A p \in 1..o : recs[p] = ixFiles[c][p]
               \/ recs[o] = <<c, o, k2>>
   <4>1. CASE o = m BY <4>1
   <4>2. CASE o # m
    <5>1. o \in 1..n BY <3>2, <4>2
    <5>2. \A p \in 1..o : p \in 1..m /\ p # m BY <5>1
    <5> QED BY <5>1, <5>2, <1>3
   <4> QED BY <4>1, <4>2
  <3> HIDE DEF recs, m
  <3> QED BY <3>1, <3>2, <3>3, <3>4 DEF IsFile
 <2>2. CASE Rewrite(c)
  <3>1. PICK m \in 0..IdxLen : Change(c, Writing(c, m, k2), k2) BY <2>2 DEF Rewrite
  <3>2. m \in Nat BY SourceAssumption
  <3> DEFINE recs == Writing(c, m, k2)
  <3>3. DOMAIN recs = 1..m /\ \A o \in 1..m : recs[o] = <<c, o, k2>> BY DEF Writing
  <3> HIDE DEF recs
  <3>4. IsFile(recs, c, k2) BY <1>2, <3>2, <3>3 DEF IsFile
  <3> QED BY <3>1, <3>3, <3>4 DEF recs
 <2>3. CASE RemoveFile(c)
  <3>1. Change(c, <<>>, 0) BY <2>3 DEF RemoveFile
  <3>2. DOMAIN <<>> = 1..0 OBVIOUS
  <3>3. \A o : o \notin 1..0 OBVIOUS
  <3>4. IsFile(<<>>, c, k2) BY <3>2, <3>3 DEF IsFile
  <3> QED BY <3>1, <3>2, <3>3, <3>4
 <2> QED BY <1>1, <2>1, <2>2, <2>3
<1> DEFINE Changes(recs, mtime) ==
             /\ Change(c, recs, mtime)
             /\ IsFile(recs, c, k2)
             /\ \A o \in DOMAIN recs : \/ o \in DOMAIN ixFiles[c] /\ \A p \in 1..o : recs[p] = ixFiles[c][p]
                                       \/ recs[o] = <<c, o, k2>>
<1>12. PICK recs : \E mtime \in {0, k2} : Changes(recs, mtime) BY <1>5
<1>13. PICK mtime \in {0, k2} : Changes(recs, mtime) BY <1>12
<1>6. /\ Change(c, recs, mtime)
      /\ IsFile(recs, c, k2)
      /\ \A o \in DOMAIN recs : \/ o \in DOMAIN ixFiles[c] /\ \A p \in 1..o : recs[p] = ixFiles[c][p]
                                \/ recs[o] = <<c, o, k2>> BY <1>13
<1>7. ixFiles' = [ixFiles EXCEPT ![c] = recs] /\ ixMtime' = [ixMtime EXCEPT ![c] = mtime]
      /\ ixClock' = k2 /\ ixTouched' = ixTouched \cup {c} BY <1>6 DEF Change
<1>8. DOMAIN ixFiles = IdxContainers /\ ixMtime \in [IdxContainers -> Nat]
      /\ \A d \in IdxContainers : ixMtime[d] <= k /\ IsFile(ixFiles[d], d, k) BY DEF SourceState, SourceOK
<1>9. /\ ixFiles'[c] = recs /\ ixMtime'[c] = mtime
      /\ \A d \in IdxContainers \ {c} : ixFiles'[d] = ixFiles[d] /\ ixMtime'[d] = ixMtime[d] BY <1>7, <1>8
<1>10. Touched(c, ixFiles, ixMtime, ixClock, ixFiles', ixMtime') BY <1>6, <1>9 DEF Touched
<1>11. SourceOK(ixFiles', ixMtime', ixClock')
 <2>1. mtime \in Nat /\ mtime <= k2 BY <1>2, <1>6
 <2>2. ixMtime' \in [IdxContainers -> Nat] /\ DOMAIN ixFiles' = IdxContainers BY <1>7, <1>8, <2>1
 <2>3. ASSUME NEW d \in IdxContainers PROVE ixMtime'[d] <= k2 /\ IsFile(ixFiles'[d], d, k2)
  <3>1. CASE d = c BY <1>6, <1>9, <2>1, <3>1
  <3>2. CASE d # c
   <4>1. IsFile(ixFiles[d], d, k2) BY <1>2, <1>8 DEF IsFile
   <4>2. ixMtime[d] \in Nat /\ ixMtime[d] <= k BY <1>8
   <4> QED BY <1>2, <1>9, <3>2, <4>1, <4>2
  <3> QED BY <3>1, <3>2
 <2> QED BY <1>2, <1>7, <2>2, <2>3 DEF SourceOK
<1> QED BY <1>7, <1>10, <1>11 DEF SourceState

-----------------------------------------------------------------------------
(* Entries and their watermarks                                            *)

\* Every container up to its watermark: where a file still holds the record whose
\* fingerprint was committed, the entries are that record and those before it.
Marked(E, water, fp, c, F) ==
  water[c] \in DOMAIN F /\ F[water[c]] = fp[c] => Of(E, c) = {F[o] : o \in 1..water[c]}

\* No entry of a container without a mark, and every mark is that of a record.
MarksOK(E, water, fp, clock) ==
  /\ DOMAIN water \subseteq IdxContainers /\ DOMAIN fp = DOMAIN water
  /\ \A c \in DOMAIN water : water[c] \in Nat \ {0} /\ \E g \in 0..clock : fp[c] = <<c, water[c], g>>
  /\ \A r \in E : r[1] \in DOMAIN water

Indexed(E, water, fp, files, clock) ==
  /\ MarksOK(E, water, fp, clock)
  /\ \A c \in DOMAIN water : Marked(E, water, fp, c, files[c])

\* The entries of each container in scope that was last written by t are its records.
Faithful(E, floor, t, files, mtime) ==
  \A c \in IdxContainers : mtime[c] # 0 /\ floor <= mtime[c] /\ mtime[c] <= t => Of(E, c) = Content(files[c])

\* No entry is of a container that lies below the floor.
Scoped(E, floor, mtime, clock) ==
  /\ \A r \in E : r[1] \in IdxContainers /\ (mtime[r[1]] # 0 => floor <= mtime[r[1]])
  /\ E # {} => floor <= clock

\* A walk of the containers in scope: what it has read are versions of the files, and the
\* present ones where a file was last written by t.
Walked(left, seen, floor, t, files, mtime, clock) ==
  /\ left \subseteq IdxContainers /\ DOMAIN seen \subseteq IdxContainers
  /\ \A c \in DOMAIN seen : IsFile(seen[c], c, clock) /\ Agree(seen[c], files[c])
  /\ \A c \in IdxContainers :
       mtime[c] # 0 /\ floor <= mtime[c] /\ mtime[c] <= t => c \in left \/ (c \in DOMAIN seen /\ seen[c] = files[c])
  /\ \A c \in left \cup DOMAIN seen : mtime[c] # 0 => floor <= mtime[c]
  /\ left \cup DOMAIN seen # {} => floor <= clock

\* A record that is marked in a file stays marked in what becomes of the file.
LEMMA MarkedKept ==
  ASSUME NEW c \in IdxContainers, NEW files, NEW mtime, NEW clock \in Nat, NEW files2, NEW mtime2,
         Touched(c, files, mtime, clock, files2, mtime2),
         NEW E, NEW water, NEW fp, Indexed(E, water, fp, files, clock)
  PROVE  Indexed(E, water, fp, files2, clock + 1)
<1>1. \A g \in 0..clock : g \in 0..(clock + 1) /\ g # clock + 1 OBVIOUS
<1>2. MarksOK(E, water, fp, clock) /\ MarksOK(E, water, fp, clock + 1) BY <1>1 DEF Indexed, MarksOK
<1>3. ASSUME NEW d \in DOMAIN water, water[d] \in DOMAIN files2[d], files2[d][water[d]] = fp[d]
      PROVE  Of(E, d) = {files2[d][o] : o \in 1..water[d]}
 <2>1. d \in IdxContainers /\ water[d] \in Nat \ {0} /\ \E g \in 0..clock : fp[d] = <<d, water[d], g>>
   BY <1>2 DEF MarksOK
 <2>2. water[d] \in 1..water[d] BY <2>1
 <2>3. water[d] \in DOMAIN files[d] /\ \A p \in 1..water[d] : files2[d][p] = files[d][p]
  <3>1. CASE d # c BY <1>3, <2>1, <3>1 DEF Touched
  <3>2. CASE d = c
   <4>1. files2[c][water[d]] # <<c, water[d], clock + 1>> BY <1>1, <1>3, <2>1, <3>2
   <4> QED BY <1>3, <3>2, <4>1 DEF Touched
  <3> QED BY <3>1, <3>2
 <2>4. files[d][water[d]] = fp[d] BY <1>3, <2>2, <2>3
 <2>5. Of(E, d) = {files[d][o] : o \in 1..water[d]} BY <2>3, <2>4 DEF Indexed, Marked
 <2> QED BY <2>3, <2>5
<1> QED BY <1>2, <1>3 DEF Indexed, Marked

\* Entries stay faithful to what was written by t and in scope: a change is later.
LEMMA EntriesKept ==
  ASSUME NEW c \in IdxContainers, NEW files, NEW mtime, NEW clock, SourceOK(files, mtime, clock),
         NEW files2, NEW mtime2, Touched(c, files, mtime, clock, files2, mtime2),
         NEW E, NEW floor \in Nat, NEW t \in Nat, t <= clock
  PROVE  /\ Faithful(E, floor, t, files, mtime) => Faithful(E, floor, t, files2, mtime2)
         /\ Scoped(E, floor, mtime, clock) => Scoped(E, floor, mtime2, clock + 1)
<1>1. clock \in Nat /\ \A d \in IdxContainers : mtime[d] \in Nat /\ mtime[d] <= clock BY DEF SourceOK
<1>2. ~(clock + 1 <= t) /\ \A f \in Nat : f <= clock => f <= clock + 1 BY <1>1
<1>3. ASSUME Faithful(E, floor, t, files, mtime) PROVE Faithful(E, floor, t, files2, mtime2)
 <2> SUFFICES ASSUME NEW d \in IdxContainers, mtime2[d] # 0, floor <= mtime2[d], mtime2[d] <= t
              PROVE  Of(E, d) = Content(files2[d]) BY DEF Faithful
 <2>1. d # c BY <1>2 DEF Touched
 <2>2. files2[d] = files[d] /\ mtime2[d] = mtime[d] BY <2>1 DEF Touched
 <2> QED BY <1>3, <2>2 DEF Faithful
<1>4. ASSUME Scoped(E, floor, mtime, clock) PROVE Scoped(E, floor, mtime2, clock + 1)
 <2>1. ASSUME NEW r \in E PROVE r[1] \in IdxContainers /\ (mtime2[r[1]] # 0 => floor <= mtime2[r[1]])
  <3>1. r[1] \in IdxContainers /\ (mtime[r[1]] # 0 => floor <= mtime[r[1]]) /\ floor <= clock + 1
    BY <1>2, <1>4 DEF Scoped
  <3>2. CASE r[1] = c BY <3>1, <3>2 DEF Touched
  <3>3. CASE r[1] # c BY <3>1, <3>3 DEF Touched
  <3> QED BY <3>2, <3>3
 <2>2. E # {} => floor <= clock + 1 BY <1>2, <1>4 DEF Scoped
 <2> QED BY <2>1, <2>2 DEF Scoped
<1> QED BY <1>3, <1>4

\* So does a walk.
LEMMA WalkKept ==
  ASSUME NEW c \in IdxContainers, NEW files, NEW mtime, NEW clock, SourceOK(files, mtime, clock),
         NEW files2, NEW mtime2, Touched(c, files, mtime, clock, files2, mtime2),
         NEW left, NEW seen, NEW floor \in Nat, NEW t \in Nat, t <= clock,
         Walked(left, seen, floor, t, files, mtime, clock)
  PROVE  Walked(left, seen, floor, t, files2, mtime2, clock + 1)
<1>1. clock \in Nat /\ \A d \in IdxContainers : mtime[d] \in Nat /\ mtime[d] <= clock BY DEF SourceOK
<1>2. ~(clock + 1 <= t) /\ \A f \in Nat : f <= clock => f <= clock + 1 BY <1>1
<1>3. left \subseteq IdxContainers /\ DOMAIN seen \subseteq IdxContainers BY DEF Walked
<1>4. ASSUME NEW d \in DOMAIN seen PROVE IsFile(seen[d], d, clock + 1) /\ Agree(seen[d], files2[d])
 <2>1. d \in IdxContainers /\ IsFile(seen[d], d, clock) /\ Agree(seen[d], files[d]) BY <1>3 DEF Walked
 <2> QED BY <1>1, <2>1, FileChanges
<1>5. ASSUME NEW d \in IdxContainers, mtime2[d] # 0, floor <= mtime2[d], mtime2[d] <= t
      PROVE  d \in left \/ (d \in DOMAIN seen /\ seen[d] = files2[d])
 <2>1. d # c BY <1>2, <1>5 DEF Touched
 <2>2. files2[d] = files[d] /\ mtime2[d] = mtime[d] BY <2>1 DEF Touched
 <2> QED BY <1>5, <2>2 DEF Walked
<1>6. ASSUME NEW d \in left \cup DOMAIN seen, mtime2[d] # 0 PROVE floor <= mtime2[d]
 <2>1. (mtime[d] # 0 => floor <= mtime[d]) /\ floor <= clock + 1 /\ d \in IdxContainers BY <1>2, <1>3 DEF Walked
 <2>2. CASE d = c BY <1>6, <2>1, <2>2 DEF Touched
 <2>3. CASE d # c BY <1>6, <2>1, <2>3 DEF Touched
 <2> QED BY <2>2, <2>3
<1>7. left \cup DOMAIN seen # {} => floor <= clock + 1 BY <1>2 DEF Walked
<1> QED BY <1>3, <1>4, <1>5, <1>6, <1>7 DEF Walked

-----------------------------------------------------------------------------
(* Walks, and what is built from one                                       *)

ReadInto(seen, c, files) == [x \in DOMAIN seen \cup {c} |-> IF x = c THEN files[c] ELSE seen[x]]

\* A walk begins with the containers in scope.
LEMMA WalkBegins ==
  ASSUME NEW files, NEW mtime, NEW clock, SourceOK(files, mtime, clock), NEW floor \in Nat, NEW t,
         NEW left, left = {c \in IdxContainers : mtime[c] # 0 /\ mtime[c] >= floor},
         NEW none, DOMAIN none = {}
  PROVE  Walked(left, none, floor, t, files, mtime, clock)
<1>1. \A c \in IdxContainers : mtime[c] \in Nat /\ mtime[c] <= clock /\ clock \in Nat BY DEF SourceOK
<1>2. \A c \in left : c \in IdxContainers /\ mtime[c] # 0 /\ floor <= mtime[c] /\ floor <= clock BY <1>1
<1>3. \A c \in IdxContainers : mtime[c] # 0 /\ floor <= mtime[c] => c \in left BY <1>1
<1>4. left \cup DOMAIN none = left /\ left \subseteq IdxContainers /\ DOMAIN none \subseteq IdxContainers
      /\ \A c : c \notin DOMAIN none OBVIOUS
<1>5. left # {} => floor <= clock BY <1>2
<1>6. \A c \in left : mtime[c] # 0 => floor <= mtime[c] BY <1>2
<1> QED BY <1>3, <1>4, <1>5, <1>6 DEF Walked

LEMMA WalkReads ==
  ASSUME NEW files, NEW mtime, NEW clock, SourceOK(files, mtime, clock), NEW floor, NEW t,
         NEW left, NEW seen, Walked(left, seen, floor, t, files, mtime, clock), NEW c \in left
  PROVE  Walked(left \ {c}, ReadInto(seen, c, files), floor, t, files, mtime, clock)
<1> DEFINE seen2 == ReadInto(seen, c, files)
<1>1. c \in IdxContainers /\ IsFile(files[c], c, clock) /\ Agree(files[c], files[c]) BY AgreeSelf DEF Walked, SourceOK
<1>2. /\ DOMAIN seen2 = DOMAIN seen \cup {c} /\ seen2[c] = files[c]
      /\ \A d \in DOMAIN seen \ {c} : seen2[d] = seen[d] BY DEF ReadInto
<1> HIDE DEF seen2
<1>3. \A d \in DOMAIN seen2 : IsFile(seen2[d], d, clock) /\ Agree(seen2[d], files[d]) BY <1>1, <1>2 DEF Walked
<1>4. ASSUME NEW d \in IdxContainers, mtime[d] # 0, floor <= mtime[d], mtime[d] <= t
      PROVE  d \in left \ {c} \/ (d \in DOMAIN seen2 /\ seen2[d] = files[d])
 <2>1. d \in left \/ (d \in DOMAIN seen /\ seen[d] = files[d]) BY <1>4 DEF Walked
 <2>2. CASE d = c BY <1>2, <2>2
 <2>3. CASE d # c BY <1>2, <2>1, <2>3
 <2> QED BY <2>2, <2>3
<1>5. (left \ {c}) \cup DOMAIN seen2 = left \cup DOMAIN seen BY <1>2
<1>6. left \ {c} \subseteq IdxContainers /\ DOMAIN seen2 \subseteq IdxContainers BY <1>1, <1>2 DEF Walked
<1> QED BY <1>3, <1>4, <1>5, <1>6 DEF Walked, seen2

\* The marks of what was read: the last record of each file.
LEMMA ObservedMarks ==
  ASSUME NEW seen, DOMAIN seen \subseteq IdxContainers, NEW clock \in Nat,
         \A c \in DOMAIN seen : IsFile(seen[c], c, clock)
  PROVE  /\ DOMAIN ObservedWater(seen) = Observed(seen) /\ DOMAIN FingerprintWater(seen) = Observed(seen)
         /\ Observed(seen) = {c \in DOMAIN seen : DOMAIN seen[c] # {}}
         /\ \A c \in Observed(seen) :
              /\ ObservedWater(seen)[c] = Max(DOMAIN seen[c])
              /\ ObservedWater(seen)[c] \in Nat \ {0}
              /\ DOMAIN seen[c] = 1..ObservedWater(seen)[c]
              /\ FingerprintWater(seen)[c] = seen[c][ObservedWater(seen)[c]]
              /\ \E g \in 0..clock : FingerprintWater(seen)[c] = <<c, ObservedWater(seen)[c], g>>
<1>1. /\ DOMAIN ObservedWater(seen) = Observed(seen) /\ DOMAIN FingerprintWater(seen) = Observed(seen)
      /\ Observed(seen) = {c \in DOMAIN seen : DOMAIN seen[c] # {}} BY DEF ObservedWater, FingerprintWater, Observed
<1>2. ASSUME NEW c \in Observed(seen)
      PROVE  /\ ObservedWater(seen)[c] = Max(DOMAIN seen[c])
             /\ FingerprintWater(seen)[c] = seen[c][Max(DOMAIN seen[c])] BY DEF ObservedWater, FingerprintWater
<1>3. ASSUME NEW c \in Observed(seen)
      PROVE  /\ Max(DOMAIN seen[c]) \in Nat \ {0}
             /\ DOMAIN seen[c] = 1..Max(DOMAIN seen[c])
             /\ \E g \in 0..clock : seen[c][Max(DOMAIN seen[c])] = <<c, Max(DOMAIN seen[c]), g>>
 <2>1. c \in DOMAIN seen /\ DOMAIN seen[c] # {} /\ IsFile(seen[c], c, clock) BY <1>1
 <2> QED BY <2>1, LastRecord
<1>4. ASSUME NEW c \in Observed(seen)
      PROVE  /\ ObservedWater(seen)[c] = Max(DOMAIN seen[c])
             /\ ObservedWater(seen)[c] \in Nat \ {0}
             /\ DOMAIN seen[c] = 1..ObservedWater(seen)[c]
             /\ FingerprintWater(seen)[c] = seen[c][ObservedWater(seen)[c]]
             /\ \E g \in 0..clock : FingerprintWater(seen)[c] = <<c, ObservedWater(seen)[c], g>> BY <1>2, <1>3
<1> QED BY <1>1, <1>4

\* What a rebuild stores.
LEMMA Rebuilt ==
  ASSUME NEW files, NEW mtime, NEW clock, SourceOK(files, mtime, clock), NEW floor, NEW t,
         NEW seen, Walked({}, seen, floor, t, files, mtime, clock)
  PROVE  /\ Indexed(Records(seen), ObservedWater(seen), FingerprintWater(seen), files, clock)
         /\ Faithful(Records(seen), floor, t, files, mtime)
         /\ Scoped(Records(seen), floor, mtime, clock)
<1> DEFINE E == Records(seen)
           W == ObservedWater(seen)
           P == FingerprintWater(seen)
<1>1. clock \in Nat /\ DOMAIN seen \subseteq IdxContainers
      /\ \A c \in DOMAIN seen : IsFile(seen[c], c, clock) /\ Agree(seen[c], files[c]) BY DEF SourceOK, Walked
<1>2. /\ DOMAIN W = Observed(seen) /\ DOMAIN P = Observed(seen)
      /\ Observed(seen) = {c \in DOMAIN seen : DOMAIN seen[c] # {}}
      /\ \A c \in Observed(seen) :
              /\ W[c] \in Nat \ {0}
              /\ DOMAIN seen[c] = 1..W[c]
              /\ P[c] = seen[c][W[c]]
              /\ \E g \in 0..clock : P[c] = <<c, W[c], g>> BY <1>1, ObservedMarks
<1>3. /\ \A r \in E : r[1] \in DOMAIN seen
      /\ \A c \in DOMAIN seen : Of(E, c) = Content(seen[c])
      /\ \A c : c \notin DOMAIN seen => Of(E, c) = {} BY <1>1, RecordsOf
<1>4. \A c \in DOMAIN seen : DOMAIN seen[c] = {} => Of(E, c) = {} BY <1>3 DEF Content
<1>5. \A r \in E : r[1] \in Observed(seen) BY <1>2, <1>3, <1>4 DEF Of
<1> HIDE DEF E, W, P
<1>6. MarksOK(E, W, P, clock) BY <1>1, <1>2, <1>5 DEF MarksOK
<1>7. ASSUME NEW c \in DOMAIN W, W[c] \in DOMAIN files[c], files[c][W[c]] = P[c]
      PROVE  Of(E, c) = {files[c][o] : o \in 1..W[c]}
 <2>1. c \in DOMAIN seen /\ DOMAIN seen[c] = 1..W[c] /\ W[c] \in 1..W[c] /\ seen[c][W[c]] = P[c] BY <1>2, <1>7
 <2>2. \A p \in 1..W[c] : seen[c][p] = files[c][p] BY <1>1, <1>7, <2>1 DEF Agree
 <2>3. Of(E, c) = {seen[c][o] : o \in 1..W[c]} BY <1>3, <2>1 DEF Content
 <2> QED BY <2>2, <2>3
<1>8. Faithful(E, floor, t, files, mtime) BY <1>3 DEF Faithful, Walked
<1>9. Scoped(E, floor, mtime, clock) BY <1>1, <1>3 DEF Scoped, Walked
<1>10. Indexed(E, W, P, files, clock) BY <1>6, <1>7 DEF Indexed, Marked
<1> QED BY <1>8, <1>9, <1>10 DEF E, W, P

\* Catching up is as good as a rebuild: if the walk met no anomaly, the entries with those
\* that the filter admits, and the new marks, are what a rebuild from the same walk stores.
LEMMA FoldIsRebuild ==
  ASSUME NEW E, NEW water, NEW fp, NEW seen, NEW clock \in Nat,
         MarksOK(E, water, fp, clock), DOMAIN seen \subseteq IdxContainers,
         \A c \in DOMAIN seen : IsFile(seen[c], c, clock),
         \A c \in DOMAIN water \cap DOMAIN seen : Marked(E, water, fp, c, seen[c]),
         Rotated(water, seen) = {}, Truncated(water, seen) = {}, Rewritten(water, fp, seen) = {}
  PROVE  /\ E \cup UNION {Admitted(water, seen, c) : c \in DOMAIN seen} = Records(seen)
         /\ NewWater(water, seen) = ObservedWater(seen)
         /\ WaterFPMerge(NewWater(water, seen), ObservedWater(seen), FingerprintWater(seen), water, fp)
              = FingerprintWater(seen)
<1> DEFINE O == Observed(seen)
           W == ObservedWater(seen)
           P == FingerprintWater(seen)
<1>1. /\ DOMAIN W = O /\ DOMAIN P = O
      /\ O = {c \in DOMAIN seen : DOMAIN seen[c] # {}}
      /\ \A c \in O : /\ W[c] = Max(DOMAIN seen[c]) /\ W[c] \in Nat \ {0}
                      /\ DOMAIN seen[c] = 1..W[c] /\ P[c] = seen[c][W[c]] BY ObservedMarks
<1>2. /\ \A c \in DOMAIN water : water[c] \in Nat \ {0} /\ c \in DOMAIN fp
      /\ \A r \in E : r[1] \in DOMAIN water BY DEF MarksOK
<1>3. DOMAIN water \subseteq O BY DEF Rotated
<1>4. \A c \in DOMAIN water : water[c] <= W[c]
 <2>1. \A c \in DOMAIN water \cap O : ~(W[c] < water[c]) BY DEF Truncated
 <2> QED BY <1>1, <1>2, <1>3, <2>1
<1>5. \A c \in DOMAIN water : water[c] \in DOMAIN seen[c] /\ seen[c][water[c]] = fp[c]
  BY <1>2, <1>3 DEF Rewritten, BoundaryKept
<1>6. \A c \in DOMAIN water : c \in DOMAIN seen /\ Of(E, c) = {seen[c][o] : o \in 1..water[c]}
  BY <1>1, <1>3, <1>5 DEF Marked
<1>8. NewWater(water, seen) = W
 <2>1. DOMAIN water \cup O = O BY <1>3
 <2>2. ASSUME NEW c \in O PROVE Max(Mark(water, c) \cup Mark(W, c)) = W[c]
  <3> DEFINE S == Mark(water, c) \cup Mark(W, c)
  <3>1. S \in SUBSET (0..W[c]) /\ W[c] \in S BY <1>1, <1>2, <1>4 DEF Mark
  <3>2. W[c] \in Nat BY <1>1
  <3> HIDE DEF S
  <3>3. Max(S) \in S /\ \A y \in S : y <= Max(S) BY <3>1, <3>2, MaxMin
  <3>5. Max(S) \in 0..W[c] /\ W[c] <= Max(S) BY <3>1, <3>3
  <3> HIDE DEF W
  <3>4. Max(S) = W[c] BY <3>2, <3>5
  <3> QED BY <3>4 DEF S
 <2>3. NewWater(water, seen) = [c \in O |-> Max(Mark(water, c) \cup Mark(W, c))] BY <2>1 DEF NewWater
 <2>4. W = [c \in O |-> W[c]] BY DEF ObservedWater
 <2> HIDE DEF W, O
 <2> QED BY <2>2, <2>3, <2>4
<1>9. WaterFPMerge(W, W, P, water, fp) = P
 <2>1. {k \in DOMAIN W \cap DOMAIN W \cap DOMAIN P : W[k] = W[k]} = O BY <1>1
 <2>2. {k \in DOMAIN W \cap DOMAIN water \cap DOMAIN fp : water[k] = W[k]} \subseteq O BY <1>1
 <2>3. WaterFPMerge(W, W, P, water, fp) = [k \in O |-> P[k]] BY <2>1, <2>2 DEF WaterFPMerge
 <2>4. P = [k \in O |-> P[k]] BY DEF FingerprintWater
 <2> QED BY <2>3, <2>4
<1>10. ASSUME NEW r \in E PROVE r \in Records(seen)
 <2>1. r[1] \in DOMAIN water /\ r \in Of(E, r[1]) BY <1>2 DEF Of
 <2>2. PICK o \in 1..water[r[1]] : r = seen[r[1]][o] BY <1>6, <2>1
 <2>3. r[1] \in DOMAIN seen /\ o \in DOMAIN seen[r[1]] BY <1>1, <1>2, <1>3, <1>4, <2>1
 <2> QED BY <2>2, <2>3 DEF Records
<1>11. ASSUME NEW c \in DOMAIN seen PROVE Admitted(water, seen, c) \subseteq Records(seen) BY DEF Admitted, Records
<1>12. ASSUME NEW c \in DOMAIN seen, NEW o \in DOMAIN seen[c]
       PROVE  seen[c][o] \in E \/ seen[c][o] \in Admitted(water, seen, c)
 <2>1. CASE admit(water, c, o) BY <2>1 DEF Admitted
 <2>2. CASE ~admit(water, c, o)
  <3>1. c \in DOMAIN water /\ ~(o > water[c]) BY <2>2 DEF admit
  <3>2. o \in 1..water[c] BY <1>1, <1>2, <1>3, <3>1
  <3> QED BY <1>6, <3>1, <3>2 DEF Of
 <2> QED BY <2>1, <2>2
<1>13. E \cup UNION {Admitted(water, seen, c) : c \in DOMAIN seen} = Records(seen)
 <2>1. \A r \in Records(seen) : \E c \in DOMAIN seen : \E o \in DOMAIN seen[c] : r = seen[c][o] BY DEF Records
 <2> QED BY <1>10, <1>11, <1>12, <2>1
<1> QED BY <1>8, <1>9, <1>13

-----------------------------------------------------------------------------
(* Signatures and pages                                                    *)

\* A signature's time is that of the last container in scope.
LEMMA SignatureTime ==
  ASSUME SourceState, NEW floor \in Nat
  PROVE  /\ indexSourceSignature(floor)[1] \in Nat
         /\ indexSourceSignature(floor)[2] \in Nat
         /\ indexSourceSignature(floor)[2] <= ixClock
         /\ \A c \in InScope(floor) : ixMtime[c] <= indexSourceSignature(floor)[2]
<1>1. ixClock \in Nat /\ \A c \in IdxContainers : ixMtime[c] \in Nat /\ ixMtime[c] <= ixClock
  BY DEF SourceState, SourceOK
<1> DEFINE S == {ixMtime[c] : c \in InScope(floor)} \cup {0}
<1>2. S \in SUBSET (0..ixClock) /\ S # {} /\ \A c \in InScope(floor) : ixMtime[c] \in S BY <1>1 DEF InScope
<1>3. IsFiniteSet(InScope(floor))
 <2>1. InScope(floor) \in SUBSET IdxContainers BY DEF InScope
 <2> QED BY <2>1, SourceAssumption, FS_Subset
<1>4. Cardinality(InScope(floor)) \in Nat BY <1>3, FS_CardinalityType
<1>5. indexSourceSignature(floor)[1] = Cardinality(InScope(floor)) /\ indexSourceSignature(floor)[2] = Max(S)
  BY DEF indexSourceSignature
<1> HIDE DEF S
<1>6. Max(S) \in S /\ \A y \in S : y <= Max(S) BY <1>1, <1>2, MaxMin
<1>7. Max(S) \in Nat /\ Max(S) <= ixClock
 <2>1. Max(S) \in 0..ixClock BY <1>2, <1>6
 <2> QED BY <1>1, <2>1
<1> QED BY <1>2, <1>4, <1>5, <1>6, <1>7

\* A page holds all that is at least as new as the floor it leads to.
LEMMA PageFloor ==
  ASSUME SourceState, NEW floor \in Nat, NEW pages \in Nat \ {0}, NEW next,
         next = IF BelowFloor(floor) \subseteq Page(floor, pages) THEN 0 ELSE Min({ixMtime[c] : c \in Page(floor, pages)})
  PROVE  /\ next \in Nat /\ next <= floor
         /\ \A c \in Page(floor, pages) :
              c \in IdxContainers /\ ixMtime[c] # 0 /\ ixMtime[c] < floor /\ next <= ixMtime[c]
         /\ \A c \in IdxContainers :
              ixMtime[c] # 0 /\ ixMtime[c] < floor /\ next <= ixMtime[c] => c \in Page(floor, pages)
<1> DEFINE mtime == ixMtime
           clock == ixClock
           below == BelowFloor(floor)
           page == Page(floor, pages)
<1>5. clock \in Nat /\ \A c \in IdxContainers : mtime[c] \in Nat /\ mtime[c] <= clock BY DEF SourceState, SourceOK
<1>6. below = {c \in IdxContainers : mtime[c] # 0 /\ mtime[c] < floor} BY DEF BelowFloor, Exists
<1>7. page = {c \in below : Cardinality({d \in below : mtime[d] > mtime[c]}) < pages} BY DEF Page
<1>8. next = IF below \subseteq page THEN 0 ELSE Min({mtime[c] : c \in page}) OBVIOUS
<1> HIDE DEF mtime, clock, below, page
<1> DEFINE Above(c) == {d \in below : mtime[d] > mtime[c]}
<1>1. IsFiniteSet(below) /\ below \subseteq IdxContainers BY <1>6, SourceAssumption, FS_Subset
<1>2. ASSUME NEW c \in below PROVE IsFiniteSet(Above(c)) /\ Cardinality(Above(c)) \in Nat
 <2>1. Above(c) \in SUBSET below OBVIOUS
 <2> QED BY <1>1, <2>1, FS_Subset, FS_CardinalityType
<1>9. \A c \in page : c \in below /\ Cardinality(Above(c)) < pages BY <1>7
<1> SUFFICES /\ next \in Nat /\ next <= floor
             /\ \A c \in page : c \in IdxContainers /\ mtime[c] # 0 /\ mtime[c] < floor /\ next <= mtime[c]
             /\ \A c \in IdxContainers : mtime[c] # 0 /\ mtime[c] < floor /\ next <= mtime[c] => c \in page
  BY DEF mtime, page
<1>3. CASE below \subseteq page
 <2>1. next = 0 /\ next <= floor BY <1>3, <1>8
 <2>2. \A c \in below : c \in page /\ mtime[c] \in Nat BY <1>1, <1>3, <1>5
 <2>3. \A c \in page : c \in IdxContainers /\ mtime[c] # 0 /\ mtime[c] < floor /\ mtime[c] \in Nat BY <1>5, <1>6, <1>9
 <2>4. \A c \in page : next <= mtime[c] BY <2>1, <2>3
 <2>5. \A c \in IdxContainers : mtime[c] # 0 /\ mtime[c] < floor => c \in page BY <1>6, <2>2
 <2> QED BY <2>1, <2>3, <2>4, <2>5
<1>4. CASE ~(below \subseteq page)
 <2>1. below # {} BY <1>4
 <2> DEFINE T == {mtime[c] : c \in below}
            S == {mtime[c] : c \in page}
 <2>0. \A c \in below : mtime[c] \in 0..clock BY <1>1, <1>5
 <2>2. T \in SUBSET (0..clock) /\ T # {} /\ S \subseteq T BY <1>9, <2>0, <2>1
 <2>3. Max(T) \in T /\ \A y \in T : y <= Max(T) BY <1>5, <2>2, MaxMin
 <2>4. PICK top \in below : \A d \in below : mtime[d] <= mtime[top] BY <2>3
 <2>5. Above(top) = {} BY <1>1, <1>5, <2>4
 <2>6. top \in page BY <1>7, <2>5, FS_EmptySet
 <2>7. S \in SUBSET (0..clock) /\ S # {}
  <3>1. mtime[top] \in S BY <2>6
  <3> HIDE DEF S, T
  <3> QED BY <2>2, <3>1
 <2>8. Min(S) \in S /\ \A y \in S : Min(S) <= y BY <1>5, <2>7, MaxMin
 <2>12. next = Min(S) BY <1>4, <1>8
 <2>13. PICK low \in page : Min(S) = mtime[low] BY <2>8
 <2>14. \A c \in page : mtime[c] \in S OBVIOUS
 <2>9. next = mtime[low] /\ \A c \in page : mtime[low] <= mtime[c]
  <3> HIDE DEF S, T
  <3> QED BY <2>8, <2>12, <2>13, <2>14
 <2>10. ASSUME NEW c \in IdxContainers, mtime[c] # 0, mtime[c] < floor, next <= mtime[c]
        PROVE  c \in page
  <3>1. c \in below /\ low \in below BY <1>6, <1>9, <2>10
  <3>2. Above(c) \in SUBSET Above(low) BY <1>1, <1>5, <2>9, <2>10, <3>1
  <3>3. Cardinality(Above(c)) <= Cardinality(Above(low)) BY <1>2, <3>1, <3>2, FS_Subset
  <3>4. Cardinality(Above(low)) < pages BY <1>9
  <3>6. Cardinality(Above(c)) \in Nat /\ Cardinality(Above(low)) \in Nat BY <1>2, <3>1
  <3>5. Cardinality(Above(c)) < pages
   <4> HIDE DEF Above
   <4> QED BY <3>3, <3>4, <3>6
  <3> QED BY <1>7, <3>1, <3>5
 <2>11. next \in Nat /\ next <= floor
  <3>1. mtime[low] \in Nat /\ mtime[low] < floor BY <1>5, <1>6, <1>9
  <3> QED BY <2>9, <3>1
 <2> QED BY <1>6, <1>9, <2>9, <2>10, <2>11
<1> QED BY <1>3, <1>4

\* A page is stored: the entries of its containers are their files', the others' stay.
LEMMA PageStored ==
  ASSUME SourceState, NEW E, NEW water, NEW fp, Indexed(E, water, fp, ixFiles, ixClock),
         NEW seen, DOMAIN seen \subseteq IdxContainers, \A c \in DOMAIN seen : seen[c] = ixFiles[c],
         \A c \in DOMAIN seen : Of(E, c) \subseteq Content(ixFiles[c])
  PROVE  /\ Indexed(E \cup Records(seen), Over(ObservedWater(seen), water), Over(FingerprintWater(seen), fp),
                     ixFiles, ixClock)
         /\ \A c \in DOMAIN seen : Of(E \cup Records(seen), c) = Content(ixFiles[c])
         /\ \A c : c \notin DOMAIN seen => Of(E \cup Records(seen), c) = Of(E, c)
         /\ \A r \in Records(seen) : r[1] \in DOMAIN seen
<1> DEFINE e == E \cup Records(seen)
           w == Over(ObservedWater(seen), water)
           p == Over(FingerprintWater(seen), fp)
<1>1. ixClock \in Nat /\ \A c \in DOMAIN seen : IsFile(seen[c], c, ixClock) BY DEF SourceState, SourceOK
<1>2. /\ MarksOK(E, water, fp, ixClock)
      /\ \A c \in DOMAIN water : Marked(E, water, fp, c, ixFiles[c]) BY DEF Indexed
<1>3. /\ DOMAIN w = Observed(seen) \cup DOMAIN water /\ DOMAIN p = Observed(seen) \cup DOMAIN fp
      /\ \A c \in Observed(seen) : w[c] = ObservedWater(seen)[c] /\ p[c] = FingerprintWater(seen)[c]
      /\ \A c \in DOMAIN water \ Observed(seen) : w[c] = water[c]
      /\ \A c \in DOMAIN fp \ Observed(seen) : p[c] = fp[c] BY DEF ObservedWater, FingerprintWater, Over
<1>4. /\ Observed(seen) = {c \in DOMAIN seen : DOMAIN seen[c] # {}}
      /\ \A c \in Observed(seen) :
           /\ w[c] \in Nat \ {0} /\ DOMAIN seen[c] = 1..w[c]
           /\ \E g \in 0..ixClock : p[c] = <<c, w[c], g>> BY <1>1, <1>3, ObservedMarks
<1>5. /\ \A r \in Records(seen) : r[1] \in DOMAIN seen
      /\ \A c \in DOMAIN seen : Of(Records(seen), c) = Content(ixFiles[c])
      /\ \A c : c \notin DOMAIN seen => Of(Records(seen), c) = {} BY <1>1, RecordsOf
<1>6. \A c : Of(e, c) = Of(E, c) \cup Of(Records(seen), c) BY DEF Of
<1>7. /\ \A c \in DOMAIN seen : Of(e, c) = Content(ixFiles[c])
      /\ \A c : c \notin DOMAIN seen => Of(e, c) = Of(E, c) BY <1>5, <1>6
<1>8. \A r \in Records(seen) : r[1] \in Observed(seen)
 <2>1. \A c \in DOMAIN seen : DOMAIN seen[c] = {} => Content(ixFiles[c]) = {} BY DEF Content
 <2> SUFFICES ASSUME NEW r \in Records(seen) PROVE r[1] \in Observed(seen) OBVIOUS
 <2>2. r[1] \in DOMAIN seen BY <1>5
 <2>3. r \in Of(Records(seen), r[1]) BY DEF Of
 <2>4. Content(ixFiles[r[1]]) # {} BY <1>5, <2>2, <2>3
 <2>5. DOMAIN seen[r[1]] # {} BY <2>1, <2>2, <2>4
 <2> QED BY <1>4, <2>2, <2>5
<1>9. \A r \in e : r \in E \/ r \in Records(seen) OBVIOUS
<1> HIDE DEF e, w, p
<1>10. MarksOK(e, w, p, ixClock)
 <2>1. DOMAIN w \subseteq IdxContainers /\ DOMAIN p = DOMAIN w BY <1>2, <1>3, <1>4 DEF MarksOK
 <2>2. \A r \in e : r[1] \in DOMAIN w BY <1>2, <1>3, <1>8, <1>9 DEF MarksOK
 <2>3. ASSUME NEW c \in DOMAIN w PROVE w[c] \in Nat \ {0} /\ \E g \in 0..ixClock : p[c] = <<c, w[c], g>>
  <3>1. CASE c \in Observed(seen) BY <1>4, <3>1
  <3>2. CASE c \notin Observed(seen)
   <4>1. c \in DOMAIN water /\ w[c] = water[c] /\ p[c] = fp[c] BY <1>2, <1>3, <3>2 DEF MarksOK
   <4> QED BY <1>2, <4>1 DEF MarksOK
  <3> QED BY <3>1, <3>2
 <2> QED BY <2>1, <2>2, <2>3 DEF MarksOK
<1>11. ASSUME NEW c \in DOMAIN w PROVE Marked(e, w, p, c, ixFiles[c])
 <2>1. CASE c \in Observed(seen)
  <3>1. c \in DOMAIN seen /\ DOMAIN ixFiles[c] = 1..w[c] BY <1>4, <2>1
  <3>2. Of(e, c) = {ixFiles[c][o] : o \in 1..w[c]} BY <1>7, <3>1 DEF Content
  <3> QED BY <3>2 DEF Marked
 <2>2. CASE c \in DOMAIN seen /\ c \notin Observed(seen)
  <3>1. DOMAIN ixFiles[c] = {} BY <1>4, <2>2
  <3> QED BY <3>1 DEF Marked
 <2>3. CASE c \notin DOMAIN seen
  <3>1. c \in DOMAIN water /\ w[c] = water[c] /\ p[c] = fp[c] BY <1>2, <1>3, <1>4, <2>3 DEF MarksOK
  <3>2. Marked(E, water, fp, c, ixFiles[c]) /\ Of(e, c) = Of(E, c) BY <1>2, <1>7, <2>3, <3>1
  <3> QED BY <3>1, <3>2 DEF Marked
 <2> QED BY <2>1, <2>2, <2>3
<1>12. Indexed(e, w, p, ixFiles, ixClock) BY <1>10, <1>11 DEF Indexed
<1> QED BY <1>5, <1>7, <1>12 DEF e, w, p

-----------------------------------------------------------------------------
(* The index in a file: what its steps keep true                           *)

OpInv ==
  /\ siPc \in {"idle", "open", "catchup", "build", "opened", "hybrid", "scanned", "page"}
  /\ siPc # "idle" => /\ siOp.kind \in {"query", "rebuild", "backfill"} /\ siOp.pages \in Nat \ {0}
                      /\ (siOp.kind = "backfill" => ~siOp.race)
  /\ siPc \in {"hybrid", "scanned"} => siOp.kind = "query"
  /\ siPc = "page" => siOp.kind = "backfill"

IsDb(d) == DOMAIN d = {"built", "ents", "water", "fp", "floor", "sig"}

\* The file: its marks are sound, and once it is built its entries are those of its scope
\* as it was when the signature was taken, or are of containers that changed since.
DbInv ==
  /\ IsDb(siDb) /\ siDb.built \in BOOLEAN /\ siDb.floor \in Nat \cup {-1}
  /\ siDb.sig[2] \in Nat /\ siDb.sig[2] <= ixClock
  /\ Indexed(siDb.ents, siDb.water, siDb.fp, ixFiles, ixClock)
  /\ Scoped(siDb.ents, getIndexFloor, ixMtime, ixClock)
  /\ siDb.built => Faithful(siDb.ents, getIndexFloor, siDb.sig[2], ixFiles, ixMtime)

\* What an open has determined: a signature no container is newer than, but for those
\* that changed since; the file has it when the open is over.
OpenInv ==
  siPc \in {"catchup", "build", "opened", "hybrid", "scanned"} =>
    /\ siOpen = [floor |-> getIndexFloor, sig |-> siOpen.sig]
    /\ siOpen.sig[2] \in Nat /\ siOpen.sig[2] <= ixClock
    /\ \A c \in IdxContainers \ ixTouched :
         ixMtime[c] # 0 /\ getIndexFloor <= ixMtime[c] => ixMtime[c] <= siOpen.sig[2]
    /\ siOp.kind = "backfill" => siOpen.sig = indexSourceSignature(getIndexFloor)
    /\ siPc \in {"opened", "hybrid", "scanned"} => siDb.built /\ siDb.sig = siOpen.sig

\* What a walk has read, and that a catch-up may rely on the marks.
WalkInv ==
  /\ siPc \in {"catchup", "build"} =>
       Walked(siLeft, siSeen, getIndexFloor, siOpen.sig[2], ixFiles, ixMtime, ixClock)
  /\ siPc = "catchup" =>
       /\ siDb.built
       /\ \A c \in DOMAIN siDb.water \cap DOMAIN siSeen : Marked(siDb.ents, siDb.water, siDb.fp, c, siSeen[c])

\* What a query has read below the floor, and what it returns.
HybridInv ==
  siPc = "hybrid" =>
    /\ siLeft \subseteq IdxContainers /\ DOMAIN siSeen \subseteq IdxContainers
    /\ \A c \in DOMAIN siSeen : IsFile(siSeen[c], c, ixClock)
    /\ \A c \in DOMAIN siSeen \ ixTouched : siSeen[c] = ixFiles[c]
    /\ \A c \in IdxContainers \ ixTouched :
         ixMtime[c] # 0 /\ ixMtime[c] < getIndexFloor => c \in siLeft \cup DOMAIN siSeen

ScannedInv ==
  siPc = "scanned" =>
    \A c \in IdxContainers \ ixTouched : ixMtime[c] # 0 => Of(siRows, c) = Content(ixFiles[c])

\* A page: nothing changes while it is read, and it holds what the new floor lets in.
PageInv ==
  siPc = "page" =>
    /\ siDb.built /\ siDb.sig = indexSourceSignature(getIndexFloor)
    /\ siOpen = [floor |-> siOpen.floor, sig |-> siOpen.sig]
    /\ siOpen.floor \in Nat /\ siOpen.floor <= getIndexFloor
    /\ siLeft \subseteq IdxContainers /\ DOMAIN siSeen \subseteq IdxContainers
    /\ \A c \in DOMAIN siSeen : siSeen[c] = ixFiles[c]
    /\ \A c \in siLeft \cup DOMAIN siSeen :
         ixMtime[c] # 0 /\ ixMtime[c] < getIndexFloor /\ siOpen.floor <= ixMtime[c]
    /\ \A c \in IdxContainers :
         ixMtime[c] # 0 /\ ixMtime[c] < getIndexFloor /\ siOpen.floor <= ixMtime[c] => c \in siLeft \cup DOMAIN siSeen

SiInv == OpInv /\ DbInv /\ OpenInv /\ WalkInv /\ HybridInv /\ ScannedInv /\ PageInv

LEMMA FloorIsNat == ASSUME DbInv PROVE getIndexFloor \in Nat BY SinceAssumption DEF DbInv, getIndexFloor

\* Nothing of the source changed, nor the file: its part of the invariant stays.
LEMMA DbStays ==
  ASSUME DbInv, UNCHANGED siDb, UNCHANGED <<ixFiles, ixMtime, ixClock>>
  PROVE  /\ DbInv' /\ getIndexFloor' = getIndexFloor
         /\ indexSourceSignature(getIndexFloor)' = indexSourceSignature(getIndexFloor)
<1>1. getIndexFloor' = getIndexFloor BY DEF getIndexFloor
<1>2. indexSourceSignature(getIndexFloor)' = indexSourceSignature(getIndexFloor)
  BY <1>1 DEF indexSourceSignature, InScope, Exists
<1>3. DbInv' BY <1>1 DEF DbInv
<1> QED BY <1>1, <1>2, <1>3

\* A change of the source while an operation that it may overlap is under way, or none.
LEMMA SiChangeStep ==
  ASSUME SourceState, SiInv, SiSourceChange
  PROVE  SiInv'
<1> DEFINE floor == getIndexFloor
<1>1. UNCHANGED siVars /\ SourceChange /\ (siPc = "idle" \/ siOp.race) BY DEF SiSourceChange
<1>2. /\ siDb' = siDb /\ siOp' = siOp /\ siPc' = siPc /\ siOpen' = siOpen /\ siLeft' = siLeft
      /\ siSeen' = siSeen /\ siRows' = siRows BY <1>1 DEF siVars
<1>3. PICK c \in IdxContainers : /\ Touched(c, ixFiles, ixMtime, ixClock, ixFiles', ixMtime')
                                 /\ ixTouched' = ixTouched \cup {c} BY <1>1, SourceSteps
<1>4. ixClock' = ixClock + 1 /\ SourceOK(ixFiles, ixMtime, ixClock) /\ ixClock \in Nat
  BY <1>1, SourceSteps DEF SourceState, SourceOK
<1>5. getIndexFloor' = floor /\ floor \in Nat BY <1>2, FloorIsNat DEF SiInv, getIndexFloor
<1>6. \A d \in IdxContainers \ ixTouched' : d \in IdxContainers \ ixTouched /\ ixFiles'[d] = ixFiles[d] /\ ixMtime'[d] = ixMtime[d]
  BY <1>3 DEF Touched
<1>7. siPc # "idle" => siOp.kind # "backfill" /\ siPc # "page" BY <1>1 DEF SiInv, OpInv
<1> HIDE DEF floor
<1>8. DbInv'
 <2>1. /\ siDb.sig[2] \in Nat /\ siDb.sig[2] <= ixClock /\ siDb.sig[2] <= ixClock + 1
       /\ Indexed(siDb.ents, siDb.water, siDb.fp, ixFiles, ixClock)
       /\ Scoped(siDb.ents, floor, ixMtime, ixClock)
       /\ (siDb.built => Faithful(siDb.ents, floor, siDb.sig[2], ixFiles, ixMtime)) BY <1>4 DEF SiInv, DbInv, floor
 <2>2. Indexed(siDb.ents, siDb.water, siDb.fp, ixFiles', ixClock + 1) BY <1>3, <1>4, <2>1, MarkedKept
 <2>3. /\ siDb.built => Faithful(siDb.ents, floor, siDb.sig[2], ixFiles', ixMtime')
       /\ Scoped(siDb.ents, floor, ixMtime', ixClock + 1) BY <1>3, <1>4, <1>5, <2>1, EntriesKept
 <2>4. IsDb(siDb) /\ siDb.built \in BOOLEAN /\ siDb.floor \in Nat \cup {-1} BY DEF SiInv, DbInv
 <2> QED BY <1>2, <1>4, <1>5, <2>1, <2>2, <2>3, <2>4 DEF DbInv
<1>9. siPc \in {"catchup", "build"} =>
        Walked(siLeft, siSeen, floor, siOpen.sig[2], ixFiles', ixMtime', ixClock + 1)
 <2> SUFFICES ASSUME siPc \in {"catchup", "build"}
              PROVE  Walked(siLeft, siSeen, floor, siOpen.sig[2], ixFiles', ixMtime', ixClock + 1) OBVIOUS
 <2>1. /\ Walked(siLeft, siSeen, floor, siOpen.sig[2], ixFiles, ixMtime, ixClock)
       /\ siOpen.sig[2] \in Nat /\ siOpen.sig[2] <= ixClock BY DEF SiInv, WalkInv, OpenInv, floor
 <2> QED BY <1>3, <1>4, <1>5, <2>1, WalkKept
<1>10. WalkInv' BY <1>2, <1>4, <1>5, <1>9 DEF WalkInv, SiInv
<1>11. OpInv' BY <1>2 DEF OpInv, SiInv
<1>12. OpenInv'
 <2> SUFFICES ASSUME siPc \in {"catchup", "build", "opened", "hybrid", "scanned"} PROVE OpenInv' BY <1>2 DEF OpenInv
 <2>1. /\ siOpen = [floor |-> floor, sig |-> siOpen.sig]
       /\ siOpen.sig[2] \in Nat /\ siOpen.sig[2] <= ixClock
       /\ \A d \in IdxContainers \ ixTouched :
            ixMtime[d] # 0 /\ floor <= ixMtime[d] => ixMtime[d] <= siOpen.sig[2]
       /\ siPc \in {"opened", "hybrid", "scanned"} => siDb.built /\ siDb.sig = siOpen.sig BY DEF SiInv, OpenInv, floor
 <2>2. siOpen.sig[2] <= ixClock' BY <1>4, <2>1
 <2>3. \A d \in IdxContainers \ ixTouched' :
            ixMtime'[d] # 0 /\ floor <= ixMtime'[d] => ixMtime'[d] <= siOpen.sig[2] BY <1>6, <2>1
 <2>4. siOp'.kind # "backfill" BY <1>2, <1>7
 <2> QED BY <1>2, <1>5, <2>1, <2>2, <2>3, <2>4 DEF OpenInv
<1>13. HybridInv'
 <2> SUFFICES ASSUME siPc = "hybrid" PROVE HybridInv' BY <1>2 DEF HybridInv
 <2>1. /\ siLeft \subseteq IdxContainers /\ DOMAIN siSeen \subseteq IdxContainers
       /\ \A d \in DOMAIN siSeen : IsFile(siSeen[d], d, ixClock)
       /\ \A d \in DOMAIN siSeen \ ixTouched : siSeen[d] = ixFiles[d]
       /\ \A d \in IdxContainers \ ixTouched :
            ixMtime[d] # 0 /\ ixMtime[d] < floor => d \in siLeft \cup DOMAIN siSeen BY DEF SiInv, HybridInv, floor
 <2>2. \A g \in 0..ixClock : g \in 0..(ixClock + 1) BY <1>4
 <2>3. \A d \in DOMAIN siSeen : IsFile(siSeen[d], d, ixClock + 1) BY <2>1, <2>2 DEF IsFile
 <2>4. \A d \in DOMAIN siSeen \ ixTouched' : siSeen[d] = ixFiles'[d] BY <1>6, <2>1
 <2>5. \A d \in IdxContainers \ ixTouched' :
            ixMtime'[d] # 0 /\ ixMtime'[d] < floor => d \in siLeft \cup DOMAIN siSeen BY <1>6, <2>1
 <2> QED BY <1>2, <1>4, <1>5, <2>1, <2>3, <2>4, <2>5 DEF HybridInv
<1>14. ScannedInv' BY <1>2, <1>6 DEF SiInv, ScannedInv
<1>15. PageInv' BY <1>2, <1>7 DEF PageInv
<1> QED BY <1>8, <1>10, <1>11, <1>12, <1>13, <1>14, <1>15 DEF SiInv

\* A new operation, and what is determined when it opens the index.
LEMMA SiBeginStep ==
  ASSUME SourceState, SiInv, NEW ops, SiOpsOK(ops), SiBegin(ops)
  PROVE  SiInv'
<1>1. siPc' = "open" /\ siOp' \in ops /\ UNCHANGED <<siDb, ixFiles, ixMtime, ixClock>> BY DEF SiBegin
<1>2. DbInv' BY <1>1, DbStays DEF SiInv
<1>3. OpInv' BY <1>1 DEF OpInv, SiOpsOK
<1> QED BY <1>1, <1>2, <1>3 DEF SiInv, OpenInv, WalkInv, HybridInv, ScannedInv, PageInv

LEMMA SiOpenStep ==
  ASSUME SourceState, SiInv, SiOpen
  PROVE  SiInv'
<1> DEFINE floor == getIndexFloor
           sig == indexSourceSignature(floor)
<1>1. /\ siPc = "open" /\ siOpen' = [floor |-> floor, sig |-> sig]
      /\ UNCHANGED <<siDb, siOp, ixFiles, ixMtime, ixClock, ixTouched>>
      /\ \/ siDb.built /\ siDb.sig = sig /\ siPc' = "opened"
         \/ siPc' = "catchup" /\ siDb.built /\ Walk(InScope(floor))
         \/ siPc' = "build" /\ Walk(InScope(floor)) BY DEF SiOpen, sourceVars
<1>2. DbInv' /\ getIndexFloor' = floor /\ indexSourceSignature(getIndexFloor)' = sig BY <1>1, DbStays DEF SiInv
<1>3. floor \in Nat BY FloorIsNat DEF SiInv
<1>4. sig[2] \in Nat /\ sig[2] <= ixClock /\ \A c \in InScope(floor) : ixMtime[c] <= sig[2] BY <1>3, SignatureTime
<1>5. SourceOK(ixFiles, ixMtime, ixClock) BY DEF SourceState
<1>6. InScope(floor) = {c \in IdxContainers : ixMtime[c] # 0 /\ ixMtime[c] >= floor} BY DEF InScope, Exists
<1>7. \A c \in IdxContainers : ixMtime[c] # 0 /\ floor <= ixMtime[c] => ixMtime[c] <= sig[2]
 <2>1. \A c \in IdxContainers : ixMtime[c] \in Nat BY <1>5 DEF SourceOK
 <2> QED BY <1>3, <1>4, <1>6, <2>1
<1> HIDE DEF floor, sig
<1>8. OpenInv'
 <2>1. siOpen'.sig = sig BY <1>1
 <2>2. siPc' = "opened" => siDb'.built /\ siDb'.sig = sig BY <1>1
 <2>3. siPc' \notin {"hybrid", "scanned"} BY <1>1
 <2> QED BY <1>1, <1>2, <1>4, <1>7, <2>1, <2>2, <2>3 DEF OpenInv
<1>9. OpInv' BY <1>1 DEF OpInv, SiInv
<1>10. ASSUME Walk(InScope(floor)) PROVE DOMAIN siSeen' = {} /\ Walked(siLeft', siSeen', floor, sig[2], ixFiles, ixMtime, ixClock)
 <2>1. siLeft' = InScope(floor) /\ DOMAIN siSeen' = {} BY <1>10 DEF Walk, NoWater
 <2> QED BY <1>3, <1>5, <1>6, <2>1, WalkBegins
<1>11. WalkInv'
 <2>1. siOpen'.sig = sig BY <1>1
 <2>2. ASSUME siPc' \in {"catchup", "build"}
       PROVE  /\ Walked(siLeft', siSeen', floor, sig[2], ixFiles, ixMtime, ixClock) /\ DOMAIN siSeen' = {}
              /\ (siPc' = "catchup" => siDb.built) BY <1>1, <1>10, <2>2
 <2> QED BY <1>1, <1>2, <2>1, <2>2 DEF WalkInv
<1> QED BY <1>1, <1>2, <1>8, <1>9, <1>11 DEF SiInv, HybridInv, ScannedInv, PageInv

\* One container is read.
LEMMA SiReadStep ==
  ASSUME SourceState, SiInv, SiRead
  PROVE  SiInv'
<1> DEFINE floor == getIndexFloor
<1>1. PICK c \in siLeft : siLeft' = siLeft \ {c} /\ siSeen' = ReadInto(siSeen, c, ixFiles) BY DEF SiRead, ReadInto
<1>2. /\ siPc \in {"catchup", "build", "hybrid", "page"} /\ siPc' = siPc /\ siDb' = siDb /\ siOp' = siOp
      /\ siOpen' = siOpen /\ UNCHANGED <<ixFiles, ixMtime, ixClock, ixTouched>> BY DEF SiRead, sourceVars
<1>3. DbInv' /\ getIndexFloor' = floor
      /\ indexSourceSignature(getIndexFloor)' = indexSourceSignature(floor) BY <1>2, DbStays DEF SiInv
<1>5. /\ DOMAIN siSeen' = DOMAIN siSeen \cup {c} /\ siSeen'[c] = ixFiles[c]
      /\ \A d \in DOMAIN siSeen \ {c} : siSeen'[d] = siSeen[d] BY <1>1 DEF ReadInto
<1>6. OpInv' BY <1>2 DEF OpInv, SiInv
<1> HIDE DEF floor
<1>7. OpenInv' BY <1>2, <1>3 DEF SiInv, OpenInv, floor
<1>8. WalkInv'
 <2>1. SourceOK(ixFiles, ixMtime, ixClock) BY DEF SourceState
 <2>2. siPc \in {"catchup", "build"} =>
         Walked(siLeft', siSeen', floor, siOpen.sig[2], ixFiles, ixMtime, ixClock)
  <3> SUFFICES ASSUME siPc \in {"catchup", "build"}
               PROVE  Walked(siLeft', siSeen', floor, siOpen.sig[2], ixFiles, ixMtime, ixClock) OBVIOUS
  <3>1. Walked(siLeft, siSeen, floor, siOpen.sig[2], ixFiles, ixMtime, ixClock) BY DEF SiInv, WalkInv, floor
  <3> QED BY <1>1, <2>1, <3>1, WalkReads
 <2>3. siPc = "catchup" =>
         /\ siDb.built
         /\ \A d \in DOMAIN siDb.water \cap DOMAIN siSeen' : Marked(siDb.ents, siDb.water, siDb.fp, d, siSeen'[d])
  <3> SUFFICES ASSUME siPc = "catchup", NEW d \in DOMAIN siDb.water \cap DOMAIN siSeen'
               PROVE  Marked(siDb.ents, siDb.water, siDb.fp, d, siSeen'[d]) BY DEF SiInv, WalkInv
  <3>1. CASE d = c
   <4>1. Marked(siDb.ents, siDb.water, siDb.fp, d, ixFiles[d]) BY DEF SiInv, DbInv, Indexed
   <4> QED BY <1>5, <3>1, <4>1
  <3>2. CASE d # c
   <4>1. d \in DOMAIN siSeen /\ siSeen'[d] = siSeen[d] BY <1>5, <3>2
   <4> QED BY <4>1 DEF SiInv, WalkInv
  <3> QED BY <3>1, <3>2
 <2> QED BY <1>2, <1>3, <2>2, <2>3 DEF WalkInv
<1>9. HybridInv'
 <2> SUFFICES ASSUME siPc = "hybrid" PROVE HybridInv' BY <1>2 DEF HybridInv
 <2>1. /\ siLeft \subseteq IdxContainers /\ DOMAIN siSeen \subseteq IdxContainers
       /\ \A d \in DOMAIN siSeen : IsFile(siSeen[d], d, ixClock)
       /\ \A d \in DOMAIN siSeen \ ixTouched : siSeen[d] = ixFiles[d]
       /\ \A d \in IdxContainers \ ixTouched :
            ixMtime[d] # 0 /\ ixMtime[d] < floor => d \in siLeft \cup DOMAIN siSeen BY DEF SiInv, HybridInv, floor
 <2>2. c \in IdxContainers /\ IsFile(ixFiles[c], c, ixClock) BY <2>1 DEF SourceState, SourceOK
 <2>3. \A d \in DOMAIN siSeen' : IsFile(siSeen'[d], d, ixClock) BY <1>5, <2>1, <2>2
 <2>4. \A d \in DOMAIN siSeen' \ ixTouched : siSeen'[d] = ixFiles[d] BY <1>5, <2>1
 <2>5. siLeft' \cup DOMAIN siSeen' = siLeft \cup DOMAIN siSeen /\ siLeft' \subseteq IdxContainers BY <1>1, <1>5, <2>1
 <2>6. DOMAIN siSeen' \subseteq IdxContainers BY <1>5, <2>1, <2>2
 <2> QED BY <1>2, <1>3, <2>1, <2>3, <2>4, <2>5, <2>6 DEF HybridInv
<1>10. PageInv'
 <2> SUFFICES ASSUME siPc = "page" PROVE PageInv' BY <1>2 DEF PageInv
 <2>1. /\ siLeft \subseteq IdxContainers /\ DOMAIN siSeen \subseteq IdxContainers
       /\ \A d \in DOMAIN siSeen : siSeen[d] = ixFiles[d] BY DEF SiInv, PageInv
 <2>2. siLeft' \cup DOMAIN siSeen' = siLeft \cup DOMAIN siSeen /\ siLeft' \subseteq IdxContainers BY <1>1, <1>5, <2>1
 <2>3. DOMAIN siSeen' \subseteq IdxContainers /\ \A d \in DOMAIN siSeen' : siSeen'[d] = ixFiles[d] BY <1>5, <2>1
 <2>4. /\ siDb.built /\ siDb.sig = indexSourceSignature(floor)
       /\ siOpen = [floor |-> siOpen.floor, sig |-> siOpen.sig]
       /\ siOpen.floor \in Nat /\ siOpen.floor <= floor
       /\ \A d \in siLeft \cup DOMAIN siSeen :
            ixMtime[d] # 0 /\ ixMtime[d] < floor /\ siOpen.floor <= ixMtime[d]
       /\ \A d \in IdxContainers :
            ixMtime[d] # 0 /\ ixMtime[d] < floor /\ siOpen.floor <= ixMtime[d] => d \in siLeft \cup DOMAIN siSeen
   BY DEF SiInv, PageInv, floor
 <2> QED BY <1>2, <1>3, <2>2, <2>3, <2>4 DEF PageInv
<1> QED BY <1>2, <1>3, <1>6, <1>7, <1>8, <1>9, <1>10 DEF SiInv, ScannedInv

\* The transaction that ends a walk, whether it folds it in or starts anew.
LEMMA SiStored ==
  ASSUME SourceState, SiInv, siPc \in {"catchup", "build"}, siLeft = {}, siPc' = "opened",
         IsDb(siDb'), siDb'.built, siDb'.built \in BOOLEAN, siDb'.floor = siDb.floor, siDb'.sig = siOpen.sig,
         siDb'.ents = Records(siSeen), siDb'.water = ObservedWater(siSeen), siDb'.fp = FingerprintWater(siSeen),
         UNCHANGED <<siOp, siOpen, ixFiles, ixMtime, ixClock, ixTouched>>
  PROVE  SiInv'
<1> DEFINE floor == getIndexFloor
<1>1. getIndexFloor' = floor /\ floor \in Nat BY FloorIsNat DEF SiInv, getIndexFloor
<1>2. indexSourceSignature(getIndexFloor)' = indexSourceSignature(floor)
  BY <1>1 DEF indexSourceSignature, InScope, Exists
<1> HIDE DEF floor
<1>3. /\ siOpen = [floor |-> floor, sig |-> siOpen.sig]
      /\ siOpen.sig[2] \in Nat /\ siOpen.sig[2] <= ixClock
      /\ \A c \in IdxContainers \ ixTouched :
           ixMtime[c] # 0 /\ floor <= ixMtime[c] => ixMtime[c] <= siOpen.sig[2]
      /\ siOp.kind = "backfill" => siOpen.sig = indexSourceSignature(floor) BY DEF SiInv, OpenInv, floor
<1>4. Walked({}, siSeen, floor, siOpen.sig[2], ixFiles, ixMtime, ixClock) BY DEF SiInv, WalkInv, floor
<1>5. SourceOK(ixFiles, ixMtime, ixClock) BY DEF SourceState
<1>6. /\ Indexed(Records(siSeen), ObservedWater(siSeen), FingerprintWater(siSeen), ixFiles, ixClock)
      /\ Faithful(Records(siSeen), floor, siOpen.sig[2], ixFiles, ixMtime)
      /\ Scoped(Records(siSeen), floor, ixMtime, ixClock) BY <1>4, <1>5, Rebuilt
<1>7. siDb.floor \in Nat \cup {-1} BY DEF SiInv, DbInv
<1>8. DbInv' BY <1>1, <1>3, <1>6, <1>7 DEF DbInv
<1>9. OpenInv' BY <1>1, <1>2, <1>3 DEF OpenInv
<1>10. OpInv' BY DEF OpInv, SiInv
<1> QED BY <1>8, <1>9, <1>10 DEF SiInv, WalkInv, HybridInv, ScannedInv, PageInv

LEMMA SiBuildStep ==
  ASSUME SourceState, SiInv, buildIndex
  PROVE  SiInv'
<1>1. /\ siPc = "build" /\ siLeft = {} /\ siPc' = "opened"
      /\ siDb' = [[siDb EXCEPT !.built = TRUE, !.ents = Records(siSeen), !.water = ObservedWater(siSeen),
                         !.fp = FingerprintWater(siSeen)] EXCEPT !.sig = siOpen.sig]
      /\ UNCHANGED <<siOp, siOpen, ixFiles, ixMtime, ixClock, ixTouched>> BY DEF buildIndex, Commit, sourceVars
<1>2. IsDb(siDb) /\ siDb.built \in BOOLEAN BY DEF SiInv, DbInv
<1> DEFINE e == Records(siSeen)
           w == ObservedWater(siSeen)
           p == FingerprintWater(siSeen)
           s == siOpen.sig
<1>3. siDb' = [[siDb EXCEPT !.built = TRUE, !.ents = e, !.water = w, !.fp = p] EXCEPT !.sig = s] BY <1>1
<1> HIDE DEF e, w, p, s
<1>4. IsDb(siDb') /\ siDb'.built = TRUE /\ siDb'.ents = e /\ siDb'.water = w /\ siDb'.fp = p /\ siDb'.sig = s
      /\ siDb'.floor = siDb.floor BY <1>2, <1>3 DEF IsDb
<1> QED BY <1>1, <1>4, SiStored DEF e, w, p, s

LEMMA SiCatchUpStep ==
  ASSUME SourceState, SiInv, catchUpIndex
  PROVE  SiInv'
<1> DEFINE floor == getIndexFloor
<1>1. /\ siPc = "catchup" /\ siLeft = {} /\ UNCHANGED <<siOp, siOpen, ixFiles, ixMtime, ixClock, ixTouched>>
      /\ \/ Anomalies # {} /\ siPc' = "build" /\ Walk(InScope(siOpen.floor)) /\ UNCHANGED siDb
         \/ /\ Anomalies = {} /\ siPc' = "opened"
            /\ Commit([siDb EXCEPT !.ents = @ \cup UNION {Admitted(siDb.water, siSeen, c) : c \in DOMAIN siSeen},
                        !.water = NewWater(siDb.water, siSeen),
                        !.fp = WaterFPMerge(NewWater(siDb.water, siSeen), ObservedWater(siSeen),
                                            FingerprintWater(siSeen), siDb.water, siDb.fp)], siOpen.sig)
  BY DEF catchUpIndex, sourceVars
<1>2. IsDb(siDb) /\ siDb.built = TRUE BY <1>1 DEF SiInv, DbInv, WalkInv
<1>3. SourceOK(ixFiles, ixMtime, ixClock) /\ ixClock \in Nat BY DEF SourceState, SourceOK
<1>4. /\ siOpen = [floor |-> floor, sig |-> siOpen.sig] /\ siOpen.floor = floor
      /\ Walked({}, siSeen, floor, siOpen.sig[2], ixFiles, ixMtime, ixClock) BY <1>1 DEF SiInv, OpenInv, WalkInv
<1>5. CASE Anomalies # {} /\ siPc' = "build" /\ Walk(InScope(siOpen.floor)) /\ UNCHANGED siDb
 <2>1. DbInv' /\ getIndexFloor' = floor
       /\ indexSourceSignature(getIndexFloor)' = indexSourceSignature(floor) BY <1>1, <1>5, DbStays DEF SiInv
 <2>2. floor \in Nat BY FloorIsNat DEF SiInv
 <2>3. siLeft' = InScope(floor) /\ DOMAIN siSeen' = {} BY <1>4, <1>5 DEF Walk, NoWater
 <2>4. siLeft' = {c \in IdxContainers : ixMtime[c] # 0 /\ ixMtime[c] >= floor} BY <2>3 DEF InScope, Exists
 <2> HIDE DEF floor
 <2>5. Walked(siLeft', siSeen', floor, siOpen.sig[2], ixFiles, ixMtime, ixClock) BY <1>3, <2>2, <2>3, <2>4, WalkBegins
 <2>6. WalkInv' BY <1>1, <1>5, <2>1, <2>5 DEF WalkInv
 <2>7. OpInv' BY <1>1, <1>5 DEF OpInv, SiInv
 <2>8. OpenInv' BY <1>1, <1>5, <2>1 DEF OpenInv, SiInv, floor
 <2> QED BY <1>5, <2>1, <2>6, <2>7, <2>8 DEF SiInv, HybridInv, ScannedInv, PageInv
<1>6. CASE /\ Anomalies = {} /\ siPc' = "opened"
           /\ Commit([siDb EXCEPT !.ents = @ \cup UNION {Admitted(siDb.water, siSeen, c) : c \in DOMAIN siSeen},
                        !.water = NewWater(siDb.water, siSeen),
                        !.fp = WaterFPMerge(NewWater(siDb.water, siSeen), ObservedWater(siSeen),
                                            FingerprintWater(siSeen), siDb.water, siDb.fp)], siOpen.sig)
 <2> DEFINE e == siDb.ents \cup UNION {Admitted(siDb.water, siSeen, c) : c \in DOMAIN siSeen}
            w == NewWater(siDb.water, siSeen)
            p == WaterFPMerge(NewWater(siDb.water, siSeen), ObservedWater(siSeen),
                              FingerprintWater(siSeen), siDb.water, siDb.fp)
            s == siOpen.sig
 <2>1. siDb' = [[siDb EXCEPT !.ents = e, !.water = w, !.fp = p] EXCEPT !.sig = s] BY <1>6 DEF Commit
 <2>2. e = Records(siSeen) /\ w = ObservedWater(siSeen) /\ p = FingerprintWater(siSeen)
  <3>1. Rotated(siDb.water, siSeen) = {} /\ Truncated(siDb.water, siSeen) = {}
        /\ Rewritten(siDb.water, siDb.fp, siSeen) = {} BY <1>6 DEF Anomalies
  <3>2. MarksOK(siDb.ents, siDb.water, siDb.fp, ixClock) BY DEF SiInv, DbInv, Indexed
  <3>3. DOMAIN siSeen \subseteq IdxContainers /\ \A c \in DOMAIN siSeen : IsFile(siSeen[c], c, ixClock)
    BY <1>4 DEF Walked
  <3>4. \A c \in DOMAIN siDb.water \cap DOMAIN siSeen : Marked(siDb.ents, siDb.water, siDb.fp, c, siSeen[c])
    BY <1>1 DEF SiInv, WalkInv
  <3> QED BY <1>3, <3>1, <3>2, <3>3, <3>4, FoldIsRebuild
 <2> HIDE DEF e, w, p, s
 <2>3. IsDb(siDb') /\ siDb'.built = TRUE /\ siDb'.ents = e /\ siDb'.water = w /\ siDb'.fp = p /\ siDb'.sig = s
       /\ siDb'.floor = siDb.floor BY <1>2, <2>1 DEF IsDb
 <2>4. siDb'.built /\ siDb'.built \in BOOLEAN BY <2>3
 <2> QED BY <1>1, <1>6, <2>2, <2>3, <2>4, SiStored DEF s
<1> QED BY <1>1, <1>5, <1>6

\* What follows an open.
LEMMA SiOpenedStep ==
  ASSUME SourceState, SiInv, SiOpened
  PROVE  SiInv'
<1> DEFINE floor == getIndexFloor
<1>1. siPc = "opened" /\ UNCHANGED <<siDb, siOp, ixFiles, ixMtime, ixClock, ixTouched>> BY DEF SiOpened, sourceVars
<1>2. DbInv' /\ getIndexFloor' = floor
      /\ indexSourceSignature(getIndexFloor)' = indexSourceSignature(floor) BY <1>1, DbStays DEF SiInv
<1>3. floor \in Nat BY FloorIsNat DEF SiInv
<1>4. /\ siOpen = [floor |-> floor, sig |-> siOpen.sig] /\ siOpen.floor = floor
      /\ siOp.kind = "backfill" => siOpen.sig = indexSourceSignature(floor)
      /\ siDb.built /\ siDb.sig = siOpen.sig BY <1>1 DEF SiInv, OpenInv
<1>6. CASE siPc' = "idle"
 <2>1. OpInv' BY <1>6 DEF OpInv
 <2> QED BY <1>2, <1>6, <2>1 DEF SiInv, OpenInv, WalkInv, HybridInv, ScannedInv, PageInv
<1>7. CASE siOp.kind = "query" /\ siPc' = "hybrid" /\ Walk(BelowFloor(siOpen.floor)) /\ UNCHANGED siOpen
 <2>1. OpInv' BY <1>1, <1>7 DEF OpInv, SiInv
 <2>2. OpenInv' BY <1>1, <1>2, <1>4, <1>7 DEF OpenInv, SiInv
 <2>3. HybridInv'
  <3>1. siLeft' = BelowFloor(floor) /\ DOMAIN siSeen' = {} BY <1>4, <1>7 DEF Walk, NoWater
  <3>2. siLeft' = {c \in IdxContainers : ixMtime[c] # 0 /\ ixMtime[c] < floor} BY <3>1 DEF BelowFloor, Exists
  <3> HIDE DEF floor
  <3> QED BY <1>1, <1>2, <3>1, <3>2 DEF HybridInv
 <2> QED BY <1>2, <1>7, <2>1, <2>2, <2>3 DEF SiInv, WalkInv, ScannedInv, PageInv
<1>8. CASE /\ siOp.kind = "backfill" /\ siPc' = "page"
           /\ Walk(Page(floor, siOp.pages))
           /\ siOpen' = [siOpen EXCEPT !.floor = NewFloor(Page(floor, siOp.pages))]
 <2> DEFINE page == Page(floor, siOp.pages)
            next == NewFloor(page)
 <2>1. next = IF BelowFloor(floor) \subseteq page THEN 0 ELSE Min({ixMtime[c] : c \in page}) BY DEF NewFloor
 <2>4. siOp.pages \in Nat \ {0} BY <1>1 DEF SiInv, OpInv
 <2>5. siOpen' = [floor |-> next, sig |-> siOpen.sig] BY <1>4, <1>8
 <2>6. siLeft' = page /\ DOMAIN siSeen' = {} BY <1>8 DEF Walk, NoWater
 <2> HIDE DEF floor, next
 <2>7. /\ next \in Nat /\ next <= floor
       /\ \A c \in page : c \in IdxContainers /\ ixMtime[c] # 0 /\ ixMtime[c] < floor /\ next <= ixMtime[c]
       /\ \A c \in IdxContainers : ixMtime[c] # 0 /\ ixMtime[c] < floor /\ next <= ixMtime[c] => c \in page
   BY <1>3, <2>1, <2>4, PageFloor
 <2> HIDE DEF page
 <2>8. PageInv' BY <1>1, <1>2, <1>4, <1>8, <2>5, <2>6, <2>7 DEF PageInv
 <2>9. OpInv' BY <1>1, <1>8 DEF OpInv, SiInv
 <2> QED BY <1>2, <1>8, <2>8, <2>9 DEF SiInv, OpenInv, WalkInv, HybridInv, ScannedInv
<1> QED BY <1>6, <1>7, <1>8 DEF SiOpened

\* The page is stored with the floor and the signature it leads to.
LEMMA SiBackfillStep ==
  ASSUME SourceState, SiInv, backfillSI
  PROVE  SiInv'
<1> DEFINE floor == getIndexFloor
           next == siOpen.floor
           sig == indexSourceSignature(next)
           e == siDb.ents \cup Records(siSeen)
           w == Over(ObservedWater(siSeen), siDb.water)
           p == Over(FingerprintWater(siSeen), siDb.fp)
<1>1. /\ siPc = "page" /\ siLeft = {} /\ siPc' = "idle" /\ UNCHANGED <<ixFiles, ixMtime, ixClock>>
      /\ siDb' = [[siDb EXCEPT !.ents = e, !.water = w, !.fp = p, !.floor = next] EXCEPT !.sig = sig]
  BY DEF backfillSI, Commit, sourceVars
<1>2. /\ siDb.built /\ siDb.sig = indexSourceSignature(floor)
      /\ next \in Nat /\ next <= floor
      /\ DOMAIN siSeen \subseteq IdxContainers
      /\ \A c \in DOMAIN siSeen : siSeen[c] = ixFiles[c]
      /\ \A c \in DOMAIN siSeen : ixMtime[c] # 0 /\ ixMtime[c] < floor /\ next <= ixMtime[c]
      /\ \A c \in IdxContainers :
           ixMtime[c] # 0 /\ ixMtime[c] < floor /\ next <= ixMtime[c] => c \in DOMAIN siSeen BY <1>1 DEF SiInv, PageInv
<1>3. /\ IsDb(siDb) /\ siDb.built = TRUE
      /\ MarksOK(siDb.ents, siDb.water, siDb.fp, ixClock)
      /\ \A c \in DOMAIN siDb.water : Marked(siDb.ents, siDb.water, siDb.fp, c, ixFiles[c])
      /\ Scoped(siDb.ents, floor, ixMtime, ixClock)
      /\ Faithful(siDb.ents, floor, siDb.sig[2], ixFiles, ixMtime) BY <1>2 DEF SiInv, DbInv, Indexed
<1>4. floor \in Nat BY FloorIsNat DEF SiInv
<1>5. /\ \A c \in IdxContainers : ixMtime[c] \in Nat /\ ixMtime[c] <= ixClock /\ IsFile(ixFiles[c], c, ixClock)
      /\ ixClock \in Nat BY DEF SourceState, SourceOK
<1>6. sig[2] \in Nat /\ sig[2] <= ixClock BY <1>2, SignatureTime
<1>7. \A c \in IdxContainers : ixMtime[c] # 0 /\ floor <= ixMtime[c] => ixMtime[c] <= siDb.sig[2]
 <2>1. \A c \in InScope(floor) : ixMtime[c] <= siDb.sig[2] BY <1>2, <1>4, SignatureTime
 <2> QED BY <1>4, <1>5, <2>1 DEF InScope, Exists
<1>8. /\ Indexed(e, w, p, ixFiles, ixClock)
      /\ \A c \in DOMAIN siSeen : Of(e, c) = Content(ixFiles[c])
      /\ \A c : c \notin DOMAIN siSeen => Of(e, c) = Of(siDb.ents, c)
      /\ \A r \in Records(siSeen) : r[1] \in DOMAIN siSeen
 <2>1. \A c \in DOMAIN siSeen : ~(floor <= ixMtime[c]) /\ ixMtime[c] # 0 BY <1>2, <1>4, <1>5
 <2>2. \A c \in DOMAIN siSeen : Of(siDb.ents, c) \subseteq Content(ixFiles[c]) BY <1>3, <2>1 DEF Scoped, Of
 <2>3. Indexed(siDb.ents, siDb.water, siDb.fp, ixFiles, ixClock) BY <1>3 DEF Indexed
 <2> QED BY <1>2, <2>2, <2>3, PageStored
<1>9. IsDb(siDb') /\ siDb'.built = TRUE /\ siDb'.ents = e /\ siDb'.water = w /\ siDb'.fp = p /\ siDb'.sig = sig
       /\ siDb'.floor = next
 <2> HIDE DEF e, w, p, sig, next
 <2> QED BY <1>1, <1>3 DEF IsDb
<1>10. getIndexFloor' = next
 <2>1. next # -1 BY <1>2
 <2> QED BY <1>9, <2>1 DEF getIndexFloor
<1>11. \A r \in e : r \in siDb.ents \/ r \in Records(siSeen) OBVIOUS
<1> HIDE DEF e, w, p, floor, next, sig
<1>12. Scoped(e, next, ixMtime, ixClock)
 <2>1. ASSUME NEW r \in e PROVE r[1] \in IdxContainers /\ (ixMtime[r[1]] # 0 => next <= ixMtime[r[1]]) /\ next <= ixClock
  <3>1. CASE r \in siDb.ents
   <4>1. r[1] \in IdxContainers /\ (ixMtime[r[1]] # 0 => floor <= ixMtime[r[1]]) /\ floor <= ixClock
     BY <1>3, <3>1 DEF Scoped
   <4>2. ixMtime[r[1]] \in Nat BY <1>5, <4>1
   <4> QED BY <1>2, <1>4, <1>5, <4>1, <4>2
  <3>2. CASE r \in Records(siSeen)
   <4>1. r[1] \in DOMAIN siSeen BY <1>8, <3>2
   <4>2. r[1] \in IdxContainers /\ next <= ixMtime[r[1]] /\ ixMtime[r[1]] \in Nat /\ ixMtime[r[1]] <= ixClock
     BY <1>2, <1>5, <4>1
   <4> QED BY <1>2, <1>5, <4>2
  <3> QED BY <1>11, <3>1, <3>2
 <2> QED BY <2>1 DEF Scoped
<1>13. Faithful(e, next, sig[2], ixFiles, ixMtime)
 <2> SUFFICES ASSUME NEW c \in IdxContainers, ixMtime[c] # 0, next <= ixMtime[c]
              PROVE  Of(e, c) = Content(ixFiles[c]) BY DEF Faithful
 <2>1. CASE c \in DOMAIN siSeen BY <1>8, <2>1
 <2>2. CASE c \notin DOMAIN siSeen
  <3>1. ~(ixMtime[c] < floor) BY <1>2, <2>2
  <3>2. floor <= ixMtime[c] BY <1>4, <1>5, <3>1
  <3>3. Of(siDb.ents, c) = Content(ixFiles[c]) BY <1>3, <1>7, <3>2 DEF Faithful
  <3> QED BY <1>8, <2>2, <3>3
 <2> QED BY <2>1, <2>2
<1>14. DbInv' BY <1>1, <1>2, <1>6, <1>8, <1>9, <1>10, <1>12, <1>13 DEF DbInv
<1>15. OpInv' BY <1>1 DEF OpInv
<1> QED BY <1>1, <1>14, <1>15 DEF SiInv, OpenInv, WalkInv, HybridInv, ScannedInv, PageInv

\* What the query returns of a container that nobody touched: of one in scope by the
\* entries, of one below the floor by what was read.
LEMMA SiScanStep ==
  ASSUME SourceState, SiInv, SiScan
  PROVE  SiInv'
<1> DEFINE floor == getIndexFloor
<1>1. /\ siPc = "hybrid" /\ siLeft = {} /\ siPc' = "scanned" /\ siRows' = siDb.ents \cup Records(siSeen)
      /\ UNCHANGED <<siDb, siOp, siOpen, ixFiles, ixMtime, ixClock, ixTouched>> BY DEF SiScan, sourceVars
<1>2. DbInv' /\ getIndexFloor' = floor
      /\ indexSourceSignature(getIndexFloor)' = indexSourceSignature(floor) BY <1>1, DbStays DEF SiInv
<1>3. floor \in Nat /\ \A c \in IdxContainers : ixMtime[c] \in Nat BY FloorIsNat DEF SiInv, SourceState, SourceOK
<1>4. OpInv' /\ OpenInv' BY <1>1, <1>2 DEF OpInv, OpenInv, SiInv
<1>5. ASSUME NEW c \in IdxContainers \ ixTouched, ixMtime[c] # 0 PROVE Of(siRows', c) = Content(ixFiles[c])
 <2>1. \A d \in DOMAIN siSeen : IsFile(siSeen[d], d, ixClock) BY <1>1 DEF SiInv, HybridInv
 <2>2. /\ c \in DOMAIN siSeen => Of(Records(siSeen), c) = Content(siSeen[c])
       /\ c \notin DOMAIN siSeen => Of(Records(siSeen), c) = {} BY <2>1, RecordsOf
 <2>3. c \in DOMAIN siSeen => siSeen[c] = ixFiles[c] BY <1>1 DEF SiInv, HybridInv
 <2>4. Of(siRows', c) = Of(siDb.ents, c) \cup Of(Records(siSeen), c) BY <1>1 DEF Of
 <2>5. CASE floor <= ixMtime[c]
  <3>1. ixMtime[c] <= siDb.sig[2] /\ siDb.built BY <1>1, <1>5, <2>5 DEF SiInv, OpenInv
  <3>2. Of(siDb.ents, c) = Content(ixFiles[c]) BY <1>5, <2>5, <3>1 DEF SiInv, DbInv, Faithful
  <3> QED BY <2>2, <2>3, <2>4, <3>2
 <2>6. CASE ~(floor <= ixMtime[c])
  <3>1. ixMtime[c] < floor BY <1>3, <2>6
  <3>2. c \in DOMAIN siSeen BY <1>1, <1>5, <3>1 DEF SiInv, HybridInv
  <3>3. Of(siDb.ents, c) = {} BY <1>5, <2>6 DEF SiInv, DbInv, Scoped, Of
  <3> QED BY <2>2, <2>3, <2>4, <3>2, <3>3
 <2> QED BY <2>5, <2>6
<1>6. ScannedInv' BY <1>1, <1>5 DEF ScannedInv
<1> QED BY <1>1, <1>2, <1>4, <1>6 DEF SiInv, WalkInv, HybridInv, PageInv

\* The operation ends, or dies: the file is as it was.
LEMMA SiIdleStep ==
  ASSUME SourceState, SiInv, SiEnd \/ SiCrash
  PROVE  SiInv'
<1>1. siPc' = "idle" /\ UNCHANGED <<siDb, ixFiles, ixMtime, ixClock>> BY DEF SiEnd, SiCrash, sourceVars
<1>2. DbInv' BY <1>1, DbStays DEF SiInv
<1>3. OpInv' BY <1>1 DEF OpInv
<1> QED BY <1>1, <1>2, <1>3 DEF SiInv, OpenInv, WalkInv, HybridInv, ScannedInv, PageInv

\* What a step of it does to the source: it changes it or leaves it as it is.
LEMMA SourceKept ==
  ASSUME SourceState, UNCHANGED <<ixFiles, ixMtime, ixClock>>, ixTouched' \in {ixTouched, {}}
  PROVE  SourceState' BY DEF SourceState

LEMMA SourceBegins ==
  ASSUME NEW lens \in SUBSET Nat, SourceInit(lens)
  PROVE  SourceState
<1>1. Cardinality(IdxContainers) \in Nat BY SourceAssumption, FS_CardinalityType
<1>2. /\ ixClock \in Nat /\ DOMAIN ixFiles = IdxContainers /\ ixTouched = {}
      /\ ixMtime \in [IdxContainers -> 0..ixClock] BY <1>1 DEF SourceInit
<1>3. ASSUME NEW c \in IdxContainers PROVE IsFile(ixFiles[c], c, ixClock)
 <2>1. ixFiles[c] = <<>> \/ \E n \in lens : ixFiles[c] = Writing(c, n, 0) BY DEF SourceInit
 <2>2. CASE ixFiles[c] = <<>>
  <3>1. DOMAIN ixFiles[c] = 1..0 /\ \A o : o \notin 1..0 BY <2>2
  <3> QED BY <3>1 DEF IsFile
 <2>3. CASE \E n \in lens : ixFiles[c] = Writing(c, n, 0)
  <3>1. PICK n \in Nat : ixFiles[c] = Writing(c, n, 0) BY <2>3
  <3>2. 0 \in 0..ixClock BY <1>2
  <3>3. DOMAIN ixFiles[c] = 1..n /\ \A o \in 1..n : ixFiles[c][o] = <<c, o, 0>> BY <3>1 DEF Writing
  <3> QED BY <3>2, <3>3 DEF IsFile
 <2> QED BY <2>1, <2>2, <2>3
<1>4. \A c \in IdxContainers : ixMtime[c] \in Nat /\ ixMtime[c] <= ixClock BY <1>2
<1>5. ixMtime \in [IdxContainers -> Nat] BY <1>2, <1>4
<1> QED BY <1>2, <1>3, <1>4, <1>5 DEF SourceState, SourceOK

LEMMA SiBegins ==
  ASSUME SourceState, SiInit
  PROVE  SiInv
<1>1. siDb = NewDb /\ siPc = "idle" /\ ixClock \in Nat BY DEF SiInit, SourceState, SourceOK
<1>2. /\ IsDb(siDb) /\ siDb.built = FALSE /\ siDb.ents = {} /\ siDb.floor = -1 /\ siDb.sig = <<-1, 0>>
      /\ DOMAIN siDb.water = {} /\ DOMAIN siDb.fp = {} BY <1>1 DEF NewDb, NoWater, IsDb
<1>3. Indexed(siDb.ents, siDb.water, siDb.fp, ixFiles, ixClock) BY <1>2 DEF Indexed, MarksOK
<1>4. Scoped(siDb.ents, getIndexFloor, ixMtime, ixClock) BY <1>2 DEF Scoped
<1>5. siDb.sig[2] = 0 /\ 0 <= ixClock /\ -1 \in Nat \cup {-1} BY <1>1, <1>2
<1>6. DbInv
 <2>1. siDb.sig[2] \in Nat /\ siDb.sig[2] <= ixClock /\ siDb.floor \in Nat \cup {-1} BY <1>1, <1>2, <1>5
 <2>2. siDb.built \in BOOLEAN /\ ~siDb.built BY <1>2
 <2> QED BY <1>2, <1>3, <1>4, <2>1, <2>2, Zenon DEF DbInv
<1> QED BY <1>1, <1>6 DEF SiInv, OpInv, OpenInv, WalkInv, HybridInv, ScannedInv, PageInv

\* The invariant of the index in a file.
LEMMA SiSteps ==
  ASSUME SourceState, SiInv, NEW ops, SiOpsOK(ops), SiNext(ops)
  PROVE  SourceState' /\ SiInv'
<1>1. CASE SiBegin(ops) BY <1>1, SourceKept, SiBeginStep DEF SiBegin
<1>2. CASE SiOpen BY <1>2, SourceKept, SiOpenStep DEF SiOpen, sourceVars
<1>3. CASE SiRead BY <1>3, SourceKept, SiReadStep DEF SiRead, sourceVars
<1>4. CASE catchUpIndex BY <1>4, SourceKept, SiCatchUpStep DEF catchUpIndex, sourceVars
<1>5. CASE buildIndex BY <1>5, SourceKept, SiBuildStep DEF buildIndex, sourceVars
<1>6. CASE SiOpened BY <1>6, SourceKept, SiOpenedStep DEF SiOpened, sourceVars
<1>7. CASE SiScan BY <1>7, SourceKept, SiScanStep DEF SiScan, sourceVars
<1>8. CASE SiEnd \/ SiCrash BY <1>8, SourceKept, SiIdleStep DEF SiEnd, SiCrash, sourceVars
<1>9. CASE backfillSI BY <1>9, SourceKept, SiBackfillStep DEF backfillSI, sourceVars
<1>10. CASE SiSourceChange
 <2>1. SourceChange BY <1>10 DEF SiSourceChange
 <2> QED BY <1>10, <2>1, SourceSteps, SiChangeStep
<1> QED BY <1>1, <1>2, <1>3, <1>4, <1>5, <1>6, <1>7, <1>8, <1>9, <1>10 DEF SiNext

LEMMA SiStutters ==
  ASSUME SourceState, SiInv, UNCHANGED indexVars
  PROVE  SourceState' /\ SiInv'
<1>1. /\ UNCHANGED <<siDb, siOp, siPc, siOpen, siLeft, siSeen, siRows>>
      /\ UNCHANGED <<ixFiles, ixMtime, ixClock, ixTouched>> BY DEF indexVars, sourceVars, siVars
<1>2. DbInv' /\ getIndexFloor' = getIndexFloor
      /\ indexSourceSignature(getIndexFloor)' = indexSourceSignature(getIndexFloor) BY <1>1, DbStays DEF SiInv
<1>3. OpInv' /\ OpenInv' /\ WalkInv' /\ HybridInv' /\ ScannedInv' /\ PageInv'
  BY <1>1, <1>2 DEF SiInv, OpInv, OpenInv, WalkInv, HybridInv, ScannedInv, PageInv
<1> QED BY <1>1, <1>2, <1>3, SourceKept DEF SiInv

\* Entries that hold, of each of the containers S, what its file holds, and of no other
\* container anything, are the records of S.
LEMMA ExactlyThose ==
  ASSUME SourceState, NEW S \in SUBSET IdxContainers, NEW E,
         \A r \in E : r[1] \in S,
         \A c \in S : Of(E, c) = Content(ixFiles[c])
  PROVE  E = Records([c \in S |-> ixFiles[c]])
<1> DEFINE f == [c \in S |-> ixFiles[c]]
<1>1. DOMAIN f = S /\ \A c \in S : f[c] = ixFiles[c] OBVIOUS
<1> HIDE DEF f
<1>2. \A c \in DOMAIN f : IsFile(f[c], c, ixClock) BY <1>1 DEF SourceState, SourceOK
<1>3. \A r \in Records(f) : r[1] \in S BY <1>1, <1>2, RecordsOf
<1>4. \A c \in S : Of(Records(f), c) = Content(ixFiles[c]) BY <1>1, <1>2, RecordsOf
<1>5. \A r \in E : r \in Of(E, r[1]) BY DEF Of
<1>6. \A r \in Records(f) : r \in Of(Records(f), r[1]) BY DEF Of
<1>7. \A c : Of(E, c) \subseteq E /\ Of(Records(f), c) \subseteq Records(f) BY DEF Of
<1>8. \A r \in E : r \in Records(f) BY <1>4, <1>5, <1>7
<1>9. \A r \in Records(f) : r \in E BY <1>3, <1>4, <1>6, <1>7
<1> QED BY <1>8, <1>9 DEF f

\* What is stored under the signature of the source is its scope's records.
LEMMA FreshHolds ==
  ASSUME SourceState, SiInv
  PROVE  FreshIsExact
<1> SUFFICES ASSUME siDb.built, siDb.sig = indexSourceSignature(getIndexFloor)
             PROVE  {r \in siDb.ents : Exists(r[1])} = ScopeRecords(getIndexFloor) BY DEF FreshIsExact
<1> DEFINE floor == getIndexFloor
           E == {r \in siDb.ents : Exists(r[1])}
           S == InScope(floor)
<1>1. floor \in Nat BY FloorIsNat DEF SiInv
<1>2. \A c \in S : ixMtime[c] <= siDb.sig[2] BY <1>1, SignatureTime
<1>3. Scoped(siDb.ents, floor, ixMtime, ixClock) /\ Faithful(siDb.ents, floor, siDb.sig[2], ixFiles, ixMtime)
  BY DEF SiInv, DbInv
<1>4. \A c \in IdxContainers : ixMtime[c] \in Nat BY DEF SourceState, SourceOK
<1> HIDE DEF floor
<1>5. S \in SUBSET IdxContainers /\ \A c \in S : ixMtime[c] # 0 /\ floor <= ixMtime[c] BY <1>1, <1>4 DEF InScope, Exists
<1>6. ASSUME NEW r \in E PROVE r[1] \in S
 <2>1. r[1] \in IdxContainers /\ ixMtime[r[1]] # 0 /\ floor <= ixMtime[r[1]] BY <1>3 DEF Scoped, Exists
 <2>2. ixMtime[r[1]] >= floor BY <1>1, <1>4, <2>1
 <2> QED BY <2>1, <2>2 DEF InScope, Exists
<1>7. ASSUME NEW c \in S PROVE Of(E, c) = Content(ixFiles[c])
 <2>1. Of(siDb.ents, c) = Content(ixFiles[c]) BY <1>2, <1>3, <1>5 DEF Faithful
 <2>2. Of(E, c) = Of(siDb.ents, c) BY <1>5 DEF Of, Exists
 <2> QED BY <2>1, <2>2
<1> HIDE DEF E, S
<1>8. E = Records([c \in S |-> ixFiles[c]]) BY <1>5, <1>6, <1>7, ExactlyThose
<1> QED BY <1>8 DEF ScopeRecords, E, S, floor

\* A query's rows.
LEMMA QueryHolds ==
  ASSUME SourceState, SiInv
  PROVE  QueryExact
<1> DEFINE same == {c \in IdxContainers : Exists(c)} \ ixTouched
           E == {r \in siRows : r[1] \in same}
<1> SUFFICES ASSUME siPc = "scanned"
             PROVE  E = Records([c \in same |-> ixFiles[c]]) BY DEF QueryExact
<1>1. \A c \in same : c \in IdxContainers \ ixTouched /\ ixMtime[c] # 0 BY DEF Exists
<1>2. \A c \in same : Of(siRows, c) = Content(ixFiles[c]) BY <1>1 DEF SiInv, ScannedInv
<1> HIDE DEF same
<1>3. \A c \in same : Of(E, c) = Of(siRows, c) BY DEF Of
<1>4. same \in SUBSET IdxContainers /\ \A r \in E : r[1] \in same BY <1>1
<1> HIDE DEF E
<1>5. \A c \in same : Of(E, c) = Content(ixFiles[c]) BY <1>2, <1>3
<1> QED BY <1>4, <1>5, ExactlyThose

-----------------------------------------------------------------------------
(* The index in memory                                                     *)

\* Entries under a signature: what was written by its time is all there, and nothing
\* below the floor is.
Held(ents, sig) ==
  /\ sig[1] \in Nat /\ sig[2] \in Nat /\ sig[2] <= ixClock
  /\ Faithful(ents, MiSince, sig[2], ixFiles, ixMtime)
  /\ Scoped(ents, MiSince, ixMtime, ixClock)

\* No container in scope is newer than t, but for those that changed since the open.
BoundBy(t) == \A c \in IdxContainers \ ixTouched : ixMtime[c] # 0 /\ MiSince <= ixMtime[c] => ixMtime[c] <= t

MiPcInv == miPc \in {"idle", "build", "write", "built", "opened"}

SlotInv == miSlot.built => Held(miSlot.ents, miSlot.sig)

\* A blob that was written to its end; one that was not still lacks entries.
BlobInv ==
  /\ DOMAIN miBlob = {"sig", "ents", "left"}
  /\ miBlob.left = 0 /\ miBlob.sig # <<-1, 0>> => Held(miBlob.ents, miBlob.sig)

BuildInv ==
  miPc \in {"build", "write", "built"} =>
    /\ miSig[1] \in Nat /\ miSig[2] \in Nat /\ miSig[2] <= ixClock
    /\ Walked(miLeft, miSeen, MiSince, miSig[2], ixFiles, ixMtime, ixClock)
    /\ BoundBy(miSig[2])
    /\ miPc # "build" => miLeft = {}

\* While the blob is written, what it announces and lacks is what was not yet written.
WriteInv ==
  miPc = "write" =>
    /\ miBlob.sig = miSig /\ miBlob.left \in Nat /\ miBlob.ents \subseteq Records(miSeen)
    /\ IsFiniteSet(Records(miSeen))
    /\ Cardinality(miBlob.ents) + miBlob.left = Cardinality(Records(miSeen))

OpenedInv == miPc = "opened" => miSlot.built /\ BoundBy(miSlot.sig[2])

MiInv == MiPcInv /\ SlotInv /\ BlobInv /\ BuildInv /\ WriteInv /\ OpenedInv

\* What was read is finite.
LEMMA FiniteRecords ==
  ASSUME NEW seen, IsFiniteSet(DOMAIN seen), NEW k, \A c \in DOMAIN seen : IsFile(seen[c], c, k)
  PROVE  IsFiniteSet(Records(seen))
<1> DEFINE S == {{seen[c][o] : o \in DOMAIN seen[c]} : c \in DOMAIN seen}
           all == [c \in DOMAIN seen |-> {seen[c][o] : o \in DOMAIN seen[c]}]
<1>1. all \in Surjection(DOMAIN seen, S)
 <2>1. all \in [DOMAIN seen -> S] OBVIOUS
 <2>2. \A T \in S : \E c \in DOMAIN seen : all[c] = T OBVIOUS
 <2> QED BY <2>1, <2>2 DEF Surjection
<1>2. IsFiniteSet(S)
 <2> HIDE DEF S, all
 <2> QED BY <1>1, FS_Surjection
<1>3. ASSUME NEW c \in DOMAIN seen PROVE IsFiniteSet({seen[c][o] : o \in DOMAIN seen[c]})
 <2>1. PICK n \in Nat : DOMAIN seen[c] = 1..n BY DEF IsFile
 <2> DEFINE F == seen[c]
            T == {F[o] : o \in DOMAIN F}
            f == [o \in DOMAIN F |-> F[o]]
 <2>2. IsFiniteSet(DOMAIN F) BY <2>1, FS_Interval
 <2> HIDE DEF F
 <2>3. f \in Surjection(DOMAIN F, T) BY DEF Surjection
 <2> HIDE DEF T, f
 <2>4. IsFiniteSet(T) BY <2>2, <2>3, FS_Surjection
 <2> QED BY <2>4 DEF T, F
<1>4. \A T \in S : IsFiniteSet(T) BY <1>3
<1> HIDE DEF S
<1>5. IsFiniteSet(UNION S) BY <1>2, <1>4, FS_UNION
<1> QED BY <1>5 DEF Records, S

\* A change of the source leaves what is held as it was held.
LEMMA HeldKept ==
  ASSUME SourceState, SourceChange, NEW ents, NEW sig, Held(ents, sig)
  PROVE  /\ sig[1] \in Nat /\ sig[2] \in Nat /\ sig[2] <= ixClock'
         /\ Faithful(ents, MiSince, sig[2], ixFiles', ixMtime')
         /\ Scoped(ents, MiSince, ixMtime', ixClock')
<1>1. PICK c \in IdxContainers : Touched(c, ixFiles, ixMtime, ixClock, ixFiles', ixMtime') BY SourceSteps
<1>2. ixClock' = ixClock + 1 /\ SourceOK(ixFiles, ixMtime, ixClock) /\ ixClock \in Nat
  BY SourceSteps DEF SourceState, SourceOK
<1>3. /\ sig[1] \in Nat /\ sig[2] \in Nat /\ sig[2] <= ixClock
      /\ Faithful(ents, MiSince, sig[2], ixFiles, ixMtime)
      /\ Scoped(ents, MiSince, ixMtime, ixClock) BY DEF Held
<1>4. sig[2] <= ixClock + 1 BY <1>2, <1>3
<1> QED BY <1>1, <1>2, <1>3, <1>4, EntriesKept, MemSinceAssumption

LEMMA MiChangeStep ==
  ASSUME SourceState, MiInv, MiSourceChange
  PROVE  MiInv'
<1>1. SourceChange /\ UNCHANGED <<miSlot, miBlob, miPc, miSig, miLeft, miSeen>> BY DEF MiSourceChange, miVars
<1>2. PICK c \in IdxContainers : /\ Touched(c, ixFiles, ixMtime, ixClock, ixFiles', ixMtime')
                                 /\ ixTouched' = ixTouched \cup {c} BY <1>1, SourceSteps
<1>3. ixClock' = ixClock + 1 /\ SourceOK(ixFiles, ixMtime, ixClock) /\ ixClock \in Nat
  BY <1>1, SourceSteps DEF SourceState, SourceOK
<1>4. \A d \in IdxContainers \ ixTouched' : d \in IdxContainers \ ixTouched /\ ixMtime'[d] = ixMtime[d]
  BY <1>2 DEF Touched
<1>5. SlotInv'
 <2> SUFFICES ASSUME miSlot.built PROVE Held(miSlot.ents, miSlot.sig)' BY <1>1 DEF SlotInv
 <2>1. Held(miSlot.ents, miSlot.sig) BY DEF MiInv, SlotInv
 <2> QED BY <1>1, <2>1, HeldKept DEF Held
<1>6. BlobInv'
 <2>1. DOMAIN miBlob' = {"sig", "ents", "left"} BY <1>1 DEF MiInv, BlobInv
 <2> SUFFICES ASSUME miBlob.left = 0, miBlob.sig # <<-1, 0>> PROVE Held(miBlob.ents, miBlob.sig)'
   BY <1>1, <2>1 DEF BlobInv
 <2>2. Held(miBlob.ents, miBlob.sig) BY DEF MiInv, BlobInv
 <2> QED BY <1>1, <2>2, HeldKept DEF Held
<1>7. BuildInv'
 <2> SUFFICES ASSUME miPc \in {"build", "write", "built"} PROVE BuildInv' BY <1>1 DEF BuildInv
 <2>1. /\ miSig[1] \in Nat /\ miSig[2] \in Nat /\ miSig[2] <= ixClock
       /\ Walked(miLeft, miSeen, MiSince, miSig[2], ixFiles, ixMtime, ixClock)
       /\ BoundBy(miSig[2])
       /\ miPc # "build" => miLeft = {} BY DEF MiInv, BuildInv
 <2>2. Walked(miLeft, miSeen, MiSince, miSig[2], ixFiles', ixMtime', ixClock + 1)
   BY <1>2, <1>3, <2>1, WalkKept, MemSinceAssumption
 <2>3. miSig[2] <= ixClock' BY <1>3, <2>1
 <2>4. BoundBy(miSig[2])' BY <1>1, <1>4, <2>1 DEF BoundBy
 <2> QED BY <1>1, <1>3, <2>1, <2>2, <2>3, <2>4 DEF BuildInv
<1>8. OpenedInv' BY <1>1, <1>4 DEF MiInv, OpenedInv, BoundBy
<1>9. MiPcInv' /\ WriteInv' BY <1>1 DEF MiInv, MiPcInv, WriteInv
<1> QED BY <1>5, <1>6, <1>7, <1>8, <1>9 DEF MiInv

\* Each of the three tiers that an open may take.
LEMMA MiOpenStep ==
  ASSUME SourceState, MiInv, MiOpen
  PROVE  MiInv'
<1> DEFINE sig == indexSourceSignature(MiSince)
<1>1. /\ miPc = "idle" /\ UNCHANGED <<miBlob, ixFiles, ixMtime, ixClock>>
      /\ \/ miSlot.built /\ miSlot.sig = sig /\ miPc' = "opened" /\ miSlot' = miSlot
         \/ /\ miBlob.sig = sig /\ miBlob.left = 0
            /\ miSlot' = [sig |-> sig, ents |-> miBlob.ents, built |-> TRUE] /\ miPc' = "opened"
         \/ /\ miSig' = sig /\ miLeft' = InScope(MiSince) /\ DOMAIN miSeen' = {}
            /\ miPc' = "build" /\ miSlot' = miSlot BY DEF MiOpen, memBlobDecode
<1>2. sig[1] \in Nat /\ sig[2] \in Nat /\ sig[2] <= ixClock /\ \A c \in InScope(MiSince) : ixMtime[c] <= sig[2]
  BY SignatureTime, MemSinceAssumption
<1>3. SourceOK(ixFiles, ixMtime, ixClock) /\ \A c \in IdxContainers : ixMtime[c] \in Nat BY DEF SourceState, SourceOK
<1>4. InScope(MiSince) = {c \in IdxContainers : ixMtime[c] # 0 /\ ixMtime[c] >= MiSince} BY DEF InScope, Exists
<1>5. \A c \in IdxContainers : ixMtime[c] # 0 /\ MiSince <= ixMtime[c] => ixMtime[c] <= sig[2]
  BY <1>2, <1>3, <1>4, MemSinceAssumption
<1> HIDE DEF sig
<1>6. sig # <<-1, 0>> BY <1>2
<1>9. BlobInv' BY <1>1 DEF MiInv, BlobInv, Held
<1>10. CASE miSlot.built /\ miSlot.sig = sig /\ miPc' = "opened" /\ miSlot' = miSlot
 <2>1. SlotInv' BY <1>1, <1>10 DEF MiInv, SlotInv, Held
 <2>2. OpenedInv' BY <1>1, <1>5, <1>10 DEF OpenedInv, BoundBy
 <2> QED BY <1>9, <1>10, <2>1, <2>2 DEF MiInv, MiPcInv, BuildInv, WriteInv
<1>11. CASE /\ miBlob.sig = sig /\ miBlob.left = 0
            /\ miSlot' = [sig |-> sig, ents |-> miBlob.ents, built |-> TRUE] /\ miPc' = "opened"
 <2>1. Held(miBlob.ents, sig) BY <1>6, <1>11 DEF MiInv, BlobInv
 <2>2. miSlot'.sig = sig /\ miSlot'.ents = miBlob.ents /\ miSlot'.built = TRUE BY <1>11
 <2>3. SlotInv' BY <1>1, <2>1, <2>2 DEF SlotInv, Held
 <2>4. OpenedInv' BY <1>1, <1>5, <2>2 DEF OpenedInv, BoundBy
 <2> QED BY <1>9, <1>11, <2>3, <2>4 DEF MiInv, MiPcInv, BuildInv, WriteInv
<1>12. CASE /\ miSig' = sig /\ miLeft' = InScope(MiSince) /\ DOMAIN miSeen' = {}
            /\ miPc' = "build" /\ miSlot' = miSlot
 <2>1. Walked(miLeft', miSeen', MiSince, sig[2], ixFiles, ixMtime, ixClock)
   BY <1>3, <1>4, <1>12, WalkBegins, MemSinceAssumption
 <2>2. BuildInv' BY <1>1, <1>2, <1>5, <1>12, <2>1 DEF BuildInv, BoundBy
 <2>3. SlotInv' BY <1>1, <1>12 DEF MiInv, SlotInv, Held
 <2> QED BY <1>9, <1>12, <2>2, <2>3 DEF MiInv, MiPcInv, WriteInv, OpenedInv
<1> QED BY <1>1, <1>10, <1>11, <1>12

LEMMA MiReadStep ==
  ASSUME SourceState, MiInv, MiRead
  PROVE  MiInv'
<1>1. /\ miPc = "build" /\ UNCHANGED <<miSlot, miBlob, miPc, miSig, ixFiles, ixMtime, ixClock, ixTouched>>
      /\ \E c \in miLeft : miLeft' = miLeft \ {c} /\ miSeen' = ReadInto(miSeen, c, ixFiles)
  BY DEF MiRead, ReadInto, sourceVars
<1>2. Walked(miLeft', miSeen', MiSince, miSig[2], ixFiles, ixMtime, ixClock)
 <2>1. SourceOK(ixFiles, ixMtime, ixClock) /\ Walked(miLeft, miSeen, MiSince, miSig[2], ixFiles, ixMtime, ixClock)
   BY <1>1 DEF SourceState, MiInv, BuildInv
 <2> QED BY <1>1, <2>1, WalkReads
<1>3. BuildInv' BY <1>1, <1>2 DEF MiInv, BuildInv, BoundBy
<1>4. SlotInv' /\ BlobInv' BY <1>1 DEF MiInv, SlotInv, BlobInv, Held
<1> QED BY <1>1, <1>3, <1>4 DEF MiInv, MiPcInv, WriteInv, OpenedInv

\* What a finished walk has read is what its signature stands for.
LEMMA WalkHeld ==
  ASSUME SourceState, MiInv, miPc \in {"build", "write", "built"}, miLeft = {}
  PROVE  /\ Held(Records(miSeen), miSig) /\ BoundBy(miSig[2])
         /\ IsFiniteSet(Records(miSeen))
<1>1. /\ miSig[1] \in Nat /\ miSig[2] \in Nat /\ miSig[2] <= ixClock
      /\ Walked({}, miSeen, MiSince, miSig[2], ixFiles, ixMtime, ixClock)
      /\ BoundBy(miSig[2]) BY DEF MiInv, BuildInv
<1>2. SourceOK(ixFiles, ixMtime, ixClock) BY DEF SourceState
<1>3. Held(Records(miSeen), miSig) BY <1>1, <1>2, Rebuilt DEF Held
<1>4. DOMAIN miSeen \in SUBSET IdxContainers /\ \A c \in DOMAIN miSeen : IsFile(miSeen[c], c, ixClock)
  BY <1>1 DEF Walked
<1>5. IsFiniteSet(DOMAIN miSeen) BY <1>4, SourceAssumption, FS_Subset
<1>6. IsFiniteSet(Records(miSeen)) BY <1>4, <1>5, FiniteRecords
<1> QED BY <1>1, <1>3, <1>6

LEMMA MiPersistStep ==
  ASSUME SourceState, MiInv, MiPersist
  PROVE  MiInv'
<1> DEFINE R == Records(miSeen)
<1>1. /\ miPc = "build" /\ miLeft = {}
      /\ UNCHANGED <<miSlot, miSig, miLeft, miSeen, ixFiles, ixMtime, ixClock, ixTouched>>
      /\ \/ miBlob' = miBlob /\ miPc' = "built"
         \/ miBlob' = [sig |-> miSig, ents |-> {}, left |-> Cardinality(R)] /\ miPc' = "write"
  BY DEF MiPersist, sourceVars
<1>2. Held(R, miSig) /\ BoundBy(miSig[2]) /\ IsFiniteSet(R) BY <1>1, WalkHeld
<1>3. BuildInv' BY <1>1 DEF MiInv, BuildInv, BoundBy
<1>4. SlotInv' BY <1>1 DEF MiInv, SlotInv, Held
<1>5. CASE miBlob' = miBlob /\ miPc' = "built"
 <2>1. BlobInv' BY <1>1, <1>5 DEF MiInv, BlobInv, Held
 <2> QED BY <1>3, <1>4, <1>5, <2>1 DEF MiInv, MiPcInv, WriteInv, OpenedInv
<1>6. CASE miBlob' = [sig |-> miSig, ents |-> {}, left |-> Cardinality(R)] /\ miPc' = "write"
 <2>1. DOMAIN miBlob' = {"sig", "ents", "left"} /\ miBlob'.sig = miSig /\ miBlob'.ents = {} /\ miBlob'.left = Cardinality(R)
   BY <1>6
 <2>2. Cardinality(R) \in Nat /\ Cardinality({}) = 0 /\ (Cardinality(R) = 0 => R = {})
   BY <1>2, FS_CardinalityType, FS_EmptySet
 <2>3. Records(miSeen') = R BY <1>1
 <2> HIDE DEF R
 <2>4. WriteInv'
  <3>1. 0 + Cardinality(R) = Cardinality(R) BY <2>2
  <3>2. {} \subseteq R OBVIOUS
  <3> QED BY <1>1, <1>2, <2>1, <2>2, <2>3, <3>1, <3>2 DEF WriteInv
 <2>5. BlobInv' BY <1>1, <1>2, <2>1, <2>2 DEF BlobInv, Held
 <2> QED BY <1>3, <1>4, <1>6, <2>4, <2>5 DEF MiInv, MiPcInv, OpenedInv
<1> QED BY <1>1, <1>5, <1>6

\* An entry is written: it was missing before, and when none is missing the blob is whole.
LEMMA MiWriteStep ==
  ASSUME SourceState, MiInv, MiWrite
  PROVE  MiInv'
<1> DEFINE R == Records(miSeen)
<1>1. /\ miPc = "write" /\ UNCHANGED <<miSlot, miSig, miLeft, miSeen, ixFiles, ixMtime, ixClock, ixTouched>>
      /\ \/ miBlob.left = 0 /\ miPc' = "built" /\ miBlob' = miBlob
         \/ /\ miBlob.left # 0 /\ miPc' = miPc
            /\ \E r \in R \ miBlob.ents :
                 miBlob' = [miBlob EXCEPT !.ents = miBlob.ents \cup {r}, !.left = miBlob.left - 1]
  BY DEF MiWrite, sourceVars
<1>2. miLeft = {} BY <1>1 DEF MiInv, BuildInv
<1>3. Held(R, miSig) /\ BoundBy(miSig[2]) /\ IsFiniteSet(R) BY <1>1, <1>2, WalkHeld
<1>4. BuildInv' BY <1>1 DEF MiInv, BuildInv, BoundBy
<1>5. SlotInv' BY <1>1 DEF MiInv, SlotInv, Held
<1>6. CASE miBlob.left = 0 /\ miPc' = "built" /\ miBlob' = miBlob
 <2>1. BlobInv' BY <1>1, <1>6 DEF MiInv, BlobInv, Held
 <2> QED BY <1>4, <1>5, <1>6, <2>1 DEF MiInv, MiPcInv, WriteInv, OpenedInv
<1>7. CASE /\ miBlob.left # 0 /\ miPc' = miPc
           /\ \E r \in R \ miBlob.ents :
                miBlob' = [miBlob EXCEPT !.ents = miBlob.ents \cup {r}, !.left = miBlob.left - 1]
 <2> DEFINE E == miBlob.ents
            left == miBlob.left
 <2>1. /\ miBlob.sig = miSig /\ left \in Nat /\ E \subseteq R /\ Cardinality(E) + left = Cardinality(R)
       /\ DOMAIN miBlob = {"sig", "ents", "left"} BY <1>1 DEF MiInv, WriteInv, BlobInv
 <2>2. PICK r \in R \ E : miBlob' = [miBlob EXCEPT !.ents = E \cup {r}, !.left = left - 1] BY <1>7
 <2>3. /\ DOMAIN miBlob' = {"sig", "ents", "left"} /\ miBlob'.sig = miSig
       /\ miBlob'.ents = E \cup {r} /\ miBlob'.left = left - 1 BY <2>1, <2>2
 <2>4. Records(miSeen') = R BY <1>1
 <2> HIDE DEF R, E, left
 <2>5. IsFiniteSet(E) /\ Cardinality(E) \in Nat /\ Cardinality(R) \in Nat BY <1>3, <2>1, FS_Subset, FS_CardinalityType
 <2>6. Cardinality(E \cup {r}) = Cardinality(E) + 1 BY <2>2, <2>5, FS_AddElement
 <2>7. left - 1 \in Nat /\ Cardinality(E) + 1 + (left - 1) = Cardinality(R)
  <3>1. left # 0 BY <1>7 DEF left
  <3> QED BY <2>1, <2>5, <3>1
 <2>8. E \cup {r} \subseteq R BY <2>1, <2>2
 <2>9. left - 1 = 0 => E \cup {r} = R
  <3>1. left - 1 = 0 => Cardinality(E \cup {r}) = Cardinality(R) BY <2>1, <2>5, <2>6, <2>7
  <3> QED BY <1>3, <2>8, <3>1, FS_Subset
 <2>10. WriteInv' BY <1>1, <1>3, <2>3, <2>4, <2>6, <2>7, <2>8 DEF WriteInv
 <2>11. BlobInv' BY <1>1, <1>3, <2>3, <2>9 DEF BlobInv, Held
 <2> QED BY <1>1, <1>4, <1>5, <1>7, <2>10, <2>11 DEF MiInv, MiPcInv, OpenedInv
<1> QED BY <1>1, <1>6, <1>7

LEMMA MiBuiltStep ==
  ASSUME SourceState, MiInv, MiBuilt
  PROVE  MiInv'
<1>1. /\ miPc = "built" /\ miPc' = "opened"
      /\ miSlot'.sig = miSig /\ miSlot'.ents = Records(miSeen) /\ miSlot'.built = TRUE
      /\ UNCHANGED <<miBlob, ixFiles, ixMtime, ixClock, ixTouched>> BY DEF MiBuilt, sourceVars
<1>2. miLeft = {} BY <1>1 DEF MiInv, BuildInv
<1>3. Held(Records(miSeen), miSig) /\ BoundBy(miSig[2]) BY <1>1, <1>2, WalkHeld
<1>4. SlotInv' BY <1>1, <1>3 DEF SlotInv, Held
<1>5. OpenedInv' BY <1>1, <1>3 DEF OpenedInv, BoundBy
<1>6. BlobInv' BY <1>1 DEF MiInv, BlobInv, Held
<1> QED BY <1>1, <1>4, <1>5, <1>6 DEF MiInv, MiPcInv, BuildInv, WriteInv

\* The open ends, or the process dies and leaves its blob as far as it was written.
LEMMA MiIdleStep ==
  ASSUME SourceState, MiInv, MiEnd \/ MiCrash
  PROVE  MiInv'
<1>1. /\ miPc' = "idle" /\ UNCHANGED <<miBlob, ixFiles, ixMtime, ixClock>>
      /\ miSlot' = miSlot \/ miSlot'.built = FALSE BY DEF MiEnd, MiCrash, sourceVars, NoneBuilt
<1>2. SlotInv' BY <1>1 DEF MiInv, SlotInv, Held
<1>3. BlobInv' BY <1>1 DEF MiInv, BlobInv, Held
<1> QED BY <1>1, <1>2, <1>3 DEF MiInv, MiPcInv, BuildInv, WriteInv, OpenedInv

LEMMA MiBegins ==
  ASSUME MiInit
  PROVE  MiInv
<1>1. /\ miPc = "idle" /\ miSlot.built = FALSE
      /\ DOMAIN miBlob = {"sig", "ents", "left"} /\ miBlob.sig = <<-1, 0>> BY DEF MiInit, NoneBuilt
<1> QED BY <1>1 DEF MiInv, MiPcInv, SlotInv, BlobInv, BuildInv, WriteInv, OpenedInv

\* The invariant of the index in memory.
LEMMA MiSteps ==
  ASSUME SourceState, MiInv, MiNext
  PROVE  SourceState' /\ MiInv'
<1>1. CASE MiOpen BY <1>1, SourceKept, MiOpenStep DEF MiOpen
<1>2. CASE MiRead BY <1>2, SourceKept, MiReadStep DEF MiRead, sourceVars
<1>3. CASE MiPersist BY <1>3, SourceKept, MiPersistStep DEF MiPersist, sourceVars
<1>4. CASE MiWrite BY <1>4, SourceKept, MiWriteStep DEF MiWrite, sourceVars
<1>5. CASE MiBuilt BY <1>5, SourceKept, MiBuiltStep DEF MiBuilt, sourceVars
<1>6. CASE MiEnd \/ MiCrash BY <1>6, SourceKept, MiIdleStep DEF MiEnd, MiCrash, sourceVars
<1>7. CASE MiSourceChange
 <2>1. SourceChange BY <1>7 DEF MiSourceChange
 <2> QED BY <1>7, <2>1, SourceSteps, MiChangeStep
<1> QED BY <1>1, <1>2, <1>3, <1>4, <1>5, <1>6, <1>7 DEF MiNext

LEMMA MiStutters ==
  ASSUME SourceState, MiInv, UNCHANGED indexVars
  PROVE  SourceState' /\ MiInv'
<1>1. /\ UNCHANGED <<miSlot, miBlob, miPc, miSig, miLeft, miSeen>>
      /\ UNCHANGED <<ixFiles, ixMtime, ixClock, ixTouched>> BY DEF indexVars, sourceVars, miVars
<1>2. SlotInv' /\ BlobInv' BY <1>1 DEF MiInv, SlotInv, BlobInv, Held
<1>3. MiPcInv' /\ BuildInv' /\ WriteInv' /\ OpenedInv'
  BY <1>1 DEF MiInv, MiPcInv, BuildInv, WriteInv, OpenedInv, BoundBy
<1> QED BY <1>1, <1>2, <1>3, SourceKept DEF MiInv

\* What an open returns.
LEMMA MemOpenHolds ==
  ASSUME SourceState, MiInv
  PROVE  MemOpenExact
<1> DEFINE same == {c \in IdxContainers : Exists(c)} \ ixTouched
           S == same \cap InScope(MiSince)
           E == {r \in miSlot.ents : r[1] \in same}
<1> SUFFICES ASSUME miPc = "opened"
             PROVE  E = Records([c \in S |-> ixFiles[c]]) BY DEF MemOpenExact
<1>1. /\ BoundBy(miSlot.sig[2])
      /\ Faithful(miSlot.ents, MiSince, miSlot.sig[2], ixFiles, ixMtime)
      /\ Scoped(miSlot.ents, MiSince, ixMtime, ixClock) BY DEF MiInv, OpenedInv, SlotInv, Held
<1>2. \A c \in IdxContainers : ixMtime[c] \in Nat BY DEF SourceState, SourceOK
<1>3. \A c \in S : c \in IdxContainers \ ixTouched /\ c \in same /\ ixMtime[c] # 0 /\ MiSince <= ixMtime[c]
  BY <1>2, MemSinceAssumption DEF InScope, Exists
<1>4. \A c \in S : Of(miSlot.ents, c) = Content(ixFiles[c]) BY <1>1, <1>3 DEF BoundBy, Faithful
<1>5. ASSUME NEW r \in E PROVE r[1] \in S
 <2>1. r[1] \in IdxContainers /\ r[1] \in same /\ ixMtime[r[1]] # 0 /\ MiSince <= ixMtime[r[1]]
   BY <1>1 DEF Scoped, Exists
 <2>2. ixMtime[r[1]] >= MiSince BY <1>2, <2>1, MemSinceAssumption
 <2> QED BY <2>1, <2>2 DEF InScope, Exists
<1>6. \A c \in S : Of(E, c) = Of(miSlot.ents, c) BY <1>3 DEF Of
<1>7. S \in SUBSET IdxContainers BY <1>3
<1> HIDE DEF S, E, same
<1>8. \A c \in S : Of(E, c) = Content(ixFiles[c]) BY <1>4, <1>6
<1> QED BY <1>5, <1>7, <1>8, ExactlyThose

-----------------------------------------------------------------------------
(* The full-text index: what its steps keep true                           *)

IsBleve(b) == DOMAIN b = {"built", "ents", "water", "fp"} /\ b.built \in BOOLEAN

FtsOpInv ==
  /\ ftPc \in {"idle", "open", "catchup", "remove", "build", "sig", "opened", "page", "floor", "searched"}
  /\ ftPc # "idle" =>
       /\ ftOp \in [kind : {"query", "rebuild", "backfill"}, race : BOOLEAN, crash : BOOLEAN, pages : Nat \ {0}]
       /\ ftOp.kind = "backfill" => ~ftOp.race
  /\ ftPc \in {"page", "floor"} => ftOp.kind = "backfill"
  /\ ftSlot # "new" \/ ftPc \in {"catchup", "build", "sig", "opened", "page", "floor", "searched"} =>
       ftBleve.built = TRUE
  /\ DOMAIN ftOpen = {"floor", "sig"}

\* Of a container below the floor the index has nothing, or all that a page read before
\* it was cut short.
BelowExact(E, floor, files, mtime) ==
  \A c \in IdxContainers :
    mtime[c] # 0 /\ mtime[c] < floor => Of(E, c) = {} \/ Of(E, c) = Content(files[c])

\* The directory, but while it is built anew and after that was cut short: what was
\* written by the time of the signature file is there.
FtsDbInv ==
  /\ IsBleve(ftBleve) /\ ftFloor \in Nat \cup {-1} /\ readFTSFloor <= ixClock
  /\ ftSig[2] \in Nat /\ ftSig[2] <= ixClock
  /\ ftBleve.built = TRUE /\ ~ftCut /\ ftPc # "build" =>
       /\ Indexed(ftBleve.ents, ftBleve.water, ftBleve.fp, ixFiles, ixClock)
       /\ Faithful(ftBleve.ents, readFTSFloor, ftSig[2], ixFiles, ixMtime)
       /\ BelowExact(ftBleve.ents, readFTSFloor, ixFiles, ixMtime)

\* What an open has determined, as for the index in a file; the entries are those of its
\* signature before that is written.
FtsOpenInv ==
  ftPc \in {"catchup", "remove", "build", "sig", "opened", "searched"} =>
    /\ ftOpen.floor = readFTSFloor
    /\ ftOpen.sig[2] \in Nat /\ ftOpen.sig[2] <= ixClock
    /\ \A c \in IdxContainers \ ixTouched :
         ixMtime[c] # 0 /\ readFTSFloor <= ixMtime[c] => ixMtime[c] <= ftOpen.sig[2]
    /\ ftOp.kind = "backfill" => ftOpen.sig = indexSourceSignature(readFTSFloor)
    /\ ftPc \in {"opened", "searched"} => ftSig = ftOpen.sig
    /\ ftPc = "sig" /\ ~ftCut => Faithful(ftBleve.ents, readFTSFloor, ftOpen.sig[2], ixFiles, ixMtime)

\* A walk reads what was written by the time of the signature that the open has taken, and
\* of the one that stays in its file if the process dies before the new one is written.
FtsWalkInv ==
  /\ ftPc \in {"catchup", "build"} =>
       \A t \in {ftSig[2], ftOpen.sig[2]} :
         Walked(ftLeft, ftSeen, readFTSFloor, t, ixFiles, ixMtime, ixClock)
  /\ ftPc = "catchup" /\ ~ftCut =>
       \A c \in DOMAIN ftBleve.water \cap DOMAIN ftSeen :
         Marked(ftBleve.ents, ftBleve.water, ftBleve.fp, c, ftSeen[c])
  /\ ftPc = "build" => ftBleve.ents \subseteq Records(ftSeen) /\ ftLeft \cap DOMAIN ftSeen = {}

\* A page, as for the index in a file.
FtsPageInv ==
  ftPc = "page" =>
    /\ ftSig = indexSourceSignature(readFTSFloor)
    /\ ftOpen.floor \in Nat /\ ftOpen.floor <= readFTSFloor
    /\ ftLeft \subseteq IdxContainers /\ DOMAIN ftSeen \subseteq IdxContainers
    /\ \A c \in DOMAIN ftSeen : ftSeen[c] = ixFiles[c]
    /\ \A c \in ftLeft \cup DOMAIN ftSeen :
         ixMtime[c] # 0 /\ ixMtime[c] < readFTSFloor /\ ftOpen.floor <= ixMtime[c]
    /\ \A c \in IdxContainers :
         ixMtime[c] # 0 /\ ixMtime[c] < readFTSFloor /\ ftOpen.floor <= ixMtime[c] => c \in ftLeft \cup DOMAIN ftSeen

\* The page is in the index, the floor not yet in its file.
FtsFloorInv ==
  ftPc = "floor" =>
    /\ ftOpen.floor \in Nat /\ ftOpen.floor <= readFTSFloor
    /\ ~ftCut => Faithful(ftBleve.ents, ftOpen.floor, ixClock, ixFiles, ixMtime)

FtsSearchedInv ==
  ftPc = "searched" /\ ~ftCut =>
    \A c \in IdxContainers \ ixTouched : ixMtime[c] # 0 =>
      /\ readFTSFloor <= ixMtime[c] => Of(ftRows, c) = Content(ixFiles[c])
      /\ Of(ftRows, c) \subseteq Content(ixFiles[c])

FtsInv ==
  FtsOpInv /\ FtsDbInv /\ FtsOpenInv /\ FtsWalkInv /\ FtsPageInv /\ FtsFloorInv /\ FtsSearchedInv

LEMMA FtsFloorIsNat == ASSUME FtsDbInv PROVE readFTSFloor \in Nat BY FtsSinceAssumption DEF FtsDbInv, readFTSFloor

\* The directory and its files stay, and so does the source.
LEMMA FtsDbStays ==
  ASSUME FtsDbInv, UNCHANGED <<ftBleve, ftSig, ftFloor, ixFiles, ixMtime, ixClock>>,
         ftPc' # "build", ~ftCut' => ~ftCut /\ ftPc # "build"
  PROVE  /\ FtsDbInv' /\ readFTSFloor' = readFTSFloor
         /\ indexSourceSignature(readFTSFloor)' = indexSourceSignature(readFTSFloor)
<1>1. readFTSFloor' = readFTSFloor BY DEF readFTSFloor
<1>2. indexSourceSignature(readFTSFloor)' = indexSourceSignature(readFTSFloor)
  BY <1>1 DEF indexSourceSignature, InScope, Exists
<1>3. FtsDbInv' BY <1>1 DEF FtsDbInv
<1> QED BY <1>1, <1>2, <1>3

\* The entries' part of the invariant after a change of the source.
LEMMA FtsEntriesKept ==
  ASSUME SourceState, SourceChange, NEW E, NEW water, NEW fp, NEW floor \in Nat, floor <= ixClock
  PROVE  /\ Indexed(E, water, fp, ixFiles, ixClock) => Indexed(E, water, fp, ixFiles', ixClock')
         /\ \A t \in Nat : t <= ixClock /\ Faithful(E, floor, t, ixFiles, ixMtime)
                             => Faithful(E, floor, t, ixFiles', ixMtime')
         /\ BelowExact(E, floor, ixFiles, ixMtime) => BelowExact(E, floor, ixFiles', ixMtime')
<1>1. PICK c \in IdxContainers : Touched(c, ixFiles, ixMtime, ixClock, ixFiles', ixMtime') BY SourceSteps
<1>2. ixClock' = ixClock + 1 /\ SourceOK(ixFiles, ixMtime, ixClock) /\ ixClock \in Nat
  BY SourceSteps DEF SourceState, SourceOK
<1>3. Indexed(E, water, fp, ixFiles, ixClock) => Indexed(E, water, fp, ixFiles', ixClock') BY <1>1, <1>2, MarkedKept
<1>4. ASSUME NEW t \in Nat, t <= ixClock, Faithful(E, floor, t, ixFiles, ixMtime)
      PROVE  Faithful(E, floor, t, ixFiles', ixMtime') BY <1>1, <1>2, <1>4, EntriesKept
<1>5. ASSUME BelowExact(E, floor, ixFiles, ixMtime), NEW d \in IdxContainers, ixMtime'[d] # 0, ixMtime'[d] < floor
      PROVE  Of(E, d) = {} \/ Of(E, d) = Content(ixFiles'[d])
 <2>1. ~(ixClock + 1 < floor) BY <1>2
 <2>2. d # c BY <1>1, <1>5, <2>1 DEF Touched
 <2>3. ixFiles'[d] = ixFiles[d] /\ ixMtime'[d] = ixMtime[d] BY <1>1, <2>2 DEF Touched
 <2> QED BY <1>5, <2>3 DEF BelowExact
<1> QED BY <1>3, <1>4, <1>5 DEF BelowExact

LEMMA FtsChangeStep ==
  ASSUME SourceState, FtsInv, FtSourceChange
  PROVE  FtsInv'
<1> DEFINE floor == readFTSFloor
<1>1. SourceChange /\ (ftPc = "idle" \/ ftOp.race)
      /\ UNCHANGED <<ftBleve, ftSig, ftFloor, ftSlot, ftCut, ftOp, ftPc, ftOpen, ftLeft, ftSeen, ftRows>>
  BY DEF FtSourceChange, ftVars
<1>2. PICK c \in IdxContainers : /\ Touched(c, ixFiles, ixMtime, ixClock, ixFiles', ixMtime')
                                 /\ ixTouched' = ixTouched \cup {c} BY <1>1, SourceSteps
<1>3. ixClock' = ixClock + 1 /\ SourceOK(ixFiles, ixMtime, ixClock) /\ ixClock \in Nat
  BY <1>1, SourceSteps DEF SourceState, SourceOK
<1>4. readFTSFloor' = floor /\ floor \in Nat /\ floor <= ixClock /\ floor <= ixClock'
 <2>1. readFTSFloor' = floor /\ floor \in Nat /\ floor <= ixClock
   BY <1>1, FtsFloorIsNat DEF FtsInv, FtsDbInv, readFTSFloor
 <2> HIDE DEF floor
 <2> QED BY <1>3, <2>1
<1>5. \A d \in IdxContainers \ ixTouched' : d \in IdxContainers \ ixTouched /\ ixFiles'[d] = ixFiles[d] /\ ixMtime'[d] = ixMtime[d]
  BY <1>2 DEF Touched
<1>6. ftPc # "idle" => ftOp.kind # "backfill" /\ ftPc \notin {"page", "floor"} BY <1>1 DEF FtsInv, FtsOpInv
<1> HIDE DEF floor
<1>7. FtsDbInv'
 <2>1. /\ IsBleve(ftBleve) /\ ftFloor \in Nat \cup {-1}
       /\ ftSig[2] \in Nat /\ ftSig[2] <= ixClock
       /\ ftBleve.built = TRUE /\ ~ftCut /\ ftPc # "build" =>
            /\ Indexed(ftBleve.ents, ftBleve.water, ftBleve.fp, ixFiles, ixClock)
            /\ Faithful(ftBleve.ents, floor, ftSig[2], ixFiles, ixMtime)
            /\ BelowExact(ftBleve.ents, floor, ixFiles, ixMtime) BY DEF FtsInv, FtsDbInv, floor
 <2>2. ftBleve.built = TRUE /\ ~ftCut /\ ftPc # "build" =>
            /\ Indexed(ftBleve.ents, ftBleve.water, ftBleve.fp, ixFiles', ixClock')
            /\ Faithful(ftBleve.ents, floor, ftSig[2], ixFiles', ixMtime')
            /\ BelowExact(ftBleve.ents, floor, ixFiles', ixMtime') BY <1>1, <1>4, <2>1, FtsEntriesKept
 <2>3. ftSig[2] <= ixClock' BY <1>3, <2>1
 <2> QED BY <1>1, <1>4, <2>1, <2>2, <2>3 DEF FtsDbInv
<1>8. FtsOpenInv'
 <2> SUFFICES ASSUME ftPc \in {"catchup", "remove", "build", "sig", "opened", "searched"} PROVE FtsOpenInv'
   BY <1>1 DEF FtsOpenInv
 <2>1. /\ ftOpen.floor = floor
       /\ ftOpen.sig[2] \in Nat /\ ftOpen.sig[2] <= ixClock
       /\ \A d \in IdxContainers \ ixTouched :
            ixMtime[d] # 0 /\ floor <= ixMtime[d] => ixMtime[d] <= ftOpen.sig[2]
       /\ ftPc \in {"opened", "searched"} => ftSig = ftOpen.sig
       /\ ftPc = "sig" /\ ~ftCut => Faithful(ftBleve.ents, floor, ftOpen.sig[2], ixFiles, ixMtime)
   BY DEF FtsInv, FtsOpenInv, floor
 <2>2. ftOpen.sig[2] <= ixClock' BY <1>3, <2>1
 <2>3. \A d \in IdxContainers \ ixTouched' :
            ixMtime'[d] # 0 /\ floor <= ixMtime'[d] => ixMtime'[d] <= ftOpen.sig[2] BY <1>5, <2>1
 <2>4. ftOp'.kind # "backfill" BY <1>1, <1>6
 <2>5. ftPc = "sig" /\ ~ftCut => Faithful(ftBleve.ents, floor, ftOpen.sig[2], ixFiles', ixMtime')
   BY <1>1, <1>4, <2>1, FtsEntriesKept
 <2> QED BY <1>1, <1>4, <2>1, <2>2, <2>3, <2>4, <2>5 DEF FtsOpenInv
<1>9. FtsWalkInv'
 <2>1. ASSUME ftPc \in {"catchup", "build"}, NEW t \in {ftSig[2], ftOpen.sig[2]}
       PROVE  Walked(ftLeft, ftSeen, floor, t, ixFiles', ixMtime', ixClock + 1)
  <3>1. t \in Nat /\ t <= ixClock BY <2>1 DEF FtsInv, FtsDbInv, FtsOpenInv
  <3>2. Walked(ftLeft, ftSeen, floor, t, ixFiles, ixMtime, ixClock) BY <2>1 DEF FtsInv, FtsWalkInv, floor
  <3> QED BY <1>2, <1>3, <1>4, <3>1, <3>2, WalkKept
 <2> QED BY <1>1, <1>3, <1>4, <2>1 DEF FtsInv, FtsWalkInv
<1>10. FtsSearchedInv' BY <1>1, <1>4, <1>5 DEF FtsInv, FtsSearchedInv, floor
<1>11. FtsOpInv' BY <1>1 DEF FtsInv, FtsOpInv
<1>12. FtsPageInv' /\ FtsFloorInv' BY <1>1, <1>6 DEF FtsPageInv, FtsFloorInv
<1> QED BY <1>7, <1>8, <1>9, <1>10, <1>11, <1>12 DEF FtsInv

\* An operation begins: the process has an index, or none that it can open.
LEMMA FtsBeginStep ==
  ASSUME SourceState, FtsInv, NEW ops, FtOpsOK(ops), FtBegin(ops)
  PROVE  FtsInv'
<1>1. /\ ftPc = "idle" /\ ftPc' \in {"idle", "open"} /\ ftOp' \in ops
      /\ UNCHANGED <<ftCut, ftBleve, ftSig, ftFloor, ftSlot, ftOpen, ixFiles, ixMtime, ixClock>> BY DEF FtBegin
<1>2. FtsDbInv' BY <1>1, FtsDbStays DEF FtsInv
<1>3. FtsOpInv' BY <1>1 DEF FtsInv, FtsOpInv, FtOpsOK
<1> QED BY <1>1, <1>2, <1>3 DEF FtsInv, FtsOpenInv, FtsWalkInv, FtsPageInv, FtsFloorInv, FtsSearchedInv

LEMMA FtsOpenStep ==
  ASSUME SourceState, FtsInv, FtOpen
  PROVE  FtsInv'
<1> DEFINE floor == readFTSFloor
           sig == indexSourceSignature(floor)
<1>1. /\ ftPc = "open" /\ ftOpen' = [floor |-> floor, sig |-> sig]
      /\ UNCHANGED <<ftCut, ftBleve, ftSig, ftFloor, ftOp, ixFiles, ixMtime, ixClock, ixTouched>>
      /\ \/ /\ ftSig = sig /\ (ftSlot = "new" => ftBleve.built = TRUE)
            /\ \/ ftSlot = "new" /\ ftPc' = "open"
               \/ ftSlot # "new" /\ ftPc' = "opened" /\ ftSlot' = ftSlot
         \/ /\ ftPc' = "remove" \/ (ftPc' = "catchup" /\ ftBleve.built = TRUE)
            /\ FtWalk(InScope(floor)) /\ ftSlot' = ftSlot
 <2>1. ftBleve.built \in BOOLEAN BY DEF FtsInv, FtsDbInv, IsBleve
 <2> HIDE DEF sig, floor
 <2> QED BY <2>1 DEF FtOpen, FtFresh, sourceVars, sig, floor
<1>2. FtsDbInv' /\ readFTSFloor' = floor /\ indexSourceSignature(readFTSFloor)' = sig BY <1>1, FtsDbStays DEF FtsInv
<1>3. floor \in Nat BY FtsFloorIsNat DEF FtsInv
<1>4. sig[2] \in Nat /\ sig[2] <= ixClock /\ \A c \in InScope(floor) : ixMtime[c] <= sig[2] BY <1>3, SignatureTime
<1>5. SourceOK(ixFiles, ixMtime, ixClock) BY DEF SourceState
<1>6. InScope(floor) = {c \in IdxContainers : ixMtime[c] # 0 /\ ixMtime[c] >= floor} BY DEF InScope, Exists
<1>7. \A c \in IdxContainers : ixMtime[c] # 0 /\ floor <= ixMtime[c] => ixMtime[c] <= sig[2]
 <2>1. \A c \in IdxContainers : ixMtime[c] \in Nat BY <1>5 DEF SourceOK
 <2> QED BY <1>3, <1>4, <1>6, <2>1
<1> HIDE DEF floor, sig
<1>8. ftOpen'.floor = floor /\ ftOpen'.sig = sig /\ DOMAIN ftOpen' = {"floor", "sig"} BY <1>1
<1>9. FtsOpInv' BY <1>1, <1>8 DEF FtsInv, FtsOpInv
<1>10. FtsOpenInv'
 <2>1. ftPc' # "sig" /\ ftPc' # "searched" /\ (ftPc' = "opened" => ftSig' = sig) BY <1>1
 <2> QED BY <1>1, <1>2, <1>4, <1>7, <1>8, <2>1 DEF FtsOpenInv
<1>11. FtsWalkInv'
 <2>1. ASSUME FtWalk(InScope(floor)), NEW t
       PROVE  DOMAIN ftSeen' = {} /\ Walked(ftLeft', ftSeen', floor, t, ixFiles, ixMtime, ixClock)
  <3>1. ftLeft' = InScope(floor) /\ DOMAIN ftSeen' = {} BY <2>1 DEF FtWalk, Empty
  <3> QED BY <1>3, <1>5, <1>6, <3>1, WalkBegins
 <2> QED BY <1>1, <1>2, <2>1 DEF FtsWalkInv
<1> QED BY <1>1, <1>2, <1>9, <1>10, <1>11 DEF FtsInv, FtsPageInv, FtsFloorInv, FtsSearchedInv

\* One container is read.
LEMMA FtsReadStep ==
  ASSUME SourceState, FtsInv, FtRead
  PROVE  FtsInv'
<1> DEFINE floor == readFTSFloor
<1>1. PICK c \in ftLeft : ftLeft' = ftLeft \ {c} /\ ftSeen' = ReadInto(ftSeen, c, ixFiles) BY DEF FtRead, ReadInto
<1>2. /\ ftPc \in {"catchup", "build", "page"} /\ ftPc' = ftPc
      /\ UNCHANGED <<ftCut, ftBleve, ftSig, ftFloor, ftSlot, ftOp, ftOpen, ftRows, ixFiles, ixMtime, ixClock, ixTouched>>
  BY DEF FtRead, sourceVars
<1>3. readFTSFloor' = floor /\ indexSourceSignature(readFTSFloor)' = indexSourceSignature(floor)
 <2>1. readFTSFloor' = floor BY <1>2 DEF readFTSFloor
 <2> QED BY <1>2, <2>1 DEF indexSourceSignature, InScope, Exists
<1>4. /\ DOMAIN ftSeen' = DOMAIN ftSeen \cup {c} /\ ftSeen'[c] = ixFiles[c]
      /\ \A d \in DOMAIN ftSeen \ {c} : ftSeen'[d] = ftSeen[d] BY <1>1 DEF ReadInto
<1> HIDE DEF floor
<1>5. FtsOpInv' BY <1>2 DEF FtsInv, FtsOpInv
<1>6. FtsDbInv' BY <1>2, <1>3 DEF FtsInv, FtsDbInv, floor
<1>7. FtsOpenInv' BY <1>2, <1>3 DEF FtsInv, FtsOpenInv, floor
<1>8. FtsWalkInv'
 <2>1. SourceOK(ixFiles, ixMtime, ixClock) BY DEF SourceState
 <2>2. ASSUME ftPc \in {"catchup", "build"}, NEW t \in {ftSig[2], ftOpen.sig[2]}
       PROVE  Walked(ftLeft', ftSeen', floor, t, ixFiles, ixMtime, ixClock)
  <3>1. Walked(ftLeft, ftSeen, floor, t, ixFiles, ixMtime, ixClock) BY <2>2 DEF FtsInv, FtsWalkInv, floor
  <3> QED BY <1>1, <2>1, <3>1, WalkReads
 <2>3. ASSUME ftPc = "catchup", ~ftCut, NEW d \in DOMAIN ftBleve.water \cap DOMAIN ftSeen'
       PROVE  Marked(ftBleve.ents, ftBleve.water, ftBleve.fp, d, ftSeen'[d])
  <3>1. CASE d = c
   <4>1. Marked(ftBleve.ents, ftBleve.water, ftBleve.fp, d, ixFiles[d])
     BY <2>3 DEF FtsInv, FtsOpInv, FtsDbInv, Indexed
   <4> QED BY <1>4, <3>1, <4>1
  <3>2. CASE d # c
   <4>1. d \in DOMAIN ftSeen /\ ftSeen'[d] = ftSeen[d] BY <1>4, <2>3, <3>2
   <4> QED BY <2>3, <4>1 DEF FtsInv, FtsWalkInv
  <3> QED BY <3>1, <3>2
 <2>4. ASSUME ftPc = "build" PROVE ftBleve.ents \subseteq Records(ftSeen') /\ ftLeft' \cap DOMAIN ftSeen' = {}
  <3>1. ftBleve.ents \subseteq Records(ftSeen) /\ ftLeft \cap DOMAIN ftSeen = {} BY <2>4 DEF FtsInv, FtsWalkInv
  <3>2. \A d \in DOMAIN ftSeen : d # c /\ d \in DOMAIN ftSeen' /\ ftSeen'[d] = ftSeen[d] BY <1>4, <3>1
  <3>3. \A r \in Records(ftSeen) : r \in Records(ftSeen') BY <3>2 DEF Records
  <3> QED BY <1>1, <1>4, <3>1, <3>3
 <2> QED BY <1>2, <1>3, <2>2, <2>3, <2>4 DEF FtsWalkInv
<1>9. FtsPageInv'
 <2> SUFFICES ASSUME ftPc = "page" PROVE FtsPageInv' BY <1>2 DEF FtsPageInv
 <2>1. /\ ftLeft \subseteq IdxContainers /\ DOMAIN ftSeen \subseteq IdxContainers
       /\ \A d \in DOMAIN ftSeen : ftSeen[d] = ixFiles[d] BY DEF FtsInv, FtsPageInv
 <2>2. ftLeft' \cup DOMAIN ftSeen' = ftLeft \cup DOMAIN ftSeen /\ ftLeft' \subseteq IdxContainers BY <1>1, <1>4, <2>1
 <2>3. DOMAIN ftSeen' \subseteq IdxContainers /\ \A d \in DOMAIN ftSeen' : ftSeen'[d] = ixFiles[d] BY <1>4, <2>1
 <2>4. /\ ftSig = indexSourceSignature(floor)
       /\ ftOpen.floor \in Nat /\ ftOpen.floor <= floor
       /\ \A d \in ftLeft \cup DOMAIN ftSeen :
            ixMtime[d] # 0 /\ ixMtime[d] < floor /\ ftOpen.floor <= ixMtime[d]
       /\ \A d \in IdxContainers :
            ixMtime[d] # 0 /\ ixMtime[d] < floor /\ ftOpen.floor <= ixMtime[d] => d \in ftLeft \cup DOMAIN ftSeen
   BY DEF FtsInv, FtsPageInv, floor
 <2> QED BY <1>2, <1>3, <2>2, <2>3, <2>4 DEF FtsPageInv
<1> QED BY <1>2, <1>5, <1>6, <1>7, <1>8, <1>9 DEF FtsInv, FtsFloorInv, FtsSearchedInv

\* The batch that ends a walk, whether it folds it in or ends the building anew: unless the
\* directory is what a rebuild left, what it holds is what a rebuild stores.
LEMMA FtsStored ==
  ASSUME SourceState, FtsInv, ftPc \in {"catchup", "build"}, ftLeft = {}, ftPc' = "sig",
         IsBleve(ftBleve'), ftBleve'.built = TRUE,
         ~ftCut' => /\ ftBleve'.ents = Records(ftSeen) /\ ftBleve'.water = ObservedWater(ftSeen)
                    /\ ftBleve'.fp = FingerprintWater(ftSeen),
         UNCHANGED <<ftSig, ftFloor, ftOp, ftOpen, ixFiles, ixMtime, ixClock, ixTouched>>
  PROVE  FtsInv'
<1> DEFINE floor == readFTSFloor
<1>1. readFTSFloor' = floor /\ indexSourceSignature(readFTSFloor)' = indexSourceSignature(floor) /\ floor \in Nat
 <2>1. readFTSFloor' = floor /\ floor \in Nat BY FtsFloorIsNat DEF FtsInv, readFTSFloor
 <2> QED BY <2>1 DEF indexSourceSignature, InScope, Exists
<1>2. /\ ftOpen.floor = floor
      /\ ftOpen.sig[2] \in Nat /\ ftOpen.sig[2] <= ixClock
      /\ \A c \in IdxContainers \ ixTouched :
           ixMtime[c] # 0 /\ floor <= ixMtime[c] => ixMtime[c] <= ftOpen.sig[2]
      /\ ftOp.kind = "backfill" => ftOpen.sig = indexSourceSignature(floor) BY DEF FtsInv, FtsOpenInv
<1>3. /\ ftFloor \in Nat \cup {-1} /\ floor <= ixClock
      /\ ftSig[2] \in Nat /\ ftSig[2] <= ixClock BY DEF FtsInv, FtsDbInv
<1> HIDE DEF floor
<1>4. /\ Walked({}, ftSeen, floor, ftSig[2], ixFiles, ixMtime, ixClock)
      /\ Walked({}, ftSeen, floor, ftOpen.sig[2], ixFiles, ixMtime, ixClock) BY DEF FtsInv, FtsWalkInv, floor
<1>5. SourceOK(ixFiles, ixMtime, ixClock) /\ \A c \in IdxContainers : ixMtime[c] \in Nat BY DEF SourceState, SourceOK
<1>6. /\ Indexed(Records(ftSeen), ObservedWater(ftSeen), FingerprintWater(ftSeen), ixFiles, ixClock)
      /\ Faithful(Records(ftSeen), floor, ftSig[2], ixFiles, ixMtime)
      /\ Faithful(Records(ftSeen), floor, ftOpen.sig[2], ixFiles, ixMtime)
      /\ Scoped(Records(ftSeen), floor, ixMtime, ixClock) BY <1>4, <1>5, Rebuilt
<1>7. BelowExact(Records(ftSeen), floor, ixFiles, ixMtime)
 <2>1. \A c \in IdxContainers : ixMtime[c] < floor => ~(floor <= ixMtime[c]) BY <1>1, <1>5
 <2> QED BY <1>6, <2>1 DEF BelowExact, Scoped, Of
<1>8. FtsDbInv' BY <1>1, <1>3, <1>6, <1>7 DEF FtsDbInv
<1>9. FtsOpenInv' BY <1>1, <1>2, <1>6 DEF FtsOpenInv
<1>10. FtsOpInv' BY DEF FtsInv, FtsOpInv
<1> QED BY <1>8, <1>9, <1>10 DEF FtsInv, FtsWalkInv, FtsPageInv, FtsFloorInv, FtsSearchedInv

LEMMA FtsCatchUpStep ==
  ASSUME SourceState, FtsInv, catchUpBleve
  PROVE  FtsInv'
<1> DEFINE w == NewWater(ftBleve.water, ftSeen)
           e == ftBleve.ents \cup UNION {Admitted(ftBleve.water, ftSeen, c) : c \in DOMAIN ftSeen}
           p == WaterFPMerge(w, ObservedWater(ftSeen), FingerprintWater(ftSeen), ftBleve.water, ftBleve.fp)
<1>1. /\ ftPc = "catchup" /\ ftLeft = {}
      /\ UNCHANGED <<ftCut, ftSig, ftFloor, ftSlot, ftOp, ftOpen, ixFiles, ixMtime, ixClock, ixTouched>>
      /\ \/ ftPc' = "remove" /\ ftBleve' = ftBleve
         \/ /\ FtAnomalies = {} /\ ftPc' = "sig"
            /\ ftBleve' = [ftBleve EXCEPT !.ents = e, !.water = w, !.fp = p] BY DEF catchUpBleve, Batch, sourceVars
<1>2. IsBleve(ftBleve) /\ ftBleve.built = TRUE BY <1>1 DEF FtsInv, FtsDbInv, FtsOpInv
<1>3. CASE ftPc' = "remove" /\ ftBleve' = ftBleve
 <2>1. FtsDbInv' /\ readFTSFloor' = readFTSFloor
       /\ indexSourceSignature(readFTSFloor)' = indexSourceSignature(readFTSFloor) BY <1>1, <1>3, FtsDbStays DEF FtsInv
 <2>2. FtsOpenInv' BY <1>1, <1>3, <2>1 DEF FtsInv, FtsOpenInv
 <2>3. FtsOpInv' BY <1>1, <1>3 DEF FtsInv, FtsOpInv
 <2> QED BY <1>3, <2>1, <2>2, <2>3 DEF FtsInv, FtsWalkInv, FtsPageInv, FtsFloorInv, FtsSearchedInv
<1>4. CASE FtAnomalies = {} /\ ftPc' = "sig" /\ ftBleve' = [ftBleve EXCEPT !.ents = e, !.water = w, !.fp = p]
 <2>1. ASSUME ~ftCut PROVE e = Records(ftSeen) /\ w = ObservedWater(ftSeen) /\ p = FingerprintWater(ftSeen)
  <3>1. Rotated(ftBleve.water, ftSeen) = {} /\ Truncated(ftBleve.water, ftSeen) = {}
        /\ Rewritten(ftBleve.water, ftBleve.fp, ftSeen) = {} BY <1>4 DEF FtAnomalies
  <3>2. MarksOK(ftBleve.ents, ftBleve.water, ftBleve.fp, ixClock) BY <1>1, <1>2, <2>1 DEF FtsInv, FtsDbInv, Indexed
  <3>3. DOMAIN ftSeen \subseteq IdxContainers /\ \A c \in DOMAIN ftSeen : IsFile(ftSeen[c], c, ixClock)
    BY <1>1 DEF FtsInv, FtsWalkInv, Walked
  <3>4. \A c \in DOMAIN ftBleve.water \cap DOMAIN ftSeen : Marked(ftBleve.ents, ftBleve.water, ftBleve.fp, c, ftSeen[c])
    BY <1>1, <2>1 DEF FtsInv, FtsWalkInv
  <3>5. ixClock \in Nat BY DEF SourceState, SourceOK
  <3> QED BY <3>1, <3>2, <3>3, <3>4, <3>5, FoldIsRebuild
 <2> HIDE DEF e, w, p
 <2>2. IsBleve(ftBleve') /\ ftBleve'.built = TRUE /\ ftBleve'.ents = e /\ ftBleve'.water = w /\ ftBleve'.fp = p
   BY <1>2, <1>4 DEF IsBleve
 <2> QED BY <1>1, <1>4, <2>1, <2>2, FtsStored
<1> QED BY <1>1, <1>3, <1>4

\* The directory is removed and made anew, and filled batch by batch.
LEMMA FtsRemoveStep ==
  ASSUME SourceState, FtsInv, FtRemove
  PROVE  FtsInv'
<1> DEFINE floor == readFTSFloor
<1>1. /\ ftPc = "remove" /\ ftPc' = "build" /\ ftBleve' = [NoBleve EXCEPT !.built = TRUE] /\ FtWalk(InScope(ftOpen.floor))
      /\ UNCHANGED <<ftCut, ftSig, ftFloor, ftSlot, ftOp, ftOpen, ixFiles, ixMtime, ixClock, ixTouched>>
  BY DEF FtRemove, sourceVars
<1>2. readFTSFloor' = floor /\ indexSourceSignature(readFTSFloor)' = indexSourceSignature(floor) /\ floor \in Nat
 <2>1. readFTSFloor' = floor /\ floor \in Nat BY <1>1, FtsFloorIsNat DEF FtsInv, readFTSFloor
 <2> QED BY <1>1, <2>1 DEF indexSourceSignature, InScope, Exists
<1>3. IsBleve(ftBleve') /\ ftBleve'.built = TRUE /\ ftBleve'.ents = {} BY <1>1 DEF NoBleve, IsBleve
<1>4. ftOpen.floor = floor BY <1>1 DEF FtsInv, FtsOpenInv
<1>5. ftLeft' = InScope(floor) /\ DOMAIN ftSeen' = {} BY <1>1, <1>4 DEF FtWalk, Empty
<1>6. ftLeft' = {c \in IdxContainers : ixMtime[c] # 0 /\ ixMtime[c] >= floor} BY <1>5 DEF InScope, Exists
<1>7. SourceOK(ixFiles, ixMtime, ixClock) BY DEF SourceState
<1> HIDE DEF floor
<1>8. \A t : Walked(ftLeft', ftSeen', floor, t, ixFiles, ixMtime, ixClock) BY <1>2, <1>5, <1>6, <1>7, WalkBegins
<1>9. FtsWalkInv'
 <2>1. ftLeft' \cap DOMAIN ftSeen' = {} BY <1>5
 <2> QED BY <1>1, <1>2, <1>3, <1>8, <2>1 DEF FtsWalkInv
<1>10. FtsOpenInv' BY <1>1, <1>2 DEF FtsInv, FtsOpenInv, floor
<1>11. FtsDbInv' BY <1>1, <1>2, <1>3 DEF FtsInv, FtsDbInv, floor
<1>12. FtsOpInv' BY <1>1, <1>3 DEF FtsInv, FtsOpInv
<1> QED BY <1>1, <1>9, <1>10, <1>11, <1>12 DEF FtsInv, FtsPageInv, FtsFloorInv, FtsSearchedInv

LEMMA FtsFlushStep ==
  ASSUME SourceState, FtsInv, FtFlush
  PROVE  FtsInv'
<1>1. /\ ftPc = "build" /\ ftPc' = "build"
      /\ ftBleve' = [ftBleve EXCEPT !.ents = ftBleve.ents \cup Records(ftSeen), !.water = Empty, !.fp = Empty]
      /\ UNCHANGED <<ftCut, ftSig, ftFloor, ftSlot, ftOp, ftOpen, ftLeft, ftSeen, ixFiles, ixMtime, ixClock, ixTouched>>
  BY DEF FtFlush, Batch, sourceVars
<1>2. IsBleve(ftBleve) /\ ftBleve.built = TRUE BY <1>1 DEF FtsInv, FtsDbInv, FtsOpInv
<1>3. IsBleve(ftBleve') /\ ftBleve'.built = TRUE /\ ftBleve'.ents = ftBleve.ents \cup Records(ftSeen)
  BY <1>1, <1>2 DEF IsBleve
<1>4. readFTSFloor' = readFTSFloor /\ indexSourceSignature(readFTSFloor)' = indexSourceSignature(readFTSFloor)
 <2>1. readFTSFloor' = readFTSFloor BY <1>1 DEF readFTSFloor
 <2> QED BY <1>1, <2>1 DEF indexSourceSignature, InScope, Exists
<1>5. FtsOpInv' BY <1>1, <1>3 DEF FtsInv, FtsOpInv
<1>6. FtsDbInv' BY <1>1, <1>3, <1>4 DEF FtsInv, FtsDbInv
<1>7. FtsOpenInv' BY <1>1, <1>4 DEF FtsInv, FtsOpenInv
<1>8. FtsWalkInv'
 <2>1. Records(ftSeen') = Records(ftSeen) /\ ftBleve.ents \subseteq Records(ftSeen) BY <1>1 DEF FtsInv, FtsWalkInv
 <2>2. ftBleve'.ents \subseteq Records(ftSeen') BY <1>3, <2>1
 <2> QED BY <1>1, <1>4, <2>2 DEF FtsInv, FtsWalkInv
<1> QED BY <1>1, <1>5, <1>6, <1>7, <1>8 DEF FtsInv, FtsPageInv, FtsFloorInv, FtsSearchedInv

LEMMA FtsBuildStep ==
  ASSUME SourceState, FtsInv, buildBleve
  PROVE  FtsInv'
<1> DEFINE e == ftBleve.ents \cup Records(ftSeen)
           w == ObservedWater(ftSeen)
           p == FingerprintWater(ftSeen)
<1>1. /\ ftPc = "build" /\ ftLeft = {} /\ ftPc' = "sig"
      /\ ftBleve' = [ftBleve EXCEPT !.ents = e, !.water = w, !.fp = p]
      /\ UNCHANGED <<ftSig, ftFloor, ftOp, ftOpen, ixFiles, ixMtime, ixClock, ixTouched>>
  BY DEF buildBleve, Batch, sourceVars
<1>2. IsBleve(ftBleve) /\ ftBleve.built = TRUE BY <1>1 DEF FtsInv, FtsDbInv, FtsOpInv
<1>3. e = Records(ftSeen) BY <1>1 DEF FtsInv, FtsWalkInv
<1> HIDE DEF e, w, p
<1>4. IsBleve(ftBleve') /\ ftBleve'.built = TRUE /\ ftBleve'.ents = e /\ ftBleve'.water = w /\ ftBleve'.fp = p
  BY <1>1, <1>2 DEF IsBleve
<1> QED BY <1>1, <1>3, <1>4, FtsStored DEF w, p

\* The signature's file, after the directory: what it holds is that signature's.
LEMMA FtsSigStep ==
  ASSUME SourceState, FtsInv, FtWriteSig
  PROVE  FtsInv'
<1>1. /\ ftPc = "sig" /\ ftPc' \in {"open", "opened"} /\ ftSig' = ftOpen.sig
      /\ UNCHANGED <<ftCut, ftBleve, ftFloor, ftOp, ftOpen, ixFiles, ixMtime, ixClock, ixTouched>>
  BY DEF FtWriteSig, writeFTSSig, sourceVars
<1>2. readFTSFloor' = readFTSFloor /\ indexSourceSignature(readFTSFloor)' = indexSourceSignature(readFTSFloor)
 <2>1. readFTSFloor' = readFTSFloor BY <1>1 DEF readFTSFloor
 <2> QED BY <1>1, <2>1 DEF indexSourceSignature, InScope, Exists
<1>3. /\ ftOpen.sig[2] \in Nat /\ ftOpen.sig[2] <= ixClock
      /\ ~ftCut => Faithful(ftBleve.ents, readFTSFloor, ftOpen.sig[2], ixFiles, ixMtime) BY <1>1 DEF FtsInv, FtsOpenInv
<1>4. FtsDbInv' BY <1>1, <1>2, <1>3 DEF FtsInv, FtsDbInv
<1>5. FtsOpInv' BY <1>1 DEF FtsInv, FtsOpInv
<1>6. FtsOpenInv' BY <1>1, <1>2 DEF FtsInv, FtsOpenInv
<1> QED BY <1>1, <1>4, <1>5, <1>6 DEF FtsInv, FtsWalkInv, FtsPageInv, FtsFloorInv, FtsSearchedInv

\* What follows an open: nothing, a search or a page.
LEMMA FtsOpenedStep ==
  ASSUME SourceState, FtsInv, FtOpened
  PROVE  FtsInv'
<1> DEFINE floor == readFTSFloor
<1>1. ftPc = "opened" /\ ftPc' \in {"idle", "searched", "page"}
      /\ UNCHANGED <<ftCut, ftBleve, ftSig, ftFloor, ftSlot, ftOp, ixFiles, ixMtime, ixClock, ixTouched>>
  BY DEF FtOpened, sourceVars
<1>2. FtsDbInv' /\ readFTSFloor' = floor
      /\ indexSourceSignature(readFTSFloor)' = indexSourceSignature(floor) BY <1>1, FtsDbStays DEF FtsInv
<1>3. floor \in Nat BY FtsFloorIsNat DEF FtsInv
<1>4. /\ ftOpen.floor = floor
      /\ ftOpen.sig[2] \in Nat /\ ftOpen.sig[2] <= ixClock
      /\ \A c \in IdxContainers \ ixTouched :
           ixMtime[c] # 0 /\ floor <= ixMtime[c] => ixMtime[c] <= ftOpen.sig[2]
      /\ ftOp.kind = "backfill" => ftOpen.sig = indexSourceSignature(floor)
      /\ ftSig = ftOpen.sig BY <1>1 DEF FtsInv, FtsOpenInv
<1>5. DOMAIN ftOpen = {"floor", "sig"} /\ ftBleve.built = TRUE BY <1>1 DEF FtsInv, FtsOpInv
<1>6. CASE ftPc' = "idle" /\ ftOpen' = ftOpen
 <2>1. FtsOpInv' BY <1>1, <1>6 DEF FtsInv, FtsOpInv
 <2> QED BY <1>2, <1>6, <2>1 DEF FtsInv, FtsOpenInv, FtsWalkInv, FtsPageInv, FtsFloorInv, FtsSearchedInv
<1>7. CASE ftOp.kind = "query" /\ ftRows' = ftBleve.ents /\ ftPc' = "searched" /\ ftOpen' = ftOpen
 <2>1. FtsOpInv' BY <1>1, <1>7 DEF FtsInv, FtsOpInv
 <2>2. FtsOpenInv' BY <1>1, <1>2, <1>4, <1>7 DEF FtsOpenInv
 <2>3. ASSUME ~ftCut, NEW c \in IdxContainers \ ixTouched, ixMtime[c] # 0
       PROVE  /\ floor <= ixMtime[c] => Of(ftBleve.ents, c) = Content(ixFiles[c])
              /\ Of(ftBleve.ents, c) \subseteq Content(ixFiles[c])
  <3>1. /\ Faithful(ftBleve.ents, floor, ftSig[2], ixFiles, ixMtime)
        /\ BelowExact(ftBleve.ents, floor, ixFiles, ixMtime) BY <1>1, <1>5, <2>3 DEF FtsInv, FtsDbInv
  <3>2. ixMtime[c] \in Nat BY DEF SourceState, SourceOK
  <3> HIDE DEF floor
  <3>3. CASE floor <= ixMtime[c]
   <4>1. ixMtime[c] <= ftSig[2] BY <1>4, <2>3, <3>3
   <4> QED BY <2>3, <3>1, <3>3, <4>1 DEF Faithful
  <3>4. CASE ~(floor <= ixMtime[c])
   <4>1. ixMtime[c] < floor BY <1>3, <3>2, <3>4
   <4> QED BY <2>3, <3>1, <3>4, <4>1 DEF BelowExact
  <3> QED BY <3>3, <3>4
 <2>4. FtsSearchedInv' BY <1>1, <1>2, <1>7, <2>3 DEF FtsSearchedInv
 <2> QED BY <1>2, <1>7, <2>1, <2>2, <2>4 DEF FtsInv, FtsWalkInv, FtsPageInv, FtsFloorInv
<1>8. CASE /\ ftOp.kind = "backfill" /\ ftPc' = "page" /\ FtWalk(FtPage(floor, ftOp.pages))
           /\ ftOpen' = [ftOpen EXCEPT !.floor = IF BelowFloor(floor) \subseteq FtPage(floor, ftOp.pages) THEN 0
                                                 ELSE Min({ixMtime[c] : c \in FtPage(floor, ftOp.pages)})]
 <2> DEFINE page == FtPage(floor, ftOp.pages)
            next == IF BelowFloor(floor) \subseteq page THEN 0 ELSE Min({ixMtime[c] : c \in page})
 <2>1. page = Page(floor, ftOp.pages) BY DEF FtPage, Page
 <2>2. ftOp.pages \in Nat \ {0} BY <1>1 DEF FtsInv, FtsOpInv
 <2>3. ftLeft' = page /\ DOMAIN ftSeen' = {} BY <1>8 DEF FtWalk, Empty
 <2>4. ftOpen' = [ftOpen EXCEPT !.floor = next] BY <1>8
 <2> HIDE DEF floor, page
 <2>5. next = IF BelowFloor(floor) \subseteq Page(floor, ftOp.pages) THEN 0
              ELSE Min({ixMtime[c] : c \in Page(floor, ftOp.pages)}) BY <2>1
 <2> HIDE DEF next
 <2>6. /\ next \in Nat /\ next <= floor
       /\ \A c \in page : c \in IdxContainers /\ ixMtime[c] # 0 /\ ixMtime[c] < floor /\ next <= ixMtime[c]
       /\ \A c \in IdxContainers : ixMtime[c] # 0 /\ ixMtime[c] < floor /\ next <= ixMtime[c] => c \in page
  <3> DEFINE n == ftOp.pages
  <3>1. SourceState /\ floor \in Nat /\ n \in Nat \ {0} BY <1>3, <2>2
  <3>2. next = IF BelowFloor(floor) \subseteq Page(floor, n) THEN 0 ELSE Min({ixMtime[c] : c \in Page(floor, n)})
    BY <2>5
  <3>3. page = Page(floor, n) BY <2>1
  <3> HIDE DEF n
  <3>4. /\ next \in Nat /\ next <= floor
        /\ \A c \in Page(floor, n) : c \in IdxContainers /\ ixMtime[c] # 0 /\ ixMtime[c] < floor /\ next <= ixMtime[c]
        /\ \A c \in IdxContainers : ixMtime[c] # 0 /\ ixMtime[c] < floor /\ next <= ixMtime[c] => c \in Page(floor, n)
    BY ONLY <3>1, <3>2, PageFloor
  <3> QED BY ONLY <3>3, <3>4
 <2>7. ftOpen'.floor = next /\ DOMAIN ftOpen' = {"floor", "sig"} BY <1>5, <2>4
 <2>8. FtsPageInv' BY <1>1, <1>2, <1>4, <1>8, <2>3, <2>6, <2>7 DEF FtsPageInv
 <2>9. FtsOpInv' BY <1>1, <1>8, <2>7 DEF FtsInv, FtsOpInv
 <2> QED BY <1>2, <1>8, <2>8, <2>9 DEF FtsInv, FtsOpenInv, FtsWalkInv, FtsFloorInv, FtsSearchedInv
<1> QED BY <1>6, <1>7, <1>8 DEF FtOpened

\* A page's batch, and then the file of the floor it leads to.
LEMMA FtsPageBatchStep ==
  ASSUME SourceState, FtsInv, FtPageBatch
  PROVE  FtsInv'
<1> DEFINE floor == readFTSFloor
           next == ftOpen.floor
           e == ftBleve.ents \cup Records(ftSeen)
           w == Over(ObservedWater(ftSeen), ftBleve.water)
           p == Over(FingerprintWater(ftSeen), ftBleve.fp)
<1>1. /\ ftPc = "page" /\ ftLeft = {}
      /\ UNCHANGED <<ftCut, ftSig, ftFloor, ftSlot, ftOp, ftOpen, ixFiles, ixMtime, ixClock, ixTouched>>
      /\ \/ ftPc' = "idle" /\ ftBleve' = ftBleve
         \/ ftPc' = "floor" /\ ftBleve' = [ftBleve EXCEPT !.ents = e, !.water = w, !.fp = p]
  BY DEF FtPageBatch, Batch, sourceVars
<1>2. FtsOpInv /\ IsBleve(ftBleve) /\ ftBleve.built = TRUE BY <1>1 DEF FtsInv, FtsDbInv, FtsOpInv
<1>3. CASE ftPc' = "idle" /\ ftBleve' = ftBleve
 <2>1. FtsDbInv' BY <1>1, <1>3, FtsDbStays DEF FtsInv
 <2>2. FtsOpInv' BY <1>1, <1>2, <1>3 DEF FtsOpInv
 <2> QED BY <1>3, <2>1, <2>2 DEF FtsInv, FtsOpenInv, FtsWalkInv, FtsPageInv, FtsFloorInv, FtsSearchedInv
<1>4. CASE ftPc' = "floor" /\ ftBleve' = [ftBleve EXCEPT !.ents = e, !.water = w, !.fp = p]
 <2>1. /\ ftSig = indexSourceSignature(floor)
       /\ next \in Nat /\ next <= floor
       /\ DOMAIN ftSeen \subseteq IdxContainers
       /\ \A c \in DOMAIN ftSeen : ftSeen[c] = ixFiles[c]
       /\ \A c \in DOMAIN ftSeen : ixMtime[c] # 0 /\ ixMtime[c] < floor /\ next <= ixMtime[c]
       /\ \A c \in IdxContainers :
            ixMtime[c] # 0 /\ ixMtime[c] < floor /\ next <= ixMtime[c] => c \in DOMAIN ftSeen
   BY <1>1 DEF FtsInv, FtsPageInv
 <2>2. readFTSFloor' = floor /\ floor \in Nat BY <1>1, FtsFloorIsNat DEF FtsInv, readFTSFloor
 <2>3. /\ ftFloor \in Nat \cup {-1} /\ floor <= ixClock
       /\ ftSig[2] \in Nat /\ ftSig[2] <= ixClock
       /\ ~ftCut => /\ Indexed(ftBleve.ents, ftBleve.water, ftBleve.fp, ixFiles, ixClock)
                    /\ Faithful(ftBleve.ents, floor, ftSig[2], ixFiles, ixMtime)
                    /\ BelowExact(ftBleve.ents, floor, ixFiles, ixMtime) BY <1>1, <1>2 DEF FtsInv, FtsDbInv
 <2>4. \A c \in IdxContainers : ixMtime[c] \in Nat BY DEF SourceState, SourceOK
 <2>5. \A c \in IdxContainers : ixMtime[c] # 0 /\ floor <= ixMtime[c] => ixMtime[c] <= ftSig[2]
  <3>1. \A c \in InScope(floor) : ixMtime[c] <= ftSig[2] BY <2>1, <2>2, SignatureTime
  <3> QED BY <2>2, <2>4, <3>1 DEF InScope, Exists
 <2> HIDE DEF floor, next
 <2>6. ASSUME ~ftCut
       PROVE  /\ Indexed(e, w, p, ixFiles, ixClock)
              /\ \A c \in DOMAIN ftSeen : Of(e, c) = Content(ixFiles[c])
              /\ \A c : c \notin DOMAIN ftSeen => Of(e, c) = Of(ftBleve.ents, c)
  <3>1. \A c \in DOMAIN ftSeen : Of(ftBleve.ents, c) \subseteq Content(ixFiles[c]) BY <2>1, <2>3, <2>6 DEF BelowExact
  <3> QED BY <2>1, <2>3, <2>6, <3>1, PageStored
 <2> HIDE DEF e, w, p
 <2>7. IsBleve(ftBleve') /\ ftBleve'.built = TRUE /\ ftBleve'.ents = e /\ ftBleve'.water = w /\ ftBleve'.fp = p
   BY <1>2, <1>4 DEF IsBleve
 <2>8. ASSUME ~ftCut, NEW c \in IdxContainers, ixMtime[c] # 0, next <= ixMtime[c]
       PROVE  Of(e, c) = Content(ixFiles[c])
  <3>1. CASE c \in DOMAIN ftSeen BY <2>6, <2>8, <3>1
  <3>2. CASE c \notin DOMAIN ftSeen
   <4>1. ~(ixMtime[c] < floor) BY <2>1, <2>8, <3>2
   <4>2. floor <= ixMtime[c] BY <2>2, <2>4, <4>1
   <4>3. Of(ftBleve.ents, c) = Content(ixFiles[c]) BY <2>3, <2>5, <2>8, <4>2 DEF Faithful
   <4> QED BY <2>6, <2>8, <3>2, <4>3
  <3> QED BY <3>1, <3>2
 <2>9. ASSUME ~ftCut, NEW c \in IdxContainers, ixMtime[c] # 0
       PROVE  /\ floor <= ixMtime[c] => Of(e, c) = Content(ixFiles[c])
              /\ ixMtime[c] < floor => Of(e, c) = {} \/ Of(e, c) = Content(ixFiles[c])
  <3>1. floor <= ixMtime[c] => next <= ixMtime[c] BY <2>1, <2>2, <2>4
  <3>2. CASE c \in DOMAIN ftSeen BY <2>6, <2>9, <3>2
  <3>3. CASE c \notin DOMAIN ftSeen
   <4>1. Of(e, c) = Of(ftBleve.ents, c) BY <2>6, <2>9, <3>3
   <4> QED BY <2>3, <2>8, <2>9, <3>1, <4>1 DEF BelowExact
  <3> QED BY <3>2, <3>3
 <2>10. FtsDbInv'
  <3>1. ~ftCut => /\ Faithful(e, floor, ftSig[2], ixFiles, ixMtime)
                  /\ BelowExact(e, floor, ixFiles, ixMtime) BY <2>9 DEF Faithful, BelowExact
  <3> QED BY <1>1, <2>2, <2>3, <2>6, <2>7, <3>1 DEF FtsDbInv
 <2>11. FtsFloorInv'
  <3>1. ~ftCut => Faithful(e, next, ixClock, ixFiles, ixMtime) BY <2>8 DEF Faithful
  <3>2. next' = next BY <1>1 DEF next
  <3> QED BY <1>1, <2>1, <2>2, <2>7, <3>1, <3>2 DEF FtsFloorInv, next
 <2>12. FtsOpInv' BY <1>1, <1>2, <1>4, <2>7 DEF FtsOpInv
 <2> QED BY <1>4, <2>10, <2>11, <2>12 DEF FtsInv, FtsOpenInv, FtsWalkInv, FtsPageInv, FtsSearchedInv
<1> QED BY <1>1, <1>3, <1>4

LEMMA FtsPageFloorStep ==
  ASSUME SourceState, FtsInv, FtPageFloor
  PROVE  FtsInv'
<1> DEFINE next == ftOpen.floor
           sig == indexSourceSignature(next)
<1>1. /\ ftPc = "floor" /\ ftPc' = "sig" /\ ftFloor' = next /\ ftOpen' = [ftOpen EXCEPT !.sig = sig]
      /\ ftOp' = [ftOp EXCEPT !.kind = "rebuild"]
      /\ UNCHANGED <<ftCut, ftBleve, ftSig, ftSlot, ixFiles, ixMtime, ixClock, ixTouched>>
  BY DEF FtPageFloor, sourceVars
<1>2. /\ next \in Nat /\ next <= readFTSFloor
      /\ ~ftCut => Faithful(ftBleve.ents, next, ixClock, ixFiles, ixMtime) BY <1>1 DEF FtsInv, FtsFloorInv
<1>3. /\ DOMAIN ftOpen = {"floor", "sig"} /\ ftBleve.built = TRUE
      /\ ftOp \in [kind : {"query", "rebuild", "backfill"}, race : BOOLEAN, crash : BOOLEAN, pages : Nat \ {0}]
  BY <1>1 DEF FtsInv, FtsOpInv
<1>4. /\ IsBleve(ftBleve) /\ readFTSFloor <= ixClock
      /\ ftSig[2] \in Nat /\ ftSig[2] <= ixClock
      /\ ~ftCut => /\ Indexed(ftBleve.ents, ftBleve.water, ftBleve.fp, ixFiles, ixClock)
                   /\ BelowExact(ftBleve.ents, readFTSFloor, ixFiles, ixMtime) BY <1>1, <1>3 DEF FtsInv, FtsDbInv
<1>5. readFTSFloor \in Nat BY FtsFloorIsNat DEF FtsInv
<1>6. ixClock \in Nat /\ \A c \in IdxContainers : ixMtime[c] \in Nat /\ ixMtime[c] <= ixClock
  BY DEF SourceState, SourceOK
<1>7. sig[2] \in Nat /\ sig[2] <= ixClock /\ \A c \in InScope(next) : ixMtime[c] <= sig[2] BY <1>2, SignatureTime
<1>8. \A c \in IdxContainers : ixMtime[c] # 0 /\ next <= ixMtime[c] => ixMtime[c] <= sig[2]
  BY <1>2, <1>6, <1>7 DEF InScope, Exists
<1> HIDE DEF next, sig
<1>9. readFTSFloor' = next /\ next <= ixClock
 <2>1. next # -1 BY <1>2
 <2>2. readFTSFloor' = next BY <1>1, <2>1 DEF readFTSFloor
 <2> QED BY <1>2, <1>4, <1>5, <1>6, <2>2
<1>10. ftOpen'.floor = next /\ ftOpen'.sig = sig /\ DOMAIN ftOpen' = {"floor", "sig"} BY <1>1, <1>3 DEF next
<1>11. ftOp' \in [kind : {"query", "rebuild", "backfill"}, race : BOOLEAN, crash : BOOLEAN, pages : Nat \ {0}]
       /\ ftOp'.kind = "rebuild" BY <1>1, <1>3
<1>12. \A t \in Nat : t <= ixClock /\ ~ftCut => Faithful(ftBleve.ents, next, t, ixFiles, ixMtime)
  BY <1>2, <1>6 DEF Faithful
<1>13. FtsOpInv' BY <1>1, <1>3, <1>10, <1>11 DEF FtsOpInv
<1>14. FtsDbInv'
 <2>1. \A c \in IdxContainers : ixMtime[c] < next => ixMtime[c] < readFTSFloor BY <1>2, <1>5, <1>6
 <2>2. ~ftCut => BelowExact(ftBleve.ents, next, ixFiles, ixMtime) BY <1>4, <2>1 DEF BelowExact
 <2> QED BY <1>1, <1>2, <1>4, <1>9, <1>12, <2>2 DEF FtsDbInv
<1>15. FtsOpenInv' BY <1>1, <1>7, <1>8, <1>9, <1>10, <1>11, <1>12 DEF FtsOpenInv
<1> QED BY <1>1, <1>13, <1>14, <1>15 DEF FtsInv, FtsWalkInv, FtsPageInv, FtsFloorInv, FtsSearchedInv

\* The operation ends, fails or dies: the directory is as it was, but for one that was
\* being built.
LEMMA FtsIdleStep ==
  ASSUME SourceState, FtsInv, FtEnd \/ FtFail \/ FtCrash
  PROVE  FtsInv'
<1>1. /\ ftPc' = "idle" /\ UNCHANGED <<ftBleve, ftSig, ftFloor, ftOpen, ixFiles, ixMtime, ixClock>>
      /\ ~ftCut' => ~ftCut /\ ftPc # "build"
      /\ ftSlot' \in {ftSlot, "new"} \/ ftPc = "build"
 <2>1. CASE FtEnd BY <2>1 DEF FtEnd, sourceVars, FtsInv, FtsOpInv
 <2>2. CASE FtFail BY <2>2 DEF FtFail, sourceVars
 <2>3. CASE FtCrash
  <3>1. ~ftCut' => ~ftCut /\ ftPc # "build" BY <2>3, Zenon DEF FtCrash
  <3> QED BY <2>3, <3>1 DEF FtCrash, sourceVars
 <2> QED BY <2>1, <2>2, <2>3
<1>2. FtsDbInv' BY <1>1, FtsDbStays DEF FtsInv
<1>3. FtsOpInv' BY <1>1 DEF FtsInv, FtsOpInv
<1> QED BY <1>1, <1>2, <1>3 DEF FtsInv, FtsOpenInv, FtsWalkInv, FtsPageInv, FtsFloorInv, FtsSearchedInv

LEMMA FtsBegins ==
  ASSUME SourceState, FtInit, FtSince <= ixClock
  PROVE  FtsInv
<1>1. /\ ftBleve = NoBleve /\ ftSig = <<-1, 0>> /\ ftFloor = -1 /\ ftSlot = "new" /\ ftPc = "idle"
      /\ DOMAIN ftOpen = {"floor", "sig"} /\ ixClock \in Nat BY DEF FtInit, SourceState, SourceOK
<1>2. IsBleve(ftBleve) /\ ftBleve.built = FALSE BY <1>1 DEF NoBleve, IsBleve
<1>3. readFTSFloor = FtSince BY <1>1 DEF readFTSFloor
<1>4. ftSig[2] \in Nat /\ ftSig[2] <= ixClock /\ ftFloor \in Nat \cup {-1} BY <1>1
<1>5. FtsDbInv BY <1>1, <1>2, <1>3, <1>4 DEF FtsDbInv
<1>6. FtsOpInv BY <1>1 DEF FtsOpInv
<1> QED BY <1>1, <1>5, <1>6 DEF FtsInv, FtsOpenInv, FtsWalkInv, FtsPageInv, FtsFloorInv, FtsSearchedInv

\* The invariant of the full-text index.
LEMMA FtsSteps ==
  ASSUME SourceState, FtsInv, NEW ops, FtOpsOK(ops), FtNext(ops)
  PROVE  SourceState' /\ FtsInv'
<1>1. CASE FtBegin(ops) BY <1>1, SourceKept, FtsBeginStep DEF FtBegin
<1>2. CASE FtOpen BY <1>2, SourceKept, FtsOpenStep DEF FtOpen, sourceVars
<1>3. CASE FtRead BY <1>3, SourceKept, FtsReadStep DEF FtRead, sourceVars
<1>4. CASE catchUpBleve BY <1>4, SourceKept, FtsCatchUpStep DEF catchUpBleve, sourceVars
<1>5. CASE FtRemove BY <1>5, SourceKept, FtsRemoveStep DEF FtRemove, sourceVars
<1>6. CASE FtFlush BY <1>6, SourceKept, FtsFlushStep DEF FtFlush, sourceVars
<1>7. CASE buildBleve BY <1>7, SourceKept, FtsBuildStep DEF buildBleve, sourceVars
<1>8. CASE FtWriteSig BY <1>8, SourceKept, FtsSigStep DEF FtWriteSig, sourceVars
<1>9. CASE FtOpened BY <1>9, SourceKept, FtsOpenedStep DEF FtOpened, sourceVars
<1>10. CASE FtPageBatch BY <1>10, SourceKept, FtsPageBatchStep DEF FtPageBatch, sourceVars
<1>11. CASE FtPageFloor BY <1>11, SourceKept, FtsPageFloorStep DEF FtPageFloor, sourceVars
<1>12. CASE FtEnd \/ FtFail \/ FtCrash BY <1>12, SourceKept, FtsIdleStep DEF FtEnd, FtFail, FtCrash, sourceVars
<1>13. CASE FtSourceChange
 <2>1. SourceChange BY <1>13 DEF FtSourceChange
 <2> QED BY <1>13, <2>1, SourceSteps, FtsChangeStep
<1> QED BY <1>1, <1>2, <1>3, <1>4, <1>5, <1>6, <1>7, <1>8, <1>9, <1>10, <1>11, <1>12, <1>13 DEF FtNext

LEMMA FtsStutters ==
  ASSUME SourceState, FtsInv, UNCHANGED <<sourceVars, ftVars>>
  PROVE  SourceState' /\ FtsInv'
<1>1. /\ UNCHANGED <<ftBleve, ftSig, ftFloor, ftSlot, ftCut, ftOp, ftPc, ftOpen, ftLeft, ftSeen, ftRows>>
      /\ UNCHANGED <<ixFiles, ixMtime, ixClock, ixTouched>> BY DEF sourceVars, ftVars
<1>2. readFTSFloor' = readFTSFloor /\ indexSourceSignature(readFTSFloor)' = indexSourceSignature(readFTSFloor)
 <2>1. readFTSFloor' = readFTSFloor BY <1>1 DEF readFTSFloor
 <2> QED BY <1>1, <2>1 DEF indexSourceSignature, InScope, Exists
<1>3. /\ FtsOpInv' /\ FtsDbInv' /\ FtsOpenInv' /\ FtsWalkInv' /\ FtsPageInv' /\ FtsFloorInv' /\ FtsSearchedInv'
  BY <1>1, <1>2
     DEF FtsInv, FtsOpInv, FtsDbInv, FtsOpenInv, FtsWalkInv, FtsPageInv, FtsFloorInv, FtsSearchedInv
<1> QED BY <1>1, <1>3, SourceKept DEF FtsInv

\* An index whose signature file is the source's holds what is in its scope.
LEMMA FtsFreshHolds ==
  ASSUME SourceState, FtsInv
  PROVE  FtsFreshIsComplete
<1> DEFINE floor == readFTSFloor
           f == [c \in InScope(floor) |-> ixFiles[c]]
<1> SUFFICES ASSUME ~ftCut, ftPc = "idle", ftBleve.built, ftSig = indexSourceSignature(floor)
             PROVE  Records(f) \subseteq ftBleve.ents BY DEF FtsFreshIsComplete, FtsCrashSafe, ScopeRecords
<1>1. floor \in Nat BY FtsFloorIsNat DEF FtsInv
<1>2. \A c \in InScope(floor) : ixMtime[c] <= ftSig[2] BY <1>1, SignatureTime
<1>3. Faithful(ftBleve.ents, floor, ftSig[2], ixFiles, ixMtime) BY DEF FtsInv, FtsDbInv, IsBleve
<1>4. \A c \in IdxContainers : ixMtime[c] \in Nat BY DEF SourceState, SourceOK
<1> HIDE DEF floor
<1>5. \A c \in InScope(floor) : Of(ftBleve.ents, c) = Content(ixFiles[c])
  BY <1>1, <1>2, <1>3, <1>4 DEF Faithful, InScope, Exists
<1> QED BY <1>5 DEF Records, Content, Of

\* What a search sees.
LEMMA FtsSearchHolds ==
  ASSUME SourceState, FtsInv
  PROVE  SearchExact
<1> DEFINE same == {c \in IdxContainers : Exists(c)} \ ixTouched
           f == [c \in same \cap InScope(readFTSFloor) |-> ixFiles[c]]
           g == [c \in same |-> ixFiles[c]]
<1> SUFFICES ASSUME ftPc = "searched", ~ftCut
             PROVE  Records(f) \subseteq ftRows /\ {r \in ftRows : r[1] \in same} \subseteq Records(g)
  BY DEF SearchExact
<1>1. \A c \in IdxContainers \ ixTouched : ixMtime[c] # 0 =>
        /\ readFTSFloor <= ixMtime[c] => Of(ftRows, c) = Content(ixFiles[c])
        /\ Of(ftRows, c) \subseteq Content(ixFiles[c]) BY DEF FtsInv, FtsSearchedInv
<1>2. readFTSFloor \in Nat /\ \A c \in IdxContainers : ixMtime[c] \in Nat
  BY FtsFloorIsNat DEF FtsInv, SourceState, SourceOK
<1>3. \A c \in same : c \in IdxContainers \ ixTouched /\ ixMtime[c] # 0 BY DEF Exists
<1>4. \A c \in same \cap InScope(readFTSFloor) : readFTSFloor <= ixMtime[c] BY <1>2, <1>3 DEF InScope
<1>5. \A c \in same \cap InScope(readFTSFloor) : Content(ixFiles[c]) \subseteq ftRows BY <1>1, <1>3, <1>4 DEF Of
<1>6. \A r \in ftRows : r[1] \in same => r \in Content(ixFiles[r[1]]) BY <1>1, <1>3 DEF Of
<1> HIDE DEF same
<1>7. Records(f) \subseteq ftRows BY <1>5 DEF Records, Content
<1>8. \A r \in ftRows : r[1] \in same => r \in Records(g) BY <1>6 DEF Records, Content
<1> QED BY <1>7, <1>8

-----------------------------------------------------------------------------
\* Whatever the other programs do to the files, and wherever a process dies: an index
\* that will be taken as fresh is exact, and so is what a query or an open of the index in
\* memory returns of the containers that did not change under it.
THEOREM IndexesExact ==
  ASSUME NEW lens \in SUBSET Nat, NEW ops, SiOpsOK(ops)
  PROVE  IndexSpec(lens, ops) => []IndexExact
<1> DEFINE InFile == SourceState /\ SiInv /\ miPc = "idle"
           InMemory == SourceState /\ MiInv /\ siDb.built = FALSE /\ siPc = "idle"
           FileStep == SiNext(ops) /\ UNCHANGED miVars
           MemoryStep == MiNext /\ UNCHANGED siVars
<1>1. ASSUME SourceInit(lens), SiInit, MiInit PROVE InFile /\ InMemory
 <2>1. SourceState BY <1>1, SourceBegins
 <2>2. miPc = "idle" /\ siDb.built = FALSE /\ siPc = "idle" BY <1>1 DEF MiInit, SiInit, NewDb
 <2> QED BY <1>1, <2>1, <2>2, SiBegins, MiBegins
<1>2. ASSUME InFile, [FileStep]_indexVars PROVE InFile'
 <2>1. miPc' = miPc BY <1>2 DEF miVars, indexVars
 <2> QED BY <1>2, <2>1, SiSteps, SiStutters
<1>3. ASSUME InMemory, [MemoryStep]_indexVars PROVE InMemory'
 <2>1. siDb' = siDb /\ siPc' = siPc BY <1>3 DEF siVars, indexVars
 <2> QED BY <1>3, <2>1, MiSteps, MiStutters
<1>4. ASSUME InFile PROVE IndexExact
 <2>1. MemOpenExact BY <1>4 DEF MemOpenExact
 <2> QED BY <1>4, <2>1, FreshHolds, QueryHolds DEF IndexExact
<1>5. ASSUME InMemory PROVE IndexExact
 <2>1. FreshIsExact /\ QueryExact BY <1>5 DEF FreshIsExact, QueryExact
 <2> QED BY <1>5, <2>1, MemOpenHolds DEF IndexExact
<1> HIDE DEF InFile, InMemory, FileStep, MemoryStep
<1> QED BY <1>1, <1>2, <1>3, <1>4, <1>5, PTL DEF IndexSpec, FileStep, MemoryStep

-----------------------------------------------------------------------------

\* So is the full-text index, whose directory and files are written one after the other:
\* as long as no rebuild was cut short, one whose signature file is the source's holds
\* every record in its scope, and a search sees no other.  since= lies in the past when the
\* index is defined: a page that is cut short before its floor is written would otherwise
\* leave entries of files that can still change without coming into scope.
THEOREM FullTextExact ==
  ASSUME NEW lens \in SUBSET Nat, NEW ops, FtOpsOK(ops), FtSince <= Cardinality(IdxContainers)
  PROVE  FtsSpec(lens, ops) => []FtsExact
<1> DEFINE Inv == SourceState /\ FtsInv
<1>1. ASSUME SourceInit(lens), FtInit PROVE Inv
 <2>1. FtSince <= ixClock BY <1>1 DEF SourceInit
 <2> QED BY <1>1, <2>1, SourceBegins, FtsBegins
<1>2. ASSUME Inv, [FtNext(ops)]_<<sourceVars, ftVars>> PROVE Inv' BY <1>2, FtsSteps, FtsStutters
<1>3. ASSUME Inv PROVE FtsExact BY <1>3, FtsFreshHolds, FtsSearchHolds DEF FtsExact
<1> HIDE DEF Inv
<1> QED BY <1>1, <1>2, <1>3, PTL DEF FtsSpec

=============================================================================
