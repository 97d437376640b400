---------------------------- MODULE IndexSource ----------------------------
(***************************************************************************)
(* What a persistent index is built from (glue/idx.go): the containers of  *)
(* a keyspace, which other programs append to, rewrite, create and remove  *)
(* while n1k1 runs, and the signature by which an index decides that it is *)
(* still fresh.  A container maps offsets to records; a record is          *)
(* <<container, offset, writing>>, so that a rewritten record differs from *)
(* the one before it.                                                      *)
(*                                                                         *)
(* Every change gives its container a modification time later than all     *)
(* others: a file system whose clock is too coarse for that hides changes  *)
(* from the signature, which is what .reindex is for.                      *)
(***************************************************************************)
EXTENDS RecordScanFilter, FiniteSets, Sequences

CONSTANTS
  IdxContainers,   \* the containers there may be
  IdxLen,          \* bound: records of a container
  IdxChanges       \* bound: changes made to the source

ASSUME SourceAssumption == IsFiniteSet(IdxContainers) /\ IdxLen \in Nat

VARIABLES
  ixFiles,     \* container -> (offset -> record)
  ixMtime,     \* container -> modification time, 0 when it does not exist
  ixClock,     \* the time of the last change
  ixChanges,   \* changes made
  ixTouched    \* containers changed since the operation under way began

sourceVars == <<ixFiles, ixMtime, ixClock, ixChanges, ixTouched>>

Writing(c, n, gen) == [o \in 1..n |-> <<c, o, gen>>]

\* Containers written before the index was first opened.
SourceInit(lens) ==
  /\ ixMtime \in {m \in [IdxContainers -> 0..Cardinality(IdxContainers)] :
                    \A c, d \in IdxContainers : m[c] = m[d] /\ m[c] # 0 => c = d}
  /\ ixFiles \in [IdxContainers -> {Writing(c, n, 0) : c \in IdxContainers, n \in lens \cup {0}}]
  /\ \A c \in IdxContainers :
       ixFiles[c] \in (IF ixMtime[c] = 0 THEN {<<>>} ELSE {Writing(c, n, 0) : n \in lens})
  /\ ixClock = Cardinality(IdxContainers) /\ ixChanges = 0 /\ ixTouched = {}

Exists(c) == ixMtime[c] # 0

Change(c, recs, mtime) ==
  /\ ixChanges < IdxChanges
  /\ ixFiles' = [ixFiles EXCEPT ![c] = recs] /\ ixMtime' = [ixMtime EXCEPT ![c] = mtime]
  /\ ixClock' = ixClock + 1 /\ ixChanges' = ixChanges + 1 /\ ixTouched' = ixTouched \cup {c}

AppendTo(c) ==
  /\ Exists(c) /\ Cardinality(DOMAIN ixFiles[c]) < IdxLen
  /\ LET n == Cardinality(DOMAIN ixFiles[c]) + 1
     IN  Change(c, [o \in 1..n |-> IF o = n THEN <<c, n, ixClock + 1>> ELSE ixFiles[c][o]], ixClock + 1)

\* Rewritten in place, or created.
Rewrite(c) == \E n \in 0..IdxLen : Change(c, Writing(c, n, ixClock + 1), ixClock + 1)

RemoveFile(c) == Exists(c) /\ Change(c, <<>>, 0)

SourceChange == \E c \in IdxContainers : AppendTo(c) \/ Rewrite(c) \/ RemoveFile(c)

\* indexWalkOptions over indexSourceFiles: floor 0 is no floor.
InScope(floor) == {c \in IdxContainers : Exists(c) /\ ixMtime[c] >= floor}
BelowFloor(floor) == {c \in IdxContainers : Exists(c) /\ ixMtime[c] < floor}

indexSourceSignature(floor) ==
  <<Cardinality(InScope(floor)), Max({ixMtime[c] : c \in InScope(floor)} \cup {0})>>

Records(files) == UNION {{files[c][o] : o \in DOMAIN files[c]} : c \in DOMAIN files}
\* The marks of a page are put over those that there are.
Over(new, old) == [c \in DOMAIN new \cup DOMAIN old |-> IF c \in DOMAIN new THEN new[c] ELSE old[c]]

ScopeRecords(floor) == Records([c \in InScope(floor) |-> ixFiles[c]])

=============================================================================
