-------------------------- MODULE RecordScanFilter --------------------------
(***************************************************************************)
(* glue/cursor.go: the append filter that a named cursor wraps around a    *)
(* scan.  A container (a file) is a function from the offsets at which its *)
(* records start to their contents; a deleted and an empty file are both   *)
(* the empty function.  A water maps containers to the start of the last   *)
(* record that was consumed; a fingerprint map holds that record's hash.   *)
(* recordFP is taken to be collision free: a hash stands for its content.  *)
(* A record without a position (one document per file) passes unfiltered   *)
(* and is left out.                                                        *)
(***************************************************************************)
EXTENDS Integers, FiniteSetsExt

Observed(files) == {c \in DOMAIN files : DOMAIN files[c] # {}}

ObservedWater(files) == [c \in Observed(files) |-> Max(DOMAIN files[c])]

FingerprintWater(files) == [c \in Observed(files) |-> files[c][Max(DOMAIN files[c])]]

\* As admit, but a container that was never seen counts as read up to offset 0.
AdmitZero(since, c, pos) == pos > (IF c \in DOMAIN since THEN since[c] ELSE 0)

admit(since, c, pos) == c \notin DOMAIN since \/ pos > since[c]

\* The records of container c that the filter lets through.
Admitted(since, files, c) == {files[c][o] : o \in {x \in DOMAIN files[c] : admit(since, c, x)}}

Mark(water, c) == IF c \in DOMAIN water THEN {water[c]} ELSE {}

NewWater(since, files) ==
  [c \in DOMAIN since \cup Observed(files) |-> Max(Mark(since, c) \cup Mark(ObservedWater(files), c))]

\* SourceAnomalies, in its three parts.
Rotated(since, files) == DOMAIN since \ Observed(files)

Truncated(since, files) ==
  {c \in DOMAIN since \cap Observed(files) : ObservedWater(files)[c] < since[c]}

\* The record at the committed offset is the one that was committed.
BoundaryKept(since, sinceFP, files, c) ==
  since[c] \in DOMAIN files[c] /\ files[c][since[c]] = sinceFP[c]

Rewritten(since, sinceFP, files) ==
  {c \in (DOMAIN since \cap Observed(files) \cap DOMAIN sinceFP) \ Truncated(since, files) :
     ~BoundaryKept(since, sinceFP, files, c)}

\* The fingerprints to commit beside newWater: those observed at exactly that offset in
\* this scan, else the old ones of the containers whose offset did not move.
WaterFPMerge(newWater, observed, observedFP, oldWater, oldFP) ==
  LET At(water, fp) == {k \in DOMAIN newWater \cap DOMAIN water \cap DOMAIN fp : water[k] = newWater[k]}
  IN  [k \in At(observed, observedFP) \cup At(oldWater, oldFP) |->
         IF k \in At(observed, observedFP) THEN observedFP[k] ELSE oldFP[k]]

=============================================================================
