--------------------------- MODULE OrderedStream ---------------------------
(***************************************************************************)
(* What a pull cursor over one child promises to the sorted-merge family   *)
(* (op_merge_scan.go, op_merge_join.go): the child's rows one after the    *)
(* other, none lost or repeated, an end that is reached only when every    *)
(* row has been pulled, and the child's error once the cursor is joined.   *)
(* The i-th row is the number i, so counts say everything.                 *)
(***************************************************************************)
EXTENDS Naturals

VARIABLES
  made,     \* rows that the child has handed to the stream
  failed,   \* the child has raised an error
  open,     \* the producer may still make rows
  taken,    \* rows that the consumer has pulled
  ended,    \* the consumer was told that there are no more rows
  stopped,  \* the consumer gave up
  joined    \* "no", or the result of Wait: "ok" or "err"

vars == <<made, failed, open, taken, ended, stopped, joined>>

Init ==
  /\ made = 0 /\ taken = 0
  /\ failed = FALSE /\ open = TRUE /\ ended = FALSE /\ stopped = FALSE
  /\ joined = "no"

Make == open /\ ~failed /\ made' = made + 1 /\ UNCHANGED <<failed, open, taken, ended, stopped, joined>>

Fail == open /\ failed' = TRUE /\ UNCHANGED <<made, open, taken, ended, stopped, joined>>

Close == open' = FALSE /\ UNCHANGED <<made, failed, taken, ended, stopped, joined>>

Take ==
  /\ ~ended /\ ~stopped
  /\ taken' \in taken + 1 .. made
  /\ UNCHANGED <<made, failed, open, ended, stopped, joined>>

End ==
  /\ ~open /\ ~stopped
  /\ taken = made
  /\ ended' = TRUE
  /\ UNCHANGED <<made, failed, open, taken, stopped, joined>>

Stop == stopped' = TRUE /\ UNCHANGED <<made, failed, open, taken, ended, joined>>

Join ==
  /\ ~open
  /\ joined' = IF failed THEN "err" ELSE "ok"
  /\ UNCHANGED <<made, failed, open, taken, ended, stopped>>

Next == Make \/ Fail \/ Close \/ Take \/ End \/ Stop \/ Join

Spec == Init /\ [][Next]_vars
=============================================================================
