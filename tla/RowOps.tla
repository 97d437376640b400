------------------------------- MODULE RowOps -------------------------------
(***************************************************************************)
(* What the models of the row operators of engine/ share.  An operator is  *)
(* driven by its child: yieldVals(row) for every row, then yieldErr(err),  *)
(* with nil at the end of a complete stream.  A configuration holds the    *)
(* operator's parameters and its input; it is chosen in the initial state  *)
(* and never changes.                                                      *)
(***************************************************************************)
EXTENDS Integers, Sequences, FiniteSets

CONSTANT Half   \* 2^63: int64 is -Half .. Half - 1

ASSUME WidthAssumption == Half \in Nat \ {0, 1}

MinInt64 == -Half
MaxInt64 == Half - 1

\* n in int64 arithmetic.
Wrap(n) == MinInt64 + ((n - MinInt64) % (2 * Half))

LeastOf(S) == CHOOSE x \in S : \A y \in S : x <= y
MostOf(S) == CHOOSE x \in S : \A y \in S : y <= x

\* The sequence of the elements of S, a finite set of integers, in order.
Ascending(S) ==
  CHOOSE s \in [1..Cardinality(S) -> S] : \A i, j \in DOMAIN s : i < j => s[i] < s[j]

\* The concatenation of a sequence of sequences.
Concat(ss) ==
  LET cat[i \in 0..Len(ss)] == IF i = 0 THEN <<>> ELSE cat[i - 1] \o ss[i]
  IN cat[Len(ss)]
=============================================================================
