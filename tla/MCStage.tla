------------------------------ MODULE MCStage ------------------------------
(***************************************************************************)
(* The instance of Stage for TLC: one actor that sends batches of two rows *)
(* and a last, partial one, and one in the setting of OpUnionAll, with one *)
(* giant batch.                                                            *)
(***************************************************************************)
EXTENDS Stage

CONSTANTS Batched, Giant

MCActors == {Batched, Giant}
MCBatchSize == [a \in Actors |-> IF a = Batched THEN 2 ELSE 0]
=============================================================================
