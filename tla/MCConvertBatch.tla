--------------------------- MODULE MCConvertBatch ---------------------------
(* Two batches that differ in every place, and the empty one.               *)
EXTENDS ConvertBatch

CONSTANTS a1, a2

MCAccounts == {a1, a2}
MCBatches  == {<<>>, <<a1, a2, a1>>, <<a2, a1, a2>>}
=============================================================================
