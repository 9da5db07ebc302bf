--------------------------- MODULE MCEmbeddingGather ---------------------------
(***************************************************************************)
(* Tables of up to 9 rows over 1, 2, 3 and 4 ranks: fewer rows than ranks, *)
(* multiples and remainders of every kind.                                 *)
(***************************************************************************)
EXTENDS EmbeddingGather

MCTpSizes == 1 .. 4
=============================================================================
