---------------------------- MODULE MCEngramPipeline ----------------------------
(***************************************************************************)
(* Batches of none to four ids, three of which share a capacity with       *)
(* another; row 2 belongs to another rank.                                 *)
(***************************************************************************)
EXTENDS EngramPipeline

MCLists == {<<>>, <<1>>, <<0, 2>>, <<1, 0, 2>>, <<0, 1, 1>>, <<2, 1, 0, 1>>}
=============================================================================
