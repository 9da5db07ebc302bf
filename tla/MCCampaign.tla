------------------------------- MODULE MCCampaign -------------------------------
(***************************************************************************)
(* Two ranks.  The prompts are those the scripts send, with their kinds of *)
(* length: one that takes the prefill way when it is not cached, and one   *)
(* that never does; the model may answer any one of them wrong.            *)
(***************************************************************************)
EXTENDS Campaign

MCRanks == {0, 1}
MCPrompts == {"summary", "paris", "record", "count"}
MCTokens == [p \in MCPrompts |->
               CASE p = "summary" -> 330 [] p = "record" -> 1100 [] OTHER -> 40]
MCBroken == {{}, {"paris"}, {"record"}}
MCScript == [s \in Scripts |->
  CASE s = "correctness" -> <<"summary", "paris">>
    [] s = "parity" -> <<"summary">>
    [] s = "retrieval" -> <<"record">>
    [] OTHER -> <<"count">>]

MCOptions ==
  [mla : {"none", "flashinfer", "triton", "torch", "hybrid"}, dspark : BOOLEAN,
   graphs : BOOLEAN, autotune : BOOLEAN, local : BOOLEAN, size : {4, 8},
   concurrency : 1 .. 8, chunk : {1024, 2048, 4096, 8192}]

\* The hybrid as README.md launches it on four nodes.
MCHybrid ==
  {[mla |-> "hybrid", dspark |-> TRUE, graphs |-> TRUE, autotune |-> FALSE, local |-> TRUE,
    size |-> 4, concurrency |-> 8, chunk |-> 1024]}
=============================================================================
