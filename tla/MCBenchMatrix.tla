----------------------------- MODULE MCBenchMatrix -----------------------------
(***************************************************************************)
(* One category and the ceiling at concurrency one and two, one prefill    *)
(* point with its warm-up, two runs with one label.                        *)
(***************************************************************************)
EXTENDS BenchMatrix

MCLevels == <<1, 2>>
MCCats == <<"coding">>
=============================================================================
