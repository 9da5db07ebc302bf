---------------------------- MODULE MCEngramStaging ----------------------------
(***************************************************************************)
(* Four rows, of which the rank owns the last three, copied two at a time. *)
(* The two versions of the checkpoint have one header but two indices.     *)
(* The text of the range that falls short is shorter than the others.      *)
(***************************************************************************)
EXTENDS EngramStaging

MCVersions == {1, 2}
MCHeader == [v \in 1 .. 2 |-> 1]
MCIndex == [v \in 1 .. 2 |-> v]
MCDies == [crashes |-> TRUE, short |-> FALSE, specs |-> {<<1, 4>>, <<1, 3>>}]
MCRanges == [crashes |-> FALSE, short |-> FALSE, specs |-> {<<1, 4>>, <<0, 4>>}]
MCDisk == [crashes |-> FALSE, short |-> TRUE, specs |-> {<<1, 4>>}]
MCFaults == {MCDies, MCRanges, MCDisk}
MCDiesAlone == {[MCDies EXCEPT !.specs = {<<1, 4>>}]}
MCTextSize == [s \in {<<1, 4>>, <<0, 4>>, <<1, 3>>} |-> s[2] - 2]
MCTextSizeAlone == [s \in {<<1, 4>>} |-> 2]
=============================================================================
