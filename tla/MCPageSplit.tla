------------------------------ MODULE MCPageSplit ------------------------------
(***************************************************************************)
(* A layer with one page of four tokens and a second source of one page of *)
(* four or six, and one with two pages of six, split into pages of two     *)
(* tokens; the mark kernel looks at two indices at a time, so that a list  *)
(* of three has a partial block.                                           *)
(***************************************************************************)
EXTENDS PageSplit

MCLayers == {"swa", "full"}
MCPages == [l \in MCLayers |->
  IF l = "swa" THEN [primary |-> 1, extra |-> 1] ELSE [primary |-> 2, extra |-> 1]]
MCSrcPbs == [l \in MCLayers |->
  IF l = "swa" THEN [primary |-> 4, extra |-> 6] ELSE [primary |-> 6, extra |-> 4]]
MCLists == [l \in MCLayers |->
  IF l = "swa" THEN {[primary |-> <<>>], [primary |-> <<-1, -1, 3>>],
                     [primary |-> <<1>>, extra |-> <<-1, 5>>]}
  ELSE {[primary |-> <<0, 4, -1>>], [primary |-> <<5, -1, 11>>, extra |-> <<2>>]}]
=============================================================================
