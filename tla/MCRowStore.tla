------------------------------ MODULE MCRowStore ------------------------------
(***************************************************************************)
(* Small instances of RowStore.  Four rows over one or three slots and two *)
(* mutexes: rows 0 and 3 share a slot of three, slots 0 and 2 a mutex.     *)
(***************************************************************************)
EXTENDS RowStore

MCWeight == [id \in 0 .. 3 |-> 10 + id]
MCScale == [id \in 0 .. 3 |-> 20 + id]
MCBytes == {0, 99} \cup 10 .. 13 \cup 20 .. 23
MCGarbage == {[w |-> 99, s |-> 99]}

\* Budgets of no slot, one slot and three slots with change.
MCBudgets == {271, 272, 900}

\* A shard that holds the table, and one cut short by a byte in its scales.
MCShards == {[size |-> 1064, woff |-> 8, soff |-> 1032],
             [size |-> 1063, woff |-> 8, soff |-> 1032]}

\* A rank's rows, all rows, none, and two ranges row_store_range refuses.
MCRanges == {<<0, 4>>, <<0, 3>>, <<2, 2>>, <<3, 1>>, <<0, 5>>}

MCBatches == {<<0, 3>>, <<3, 0>>, <<2, 4>>, <<-1>>}
=============================================================================
