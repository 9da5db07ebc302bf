---------------------------- MODULE EmbeddingGather ----------------------------
(***************************************************************************)
(* How an embedding table is split over the tensor-parallel ranks, and why *)
(* the sum over ranks of what each rank gathers is the table's own row.    *)
(*                                                                         *)
(* The split `num_embeddings * rank // tp_size` is computed in three       *)
(* places: by the loader (engram_backend.py:44-45), by the tool that       *)
(* stages each rank's rows on its node (stage_local_engram.py:26) and by   *)
(* the parity check (verify_engram_rows.py:25).  Every rank looks the same *)
(* ids up in its own store, zeros for the rows of others (row_store.cpp:   *)
(* 93-97); the model's all-reduce, which is not in this repository, sums.  *)
(***************************************************************************)
EXTENDS Integers

CONSTANTS
  MaxRows,    \* bound: rows of the largest table
  TpSizes     \* the tensor-parallel sizes

ASSUME GatherAssumption == MaxRows \in Nat /\ TpSizes \subseteq Nat \ {0}

VARIABLES
  rows, tp,   \* num_embeddings, tp_size
  id,         \* the row every rank is asked for
  part,       \* part[r]: what rank r gathered, or Pending
  reduced,    \* the ranks whose part is in the sum
  sum         \* the all-reduced value so far

vars == <<rows, tp, id, part, reduced, sum>>

Pending == -1
Ranks == 0 .. tp - 1
TableValue(i) == i + 1      \* distinct and nonzero: a zero row is not a row

MutStart(r) == (rows \div tp) * r          \* mutant: the remainder is dropped
Start(r) == (rows * r) \div tp
MutOwns(r, i) == Start(r) <= i /\ i <= Start(r + 1)   \* mutant: end inclusive
Owns(r, i) == Start(r) <= i /\ i < Start(r + 1)

Init ==
  /\ rows \in 1 .. MaxRows /\ tp \in TpSizes
  /\ id \in 0 .. rows - 1
  /\ part = [r \in Ranks |-> Pending]
  /\ reduced = {} /\ sum = 0

\* The lookup of one rank, at its own time.
Gather(r) ==
  /\ part[r] = Pending
  /\ part' = [part EXCEPT ![r] = IF Owns(r, id) THEN TableValue(id) ELSE 0]
  /\ UNCHANGED <<rows, tp, id, reduced, sum>>

\* The all-reduce takes the parts in whatever order the ranks arrive.
Contribute(r) ==
  /\ part[r] # Pending /\ r \notin reduced
  /\ reduced' = reduced \cup {r}
  /\ sum' = sum + part[r]
  /\ UNCHANGED <<rows, tp, id, part>>

\* The next token's row, once every rank has the sum.
NextId ==
  /\ reduced = Ranks
  /\ id' \in 0 .. rows - 1
  /\ part' = [r \in Ranks |-> Pending]
  /\ reduced' = {} /\ sum' = 0
  /\ UNCHANGED <<rows, tp>>

Next == NextId \/ \E r \in Ranks : Gather(r) \/ Contribute(r)

Spec == Init /\ [][Next]_vars

\* Every variable holds a value of its kind; the running sum never passes the
\* largest row, as it would if a row had two owners (engram_backend.py:44-45).
TypeOK ==
  /\ rows \in 1 .. MaxRows /\ tp \in TpSizes
  /\ id \in 0 .. rows - 1
  /\ part \in [Ranks -> {Pending, 0} \cup 1 .. MaxRows]
  /\ reduced \subseteq Ranks /\ sum \in 0 .. MaxRows

\* When every rank has contributed the sum is the table's row: the split leaves
\* no row without an owner, not even when tp does not divide the rows, and gives
\* none two owners (engram_backend.py:44-45 with row_store.cpp:93-97).
ReducedExact == reduced = Ranks => sum = TableValue(id)
=============================================================================
