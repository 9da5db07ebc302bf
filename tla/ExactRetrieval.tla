---------------------------- MODULE ExactRetrieval ----------------------------
(***************************************************************************)
(* What the native row store promises its callers (patch/row_store.cpp:1:  *)
(* "Exact immutable FP8 row retrieval"): a lookup fills the caller's       *)
(* buffers with exactly the table's rows, zeros for the rows of other      *)
(* ranks, one row at a time and in order; and a store that cannot do so    *)
(* takes the whole process down instead of letting it continue with a      *)
(* missing or stale row.  There is no cache, no lock and no file here.     *)
(***************************************************************************)
EXTENDS Integers, Sequences

CONSTANTS
  Threads,      \* the threads on which lookups run
  NumRows,      \* rows of the table
  WeightTable,  \* [0 .. NumRows-1 -> weight bytes]
  ScaleTable,   \* [0 .. NumRows-1 -> scale bytes]
  Zero,         \* the bytes a memset writes
  Bytes,        \* the values a weight or a scale may have
  MaxLen,       \* length of the caller's buffers
  Batches       \* the sequences of ids a lookup may be handed

VARIABLES
  phase,        \* "closed", "open", "ready", "refused" or "aborted"
  lo, hi,       \* the rows [lo, hi) that this rank owns
  busy,         \* busy[t]: a lookup is running on t
  ids, pos,     \* the ids of t's lookup, the position it serves next
  out           \* the caller's weight and scale buffers

absVars == <<phase, lo, hi, busy, ids, pos, out>>

TableRow(id) == [w |-> WeightTable[id], s |-> ScaleTable[id]]
ZeroRow == [w |-> Zero, s |-> Zero]

Expected(id) == IF lo <= id /\ id < hi THEN TableRow(id) ELSE ZeroRow

\* The contents of the buffers before the first lookup are left open.
AbsInit ==
  /\ phase = "closed" /\ lo = 0 /\ hi = 0
  /\ busy = [t \in Threads |-> FALSE]
  /\ ids = [t \in Threads |-> <<>>]
  /\ pos = [t \in Threads |-> 1]
  /\ out \in [Threads -> [1 .. MaxLen -> [w : Bytes, s : Bytes]]]

AbsOpen ==
  /\ phase = "closed"
  /\ phase' \in {"open", "refused", "aborted"}
  /\ IF phase' = "open" THEN lo' = 0 /\ hi' = NumRows ELSE UNCHANGED <<lo, hi>>
  /\ UNCHANGED <<busy, ids, pos, out>>

AbsRange ==
  /\ phase = "open"
  /\ phase' = "ready"
  /\ lo' \in 0 .. NumRows /\ hi' \in lo' .. NumRows
  /\ UNCHANGED <<busy, ids, pos, out>>

AbsBegin(t) ==
  /\ phase = "ready" /\ ~busy[t]
  /\ \E b \in Batches : ids' = [ids EXCEPT ![t] = b]
  /\ pos' = [pos EXCEPT ![t] = 1]
  /\ busy' = [busy EXCEPT ![t] = TRUE]
  /\ UNCHANGED <<phase, lo, hi, out>>

\* The next row appears whole, and it is the right one.
AbsServe(t) ==
  /\ phase = "ready" /\ busy[t] /\ pos[t] <= Len(ids[t])
  /\ ids[t][pos[t]] \in 0 .. NumRows - 1
  /\ out' = [out EXCEPT ![t][pos[t]] = Expected(ids[t][pos[t]])]
  /\ pos' = [pos EXCEPT ![t] = @ + 1]
  /\ UNCHANGED <<phase, lo, hi, busy, ids>>

AbsFinish(t) ==
  /\ phase = "ready" /\ busy[t] /\ pos[t] > Len(ids[t])
  /\ busy' = [busy EXCEPT ![t] = FALSE]
  /\ UNCHANGED <<phase, lo, hi, ids, pos, out>>

AbsAbort ==
  /\ phase \in {"open", "ready"}
  /\ phase' = "aborted"
  /\ UNCHANGED <<lo, hi, busy, ids, pos, out>>

AbsClose ==
  /\ phase = "ready" /\ \A t \in Threads : ~busy[t]
  /\ phase' = "closed"
  /\ ids' = [t \in Threads |-> <<>>]
  /\ pos' = [t \in Threads |-> 1]
  /\ lo' = 0 /\ hi' = 0
  /\ UNCHANGED <<busy, out>>

AbsNext ==
  \/ AbsOpen \/ AbsRange \/ AbsAbort \/ AbsClose
  \/ \E t \in Threads : AbsBegin(t) \/ AbsServe(t) \/ AbsFinish(t)

AbsSpec == AbsInit /\ [][AbsNext]_absVars
=============================================================================
