------------------------------- MODULE RowStore -------------------------------
(***************************************************************************)
(* patch/row_store.cpp: the store of Engram embedding rows.  Lookups run   *)
(* as CUDA host callbacks, on as many threads as there are streams with a  *)
(* callback due, over one bounded direct-mapped cache whose slots are      *)
(* guarded by 256 striped mutexes.  A cached row is two byte ranges (256   *)
(* weights, 8 scales) and a key; each is read and written in its own step. *)
(* The three atomic counters of row_store_stats, which nothing in the      *)
(* repository reads, are left out.                                         *)
(***************************************************************************)
EXTENDS Integers, Sequences

CONSTANTS
  Threads,      \* threads on which lookups run
  NumRows,      \* rows of the table (the `rows` argument)
  WeightTable,  \* the bytes of the weight tensor in the shard, row by row
  ScaleTable,   \* the bytes of the scale tensor
  Bytes,        \* the values a weight or a scale may have
  Zero,         \* the value of zeroed memory
  Garbage,      \* what uninitialised buffers may hold (torch.empty, the stack)
  Nobody,       \* the owner of a free mutex
  NumLocks,     \* 256 in the code
  Modes,        \* may OFFLOAD_MODE be "ram": the shard mapped and locked in memory
  Budgets,      \* cache budgets, in bytes, a store may be opened with
  Shards,       \* the shard files a store may be opened on
  Ranges,       \* the ownership ranges callers set
  Batches,      \* the id sequences a lookup may be handed
  MaxLen,       \* length of the caller's buffers
  MaxCalls      \* bound: lookups begun on one open store

RowId == 0 .. NumRows - 1
Rows == [w : Bytes, s : Bytes]

ASSUME TableAssumption ==
  /\ NumRows \in Nat
  /\ WeightTable \in [RowId -> Bytes] /\ ScaleTable \in [RowId -> Bytes]
  /\ Zero \in Bytes /\ Garbage \subseteq Rows
ASSUME LockAssumption == NumLocks \in Nat \ {0} /\ Nobody \notin Threads
ASSUME CallerAssumption ==
  /\ Modes \subseteq BOOLEAN /\ Budgets \subseteq Nat
  /\ Ranges \subseteq Int \X Int
  /\ MaxLen \in Nat /\ MaxCalls \in Nat
  /\ \A b \in Batches : b \in Seq(Int) /\ Len(b) <= MaxLen
  /\ \A f \in Shards : f.size \in Nat /\ f.woff \in Nat /\ f.soff \in Nat

VARIABLES
  phase,    \* "closed", "open", "ready" (range set), "refused", "aborted"
  slots,    \* s->slots
  ram,      \* OFFLOAD_MODE of this process
  lo, hi,   \* s->row_lo, s->row_hi
  keys,     \* s->keys[slot]: id + 1 of the cached row, 0 for an empty slot
  cache,    \* s->cache, a [w, s] record per slot
  lock,     \* s->locks: the thread that holds each mutex, or Nobody
  pc, ids, pos, row, out,   \* per thread: location, work->ids, i, row, buffers
  calls     \* lookups begun since the store was opened

store == <<phase, slots, lo, hi, ram>>
vars == <<phase, slots, ram, lo, hi, keys, cache, lock, pc, ids, pos, row, out, calls>>

SlotBytes == 264 + 8
ZeroRow == [w |-> Zero, s |-> Zero]
TableRow(id) == [w |-> WeightTable[id], s |-> ScaleTable[id]]

(***************************************************************************)
(* Opening, owning a range, closing                                        *)
(***************************************************************************)
ExtentOK(f) ==
  /\ f.woff <= f.size /\ f.soff <= f.size
  /\ NumRows <= (f.size - f.woff) \div 256
  /\ NumRows <= (f.size - f.soff) \div 8

SlotsFor(budget) == IF ram THEN 0 ELSE budget \div SlotBytes

\* Anonymous mappings of n slots: every key and every byte is zero.
NoKeys(n) == [k \in 0 .. n - 1 |-> 0]
ZeroCache(n) == [k \in 0 .. n - 1 |-> ZeroRow]
Unlocked == [l \in 0 .. NumLocks - 1 |-> Nobody]

Init ==
  /\ phase = "closed" /\ slots = 0 /\ ram \in Modes /\ lo = 0 /\ hi = 0
  /\ keys = NoKeys(0) /\ cache = ZeroCache(0) /\ lock = Unlocked
  /\ calls = 0
  /\ pc = [t \in Threads |-> "idle"]
  /\ ids = [t \in Threads |-> <<>>]
  /\ pos = [t \in Threads |-> 1]
  /\ \E g \in Garbage : /\ row = [t \in Threads |-> g]
                       /\ out = [t \in Threads |-> [i \in 1 .. MaxLen |-> g]]

\* open(2) fails: row_store_open returns nullptr and the caller gives up.
OpenRefused ==
  /\ phase = "closed"
  /\ phase' = "refused"
  /\ UNCHANGED <<slots, ram, lo, hi, keys, cache, lock, pc, ids, pos, row, out, calls>>

\* A shard too small for the table, a shard the kernel cannot map or lock in
\* memory, or a cache it cannot allocate.
OpenFails(f, budget) ==
  /\ phase = "closed"
  /\ ~ExtentOK(f) \/ ram \/ SlotsFor(budget) > 0
  /\ phase' = "aborted"
  /\ UNCHANGED <<slots, ram, lo, hi, keys, cache, lock, pc, ids, pos, row, out, calls>>

Open(f, budget) ==
  /\ phase = "closed" /\ ExtentOK(f)
  /\ phase' = "open"
  /\ slots' = SlotsFor(budget)
  /\ lo' = 0 /\ hi' = NumRows
  /\ keys' = NoKeys(slots') /\ cache' = ZeroCache(slots') /\ lock' = Unlocked
  /\ calls' = 0
  /\ UNCHANGED <<ram, pc, ids, pos, row, out>>

\* row_store_range, which every caller calls once, between open and lookups.
SetRange(l, h) ==
  /\ phase = "open"
  /\ IF l < 0 \/ l > h \/ h > NumRows
       THEN phase' = "aborted" /\ UNCHANGED <<lo, hi>>
       ELSE phase' = "ready" /\ lo' = l /\ hi' = h
  /\ UNCHANGED <<slots, ram, keys, cache, lock, pc, ids, pos, row, out, calls>>

\* row_store_close, called when no lookup is running.  The buffers stay with
\* the caller; ids and pos forget which store their contents came from.
Close ==
  /\ phase = "ready" /\ \A t \in Threads : pc[t] = "idle"
  /\ phase' = "closed"
  /\ slots' = 0 /\ keys' = NoKeys(0) /\ cache' = ZeroCache(0)
  /\ lo' = 0 /\ hi' = 0
  /\ calls' = 0
  /\ ids' = [t \in Threads |-> <<>>] /\ pos' = [t \in Threads |-> 1]
  /\ UNCHANGED <<ram, lock, pc, row, out>>

(***************************************************************************)
(* row_store_lookup                                                        *)
(***************************************************************************)
Id(t) == ids[t][pos[t]]
MutOwnedClosed(id) == lo <= id /\ id <= hi   \* mutant: hi taken as inclusive
Owned(id) == lo <= id /\ id < hi
Slot(id) == IF slots > 0 THEN id % slots ELSE 0
MutLockById(id) == id % NumLocks     \* mutant: stripes chosen by row, not slot
LockOf(id) == Slot(id) % NumLocks
MutKeyBare(id) == id                 \* mutant: key 0 is both row 0 and empty
MutKeyPlusTwo(id) == id + 2          \* mutant: off by one in the key
KeyOf(id) == id + 1
Cached(id) == slots > 0 /\ keys[Slot(id)] = KeyOf(id)

At(t, label) == phase = "ready" /\ pc[t] = label
Goto(t, label) == pc' = [pc EXCEPT ![t] = label]
Advance(t) == pos' = [pos EXCEPT ![t] = @ + 1]
Write(t, r) == out' = [out EXCEPT ![t][pos[t]] = r]

Begin(t, b) ==
  /\ At(t, "idle") /\ calls < MaxCalls
  /\ ids' = [ids EXCEPT ![t] = b]
  /\ pos' = [pos EXCEPT ![t] = 1]
  /\ calls' = calls + 1
  /\ Goto(t, "row")
  /\ UNCHANGED <<store, keys, cache, lock, row, out>>

Finish(t) ==
  /\ At(t, "row") /\ pos[t] > Len(ids[t])
  /\ Goto(t, "idle")
  /\ UNCHANGED <<store, keys, cache, lock, ids, pos, row, out, calls>>

OutOfBounds(t) ==
  /\ At(t, "row") /\ pos[t] <= Len(ids[t]) /\ Id(t) \notin RowId
  /\ phase' = "aborted"
  /\ UNCHANGED <<slots, ram, lo, hi, keys, cache, lock, pc, ids, pos, row, out, calls>>

\* mutant: the row of another rank is skipped without zeroing the buffers
MutServeNothing(t) ==
  /\ At(t, "row") /\ pos[t] <= Len(ids[t]) /\ Id(t) \in RowId /\ ~Owned(Id(t))
  /\ Advance(t)
  /\ UNCHANGED <<store, keys, cache, lock, pc, ids, row, out, calls>>

ServeUnowned(t) ==
  /\ At(t, "row") /\ pos[t] <= Len(ids[t]) /\ Id(t) \in RowId /\ ~Owned(Id(t))
  /\ Write(t, ZeroRow)
  /\ Advance(t)
  /\ UNCHANGED <<store, keys, cache, lock, pc, ids, row, calls>>

Acquire(t) ==
  /\ At(t, "row") /\ pos[t] <= Len(ids[t]) /\ Id(t) \in RowId /\ Owned(Id(t))
  /\ lock[LockOf(Id(t))] = Nobody
  /\ lock' = [lock EXCEPT ![LockOf(Id(t))] = t]
  /\ Goto(t, "locked")
  /\ UNCHANGED <<store, keys, cache, ids, pos, row, out, calls>>

HitWeight(t) ==
  /\ At(t, "locked") /\ Cached(Id(t))
  /\ row' = [row EXCEPT ![t].w = cache[Slot(Id(t))].w]
  /\ Goto(t, "hitScale")
  /\ UNCHANGED <<store, keys, cache, lock, ids, pos, out, calls>>

HitScale(t) ==
  /\ At(t, "hitScale")
  /\ row' = [row EXCEPT ![t].s = cache[Slot(Id(t))].s]
  /\ Goto(t, "unlock")
  /\ UNCHANGED <<store, keys, cache, lock, ids, pos, out, calls>>

ReadWeight(t) ==
  /\ At(t, "locked") /\ ~Cached(Id(t))
  /\ row' = [row EXCEPT ![t].w = WeightTable[Id(t)]]
  /\ Goto(t, "readScale")
  /\ UNCHANGED <<store, keys, cache, lock, ids, pos, out, calls>>

ReadScale(t) ==
  /\ At(t, "readScale")
  /\ row' = [row EXCEPT ![t].s = ScaleTable[Id(t)]]
  /\ Goto(t, IF slots > 0 THEN "fillWeight" ELSE "unlock")
  /\ UNCHANGED <<store, keys, cache, lock, ids, pos, out, calls>>

\* A short or failed pread aborts the process (a mapped shard cannot fail).
ReadFails(t) ==
  /\ ~ram
  /\ \/ At(t, "locked") /\ ~Cached(Id(t))
     \/ At(t, "readScale")
  /\ phase' = "aborted"
  /\ UNCHANGED <<slots, ram, lo, hi, keys, cache, lock, pc, ids, pos, row, out, calls>>

FillWeight(t) ==
  /\ At(t, "fillWeight")
  /\ cache' = [cache EXCEPT ![Slot(Id(t))].w = row[t].w]
  /\ Goto(t, "fillScale")
  /\ UNCHANGED <<store, keys, lock, ids, pos, row, out, calls>>

FillScale(t) ==
  /\ At(t, "fillScale")
  /\ cache' = [cache EXCEPT ![Slot(Id(t))].s = row[t].s]
  /\ Goto(t, "publish")
  /\ UNCHANGED <<store, keys, lock, ids, pos, row, out, calls>>

Publish(t) ==
  /\ At(t, "publish")
  /\ keys' = [keys EXCEPT ![Slot(Id(t))] = KeyOf(Id(t))]
  /\ Goto(t, "unlock")
  /\ UNCHANGED <<store, cache, lock, ids, pos, row, out, calls>>

\* mutant: the mutex is left locked on the way out
MutReleaseNothing(t) ==
  /\ At(t, "unlock")
  /\ Goto(t, "deliver")
  /\ UNCHANGED <<store, keys, cache, lock, ids, pos, row, out, calls>>

Release(t) ==
  /\ At(t, "unlock")
  /\ lock' = [lock EXCEPT ![LockOf(Id(t))] = Nobody]
  /\ Goto(t, "deliver")
  /\ UNCHANGED <<store, keys, cache, ids, pos, row, out, calls>>

Deliver(t) ==
  /\ At(t, "deliver")
  /\ Write(t, row[t])
  /\ Advance(t)
  /\ Goto(t, "row")
  /\ UNCHANGED <<store, keys, cache, lock, ids, row, calls>>

Step(t) ==
  \/ Finish(t) \/ OutOfBounds(t) \/ ServeUnowned(t) \/ Acquire(t)
  \/ HitWeight(t) \/ HitScale(t)
  \/ ReadWeight(t) \/ ReadScale(t) \/ ReadFails(t)
  \/ FillWeight(t) \/ FillScale(t) \/ Publish(t)
  \/ Release(t) \/ Deliver(t)

Next ==
  \/ OpenRefused \/ Close
  \/ \E f \in Shards, budget \in Budgets : Open(f, budget) \/ OpenFails(f, budget)
  \/ \E r \in Ranges : SetRange(r[1], r[2])
  \/ \E t \in Threads : Step(t) \/ \E b \in Batches : Begin(t, b)

Spec == Init /\ [][Next]_vars

\* The scheduler runs every callback thread; nothing makes a caller begin.
FairSpec == Spec /\ \A t \in Threads : WF_vars(Step(t))

(***************************************************************************)
(* Properties                                                              *)
(***************************************************************************)
Labels == {"idle", "row", "locked", "hitScale", "readScale", "fillWeight",
           "fillScale", "publish", "unlock", "deliver"}
Critical == {"locked", "hitScale", "readScale", "fillWeight", "fillScale",
             "publish", "unlock"}

\* Every variable holds a value of its kind; a key is 0 or a row's number plus
\* one, and no lookup's position leaves its batch.
TypeOK ==
  /\ phase \in {"closed", "open", "ready", "refused", "aborted"}
  /\ slots \in Nat /\ ram \in Modes /\ (ram => slots = 0) /\ lo \in 0 .. NumRows /\ hi \in lo .. NumRows
  /\ keys \in [0 .. slots - 1 -> 0 .. NumRows]
  /\ cache \in [0 .. slots - 1 -> Rows]
  /\ lock \in [0 .. NumLocks - 1 -> Threads \cup {Nobody}]
  /\ calls \in 0 .. MaxCalls
  /\ pc \in [Threads -> Labels]
  /\ ids \in [Threads -> Batches \cup {<<>>}]
  /\ pos \in [Threads -> Nat]
  /\ \A t \in Threads : pos[t] \in 1 .. Len(ids[t]) + 1
  /\ row \in [Threads -> Rows]
  /\ out \in [Threads -> [1 .. MaxLen -> Rows]]

\* Two threads never work on one cache slot at a time, whatever the stripe
\* table does with the slots that share a mutex (row_store.cpp:99-100).
SlotExclusion ==
  \A t, u \in Threads :
    t # u /\ pc[t] \in Critical /\ pc[u] \in Critical => Slot(Id(t)) # Slot(Id(u))

BeingFilled(k) ==
  \E t \in Threads : pc[t] \in {"fillScale", "publish"} /\ Slot(Id(t)) = k

\* A slot that carries a row's key holds both byte ranges of exactly that row,
\* unless the thread that owns the slot is in the middle of replacing it; an
\* empty slot never passes for row 0 (row_store.cpp:101, 108-111).
CacheCoherent ==
  \A k \in DOMAIN keys : keys[k] # 0 =>
    /\ keys[k] - 1 \in RowId /\ Slot(keys[k] - 1) = k
    /\ ~BeingFilled(k) => cache[k] = TableRow(keys[k] - 1)

Abs == INSTANCE ExactRetrieval WITH busy <- [t \in Threads |-> pc[t] # "idle"]

\* Every row a lookup has passed is in the caller's buffers as the table has it,
\* or as zeros when another rank owns it, through hits, misses, evictions and
\* lookups on other threads; a lookup that returned has served its whole batch
\* (row_store.cpp:1 and the comment at :35).
ExactDelivery ==
  \A t \in Threads :
    /\ \A i \in 1 .. pos[t] - 1 :
         ids[t][i] \in RowId /\ out[t][i] = Abs!Expected(ids[t][i])
    /\ pc[t] = "idle" => pos[t] = Len(ids[t]) + 1

\* The store implements the cacheless, lockless specification of a row table.
Implements == Abs!AbsSpec

\* A lookup that began returns, or has taken the process down: no mutex is left
\* locked, no pair of lookups waits on each other (row_store.cpp:90-117).
LookupReturns ==
  \A t \in Threads : pc[t] # "idle" ~> (pc[t] = "idle" \/ phase = "aborted")
=============================================================================
