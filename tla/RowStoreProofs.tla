---------------------------- MODULE RowStoreProofs ----------------------------
(***************************************************************************)
(* Proofs about RowStore, for any number of threads, rows, slots, mutexes, *)
(* batches and calls.                                                      *)
(***************************************************************************)
EXTENDS RowStore, TLAPS

Working == Critical \cup {"deliver"}
Filling == {"fillWeight", "fillScale", "publish"}

\* Before a range is set no lookup runs and no buffer is promised anything.
Quiet ==
  phase \in {"closed", "open", "refused"} =>
    \A t \in Threads : pc[t] = "idle" /\ ids[t] = <<>> /\ pos[t] = 1

\* A thread inside row_store_lookup's loop body serves a row it owns ...
Serving ==
  \A t \in Threads : pc[t] \in Working =>
    pos[t] <= Len(ids[t]) /\ Id(t) \in RowId /\ Owned(Id(t))

\* ... and between lock and unlock it holds the mutex of that row's slot.
LockHeld ==
  \A t \in Threads : pc[t] \in Critical => lock[LockOf(Id(t))] = t

\* What the private row, and the slot being replaced, hold at each point.
RowBuffer ==
  \A t \in Threads :
    /\ pc[t] \in {"hitScale", "readScale"} => row[t].w = WeightTable[Id(t)]
    /\ pc[t] \in Filling \cup {"unlock", "deliver"} => row[t] = TableRow(Id(t))
    /\ pc[t] \in Filling \cup {"hitScale"} => slots > 0
    /\ pc[t] = "hitScale" => keys[Slot(Id(t))] = KeyOf(Id(t))
    /\ pc[t] = "fillScale" => cache[Slot(Id(t))].w = WeightTable[Id(t)]
    /\ pc[t] = "publish" => cache[Slot(Id(t))] = TableRow(Id(t))

IInv ==
  /\ TypeOK /\ Quiet /\ Serving /\ LockHeld
  /\ RowBuffer /\ CacheCoherent /\ ExactDelivery

(***************************************************************************)
(* Lemmas about the helpers                                                *)
(***************************************************************************)
\* A row of the table is a pair of byte ranges, and so is a zeroed one.
LEMMA RowsTyped ==
  /\ ZeroRow \in Rows
  /\ \A id \in RowId : TableRow(id) \in Rows
BY TableAssumption DEF ZeroRow, TableRow, Rows

\* Two rows with the same weights and scales are the same row.
LEMMA RowExtensional ==
  ASSUME NEW r \in Rows, NEW id \in RowId,
         r.w = WeightTable[id], r.s = ScaleTable[id]
  PROVE  r = TableRow(id)
BY TableAssumption DEF Rows, TableRow

\* The modulo of a cache with slots is a slot, and the mutex it picks exists.
LEMMA SlotRange ==
  ASSUME NEW id \in Int, slots \in Nat
  PROVE  /\ Slot(id) \in Nat
         /\ slots > 0 => Slot(id) \in 0 .. slots - 1
         /\ LockOf(id) \in 0 .. NumLocks - 1
<1>1. Slot(id) \in Nat /\ (slots > 0 => Slot(id) \in 0 .. slots - 1)
  BY DEF Slot
<1>2. LockOf(id) \in 0 .. NumLocks - 1
  BY <1>1, LockAssumption DEF LockOf
<1> QED BY <1>1, <1>2

\* A batch is a sequence of integers no longer than the buffers.
LEMMA BatchTyped ==
  ASSUME NEW b \in Batches \cup {<<>>}
  PROVE  b \in Seq(Int) /\ Len(b) \in 0 .. MaxLen
<1>1. CASE b = <<>>
  <2>1. Len(b) = 0 /\ b \in Seq(Int)
    BY <1>1
  <2> QED BY <2>1, CallerAssumption
<1>2. CASE b \in Batches
  <2>1. b \in Seq(Int) /\ Len(b) <= MaxLen
    BY <1>2, CallerAssumption
  <2>2. Len(b) \in Nat
    BY <2>1
  <2> QED BY <2>1, <2>2, CallerAssumption
<1> QED BY <1>1, <1>2

\* Mutual exclusion follows from the mutexes: one slot has one mutex.
LEMMA Exclusion == LockHeld => SlotExclusion
BY DEF LockHeld, SlotExclusion, LockOf

\* The row a thread works on is a row of the table, and it has a position.
LEMMA ServedRow ==
  ASSUME TypeOK, Serving, NEW t \in Threads, pc[t] \in Working
  PROVE  /\ Id(t) \in RowId /\ Id(t) \in Int
         /\ pos[t] \in 1 .. Len(ids[t]) /\ pos[t] \in 1 .. MaxLen
<1>1. Id(t) \in RowId /\ pos[t] <= Len(ids[t])
  BY DEF Serving
<1>2. ids[t] \in Batches \cup {<<>>} /\ pos[t] \in 1 .. Len(ids[t]) + 1 /\ pos[t] \in Nat
  BY DEF TypeOK
<1>3. Len(ids[t]) \in 0 .. MaxLen
  BY <1>2, BatchTyped
<1>4. MaxLen \in Nat
  BY CallerAssumption
<1>5. pos[t] \in 1 .. Len(ids[t]) /\ pos[t] \in 1 .. MaxLen
  BY <1>1, <1>2, <1>3, <1>4
<1>6. Id(t) \in Int
  BY <1>1, TableAssumption DEF RowId
<1> QED BY <1>1, <1>5, <1>6

\* Initially nothing is cached, locked, delivered or running.
LEMMA InitIInv == Init => IInv
<1> SUFFICES ASSUME Init PROVE IInv
  OBVIOUS
<1>1. TypeOK
  <2>1. keys \in [0 .. slots - 1 -> 0 .. NumRows] /\ cache \in [0 .. slots - 1 -> Rows]
    BY RowsTyped DEF Init, NoKeys, ZeroCache
  <2>2. lock \in [0 .. NumLocks - 1 -> Threads \cup {Nobody}]
    BY DEF Init, Unlocked
  <2>3. PICK g \in Garbage : row = [t \in Threads |-> g]
                           /\ out = [t \in Threads |-> [i \in 1 .. MaxLen |-> g]]
    BY DEF Init
  <2>4. row \in [Threads -> Rows] /\ out \in [Threads -> [1 .. MaxLen -> Rows]]
    BY <2>3, TableAssumption
  <2>8. ram \in Modes /\ (ram => slots = 0)
    BY DEF Init
  <2>5. slots \in Nat /\ lo \in 0 .. NumRows /\ hi \in lo .. NumRows /\ calls \in 0 .. MaxCalls
    BY TableAssumption, CallerAssumption DEF Init
  <2>6. ASSUME NEW t \in Threads PROVE pos[t] \in 1 .. Len(ids[t]) + 1
    <3>1. pos[t] = 1 /\ ids[t] = <<>>
      BY DEF Init
    <3> QED BY <3>1
  <2>7. /\ phase \in {"closed", "open", "ready", "refused", "aborted"}
        /\ pos \in [Threads -> Nat] /\ pc \in [Threads -> Labels]
        /\ ids \in [Threads -> Batches \cup {<<>>}]
    BY DEF Init, Labels
  <2> QED BY <2>1, <2>2, <2>4, <2>5, <2>6, <2>7, <2>8 DEF TypeOK
<1>2. Quiet /\ Serving /\ LockHeld /\ RowBuffer
  BY DEF Init, Quiet, Serving, LockHeld, RowBuffer, Working, Critical, Filling
<1>3. CacheCoherent
  BY DEF Init, CacheCoherent, NoKeys
<1>4. ExactDelivery
  <2>0. \A t \in Threads : pos[t] = 1 /\ ids[t] = <<>>
    BY DEF Init
  <2>1. ASSUME NEW t \in Threads PROVE pos[t] = Len(ids[t]) + 1
    <3>1. pos[t] = 1 /\ ids[t] = <<>>
      BY <2>0
    <3> QED BY <3>1
  <2>2. \A t \in Threads : \A i \in 1 .. pos[t] - 1 : FALSE
    BY <2>0
  <2> QED BY <2>1, <2>2 DEF ExactDelivery
<1> QED BY <1>1, <1>2, <1>3, <1>4 DEF IInv
\* An unchanged slot count leaves every row its slot and mutex ...
LEMMA SlotFrame ==
  ASSUME UNCHANGED slots
  PROVE  \A id : Slot(id)' = Slot(id) /\ LockOf(id)' = LockOf(id)
BY DEF Slot, LockOf

\* ... and an unchanged range leaves every row its owner.
LEMMA RangeFrame ==
  ASSUME UNCHANGED <<lo, hi>>
  PROVE  \A id : Owned(id)' = Owned(id) /\ Abs!Expected(id)' = Abs!Expected(id)
BY DEF Owned, Abs!Expected

\* A coherent slot that carries a row's key holds the row.
LEMMA CachedRow ==
  ASSUME TypeOK, CacheCoherent, NEW id \in RowId, NEW k \in 0 .. slots - 1,
         keys[k] = KeyOf(id), ~BeingFilled(k)
  PROVE  cache[k] = TableRow(id)
<1>1. id \in Nat
  BY TableAssumption DEF RowId
<1>2. k \in DOMAIN keys /\ keys[k] # 0 /\ keys[k] - 1 = id
  BY <1>1 DEF TypeOK, KeyOf
<1> QED BY <1>2 DEF CacheCoherent

(***************************************************************************)
(* One lemma per operation: the inductive invariant is preserved           *)
(***************************************************************************)

\* Copying cached weights out of a slot nobody is filling.
LEMMA HitWeightStep ==
  ASSUME IInv, NEW t \in Threads, HitWeight(t)
  PROVE  IInv'
<1> USE DEF HitWeight, At, Goto, store, IInv
<1>1. \A id : /\ Slot(id)' = Slot(id) /\ LockOf(id)' = LockOf(id)
             /\ Owned(id)' = Owned(id) /\ Abs!Expected(id)' = Abs!Expected(id)
  BY SlotFrame, RangeFrame
<1>2. \A u \in Threads : Id(u)' = Id(u)
  BY DEF Id
<1>3. /\ pc[t] = "locked" /\ pc'[t] = "hitScale"
      /\ \A u \in Threads \ {t} : pc'[u] = pc[u]
  BY DEF TypeOK
<1>4. Id(t) \in RowId /\ Id(t) \in Int /\ pos[t] \in 1 .. MaxLen
  BY <1>3, ServedRow DEF Working, Critical
<1>5. /\ slots > 0 => Slot(Id(t)) \in 0 .. slots - 1
      /\ LockOf(Id(t)) \in 0 .. NumLocks - 1
  BY <1>4, SlotRange DEF TypeOK
<1>6. SlotExclusion
  BY Exclusion
<1>7. TypeOK'
  <2>1. slots > 0
    BY DEF Cached
  <2>2. cache[Slot(Id(t))].w \in Bytes
    BY <2>1, <1>5 DEF TypeOK, Rows
  <2> QED BY <2>2, <1>3 DEF TypeOK, Labels, Rows
<1>8. Quiet'
  BY DEF Quiet
<1>9. Serving'
  BY <1>1, <1>2, <1>3 DEF Serving, Working, Critical
<1>10. LockHeld'
  BY <1>1, <1>2, <1>3, <1>5 DEF LockHeld, Critical, TypeOK
<1>11. RowBuffer'
  <2>1. slots > 0 /\ keys[Slot(Id(t))] = KeyOf(Id(t))
    BY DEF Cached
  <2>2. ~BeingFilled(Slot(Id(t)))
    BY <1>3, <1>6 DEF SlotExclusion, BeingFilled, Critical
  <2>3. cache[Slot(Id(t))] = TableRow(Id(t))
    BY <2>1, <2>2, <1>4, <1>5, CachedRow
  <2>4. row'[t].w = WeightTable[Id(t)] /\ \A u \in Threads \ {t} : row'[u] = row[u]
    BY <2>3 DEF TableRow, TypeOK, Rows
  <2> QED BY <2>1, <2>4, <1>1, <1>2, <1>3 DEF RowBuffer, Filling, TableRow, KeyOf
<1>12. CacheCoherent'
  BY <1>1, <1>2, <1>3 DEF CacheCoherent, BeingFilled, TableRow
<1>13. ExactDelivery'
  BY <1>1, <1>3 DEF ExactDelivery, TypeOK
<1> QED BY <1>7, <1>8, <1>9, <1>10, <1>11, <1>12, <1>13

\* The scales of the same row follow, so the copy is whole.
LEMMA HitScaleStep ==
  ASSUME IInv, NEW t \in Threads, HitScale(t)
  PROVE  IInv'
<1> USE DEF HitScale, At, Goto, store, IInv
<1>1. \A id : /\ Slot(id)' = Slot(id) /\ LockOf(id)' = LockOf(id)
             /\ Owned(id)' = Owned(id) /\ Abs!Expected(id)' = Abs!Expected(id)
  BY SlotFrame, RangeFrame
<1>2. \A u \in Threads : Id(u)' = Id(u)
  BY DEF Id
<1>3. /\ pc[t] = "hitScale" /\ pc'[t] = "unlock"
      /\ \A u \in Threads \ {t} : pc'[u] = pc[u]
  BY DEF TypeOK
<1>4. Id(t) \in RowId /\ Id(t) \in Int /\ pos[t] \in 1 .. MaxLen
  BY <1>3, ServedRow DEF Working, Critical
<1>5. /\ slots > 0 => Slot(Id(t)) \in 0 .. slots - 1
      /\ LockOf(Id(t)) \in 0 .. NumLocks - 1
  BY <1>4, SlotRange DEF TypeOK
<1>6. SlotExclusion
  BY Exclusion
<1>7. TypeOK'
  <2>1. slots > 0
    BY <1>3 DEF RowBuffer
  <2>2. cache[Slot(Id(t))].s \in Bytes
    BY <2>1, <1>5 DEF TypeOK, Rows
  <2>3. row' \in [Threads -> Rows]
    BY <2>2 DEF TypeOK, Rows
  <2> QED BY <2>3, <1>3 DEF TypeOK, Labels
<1>8. Quiet'
  BY DEF Quiet
<1>9. Serving'
  BY <1>1, <1>2, <1>3 DEF Serving, Working, Critical
<1>10. LockHeld'
  BY <1>1, <1>2, <1>3, <1>5 DEF LockHeld, Critical, TypeOK
<1>11. RowBuffer'
  <2>1. slots > 0 /\ keys[Slot(Id(t))] = KeyOf(Id(t)) /\ row[t].w = WeightTable[Id(t)]
    BY <1>3 DEF RowBuffer, Filling
  <2>2. ~BeingFilled(Slot(Id(t)))
    BY <1>3, <1>6 DEF SlotExclusion, BeingFilled, Critical
  <2>3. cache[Slot(Id(t))] = TableRow(Id(t))
    BY <2>1, <2>2, <1>4, <1>5, CachedRow
  <2>4. /\ row'[t].w = WeightTable[Id(t)] /\ row'[t].s = ScaleTable[Id(t)]
        /\ \A u \in Threads \ {t} : row'[u] = row[u]
    BY <2>1, <2>3 DEF TableRow, TypeOK, Rows
  <2>5. row'[t] \in Rows
    BY <1>7 DEF TypeOK
  <2>6. row'[t] = TableRow(Id(t))
    BY <2>4, <2>5, <1>4, RowExtensional
  <2> QED BY <2>4, <2>6, <1>1, <1>2, <1>3 DEF RowBuffer, Filling, TableRow, KeyOf
<1>12. CacheCoherent'
  BY <1>1, <1>2, <1>3 DEF CacheCoherent, BeingFilled, TableRow
<1>13. ExactDelivery'
  BY <1>1, <1>3 DEF ExactDelivery, TypeOK
<1> QED BY <1>7, <1>8, <1>9, <1>10, <1>11, <1>12, <1>13

\* The weights are read from the table itself.
LEMMA ReadWeightStep ==
  ASSUME IInv, NEW t \in Threads, ReadWeight(t)
  PROVE  IInv'
<1> USE DEF ReadWeight, At, Goto, store, IInv
<1>1. \A id : /\ Slot(id)' = Slot(id) /\ LockOf(id)' = LockOf(id)
             /\ Owned(id)' = Owned(id) /\ Abs!Expected(id)' = Abs!Expected(id)
  BY SlotFrame, RangeFrame
<1>2. \A u \in Threads : Id(u)' = Id(u)
  BY DEF Id
<1>3. /\ pc[t] = "locked" /\ pc'[t] = "readScale"
      /\ \A u \in Threads \ {t} : pc'[u] = pc[u]
  BY DEF TypeOK
<1>4. Id(t) \in RowId /\ Id(t) \in Int /\ pos[t] \in 1 .. MaxLen
  BY <1>3, ServedRow DEF Working, Critical
<1>5. /\ slots > 0 => Slot(Id(t)) \in 0 .. slots - 1
      /\ LockOf(Id(t)) \in 0 .. NumLocks - 1
  BY <1>4, SlotRange DEF TypeOK
<1>6. SlotExclusion
  BY Exclusion
<1>7. TypeOK'
  <2>1. WeightTable[Id(t)] \in Bytes
    BY <1>4, TableAssumption
  <2>2. row' \in [Threads -> Rows]
    BY <2>1 DEF TypeOK, Rows
  <2> QED BY <2>2, <1>3 DEF TypeOK, Labels
<1>8. Quiet'
  BY DEF Quiet
<1>9. Serving'
  BY <1>1, <1>2, <1>3 DEF Serving, Working, Critical
<1>10. LockHeld'
  BY <1>1, <1>2, <1>3, <1>5 DEF LockHeld, Critical, TypeOK
<1>11. RowBuffer'
  <2>1. row'[t].w = WeightTable[Id(t)] /\ \A u \in Threads \ {t} : row'[u] = row[u]
    BY DEF TypeOK, Rows
  <2> QED BY <2>1, <1>1, <1>2, <1>3 DEF RowBuffer, Filling, TableRow, KeyOf
<1>12. CacheCoherent'
  BY <1>1, <1>2, <1>3 DEF CacheCoherent, BeingFilled, TableRow
<1>13. ExactDelivery'
  BY <1>1, <1>3 DEF ExactDelivery, TypeOK
<1> QED BY <1>7, <1>8, <1>9, <1>10, <1>11, <1>12, <1>13

\* So are the scales: the row buffer is the table's row.
LEMMA ReadScaleStep ==
  ASSUME IInv, NEW t \in Threads, ReadScale(t)
  PROVE  IInv'
<1> USE DEF ReadScale, At, Goto, store, IInv
<1>1. \A id : /\ Slot(id)' = Slot(id) /\ LockOf(id)' = LockOf(id)
             /\ Owned(id)' = Owned(id) /\ Abs!Expected(id)' = Abs!Expected(id)
  BY SlotFrame, RangeFrame
<1>2. \A u \in Threads : Id(u)' = Id(u)
  BY DEF Id
<1>3. /\ pc[t] = "readScale" /\ pc'[t] = IF slots > 0 THEN "fillWeight" ELSE "unlock"
      /\ \A u \in Threads \ {t} : pc'[u] = pc[u]
  BY DEF TypeOK
<1>4. Id(t) \in RowId /\ Id(t) \in Int /\ pos[t] \in 1 .. MaxLen
  BY <1>3, ServedRow DEF Working, Critical
<1>5. /\ slots > 0 => Slot(Id(t)) \in 0 .. slots - 1
      /\ LockOf(Id(t)) \in 0 .. NumLocks - 1
  BY <1>4, SlotRange DEF TypeOK
<1>6. SlotExclusion
  BY Exclusion
<1>7. TypeOK'
  <2>1. ScaleTable[Id(t)] \in Bytes
    BY <1>4, TableAssumption
  <2>2. row' \in [Threads -> Rows]
    BY <2>1 DEF TypeOK, Rows
  <2> QED BY <2>2, <1>3 DEF TypeOK, Labels
<1>8. Quiet'
  BY DEF Quiet
<1>9. Serving'
  BY <1>1, <1>2, <1>3 DEF Serving, Working, Critical
<1>10. LockHeld'
  BY <1>1, <1>2, <1>3, <1>5 DEF LockHeld, Critical, TypeOK
<1>11. RowBuffer'
  <2>1. row[t].w = WeightTable[Id(t)]
    BY <1>3 DEF RowBuffer
  <2>2. /\ row'[t].w = WeightTable[Id(t)] /\ row'[t].s = ScaleTable[Id(t)]
        /\ \A u \in Threads \ {t} : row'[u] = row[u]
    BY <2>1 DEF TypeOK, Rows
  <2>3. row'[t] \in Rows
    BY <1>7 DEF TypeOK
  <2>4. row'[t] = TableRow(Id(t))
    BY <2>2, <2>3, <1>4, RowExtensional
  <2> QED BY <2>2, <2>4, <1>1, <1>2, <1>3 DEF RowBuffer, Filling, TableRow, KeyOf
<1>12. CacheCoherent'
  BY <1>1, <1>2, <1>3 DEF CacheCoherent, BeingFilled, TableRow
<1>13. ExactDelivery'
  BY <1>1, <1>3 DEF ExactDelivery, TypeOK
<1> QED BY <1>7, <1>8, <1>9, <1>10, <1>11, <1>12, <1>13

\* The weights of the slot change under its mutex.
LEMMA FillWeightStep ==
  ASSUME IInv, NEW t \in Threads, FillWeight(t)
  PROVE  IInv'
<1> USE DEF FillWeight, At, Goto, store, IInv
<1>1. \A id : /\ Slot(id)' = Slot(id) /\ LockOf(id)' = LockOf(id)
             /\ Owned(id)' = Owned(id) /\ Abs!Expected(id)' = Abs!Expected(id)
  BY SlotFrame, RangeFrame
<1>2. \A u \in Threads : Id(u)' = Id(u)
  BY DEF Id
<1>3. /\ pc[t] = "fillWeight" /\ pc'[t] = "fillScale"
      /\ \A u \in Threads \ {t} : pc'[u] = pc[u]
  BY DEF TypeOK
<1>4. Id(t) \in RowId /\ Id(t) \in Int /\ pos[t] \in 1 .. MaxLen
  BY <1>3, ServedRow DEF Working, Critical
<1>5. /\ slots > 0 => Slot(Id(t)) \in 0 .. slots - 1
      /\ LockOf(Id(t)) \in 0 .. NumLocks - 1
  BY <1>4, SlotRange DEF TypeOK
<1>6. SlotExclusion
  BY Exclusion
<1>7. TypeOK'
  <2>1. slots > 0 /\ row[t] \in Rows
    BY <1>3 DEF RowBuffer, Filling, TypeOK
  <2> QED BY <2>1, <1>3, <1>5 DEF TypeOK, Labels, Rows
<1>8. Quiet'
  BY DEF Quiet
<1>9. Serving'
  BY <1>1, <1>2, <1>3 DEF Serving, Working, Critical
<1>10. LockHeld'
  BY <1>1, <1>2, <1>3, <1>5 DEF LockHeld, Critical, TypeOK
<1>11. RowBuffer'
  <2>1. slots > 0 /\ row[t] = TableRow(Id(t))
    BY <1>3 DEF RowBuffer, Filling
  <2>2. cache'[Slot(Id(t))].w = WeightTable[Id(t)]
    BY <2>1, <1>5 DEF TypeOK, Rows, TableRow
  <2>3. \A u \in Threads \ {t} : pc[u] \in {"fillScale", "publish"} =>
        cache'[Slot(Id(u))] = cache[Slot(Id(u))]
    BY <1>3, <1>6 DEF SlotExclusion, Critical, TypeOK
  <2>4. \A u \in Threads \ {t} : pc[u] = "fillScale" => cache'[Slot(Id(u))].w = WeightTable[Id(u)]
    BY <2>3 DEF RowBuffer
  <2> QED BY <2>1, <2>2, <2>3, <2>4, <1>1, <1>2, <1>3 DEF RowBuffer, Filling, TableRow, KeyOf
<1>12. CacheCoherent'
  <2>1. \A k : k = Slot(Id(t)) => BeingFilled(k)'
    BY <1>1, <1>2, <1>3 DEF BeingFilled
  <2>2. \A k \in DOMAIN keys : k # Slot(Id(t)) =>
        cache'[k] = cache[k] /\ (BeingFilled(k)' <=> BeingFilled(k))
    BY <1>1, <1>2, <1>3 DEF BeingFilled, TypeOK
  <2>3. \A k \in DOMAIN keys : ~BeingFilled(k)' => ~BeingFilled(k) /\ cache'[k] = cache[k]
    BY <2>1, <2>2
  <2> QED BY <2>3, <1>1 DEF CacheCoherent, TableRow
<1>13. ExactDelivery'
  BY <1>1, <1>3 DEF ExactDelivery, TypeOK
<1> QED BY <1>7, <1>8, <1>9, <1>10, <1>11, <1>12, <1>13

\* With the scales the slot holds the row, under its mutex.
LEMMA FillScaleStep ==
  ASSUME IInv, NEW t \in Threads, FillScale(t)
  PROVE  IInv'
<1> USE DEF FillScale, At, Goto, store, IInv
<1>1. \A id : /\ Slot(id)' = Slot(id) /\ LockOf(id)' = LockOf(id)
             /\ Owned(id)' = Owned(id) /\ Abs!Expected(id)' = Abs!Expected(id)
  BY SlotFrame, RangeFrame
<1>2. \A u \in Threads : Id(u)' = Id(u)
  BY DEF Id
<1>3. /\ pc[t] = "fillScale" /\ pc'[t] = "publish"
      /\ \A u \in Threads \ {t} : pc'[u] = pc[u]
  BY DEF TypeOK
<1>4. Id(t) \in RowId /\ Id(t) \in Int /\ pos[t] \in 1 .. MaxLen
  BY <1>3, ServedRow DEF Working, Critical
<1>5. /\ slots > 0 => Slot(Id(t)) \in 0 .. slots - 1
      /\ LockOf(Id(t)) \in 0 .. NumLocks - 1
  BY <1>4, SlotRange DEF TypeOK
<1>6. SlotExclusion
  BY Exclusion
<1>7. TypeOK'
  <2>1. slots > 0 /\ row[t] \in Rows
    BY <1>3 DEF RowBuffer, Filling, TypeOK
  <2> QED BY <2>1, <1>3, <1>5 DEF TypeOK, Labels, Rows
<1>8. Quiet'
  BY DEF Quiet
<1>9. Serving'
  BY <1>1, <1>2, <1>3 DEF Serving, Working, Critical
<1>10. LockHeld'
  BY <1>1, <1>2, <1>3, <1>5 DEF LockHeld, Critical, TypeOK
<1>11. RowBuffer'
  <2>1. slots > 0 /\ row[t] = TableRow(Id(t)) /\ cache[Slot(Id(t))].w = WeightTable[Id(t)]
    BY <1>3 DEF RowBuffer, Filling
  <2>2. cache'[Slot(Id(t))].s = ScaleTable[Id(t)] /\ cache'[Slot(Id(t))].w = WeightTable[Id(t)]
    BY <2>1, <1>5 DEF TypeOK, Rows, TableRow
  <2>3. cache'[Slot(Id(t))] \in Rows
    BY <2>1, <1>5, <1>7 DEF TypeOK
  <2>4. cache'[Slot(Id(t))] = TableRow(Id(t))
    BY <2>2, <2>3, <1>4, RowExtensional
  <2>5. \A u \in Threads \ {t} : pc[u] \in {"fillScale", "publish"} =>
        cache'[Slot(Id(u))] = cache[Slot(Id(u))]
    BY <1>3, <1>6 DEF SlotExclusion, Critical, TypeOK
  <2> QED BY <2>1, <2>4, <2>5, <1>1, <1>2, <1>3 DEF RowBuffer, Filling, TableRow, KeyOf
<1>12. CacheCoherent'
  <2>1. \A k : k = Slot(Id(t)) => BeingFilled(k)'
    BY <1>1, <1>2, <1>3 DEF BeingFilled
  <2>2. \A k \in DOMAIN keys : k # Slot(Id(t)) =>
        cache'[k] = cache[k] /\ (BeingFilled(k)' <=> BeingFilled(k))
    BY <1>1, <1>2, <1>3 DEF BeingFilled, TypeOK
  <2>3. \A k \in DOMAIN keys : ~BeingFilled(k)' => ~BeingFilled(k) /\ cache'[k] = cache[k]
    BY <2>1, <2>2
  <2> QED BY <2>3, <1>1 DEF CacheCoherent, TableRow
<1>13. ExactDelivery'
  BY <1>1, <1>3 DEF ExactDelivery, TypeOK
<1> QED BY <1>7, <1>8, <1>9, <1>10, <1>11, <1>12, <1>13

\* Only then does the slot carry the row's key.
LEMMA PublishStep ==
  ASSUME IInv, NEW t \in Threads, Publish(t)
  PROVE  IInv'
<1> USE DEF Publish, At, Goto, store, IInv
<1>1. \A id : /\ Slot(id)' = Slot(id) /\ LockOf(id)' = LockOf(id)
             /\ Owned(id)' = Owned(id) /\ Abs!Expected(id)' = Abs!Expected(id)
  BY SlotFrame, RangeFrame
<1>2. \A u \in Threads : Id(u)' = Id(u)
  BY DEF Id
<1>3. /\ pc[t] = "publish" /\ pc'[t] = "unlock"
      /\ \A u \in Threads \ {t} : pc'[u] = pc[u]
  BY DEF TypeOK
<1>4. Id(t) \in RowId /\ Id(t) \in Int /\ pos[t] \in 1 .. MaxLen
  BY <1>3, ServedRow DEF Working, Critical
<1>5. /\ slots > 0 => Slot(Id(t)) \in 0 .. slots - 1
      /\ LockOf(Id(t)) \in 0 .. NumLocks - 1
  BY <1>4, SlotRange DEF TypeOK
<1>6. SlotExclusion
  BY Exclusion
<1>7. TypeOK'
  <2>1. slots > 0
    BY <1>3 DEF RowBuffer, Filling
  <2>2. KeyOf(Id(t)) \in 0 .. NumRows
    BY <1>4, TableAssumption DEF KeyOf, RowId
  <2> QED BY <2>1, <2>2, <1>3, <1>5 DEF TypeOK, Labels
<1>8. Quiet'
  BY DEF Quiet
<1>9. Serving'
  BY <1>1, <1>2, <1>3 DEF Serving, Working, Critical
<1>10. LockHeld'
  BY <1>1, <1>2, <1>3, <1>5 DEF LockHeld, Critical, TypeOK
<1>11. RowBuffer'
  <2>1. \A u \in Threads \ {t} : pc[u] = "hitScale" => keys'[Slot(Id(u))] = keys[Slot(Id(u))]
    BY <1>3, <1>6 DEF SlotExclusion, Critical, TypeOK
  <2> QED BY <2>1, <1>1, <1>2, <1>3 DEF RowBuffer, Filling, TableRow, KeyOf
<1>12. CacheCoherent'
  <2>1. slots > 0 /\ cache[Slot(Id(t))] = TableRow(Id(t))
    BY <1>3 DEF RowBuffer, Filling
  <2>2. keys'[Slot(Id(t))] - 1 = Id(t)
    BY <2>1, <1>4, <1>5 DEF TypeOK, KeyOf
  <2>3. \A k \in DOMAIN keys : k # Slot(Id(t)) =>
        keys'[k] = keys[k] /\ (BeingFilled(k)' <=> BeingFilled(k))
    BY <1>1, <1>2, <1>3 DEF BeingFilled, TypeOK
  <2>4. DOMAIN keys' = DOMAIN keys
    OBVIOUS
  <2> QED BY <2>1, <2>2, <2>3, <2>4, <1>1, <1>4 DEF CacheCoherent, TableRow
<1>13. ExactDelivery'
  BY <1>1, <1>3 DEF ExactDelivery, TypeOK
<1> QED BY <1>7, <1>8, <1>9, <1>10, <1>11, <1>12, <1>13

\* The mutex is given back once the private row is whole.
LEMMA ReleaseStep ==
  ASSUME IInv, NEW t \in Threads, Release(t)
  PROVE  IInv'
<1> USE DEF Release, At, Goto, store, IInv
<1>1. \A id : /\ Slot(id)' = Slot(id) /\ LockOf(id)' = LockOf(id)
             /\ Owned(id)' = Owned(id) /\ Abs!Expected(id)' = Abs!Expected(id)
  BY SlotFrame, RangeFrame
<1>2. \A u \in Threads : Id(u)' = Id(u)
  BY DEF Id
<1>3. /\ pc[t] = "unlock" /\ pc'[t] = "deliver"
      /\ \A u \in Threads \ {t} : pc'[u] = pc[u]
  BY DEF TypeOK
<1>4. Id(t) \in RowId /\ Id(t) \in Int /\ pos[t] \in 1 .. MaxLen
  BY <1>3, ServedRow DEF Working, Critical
<1>5. /\ slots > 0 => Slot(Id(t)) \in 0 .. slots - 1
      /\ LockOf(Id(t)) \in 0 .. NumLocks - 1
  BY <1>4, SlotRange DEF TypeOK
<1>6. SlotExclusion
  BY Exclusion
<1>7. TypeOK'
  BY <1>3, <1>4, <1>5 DEF TypeOK, Labels
<1>8. Quiet'
  BY DEF Quiet
<1>9. Serving'
  BY <1>1, <1>2, <1>3 DEF Serving, Working, Critical
<1>10. LockHeld'
  <2>1. \A u \in Threads \ {t} : pc[u] \in Critical => lock[LockOf(Id(u))] = u
    BY DEF LockHeld
  <2>2. lock[LockOf(Id(t))] = t
    BY <1>3 DEF LockHeld, Critical
  <2> QED BY <2>1, <2>2, <1>1, <1>2, <1>3 DEF LockHeld, Critical, TypeOK
<1>11. RowBuffer'
  BY <1>1, <1>2, <1>3, <1>4 DEF RowBuffer, Filling, TableRow, KeyOf, TypeOK
<1>12. CacheCoherent'
  BY <1>1, <1>2, <1>3 DEF CacheCoherent, BeingFilled, TableRow
<1>13. ExactDelivery'
  BY <1>1, <1>3 DEF ExactDelivery, TypeOK
<1> QED BY <1>7, <1>8, <1>9, <1>10, <1>11, <1>12, <1>13

\* The mutex of the row's slot is free, and then it is the thread's.
LEMMA AcquireStep ==
  ASSUME IInv, NEW t \in Threads, Acquire(t)
  PROVE  IInv'
<1> USE DEF Acquire, At, Goto, store, IInv
<1>1. \A id : /\ Slot(id)' = Slot(id) /\ LockOf(id)' = LockOf(id)
             /\ Owned(id)' = Owned(id) /\ Abs!Expected(id)' = Abs!Expected(id)
  BY SlotFrame, RangeFrame
<1>2. \A u \in Threads : Id(u)' = Id(u)
  BY DEF Id
<1>3. /\ pc[t] = "row" /\ pc'[t] = "locked"
      /\ \A u \in Threads \ {t} : pc'[u] = pc[u]
  BY DEF TypeOK
<1>4. Id(t) \in Int /\ LockOf(Id(t)) \in 0 .. NumLocks - 1
  BY SlotRange, TableAssumption DEF RowId, TypeOK
<1>7. TypeOK'
  BY <1>3, <1>4 DEF TypeOK, Labels
<1>8. Quiet'
  BY DEF Quiet
<1>9. Serving'
  BY <1>1, <1>2, <1>3 DEF Serving, Working, Critical
<1>10. LockHeld'
  BY <1>1, <1>2, <1>3, <1>4, LockAssumption DEF LockHeld, Critical, TypeOK
<1>11. RowBuffer'
  BY <1>1, <1>2, <1>3 DEF RowBuffer, Filling, TableRow, KeyOf
<1>12. CacheCoherent'
  BY <1>1, <1>2, <1>3 DEF CacheCoherent, BeingFilled, TableRow
<1>13. ExactDelivery'
  BY <1>1, <1>3 DEF ExactDelivery
<1> QED BY <1>7, <1>8, <1>9, <1>10, <1>11, <1>12, <1>13

\* A new batch starts with nothing served.
LEMMA BeginStep ==
  ASSUME IInv, NEW t \in Threads, NEW b \in Batches, Begin(t, b)
  PROVE  IInv'
<1> USE DEF Begin, At, Goto, store, IInv
<1>1. \A id : /\ Slot(id)' = Slot(id) /\ LockOf(id)' = LockOf(id)
             /\ Owned(id)' = Owned(id) /\ Abs!Expected(id)' = Abs!Expected(id)
  BY SlotFrame, RangeFrame
<1>2. /\ pc[t] = "idle" /\ pc'[t] = "row" /\ ids'[t] = b /\ pos'[t] = 1
      /\ \A u \in Threads \ {t} : /\ pc'[u] = pc[u] /\ ids'[u] = ids[u]
                                 /\ pos'[u] = pos[u]
  BY DEF TypeOK
<1>3. \A u \in Threads \ {t} : Id(u)' = Id(u)
  BY <1>2 DEF Id
<1>7. TypeOK'
  <2>1. Len(b) \in Nat
    BY BatchTyped
  <2>2. \A u \in Threads : pos'[u] \in 1 .. Len(ids'[u]) + 1
    BY <2>1, <1>2 DEF TypeOK
  <2>3. calls' \in 0 .. MaxCalls
    BY CallerAssumption DEF TypeOK
  <2> QED BY <2>2, <2>3 DEF TypeOK, Labels
<1>8. Quiet'
  BY DEF Quiet
<1>9. Serving'
  BY <1>1, <1>2, <1>3 DEF Serving, Working, Critical
<1>10. LockHeld'
  BY <1>1, <1>2, <1>3 DEF LockHeld, Critical
<1>11. RowBuffer'
  BY <1>1, <1>2, <1>3 DEF RowBuffer, Filling, TableRow, KeyOf
<1>12. CacheCoherent'
  BY <1>1, <1>2, <1>3 DEF CacheCoherent, BeingFilled, TableRow
<1>13. ExactDelivery'
  <2>1. \A i \in 1 .. pos'[t] - 1 : FALSE
    BY <1>2
  <2> QED BY <2>1, <1>1, <1>2 DEF ExactDelivery
<1> QED BY <1>7, <1>8, <1>9, <1>10, <1>11, <1>12, <1>13

\* A lookup returns when its whole batch is served.
LEMMA FinishStep ==
  ASSUME IInv, NEW t \in Threads, Finish(t)
  PROVE  IInv'
<1> USE DEF Finish, At, Goto, store, IInv
<1>1. \A id : /\ Slot(id)' = Slot(id) /\ LockOf(id)' = LockOf(id)
             /\ Owned(id)' = Owned(id) /\ Abs!Expected(id)' = Abs!Expected(id)
  BY SlotFrame, RangeFrame
<1>2. \A u \in Threads : Id(u)' = Id(u)
  BY DEF Id
<1>3. /\ pc[t] = "row" /\ pc'[t] = "idle"
      /\ \A u \in Threads \ {t} : pc'[u] = pc[u]
  BY DEF TypeOK
<1>4. pos[t] = Len(ids[t]) + 1
  <2>1. ids[t] \in Batches \cup {<<>>}
    BY DEF TypeOK
  <2>2. Len(ids[t]) \in Nat
    BY <2>1, BatchTyped
  <2> QED BY <2>2 DEF TypeOK
<1>7. TypeOK'
  BY <1>3 DEF TypeOK, Labels
<1>8. Quiet'
  BY DEF Quiet
<1>9. Serving'
  BY <1>1, <1>2, <1>3 DEF Serving, Working, Critical
<1>10. LockHeld'
  BY <1>1, <1>2, <1>3 DEF LockHeld, Critical
<1>11. RowBuffer'
  BY <1>1, <1>2, <1>3 DEF RowBuffer, Filling, TableRow, KeyOf
<1>12. CacheCoherent'
  BY <1>1, <1>2, <1>3 DEF CacheCoherent, BeingFilled, TableRow
<1>13. ExactDelivery'
  BY <1>1, <1>3, <1>4 DEF ExactDelivery
<1> QED BY <1>7, <1>8, <1>9, <1>10, <1>11, <1>12, <1>13

\* A lookup that serves its next position with what that row should be has
\* served every position behind it; the other lookups' buffers are untouched.
LEMMA ServedPrefix ==
  ASSUME TypeOK, ExactDelivery, NEW t \in Threads, NEW r,
         pos[t] \in 1 .. MaxLen, Id(t) \in RowId, r = Abs!Expected(Id(t)),
         Write(t, r), Advance(t)
  PROVE  \A u \in Threads : \A i \in 1 .. pos'[u] - 1 :
           ids[u][i] \in RowId /\ out'[u][i] = Abs!Expected(ids[u][i])
<1>1. /\ pos'[t] = pos[t] + 1 /\ out'[t][pos[t]] = r
      /\ \A i \in 1 .. MaxLen : i # pos[t] => out'[t][i] = out[t][i]
      /\ \A u \in Threads \ {t} : pos'[u] = pos[u] /\ out'[u] = out[u]
  BY DEF Write, Advance, TypeOK
<1>2. ASSUME NEW i \in 1 .. pos'[t] - 1
      PROVE  ids[t][i] \in RowId /\ out'[t][i] = Abs!Expected(ids[t][i])
  <2>1. i \in 1 .. pos[t] /\ i \in 1 .. MaxLen
    BY <1>1, CallerAssumption
  <2>2. CASE i = pos[t]
    BY <2>2, <1>1 DEF Id
  <2>3. CASE i # pos[t]
    <3>1. i \in 1 .. pos[t] - 1 /\ out'[t][i] = out[t][i]
      BY <2>1, <2>3, <1>1
    <3> QED BY <3>1 DEF ExactDelivery
  <2> QED BY <2>2, <2>3
<1>3. ASSUME NEW u \in Threads \ {t}, NEW i \in 1 .. pos'[u] - 1
      PROVE  ids[u][i] \in RowId /\ out'[u][i] = Abs!Expected(ids[u][i])
  BY <1>1 DEF ExactDelivery
<1> QED BY <1>2, <1>3

\* A row of another rank is delivered as zeros.
LEMMA ServeUnownedStep ==
  ASSUME IInv, NEW t \in Threads, ServeUnowned(t)
  PROVE  IInv'
<1> USE DEF ServeUnowned, At, store, IInv
<1>1. \A id : /\ Slot(id)' = Slot(id) /\ LockOf(id)' = LockOf(id)
             /\ Owned(id)' = Owned(id) /\ Abs!Expected(id)' = Abs!Expected(id)
  BY SlotFrame, RangeFrame
<1>2. \A u \in Threads \ {t} : Id(u)' = Id(u)
  BY DEF Id, TypeOK, Advance
<1>3. /\ pc[t] = "row" /\ pc'[t] = "row" /\ pos'[t] = pos[t] + 1
      /\ \A u \in Threads \ {t} : pc'[u] = pc[u] /\ pos'[u] = pos[u]
  BY DEF TypeOK, Advance
<1>4. pos[t] \in 1 .. MaxLen /\ pos[t] \in 1 .. Len(ids[t]) /\ Len(ids[t]) \in Nat
  <2>1. ids[t] \in Batches \cup {<<>>} /\ pos[t] \in 1 .. Len(ids[t]) + 1
    BY DEF TypeOK
  <2>2. Len(ids[t]) \in 0 .. MaxLen
    BY <2>1, BatchTyped
  <2> QED BY <2>1, <2>2, CallerAssumption
<1>5. Id(t) \in RowId /\ Abs!Expected(Id(t)) = ZeroRow
  BY DEF Owned, Abs!Expected, Abs!ZeroRow, ZeroRow
<1>7. TypeOK'
  <2>1. pos' \in [Threads -> Nat] /\ \A u \in Threads : pos'[u] \in 1 .. Len(ids'[u]) + 1
    BY <1>3, <1>4 DEF TypeOK, Advance
  <2>2. out' \in [Threads -> [1 .. MaxLen -> Rows]]
    BY <1>4, RowsTyped DEF TypeOK, Write
  <2> QED BY <2>1, <2>2, <1>3 DEF TypeOK, Labels
<1>8. Quiet'
  BY DEF Quiet
<1>9. Serving'
  BY <1>1, <1>2, <1>3 DEF Serving, Working, Critical
<1>10. LockHeld'
  BY <1>1, <1>2, <1>3 DEF LockHeld, Critical
<1>11. RowBuffer'
  BY <1>1, <1>2, <1>3 DEF RowBuffer, Filling, TableRow, KeyOf
<1>12. CacheCoherent'
  BY <1>1, <1>2, <1>3 DEF CacheCoherent, BeingFilled, TableRow
<1>13. ExactDelivery'
  <2>1. \A u \in Threads : \A i \in 1 .. pos'[u] - 1 :
           ids[u][i] \in RowId /\ out'[u][i] = Abs!Expected(ids[u][i])
    BY <1>4, <1>5, ServedPrefix
  <2> QED BY <2>1, <1>1, <1>3 DEF ExactDelivery
<1> QED BY <1>7, <1>8, <1>9, <1>10, <1>11, <1>12, <1>13

\* An owned row is delivered from the private buffer.
LEMMA DeliverStep ==
  ASSUME IInv, NEW t \in Threads, Deliver(t)
  PROVE  IInv'
<1> USE DEF Deliver, At, Goto, store, IInv
<1>1. \A id : /\ Slot(id)' = Slot(id) /\ LockOf(id)' = LockOf(id)
             /\ Owned(id)' = Owned(id) /\ Abs!Expected(id)' = Abs!Expected(id)
  BY SlotFrame, RangeFrame
<1>2. \A u \in Threads \ {t} : Id(u)' = Id(u)
  BY DEF Id, TypeOK, Advance
<1>3. /\ pc[t] = "deliver" /\ pc'[t] = "row" /\ pos'[t] = pos[t] + 1
      /\ \A u \in Threads \ {t} : pc'[u] = pc[u] /\ pos'[u] = pos[u]
  BY DEF TypeOK, Advance
<1>4. pos[t] \in 1 .. MaxLen /\ pos[t] \in 1 .. Len(ids[t]) /\ Len(ids[t]) \in Nat
  <2>1. pos[t] \in 1 .. MaxLen /\ pos[t] \in 1 .. Len(ids[t])
    BY <1>3, ServedRow DEF Working
  <2>2. ids[t] \in Batches \cup {<<>>}
    BY DEF TypeOK
  <2> QED BY <2>1, <2>2, BatchTyped
<1>5. Id(t) \in RowId /\ Abs!Expected(Id(t)) = row[t]
  BY <1>3 DEF Serving, Working, RowBuffer, Owned, Abs!Expected, Abs!TableRow, TableRow
<1>7. TypeOK'
  <2>1. pos' \in [Threads -> Nat] /\ \A u \in Threads : pos'[u] \in 1 .. Len(ids'[u]) + 1
    BY <1>3, <1>4 DEF TypeOK, Advance
  <2>2. out' \in [Threads -> [1 .. MaxLen -> Rows]]
    BY <1>4, RowsTyped DEF TypeOK, Write
  <2> QED BY <2>1, <2>2, <1>3 DEF TypeOK, Labels
<1>8. Quiet'
  BY DEF Quiet
<1>9. Serving'
  BY <1>1, <1>2, <1>3 DEF Serving, Working, Critical
<1>10. LockHeld'
  BY <1>1, <1>2, <1>3 DEF LockHeld, Critical
<1>11. RowBuffer'
  BY <1>1, <1>2, <1>3 DEF RowBuffer, Filling, TableRow, KeyOf
<1>12. CacheCoherent'
  BY <1>1, <1>2, <1>3 DEF CacheCoherent, BeingFilled, TableRow
<1>13. ExactDelivery'
  <2>1. \A u \in Threads : \A i \in 1 .. pos'[u] - 1 :
           ids[u][i] \in RowId /\ out'[u][i] = Abs!Expected(ids[u][i])
    BY <1>4, <1>5, ServedPrefix
  <2> QED BY <2>1, <1>1, <1>3 DEF ExactDelivery
<1> QED BY <1>7, <1>8, <1>9, <1>10, <1>11, <1>12, <1>13

\* A step that changes nothing but the phase, to "refused" or "aborted".
LEMMA StoppedStep ==
  ASSUME IInv, phase' \in {"refused", "aborted"}, phase' = "refused" => phase = "closed",
         UNCHANGED <<slots, ram, lo, hi, keys, cache, lock, pc, ids, pos, row, out, calls>>
  PROVE  IInv'
<1> USE DEF IInv
<1>1. \A id : /\ Slot(id)' = Slot(id) /\ LockOf(id)' = LockOf(id)
             /\ Owned(id)' = Owned(id) /\ Abs!Expected(id)' = Abs!Expected(id)
  BY SlotFrame, RangeFrame
<1>2. \A u \in Threads : Id(u)' = Id(u)
  BY DEF Id
<1>7. TypeOK'
  BY DEF TypeOK
<1>8. Quiet'
  BY DEF Quiet
<1>9. Serving'
  BY <1>1, <1>2 DEF Serving
<1>10. LockHeld'
  BY <1>1, <1>2 DEF LockHeld
<1>11. RowBuffer'
  BY <1>1, <1>2 DEF RowBuffer, TableRow, KeyOf
<1>12. CacheCoherent'
  BY <1>1, <1>2 DEF CacheCoherent, BeingFilled, TableRow
<1>13. ExactDelivery'
  BY <1>1 DEF ExactDelivery
<1> QED BY <1>7, <1>8, <1>9, <1>10, <1>11, <1>12, <1>13

\* A new store has empty slots and free mutexes.
LEMMA OpenStep ==
  ASSUME IInv, NEW f \in Shards, NEW budget \in Budgets, Open(f, budget)
  PROVE  IInv'
<1> USE DEF Open, IInv
<1>0. slots' \in Nat
  BY CallerAssumption DEF SlotsFor, SlotBytes
<1>1. \A t \in Threads : pc'[t] = "idle" /\ ids'[t] = <<>> /\ pos'[t] = 1
  BY DEF Quiet
<1>2. ASSUME NEW t \in Threads PROVE pos'[t] = Len(ids'[t]) + 1
  <2>1. pos'[t] = 1 /\ ids'[t] = <<>>
    BY <1>1
  <2> QED BY <2>1
<1>7. TypeOK'
  <2>1. /\ keys' \in [0 .. slots' - 1 -> 0 .. NumRows]
        /\ cache' \in [0 .. slots' - 1 -> Rows]
        /\ lock' \in [0 .. NumLocks - 1 -> Threads \cup {Nobody}]
    BY RowsTyped, TableAssumption DEF NoKeys, ZeroCache, Unlocked
  <2>2. lo' \in 0 .. NumRows /\ hi' \in lo' .. NumRows /\ calls' \in 0 .. MaxCalls
    BY TableAssumption, CallerAssumption
  <2>3. ram' \in Modes /\ (ram' => slots' = 0)
    BY DEF TypeOK, SlotsFor
  <2> QED BY <1>0, <2>1, <2>2, <2>3 DEF TypeOK
<1>8. Quiet'
  BY <1>1 DEF Quiet
<1>9. Serving'
  BY <1>1 DEF Serving, Working, Critical
<1>10. LockHeld'
  BY <1>1 DEF LockHeld, Critical
<1>11. RowBuffer'
  BY <1>1 DEF RowBuffer, Filling
<1>12. CacheCoherent'
  BY DEF CacheCoherent, NoKeys
<1>13. ExactDelivery'
  <2>1. \A t \in Threads : \A i \in 1 .. pos'[t] - 1 : FALSE
    BY <1>1
  <2> QED BY <2>1, <1>2 DEF ExactDelivery
<1> QED BY <1>7, <1>8, <1>9, <1>10, <1>11, <1>12, <1>13

\* A range is accepted only inside the table, before any lookup.
LEMMA SetRangeStep ==
  ASSUME IInv, NEW l \in Int, NEW h \in Int, SetRange(l, h)
  PROVE  IInv'
<1> USE DEF SetRange, IInv
<1>1. \A t \in Threads : pc'[t] = "idle" /\ ids'[t] = <<>> /\ pos'[t] = 1
  BY DEF Quiet
<1>2. ASSUME NEW t \in Threads PROVE pos'[t] = Len(ids'[t]) + 1
  <2>1. pos'[t] = 1 /\ ids'[t] = <<>>
    BY <1>1
  <2> QED BY <2>1
<1>3. \A k : Slot(k)' = Slot(k)
  BY SlotFrame
<1>7. TypeOK'
  <2>1. lo' \in 0 .. NumRows /\ hi' \in lo' .. NumRows
    BY TableAssumption DEF TypeOK
  <2> QED BY <2>1 DEF TypeOK
<1>8. Quiet'
  BY <1>1 DEF Quiet
<1>9. Serving'
  BY <1>1 DEF Serving, Working, Critical
<1>10. LockHeld'
  BY <1>1 DEF LockHeld, Critical
<1>11. RowBuffer'
  BY <1>1 DEF RowBuffer, Filling
<1>12. CacheCoherent'
  BY <1>3 DEF CacheCoherent, BeingFilled, TableRow, Quiet
<1>13. ExactDelivery'
  <2>1. \A t \in Threads : \A i \in 1 .. pos'[t] - 1 : FALSE
    BY <1>1
  <2> QED BY <2>1, <1>2 DEF ExactDelivery
<1> QED BY <1>7, <1>8, <1>9, <1>10, <1>11, <1>12, <1>13

\* A closed store keeps no slot, and no lookup runs.
LEMMA CloseStep ==
  ASSUME IInv, Close
  PROVE  IInv'
<1> USE DEF Close, IInv
<1>1. \A t \in Threads : pc'[t] = "idle" /\ ids'[t] = <<>> /\ pos'[t] = 1
  OBVIOUS
<1>2. ASSUME NEW t \in Threads PROVE pos'[t] = Len(ids'[t]) + 1
  <2>1. pos'[t] = 1 /\ ids'[t] = <<>>
    BY <1>1
  <2> QED BY <2>1
<1>7. TypeOK'
  <2>1. /\ keys' \in [0 .. slots' - 1 -> 0 .. NumRows]
        /\ cache' \in [0 .. slots' - 1 -> Rows]
    BY RowsTyped, TableAssumption DEF NoKeys, ZeroCache
  <2>2. \A t \in Threads : pos'[t] \in 1 .. Len(ids'[t]) + 1
    BY <1>1, <1>2
  <2>3. lo' \in 0 .. NumRows /\ hi' \in lo' .. NumRows /\ calls' \in 0 .. MaxCalls
    BY TableAssumption, CallerAssumption
  <2> QED BY <2>1, <2>2, <2>3 DEF TypeOK
<1>8. Quiet'
  BY <1>1 DEF Quiet
<1>9. Serving'
  BY <1>1 DEF Serving, Working, Critical
<1>10. LockHeld'
  BY <1>1 DEF LockHeld, Critical
<1>11. RowBuffer'
  BY <1>1 DEF RowBuffer, Filling
<1>12. CacheCoherent'
  BY DEF CacheCoherent, NoKeys
<1>13. ExactDelivery'
  <2>1. \A t \in Threads : \A i \in 1 .. pos'[t] - 1 : FALSE
    BY <1>1
  <2> QED BY <2>1, <1>2 DEF ExactDelivery
<1> QED BY <1>7, <1>8, <1>9, <1>10, <1>11, <1>12, <1>13

(***************************************************************************)
(* The invariant holds in every reachable state                            *)
(***************************************************************************)
LEMMA NextIInv == IInv /\ [Next]_vars => IInv'
<1> SUFFICES ASSUME IInv, [Next]_vars PROVE IInv'
  OBVIOUS
<1>1. CASE OpenRefused
  BY <1>1, StoppedStep DEF OpenRefused
<1>2. CASE Close
  BY <1>2, CloseStep
<1>3. ASSUME NEW f \in Shards, NEW budget \in Budgets, Open(f, budget) \/ OpenFails(f, budget)
      PROVE  IInv'
  <2>1. CASE Open(f, budget)
    BY <2>1, OpenStep
  <2>2. CASE OpenFails(f, budget)
    BY <2>2, StoppedStep DEF OpenFails
  <2> QED BY <1>3, <2>1, <2>2
<1>4. ASSUME NEW r \in Ranges, SetRange(r[1], r[2]) PROVE IInv'
  <2>1. r[1] \in Int /\ r[2] \in Int
    BY CallerAssumption
  <2> QED BY <1>4, <2>1, SetRangeStep
<1>5. ASSUME NEW t \in Threads, NEW b \in Batches, Begin(t, b) PROVE IInv'
  BY <1>5, BeginStep
<1>6. ASSUME NEW t \in Threads, Step(t) PROVE IInv'
  <2>1. CASE OutOfBounds(t)
    BY <2>1, StoppedStep DEF OutOfBounds
  <2>2. CASE ReadFails(t)
    BY <2>2, StoppedStep DEF ReadFails
  <2> QED BY <1>6, <2>1, <2>2, FinishStep, ServeUnownedStep, AcquireStep,
             HitWeightStep, HitScaleStep, ReadWeightStep, ReadScaleStep,
             FillWeightStep, FillScaleStep, PublishStep, ReleaseStep, DeliverStep
          DEF Step
<1>7. CASE UNCHANGED vars
  <2>1. \A id : /\ Slot(id)' = Slot(id) /\ LockOf(id)' = LockOf(id)
               /\ Owned(id)' = Owned(id) /\ Abs!Expected(id)' = Abs!Expected(id)
    BY <1>7, SlotFrame, RangeFrame DEF vars
  <2>2. \A u \in Threads : Id(u)' = Id(u)
    BY <1>7 DEF vars, Id
  <2>3. TypeOK' /\ Quiet'
    BY <1>7 DEF vars, IInv, TypeOK, Quiet
  <2>4. Serving' /\ LockHeld' /\ RowBuffer'
    BY <1>7, <2>1, <2>2 DEF vars, IInv, Serving, LockHeld, RowBuffer, TableRow, KeyOf
  <2>5. CacheCoherent' /\ ExactDelivery'
    BY <1>7, <2>1, <2>2 DEF vars, IInv, CacheCoherent, BeingFilled, TableRow, ExactDelivery
  <2> QED BY <2>3, <2>4, <2>5 DEF IInv
<1> QED BY <1>1, <1>2, <1>3, <1>4, <1>5, <1>6, <1>7 DEF Next

LEMMA Invariance == Spec => []IInv
BY InitIInv, NextIInv, PTL DEF Spec

\* Type correctness of the store, for every table, cache size and thread count.
THEOREM TypeCorrect == Spec => []TypeOK
<1>1. IInv => TypeOK
  BY DEF IInv
<1> QED BY <1>1, Invariance, PTL

\* No two threads work on one cache slot, whatever the number of mutexes the
\* slots are striped over (row_store.cpp:99-100).
THEOREM SlotsExclusive == Spec => []SlotExclusion
<1>1. IInv => SlotExclusion
  BY Exclusion DEF IInv
<1> QED BY <1>1, Invariance, PTL

\* A slot that carries a row's key holds that row (row_store.cpp:101-111).
THEOREM CacheIsCoherent == Spec => []CacheCoherent
<1>1. IInv => CacheCoherent
  BY DEF IInv
<1> QED BY <1>1, Invariance, PTL

\* A lookup delivers the table's rows and the zeros of the rows it does not own,
\* for every batch, interleaving, eviction and hit (row_store.cpp:87-117).
THEOREM LookupsAreExact == Spec => []ExactDelivery
<1>1. IInv => ExactDelivery
  BY DEF IInv
<1> QED BY <1>1, Invariance, PTL

(***************************************************************************)
(* The store implements ExactRetrieval                                     *)
(***************************************************************************)
LEMMA InitImplements == Init => Abs!AbsInit
<1> SUFFICES ASSUME Init PROVE Abs!AbsInit
  OBVIOUS
<1>1. out \in [Threads -> [1 .. MaxLen -> [w : Bytes, s : Bytes]]]
  BY InitIInv DEF IInv, TypeOK, Rows
<1> QED BY <1>1 DEF Init, Abs!AbsInit

\* Steps inside a lookup that neither deliver a row nor begin or end a lookup
\* are invisible to the caller.
LEMMA InnerStepStutters ==
  ASSUME IInv, NEW t \in Threads, pc[t] # "idle",
         NEW label, label # "idle", Goto(t, label),
         UNCHANGED <<phase, lo, hi, ids, pos, out>>
  PROVE  UNCHANGED Abs!absVars
<1>1. [u \in Threads |-> pc[u] # "idle"]' = [u \in Threads |-> pc[u] # "idle"]
  BY DEF Goto, IInv, TypeOK
<1> QED BY <1>1 DEF Abs!absVars

LEMMA StepImplements ==
  ASSUME IInv, NEW t \in Threads, Step(t)
  PROVE  [Abs!AbsNext]_(Abs!absVars)
<1> USE DEF IInv
<1>1. CASE Finish(t)
  <2>1. Abs!AbsFinish(t)
    BY <1>1 DEF Finish, At, Goto, store, TypeOK, Abs!AbsFinish
  <2> QED BY <2>1 DEF Abs!AbsNext
<1>2. CASE ServeUnowned(t)
  <2>1. Abs!Expected(Id(t)) = ZeroRow
    BY <1>2 DEF ServeUnowned, Owned, Abs!Expected, Abs!ZeroRow, ZeroRow
  <2>2. Abs!AbsServe(t)
    BY <1>2, <2>1 DEF ServeUnowned, At, Write, Advance, store, Id, RowId, Abs!AbsServe
  <2> QED BY <2>2 DEF Abs!AbsNext
<1>3. CASE Deliver(t)
  <2>1. Id(t) \in RowId /\ Owned(Id(t)) /\ pos[t] <= Len(ids[t]) /\ row[t] = TableRow(Id(t))
    BY <1>3 DEF Deliver, At, Serving, RowBuffer, Working
  <2>2. Abs!Expected(Id(t)) = row[t]
    BY <2>1 DEF Owned, Abs!Expected, Abs!TableRow, TableRow
  <2>3. UNCHANGED [u \in Threads |-> pc[u] # "idle"]
    BY <1>3 DEF Deliver, At, Goto, TypeOK
  <2>4. Abs!AbsServe(t)
    BY <1>3, <2>1, <2>2, <2>3 DEF Deliver, At, Write, Advance, store, Id, RowId, Abs!AbsServe
  <2> QED BY <2>4 DEF Abs!AbsNext
<1>4. CASE OutOfBounds(t) \/ ReadFails(t)
  <2>1. Abs!AbsAbort
    BY <1>4 DEF OutOfBounds, ReadFails, At, Abs!AbsAbort
  <2> QED BY <2>1 DEF Abs!AbsNext
<1>5. CASE \/ Acquire(t) \/ HitWeight(t) \/ HitScale(t) \/ ReadWeight(t) \/ ReadScale(t)
           \/ FillWeight(t) \/ FillScale(t) \/ Publish(t) \/ Release(t)
  <2>1. pc[t] # "idle" /\ UNCHANGED <<phase, lo, hi, ids, pos, out>>
    BY <1>5 DEF Acquire, HitWeight, HitScale, ReadWeight, ReadScale, FillWeight,
                FillScale, Publish, Release, At, store
  <2>2. PICK label : label # "idle" /\ Goto(t, label)
    BY <1>5 DEF Acquire, HitWeight, HitScale, ReadWeight, ReadScale, FillWeight,
                FillScale, Publish, Release
  <2> QED BY <2>1, <2>2, InnerStepStutters
<1> QED BY <1>1, <1>2, <1>3, <1>4, <1>5 DEF Step

LEMMA NextImplements == IInv /\ [Next]_vars => [Abs!AbsNext]_(Abs!absVars)
<1> SUFFICES ASSUME IInv, [Next]_vars PROVE [Abs!AbsNext]_(Abs!absVars)
  OBVIOUS
<1> USE DEF IInv
<1>1. CASE OpenRefused
  <2>1. Abs!AbsOpen
    BY <1>1 DEF OpenRefused, Abs!AbsOpen
  <2> QED BY <2>1 DEF Abs!AbsNext
<1>2. CASE Close
  <2>1. Abs!AbsClose
    BY <1>2 DEF Close, Abs!AbsClose
  <2> QED BY <2>1 DEF Abs!AbsNext
<1>3. ASSUME NEW f \in Shards, NEW budget \in Budgets, Open(f, budget) \/ OpenFails(f, budget)
      PROVE  [Abs!AbsNext]_(Abs!absVars)
  <2>1. Abs!AbsOpen
    BY <1>3 DEF Open, OpenFails, Abs!AbsOpen
  <2> QED BY <2>1 DEF Abs!AbsNext
<1>4. ASSUME NEW r \in Ranges, SetRange(r[1], r[2]) PROVE [Abs!AbsNext]_(Abs!absVars)
  <2>1. r[1] \in Int /\ r[2] \in Int
    BY CallerAssumption
  <2>2. CASE phase' = "aborted"
    <3>1. Abs!AbsAbort
      BY <1>4, <2>2 DEF SetRange, Abs!AbsAbort
    <3> QED BY <3>1 DEF Abs!AbsNext
  <2>3. CASE phase' = "ready"
    <3>1. Abs!AbsRange
      BY <1>4, <2>1, <2>3, TableAssumption DEF SetRange, Abs!AbsRange
    <3> QED BY <3>1 DEF Abs!AbsNext
  <2> QED BY <1>4, <2>2, <2>3 DEF SetRange
<1>5. ASSUME NEW t \in Threads, NEW b \in Batches, Begin(t, b) PROVE [Abs!AbsNext]_(Abs!absVars)
  <2>1. Abs!AbsBegin(t)
    BY <1>5 DEF Begin, At, Goto, store, TypeOK, Abs!AbsBegin
  <2> QED BY <2>1 DEF Abs!AbsNext
<1>6. ASSUME NEW t \in Threads, Step(t) PROVE [Abs!AbsNext]_(Abs!absVars)
  BY <1>6, StepImplements
<1>7. CASE UNCHANGED vars
  BY <1>7 DEF vars, Abs!absVars
<1> QED BY <1>1, <1>2, <1>3, <1>4, <1>5, <1>6, <1>7 DEF Next

\* Refinement: with its cache, mutexes, split copies and shard reads the store
\* still behaves as a plain table of rows (row_store.cpp:1).
THEOREM StoreImplements == Spec => Implements
BY InitImplements, Invariance, NextImplements, PTL DEF Spec, Implements, Abs!AbsSpec
=============================================================================
