------------------------- MODULE EmbeddingGatherProofs -------------------------
(***************************************************************************)
(* Proofs about EmbeddingGather, for tables of any size and any number of  *)
(* ranks.                                                                  *)
(***************************************************************************)
EXTENDS EmbeddingGather, TLAPS

\* The arithmetic of the split, stated on plain numbers.
LEMMA DivBounds ==
  ASSUME NEW a \in Nat, NEW b \in Nat \ {0}
  PROVE  /\ a \div b \in Nat
         /\ b * (a \div b) <= a /\ a < b * (a \div b + 1)
OBVIOUS

LEMMA DivBelow ==
  ASSUME NEW a \in Nat, NEW b \in Nat \ {0}, NEW q \in Nat
  PROVE  a \div b <= q <=> a < (q + 1) * b
OBVIOUS

LEMMA MulMonotone ==
  ASSUME NEW a \in Nat, NEW b \in Nat, NEW c \in Nat, a <= b
  PROVE  a * c <= b * c
OBVIOUS

\* Later ranks start no earlier.
LEMMA DivMonotone ==
  ASSUME NEW n \in Nat, NEW k \in Nat \ {0}, NEW r \in Nat, NEW s \in Nat, r <= s
  PROVE  (n * r) \div k <= (n * s) \div k
<1>1. n * r \in Nat /\ n * s \in Nat /\ n * r <= n * s
  <2>1. r * n <= s * n
    BY MulMonotone
  <2> QED BY <2>1
<1>2. (n * s) \div k \in Nat /\ n * s < k * ((n * s) \div k + 1)
  BY <1>1, DivBounds
<1>3. n * r < ((n * s) \div k + 1) * k
  BY <1>1, <1>2
<1> QED BY <1>1, <1>2, <1>3, DivBelow

\* Every row has an owner: the rank ((i + 1) * tp - 1) \div rows.
LEMMA OwnerExists ==
  ASSUME rows \in Nat \ {0}, tp \in Nat \ {0}, NEW i \in 0 .. rows - 1
  PROVE  \E r \in Ranks : Owns(r, i)
<1> DEFINE x == (i + 1) * tp - 1
           r == x \div rows
<1>1. i \in Nat /\ x \in Nat
  <2>1. i \in Nat /\ i + 1 >= 1
    OBVIOUS
  <2>2. 1 * tp <= (i + 1) * tp
    BY <2>1, MulMonotone
  <2> QED BY <2>1, <2>2
<1>2. r \in Nat /\ rows * r <= x /\ x < rows * (r + 1)
  BY <1>1, DivBounds
<1>3. r < tp
  <2>1. (i + 1) * tp <= rows * tp
    BY <1>1, MulMonotone
  <2>2. x < (tp - 1 + 1) * rows
    BY <2>1, <1>1
  <2> QED BY <2>2, <1>1, <1>2, DivBelow
<1>4. Start(r) <= i
  <2>1. rows * r < (i + 1) * tp /\ rows * r \in Nat
    BY <1>1, <1>2
  <2> QED BY <2>1, <1>1, DivBelow DEF Start
<1>5. i < Start(r + 1)
  <2>1. (i + 1) * tp <= rows * (r + 1) /\ rows * (r + 1) \in Nat
    BY <1>1, <1>2
  <2>2. ~((rows * (r + 1)) \div tp <= i)
    BY <2>1, <1>1, DivBelow
  <2>3. (rows * (r + 1)) \div tp \in Nat
    BY <2>1, DivBounds
  <2> QED BY <2>2, <2>3, <1>1 DEF Start
<1>6. r \in Ranks
  BY <1>2, <1>3 DEF Ranks
<1> QED BY <1>4, <1>5, <1>6 DEF Owns

\* No row has two owners: a later rank starts where an earlier one has ended.
LEMMA OwnerUnique ==
  ASSUME rows \in Nat \ {0}, tp \in Nat \ {0}, NEW i \in Nat,
         NEW r \in Ranks, NEW s \in Ranks, Owns(r, i), Owns(s, i)
  PROVE  r = s
<1>1. \A x, y \in Nat : x + 1 <= y => Start(x + 1) <= Start(y)
  BY DivMonotone DEF Start
<1>2. r \in Nat /\ s \in Nat
  BY DEF Ranks
<1>3. \A x \in Nat : Start(x) \in Nat
  BY DivBounds DEF Start
<1>4. ~(r + 1 <= s)
  BY <1>1, <1>2, <1>3 DEF Owns
<1>5. ~(s + 1 <= r)
  BY <1>1, <1>2, <1>3 DEF Owns
<1> QED BY <1>2, <1>4, <1>5

\* The sum so far is the row once its owner has contributed, and zero before.
PartialSum ==
  /\ \A r \in Ranks : part[r] # Pending =>
       part[r] = IF Owns(r, id) THEN TableValue(id) ELSE 0
  /\ \A r \in reduced : part[r] # Pending
  /\ sum = IF \E r \in reduced : Owns(r, id) THEN TableValue(id) ELSE 0

IInv == TypeOK /\ PartialSum

LEMMA Facts ==
  ASSUME TypeOK
  PROVE  /\ rows \in Nat \ {0} /\ tp \in Nat \ {0}
         /\ id \in Nat /\ TableValue(id) \in 1 .. MaxRows
BY GatherAssumption DEF TypeOK, TableValue

LEMMA InitIInv == Init => IInv
<1> SUFFICES ASSUME Init PROVE IInv
  OBVIOUS
<1>1. TypeOK
  BY GatherAssumption DEF Init, TypeOK
<1>2. PartialSum
  BY DEF Init, PartialSum
<1> QED BY <1>1, <1>2 DEF IInv

LEMMA GatherStep ==
  ASSUME IInv, NEW r \in Ranks, Gather(r)
  PROVE  IInv'
<1> USE DEF IInv, Gather
<1>1. TableValue(id) \in 1 .. MaxRows
  BY Facts
<1>2. TypeOK'
  BY <1>1 DEF TypeOK, Ranks
<1>3. PartialSum'
  BY <1>1 DEF PartialSum, TypeOK, Ranks, Owns, Start, TableValue, Pending
<1> QED BY <1>2, <1>3

LEMMA ContributeStep ==
  ASSUME IInv, NEW r \in Ranks, Contribute(r)
  PROVE  IInv'
<1> USE DEF IInv, Contribute
<1>1. /\ rows \in Nat \ {0} /\ tp \in Nat \ {0} /\ id \in Nat
      /\ TableValue(id) \in 1 .. MaxRows
  BY Facts
<1>2. \A x \in Ranks : \A i \in Nat : (Owns(x, i) <=> Owns(x, i)')
  BY DEF Owns, Start
<1>3. part[r] = IF Owns(r, id) THEN TableValue(id) ELSE 0
  BY DEF PartialSum
<1>4. sum' = IF \E x \in reduced' : Owns(x, id) THEN TableValue(id) ELSE 0
  <2>1. CASE Owns(r, id)
    <3>1. ~\E x \in reduced : Owns(x, id)
      BY <1>1, <2>1, OwnerUnique DEF TypeOK
    <3> QED BY <3>1, <2>1, <1>1, <1>3 DEF PartialSum
  <2>2. CASE ~Owns(r, id)
    <3>1. sum' = sum
      BY <2>2, <1>3 DEF TypeOK
    <3>2. (\E x \in reduced' : Owns(x, id)) <=> (\E x \in reduced : Owns(x, id))
      BY <2>2
    <3> QED BY <3>1, <3>2 DEF PartialSum
  <2> QED BY <2>1, <2>2
<1>5. TypeOK'
  BY <1>1, <1>4, GatherAssumption DEF TypeOK, Ranks
<1>6. PartialSum'
  BY <1>2, <1>4 DEF PartialSum, TypeOK, Ranks, Owns, Start, TableValue
<1> QED BY <1>5, <1>6

LEMMA NextIdStep ==
  ASSUME IInv, NextId
  PROVE  IInv'
<1> USE DEF IInv, NextId
<1>1. TypeOK'
  BY GatherAssumption DEF TypeOK, Ranks
<1>2. PartialSum'
  BY DEF PartialSum, Ranks
<1> QED BY <1>1, <1>2

LEMMA NextIInv == IInv /\ [Next]_vars => IInv'
<1> SUFFICES ASSUME IInv, [Next]_vars PROVE IInv'
  OBVIOUS
<1>1. CASE UNCHANGED vars
  BY <1>1 DEF vars, IInv, TypeOK, PartialSum, Ranks, Owns, Start, TableValue
<1> QED BY <1>1, GatherStep, ContributeStep, NextIdStep DEF Next

LEMMA Invariance == Spec => []IInv
BY InitIInv, NextIInv, PTL DEF Spec

\* Every state of the gather is well typed: a rank's part and the running sum never
\* pass the largest row, for every table and every number of ranks.
THEOREM TypeCorrect == Spec => []TypeOK
<1>1. IInv => TypeOK
  BY DEF IInv
<1> QED BY <1>1, Invariance, PTL

\* The gather is exact for every table size and every number of ranks: each row
\* is contributed by one rank and by one rank only.
THEOREM GatherExact == Spec => []ReducedExact
<1>1. IInv => ReducedExact
  <2> SUFFICES ASSUME IInv, reduced = Ranks PROVE sum = TableValue(id)
    BY DEF ReducedExact
  <2>1. \E r \in Ranks : Owns(r, id)
    BY Facts, OwnerExists DEF IInv, TypeOK
  <2> QED BY <2>1 DEF IInv, PartialSum
<1> QED BY <1>1, Invariance, PTL
=============================================================================
