--------------------------- MODULE DirectReadProofs ---------------------------
(***************************************************************************)
(* Proofs about DirectRead, for shards, offsets and tables of any size.    *)
(***************************************************************************)
EXTENDS DirectRead, TLAPS

\* A direct read asks for whole pages that hold the row, two at most.
LEMMA RequestCovers ==
  ASSUME NEW offset \in Nat, NEW length \in 1 .. WeightBytes
  PROVE  /\ Delta(offset) \in 0 .. Page - 1
         /\ Base(offset) \in Nat /\ Base(offset) + Delta(offset) = offset
         /\ Requested(offset, length) \in Nat
         /\ Delta(offset) + length <= Requested(offset, length)
         /\ Requested(offset, length) <= BufferBytes
<1> DEFINE d == Delta(offset)
<1>1. offset % 4096 \in 0 .. 4095 /\ offset % 4096 <= offset
  OBVIOUS
<1>2. d \in 0 .. 4095 /\ d <= offset
  BY <1>1 DEF Delta, Page
<1> HIDE DEF d
<1>3. Base(offset) = offset - d /\ Requested(offset, length) = ((d + length + 4095) \div 4096) * 4096
  <2>1. d + length + 4096 - 1 = d + length + 4095
    BY <1>2 DEF WeightBytes
  <2> QED BY <1>2, <2>1 DEF Base, Requested, Page, d
<1>4. d + length \in 1 .. 4351
  BY <1>2 DEF WeightBytes
<1>5. \A x \in 1 .. 4351 : /\ ((x + 4095) \div 4096) * 4096 \in Nat
                        /\ x <= ((x + 4095) \div 4096) * 4096
                        /\ ((x + 4095) \div 4096) * 4096 <= 8192
  OBVIOUS
<1>6. /\ Requested(offset, length) \in Nat /\ d + length <= Requested(offset, length)
      /\ Requested(offset, length) <= 8192
  <2> DEFINE x == d + length
  <2>1. x \in 1 .. 4351
    BY <1>4
  <2>2. Requested(offset, length) = ((x + 4095) \div 4096) * 4096
    BY <1>3
  <2> HIDE DEF x
  <2>3. /\ Requested(offset, length) \in Nat /\ x <= Requested(offset, length)
        /\ Requested(offset, length) <= 8192
    BY <2>1, <2>2, <1>5
  <2> QED BY <2>3 DEF x
<1>7. Base(offset) \in Nat /\ Base(offset) + d = offset
  BY <1>2, <1>3
<1> QED BY <1>2, <1>6, <1>7 DEF BufferBytes, Page, d

\* A row that lies in the file is read whole, wherever the file ends.
LEMMA RowInFileIsRead ==
  ASSUME NEW offset \in Nat, NEW length \in 1 .. WeightBytes, NEW sz \in Nat,
         offset + length <= sz
  PROVE  ~Short(offset, length, sz)
BY RequestCovers DEF Short, Got

\* Every row of a table whose extent was accepted lies in the file.
LEMMA RowInFile ==
  ASSUME NEW sz \in Nat, NEW start \in Nat, NEW width \in Nat \ {0}, NEW n \in Nat,
         start <= sz, n <= (sz - start) \div width, NEW id \in 0 .. n - 1
  PROVE  start + id * width \in Nat /\ start + id * width + width <= sz
<1> DEFINE room == sz - start
           q == room \div width
<1>1. room \in Nat /\ q \in Nat /\ q * width <= room
  OBVIOUS
<1>2. id \in Nat /\ id + 1 <= q
  BY <1>1
<1>3. (id + 1) * width <= q * width
  BY <1>1, <1>2
<1>4. id * width \in Nat /\ (id + 1) * width = id * width + width
  BY <1>2
<1> QED BY <1>1, <1>3, <1>4

TypeInv ==
  /\ size \in Nat /\ woff \in Nat /\ soff \in Nat /\ rows \in Nat
  /\ status \in {"closed", "open", "refused", "aborted"}

Accepted == status = "open" => ExtentOK(size, woff, soff, rows)

IInv == TypeInv /\ Accepted /\ NeverShort /\ CopyInBounds

LEMMA InitIInv == Init => IInv
BY ReadAssumption
   DEF Init, IInv, TypeInv, Accepted, NeverShort, CopyInBounds, BufferBytes, Delta, Page

\* One read_bytes of a row that lies in the file.
LEMMA ReadBytesStep ==
  ASSUME IInv, NEW offset \in Nat, NEW length \in 1 .. WeightBytes,
         offset + length <= size, ReadBytes(offset, length)
  PROVE  IInv'
<1> USE DEF IInv, TypeInv
<1>1. ~Short(offset, length, size)
  BY RowInFileIsRead
<1>2. status' = status /\ UNCHANGED <<size, woff, soff, rows, ram>>
  BY <1>1 DEF ReadBytes
<1>3. /\ last'.offset = offset /\ last'.length = length /\ last'.from = offset
      /\ last'.buffer \in {0, Requested(offset, length)}
  BY <1>1, RequestCovers DEF ReadBytes
<1>4. CopyInBounds'
  <2>1. /\ last'.offset + last'.length <= size' /\ last'.from = last'.offset
        /\ last'.buffer <= BufferBytes
    BY <1>2, <1>3, RequestCovers DEF BufferBytes
  <2>2. last'.buffer > 0 => Delta(offset) + length <= last'.buffer
    BY <1>3, RequestCovers
  <2> QED BY <1>3, <2>1, <2>2 DEF CopyInBounds, BufferBytes, Delta, Page
<1>5. TypeInv' /\ Accepted' /\ NeverShort'
  BY <1>2 DEF Accepted, NeverShort, ExtentOK, WeightBytes, ScaleBytes
<1> QED BY <1>4, <1>5

LEMMA NextIInv == IInv /\ [Next]_vars => IInv'
<1> SUFFICES ASSUME IInv, [Next]_vars PROVE IInv'
  OBVIOUS
<1>1. CASE Open
  BY <1>1 DEF Open, IInv, TypeInv, Accepted, NeverShort, CopyInBounds, Delta,
              ExtentOK, BufferBytes, Page, WeightBytes, ScaleBytes
<1>2. ASSUME NEW id \in 0 .. rows - 1, ReadWeights(id) PROVE IInv'
  <2>1. ExtentOK(size, woff, soff, rows)
    BY <1>2 DEF IInv, Accepted, ReadWeights, ReadBytes
  <2>2. woff + id * WeightBytes \in Nat /\ woff + id * WeightBytes + WeightBytes <= size
    BY <2>1, RowInFile DEF IInv, TypeInv, ExtentOK, WeightBytes
  <2> QED BY <1>2, <2>2, ReadBytesStep DEF ReadWeights, WeightBytes
<1>3. ASSUME NEW id \in 0 .. rows - 1, ReadScales(id) PROVE IInv'
  <2>1. ExtentOK(size, woff, soff, rows)
    BY <1>3 DEF IInv, Accepted, ReadScales, ReadBytes
  <2>2. soff + id * ScaleBytes \in Nat /\ soff + id * ScaleBytes + ScaleBytes <= size
    BY <2>1, RowInFile DEF IInv, TypeInv, ExtentOK, ScaleBytes
  <2> QED BY <1>3, <2>2, ReadBytesStep DEF ReadScales, ScaleBytes, WeightBytes
<1>4. CASE UNCHANGED vars
  BY <1>4 DEF vars, IInv, TypeInv, Accepted, NeverShort, CopyInBounds, Delta,
              ExtentOK, BufferBytes, Page, WeightBytes, ScaleBytes
<1> QED BY <1>1, <1>2, <1>3, <1>4 DEF Next

LEMMA Invariance == Spec => []IInv
BY InitIInv, NextIInv, PTL DEF Spec

\* A store that row_store_open accepted never aborts on a short read, whatever
\* the size of the file, the tensors' offsets and the number of rows.
THEOREM AcceptedNeverShort == Spec => []NeverShort
<1>1. IInv => NeverShort
  BY DEF IInv
<1> QED BY <1>1, Invariance, PTL

\* read_bytes stays inside the page buffer and the file, for every row.
THEOREM ReadsInBounds == Spec => []CopyInBounds
<1>1. IInv => CopyInBounds
  BY DEF IInv
<1> QED BY <1>1, Invariance, PTL
=============================================================================
