------------------------------ MODULE DirectRead ------------------------------
(***************************************************************************)
(* How one row is cut out of the shard: read_bytes of patch/row_store.cpp  *)
(* (lines 38-52) against the extent that row_store_open accepts (61-64).   *)
(* A direct read must start and end on a 4096-byte boundary, so the row is *)
(* read with its page or pages into an 8192-byte buffer and copied out.    *)
(* The kernel returns fewer bytes at the end of the file; fewer than the   *)
(* row needs is taken for a failed disk and aborts the process.            *)
(*                                                                         *)
(* A byte of the file is its position in it.                               *)
(***************************************************************************)
EXTENDS Integers

CONSTANTS
  Sizes,      \* sizes of shard files
  Offsets,    \* positions at which a tensor may start in a file
  RowCounts,  \* rows of a table
  Modes       \* may OFFLOAD_MODE be "ram": copy from the mapped shard

ASSUME ReadAssumption ==
  Sizes \subseteq Nat /\ Offsets \subseteq Nat /\ RowCounts \subseteq Nat /\ Modes \subseteq BOOLEAN

VARIABLES
  status,         \* "closed", "open", "refused", or "aborted" after a short read
  size,           \* bytes in the file
  woff, soff,     \* where the weights and the scales start
  rows,
  ram,            \* the shard is mapped and locked in memory
  last            \* the last copy: [offset, length, from, buffer]

vars == <<status, size, woff, soff, rows, ram, last>>

Page == 4096
MutBufferBytes == 4096             \* mutant: room for one page only
BufferBytes == 8192
WeightBytes == 256
ScaleBytes == 8

MutExtentOK(sz, w, s, n) ==       \* mutant: the row count is not scaled by the row
  /\ w <= sz /\ s <= sz
  /\ n <= sz - w /\ n <= sz - s
ExtentOK(sz, w, s, n) ==
  /\ w <= sz /\ s <= sz
  /\ n <= (sz - w) \div WeightBytes
  /\ n <= (sz - s) \div ScaleBytes

Delta(offset) == offset % Page
Base(offset) == offset - Delta(offset)
MutRequested(offset, length) ==   \* mutant: the part before the row is forgotten
  ((length + Page - 1) \div Page) * Page
Requested(offset, length) == ((Delta(offset) + length + Page - 1) \div Page) * Page

\* pread(2) of a file of sz bytes: what is left of it, at most.
Got(offset, length, sz) ==
  IF Base(offset) + Requested(offset, length) <= sz THEN Requested(offset, length)
  ELSE IF Base(offset) <= sz THEN sz - Base(offset) ELSE 0

Short(offset, length, sz) == Got(offset, length, sz) < Delta(offset) + length

Init ==
  /\ status = "closed"
  /\ size \in Sizes /\ woff \in Offsets /\ soff \in Offsets /\ rows \in RowCounts
  /\ ram \in Modes
  /\ last = [offset |-> 0, length |-> 0, from |-> 0, buffer |-> 0]

Open ==
  /\ status = "closed"
  /\ status' = IF ExtentOK(size, woff, soff, rows) THEN "open" ELSE "refused"
  /\ UNCHANGED <<size, woff, soff, rows, ram, last>>

\* read_bytes: `from` is the file position of the first byte copied out, and
\* `buffer` the bytes the kernel was asked to put into the page buffer.
ReadBytes(offset, length) ==
  /\ status = "open"
  /\ IF ram
       THEN /\ last' = [offset |-> offset, length |-> length, from |-> offset, buffer |-> 0]
            /\ UNCHANGED status
     ELSE IF Short(offset, length, size)
       THEN /\ status' = "aborted"
            /\ UNCHANGED last
     ELSE /\ last' = [offset |-> offset, length |-> length,
                      from |-> Base(offset) + Delta(offset),
                      buffer |-> Requested(offset, length)]
          /\ UNCHANGED status
  /\ UNCHANGED <<size, woff, soff, rows, ram>>

ReadWeights(id) == ReadBytes(woff + id * WeightBytes, WeightBytes)
ReadScales(id) == ReadBytes(soff + id * ScaleBytes, ScaleBytes)

Next ==
  \/ Open
  \/ \E id \in 0 .. rows - 1 : ReadWeights(id) \/ ReadScales(id)

Spec == Init /\ [][Next]_vars

\* A shard that row_store_open accepts never looks like a failing disk: every
\* row of it, the last one in the last partial page included, is read whole
\* (row_store.cpp:62-64 against :49).
NeverShort == status # "aborted"

\* The bytes copied out lie inside the file and inside the page buffer, however
\* the row straddles a page boundary (row_store.cpp:43-50); in RAM mode they lie
\* inside the mapping (:40).
CopyInBounds ==
  /\ last.length > 0 => last.from = last.offset /\ last.from + last.length <= size
  /\ last.buffer <= BufferBytes
  /\ last.buffer > 0 => Delta(last.offset) + last.length <= last.buffer
=============================================================================
