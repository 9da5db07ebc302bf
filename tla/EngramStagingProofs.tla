--------------------------- MODULE EngramStagingProofs ---------------------------
(***************************************************************************)
(* Proofs about the local copy of the Engram rows, for any number of       *)
(* stagers, versions, rows and chunk sizes.                                *)
(***************************************************************************)
EXTENDS EngramStaging, TLAPS

(***************************************************************************)
(* What the properties need of the checkpoint and of what is asked for     *)
(***************************************************************************)
\* The checkpoint moves on to indices it never had.  Without this the rows of two
\* versions may be served.
NewIndices ==
  /\ ~Rollback
  /\ \A v, w \in Versions : Index[v] = Index[w] => v = w

\* Where the disk may write less than it is given, stagers are asked for the rows
\* this rank owns, as the control side asks (stage_local_engram.py:27).
OwnRange == \A m \in Modes : m.short => \A s \in m.specs : s[1] = First /\ s[2] = End

\* Where no stager dies, each is asked for all of the rows this rank owns.
Covering == \A m \in Modes : ~m.crashes => \A s \in m.specs : s[1] <= First /\ End <= s[2]

\* There, what they write into one file has one length.  Without this two stagers
\* of different ranges leave the shorter text with the end of the longer one.
OneLength == \A m \in Modes : ~m.crashes => \A s, t \in m.specs : TextSize[s] = TextSize[t]

(***************************************************************************)
(* The invariants                                                          *)
(***************************************************************************)
Active(p) == pc[p] # "idle"
Begun(p) == exit[p] = "ok" \/ Active(p)

\* What a stager has in hand while it runs.
Running ==
  \A p \in Stagers :
    /\ Active(p) => ver[p] = src /\ spec[p] \in mode.specs
    /\ At(p, "copy") => off[p] \in spec[p][1] .. spec[p][2]
    /\ fd[p] # "none" => At(p, "recordOpen")
    /\ Begun(p) => header = Header[src]

\* Rows of tensor x that p has copied for certain.
Copied(p, x) ==
  CASE At(p, "copy") /\ x = job[p] -> spec[p][1] .. off[p] - 1
    [] At(p, "copy") /\ x # job[p] -> IF x = "weight" THEN Range(spec[p]) ELSE {}
    [] OTHER -> Range(spec[p])

FromSource(x, r) == data[x][r] = src
CopiedHold ==
  ~mode.short =>
    \A p \in Stagers : Active(p) => \A x \in Tensors : \A r \in Copied(p, x) : FromSource(x, r)

\* A record of the checkpoint as it is now; a stager that may write one.
Current(f) == f.text \in Records /\ f.text.hash = Index[src]
Recording == {"record", "recordOpen", "replace"}
Claimed(labels) ==
  Current(verified) \/ Current(tmp) \/ \E p \in Stagers : pc[p] \in labels

\* Once a stager has written its range and may come to record the checkpoint, all
\* the range that the loader would see has been copied.
RangesHold ==
  ~mode.short /\ Claimed(Recording \cup {"verify"}) /\ ranges.text \in Specs =>
    \A x \in Tensors : \A r \in Range(ranges.text) : FromSource(x, r)

\* Records speak of checkpoints up to the present one.
Past ==
  \A f \in {verified, tmp} :
    f.text \in Records => \E w \in Versions : w <= src /\ f.text.hash = Index[w]

\* What was compared stays, whatever is written over it later.
EndsHold ==
  OwnRange /\ mode.short /\ Claimed(Recording) =>
    \A x \in Tensors : FromSource(x, First) /\ FromSource(x, End - 1)

Served ==
  serving # None =>
    /\ serving = src
    /\ ~mode.short => \A x \in Tensors : \A r \in First .. End - 1 : FromSource(x, r)
    /\ OwnRange /\ mode.short => \A x \in Tensors : FromSource(x, First) /\ FromSource(x, End - 1)

Base == TypeOK /\ Running
RowsInv == CopiedHold /\ RangesHold /\ Past /\ EndsHold /\ Served

\* Files that are cut off are being written; what is being recorded is current.
Holds(p, file) == At(p, "recordOpen") /\ fd[p] = file
FilesWritten ==
  /\ ranges.text \in {None, Partial} \cup mode.specs
  /\ ranges.text = Partial => \E p \in Stagers : At(p, "rangesOpen")
  /\ tmp.text = Partial => \E p \in Stagers : Holds(p, "tmp")
  /\ verified.text = Partial => \E p \in Stagers : Holds(p, "verified")
  /\ \A p \in Stagers :
       /\ pc[p] \in Recording \cup {"verify"} \/ exit[p] = "ok" => ranges.text # None
       /\ pc[p] \in {"recordOpen", "replace"} => tmp.text \in {None, Partial} \/ Current(tmp)
       /\ exit[p] = "ok" => verified.text = Partial \/ Current(verified)

\* No text in a file is longer than one that may be written over it.
Fits == \A f \in {ranges, verified, tmp} : \A s \in mode.specs : f.size <= TextSize[s]

FilesInv == ~mode.crashes => FilesWritten /\ Fits

(***************************************************************************)
(* Types and what a running stager has in hand                             *)
(***************************************************************************)
LEMMA SpecFacts ==
  ASSUME mode \in Modes, NEW s \in mode.specs
  PROVE  s \in Specs /\ s[1] \in Nat /\ s[2] \in s[1] + 1 .. NumRows
BY StagingAssumption DEF Specs

\* What a file holds after a write is what was written or no JSON, and as long as
\* before or as what was written.
LEMMA OverFacts ==
  ASSUME NEW T, NEW file \in Files(T), NEW text \in T, NEW s \in Specs
  PROVE  LET after == Over(file, text, TextSize[s])
         IN /\ after \in Files(T)
            /\ after.text \in {text, Partial}
            /\ file.size <= TextSize[s] => after.text = text /\ after.size = TextSize[s]
<1>1. TextSize[s] \in Nat /\ file.size \in Nat
  BY SizeAssumption DEF Files
<1>2. CASE file.size > TextSize[s]
  BY <1>1, <1>2 DEF Over, Files
<1>3. CASE ~(file.size > TextSize[s])
  BY <1>1, <1>3 DEF Over, Files
<1> QED BY <1>2, <1>3

LEMMA BaseInit == Init => Base
<1> SUFFICES ASSUME Init PROVE Base
  OBVIOUS
<1>1. TypeOK
  BY StagingAssumption DEF Init, TypeOK, Files, NoFile, Labels, Tensors, RowId
<1>2. Running
  BY DEF Init, Running, Active, Begun, At
<1> QED BY <1>1, <1>2 DEF Base

LEMMA BaseStart ==
  ASSUME Base, NEW p \in Stagers, NEW s \in mode.specs, Start(p, s)
  PROVE  Base'
<1> USE DEF Base
<1>1. s \in Specs /\ s[1] \in Nat /\ s[2] \in s[1] + 1 .. NumRows
  BY SpecFacts DEF TypeOK
<1>2. TypeOK'
  BY <1>1, StagingAssumption DEF Start, Goto, TypeOK, Labels, Tensors
<1>3. Running'
  BY <1>1 DEF Start, At, Goto, TypeOK, Running, Active, Begun
<1> QED BY <1>2, <1>3

LEMMA BaseCopy ==
  ASSUME Base, NEW p \in Stagers, CopyChunk(p)
  PROVE  Base'
<1> USE DEF Base
<1>1. spec[p] \in mode.specs /\ ver[p] = src /\ off[p] \in spec[p][1] .. spec[p][2]
  BY DEF Running, CopyChunk, At, Active
<1>2. spec[p][1] \in Nat /\ spec[p][2] \in spec[p][1] + 1 .. NumRows
  BY <1>1, SpecFacts DEF TypeOK
<1>3. ChunkEnd(p) \in off[p] .. spec[p][2]
  BY <1>1, <1>2, StagingAssumption DEF ChunkEnd, CopyChunk
<1>4. TypeOK'
  <2>1. data' \in [Tensors -> [RowId -> {Hole} \cup Versions]]
    BY DEF CopyChunk, TypeOK
  <2>2. off' \in [Stagers -> 0 .. NumRows]
    BY <1>2, <1>3, StagingAssumption DEF CopyChunk, TypeOK
  <2> QED BY <2>1, <2>2 DEF CopyChunk, TypeOK
<1>5. Running'
  BY <1>1, <1>2, <1>3, StagingAssumption DEF CopyChunk, TypeOK, Running, Active, Begun, At
<1> QED BY <1>4, <1>5

LEMMA BaseNextJob ==
  ASSUME Base, NEW p \in Stagers, NextJob(p)
  PROVE  Base'
<1> USE DEF Base
<1>1. spec[p] \in mode.specs
  BY DEF Running, NextJob, At, Active
<1>2. spec[p][1] \in Nat /\ spec[p][2] \in spec[p][1] + 1 .. NumRows
  BY <1>1, SpecFacts DEF TypeOK
<1>3. CASE job[p] = "weight"
  <2>1. TypeOK'
    BY <1>2, <1>3, StagingAssumption DEF NextJob, TypeOK, local, Tensors
  <2>2. Running'
    BY <1>2, <1>3 DEF NextJob, local, TypeOK, Running, Active, Begun, At
  <2> QED BY <2>1, <2>2
<1>4. CASE job[p] # "weight"
  <2>1. TypeOK'
    BY <1>4 DEF NextJob, Goto, TypeOK, local, Labels
  <2>2. Running'
    BY <1>4 DEF NextJob, Goto, local, TypeOK, Running, Active, Begun, At
  <2> QED BY <2>1, <2>2
<1> QED BY <1>3, <1>4

LEMMA BaseRanges ==
  ASSUME Base, NEW p \in Stagers, OpenRanges(p) \/ WriteRanges(p)
  PROVE  Base'
<1> USE DEF Base
<1>1. spec[p] \in Specs
  BY SpecFacts DEF Running, OpenRanges, WriteRanges, At, Active, TypeOK
<1>2. TypeOK'
  <2>1. ranges' \in Files(Specs)
    <3>1. CASE OpenRanges(p)
      BY <3>1 DEF OpenRanges, Truncated, Files
    <3>2. CASE WriteRanges(p)
      BY <1>1, <3>2, OverFacts DEF WriteRanges, TypeOK
    <3> QED BY <3>1, <3>2
  <2> QED BY <1>1, <2>1 DEF OpenRanges, WriteRanges, TypeOK, Goto, Labels
<1>3. Running'
  BY DEF OpenRanges, WriteRanges, Goto, TypeOK, Running, Active, Begun, At
<1> QED BY <1>2, <1>3

LEMMA BaseVerify ==
  ASSUME Base, NEW p \in Stagers, Verify(p)
  PROVE  Base'
<1> USE DEF Base
<1>1. TypeOK'
  BY DEF Verify, Exit, Goto, local, TypeOK, Labels
<1>2. Running'
  BY DEF Verify, Exit, Goto, local, TypeOK, Running, Active, Begun, At
<1> QED BY <1>1, <1>2

LEMMA BaseRecord ==
  ASSUME Base, NEW p \in Stagers, OpenTmp(p) \/ WriteTmp(p)
  PROVE  Base'
<1> USE DEF Base
<1>1. Active(p) /\ spec[p] \in Specs
  BY SpecFacts DEF OpenTmp, WriteTmp, Running, Active, At, TypeOK
<1>2. [hash |-> Index[src], layers |-> spec[p]] \in Records
  BY <1>1, StagingAssumption DEF TypeOK, Records
<1>3. TypeOK'
  <2>1. CASE OpenTmp(p)
    BY <2>1 DEF OpenTmp, Truncated, Goto, TypeOK, Labels, Files
  <2>2. CASE WriteTmp(p)
    <3>1. tmp' \in Files(Records) /\ verified' \in Files(Records)
      BY <1>1, <1>2, <2>2, OverFacts DEF WriteTmp, TypeOK
    <3> QED BY <2>2, <3>1 DEF WriteTmp, Goto, TypeOK, Labels
  <2> QED BY <2>1, <2>2
<1>4. Running'
  <2>1. CASE OpenTmp(p)
    BY <2>1 DEF OpenTmp, Goto, TypeOK, Running, Active, Begun, At
  <2>2. CASE WriteTmp(p)
    BY <2>2 DEF WriteTmp, Goto, TypeOK, Running, Active, Begun, At
  <2> QED BY <2>1, <2>2
<1> QED BY <1>3, <1>4

LEMMA BaseReplace ==
  ASSUME Base, NEW p \in Stagers, Replace(p)
  PROVE  Base'
<1> USE DEF Base
<1>1. TypeOK'
  <2>1. verified' \in Files(Records) /\ tmp' \in Files(Records)
    BY DEF Replace, NoFile, TypeOK, Files
  <2>2. fd' \in [Stagers -> {"none", "tmp", "verified", "gone"}]
    BY DEF Replace, Exit, Moved, TypeOK
  <2>3. pc' \in [Stagers -> Labels] /\ exit' \in [Stagers -> {"none", "ok", "failed"}]
    BY DEF Replace, Exit, Goto, TypeOK, Labels
  <2> QED BY <2>1, <2>2, <2>3 DEF Replace, TypeOK
<1>2. Running'
  BY DEF Replace, Exit, Goto, Moved, TypeOK, Running, Active, Begun, At
<1> QED BY <1>1, <1>2

LEMMA BaseCrash ==
  ASSUME Base, NEW p \in Stagers, Crash(p)
  PROVE  Base'
<1> USE DEF Base
<1>1. TypeOK'
  BY DEF Crash, Exit, Goto, local, TypeOK, Labels
<1>2. Running'
  BY DEF Crash, Exit, Goto, local, TypeOK, Running, Active, Begun, At
<1> QED BY <1>1, <1>2

LEMMA BaseNode ==
  ASSUME Base, Load \/ StopServer \/ \E v \in Versions : UpdateCheckpoint(v)
  PROVE  Base'
<1> USE DEF Base
<1>1. TypeOK'
  BY DEF Load, StopServer, UpdateCheckpoint, local, proc, TypeOK
<1>2. Running'
  BY DEF Load, StopServer, UpdateCheckpoint, local, proc, TypeOK, Running, Active, Begun, At
<1> QED BY <1>1, <1>2

LEMMA BaseSame ==
  ASSUME Base, UNCHANGED vars
  PROVE  Base'
BY DEF Base, vars, local, proc, TypeOK, Running, Active, Begun, At

LEMMA BaseNext == Base /\ [Next]_vars => Base'
<1> SUFFICES ASSUME Base, [Next]_vars PROVE Base'
  OBVIOUS
<1> QED
  BY BaseStart, BaseCopy, BaseNextJob, BaseRanges, BaseVerify, BaseRecord, BaseReplace,
     BaseCrash, BaseNode, BaseSame DEF Next, Step

LEMMA BaseHolds == Spec => []Base
BY BaseInit, BaseNext, PTL DEF Spec

\* Every reachable state of a node is well typed: no copy runs over the table's end,
\* and each file holds what some run wrote (stage_engram_rows.py:45-104).
THEOREM TypeCorrect == Spec => []TypeOK
<1>1. Base => TypeOK
  BY DEF Base
<1> QED BY <1>1, BaseHolds, PTL

(***************************************************************************)
(* The rows a server reads                                                 *)
(***************************************************************************)
LEMMA RowsInit == Init => RowsInv
<1> SUFFICES ASSUME Init PROVE RowsInv
  OBVIOUS
<1>1. ~Claimed(Recording \cup {"verify"}) /\ ~Claimed(Recording)
  BY AbsentAssumption DEF Init, NoFile, Claimed, Current, Recording
<1>2. CopiedHold /\ Past /\ Served
  BY AbsentAssumption DEF Init, NoFile, CopiedHold, Active, Past, Served
<1> QED BY <1>1, <1>2 DEF RowsInv, RangesHold, EndsHold

\* A running stager's range lies in the table, and what it has copied in its range.
LEMMA InHand ==
  ASSUME Base, NEW p \in Stagers, Active(p)
  PROVE  /\ ver[p] = src /\ spec[p] \in mode.specs /\ spec[p] \in Specs
         /\ spec[p][1] \in Nat /\ spec[p][2] \in spec[p][1] + 1 .. NumRows
         /\ Range(spec[p]) \subseteq RowId
         /\ \A x \in Tensors : Copied(p, x) \subseteq Range(spec[p])
<1>1. mode \in Modes /\ ver[p] = src /\ spec[p] \in mode.specs
  BY DEF Base, TypeOK, Running
<1>2. spec[p] \in Specs /\ spec[p][1] \in Nat /\ spec[p][2] \in spec[p][1] + 1 .. NumRows
  BY <1>1, SpecFacts
<1>3. At(p, "copy") => off[p] \in spec[p][1] .. spec[p][2]
  BY DEF Base, Running
<1> QED BY <1>1, <1>2, <1>3, StagingAssumption DEF Range, RowId, Copied

\* A step that leaves the shard, the range and what is recorded as they are.
LEMMA RowsFrame ==
  ASSUME RowsInv, UNCHANGED <<mode, src, data, ranges, serving>>,
         NEW q \in Stagers,
         \A p \in Stagers : p # q => UNCHANGED <<pc[p], spec[p], job[p], off[p]>>,
         Active(q)' => \A x \in Tensors : Copied(q, x)' \subseteq Copied(q, x) /\ Active(q),
         \A f \in {verified', tmp'} : f.text \in Records => f \in {verified, tmp},
         \A S \in {Recording, Recording \cup {"verify"}} : pc'[q] \in S => Claimed(S)
  PROVE  RowsInv'
<1>1. Claimed(Recording)' => Claimed(Recording)
  BY DEF Claimed, Current
<1>2. Claimed(Recording \cup {"verify"})' => Claimed(Recording \cup {"verify"})
  BY DEF Claimed, Current
<1>3. CopiedHold'
  <2>1. \A p \in Stagers, x \in Tensors : Active(p)' => Active(p) /\ Copied(p, x)' \subseteq Copied(p, x)
    BY DEF Active, Copied, At
  <2> QED BY <2>1 DEF RowsInv, CopiedHold, FromSource
<1>4. Past'
  BY DEF RowsInv, Past
<1> QED BY <1>1, <1>2, <1>3, <1>4 DEF RowsInv, RangesHold, EndsHold, Served, FromSource

LEMMA RowsStart ==
  ASSUME Base, RowsInv, NEW q \in Stagers, NEW s \in mode.specs, Start(q, s)
  PROVE  RowsInv'
<1> USE DEF Base
<1>1. s[1] \in Nat
  BY SpecFacts DEF TypeOK
<1>2. \A x \in Tensors : Copied(q, x)' = {}
  BY <1>1 DEF Start, Goto, TypeOK, Copied, At, Tensors
<1>3. CopiedHold'
  <2>1. \A p \in Stagers, x \in Tensors :
          p # q => (Active(p)' => Active(p)) /\ Copied(p, x)' = Copied(p, x)
    BY DEF Start, Goto, TypeOK, Active, Copied, At
  <2>2. UNCHANGED <<mode, src, data>>
    BY DEF Start
  <2> QED BY <1>2, <2>1, <2>2 DEF RowsInv, CopiedHold, FromSource
<1>4. Claimed(Recording)' => Claimed(Recording)
  BY DEF Start, Goto, TypeOK, Claimed, Current, Recording
<1>5. Claimed(Recording \cup {"verify"})' => Claimed(Recording \cup {"verify"})
  BY DEF Start, Goto, TypeOK, Claimed, Current, Recording
<1> QED
  BY <1>3, <1>4, <1>5 DEF Start, RowsInv, RangesHold, Past, EndsHold, Served, FromSource

\* What a stager copies comes from the version that the checkpoint has, so nothing
\* right is overwritten, whoever copies what twice.
LEMMA CopyAdds ==
  ASSUME Base, NEW q \in Stagers, CopyChunk(q)
  PROVE  \A x \in Tensors, r \in RowId : FromSource(x, r) => FromSource(x, r)'
BY DEF Base, TypeOK, Running, Active, At, CopyChunk, FromSource

LEMMA RowsCopy ==
  ASSUME Base, Base', RowsInv, NEW q \in Stagers, CopyChunk(q)
  PROVE  RowsInv'
<1> USE DEF Base
<1>1. \A x \in Tensors, r \in RowId : FromSource(x, r) => FromSource(x, r)'
  BY CopyAdds
<1>2. UNCHANGED <<mode, src, ranges, verified, tmp, pc, spec, job, serving>>
  BY DEF CopyChunk
<1>3. \A p \in Stagers : Active(p) => Range(spec[p]) \subseteq RowId
  BY InHand
<1>4. CopiedHold'
  <2> SUFFICES ASSUME ~mode.short, NEW p \in Stagers, Active(p), NEW x \in Tensors,
                      NEW r \in Copied(p, x)'
               PROVE  FromSource(x, r)'
    BY <1>2 DEF CopiedHold, Active
  <2>1. spec[p][1] \in Nat /\ spec[p][2] \in spec[p][1] + 1 .. NumRows
    BY SpecFacts DEF TypeOK, Running
  <2>2. CASE r \in Copied(p, x)
    <3>1. r \in RowId
      BY <2>2, InHand
    <3> QED BY <1>1, <2>2, <3>1 DEF RowsInv, CopiedHold
  <2>3. CASE r \notin Copied(p, x)
    <3>1. p = q /\ x = job[q] /\ r \in off[q] .. ChunkEnd(q) - 1
      BY <1>2, <2>1, <2>3, StagingAssumption DEF Copied, CopyChunk, At, TypeOK, Range, ChunkEnd
    <3>2. r \in RowId
      BY <2>1, <3>1, StagingAssumption DEF ChunkEnd, RowId, TypeOK
    <3>3. data'[x][r] = ver[q]
      BY <3>1, <3>2 DEF CopyChunk, TypeOK
    <3> QED BY <3>1, <3>3, <1>2 DEF FromSource, Running
  <2> QED BY <2>2, <2>3
<1>5. RangesHold'
  <2>1. ranges.text \in Specs => Range(ranges.text) \subseteq RowId
    BY StagingAssumption DEF Specs, Range, RowId
  <2> QED BY <1>1, <1>2, <2>1 DEF RowsInv, RangesHold, Claimed, Current
<1>6. {First, End - 1} \subseteq RowId /\ First .. End - 1 \subseteq RowId
  BY StagingAssumption DEF RowId
<1>7. EndsHold' /\ Served'
  BY <1>1, <1>2, <1>6 DEF RowsInv, EndsHold, Served, Claimed, Current
<1>8. Past'
  BY <1>2 DEF RowsInv, Past
<1> QED BY <1>4, <1>5, <1>7, <1>8 DEF RowsInv

LEMMA RowsNextJob ==
  ASSUME Base, RowsInv, NEW q \in Stagers, NextJob(q)
  PROVE  RowsInv'
<1> USE DEF Base
<1>1. spec[q][1] \in Nat /\ spec[q][2] \in spec[q][1] + 1 .. NumRows
  BY SpecFacts DEF TypeOK, Running, NextJob, At, Active
<1>2. off[q] = spec[q][2]
  <2>1. off[q] >= spec[q][2] /\ off[q] \in spec[q][1] .. spec[q][2]
    BY DEF NextJob, Running
  <2> QED BY <1>1, <2>1
<1>3. \A x \in Tensors : Copied(q, x)' \subseteq Copied(q, x)
  <2>1. CASE job[q] = "weight"
    BY <1>1, <1>2, <2>1 DEF NextJob, Copied, At, TypeOK, Range, Tensors
  <2>2. CASE job[q] = "scale"
    BY <1>1, <1>2, <2>2 DEF NextJob, Goto, Copied, At, TypeOK, Range, Tensors
  <2> QED BY <2>1, <2>2 DEF TypeOK, Tensors
<1>4. Active(q) /\ pc'[q] \in {"copy", "ranges"}
  BY DEF NextJob, Goto, TypeOK, At, Active
<1> QED
  BY <1>3, <1>4, RowsFrame DEF NextJob, Goto, local, TypeOK, Recording, At

LEMMA RowsOpenRanges ==
  ASSUME Base, RowsInv, NEW q \in Stagers, OpenRanges(q)
  PROVE  RowsInv'
<1> USE DEF Base
<1>1. ranges'.text \notin Specs
  BY AbsentAssumption DEF OpenRanges, Truncated
<1>2. CopiedHold'
  BY DEF OpenRanges, Goto, TypeOK, At, Active, Copied, RowsInv, CopiedHold, FromSource
<1>3. Claimed(Recording)' => Claimed(Recording)
  BY DEF OpenRanges, Goto, TypeOK, Claimed, Current, Recording
<1> QED
  BY <1>1, <1>2, <1>3 DEF OpenRanges, RowsInv, RangesHold, Past, EndsHold, Served, FromSource

LEMMA RowsWriteRanges ==
  ASSUME Base, RowsInv, NEW q \in Stagers, WriteRanges(q)
  PROVE  RowsInv'
<1> USE DEF Base
<1>1. RangesHold'
  <2>1. \A x \in Tensors : Copied(q, x) = Range(spec[q])
    BY DEF Copied, WriteRanges, At
  <2>2. ranges'.text \in {spec[q], Partial}
    BY InHand, OverFacts DEF WriteRanges, TypeOK, At, Active
  <2>3. ranges'.text \in Specs => ranges'.text = spec[q]
    BY <2>2, AbsentAssumption
  <2> QED
    BY <2>1, <2>3 DEF WriteRanges, At, Active, RowsInv, CopiedHold, RangesHold, FromSource
<1>2. CopiedHold'
  BY DEF WriteRanges, Goto, TypeOK, At, Active, Copied, RowsInv, CopiedHold, FromSource
<1>3. Claimed(Recording)' => Claimed(Recording)
  BY DEF WriteRanges, Goto, TypeOK, Claimed, Current, Recording
<1> QED
  BY <1>1, <1>2, <1>3 DEF WriteRanges, RowsInv, Past, EndsHold, Served, FromSource

\* Both ends of the range are among the rows that are compared.
LEMMA RowsVerify ==
  ASSUME Base, RowsInv, NEW q \in Stagers, Verify(q)
  PROVE  RowsInv'
<1> USE DEF Base
<1>1. UNCHANGED <<mode, src, data, ranges, verified, tmp, spec, job, off, serving>>
  BY DEF Verify, local
<1>2. CopiedHold'
  <2>1. \A p \in Stagers, x \in Tensors :
          Active(p)' => Active(p) /\ Copied(p, x)' = Copied(p, x)
    BY <1>1 DEF Verify, Exit, Goto, TypeOK, At, Active, Copied
  <2> QED BY <1>1, <2>1 DEF RowsInv, CopiedHold, FromSource
<1>3. Claimed(Recording \cup {"verify"})' => Claimed(Recording \cup {"verify"})
  BY <1>1 DEF Verify, Exit, Goto, TypeOK, At, Claimed, Current, Recording
<1>4. EndsHold'
  <2>1. CASE pc'[q] = "record"
    <3>1. header = Header[ver[q]] /\ ver[q] = src /\ spec[q] \in mode.specs
      BY <2>1 DEF Verify, Exit, Goto, TypeOK, At, Running, Active
    <3>2. PICK S \in [Tensors -> Samples(spec[q])] :
             \A x \in Tensors : \A r \in S[x] : data[x][r] = ver[q]
      BY <2>1 DEF Verify, Exit, Goto, TypeOK, At
    <3>3. \A x \in Tensors : {spec[q][1], spec[q][2] - 1} \subseteq S[x]
      BY <3>2 DEF Samples
    <3>4. OwnRange /\ mode.short => spec[q][1] = First /\ spec[q][2] = End
      BY <3>1 DEF OwnRange, TypeOK
    <3> QED BY <1>1, <3>1, <3>2, <3>3, <3>4 DEF EndsHold, FromSource
  <2>2. CASE pc'[q] # "record"
    <3>1. Claimed(Recording)' => Claimed(Recording)
      BY <1>1, <2>2 DEF Verify, Exit, Goto, TypeOK, At, Claimed, Current, Recording
    <3> QED BY <1>1, <3>1 DEF RowsInv, EndsHold, FromSource
  <2> QED BY <2>1, <2>2
<1> QED
  BY <1>1, <1>2, <1>3, <1>4 DEF RowsInv, RangesHold, Past, Served, FromSource

LEMMA RowsOpenTmp ==
  ASSUME Base, RowsInv, NEW q \in Stagers, OpenTmp(q)
  PROVE  RowsInv'
<1> USE DEF Base
<1>1. tmp'.text \notin Records /\ verified' = verified
  BY AbsentAssumption DEF OpenTmp, Truncated
<1>2. \A x \in Tensors : Copied(q, x)' = Copied(q, x) /\ Active(q)
  BY DEF OpenTmp, Goto, TypeOK, At, Copied, Active
<1>3. Claimed(Recording) /\ Claimed(Recording \cup {"verify"})
  BY DEF OpenTmp, At, Claimed, Recording
<1> QED
  BY <1>1, <1>2, <1>3, RowsFrame DEF OpenTmp, Goto, TypeOK

LEMMA RowsWriteTmp ==
  ASSUME Base, RowsInv, NEW q \in Stagers, WriteTmp(q)
  PROVE  RowsInv'
<1> USE DEF Base
<1>1. UNCHANGED <<mode, src, data, ranges, spec, job, off, serving>>
  BY DEF WriteTmp
<1>2. CopiedHold'
  BY <1>1 DEF WriteTmp, Goto, TypeOK, At, Active, Copied, RowsInv, CopiedHold, FromSource
<1>3. Claimed(Recording) /\ Claimed(Recording \cup {"verify"})
  BY DEF WriteTmp, At, Claimed, Recording
<1>4. Past'
  <2>1. src \in Versions /\ src <= src
    BY StagingAssumption DEF TypeOK
  <2>2. \A f \in {verified', tmp'} :
          \/ f \in {verified, tmp}
          \/ f.text \in {[hash |-> Index[src], layers |-> spec[q]], Partial}
    <3>1. spec[q] \in Specs /\ [hash |-> Index[src], layers |-> spec[q]] \in Records
      BY <2>1, InHand, StagingAssumption DEF WriteTmp, At, Active, Records
    <3> QED BY <3>1, OverFacts DEF WriteTmp, TypeOK
  <2>3. \A f \in {verified', tmp'} :
          f.text \in Records => f \in {verified, tmp} \/ f.text.hash = Index[src]
    BY <2>2, AbsentAssumption
  <2> QED BY <1>1, <2>1, <2>3 DEF RowsInv, Past
<1> QED
  BY <1>1, <1>2, <1>3, <1>4 DEF RowsInv, RangesHold, EndsHold, Served, FromSource

LEMMA RowsReplace ==
  ASSUME Base, RowsInv, NEW q \in Stagers, Replace(q)
  PROVE  RowsInv'
<1> USE DEF Base
<1>1. UNCHANGED <<mode, src, data, ranges, spec, job, off, serving>> /\ pc'[q] = "idle"
  BY DEF Replace, Exit, Goto, TypeOK
<1>2. \A f \in {verified', tmp'} : f.text \in Records => f \in {verified, tmp}
  BY AbsentAssumption DEF Replace, NoFile
<1>3. \A p \in Stagers : p # q => pc'[p] = pc[p]
  BY DEF Replace, Exit, Goto, TypeOK
<1> QED
  BY <1>1, <1>2, <1>3, RowsFrame DEF Active, Recording

LEMMA RowsCrash ==
  ASSUME Base, RowsInv, NEW q \in Stagers, Crash(q)
  PROVE  RowsInv'
<1> USE DEF Base
<1>1. UNCHANGED <<mode, src, data, ranges, verified, tmp, spec, job, off, serving>>
  BY DEF Crash, local
<1>2. pc'[q] = "idle" /\ \A p \in Stagers : p # q => pc'[p] = pc[p]
  BY DEF Crash, Exit, Goto, TypeOK
<1> QED
  BY <1>1, <1>2, RowsFrame DEF Active, Recording

\* What the loader accepts has been copied: the record is of this checkpoint, so a
\* stager of this checkpoint has written it, after the range.
LEMMA RowsLoad ==
  ASSUME Base, RowsInv, Load
  PROVE  RowsInv'
<1> USE DEF Base
<1>1. UNCHANGED <<mode, src, data, ranges, verified, tmp, pc, spec, job, off>> /\ serving' = src
  BY DEF Load, local, proc
<1>2. Claimed(Recording) /\ Claimed(Recording \cup {"verify"})
  BY DEF Load, Acceptable, Claimed, Current
<1>3. ~mode.short => \A x \in Tensors : \A r \in First .. End - 1 : FromSource(x, r)
  <2>1. ranges.text \in Specs /\ ranges.text[1] <= First /\ ranges.text[2] >= End
    BY DEF Load, Acceptable, Covers, TypeOK, Files
  <2>2. First .. End - 1 \subseteq Range(ranges.text)
    BY <2>1, StagingAssumption DEF Range, Specs
  <2> QED BY <1>2, <2>1, <2>2 DEF RowsInv, RangesHold
<1>4. Served'
  BY <1>1, <1>2, <1>3 DEF RowsInv, EndsHold, Served, FromSource
<1> QED
  BY <1>1, <1>4 DEF RowsInv, CopiedHold, Active, Copied, At, RangesHold, Past, EndsHold,
     Claimed, Current, FromSource

LEMMA RowsStop ==
  ASSUME RowsInv, StopServer
  PROVE  RowsInv'
BY DEF StopServer, local, proc, RowsInv, CopiedHold, Active, Copied, At, RangesHold, Past,
   EndsHold, Claimed, Current, Served, FromSource

\* A new checkpoint makes every record that there is one of the past.
LEMMA RowsUpdate ==
  ASSUME NewIndices, Base, RowsInv, NEW v \in Versions, UpdateCheckpoint(v)
  PROVE  RowsInv'
<1> USE DEF Base
<1>1. UNCHANGED <<mode, data, ranges, verified, tmp, pc>> /\ src' = v /\ v > src
  BY DEF UpdateCheckpoint, local, NewIndices
<1>2. \A p \in Stagers : ~Active(p) /\ ~Active(p)'
  BY <1>1 DEF UpdateCheckpoint, Active
<1>3. \A f \in {verified, tmp} :
        f.text \in Records => \E w \in Versions : w <= src /\ f.text.hash = Index[w]
  BY DEF RowsInv, Past
<1>4. \A f \in {verified, tmp} : f.text \in Records => f.text.hash # Index[v]
  <2> SUFFICES ASSUME NEW f \in {verified, tmp}, f.text \in Records, f.text.hash = Index[v]
               PROVE  FALSE
    OBVIOUS
  <2>1. PICK w \in Versions : w <= src /\ f.text.hash = Index[w]
    BY <1>3
  <2>2. w = v
    BY <2>1 DEF NewIndices
  <2> QED BY <1>1, <2>1, <2>2, StagingAssumption DEF TypeOK
<1>5. ~Claimed(Recording)' /\ ~Claimed(Recording \cup {"verify"})'
  BY <1>1, <1>2, <1>4 DEF Claimed, Current, Active, Recording
<1>6. Past'
  BY <1>1, <1>3, StagingAssumption DEF Past, TypeOK
<1>7. Served'
  BY DEF UpdateCheckpoint, Served
<1> QED
  BY <1>2, <1>5, <1>6, <1>7 DEF RowsInv, CopiedHold, RangesHold, EndsHold

LEMMA RowsSame ==
  ASSUME RowsInv, UNCHANGED vars
  PROVE  RowsInv'
BY DEF vars, local, proc, RowsInv, CopiedHold, Active, Copied, At, RangesHold, Past,
   EndsHold, Claimed, Current, Served, FromSource

LEMMA RowsNext ==
  ASSUME NewIndices
  PROVE  Base /\ Base' /\ RowsInv /\ [Next]_vars => RowsInv'
<1> SUFFICES ASSUME Base, Base', RowsInv, [Next]_vars PROVE RowsInv'
  OBVIOUS
<1> QED
  BY RowsStart, RowsCopy, RowsNextJob, RowsOpenRanges, RowsWriteRanges, RowsVerify,
     RowsOpenTmp, RowsWriteTmp, RowsReplace, RowsCrash, RowsLoad, RowsStop, RowsUpdate,
     RowsSame DEF Next, Step

LEMMA RowsHold ==
  ASSUME NewIndices
  PROVE  Spec => [](Base /\ RowsInv)
<1>1. Base /\ Base' /\ RowsInv /\ [Next]_vars => RowsInv'
  BY RowsNext
<1> QED BY <1>1, RowsInit, BaseHolds, PTL DEF Spec

\* A server reads every row it owns from the version of the checkpoint it loaded, for
\* any number of stagers that crash, are rerun or run at once, and for any tables and
\* chunks, if the checkpoint never returns to an index it had
\* (stage_engram_rows.py:45-104, engram_backend.py:59-75).
THEOREM ServedRowsAreExact ==
  ASSUME NewIndices
  PROVE  Spec => []ServedRowsExact
<1>1. RowsInv => ServedRowsExact
  BY DEF RowsInv, Served, ServedRowsExact, FromSource
<1> QED BY <1>1, RowsHold, PTL

\* On a disk that takes less than it is given, the first and the last row a server
\* owns are still those of the checkpoint (stage_engram_rows.py:63, 92).
THEOREM EndsAreChecked ==
  ASSUME NewIndices, OwnRange
  PROVE  Spec => []EndsChecked
<1>1. Base /\ RowsInv => EndsChecked
  <2> SUFFICES ASSUME Base, RowsInv, serving # None, NEW x \in Tensors,
                      NEW r \in {First, End - 1}
               PROVE  data[x][r] = serving
    BY DEF EndsChecked
  <2>1. {First, End - 1} \subseteq First .. End - 1
    BY StagingAssumption
  <2> QED BY <2>1 DEF RowsInv, Served, FromSource
<1> QED BY <1>1, RowsHold, PTL

(***************************************************************************)
(* What a stager that succeeded leaves behind                              *)
(***************************************************************************)
LEMMA FilesInit == Init => FilesInv
<1> SUFFICES ASSUME Init PROVE FilesInv
  OBVIOUS
<1>1. FilesWritten
  BY AbsentAssumption DEF Init, NoFile, FilesWritten, Recording
<1>2. Fits
  BY SpecFacts, SizeAssumption DEF Init, NoFile, Fits
<1> QED BY <1>1, <1>2 DEF FilesInv

\* A step that leaves the files as they are.
LEMMA FilesFrame ==
  ASSUME FilesInv, UNCHANGED <<mode, src, ranges, verified, tmp>>,
         NEW q \in Stagers,
         \A p \in Stagers : p # q => UNCHANGED <<pc[p], fd[p], exit[p]>>,
         ~mode.crashes => pc[q] \notin {"rangesOpen", "recordOpen"},
         pc'[q] \in Recording \cup {"verify"} => pc[q] \in Recording \cup {"verify"},
         pc'[q] \notin {"recordOpen", "replace"}, exit'[q] = "ok" => exit[q] = "ok"
  PROVE  FilesInv'
<1> SUFFICES ASSUME ~mode.crashes PROVE FilesWritten' /\ Fits'
  BY DEF FilesInv
<1> QED BY DEF FilesInv, FilesWritten, Fits, At, Holds, Current

LEMMA FilesQuiet ==
  ASSUME Base, FilesInv, NEW q \in Stagers,
         NextJob(q) \/ CopyChunk(q) \/ Verify(q) \/ \E s \in mode.specs : Start(q, s)
  PROVE  FilesInv'
<1> USE DEF Base
<1>1. UNCHANGED <<mode, src, ranges, verified, tmp>>
  BY DEF NextJob, CopyChunk, Verify, Start, local
<1>2. \A p \in Stagers : p # q => UNCHANGED <<pc[p], fd[p], exit[p]>>
  BY DEF NextJob, CopyChunk, Verify, Start, Exit, Goto, TypeOK
<1>3. pc[q] \in {"copy", "verify", "idle"}
  BY DEF NextJob, CopyChunk, Verify, Start, At
<1>4. pc'[q] \in {"copy", "ranges"} \/ (pc[q] = "verify" /\ pc'[q] \in {"record", "idle"})
  BY DEF NextJob, CopyChunk, Verify, Start, Exit, Goto, TypeOK, At
<1>5. exit'[q] = "ok" => exit[q] = "ok"
  BY DEF NextJob, CopyChunk, Verify, Start, Exit, Goto, TypeOK
<1>6. /\ pc'[q] \in Recording \cup {"verify"} => pc[q] \in Recording \cup {"verify"}
      /\ pc'[q] \notin {"recordOpen", "replace"} /\ pc[q] \notin {"rangesOpen", "recordOpen"}
  BY <1>3, <1>4 DEF Recording
<1> QED BY <1>1, <1>2, <1>5, <1>6, FilesFrame

LEMMA FilesRanges ==
  ASSUME OneLength, Base, FilesInv, NEW q \in Stagers, OpenRanges(q) \/ WriteRanges(q)
  PROVE  FilesInv'
<1> USE DEF Base
<1> SUFFICES ASSUME ~mode.crashes PROVE FilesWritten' /\ Fits'
  BY DEF FilesInv, OpenRanges, WriteRanges
<1>1. FilesWritten /\ Fits
  BY DEF FilesInv, OpenRanges, WriteRanges
<1>2. CASE OpenRanges(q)
  <2>1. FilesWritten'
    BY <1>1, <1>2, AbsentAssumption
       DEF OpenRanges, Truncated, Goto, TypeOK, FilesWritten, At, Holds, Recording, Current
  <2>2. Fits'
    BY <1>1, <1>2, SpecFacts, SizeAssumption DEF OpenRanges, Truncated, Fits, TypeOK
  <2> QED BY <2>1, <2>2
<1>3. CASE WriteRanges(q)
  <2>0. spec[q] \in mode.specs /\ spec[q] \in Specs
    BY <1>3, InHand DEF WriteRanges, At, Active
  <2>a. ranges.size <= TextSize[spec[q]]
    BY <1>1, <2>0 DEF Fits
  <2>b. ranges'.text = spec[q] /\ ranges'.size = TextSize[spec[q]]
    BY <1>3, <2>0, <2>a, OverFacts DEF WriteRanges, TypeOK
  <2>c. Fits'
    <3>1. \A s \in mode.specs : TextSize[s] = TextSize[spec[q]] /\ TextSize[s] \in Nat
      BY <2>0, SpecFacts, SizeAssumption DEF OneLength, TypeOK
    <3> QED BY <1>1, <1>3, <2>b, <3>1 DEF WriteRanges, Fits
  <2>1. ranges'.text \in mode.specs /\ ranges'.text \notin {None, Partial}
    BY <2>0, <2>b, AbsentAssumption
  <2>2. \A p \in Stagers : p # q => pc'[p] = pc[p]
    BY <1>3 DEF WriteRanges, Goto, TypeOK
  <2>3. pc[q] = "rangesOpen" /\ pc'[q] = "verify"
    BY <1>3 DEF WriteRanges, Goto, TypeOK, At
  <2>4. FilesWritten'
    BY <1>1, <1>3, <2>1, <2>2, <2>3 DEF WriteRanges, FilesWritten, At, Holds, Current
  <2> QED BY <2>c, <2>4
<1> QED BY <1>2, <1>3

LEMMA FilesOpenTmp ==
  ASSUME Base, FilesInv, NEW q \in Stagers, OpenTmp(q)
  PROVE  FilesInv'
<1> USE DEF Base
<1> SUFFICES ASSUME ~mode.crashes PROVE FilesWritten' /\ Fits'
  BY DEF FilesInv, OpenTmp
<1>1. FilesWritten /\ Fits
  BY DEF FilesInv, OpenTmp
<1>2. \A p \in Stagers : p # q => pc'[p] = pc[p] /\ fd'[p] = fd[p]
  BY DEF OpenTmp, Goto, TypeOK
<1>3. pc[q] = "record" /\ pc'[q] = "recordOpen" /\ fd'[q] = "tmp"
  BY DEF OpenTmp, Goto, TypeOK, At
<1>4. Fits'
  BY <1>1, SpecFacts, SizeAssumption DEF OpenTmp, Truncated, Fits, TypeOK
<1>5. FilesWritten'
  BY <1>1, <1>2, <1>3 DEF OpenTmp, Truncated, FilesWritten, At, Holds, Current, Recording
<1> QED BY <1>4, <1>5

\* Whoever writes finishes the file that it holds, and holds no other.
LEMMA FilesWriteTmp ==
  ASSUME OneLength, Base, FilesInv, NEW q \in Stagers, WriteTmp(q)
  PROVE  FilesInv'
<1> USE DEF Base
<1> SUFFICES ASSUME ~mode.crashes PROVE FilesWritten' /\ Fits'
  BY DEF FilesInv, WriteTmp
<1>1. FilesWritten /\ Fits
  BY DEF FilesInv, WriteTmp
<1>2. \A p \in Stagers : p # q => pc'[p] = pc[p] /\ fd'[p] = fd[p]
  BY DEF WriteTmp, Goto, TypeOK
<1>3. pc[q] = "recordOpen" /\ pc'[q] = "replace"
  BY DEF WriteTmp, Goto, TypeOK, At
<1> DEFINE record == [hash |-> Index[src], layers |-> spec[q]]
           size == TextSize[spec[q]]
<1>4. /\ record \in Records /\ record.hash = Index[src]
      /\ spec[q] \in mode.specs /\ spec[q] \in Specs
  BY <1>3, InHand, StagingAssumption DEF Records, Active, TypeOK
<1>5. UNCHANGED <<src, exit, ranges, mode>>
  BY DEF WriteTmp
<1>6. /\ IF fd[q] = "tmp" THEN tmp'.text = record /\ tmp'.size = size ELSE tmp' = tmp
      /\ IF fd[q] = "verified" THEN verified'.text = record /\ verified'.size = size
                               ELSE verified' = verified
  <2>1. tmp.size <= size /\ verified.size <= size
    BY <1>1, <1>4 DEF Fits
  <2> QED BY <1>4, <2>1, OverFacts DEF WriteTmp, TypeOK
<1>7. \A f : Current(f) => f.text \notin {None, Partial}
  BY AbsentAssumption DEF Current
<1>8. \A f : Current(f)' <=> Current(f)
  BY <1>5 DEF Current
<1>9. /\ Current(tmp') \/ (tmp' = tmp /\ fd[q] # "tmp")
      /\ Current(verified') \/ (verified' = verified /\ fd[q] # "verified")
  BY <1>4, <1>6 DEF Current
<1>10. Fits'
  <2>1. \A s \in mode.specs : TextSize[s] = size /\ TextSize[s] \in Nat
    BY <1>4, SpecFacts, SizeAssumption DEF OneLength, TypeOK
  <2> QED BY <1>1, <1>5, <1>6, <2>1 DEF Fits
<1>11. FilesWritten'
  BY <1>1, <1>2, <1>3, <1>5, <1>7, <1>8, <1>9 DEF FilesWritten, At, Holds, Recording
<1> QED BY <1>10, <1>11

LEMMA FilesReplace ==
  ASSUME Base, FilesInv, NEW q \in Stagers, Replace(q)
  PROVE  FilesInv'
<1> USE DEF Base
<1> SUFFICES ASSUME ~mode.crashes PROVE FilesWritten' /\ Fits'
  BY DEF FilesInv, Replace
<1>1. FilesWritten /\ Fits
  BY DEF FilesInv, Replace
<1>2. pc[q] = "replace" /\ pc'[q] = "idle" /\ \A p \in Stagers : p # q => pc'[p] = pc[p]
  BY DEF Replace, Exit, Goto, TypeOK, At
<1>3. UNCHANGED <<src, ranges, mode>>
  BY DEF Replace
<1>f. Fits'
  BY <1>1, <1>3, SpecFacts, SizeAssumption DEF Replace, NoFile, Fits, TypeOK
<1>4. CASE tmp.text = None
  <2>1. UNCHANGED <<verified, tmp>> /\ exit'[q] = "failed"
    BY <1>4 DEF Replace, Exit, TypeOK
  <2>2. \A p \in Stagers : p # q => exit'[p] = exit[p] /\ fd'[p] = fd[p]
    BY <1>4 DEF Replace, Exit, TypeOK
  <2> QED
    BY <1>1, <1>2, <1>3, <1>f, <2>1, <2>2 DEF FilesWritten, At, Holds, Current, Recording
<1>5. CASE tmp.text # None
  <2>1. verified' = tmp /\ tmp'.text = None /\ exit'[q] = "ok"
    BY <1>5 DEF Replace, NoFile, TypeOK
  <2>2. \A p \in Stagers : p # q => exit'[p] = exit[p] /\ (fd[p] = "tmp" => fd'[p] = "verified")
    BY <1>5 DEF Replace, TypeOK, Moved
  <2>3. tmp.text = Partial \/ Current(tmp)
    BY <1>1, <1>2, <1>5 DEF FilesWritten
  <2>4. ranges.text # None
    BY <1>1, <1>2 DEF FilesWritten, Recording
  <2>5. tmp.text = Partial => \E p \in Stagers : Holds(p, "verified")'
    BY <1>1, <1>2, <2>2 DEF FilesWritten, Holds, At
  <2> QED
    BY <1>1, <1>2, <1>3, <1>f, <2>1, <2>2, <2>3, <2>4, <2>5, AbsentAssumption
       DEF FilesWritten, At, Current, Recording
<1> QED BY <1>4, <1>5

LEMMA FilesNode ==
  ASSUME Base, FilesInv, Load \/ StopServer \/ \E v \in Versions : UpdateCheckpoint(v)
  PROVE  FilesInv'
<1> USE DEF Base
<1>1. CASE Load \/ StopServer
  BY <1>1 DEF Load, StopServer, local, proc, FilesInv, FilesWritten, Fits, At, Holds, Current
<1>2. ASSUME NEW v \in Versions, UpdateCheckpoint(v)
      PROVE  FilesInv'
  BY <1>2 DEF UpdateCheckpoint, local, TypeOK, FilesInv, FilesWritten, Fits, At, Holds, Recording
<1> QED BY <1>1, <1>2

LEMMA FilesNext ==
  ASSUME OneLength
  PROVE  Base /\ FilesInv /\ [Next]_vars => FilesInv'
<1> SUFFICES ASSUME Base, FilesInv, [Next]_vars PROVE FilesInv'
  OBVIOUS
<1>1. ASSUME NEW p \in Stagers, Crash(p)
      PROVE  FilesInv'
  BY <1>1 DEF Crash, FilesInv
<1>2. CASE UNCHANGED vars
  BY <1>2 DEF vars, local, proc, FilesInv, FilesWritten, Fits, At, Holds, Current
<1> QED
  BY <1>1, <1>2, FilesQuiet, FilesRanges, FilesOpenTmp, FilesWriteTmp, FilesReplace,
     FilesNode DEF Next, Step

\* A stager that reported success leaves a copy that the loader accepts, for any
\* number of them finishing at once over one engram-local.json and one
\* verified.json.tmp, where none dies, each is asked for all the rows of this rank and
\* what they write has one length (stage_engram_rows.py:82-104).
THEOREM SuccessIsAccepted ==
  ASSUME Covering, OneLength
  PROVE  Spec => []SuccessLoads
<1>1. Base /\ FilesInv => SuccessLoads
  <2> SUFFICES ASSUME Base, FilesInv, ~mode.crashes, NEW p \in Stagers, exit[p] = "ok",
                      \A q \in Stagers : pc[q] = "idle"
               PROVE  Acceptable
    BY DEF SuccessLoads
  <2>1. FilesWritten
    BY DEF FilesInv
  <2>2. verified.text \in Records /\ verified.text.hash = Index[src]
    BY <2>1 DEF FilesWritten, Holds, At, Current
  <2>3. ranges.text \in mode.specs /\ ranges.text \notin {None, Partial}
    BY <2>1 DEF FilesWritten, At
  <2>4. ranges.text[1] <= First /\ ranges.text[2] >= End
    BY <2>3, StagingAssumption, SpecFacts DEF Covering, Base, TypeOK
  <2>5. header = Header[src]
    BY DEF Base, Running, Begun
  <2> QED BY <2>2, <2>3, <2>4, <2>5 DEF Acceptable, Covers
<1>2. Base /\ FilesInv /\ [Next]_vars => FilesInv'
  BY FilesNext
<1> QED BY <1>1, <1>2, BaseHolds, FilesInit, PTL DEF Spec

=============================================================================
