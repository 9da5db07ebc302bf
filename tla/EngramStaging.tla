----------------------------- MODULE EngramStaging -----------------------------
(***************************************************************************)
(* One node's local copy of its rank's Engram rows: the stagers that write *)
(* it (tools/stage_engram_rows.py, run over ssh by stage_local_engram.py), *)
(* which may crash, be rerun, or run twice at once when the control side   *)
(* gave up waiting (communicate's timeout leaves the remote one running),  *)
(* and the loader that accepts or refuses it (engram_backend.py:59-75).    *)
(*                                                                         *)
(* The checkpoint has versions; a row's bytes are the version they come    *)
(* from, or Hole in a sparse file that never received them.  One layer is  *)
(* modelled; its weights and scales are two copy jobs.  Page cache control,*)
(* rate limiting and the copied index, which nothing reads, are left out.  *)
(***************************************************************************)
EXTENDS Integers

CONSTANTS
  Stagers,     \* stager processes that may run on the node
  Versions,    \* versions of the source checkpoint, naturals from 1
  Header,      \* Header[v]: the safetensors header of the shard in version v
  Index,       \* Index[v]: the model index of version v, all that the hash covers
  NumRows,
  Chunk,       \* rows copied by one pread and pwrite (CH, 32 MiB)
  First, End,  \* the rows [First, End) that this node's rank owns
  Modes,       \* what may happen on the node, see StagingAssumption
  Rollback,    \* may the checkpoint return to a version it had before
  TextSize,    \* TextSize[s]: length of the JSON text written for the range s
  None,        \* no such file, or no server
  Partial      \* what is no JSON: a file cut off, or one text over a longer one

ASSUME StagingAssumption ==
  /\ Versions \subseteq Nat \ {0} /\ {Header, Index} \subseteq [Versions -> Versions]
  /\ NumRows \in Nat /\ Chunk \in Nat \ {0}
  /\ First \in Nat /\ End \in First + 1 .. NumRows
  \* specs: the ranges a stager may be asked for; crashes: may stagers die;
  \* short: may pwrite write less than it is given (its result is ignored)
  /\ \A m \in Modes : /\ {m.crashes, m.short} \subseteq BOOLEAN
                       /\ \A s \in m.specs : s[1] \in Nat /\ s[2] \in s[1] + 1 .. NumRows
  /\ Rollback \in BOOLEAN

VARIABLES
  mode,      \* the one of Modes this node is in
  src,       \* the version of the checkpoint at DSV41_SOURCE
  header,    \* the header in the local shard, or None
  data,      \* data[tensor][row]: a version or Hole
  ranges,    \* engram-local.json: its text (a range) and its size
  verified,  \* verified.json: its text (a record) and its size
  tmp,       \* verified.json.tmp, likewise
  pc, spec, ver, job, off,   \* per stager: step, range, version read, position
  fd,        \* per stager: where its open verified.json.tmp now is
  exit,      \* per stager: "none", "ok" or "failed"
  serving    \* the version a running server has loaded, or None

local == <<header, data, ranges, verified, tmp>>
proc == <<pc, spec, ver, job, off, fd, exit>>
vars == <<mode, src, local, proc, serving>>

Hole == 0
Tensors == {"weight", "scale"}
RowId == 0 .. NumRows - 1
Range(s) == s[1] .. s[2] - 1
Specs == UNION {m.specs : m \in Modes}
Records == [hash : Versions, layers : Specs]

\* Of the texts only the rows in them vary in length, in both files alike.
ASSUME SizeAssumption == TextSize \in [Specs -> Nat \ {0}]

\* A file that is missing or cut off is not mistaken for one with contents.
ASSUME AbsentAssumption ==
  /\ None # Partial
  /\ \A f \in {None, Partial} : f \notin Records /\ f \notin Specs /\ f \notin Versions

NoFile == [text |-> None, size |-> 0]
Truncated == [text |-> Partial, size |-> 0]

\* A text written from the start of a file that another writer may have filled since
\* it was opened: of a longer one the end remains, and no JSON is read.
Over(file, text, size) ==
  IF file.size > size THEN [file EXCEPT !.text = Partial] ELSE [text |-> text, size |-> size]

Init ==
  /\ mode \in Modes
  /\ src \in Versions /\ \A v \in Versions : src <= v
  /\ header = None /\ data = [x \in Tensors |-> [r \in RowId |-> Hole]]
  /\ ranges = NoFile /\ verified = NoFile /\ tmp = NoFile
  /\ pc = [p \in Stagers |-> "idle"]
  /\ spec = [p \in Stagers |-> <<First, End>>]
  /\ ver = [p \in Stagers |-> src]
  /\ job = [p \in Stagers |-> "weight"]
  /\ off = [p \in Stagers |-> First]
  /\ fd = [p \in Stagers |-> "none"]
  /\ exit = [p \in Stagers |-> "none"]
  /\ serving = None

At(p, label) == pc[p] = label
Goto(p, label) == pc' = [pc EXCEPT ![p] = label]
Exit(p, code) ==
  /\ Goto(p, "idle")
  /\ exit' = [exit EXCEPT ![p] = code]
  /\ fd' = [fd EXCEPT ![p] = "none"]

(***************************************************************************)
(* The stager                                                              *)
(***************************************************************************)
\* Opens the source shard, sizes the local file (its old rows stay) and copies
\* the header.  verified.json of an earlier run is not touched.
Start(p, s) ==
  /\ At(p, "idle")
  /\ spec' = [spec EXCEPT ![p] = s]
  /\ ver' = [ver EXCEPT ![p] = src]
  /\ job' = [job EXCEPT ![p] = "weight"]
  /\ off' = [off EXCEPT ![p] = s[1]]
  /\ exit' = [exit EXCEPT ![p] = "none"]
  /\ header' = Header[src]
  /\ Goto(p, "copy")
  /\ UNCHANGED <<mode, src, data, ranges, verified, tmp, fd, serving>>

MutChunkEnd(p) == off[p] + Chunk     \* mutant: a full last chunk
ChunkEnd(p) == IF off[p] + Chunk < spec[p][2] THEN off[p] + Chunk ELSE spec[p][2]

\* One chunk: all of it, or a part when the disk takes less.
CopyChunk(p) ==
  /\ At(p, "copy") /\ off[p] < spec[p][2]
  /\ \E last \in off[p] - 1 .. ChunkEnd(p) - 1 :
       /\ last = ChunkEnd(p) - 1 \/ mode.short
       /\ data' = [data EXCEPT ![job[p]] =
                     [r \in RowId |-> IF off[p] <= r /\ r <= last THEN ver[p] ELSE @[r]]]
  /\ off' = [off EXCEPT ![p] = ChunkEnd(p)]
  /\ UNCHANGED <<mode, src, header, ranges, verified, tmp, pc, spec, ver, job, fd, exit, serving>>

NextJob(p) ==
  /\ At(p, "copy") /\ off[p] >= spec[p][2]
  /\ IF job[p] = "weight"
       THEN /\ job' = [job EXCEPT ![p] = "scale"]
            /\ off' = [off EXCEPT ![p] = spec[p][1]]
            /\ UNCHANGED pc
       ELSE Goto(p, "ranges") /\ UNCHANGED <<job, off>>
  /\ UNCHANGED <<mode, src, local, spec, ver, fd, exit, serving>>

\* engram-local.json is truncated, then written.
OpenRanges(p) ==
  /\ At(p, "ranges")
  /\ ranges' = Truncated
  /\ Goto(p, "rangesOpen")
  /\ UNCHANGED <<mode, src, header, data, verified, tmp, spec, ver, job, off, fd, exit, serving>>

\* mutant: the row range is computed but never written
MutWriteRanges(p) ==
  /\ At(p, "rangesOpen")
  /\ Goto(p, "verify")
  /\ UNCHANGED <<mode, src, local, spec, ver, job, off, fd, exit, serving>>

WriteRanges(p) ==
  /\ At(p, "rangesOpen")
  /\ ranges' = Over(ranges, spec[p], TextSize[spec[p]])
  /\ Goto(p, "verify")
  /\ UNCHANGED <<mode, src, header, data, verified, tmp, spec, ver, job, off, fd, exit, serving>>

\* The rows compared with the source: both ends of the range and any others.
MutSamples(s) == {S \in SUBSET Range(s) : s[1] \in S}   \* mutant: e - 1 not drawn
Samples(s) == {S \in SUBSET Range(s) : {s[1], s[2] - 1} \subseteq S}

Verify(p) ==
  /\ At(p, "verify")
  /\ \E S \in [Tensors -> Samples(spec[p])] :
       IF header = Header[ver[p]] /\ \A x \in Tensors : \A r \in S[x] : data[x][r] = ver[p]
         THEN Goto(p, "record") /\ UNCHANGED <<exit, fd>>
         ELSE Exit(p, "failed")
  /\ UNCHANGED <<mode, src, local, spec, ver, job, off, serving>>

\* verified.json.tmp is opened, created or truncated.
OpenTmp(p) ==
  /\ At(p, "record")
  /\ tmp' = Truncated
  /\ fd' = [fd EXCEPT ![p] = "tmp"]
  /\ Goto(p, "recordOpen")
  /\ UNCHANGED <<mode, src, header, data, ranges, verified, spec, ver, job, off, exit, serving>>

\* The record goes where the open file is by now: another stager may have
\* renamed it to verified.json, or replaced that again.
WriteTmp(p) ==
  /\ At(p, "recordOpen")
  /\ LET record == [hash |-> Index[src], layers |-> spec[p]]
         size == TextSize[spec[p]]
     IN /\ tmp' = IF fd[p] = "tmp" THEN Over(tmp, record, size) ELSE tmp
        /\ verified' = IF fd[p] = "verified" THEN Over(verified, record, size) ELSE verified
  /\ fd' = [fd EXCEPT ![p] = "none"]
  /\ Goto(p, "replace")
  /\ UNCHANGED <<mode, src, header, data, ranges, spec, ver, job, off, exit, serving>>

Moved(f) == IF f = "tmp" THEN "verified" ELSE IF f = "verified" THEN "gone" ELSE f

Replace(p) ==
  /\ At(p, "replace")
  /\ IF tmp.text = None
       THEN Exit(p, "failed") /\ UNCHANGED <<verified, tmp>>
       ELSE /\ verified' = tmp /\ tmp' = NoFile
            /\ fd' = [q \in Stagers |-> IF q = p THEN "none" ELSE Moved(fd[q])]
            /\ exit' = [exit EXCEPT ![p] = "ok"]
            /\ Goto(p, "idle")
  /\ UNCHANGED <<mode, src, header, data, ranges, spec, ver, job, off, serving>>

\* Killed, a short read of the source, no space: whatever it did stays.
Crash(p) ==
  /\ mode.crashes /\ pc[p] # "idle"
  /\ Exit(p, "failed")
  /\ UNCHANGED <<mode, src, local, spec, ver, job, off, serving>>

(***************************************************************************)
(* The loader, the server and the checkpoint                               *)
(***************************************************************************)
Covers(file) ==
  file.text \notin {None, Partial} /\ file.text[1] <= First /\ file.text[2] >= End

\* mutant: the record's index hash is not compared
MutAcceptable ==
  /\ verified.text \in Records
  /\ Covers(ranges) /\ header = Header[src]
Acceptable ==
  /\ verified.text \in Records /\ verified.text.hash = Index[src]
  /\ Covers(ranges) /\ header = Header[src]

Load ==
  /\ serving = None /\ Acceptable
  /\ serving' = src
  /\ UNCHANGED <<mode, src, local, proc>>

StopServer ==
  /\ serving # None
  /\ serving' = None
  /\ UNCHANGED <<mode, src, local, proc>>

\* A new checkpoint is put in place with no server and no stager running.
UpdateCheckpoint(v) ==
  /\ serving = None /\ \A p \in Stagers : pc[p] = "idle"
  /\ v # src /\ (v > src \/ Rollback)
  /\ src' = v
  /\ exit' = [p \in Stagers |-> "none"]
  /\ UNCHANGED <<mode, local, pc, spec, ver, job, off, fd, serving>>

Step(p) ==
  \/ CopyChunk(p) \/ NextJob(p) \/ OpenRanges(p) \/ WriteRanges(p)
  \/ Verify(p) \/ OpenTmp(p) \/ WriteTmp(p) \/ Replace(p)

Next ==
  \/ \E p \in Stagers : Step(p) \/ Crash(p) \/ \E s \in mode.specs : Start(p, s)
  \/ Load \/ StopServer
  \/ \E v \in Versions : UpdateCheckpoint(v)

Spec == Init /\ [][Next]_vars

(***************************************************************************)
(* Properties                                                              *)
(***************************************************************************)
Labels == {"idle", "copy", "ranges", "rangesOpen", "verify", "record", "recordOpen", "replace"}
Files(texts) ==
  [text : {None, Partial} \cup texts, size : {0} \cup {TextSize[s] : s \in Specs}]

\* Every variable holds a value of its kind: a shard only holds rows a version has
\* written or holes, and no chunk ends beyond the table (stage_engram_rows.py:45-67).
TypeOK ==
  /\ mode \in Modes
  /\ src \in Versions /\ serving \in {None} \cup Versions /\ header \in {None} \cup Versions
  /\ data \in [Tensors -> [RowId -> {Hole} \cup Versions]]
  /\ ranges \in Files(Specs) /\ verified \in Files(Records) /\ tmp \in Files(Records)
  /\ pc \in [Stagers -> Labels] /\ ver \in [Stagers -> Versions]
  /\ job \in [Stagers -> Tensors]
  /\ spec \in [Stagers -> {<<First, End>>} \cup Specs] /\ off \in [Stagers -> 0 .. NumRows]
  /\ fd \in [Stagers -> {"none", "tmp", "verified", "gone"}]
  /\ exit \in [Stagers -> {"none", "ok", "failed"}]

\* A running server finds every row it owns in the local shard, from the version
\* of the checkpoint it loaded, although stagers crashed half-way, ran twice at
\* once or rewrite the shard under it, and although verified.json outlives the
\* copy it was written for, as long as the disk takes what it is given
\* (row_store.cpp:35, engram_backend.py:59-75).
ServedRowsExact ==
  serving # None /\ ~mode.short =>
    \A x \in Tensors : \A r \in First .. End - 1 : data[x][r] = serving

\* The first and the last row of a range are always compared, so a copy cut off
\* at its end, as a full disk does it, is never accepted
\* (stage_engram_rows.py:63, 92).
EndsChecked ==
  serving # None => \A x \in Tensors : \A r \in {First, End - 1} : data[x][r] = serving

\* A stager that reported success leaves a copy the loader accepts, even when two
\* of them finish at once over one engram-local.json and one verified.json.tmp, as
\* long as their texts have one length (a shorter one leaves the end of a longer);
\* a run that died later may have cut engram-local.json off
\* (stage_engram_rows.py:82-104).
SuccessLoads ==
  ~mode.crashes /\ (\E p \in Stagers : exit[p] = "ok") /\ (\A p \in Stagers : pc[p] = "idle")
  => Acceptable
=============================================================================
