------------------------------- MODULE PageSplit -------------------------------
(***************************************************************************)
(* patches/flash_mla_sm120.py: the attention kernels want pages of 64      *)
(* tokens, the key/value pools have pages of 128 or 256.  Each call copies *)
(* the pages its indices refer to into a scratch buffer that all layers    *)
(* share, and leaves the rest of the buffer as it was.  A prefill call may *)
(* have a second source of keys and values, with a pool, indices and a     *)
(* buffer of its own.  Buffers and masks only grow; a CUDA graph keeps the *)
(* ones it was captured with.                                              *)
(*                                                                         *)
(* A page is a row of lanes (u64 in the code): the data of its tokens,     *)
(* then their scales, then padding.  The kernels of a call run in order on *)
(* one stream, the programs of a kernel in any order.  Pools whose pages   *)
(* have 64 tokens already are used as they are and are not modelled.       *)
(***************************************************************************)
EXTENDS Integers, Sequences, FiniteSetsExt

CONSTANTS
  Layers,       \* the model's attention layers
  Pages,        \* Pages[l][s]: pages of l's pool of source s
  SrcPbs,       \* SrcPbs[l][s]: tokens of a page of it
  DstPbs,       \* tokens of a page the kernel reads (64)
  Stride,       \* lanes of a token's data (576 bytes)
  ScaleStride,  \* lanes of a token's scales (8 bytes)
  Lists,        \* Lists[l]: the indices l's calls may be given for each source they
                \* have, -1 for no token
  MarkBlock,    \* indices a program of the mark kernel looks at (1024)
  MaxWrites,    \* bound: writes to the pools
  MaxCalls      \* bound: calls and replays

Sources == {"primary", "extra"}

ASSUME SplitAssumption ==
  /\ {DstPbs, Stride, ScaleStride, MarkBlock} \subseteq Nat \ {0}
  /\ {MaxWrites, MaxCalls} \subseteq Nat
  /\ Pages \in [Layers -> [Sources -> Nat \ {0}]] /\ SrcPbs \in [Layers -> [Sources -> Nat]]
  /\ \A l \in Layers, s \in Sources : SrcPbs[l][s] > DstPbs /\ SrcPbs[l][s] % DstPbs = 0
  /\ \A l \in Layers : \A x \in Lists[l] :
       /\ DOMAIN x \in {{"primary"}, Sources}
       /\ \A s \in DOMAIN x : x[s] \in Seq(-1 .. Pages[l][s] * SrcPbs[l][s] - 1)

VARIABLES
  ver,      \* ver[l][s][p]: which write page p of l's pool of source s holds
  mem,      \* mem[t][g]: the g-th scratch buffer ever allocated for tag t, page by page
  masks,    \* masks[t][g]: the g-th mask ever allocated for it
  called,   \* layers that have been called with indices
  graph,    \* graph[l]: the buffer and mask a captured decode step uses for l
  pc,       \* "idle", then the kernels "zero", "mark", "split" per source, "attend"
  cur,      \* the call under way: layer, indices, buffers and masks
  src,      \* the source whose pages are being copied
  todo,     \* programs of the running kernel that have not run
  calls

vars == <<ver, mem, masks, called, graph, pc, cur, src, todo, calls>>

Ratio(l, s) == SrcPbs[l][s] \div DstPbs
DstPages(l, s) == Pages[l][s] * Ratio(l, s)
Lanes == (((DstPbs * (Stride + ScaleStride)) + Stride - 1) \div Stride) * Stride

\* mutant: both sources are copied to one buffer
MutTag(s) == "primary"
\* Each source has a scratch buffer and a mask of its own.
Tag(s) == s

\* What lane o of page p holds, as of the last write to the page.
Lane(l, s, p, o) ==
  [layer |-> l, source |-> s, page |-> p, lane |-> o, write |-> ver[l][s][p]]
Garbage == [layer |-> "none", source |-> "none", page |-> -1, lane |-> -1, write |-> -1]
Fresh(n) == [d \in 0 .. n - 1 |-> [o \in 0 .. Lanes - 1 |-> Garbage]]

NoGraph == [buf |-> 0, mask |-> 0, count |-> 0]

Init ==
  /\ ver = [l \in Layers |-> [s \in Sources |-> [p \in 0 .. Pages[l][s] - 1 |-> 0]]]
  /\ mem = [t \in Sources |-> <<>>] /\ masks = [t \in Sources |-> <<>>] /\ called = {}
  /\ graph = [l \in Layers |-> NoGraph]
  /\ pc = "idle" /\ todo = {} /\ calls = 0 /\ src = "primary"
  /\ \E l \in Layers : cur = [layer |-> l, lists |-> <<>>, bufs |-> <<>>, masks |-> <<>>]

\* Is the buffer (or mask) there and long enough?  The newest is the one kept.
MutHolds(bufs, need) == bufs # <<>>          \* mutant: never grows
MutHoldsExactly(bufs, need) ==               \* mutant: replaced when too long, too
  bufs # <<>> /\ DOMAIN bufs[Len(bufs)] = 0 .. need - 1
Holds(bufs, need) == bufs # <<>> /\ 0 .. need - 1 \subseteq DOMAIN bufs[Len(bufs)]

Blocks(n) == (n + MarkBlock - 1) \div MarkBlock

Programs(l, s) == (0 .. Pages[l][s] - 1) \X (0 .. Ratio(l, s) - 1)
Kernel(name, programs) == pc' = name /\ todo' = programs

(***************************************************************************)
(* The host's part of a call                                               *)
(***************************************************************************)
\* With no indices there is no mask and every page is copied.
Source(l, x, s) ==
  /\ src' = s
  /\ IF x[s] = <<>> THEN Kernel("split", Programs(l, s)) ELSE Kernel("zero", {})

Start(l, x, bufs, ms) ==
  /\ pc = "idle" /\ calls < MaxCalls
  /\ calls' = calls + 1
  /\ cur' = [layer |-> l, lists |-> x, bufs |-> bufs, masks |-> ms]
  /\ Source(l, x, "primary")

Tagged(x, t) == {s \in DOMAIN x : Tag(s) = t}

Call(l, x) ==
  /\ mem' = [t \in Sources |->
       IF \A s \in Tagged(x, t) : Holds(mem[t], DstPages(l, s)) THEN mem[t]
         ELSE Append(mem[t], Fresh(Max({DstPages(l, s) : s \in Tagged(x, t)})))]
  /\ masks' = [t \in Sources |->
       IF \A s \in Tagged(x, t) : x[s] = <<>> \/ Holds(masks[t], Pages[l][s]) THEN masks[t]
         ELSE Append(masks[t], [p \in 0 .. Max({Pages[l][s] : s \in Tagged(x, t)}) - 1 |-> 0])]
  /\ Start(l, x, [s \in DOMAIN x |-> Len(mem'[Tag(s)])],
           [s \in DOMAIN x |-> Len(masks'[Tag(s)])])
  /\ called' = IF x["primary"] = <<>> THEN called ELSE called \cup {l}
  /\ UNCHANGED <<ver, graph>>

\* A graph of a decode step is captured when the layers have been run once; nothing
\* is executed.
Capture(n) ==
  /\ pc = "idle" /\ called = Layers /\ n > 0
  /\ \A l \in Layers : graph[l] = NoGraph
  /\ graph' = [l \in Layers |-> [buf |-> Len(mem["primary"]), mask |-> Len(masks["primary"]),
                                 count |-> n]]
  /\ UNCHANGED <<ver, mem, masks, called, pc, cur, src, todo, calls>>

\* Replaying runs the kernels with the buffers of capture time on new indices.
Replay(l, x) ==
  /\ graph[l] # NoGraph /\ DOMAIN x = {"primary"} /\ Len(x["primary"]) = graph[l].count
  /\ Start(l, x, [s \in DOMAIN x |-> graph[l].buf], [s \in DOMAIN x |-> graph[l].mask])
  /\ UNCHANGED <<ver, mem, masks, called, graph>>

(***************************************************************************)
(* The kernels                                                             *)
(***************************************************************************)
List == cur.lists[src]
SrcPage == SrcPbs[cur.layer][src]

Zero ==
  /\ pc = "zero"
  /\ masks' = [masks EXCEPT ![Tag(src)][cur.masks[src]] =
                 [p \in DOMAIN @ |-> IF p < Pages[cur.layer][src] THEN 0 ELSE @[p]]]
  /\ Kernel("mark", 0 .. Blocks(Len(List)) - 1)
  /\ UNCHANGED <<ver, mem, called, graph, cur, src, calls>>

\* The pages program b of the mark kernel sees a token of.
MarkedBy(b) ==
  {List[i] \div SrcPage :
     i \in {j \in DOMAIN List : (j - 1) \div MarkBlock = b /\ List[j] >= 0}}

Mark(b) ==
  /\ pc = "mark"
  /\ masks' = [masks EXCEPT ![Tag(src)][cur.masks[src]] =
                 [p \in DOMAIN @ |-> IF p \in MarkedBy(b) THEN 1 ELSE @[p]]]
  /\ todo' = todo \ {b}
  /\ UNCHANGED <<ver, mem, called, graph, pc, cur, src, calls>>

SrcScaleOff == SrcPage * Stride
DstScaleOff == DstPbs * Stride

\* Sub-page j of page p: its tokens' data, then their scales; padding is kept.
SubPage(p, j, old) ==
  [o \in 0 .. Lanes - 1 |->
     IF o < DstScaleOff THEN Lane(cur.layer, src, p, j * DstPbs * Stride + o)
     ELSE IF o < DstScaleOff + DstPbs * ScaleStride
       THEN Lane(cur.layer, src, p, SrcScaleOff + j * DstPbs * ScaleStride + o - DstScaleOff)
     ELSE old[o]]

Split(p, j) ==
  /\ pc = "split"
  /\ mem' = IF List # <<>> /\ masks[Tag(src)][cur.masks[src]][p] = 0 THEN mem
             ELSE [mem EXCEPT ![Tag(src)][cur.bufs[src]][p * Ratio(cur.layer, src) + j] =
                     SubPage(p, j, @)]
  /\ todo' = todo \ {<<p, j>>}
  /\ UNCHANGED <<ver, masks, called, graph, pc, cur, src, calls>>

\* A kernel starts when the one before it has ended; the extra source comes second.
NextKernel ==
  /\ todo = {}
  /\ \/ pc = "mark" /\ Kernel("split", Programs(cur.layer, src)) /\ UNCHANGED src
     \/ pc = "split" /\ src = "primary" /\ "extra" \in DOMAIN cur.lists
          /\ Source(cur.layer, cur.lists, "extra")
     \/ /\ pc = "split" /\ (src = "extra" \/ "extra" \notin DOMAIN cur.lists)
        /\ Kernel("attend", {}) /\ UNCHANGED src
     \/ pc = "attend" /\ Kernel("idle", {}) /\ UNCHANGED src
  /\ UNCHANGED <<ver, mem, masks, called, graph, cur, calls>>

\* The model writes keys and values of new tokens into a pool.
WritePool(l, s, p) ==
  /\ pc = "idle" /\ ver[l][s][p] < MaxWrites
  /\ ver' = [ver EXCEPT ![l][s][p] = @ + 1]
  /\ UNCHANGED <<mem, masks, called, graph, pc, cur, src, todo, calls>>

Next ==
  \/ \E l \in Layers : \/ \E x \in Lists[l] : Call(l, x) \/ Replay(l, x)
                       \/ \E s \in Sources : \E p \in 0 .. Pages[l][s] - 1 : WritePool(l, s, p)
  \/ \E l \in Layers : \E x \in Lists[l] : Capture(Len(x["primary"]))
  \/ Zero \/ NextKernel
  \/ \E b \in todo : Mark(b)
  \/ \E q \in todo : Split(q[1], q[2])

Spec == Init /\ [][Next]_vars

(***************************************************************************)
(* Properties                                                              *)
(***************************************************************************)
\* The kernels of a call stay inside the buffers it was given.
TypeOK ==
  /\ pc \in {"idle", "zero", "mark", "split", "attend"} /\ src \in Sources
  /\ cur.layer \in Layers /\ cur.lists \in Lists[cur.layer] \cup {<<>>}
  /\ called \subseteq Layers /\ calls \in 0 .. MaxCalls
  /\ pc # "idle" =>
       /\ src \in DOMAIN cur.lists
       /\ \A s \in DOMAIN cur.lists :
            /\ 0 .. DstPages(cur.layer, s) - 1 \subseteq DOMAIN mem[Tag(s)][cur.bufs[s]]
            /\ cur.lists[s] # <<>> =>
                 0 .. Pages[cur.layer][s] - 1 \subseteq DOMAIN masks[Tag(s)][cur.masks[s]]

\* How the attention kernel finds token t in 64-token pages ...
Buffer(s) == mem[Tag(s)][cur.bufs[s]]
ReadsData(s, t, x) == Buffer(s)[t \div DstPbs][(t % DstPbs) * Stride + x]
ReadsScale(s, t, y) ==
  Buffer(s)[t \div DstPbs][DstPbs * Stride + (t % DstPbs) * ScaleStride + y]
\* ... and how the torch reference gathers it from its layer's pool.
PoolData(l, s, t, x) ==
  Lane(l, s, t \div SrcPbs[l][s], (t % SrcPbs[l][s]) * Stride + x)
PoolScale(l, s, t, y) ==
  Lane(l, s, t \div SrcPbs[l][s],
       SrcPbs[l][s] * Stride + (t % SrcPbs[l][s]) * ScaleStride + y)

\* The tokens attention does not mask; topk_length can only mask more of them.
Referenced(s) ==
  IF cur.lists[s] = <<>> THEN 0 .. Pages[cur.layer][s] * SrcPbs[cur.layer][s] - 1
  ELSE {cur.lists[s][i] : i \in DOMAIN cur.lists[s]} \ {-1}

\* When attention runs, every token it refers to, of either source, has at its
\* unchanged index the data and scales that the torch reference would take from its
\* own layer's pool now: nothing of another layer, of the other source, of an earlier
\* step or of a page that was not copied (flash_mla_sm120.py:67-114, 250-257, 488-494).
AttentionReadsPool ==
  pc = "attend" =>
    \A s \in DOMAIN cur.lists : \A t \in Referenced(s) :
      /\ \A x \in 0 .. Stride - 1 : ReadsData(s, t, x) = PoolData(cur.layer, s, t, x)
      /\ \A y \in 0 .. ScaleStride - 1 : ReadsScale(s, t, y) = PoolScale(cur.layer, s, t, y)

\* The buffers a graph was captured with are still the ones kept, so a replay
\* never writes to memory that was given back (flash_mla_sm120.py:505-522, 537-546).
GraphBuffersKept ==
  \A l \in Layers : graph[l] # NoGraph =>
    graph[l].buf = Len(mem["primary"]) /\ graph[l].mask = Len(masks["primary"])
=============================================================================
