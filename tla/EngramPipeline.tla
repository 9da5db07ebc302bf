----------------------------- MODULE EngramPipeline -----------------------------
(***************************************************************************)
(* patch/engram_backend.py, owned(): how the rows a layer asks for get     *)
(* from the row store to the GPU.  The host only enqueues: copy the ids to *)
(* pinned memory, call row_store_lookup on them, copy the rows to the GPU, *)
(* gather them into the output.  The GPU works the queue off later, while  *)
(* the host goes on with the next forward, over staging buffers that all   *)
(* batches of one capacity share and that a captured CUDA graph keeps raw  *)
(* pointers to.                                                            *)
(*                                                                         *)
(* All calls are ordered by one stream, or by streams that wait for each   *)
(* other as in tools/check_engram_graph.py: one queue.  One layer on one   *)
(* device; weights and scales travel together.  A lookup is exact, or ends *)
(* the process (ExactRetrieval).                                           *)
(***************************************************************************)
EXTENDS Integers, Sequences

CONSTANTS
  Lists,        \* the ids forwards may ask for
  NumRows,
  OwnedRows,    \* the rows this rank owns
  MaxForwards   \* bound: forwards

ASSUME PipelineAssumption ==
  /\ NumRows \in Nat /\ OwnedRows \subseteq 0 .. NumRows - 1 /\ MaxForwards \in Nat
  /\ \A x \in Lists : x \in Seq(0 .. NumRows - 1)

VARIABLES
  alive,     \* the process has not aborted
  bufs,      \* every staging buffer ever allocated
  staging,   \* self._staging: capacity -> number of its buffer
  works,     \* self._works: count -> [buf, count], the Work handed to the callback
  queue,     \* what the GPU has still to do
  graph,     \* graph[n]: operations of the graph captured for n ids, <<>> for none
  static,    \* static[n]: that graph's input and output tensors
  asked,     \* asked[f]: the ids of the f-th forward
  answer     \* answer[f]: its state and the rows it returned

vars == <<alive, bufs, staging, works, queue, graph, static, asked, answer>>

Garbage == -1                                   \* torch.empty
Row(id) == IF id \in OwnedRows THEN id + 1 ELSE 0   \* distinct; another rank's is zero
Rows(ids) == [i \in DOMAIN ids |-> Row(ids[i])]
Counts == {Len(x) : x \in Lists} \ {0}

\* Arithmetic the proofs need and the provers do not know: (n - 1).bit_length() exists.
ASSUME PowersAssumption == \A n \in Counts :
  /\ \A b \in 0 .. n - 1 : 2 ^ b \in Nat
  /\ \E b \in 0 .. n - 1 : n - 1 < 2 ^ b /\ (b = 0 \/ 2 ^ (b - 1) <= n - 1)

BitLength(k) == CHOOSE b \in 0 .. k : k < 2 ^ b /\ (b = 0 \/ 2 ^ (b - 1) <= k)
MutCapacity(n) == 2 ^ (BitLength(n) - 1)        \* mutant: rounded down
Capacity(n) == 2 ^ BitLength(n - 1)
MutWorkKey(n) == Capacity(n)                    \* mutant: one Work per buffer
WorkKey(n) == n
MutMayAllocate(capturing) == TRUE               \* mutant: the check for a capture
MayAllocate(capturing) == ~capturing

\* ids and rows in pinned memory, rows on the GPU; arange: is `sequential` filled?
Filled(n, v) == [i \in 1 .. n |-> v]
NewBuffer(n, capturing) ==
  [ids |-> Filled(n, Garbage), host |-> Filled(n, Garbage), dev |-> Filled(n, Garbage),
   arange |-> ~capturing]

\* A kernel or copy that works on the first n entries.
Prefix(old, new, n) == [i \in DOMAIN old |-> IF i <= n /\ i \in DOMAIN new THEN new[i] ELSE old[i]]

Init ==
  /\ alive = TRUE /\ bufs = <<>> /\ staging = [c \in {} |-> 0]
  /\ works = [n \in {} |-> [buf |-> 0, count |-> 0]]
  /\ queue = <<>> /\ asked = <<>> /\ answer = <<>>
  /\ graph = [n \in Counts |-> <<>>]
  /\ static = [n \in Counts |-> [in |-> Filled(n, 0), out |-> Filled(n, Garbage)]]

(***************************************************************************)
(* The host                                                                *)
(***************************************************************************)
Staged(n) == Capacity(n) \in DOMAIN staging

\* The staging buffers of n's capacity and the Work of n, made when missing.
Prepare(n, capturing) ==
  /\ Staged(n) \/ MayAllocate(capturing)
  /\ IF Staged(n) THEN UNCHANGED <<bufs, staging>>
     ELSE /\ bufs' = Append(bufs, NewBuffer(Capacity(n), capturing))
          /\ staging' = [c \in DOMAIN staging \cup {Capacity(n)} |->
                           IF c \in DOMAIN staging THEN staging[c] ELSE Len(bufs')]
  /\ works' = [k \in DOMAIN works \cup {WorkKey(n)} |->
                 IF k \in DOMAIN works THEN works[k]
                 ELSE [buf |-> staging'[Capacity(n)], count |-> n]]

\* f is a forward, or 0 for the static tensors of a graph.
Op(kind, n, f) == [do |-> kind, buf |-> staging'[Capacity(n)], count |-> n, fwd |-> f]
Enqueued(n, f) == <<Op("ids", n, f), Op("lookup", n, f), Op("rows", n, f), Op("gather", n, f)>>

Ask(ids, state, rows) ==
  /\ alive /\ Len(asked) < MaxForwards
  /\ asked' = Append(asked, ids)
  /\ answer' = Append(answer, [state |-> state, rows |-> rows])

\* No ids: an empty tensor, and nothing is enqueued.
ForwardNothing(ids) ==
  /\ ids = <<>>
  /\ Ask(ids, "done", <<>>)
  /\ UNCHANGED <<alive, bufs, staging, works, queue, graph, static>>

Forward(ids) ==
  /\ ids # <<>>
  /\ Ask(ids, "pending", <<>>)
  /\ Prepare(Len(ids), FALSE)
  /\ queue' = queue \o Enqueued(Len(ids), Len(asked'))
  /\ UNCHANGED <<alive, graph, static>>

\* cudaLaunchHostFunc returns an error: the copy of the ids stays in the queue.
ForwardRaises(ids) ==
  /\ ids # <<>>
  /\ Ask(ids, "raised", <<>>)
  /\ Prepare(Len(ids), FALSE)
  /\ queue' = Append(queue, Op("ids", Len(ids), Len(asked')))
  /\ UNCHANGED <<alive, graph, static>>

\* Capturing records the operations and runs none of them; with buffers of n's
\* capacity missing it raises and nothing is changed.  Their Work may be missing.
Capture(n) ==
  /\ alive /\ graph[n] = <<>>
  /\ Prepare(n, TRUE)
  /\ graph' = [graph EXCEPT ![n] = Enqueued(n, 0)]
  /\ UNCHANGED <<alive, queue, static, asked, answer>>

CaptureRaises(n) ==
  /\ alive /\ graph[n] = <<>>
  /\ Prepare(n, TRUE)
  /\ UNCHANGED <<alive, queue, graph, static, asked, answer>>

\* The graph's owner fills its input, launches it and takes its output.
Replay(ids) ==
  /\ Len(ids) \in Counts /\ graph[Len(ids)] # <<>>
  /\ Ask(ids, "pending", <<>>)
  /\ LET g == [do |-> "fill", buf |-> 0, count |-> Len(ids), fwd |-> Len(asked')]
     IN queue' = queue \o <<g>> \o graph[Len(ids)] \o <<[g EXCEPT !.do = "take"]>>
  /\ UNCHANGED <<alive, bufs, staging, works, graph, static>>

(***************************************************************************)
(* The GPU and the callback                                                *)
(***************************************************************************)
Next1 == Head(queue)
Does(kind) == alive /\ queue # <<>> /\ Next1.do = kind /\ queue' = Tail(queue)
Input == IF Next1.fwd = 0 THEN static[Next1.count].in ELSE asked[Next1.fwd]
Answered(rows) == answer' = [answer EXCEPT ![Next1.fwd] = [state |-> "done", rows |-> rows]]

CopyIds ==
  /\ Does("ids")
  /\ bufs' = [bufs EXCEPT ![Next1.buf].ids = Prefix(@, Input, Next1.count)]
  /\ UNCHANGED <<alive, staging, works, graph, static, asked, answer>>

\* row_store_lookup(work), with the pointers and the count in the Work.
Lookup ==
  /\ Does("lookup")
  /\ LET work == works[WorkKey(Next1.count)]
     IN IF \A i \in 1 .. work.count : bufs[work.buf].ids[i] \in 0 .. NumRows - 1
          THEN /\ bufs' = [bufs EXCEPT ![work.buf].host = Prefix(@, Rows(bufs[work.buf].ids), work.count)]
               /\ UNCHANGED alive
          ELSE alive' = FALSE /\ UNCHANGED bufs
  /\ UNCHANGED <<staging, works, graph, static, asked, answer>>

LookupAborts ==
  /\ Does("lookup")
  /\ alive' = FALSE
  /\ UNCHANGED <<bufs, staging, works, graph, static, asked, answer>>

CopyRows ==
  /\ Does("rows")
  /\ bufs' = [bufs EXCEPT ![Next1.buf].dev = Prefix(@, bufs[Next1.buf].host, Next1.count)]
  /\ UNCHANGED <<alive, staging, works, graph, static, asked, answer>>

Gather ==
  /\ Does("gather")
  /\ LET b == bufs[Next1.buf]
         out == Prefix(Filled(Next1.count, Garbage), IF b.arange THEN b.dev ELSE <<>>, Next1.count)
     IN IF Next1.fwd = 0
          THEN static' = [static EXCEPT ![Next1.count].out = out] /\ UNCHANGED answer
          ELSE Answered(out) /\ UNCHANGED static
  /\ UNCHANGED <<alive, bufs, staging, works, graph, asked>>

FillInput ==
  /\ Does("fill")
  /\ static' = [static EXCEPT ![Next1.count].in = asked[Next1.fwd]]
  /\ UNCHANGED <<alive, bufs, staging, works, graph, asked, answer>>

TakeOutput ==
  /\ Does("take")
  /\ Answered(static[Next1.count].out)
  /\ UNCHANGED <<alive, bufs, staging, works, graph, static, asked>>

Next ==
  \/ \E x \in Lists : ForwardNothing(x) \/ Forward(x) \/ ForwardRaises(x) \/ Replay(x)
  \/ \E n \in Counts : Capture(n) \/ CaptureRaises(n)
  \/ CopyIds \/ Lookup \/ LookupAborts \/ CopyRows \/ Gather \/ FillInput \/ TakeOutput

Spec == Init /\ [][Next]_vars

(***************************************************************************)
(* Properties                                                              *)
(***************************************************************************)
Ops(s) == {s[i] : i \in DOMAIN s}
Planned == Ops(queue) \cup UNION {Ops(graph[n]) : n \in Counts}

\* Every table entry is what its key says: a capacity's buffer has that capacity, and
\* the Work kept for a count works on that count's buffer (engram_backend.py:101-116).
TypeOK ==
  /\ alive \in BOOLEAN /\ Len(asked) = Len(answer)
  /\ \A f \in DOMAIN answer : answer[f].state \in {"pending", "done", "raised"}
  /\ \A c \in DOMAIN staging : DOMAIN bufs[staging[c]].ids = 1 .. c
  /\ \A n \in DOMAIN works : works[n] = [buf |-> staging[Capacity(n)], count |-> n]
  /\ \A o \in Planned : o.count \in Counts /\ o.fwd \in 0 .. Len(asked)

\* Every forward returns the rows of its own ids, in their order, although batches of
\* other sizes went through the same buffers, a failed launch left its ids behind,
\* and graphs were captured before or after the buffers' last use; nothing comes out
\* of memory that was never written (engram_backend.py:101-126).
OutputsExact ==
  \A f \in DOMAIN answer : answer[f].state = "done" => answer[f].rows = Rows(asked[f])

\* No copy and no lookup, enqueued or captured, runs over the end of the buffers it
\* has pointers to (engram_backend.py:101, 115-125).
NoOverrun ==
  \A o \in Planned : o.do \notin {"fill", "take"} =>
    /\ o.count <= Len(bufs[o.buf].ids)
    /\ o.do = "lookup" =>
         works[WorkKey(o.count)].count <= Len(bufs[works[WorkKey(o.count)].buf].ids)
=============================================================================
