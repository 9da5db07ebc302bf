----------------------------- MODULE HybridDispatch -----------------------------
(***************************************************************************)
(* The served model as the benchmarks meet it: the command a launch        *)
(* renders (launch/recover_eager.py command() over launch_spark_v41.py     *)
(* command()), the hooks patch/sitecustomize.py puts into every worker,    *)
(* and the kernel that patches/flash_mla_sm120.py picks for a batch.       *)
(*                                                                         *)
(* A batch is its number of query tokens.  Without the overlay the image's *)
(* own flash_mla_sm120.py is in place: external, and modelled from what    *)
(* the hook assumes of it, a prefill function for more than 64 tokens.     *)
(***************************************************************************)
EXTENDS Integers, Sequences, FiniteSets

CONSTANTS
  Ranks,     \* the ranks of the service, from 0
  Options,   \* the options recover may be started with
  Measured,  \* bound: the options of the services that are measured
  Overlays,  \* may /v41 hold patches/flash_mla_sm120.py: a set of BOOLEANs
  Prompts,   \* prompts that are sent to it
  Tokens,    \* Tokens[p]: length of prompt p
  Broken     \* sets of prompts that some model answers wrong

ASSUME DispatchAssumption ==
  /\ Ranks = 0 .. Cardinality(Ranks) - 1 /\ Overlays \subseteq BOOLEAN
  /\ Tokens \in [Prompts -> Nat \ {0}] /\ Broken \subseteq SUBSET Prompts
  /\ Measured \subseteq Options
  /\ \A o \in Options :
       /\ o.mla \in {"none", "flashinfer", "triton", "torch", "hybrid"}
       /\ {o.dspark, o.graphs, o.autotune, o.local} \subseteq BOOLEAN
       /\ o.size \in {4, 8} /\ o.concurrency \in 1 .. 8
       /\ o.chunk \in {1024, 2048, 4096, 8192}

VARIABLES
  opts,     \* the options of the present launch
  cmd,      \* the command rank 0 runs (the others' differ in their engram directory)
  overlay,  \* is the overlay among the files it copies
  up,       \* does /health answer 200
  wrong,    \* prompts this model answers wrong
  cached,   \* prompts above 64 tokens whose prefix the service holds
  flag,     \* ranks with /tmp/dsv41-prefill-compare in their container
  lines     \* lines[r]: who caused PREFILL_PARITY lines in rank r's docker log

service == <<opts, cmd, overlay, up, wrong, cached, flag, lines>>

(***************************************************************************)
(* The command of a rank                                                   *)
(***************************************************************************)
BaseCommand(size) ==
  [memory |-> IF size = 4 THEN 70 ELSE 82, tokens |-> 0, chunk |-> 2048,
   context |-> 409600, running |-> 4, graphs |-> 1 .. 4, prefillGraphs |-> TRUE,
   autotune |-> TRUE, warmup |-> TRUE, draft |-> 5, cacheGiB |-> 32,
   engram |-> <<>>, source |-> TRUE, backend |-> "flashinfer", triton |-> FALSE]

Edit(if, old, new) == [if |-> if, old |-> old, new |-> new]

Relaxed ==
  Edit(TRUE, [running |-> 4, graphs |-> 1 .. 4],
       [running |-> 1, graphs |-> {}, prefillGraphs |-> FALSE, autotune |-> FALSE,
        warmup |-> FALSE])
Concurrency(o) == Edit(TRUE, [running |-> 1], [running |-> o.concurrency])

\* mutant: the concurrency is put in before the text it replaces is there
MutRequests(o) == <<Concurrency(o), Relaxed>>
Requests(o) == <<Relaxed, Concurrency(o)>>

Edits(o, r) ==
  << Edit(TRUE, [memory |-> IF o.size = 4 THEN 70 ELSE 82], [memory |-> 85, tokens |-> 8192]),
     Edit(TRUE, [context |-> 409600], [context |-> 8192]),
     Edit(TRUE, [chunk |-> 2048], [chunk |-> o.chunk]) >>
  \o Requests(o) \o
  << Edit(~o.dspark, [draft |-> 5], [draft |-> 0]),
     Edit(o.graphs, [graphs |-> {}], [graphs |-> 1 .. o.concurrency]),
     Edit(o.autotune, [autotune |-> FALSE], [autotune |-> TRUE]),
     Edit(TRUE, [cacheGiB |-> 32], [cacheGiB |-> 8]),
     Edit(o.local, [engram |-> <<>>], [engram |-> <<o.size, r>>]),
     Edit(o.mla \notin {"none", "hybrid"}, [backend |-> "flashinfer"], [backend |-> o.mla]),
     Edit(o.mla = "hybrid", [triton |-> FALSE], [triton |-> TRUE]) >>

\* str.replace: where the old text is not there, nothing changes and nothing is said.
Apply(c, e) ==
  IF e.if /\ \A f \in DOMAIN e.old : c[f] = e.old[f]
    THEN [f \in DOMAIN c |-> IF f \in DOMAIN e.new THEN e.new[f] ELSE c[f]]
    ELSE c

Command(o, r) ==
  LET es == Edits(o, r)
      after[i \in 0 .. Len(es)] ==
        IF i = 0 THEN BaseCommand(o.size) ELSE Apply(after[i - 1], es[i])
  IN after[Len(es)]

(***************************************************************************)
(* Which kernel serves a batch                                             *)
(***************************************************************************)
MaxDecode == 64

\* sitecustomize installs its finder when DSV41_SOURCE is set, and the prefill
\* hook when the module is imported with DSV41_PREFILL_TRITON=1.
Hooked == cmd.source /\ cmd.triton

Kernel(n) ==
  CASE cmd.backend # "flashinfer" -> cmd.backend
    [] n <= MaxDecode -> "decode"
    [] n > MaxDecode /\ overlay /\ cmd.triton -> "triton"
    [] OTHER -> IF Hooked THEN "hook" ELSE "prefill"

\* The first batch of a prompt: what the prefix cache does not hold, at most a chunk.
Batch(p) ==
  IF p \in cached THEN 1 ELSE IF Tokens[p] < cmd.chunk THEN Tokens[p] ELSE cmd.chunk

\* The ranks that also run FlashInfer on the batch and log the difference.
Comparing(p) == IF Kernel(Batch(p)) = "hook" THEN flag ELSE {}

(***************************************************************************)
(* The service                                                             *)
(***************************************************************************)
Fresh(o, v, w) ==
  /\ opts = o /\ cmd = Command(o, 0) /\ overlay = v /\ up = FALSE /\ wrong = w
  /\ cached = {} /\ flag = {} /\ lines = [r \in Ranks |-> {}]

ServiceInit ==
  \E o \in Options, v \in Overlays, w \in Broken : Fresh(o, v, w)

Relaunch ==
  /\ \E o \in Measured, v \in Overlays, w \in Broken :
       opts' = o /\ cmd' = Command(o, 0) /\ overlay' = v /\ wrong' = w
  /\ up' = FALSE /\ cached' = {} /\ flag' = {} /\ lines' = [r \in Ranks |-> {}]

Ready == ~up /\ up' = TRUE /\ UNCHANGED <<opts, cmd, overlay, wrong, cached, flag, lines>>
Dies == up /\ up' = FALSE /\ UNCHANGED <<opts, cmd, overlay, wrong, cached, flag, lines>>

\* Prompt p is answered, on behalf of the suite numbered "by".
Answers(p, by) ==
  /\ up
  /\ lines' = [r \in Ranks |-> IF r \in Comparing(p) THEN lines[r] \cup {by} ELSE lines[r]]
  /\ cached' = cached \cup {q \in {p} : Tokens[q] > MaxDecode}
  /\ UNCHANGED <<opts, cmd, overlay, up, wrong, flag>>

(***************************************************************************)
(* Properties                                                              *)
(***************************************************************************)
\* The edits, each of which silently does nothing when an earlier one has changed
\* its text, add up to what was asked for, whatever the options: the chunk, the draft
\* and the tuning, as many requests as --concurrency says, a graph for every batch
\* of them, and in the hybrid every decode batch (the drafted tokens and one more
\* per request) below the bound of the fast kernel (recover_eager.py:41-62, 91-96,
\* flash_mla_sm120.py:212, 297).
RecipeServes ==
  /\ cmd.tokens = 8192 /\ cmd.chunk = opts.chunk /\ cmd.running = opts.concurrency
  /\ cmd.draft > 0 <=> opts.dspark
  /\ cmd.autotune <=> opts.autotune
  /\ \A n \in 1 .. cmd.running :
       /\ opts.graphs => n \in cmd.graphs
       /\ opts.mla = "hybrid" => Kernel(n * (cmd.draft + 1)) = "decode"
=============================================================================
