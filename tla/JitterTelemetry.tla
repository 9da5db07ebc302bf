---------------------------- MODULE JitterTelemetry ----------------------------
(***************************************************************************)
(* tools/measure_c1_jitter.py: one reader thread per host follows          *)
(* nvidia-smi over ssh into shared dictionaries, while the main thread     *)
(* waits for a valid sample of every host, runs the benchmark, terminates  *)
(* the readers' processes and joins the threads.                           *)
(*                                                                         *)
(* The threads are daemons: they end with the tool, their ssh processes    *)
(* need not.  The two time limits of the main thread (12 s for the         *)
(* samples, 180 s for the benchmark) and the readers' own 90 s may pass at *)
(* any time.                                                               *)
(***************************************************************************)
EXTENDS HybridDispatch

CONSTANTS
  Counting,  \* the prompt of the benchmark (ceiling_count)
  Repeats    \* times it is sent (6)

ASSUME JitterAssumption == Counting \in Prompts /\ Repeats \in Nat

VARIABLES
  jpc,     \* what the main thread does next
  asked,   \* repeats answered
  ok,      \* nothing has been raised
  reader,  \* reader[n]: state of the thread of host n
  procs,   \* the dictionary of processes: the hosts in it
  ready,   \* the hosts whose event is set
  loop,    \* procs as the loop of the finally clause found it
  killed   \* hosts whose process has been terminated

jitterVars == <<jpc, asked, ok, reader, procs, ready, loop, killed>>

JitterEnded == {"idle", "done", "failed"}

JitterInit ==
  /\ jpc = "idle" /\ asked = 0 /\ ok = TRUE
  /\ reader = [n \in Ranks |-> "none"]
  /\ procs = {} /\ ready = {} /\ loop = {} /\ killed = {}

BeginJitter ==
  /\ jpc \in JitterEnded
  /\ jpc' = "spawn" /\ asked' = 0 /\ ok' = TRUE
  /\ reader' = [n \in Ranks |-> "none"]
  /\ procs' = {} /\ ready' = {} /\ loop' = {} /\ killed' = {}
  /\ UNCHANGED service

Spawn(n) ==
  /\ jpc = "spawn" /\ reader[n] = "none" /\ \A m \in Ranks : m < n => reader[m] # "none"
  /\ reader' = [reader EXCEPT ![n] = "started"]
  /\ jpc' = IF \A m \in Ranks : reader'[m] # "none" THEN "wait" ELSE jpc
  /\ UNCHANGED <<service, asked, ok, procs, ready, loop, killed>>

(***************************************************************************)
(* A reader                                                                *)
(***************************************************************************)
\* ready[n] and samples[n] are there, then its process is in procs.
Enter(n) ==
  /\ reader[n] = "started" /\ jpc \notin JitterEnded
  /\ reader' = [reader EXCEPT ![n] = "entered"]
  /\ UNCHANGED <<service, jpc, asked, ok, procs, ready, loop, killed>>

Connect(n) ==
  /\ reader[n] = "entered" /\ jpc \notin JitterEnded
  /\ reader' = [reader EXCEPT ![n] = "reading"]
  /\ procs' = procs \cup {n}
  /\ UNCHANGED <<service, jpc, asked, ok, ready, loop, killed>>

Sample(n) ==
  /\ reader[n] = "reading" /\ n \notin ready /\ jpc \notin JitterEnded
  /\ ready' = ready \cup {n}
  /\ UNCHANGED <<service, jpc, asked, ok, reader, procs, loop, killed>>

\* Its process ends: terminated, ssh lost, or the 90 s are over.
HangUp(n) ==
  /\ reader[n] = "reading" /\ jpc \notin JitterEnded
  /\ reader' = [reader EXCEPT ![n] = "ended"]
  /\ UNCHANGED <<service, jpc, asked, ok, procs, ready, loop, killed>>

(***************************************************************************)
(* The main thread                                                         *)
(***************************************************************************)
Entered == {n \in Ranks : reader[n] \notin {"none", "started"}}

MutAllReady == Entered \subseteq ready         \* mutant: len(ready) is not looked at
AllReady == Entered = Ranks /\ Entered \subseteq ready

Leave(good) == jpc' = "finally" /\ ok' = good /\ loop' = procs

\* Every host has delivered a sample, or the deadline has passed.
Decide ==
  /\ jpc = "wait"
  /\ IF AllReady THEN jpc' = "bench" /\ UNCHANGED <<ok, loop>> ELSE Leave(FALSE)
  /\ UNCHANGED <<service, asked, reader, procs, ready, killed>>

Measure ==
  /\ jpc = "bench" /\ asked < Repeats
  /\ Answers(Counting, 0) /\ asked' = asked + 1
  /\ UNCHANGED <<jpc, ok, reader, procs, ready, loop, killed>>

\* The benchmark has ended well; or a request failed, or 180 s were not enough.
EndBench ==
  /\ jpc = "bench"
  /\ \/ asked = Repeats /\ Leave(TRUE)
     \/ Leave(FALSE)
  /\ UNCHANGED <<service, asked, reader, procs, ready, killed>>

\* The loop over procs.values() raises when a reader has added to it meanwhile.
Terminate(n) ==
  /\ jpc = "finally" /\ procs = loop /\ n \in loop \ killed
  /\ killed' = killed \cup {n}
  /\ UNCHANGED <<service, jpc, asked, ok, reader, procs, ready, loop>>

Resized ==
  /\ jpc = "finally" /\ procs # loop
  /\ jpc' = "failed"
  /\ UNCHANGED <<service, asked, ok, reader, procs, ready, loop, killed>>

\* mutant: the threads are waited for without a limit
MutJoin ==
  /\ jpc = "finally" /\ procs = loop /\ loop \subseteq killed
  /\ \A n \in Ranks : reader[n] \in {"none", "ended"}
  /\ jpc' = IF ok THEN "done" ELSE "failed"
  /\ UNCHANGED <<service, asked, ok, reader, procs, ready, loop, killed>>
\* Every thread is waited for, 3 s at most.
Join ==
  /\ jpc = "finally" /\ procs = loop /\ loop \subseteq killed
  /\ jpc' = IF ok THEN "done" ELSE "failed"
  /\ UNCHANGED <<service, asked, ok, reader, procs, ready, loop, killed>>

JitterStep ==
  \/ Decide \/ Measure \/ EndBench \/ Resized \/ Join
  \/ \E n \in Ranks : Spawn(n) \/ Terminate(n)

Reader(n) == Enter(n) \/ Connect(n) \/ Sample(n) \/ HangUp(n)

(***************************************************************************)
(* Properties                                                              *)
(***************************************************************************)
\* No repeat of the benchmark has been answered before every host has delivered a
\* sample; and a jitter run that ends well has had all its repeats and has terminated
\* the ssh of every host, whichever reader was late or broke off
\* (measure_c1_jitter.py:22-33).  Of the ssh that a failed run leaves behind it says
\* nothing.
JitterWhole ==
  /\ asked > 0 => ready = Ranks
  /\ jpc = "done" => asked = Repeats /\ killed = Ranks
=============================================================================
