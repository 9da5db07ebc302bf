------------------------------- MODULE BenchSuite -------------------------------
(***************************************************************************)
(* bench/finish_spark_bench.py and the scripts it runs one after the       *)
(* other: wait for the service, check its answers, compare the two prefill *)
(* kernels on one rank, check retrieval, take the timings; stop at the     *)
(* first step that fails.  The comparison is armed by a file that ssh puts *)
(* into the container of a rank and ssh removes again.                     *)
(*                                                                         *)
(* A script is the prompts it sends; a request may fail at any time and    *)
(* ends its script.  An ssh that fails may have had its effect, or have it *)
(* later: giving up kills the local client only.                           *)
(***************************************************************************)
EXTENDS HybridDispatch

CONSTANTS
  NoRank,       \* no --parity-host
  Script,       \* Script[step]: the prompts a step's script sends, in order
  FlushTries,   \* attempts at /flush_cache (10)
  MaxSuites,    \* bound: suites started
  MaxFaults     \* bound: ssh calls that fail

Scripts == {"correctness", "parity", "retrieval", "c1-repeat", "matrix"}

ASSUME SuiteAssumption ==
  /\ NoRank \notin Ranks /\ {FlushTries, MaxSuites, MaxFaults} \subseteq Nat
  /\ Script \in [Scripts -> Seq(Prompts)] /\ FlushTries > 0

VARIABLES
  suite,     \* the number of the suite and its options
  spc,       \* what it does next
  at,        \* prompts its running script has sent, or attempts to flush
  verdicts,  \* verdicts[i]: results.json of suite i's correctness script, so far
  retrieved, \* results of the retrieval script: all passed?
  steps,     \* the manifest's steps, with their exit codes
  evidence,  \* the suites whose lines are in the parity log that was saved
  ssh        \* [faults, late: effects still to come, hosts: where an ssh failed]

suiteVars == <<suite, spc, at, verdicts, retrieved, steps, evidence, ssh>>

SuiteEnded == {"idle", "completed", "failed"}

SuiteInit ==
  /\ suite = [n |-> 0, parity |-> NoRank, container |-> FALSE, reuse |-> 0]
  /\ spc = "idle" /\ at = 0 /\ retrieved = TRUE /\ steps = {} /\ evidence = {}
  /\ verdicts = [i \in 1 .. MaxSuites |-> <<>>]
  /\ ssh = [faults |-> 0, late |-> {}, hosts |-> {}]

BeginSuite(h, c, d) ==
  /\ spc \in SuiteEnded /\ suite.n < MaxSuites
  /\ suite' = [n |-> suite.n + 1, parity |-> h, container |-> c, reuse |-> d]
  /\ spc' = "waiting" /\ at' = 0 /\ retrieved' = TRUE /\ steps' = {} /\ evidence' = {}
  /\ UNCHANGED <<service, verdicts, ssh>>

Then(label) == spc' = label /\ at' = 0
Fail == Then("failed")

AfterCorrectness == IF suite.parity = NoRank THEN "retrieval" ELSE "flush"

\* mutant: what the functional checks found is not looked at
MutGate(rows) == Then(AfterCorrectness)
\* results.json is read, from this suite's run or from the one to be reused: a
\* script that broke off has left the rows it had.
Gate(rows) ==
  IF rows # <<>> /\ \A i \in DOMAIN rows : rows[i] THEN Then(AfterCorrectness) ELSE Fail

\* /health is polled for 30 minutes.
Wait ==
  /\ spc = "waiting"
  /\ \/ up /\ IF suite.reuse > 0 THEN Gate(verdicts[suite.reuse]) ELSE Then("correctness")
     \/ ~up /\ Fail
  /\ UNCHANGED <<service, suite, verdicts, retrieved, steps, evidence, ssh>>

(***************************************************************************)
(* command(): a script and what follows its exit                           *)
(***************************************************************************)
Running(s) == spc = s /\ at < Len(Script[s])

\* The two checks note whether the answer is right and go on.
Checks(s, right) ==
  verdicts' = IF s = "correctness" THEN [verdicts EXCEPT ![suite.n] = Append(@, right)]
              ELSE verdicts
Retrieves(s, right) == retrieved' = (retrieved /\ (s = "retrieval" => right))

\* A prompt is answered.  The matrix stops at a wrong answer; bench_c1_reference
\* notes it and goes on.
Request(s) ==
  LET p == Script[s][at + 1]  right == p \notin wrong
  IN /\ Running(s) /\ Answers(p, suite.n)
     /\ Checks(s, right) /\ Retrieves(s, right)
     /\ IF s = "matrix" /\ ~right
          THEN Fail /\ steps' = steps \cup {<<s, 1>>}
          ELSE at' = at + 1 /\ UNCHANGED <<spc, steps>>
     /\ UNCHANGED <<suite, evidence, ssh>>

\* mutant: the file is only removed when the comparison ended well
MutAfterFailure(s) == Fail
AfterFailure(s) == IF s = "parity" THEN Then("remove") ELSE Fail

RequestFails(s) ==
  /\ Running(s)
  /\ steps' = steps \cup {<<s, 1>>}
  /\ AfterFailure(s)
  /\ UNCHANGED <<service, suite, verdicts, retrieved, evidence, ssh>>

\* The script has sent its prompts and exits with 0.
Exit(s) ==
  /\ spc = s /\ at = Len(Script[s])
  /\ steps' = steps \cup {<<s, 0>>}
  /\ CASE s = "correctness" -> Gate(verdicts[suite.n])
       [] s = "parity" -> Then("remove")
       [] s = "retrieval" -> IF retrieved THEN Then("c1-repeat") ELSE Fail
       [] s = "c1-repeat" -> Then("matrix")
       [] s = "matrix" -> Then("completed")
  /\ UNCHANGED <<service, suite, verdicts, retrieved, evidence, ssh>>

(***************************************************************************)
(* The comparison of the prefill kernels                                   *)
(***************************************************************************)
\* mutant: one attempt too many
MutRetry == IF at < FlushTries THEN at' = at + 1 /\ UNCHANGED spc ELSE Fail
Retry == IF at + 1 < FlushTries THEN at' = at + 1 /\ UNCHANGED spc ELSE Fail

\* mutant: the cache is left as it is
MutFlush ==
  /\ spc = "flush" /\ Then("arm")
  /\ UNCHANGED <<service, suite, verdicts, retrieved, steps, evidence, ssh>>
\* /flush_cache is refused while the service is busy, and tried again.
Flush ==
  /\ spc = "flush"
  /\ \/ up /\ suite.container /\ cached' = {} /\ Then("arm")
     \/ up /\ suite.container /\ Retry /\ UNCHANGED cached
     \/ (~up \/ ~suite.container) /\ Fail /\ UNCHANGED cached
  /\ UNCHANGED <<opts, cmd, overlay, up, wrong, flag, lines>>
  /\ UNCHANGED <<suite, verdicts, retrieved, steps, evidence, ssh>>

Effect(op, h) == flag' = IF op = "touch" THEN flag \cup {h} ELSE flag \ {h}

Ssh(op, Done) ==
  /\ \/ Effect(op, suite.parity) /\ Done /\ UNCHANGED ssh
     \/ /\ ssh.faults < MaxFaults /\ Fail
        /\ \E now \in BOOLEAN, later \in BOOLEAN :
             /\ ~(now /\ later)
             /\ IF now THEN Effect(op, suite.parity) ELSE UNCHANGED flag
             /\ ssh' = [faults |-> ssh.faults + 1, hosts |-> ssh.hosts \cup {suite.parity},
                        late |-> IF later THEN ssh.late \cup {<<op, suite.parity>>} ELSE ssh.late]
  /\ UNCHANGED <<opts, cmd, overlay, up, wrong, cached, lines>>
  /\ UNCHANGED <<suite, verdicts, retrieved, steps, evidence>>

Arm == spc = "arm" /\ Ssh("touch", Then("parity"))

\* finally: and only then is a failure of the script raised.
Disarm ==
  /\ spc = "remove"
  /\ Ssh("rm", IF <<"parity", 0>> \in steps THEN Then("logs") ELSE Fail)

\* docker logs returns all the container ever wrote.
SaveParity ==
  /\ spc = "logs"
  /\ \/ evidence' = lines[suite.parity] /\ Then("retrieval") /\ UNCHANGED ssh
     \/ /\ ssh.faults < MaxFaults /\ Fail /\ UNCHANGED evidence
        /\ ssh' = [ssh EXCEPT !.faults = @ + 1]
  /\ UNCHANGED <<service, suite, verdicts, retrieved, steps>>

LateSsh ==
  /\ \E e \in ssh.late : Effect(e[1], e[2]) /\ ssh' = [ssh EXCEPT !.late = @ \ {e}]
  /\ UNCHANGED <<opts, cmd, overlay, up, wrong, cached, lines>>
  /\ UNCHANGED <<suite, spc, at, verdicts, retrieved, steps, evidence>>

SuiteStep ==
  \/ Wait \/ Flush \/ Arm \/ Disarm \/ SaveParity
  \/ \E s \in Scripts : Request(s) \/ RequestFails(s) \/ Exit(s)

(***************************************************************************)
(* Properties                                                              *)
(***************************************************************************)
\* A suite that calls itself completed has timed a model that answers the functional
\* checks, unless it took their verdict from an earlier suite, and the retrieval
\* check; every one of its scripts has ended well (finish_spark_bench.py:40-64).  With
\* --reuse-correctness it says nothing of the functional checks: the code only reads
\* what the earlier suite wrote, and takes it for the service that runs now.
GatesHeld ==
  spc = "completed" =>
    /\ \A s \in {"correctness", "retrieval"} :
         s = "retrieval" \/ suite.reuse = 0
           => \A i \in DOMAIN Script[s] : Script[s][i] \notin wrong
    /\ \A s \in Scripts : <<s, 1>> \notin steps
    /\ {"retrieval", "c1-repeat", "matrix"} \subseteq {e[1] : e \in steps}

\* What was saved as evidence of the comparison is there, and of this very suite and
\* not of an earlier one whose lines are still in the container's log, when the
\* image's own module serves a hybrid launch and no ssh to that host was lost
\* (finish_spark_bench.py:46-58).
HookCompares ==
  spc = "completed" /\ suite.parity # NoRank /\ suite.parity \notin ssh.hosts
    /\ opts.mla = "hybrid" /\ ~overlay
  => suite.n \in evidence

\* A suite with --parity-host that completes has compared the two kernels on that
\* host (docs/RUNBOOK-SGLANG-SPARK.md:48).
ParityCompares ==
  spc = "completed" /\ suite.parity # NoRank /\ opts.mla = "hybrid" => suite.n \in evidence
=============================================================================
