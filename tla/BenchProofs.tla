------------------------------- MODULE BenchProofs -------------------------------
(***************************************************************************)
(* Proofs about the benchmark tools: the suite, the jitter runs and the    *)
(* launches they measure (Campaign), for any number of ranks, suites,      *)
(* prompts and faults; and the matrix (BenchMatrix), for any levels,       *)
(* categories, prefill points and runs.                                    *)
(***************************************************************************)
EXTENDS Campaign, BenchMatrix, TLAPS

(***************************************************************************)
(* A jitter run                                                            *)
(***************************************************************************)
\* What the dictionaries of the jitter tool say of its threads, and what has been
\* established when the main thread is where it is.
JInv ==
  /\ jpc \in JitterEnded \cup {"spawn", "wait", "bench", "finally"}
  /\ reader \in [Ranks -> {"none", "started", "entered", "reading", "ended"}]
  /\ \A n \in Ranks : reader[n] \in {"reading", "ended"} => n \in procs
  /\ ready \subseteq procs /\ procs \subseteq Ranks /\ killed \subseteq loop
  /\ jpc \in {"spawn", "wait", "bench"} => killed = {}
  /\ jpc \in {"spawn", "wait"} => asked = 0
  /\ jpc = "bench" \/ asked # 0 => ready = Ranks
  /\ jpc = "finally" /\ ok => asked = Repeats /\ ready = Ranks
  /\ jpc = "done" => asked = Repeats /\ killed = Ranks

LEMMA JInit == JitterInit => JInv
BY DEF JitterInit, JInv, JitterEnded

LEMMA JBegin == BeginJitter => JInv'
BY DEF BeginJitter, JInv, JitterEnded

LEMMA JGone == JitterGone => JInv'
BY DEF JitterGone, JInv, JitterEnded

\* Readers only add to the dictionaries, and only while the tool runs.
LEMMA JReader ==
  ASSUME JInv, NEW n \in Ranks, Reader(n)
  PROVE  JInv'
<1>1. CASE Enter(n)
  BY <1>1 DEF Enter, JInv, JitterEnded
<1>2. CASE Connect(n)
  BY <1>2 DEF Connect, JInv, JitterEnded
<1>3. CASE Sample(n)
  BY <1>3 DEF Sample, JInv, JitterEnded
<1>4. CASE HangUp(n)
  BY <1>4 DEF HangUp, JInv, JitterEnded
<1>5. QED
  BY <1>1, <1>2, <1>3, <1>4 DEF Reader

LEMMA JStep ==
  ASSUME JInv, JitterStep
  PROVE  JInv'
<1>1. CASE Decide
  <2>1. AllReady => ready = Ranks
    BY DEF AllReady, JInv
  <2>2. CASE AllReady
    BY <1>1, <2>1, <2>2 DEF Decide, JInv, JitterEnded
  <2>3. CASE ~AllReady
    BY <1>1, <2>3 DEF Decide, Leave, JInv, JitterEnded
  <2>4. QED
    BY <2>2, <2>3
<1>2. CASE Measure
  BY <1>2 DEF Measure, JInv, JitterEnded
<1>3. CASE EndBench
  BY <1>3 DEF EndBench, Leave, JInv, JitterEnded
<1>4. CASE Resized
  BY <1>4 DEF Resized, JInv, JitterEnded
<1>5. CASE Join
  BY <1>5 DEF Join, JInv, JitterEnded
<1>6. ASSUME NEW n \in Ranks, Spawn(n)
      PROVE  JInv'
  BY <1>6 DEF Spawn, JInv, JitterEnded
<1>7. ASSUME NEW n \in Ranks, Terminate(n)
      PROVE  JInv'
  BY <1>7 DEF Terminate, JInv, JitterEnded
<1>8. QED
  BY <1>1, <1>2, <1>3, <1>4, <1>5, <1>6, <1>7 DEF JitterStep

LEMMA JUnchanged ==
  ASSUME JInv, UNCHANGED jitterVars
  PROVE  JInv'
BY DEF JInv, jitterVars, JitterEnded

LEMMA JNext == JInv /\ [CampaignNext]_campaign => JInv'
<1> SUFFICES ASSUME JInv, [CampaignNext]_campaign
             PROVE  JInv'
  OBVIOUS
<1>1. CASE Tool
  BY <1>1, JStep, JUnchanged DEF Tool
<1>2. CASE StartSuite
  BY <1>2, JGone DEF StartSuite
<1>3. CASE StartJitter
  BY <1>3, JBegin DEF StartJitter
<1>4. CASE NewService
  BY <1>4, JGone DEF NewService
<1>5. CASE (Ready \/ Dies) /\ UNCHANGED <<suiteVars, jitterVars>>
  BY <1>5, JUnchanged
<1>6. CASE LateSsh /\ UNCHANGED jitterVars
  BY <1>6, JUnchanged
<1>7. CASE (\E n \in Ranks : Reader(n)) /\ UNCHANGED suiteVars
  BY <1>7, JReader
<1>8. CASE UNCHANGED campaign
  BY <1>8, JUnchanged DEF campaign
<1>9. QED
  BY <1>1, <1>2, <1>3, <1>4, <1>5, <1>6, <1>7, <1>8 DEF CampaignNext

\* No repeat is answered before every host has delivered a sample, and a jitter run
\* that ends well had all its repeats and terminated every reader's process: for any
\* number of hosts and however their readers interleave with the main thread
\* (measure_c1_jitter.py:22-33).
THEOREM JitterRunsWhole == CampaignSpec => []JitterWhole
<1>1. CampaignInit => JInv
  BY JInit DEF CampaignInit
<1>2. JInv => JitterWhole
  BY DEF JInv, JitterWhole
<1>3. QED
  BY <1>1, <1>2, JNext, PTL DEF CampaignSpec

(***************************************************************************)
(* The armed comparison                                                    *)
(***************************************************************************)
\* One tool at a time; and a rank has the file only while its suite compares, or when
\* an ssh to it has failed, now or with its effect still to come.
DInv ==
  /\ spc \in SuiteEnded \/ jpc \in JitterEnded
  /\ ssh \in [faults : Nat, late : SUBSET ({"touch", "rm"} \X (Ranks \cup {NoRank})),
             hosts : SUBSET (Ranks \cup {NoRank})]
  /\ suite \in [n : Nat, parity : Ranks \cup {NoRank}, container : BOOLEAN, reuse : Nat]
  /\ \A e \in ssh.late : e[2] \in ssh.hosts
  /\ flag \subseteq ssh.hosts \cup (IF spc \in {"parity", "remove"} THEN {suite.parity} ELSE {})

LEMMA DInit == CampaignInit => DInv
BY SuiteAssumption DEF CampaignInit, ServiceInit, Fresh, SuiteInit, JitterInit, DInv, SuiteEnded,
   JitterEnded

\* A step that leaves the flag and the ssh calls alone and stays on one side of the
\* comparison.
LEMMA DKeeps ==
  ASSUME DInv, UNCHANGED <<flag, ssh, suite, jpc>>, spc \notin SuiteEnded,
         spc \in {"parity", "remove"} => spc' \in {"parity", "remove"}
  PROVE  DInv'
BY DEF DInv, SuiteEnded, JitterEnded

LEMMA DSuite ==
  ASSUME DInv, SuiteStep, UNCHANGED jitterVars
  PROVE  DInv'
<1> USE DEF jitterVars
<1>1. CASE Wait
  <2>1. spc = "waiting" /\ UNCHANGED <<flag, ssh, suite>>
    BY <1>1 DEF Wait, service
  <2>2. QED
    BY <2>1, DKeeps DEF SuiteEnded
<1>2. CASE Flush
  <2>1. spc = "flush" /\ UNCHANGED <<flag, ssh, suite>>
    BY <1>2 DEF Flush
  <2>2. QED
    BY <2>1, DKeeps DEF SuiteEnded
<1>3. CASE Arm
  BY <1>3 DEF Arm, Ssh, Then, Fail, Effect, DInv, SuiteEnded
<1>4. CASE Disarm
  BY <1>4 DEF Disarm, Ssh, Then, Fail, Effect, DInv, SuiteEnded
<1>5. CASE SaveParity
  BY <1>5 DEF SaveParity, Then, Fail, service, DInv, SuiteEnded
<1>6. ASSUME NEW s \in Scripts, Request(s)
      PROVE  DInv'
  <2>1. spc = s /\ UNCHANGED <<flag, ssh, suite>>
    BY <1>6 DEF Request, Running, Answers
  <2>2. s # "matrix" => spc' = spc
    BY <1>6 DEF Request
  <2>3. QED
    BY <2>1, <2>2, DKeeps DEF SuiteEnded, Scripts
<1>7. ASSUME NEW s \in Scripts, RequestFails(s)
      PROVE  DInv'
  <2>1. spc = s /\ UNCHANGED <<flag, ssh, suite>>
    BY <1>7 DEF RequestFails, Running, service
  <2>2. s = "parity" => spc' = "remove"
    BY <1>7 DEF RequestFails, AfterFailure, Then
  <2>3. QED
    BY <2>1, <2>2, DKeeps DEF SuiteEnded, Scripts
<1>8. ASSUME NEW s \in Scripts, Exit(s)
      PROVE  DInv'
  <2>1. spc = s /\ UNCHANGED <<flag, ssh, suite>>
    BY <1>8 DEF Exit, service
  <2>2. s = "parity" => spc' = "remove"
    BY <1>8 DEF Exit, Then
  <2>3. QED
    BY <2>1, <2>2, DKeeps DEF SuiteEnded, Scripts
<1>9. QED
  BY <1>1, <1>2, <1>3, <1>4, <1>5, <1>6, <1>7, <1>8 DEF SuiteStep

LEMMA DNext == DInv /\ [CampaignNext]_campaign => DInv'
<1> SUFFICES ASSUME DInv, [CampaignNext]_campaign
             PROVE  DInv'
  OBVIOUS
<1>1. CASE SuiteStep /\ UNCHANGED jitterVars
  BY <1>1, DSuite
<1>2. CASE JitterStep /\ UNCHANGED suiteVars
  <2>1. jpc \notin JitterEnded
    BY <1>2 DEF JitterStep, Decide, Measure, EndBench, Resized, Join, Spawn, Terminate, JitterEnded
  <2>2. UNCHANGED flag
    BY <1>2 DEF JitterStep, Decide, Measure, EndBench, Resized, Join, Spawn, Terminate, Answers,
       service
  <2>3. QED
    BY <1>2, <2>1, <2>2 DEF suiteVars, DInv
<1>3. CASE StartSuite
  BY <1>3, SuiteAssumption DEF StartSuite, BeginSuite, JitterGone, Idle, service, DInv, SuiteEnded,
     JitterEnded
<1>4. CASE StartJitter
  BY <1>4, SuiteAssumption DEF StartJitter, BeginJitter, SuiteGone, Idle, service, DInv, SuiteEnded
<1>5. CASE NewService
  <2>1. ssh' = [ssh EXCEPT !.hosts = {e[2] : e \in ssh.late}] /\ flag' = {}
    BY <1>5 DEF NewService, Relaunch
  <2>2. {e[2] : e \in ssh.late} \subseteq Ranks \cup {NoRank}
    BY DEF DInv
  <2>3. /\ ssh' \in [faults : Nat, late : SUBSET ({"touch", "rm"} \X (Ranks \cup {NoRank})),
                     hosts : SUBSET (Ranks \cup {NoRank})]
        /\ \A e \in ssh'.late : e[2] \in ssh'.hosts
    BY <2>1, <2>2 DEF DInv
  <2>4. spc' = "idle" /\ suite' = [suite EXCEPT !.parity = NoRank, !.container = FALSE, !.reuse = 0]
    BY <1>5 DEF NewService, SuiteGone
  <2>5. suite' \in [n : Nat, parity : Ranks \cup {NoRank}, container : BOOLEAN, reuse : Nat]
    BY <2>4 DEF DInv
  <2>6. QED
    BY <2>1, <2>3, <2>4, <2>5 DEF DInv, SuiteEnded
<1>6. CASE (Ready \/ Dies) /\ UNCHANGED <<suiteVars, jitterVars>>
  BY <1>6 DEF Ready, Dies, suiteVars, jitterVars, DInv, SuiteEnded, JitterEnded
<1>7. CASE LateSsh /\ UNCHANGED jitterVars
  BY <1>7 DEF LateSsh, Effect, jitterVars, DInv, SuiteEnded, JitterEnded
<1>8. CASE (\E n \in Ranks : Reader(n)) /\ UNCHANGED suiteVars
  BY <1>8 DEF Reader, Enter, Connect, Sample, HangUp, service, suiteVars, DInv, SuiteEnded,
     JitterEnded
<1>9. CASE UNCHANGED campaign
  BY <1>9 DEF campaign, service, suiteVars, jitterVars, DInv, SuiteEnded, JitterEnded
<1>10. QED
  BY <1>1, <1>2, <1>3, <1>4, <1>5, <1>6, <1>7, <1>8, <1>9 DEF CampaignNext, Tool

\* No tool takes timings while the comparison of the prefill kernels is armed, but
\* for hosts on which an ssh has failed: for any number of suites, ranks, failed calls
\* and calls that take effect late.  The suites run to an end of their own: what one
\* that is killed leaves armed is not modelled (finish_spark_bench.py:53-56).
THEOREM TimingsDisarmed == CampaignSpec => []TimedDisarmed
<1>1. DInv => TimedDisarmed
  BY DEF DInv, TimedDisarmed, Timing, SuiteEnded, JitterEnded
<1>2. QED
  BY <1>1, DInit, DNext, PTL DEF CampaignSpec

(***************************************************************************)
(* What a completed suite has checked                                      *)
(***************************************************************************)
Before == {"waiting", "correctness"}
Compared == {"flush", "arm", "parity", "remove", "logs"}
TimedSteps == {"c1-repeat", "matrix", "completed"}

\* The first k answers a script gets are right.
Right(s, k) == \A i \in 1 .. k : Script[s][i] \notin wrong

\* What the correctness script has noted so far is what its prompts deserve; a gate
\* once passed is remembered by where the suite is.
GChecked ==
  /\ verdicts \in [1 .. MaxSuites -> Seq(BOOLEAN)]
  /\ \A i \in 1 .. MaxSuites : i > suite.n => verdicts[i] = <<>>
  /\ spc \in Before => suite.n \in 1 .. MaxSuites
  /\ spc = "waiting" => verdicts[suite.n] = <<>>
  /\ spc = "correctness" =>
       /\ suite.reuse = 0 /\ Len(verdicts[suite.n]) = at
       /\ \A i \in 1 .. at : verdicts[suite.n][i] => Script["correctness"][i] \notin wrong
  /\ spc \in Compared \cup TimedSteps \cup {"retrieval"} /\ suite.reuse = 0
       => Right("correctness", Len(Script["correctness"]))
  /\ spc = "retrieval" /\ retrieved => Right("retrieval", at)
  /\ spc \in TimedSteps => Right("retrieval", Len(Script["retrieval"]))

\* The manifest has a failed step only of the comparison, and only until the file has
\* been removed; and the steps that have been passed are in it.
GSteps ==
  /\ spc \notin {"idle", "failed"} => \A s \in Scripts : <<s, 1>> \in steps => spc = "remove"
  /\ spc = "remove" => ~(<<"parity", 0>> \in steps /\ <<"parity", 1>> \in steps)
  /\ \A s \in Scripts \ {"parity"} : spc = "remove" => <<s, 1>> \notin steps
  /\ spc \in Before \cup {"flush", "arm", "parity"} => <<"parity", 0>> \notin steps
  /\ spc \in TimedSteps => <<"retrieval", 0>> \in steps
  /\ spc \in {"matrix", "completed"} => <<"c1-repeat", 0>> \in steps
  /\ spc = "completed" => <<"matrix", 0>> \in steps

GInv ==
  /\ spc \in SuiteEnded \cup Before \cup Compared \cup TimedSteps \cup {"retrieval"}
  /\ suite \in [n : Nat, parity : Ranks \cup {NoRank}, container : BOOLEAN, reuse : Nat]
  /\ at \in Nat /\ GChecked /\ GSteps

LEMMA ScriptLen ==
  ASSUME NEW s \in Scripts
  PROVE  Script[s] \in Seq(Prompts) /\ Len(Script[s]) \in Nat
BY SuiteAssumption

LEMMA GInit == CampaignInit => GInv
BY SuiteAssumption DEF CampaignInit, SuiteInit, GInv, GChecked, GSteps, SuiteEnded, Before,
   Compared, TimedSteps, Right

\* A suite that has ended keeps nothing but the files of its correctness scripts.
LEMMA GGone ==
  ASSUME GInv, SuiteGone, UNCHANGED verdicts
  PROVE  GInv'
BY DEF SuiteGone, GInv, GChecked, GSteps, SuiteEnded, Before, Compared, TimedSteps, Right

LEMMA GUnchanged ==
  ASSUME GInv, UNCHANGED <<suite, spc, at, verdicts, retrieved, steps, wrong>>
  PROVE  GInv'
BY DEF GInv, GChecked, GSteps, SuiteEnded, Before, Compared, TimedSteps, Right

LEMMA GBegin ==
  ASSUME GInv, StartSuite
  PROVE  GInv'
<1>1. PICK h \in Ranks \cup {NoRank}, c \in BOOLEAN, d \in 0 .. suite.n : BeginSuite(h, c, d)
  BY DEF StartSuite
<1>2. /\ suite' = [n |-> suite.n + 1, parity |-> h, container |-> c, reuse |-> d]
      /\ spc' = "waiting" /\ at' = 0 /\ steps' = {} /\ UNCHANGED <<wrong, verdicts>>
      /\ suite.n < MaxSuites /\ suite.n \in Nat /\ d \in Nat
  BY <1>1 DEF BeginSuite, service, GInv
<1>3. suite' \in [n : Nat, parity : Ranks \cup {NoRank}, container : BOOLEAN, reuse : Nat]
  BY <1>2
<1>4. suite'.n \in 1 .. MaxSuites /\ suite'.n = suite.n + 1
  BY <1>2, SuiteAssumption
<1>5. GChecked'
  BY <1>2, <1>4 DEF GInv, GChecked, Before, Compared, TimedSteps, Right
<1>6. QED
  BY <1>2, <1>3, <1>5 DEF GInv, GSteps, SuiteEnded, Before, Compared, TimedSteps

\* A gate that is passed lets only right answers by, when the verdict is of this suite.
LEMMA GGate ==
  ASSUME GInv, NEW rows, Gate(rows), UNCHANGED <<suite, verdicts, retrieved, wrong>>,
         spc \in Before,
         suite.reuse = 0 /\ (\A i \in DOMAIN rows : rows[i])
           => Right("correctness", Len(Script["correctness"])),
         steps' \in {steps, steps \cup {<<"correctness", 0>>}}
  PROVE  GInv'
<1>1. CASE spc' = "failed" /\ at' = 0
  BY <1>1 DEF GInv, GChecked, GSteps, SuiteEnded, Before, Compared, TimedSteps, Right
<1>2. CASE /\ spc' \in {"retrieval", "flush"} /\ at' = 0
           /\ \A i \in DOMAIN rows : rows[i]
  <2>1. GChecked'
    BY <1>2 DEF GInv, GChecked, Before, Compared, TimedSteps, Right
  <2>2. GSteps'
    BY <1>2 DEF GInv, GSteps, Before, Compared, TimedSteps, Scripts
  <2>3. QED
    BY <1>2, <2>1, <2>2 DEF GInv, Compared
<1>3. QED
  BY <1>1, <1>2 DEF Gate, Then, Fail, AfterCorrectness

LEMMA Appended ==
  ASSUME NEW q \in Seq(BOOLEAN), NEW e \in BOOLEAN
  PROVE  /\ Append(q, e) \in Seq(BOOLEAN) /\ Len(Append(q, e)) = Len(q) + 1
         /\ \A i \in 1 .. Len(q) : Append(q, e)[i] = q[i]
         /\ Append(q, e)[Len(q) + 1] = e
OBVIOUS

LEMMA GRequest ==
  ASSUME GInv, NEW s \in Scripts, Request(s)
  PROVE  GInv'
<1> DEFINE p == Script[s][at + 1]
           right == p \notin wrong
<1>1. /\ spc = s /\ at \in Nat /\ at < Len(Script[s])
      /\ UNCHANGED <<suite, wrong>>
      /\ Checks(s, right) /\ Retrieves(s, right)
      /\ IF s = "matrix" /\ ~right
           THEN spc' = "failed" /\ at' = 0 /\ steps' = steps \cup {<<s, 1>>}
           ELSE at' = at + 1 /\ UNCHANGED <<spc, steps>>
  BY DEF Request, Running, Answers, GInv, Then, Fail
<1>2. right \in BOOLEAN
  OBVIOUS
<1> HIDE DEF right
<1>3. CASE s = "correctness"
  <2>1. /\ verdicts' = [verdicts EXCEPT ![suite.n] = Append(@, right)]
        /\ at' = at + 1 /\ UNCHANGED <<spc, steps>> /\ spc = "correctness"
    BY <1>1, <1>3 DEF Checks
  <2>2. /\ suite.n \in 1 .. MaxSuites /\ verdicts[suite.n] \in Seq(BOOLEAN)
        /\ Len(verdicts[suite.n]) = at /\ suite.reuse = 0
    BY <2>1 DEF GInv, GChecked, Before
  <2>3. verdicts'[suite.n] = Append(verdicts[suite.n], right)
    BY <2>1, <2>2 DEF GInv, GChecked
  <2>4. verdicts'[suite.n] \in Seq(BOOLEAN) /\ Len(verdicts'[suite.n]) = at'
    <3>1. /\ Append(verdicts[suite.n], right) \in Seq(BOOLEAN)
          /\ Len(Append(verdicts[suite.n], right)) = Len(verdicts[suite.n]) + 1
      BY <1>2, <2>2, Appended, Zenon
    <3>2. QED
      BY <2>1, <2>2, <2>3, <3>1
  <2>5. \A i \in 1 .. at' : verdicts'[suite.n][i] => Script["correctness"][i] \notin wrong
    <3>1. \A i \in 1 .. at : verdicts'[suite.n][i] = verdicts[suite.n][i]
      BY <1>2, <2>2, <2>3, Appended
    <3>2. verdicts'[suite.n][at + 1] = right
      BY <1>2, <2>2, <2>3, Appended
    <3>3. \A i \in 1 .. at : verdicts[suite.n][i] => Script["correctness"][i] \notin wrong
      BY <2>1 DEF GInv, GChecked
    <3>4. right => Script["correctness"][at + 1] \notin wrong
      BY <1>3 DEF right
    <3>5. ASSUME NEW i \in 1 .. at', verdicts'[suite.n][i]
          PROVE  Script["correctness"][i] \notin wrong
      <4>1. i \in 1 .. at \/ i = at + 1
        BY <1>1, <2>1
      <4>2. CASE i \in 1 .. at
        BY <3>1, <3>3, <3>5, <4>2
      <4>3. CASE i = at + 1
        BY <3>2, <3>4, <3>5, <4>3
      <4>4. QED
        BY <4>1, <4>2, <4>3
    <3>6. QED
      BY <3>5
  <2>6. /\ verdicts' \in [1 .. MaxSuites -> Seq(BOOLEAN)]
        /\ \A i \in 1 .. MaxSuites : i > suite.n => verdicts'[i] = <<>>
    BY <2>1, <2>2, <2>3, <2>4 DEF GInv, GChecked
  <2>7. GChecked'
    BY <1>1, <2>1, <2>2, <2>4, <2>5, <2>6 DEF GChecked, Before, Compared, TimedSteps
  <2>8. QED
    BY <1>1, <2>1, <2>7 DEF GInv, GSteps, SuiteEnded, Before, Compared, TimedSteps
<1>4. CASE s = "retrieval"
  <2>1. /\ UNCHANGED <<verdicts, spc, steps, suite, wrong>> /\ at' = at + 1
        /\ retrieved' = (retrieved /\ right) /\ spc = "retrieval"
    BY <1>1, <1>4 DEF Checks, Retrieves
  <2>2. retrieved' => \A i \in 1 .. at' : Script["retrieval"][i] \notin wrong
    <3> SUFFICES ASSUME retrieved', NEW i \in 1 .. at'
                 PROVE  Script["retrieval"][i] \notin wrong
      OBVIOUS
    <3>1. retrieved /\ right
      BY <2>1
    <3>2. \A j \in 1 .. at : Script["retrieval"][j] \notin wrong
      BY <2>1, <3>1 DEF GInv, GChecked, Right
    <3>3. Script["retrieval"][at + 1] \notin wrong
      BY <1>4, <3>1 DEF right
    <3>4. i \in 1 .. at \/ i = at + 1
      BY <1>1, <2>1
    <3>5. QED
      BY <3>2, <3>3, <3>4
  <2>3. GChecked'
    BY <2>1, <2>2 DEF GInv, GChecked, Before, Compared, TimedSteps, Right
  <2>4. QED
    BY <1>1, <2>1, <2>3 DEF GInv, GSteps, SuiteEnded, Before, Compared, TimedSteps
<1>5. CASE s \notin {"correctness", "retrieval"}
  <2>1. UNCHANGED <<verdicts, suite, wrong>> /\ spc \notin {"correctness", "retrieval"}
    BY <1>1, <1>5 DEF Checks
  <2>2. CASE spc' = "failed" /\ at' = 0
    BY <2>1, <2>2 DEF GInv, GChecked, GSteps, SuiteEnded, Before, Compared, TimedSteps, Right
  <2>3. CASE at' = at + 1 /\ UNCHANGED <<spc, steps>>
    BY <2>1, <2>3 DEF GInv, GChecked, GSteps, SuiteEnded, Before, Compared, TimedSteps, Right
  <2>4. QED
    BY <1>1, <2>2, <2>3
<1>6. QED
  BY <1>3, <1>4, <1>5

LEMMA GRequestFails ==
  ASSUME GInv, NEW s \in Scripts, RequestFails(s)
  PROVE  GInv'
<1>1. /\ spc = s /\ at' = 0 /\ UNCHANGED <<suite, verdicts, retrieved, wrong>>
      /\ steps' = steps \cup {<<s, 1>>}
      /\ spc' = IF s = "parity" THEN "remove" ELSE "failed"
  BY DEF RequestFails, Running, AfterFailure, Then, Fail, service
<1>2. GChecked'
  BY <1>1 DEF GInv, GChecked, Before, Compared, TimedSteps, Right
<1>3. GSteps'
  BY <1>1 DEF GInv, GSteps, Before, Compared, TimedSteps, Scripts
<1>4. QED
  BY <1>1, <1>2, <1>3 DEF GInv, SuiteEnded, Compared

LEMMA GExit ==
  ASSUME GInv, NEW s \in Scripts, Exit(s)
  PROVE  GInv'
<1>1. /\ spc = s /\ at = Len(Script[s]) /\ UNCHANGED <<suite, verdicts, retrieved, wrong>>
      /\ steps' = steps \cup {<<s, 0>>}
  BY DEF Exit, service
<1>2. CASE s = "correctness"
  <2>1. Gate(verdicts[suite.n])
    BY <1>2 DEF Exit
  <2>2. /\ suite.n \in 1 .. MaxSuites /\ verdicts[suite.n] \in Seq(BOOLEAN)
        /\ Len(verdicts[suite.n]) = at /\ spc \in Before
    BY <1>1, <1>2 DEF GInv, GChecked, Before
  <2>3. (\A i \in DOMAIN verdicts[suite.n] : verdicts[suite.n][i])
          => Right("correctness", Len(Script["correctness"]))
    BY <1>1, <1>2, <2>2 DEF GInv, GChecked, Right
  <2>4. QED
    BY <1>1, <1>2, <2>1, <2>2, <2>3, GGate
<1>3. CASE s = "parity"
  <2>1. spc' = "remove" /\ at' = 0
    BY <1>3 DEF Exit, Then
  <2>2. GChecked'
    BY <1>1, <1>3, <2>1 DEF GInv, GChecked, Before, Compared, TimedSteps, Right
  <2>3. QED
    BY <1>1, <1>3, <2>1, <2>2 DEF GInv, GSteps, SuiteEnded, Before, Compared, TimedSteps, Scripts
<1>4. CASE s = "retrieval"
  <2>1. at' = 0 /\ spc' = IF retrieved THEN "c1-repeat" ELSE "failed"
    BY <1>4 DEF Exit, Then, Fail
  <2>2. GChecked'
    BY <1>1, <1>4, <2>1 DEF GInv, GChecked, Before, Compared, TimedSteps, Right
  <2>3. QED
    BY <1>1, <1>4, <2>1, <2>2 DEF GInv, GSteps, SuiteEnded, Before, Compared, TimedSteps, Scripts
<1>5. CASE s \in {"c1-repeat", "matrix"}
  <2>1. at' = 0 /\ spc' = IF s = "matrix" THEN "completed" ELSE "matrix"
    BY <1>5 DEF Exit, Then
  <2>2. GChecked'
    BY <1>1, <1>5, <2>1 DEF GInv, GChecked, Before, Compared, TimedSteps, Right
  <2>3. QED
    BY <1>1, <1>5, <2>1, <2>2 DEF GInv, GSteps, SuiteEnded, Before, Compared, TimedSteps, Scripts
<1>6. QED
  BY <1>2, <1>3, <1>4, <1>5 DEF Scripts

\* The steps of the comparison touch neither verdicts nor the manifest.
LEMMA GCompares ==
  ASSUME GInv, UNCHANGED <<suite, verdicts, retrieved, steps, wrong>>, at' \in Nat,
         \/ spc' = "failed"
         \/ spc \in {"flush", "arm"} /\ spc' \in {"flush", "arm", "parity"}
         \/ spc = "remove" /\ <<"parity", 0>> \in steps /\ spc' = "logs"
         \/ spc = "logs" /\ spc' = "retrieval" /\ at' = 0
  PROVE  GInv'
<1>1. CASE spc' = "failed"
  BY <1>1 DEF GInv, GChecked, GSteps, SuiteEnded, Before, Compared, TimedSteps, Right
<1>2. CASE spc \in {"flush", "arm"} /\ spc' \in {"flush", "arm", "parity"}
  BY <1>2 DEF GInv, GChecked, GSteps, SuiteEnded, Before, Compared, TimedSteps, Right
<1>3. CASE spc = "remove" /\ <<"parity", 0>> \in steps /\ spc' = "logs"
  <2>1. GSteps'
    BY <1>3 DEF GInv, GSteps, Before, Compared, TimedSteps, Scripts
  <2>2. QED
    BY <1>3, <2>1 DEF GInv, GChecked, SuiteEnded, Before, Compared, TimedSteps, Right
<1>4. CASE spc = "logs" /\ spc' = "retrieval" /\ at' = 0
  BY <1>4 DEF GInv, GChecked, GSteps, SuiteEnded, Before, Compared, TimedSteps, Right
<1>5. QED
  BY <1>1, <1>2, <1>3, <1>4

LEMMA GSuite ==
  ASSUME GInv, SuiteStep
  PROVE  GInv'
<1>1. CASE Wait
  <2>1. spc = "waiting" /\ UNCHANGED <<suite, verdicts, retrieved, steps, wrong>>
    BY <1>1 DEF Wait, service
  <2>2. CASE suite.reuse > 0 /\ Gate(verdicts[suite.reuse])
    BY <2>1, <2>2, GGate DEF Before
  <2>3. CASE suite.reuse = 0 /\ spc' = "correctness" /\ at' = 0
    BY <2>1, <2>3 DEF GInv, GChecked, GSteps, SuiteEnded, Before, Compared, TimedSteps, Right
  <2>4. CASE spc' = "failed" /\ at' = 0
    BY <2>1, <2>4, GCompares
  <2>5. suite.reuse \in Nat
    BY DEF GInv
  <2>6. QED
    BY <1>1, <2>2, <2>3, <2>4, <2>5 DEF Wait, Then, Fail
<1>2. CASE Flush
  BY <1>2, GCompares DEF Flush, Retry, Then, Fail, GInv
<1>3. CASE Arm
  BY <1>3, GCompares DEF Arm, Ssh, Then, Fail
<1>4. CASE Disarm
  BY <1>4, GCompares DEF Disarm, Ssh, Then, Fail
<1>5. CASE SaveParity
  BY <1>5, GCompares DEF SaveParity, Then, Fail, service
<1>6. CASE \E s \in Scripts : Request(s) \/ RequestFails(s) \/ Exit(s)
  BY <1>6, GRequest, GRequestFails, GExit
<1>7. QED
  BY <1>1, <1>2, <1>3, <1>4, <1>5, <1>6 DEF SuiteStep

LEMMA GNext == GInv /\ [CampaignNext]_campaign => GInv'
<1> SUFFICES ASSUME GInv, [CampaignNext]_campaign
             PROVE  GInv'
  OBVIOUS
<1>1. CASE SuiteStep
  BY <1>1, GSuite
<1>2. CASE JitterStep /\ UNCHANGED suiteVars
  <2>1. UNCHANGED wrong
    BY <1>2 DEF JitterStep, Decide, Measure, EndBench, Resized, Join, Spawn, Terminate, Answers,
       service
  <2>2. QED
    BY <1>2, <2>1, GUnchanged DEF suiteVars
<1>3. CASE StartSuite
  BY <1>3, GBegin
<1>4. CASE StartJitter \/ NewService
  BY <1>4, GGone DEF StartJitter, NewService
<1>5. CASE (Ready \/ Dies) /\ UNCHANGED <<suiteVars, jitterVars>>
  BY <1>5, GUnchanged DEF Ready, Dies, suiteVars
<1>6. CASE LateSsh
  BY <1>6, GUnchanged DEF LateSsh
<1>7. CASE (\E n \in Ranks : Reader(n)) /\ UNCHANGED suiteVars
  BY <1>7, GUnchanged DEF Reader, Enter, Connect, Sample, HangUp, service, suiteVars
<1>8. CASE UNCHANGED campaign
  BY <1>8, GUnchanged DEF campaign, service, suiteVars
<1>9. QED
  BY <1>1, <1>2, <1>3, <1>4, <1>5, <1>6, <1>7, <1>8 DEF CampaignNext, Tool

\* A suite that calls itself completed has timed a model that answered the functional
\* checks of this suite (unless it took an earlier verdict) and the retrieval check,
\* and every script of it ended well: whatever the scripts, however many suites came
\* before it and whichever requests and ssh calls failed (finish_spark_bench.py:40-64).
THEOREM CompletedMeansChecked == CampaignSpec => []GatesHeld
<1>1. GInv => GatesHeld
  <2> SUFFICES ASSUME GInv, spc = "completed"
               PROVE  GatesHeld
    BY DEF GatesHeld
  <2>1. /\ suite.reuse = 0 => Right("correctness", Len(Script["correctness"]))
        /\ Right("retrieval", Len(Script["retrieval"]))
    BY DEF GInv, GChecked, TimedSteps
  <2>2. \A s \in Scripts : <<s, 1>> \notin steps
    BY DEF GInv, GSteps
  <2>3. {<<"retrieval", 0>>, <<"c1-repeat", 0>>, <<"matrix", 0>>} \subseteq steps
    BY DEF GInv, GSteps, TimedSteps
  <2>4. {"retrieval", "c1-repeat", "matrix"} \subseteq {e[1] : e \in steps}
    <3>1. \A s : <<s, 0>> \in steps => s \in {e[1] : e \in steps}
      OBVIOUS
    <3>2. QED
      BY <2>3, <3>1
  <2>5. \A s \in Scripts : DOMAIN Script[s] = 1 .. Len(Script[s])
    BY ScriptLen
  <2>6. QED
    BY <2>1, <2>2, <2>4, <2>5 DEF GatesHeld, Right, Scripts
<1>2. QED
  BY <1>1, GInit, GNext, PTL DEF CampaignSpec

(***************************************************************************)
(* The command of a launch                                                 *)
(***************************************************************************)
Fields ==
  {"memory", "tokens", "chunk", "context", "running", "graphs", "prefillGraphs", "autotune",
   "warmup", "draft", "cacheGiB", "engram", "source", "backend", "triton"}

\* An edit whose old text is there puts the new in its place; one whose old text is
\* not there, or that was not asked for, does nothing.
Matches(c, e) == e.if /\ \A f \in DOMAIN e.old : c[f] = e.old[f]

Edited(c, e, d, g) ==
  /\ DOMAIN d = Fields
  /\ \A f \in Fields : f # g => d[f] = c[f]
  /\ e.if /\ c[g] = e.old[g] => d[g] = e.new[g]
  /\ ~e.if \/ c[g] # e.old[g] => d[g] = c[g]

LEMMA EditIs ==
  ASSUME NEW c, DOMAIN c = Fields, NEW e, NEW d, d = Apply(c, e), NEW g \in Fields,
         DOMAIN e.old = {g}, DOMAIN e.new = {g}
  PROVE  Edited(c, e, d, g)
<1> USE DEF Edited
<1>1. Matches(c, e) <=> e.if /\ c[g] = e.old[g]
  BY DEF Matches
<1>2. CASE Matches(c, e)
  <2>1. d = [f \in DOMAIN c |-> IF f \in DOMAIN e.new THEN e.new[f] ELSE c[f]]
    BY <1>2 DEF Apply, Matches
  <2> QED BY <1>1, <1>2, <2>1
<1>3. CASE ~Matches(c, e)
  <2>1. d = c
    BY <1>3 DEF Apply, Matches
  <2> QED BY <1>1, <1>3, <2>1
<1> QED BY <1>2, <1>3

\* What the properties need of the command after the first k edits.
After(c, k, o) ==
  /\ DOMAIN c = Fields /\ c.source = TRUE
  /\ k = 0 => c.memory = IF o.size = 4 THEN 70 ELSE 82
  /\ k >= 1 => c.tokens = 8192
  /\ c.chunk = IF k < 3 THEN 2048 ELSE o.chunk
  /\ c.running = IF k < 4 THEN 4 ELSE IF k < 5 THEN 1 ELSE o.concurrency
  /\ k < 4 => c.graphs = 1 .. 4
  /\ k \in 4 .. 6 => c.graphs = {}
  /\ k >= 7 /\ o.graphs => c.graphs = 1 .. o.concurrency
  /\ k \in 4 .. 7 => c.autotune = FALSE
  /\ k >= 8 => (c.autotune <=> o.autotune)
  /\ c.draft = IF k < 6 \/ o.dspark THEN 5 ELSE 0
  /\ c.backend = IF k < 11 \/ o.mla \in {"none", "hybrid"} THEN "flashinfer" ELSE o.mla
  /\ k < 12 => c.triton = FALSE
  /\ k >= 12 => (c.triton <=> o.mla = "hybrid")

LEMMA Switches ==
  ASSUME NEW c, NEW k, NEW o, After(c, k, o)
  PROVE  /\ k >= 8 => (c.autotune <=> o.autotune)
         /\ k >= 12 => (c.triton <=> o.mla = "hybrid")
BY DEF After

LEMMA Edited1 ==
  ASSUME NEW o \in Options, NEW c, NEW d, NEW e, d = Apply(c, e), After(c, 0, o),
         e.if, e.old = [memory |-> IF o.size = 4 THEN 70 ELSE 82],
         e.new = [memory |-> 85, tokens |-> 8192]
  PROVE  After(d, 1, o)
<1>1. Matches(c, e)
  BY DEF Matches, After
<1>2. d = [f \in DOMAIN c |-> IF f \in DOMAIN e.new THEN e.new[f] ELSE c[f]]
  BY <1>1 DEF Apply, Matches
<1>3. /\ DOMAIN e.new = {"memory", "tokens"} /\ DOMAIN c = Fields
      /\ \A f \in Fields : f \notin DOMAIN e.new => d[f] = c[f]
  BY <1>2 DEF After
<1>4. DOMAIN d = Fields /\ d.tokens = 8192
  BY <1>2, <1>3 DEF After, Fields
<1>5. /\ d.chunk = c.chunk /\ d.running = c.running /\ d.graphs = c.graphs
      /\ d.autotune = c.autotune
      /\ d.draft = c.draft /\ d.backend = c.backend /\ d.triton = c.triton /\ d.source = c.source
  BY <1>3 DEF Fields
<1> QED BY <1>4, <1>5 DEF After

LEMMA Edited2 ==
  ASSUME NEW o \in Options, NEW c, NEW d, NEW e, d = Apply(c, e), After(c, 1, o),
         e.if, e.old = [context |-> 409600],
         e.new = [context |-> 8192]
  PROVE  After(d, 2, o)
<1>1. DOMAIN e.old = {"context"} /\ DOMAIN e.new = {"context"} /\ "context" \in Fields
  BY DEF Fields
<1>2. Edited(c, e, d, "context")
  BY <1>1, EditIs DEF After
<1>3. /\ d.tokens = c.tokens /\ d.chunk = c.chunk /\ d.running = c.running /\ d.graphs = c.graphs
      /\ d.autotune = c.autotune /\ d.draft = c.draft /\ d.backend = c.backend
      /\ d.triton = c.triton /\ d.source = c.source
  BY <1>2 DEF Edited, Fields
<1> QED BY <1>2, <1>3 DEF Edited, After

LEMMA Edited3 ==
  ASSUME NEW o \in Options, NEW c, NEW d, NEW e, d = Apply(c, e), After(c, 2, o),
         e.if, e.old = [chunk |-> 2048],
         e.new = [chunk |-> o.chunk]
  PROVE  After(d, 3, o)
<1>1. /\ DOMAIN e.old = {"chunk"} /\ DOMAIN e.new = {"chunk"} /\ "chunk" \in Fields
      /\ DOMAIN c = Fields /\ e.old["chunk"] = 2048 /\ e.new["chunk"] = o.chunk
  BY DEF Fields, After
<1>2. Edited(c, e, d, "chunk")
  BY <1>1, EditIs
<1>3. /\ d.tokens = c.tokens /\ d.running = c.running /\ d.graphs = c.graphs
      /\ d.autotune = c.autotune
      /\ d.draft = c.draft /\ d.backend = c.backend /\ d.triton = c.triton /\ d.source = c.source
  BY <1>2 DEF Edited, Fields
<1> QED BY <1>1, <1>2, <1>3, DispatchAssumption DEF Edited, After

LEMMA Edited4 ==
  ASSUME NEW o \in Options, NEW c, NEW d, NEW e, d = Apply(c, e), After(c, 3, o),
         e.if, e.old = [running |-> 4, graphs |-> 1 .. 4],
         e.new = [running |-> 1, graphs |-> {}, prefillGraphs |-> FALSE, autotune |-> FALSE,
                    warmup |-> FALSE]
  PROVE  After(d, 4, o)
<1>1. Matches(c, e)
  BY DEF Matches, After
<1>2. d = [f \in DOMAIN c |-> IF f \in DOMAIN e.new THEN e.new[f] ELSE c[f]]
  BY <1>1 DEF Apply, Matches
<1>3. /\ DOMAIN e.new = {"running", "graphs", "prefillGraphs", "autotune", "warmup"}
      /\ DOMAIN c = Fields
      /\ \A f \in Fields : f \notin DOMAIN e.new => d[f] = c[f]
  BY <1>2 DEF After
<1>4. DOMAIN d = Fields /\ d.running = 1 /\ d.graphs = {} /\ d.autotune = FALSE
  BY <1>2, <1>3 DEF After, Fields
<1>5. /\ d.tokens = c.tokens /\ d.chunk = c.chunk /\ d.draft = c.draft /\ d.backend = c.backend
      /\ d.triton = c.triton /\ d.source = c.source
  BY <1>3 DEF Fields
<1> QED BY <1>4, <1>5 DEF After

LEMMA Edited5 ==
  ASSUME NEW o \in Options, NEW c, NEW d, NEW e, d = Apply(c, e), After(c, 4, o),
         e.if, e.old = [running |-> 1],
         e.new = [running |-> o.concurrency]
  PROVE  After(d, 5, o)
<1>1. /\ DOMAIN e.old = {"running"} /\ DOMAIN e.new = {"running"} /\ "running" \in Fields
      /\ DOMAIN c = Fields /\ e.old["running"] = 1 /\ e.new["running"] = o.concurrency
  BY DEF Fields, After
<1>2. Edited(c, e, d, "running")
  BY <1>1, EditIs
<1>3. /\ d.tokens = c.tokens /\ d.chunk = c.chunk /\ d.graphs = c.graphs /\ d.autotune = c.autotune
      /\ d.draft = c.draft /\ d.backend = c.backend /\ d.triton = c.triton /\ d.source = c.source
  BY <1>2 DEF Edited, Fields
<1> QED BY <1>1, <1>2, <1>3, DispatchAssumption DEF Edited, After

LEMMA Edited6 ==
  ASSUME NEW o \in Options, NEW c, NEW d, NEW e, d = Apply(c, e), After(c, 5, o),
         e.if <=> ~o.dspark, e.old = [draft |-> 5],
         e.new = [draft |-> 0]
  PROVE  After(d, 6, o)
<1>1. /\ DOMAIN e.old = {"draft"} /\ DOMAIN e.new = {"draft"} /\ "draft" \in Fields
      /\ DOMAIN c = Fields /\ e.old["draft"] = 5 /\ e.new["draft"] = 0
  BY DEF Fields, After
<1>2. Edited(c, e, d, "draft")
  BY <1>1, EditIs
<1>3. /\ d.tokens = c.tokens /\ d.chunk = c.chunk /\ d.running = c.running /\ d.graphs = c.graphs
      /\ d.autotune = c.autotune /\ d.backend = c.backend /\ d.triton = c.triton
      /\ d.source = c.source
  BY <1>2 DEF Edited, Fields
<1> QED BY <1>1, <1>2, <1>3, DispatchAssumption DEF Edited, After

LEMMA Edited7 ==
  ASSUME NEW o \in Options, NEW c, NEW d, NEW e, d = Apply(c, e), After(c, 6, o),
         e.if <=> o.graphs, e.old = [graphs |-> {}],
         e.new = [graphs |-> 1 .. o.concurrency]
  PROVE  After(d, 7, o)
<1>1. /\ DOMAIN e.old = {"graphs"} /\ DOMAIN e.new = {"graphs"} /\ "graphs" \in Fields
      /\ DOMAIN c = Fields /\ e.old["graphs"] = {} /\ e.new["graphs"] = 1 .. o.concurrency
  BY DEF Fields, After
<1>2. Edited(c, e, d, "graphs")
  BY <1>1, EditIs
<1>3. /\ d.tokens = c.tokens /\ d.chunk = c.chunk /\ d.running = c.running
      /\ d.autotune = c.autotune
      /\ d.draft = c.draft /\ d.backend = c.backend /\ d.triton = c.triton /\ d.source = c.source
  BY <1>2 DEF Edited, Fields
<1> QED BY <1>1, <1>2, <1>3, DispatchAssumption DEF Edited, After

LEMMA Edited8 ==
  ASSUME NEW o \in Options, NEW c, NEW d, NEW e, d = Apply(c, e), After(c, 7, o),
         e.if <=> o.autotune, e.old = [autotune |-> FALSE],
         e.new = [autotune |-> TRUE]
  PROVE  After(d, 8, o)
<1>1. /\ DOMAIN e.old = {"autotune"} /\ DOMAIN e.new = {"autotune"} /\ "autotune" \in Fields
      /\ DOMAIN c = Fields /\ e.old["autotune"] = FALSE /\ e.new["autotune"] = TRUE
  BY DEF Fields, After
<1>2. Edited(c, e, d, "autotune")
  BY <1>1, EditIs
<1>3. /\ d.tokens = c.tokens /\ d.chunk = c.chunk /\ d.running = c.running /\ d.graphs = c.graphs
      /\ d.draft = c.draft /\ d.backend = c.backend /\ d.triton = c.triton /\ d.source = c.source
  BY <1>2 DEF Edited, Fields
<1>4. c.autotune = FALSE
  BY DEF After
<1>5. CASE o.autotune
  <2>1. d.autotune = TRUE
    BY <1>1, <1>2, <1>4, <1>5 DEF Edited
  <2>2. (d.autotune <=> o.autotune) /\ DOMAIN d = Fields
    BY <1>2, <1>5, <2>1 DEF Edited
  <2> QED BY <1>3, <2>2 DEF After
<1>6. CASE ~(o.autotune)
  <2>1. d.autotune = FALSE
    BY <1>1, <1>2, <1>4, <1>6 DEF Edited
  <2>2. (d.autotune <=> o.autotune) /\ DOMAIN d = Fields
    BY <1>2, <1>6, <2>1 DEF Edited
  <2> QED BY <1>3, <2>2 DEF After
<1> QED BY <1>5, <1>6

LEMMA Edited9 ==
  ASSUME NEW o \in Options, NEW c, NEW d, NEW e, d = Apply(c, e), After(c, 8, o),
         e.if, e.old = [cacheGiB |-> 32],
         e.new = [cacheGiB |-> 8]
  PROVE  After(d, 9, o)
<1>1. DOMAIN e.old = {"cacheGiB"} /\ DOMAIN e.new = {"cacheGiB"} /\ "cacheGiB" \in Fields
  BY DEF Fields
<1>2. Edited(c, e, d, "cacheGiB")
  BY <1>1, EditIs DEF After
<1>3. /\ d.tokens = c.tokens /\ d.chunk = c.chunk /\ d.running = c.running /\ d.graphs = c.graphs
      /\ d.autotune = c.autotune /\ d.draft = c.draft /\ d.backend = c.backend
      /\ d.triton = c.triton /\ d.source = c.source
  BY <1>2 DEF Edited, Fields
<1> QED BY <1>2, <1>3 DEF Edited, After

LEMMA Edited10 ==
  ASSUME NEW o \in Options, NEW r, NEW c, NEW d, NEW e, d = Apply(c, e), After(c, 9, o),
         e.if <=> o.local, e.old = [engram |-> <<>>],
         e.new = [engram |-> <<o.size, r>>]
  PROVE  After(d, 10, o)
<1>1. DOMAIN e.old = {"engram"} /\ DOMAIN e.new = {"engram"} /\ "engram" \in Fields
  BY DEF Fields
<1>2. Edited(c, e, d, "engram")
  BY <1>1, EditIs DEF After
<1>3. /\ d.tokens = c.tokens /\ d.chunk = c.chunk /\ d.running = c.running /\ d.graphs = c.graphs
      /\ d.autotune = c.autotune /\ d.draft = c.draft /\ d.backend = c.backend
      /\ d.triton = c.triton /\ d.source = c.source
  BY <1>2 DEF Edited, Fields
<1> QED BY <1>2, <1>3 DEF Edited, After

LEMMA Edited11 ==
  ASSUME NEW o \in Options, NEW c, NEW d, NEW e, d = Apply(c, e), After(c, 10, o),
         e.if <=> o.mla \notin {"none", "hybrid"}, e.old = [backend |-> "flashinfer"],
         e.new = [backend |-> o.mla]
  PROVE  After(d, 11, o)
<1>1. /\ DOMAIN e.old = {"backend"} /\ DOMAIN e.new = {"backend"} /\ "backend" \in Fields
      /\ DOMAIN c = Fields /\ e.old["backend"] = "flashinfer" /\ e.new["backend"] = o.mla
  BY DEF Fields, After
<1>2. Edited(c, e, d, "backend")
  BY <1>1, EditIs
<1>3. /\ d.tokens = c.tokens /\ d.chunk = c.chunk /\ d.running = c.running /\ d.graphs = c.graphs
      /\ d.autotune = c.autotune /\ d.draft = c.draft /\ d.triton = c.triton /\ d.source = c.source
  BY <1>2 DEF Edited, Fields
<1> QED BY <1>1, <1>2, <1>3, DispatchAssumption DEF Edited, After

LEMMA Edited12 ==
  ASSUME NEW o \in Options, NEW c, NEW d, NEW e, d = Apply(c, e), After(c, 11, o),
         e.if <=> o.mla = "hybrid", e.old = [triton |-> FALSE],
         e.new = [triton |-> TRUE]
  PROVE  After(d, 12, o)
<1>1. /\ DOMAIN e.old = {"triton"} /\ DOMAIN e.new = {"triton"} /\ "triton" \in Fields
      /\ DOMAIN c = Fields /\ e.old["triton"] = FALSE /\ e.new["triton"] = TRUE
  BY DEF Fields, After
<1>2. Edited(c, e, d, "triton")
  BY <1>1, EditIs
<1>3. /\ d.tokens = c.tokens /\ d.chunk = c.chunk /\ d.running = c.running /\ d.graphs = c.graphs
      /\ d.autotune = c.autotune /\ d.draft = c.draft /\ d.backend = c.backend
      /\ d.source = c.source
  BY <1>2 DEF Edited, Fields
<1>4. c.triton = FALSE
  BY DEF After
<1>5. CASE o.mla = "hybrid"
  <2>1. d.triton = TRUE
    BY <1>1, <1>2, <1>4, <1>5 DEF Edited
  <2>2. (d.triton <=> o.mla = "hybrid") /\ DOMAIN d = Fields
    BY <1>2, <1>5, <2>1 DEF Edited
  <2> QED BY <1>3, <2>2 DEF After
<1>6. CASE ~(o.mla = "hybrid")
  <2>1. d.triton = FALSE
    BY <1>1, <1>2, <1>4, <1>6 DEF Edited
  <2>2. (d.triton <=> o.mla = "hybrid") /\ DOMAIN d = Fields
    BY <1>2, <1>6, <2>1 DEF Edited
  <2> QED BY <1>3, <2>2 DEF After
<1> QED BY <1>5, <1>6

\* The command after each of the edits; Command takes the last of them.
IsChain(f, o, E) ==
  f = [i \in 0 .. Len(E) |-> IF i = 0 THEN BaseCommand(o.size) ELSE Apply(f[i - 1], E[i])]

LEMMA ChainExists ==
  ASSUME NEW o, NEW E, Len(E) = 12
  PROVE  \E f : IsChain(f, o, E)
<1>0. PICK c0 : c0 = BaseCommand(o.size)
  OBVIOUS
<1>1. PICK c1 : c1 = Apply(c0, E[1])
  OBVIOUS
<1>2. PICK c2 : c2 = Apply(c1, E[2])
  OBVIOUS
<1>3. PICK c3 : c3 = Apply(c2, E[3])
  OBVIOUS
<1>4. PICK c4 : c4 = Apply(c3, E[4])
  OBVIOUS
<1>5. PICK c5 : c5 = Apply(c4, E[5])
  OBVIOUS
<1>6. PICK c6 : c6 = Apply(c5, E[6])
  OBVIOUS
<1>7. PICK c7 : c7 = Apply(c6, E[7])
  OBVIOUS
<1>8. PICK c8 : c8 = Apply(c7, E[8])
  OBVIOUS
<1>9. PICK c9 : c9 = Apply(c8, E[9])
  OBVIOUS
<1>10. PICK c10 : c10 = Apply(c9, E[10])
  OBVIOUS
<1>11. PICK c11 : c11 = Apply(c10, E[11])
  OBVIOUS
<1>12. PICK c12 : c12 = Apply(c11, E[12])
  OBVIOUS
<1>13. PICK g : g = [i \in 0 .. 12 |->
    IF i < 7 THEN IF i = 0 THEN c0 ELSE IF i = 1 THEN c1 ELSE IF i = 2 THEN c2 ELSE
                  IF i = 3 THEN c3 ELSE IF i = 4 THEN c4 ELSE IF i = 5 THEN c5 ELSE c6
    ELSE IF i = 7 THEN c7 ELSE IF i = 8 THEN c8 ELSE IF i = 9 THEN c9 ELSE
         IF i = 10 THEN c10 ELSE IF i = 11 THEN c11 ELSE c12]
  OBVIOUS
<1>14. /\ g[0] = c0 /\ g[1] = c1 /\ g[2] = c2 /\ g[3] = c3 /\ g[4] = c4 /\ g[5] = c5
       /\ g[6] = c6 /\ g[7] = c7 /\ g[8] = c8 /\ g[9] = c9 /\ g[10] = c10 /\ g[11] = c11
       /\ g[12] = c12
  BY <1>13
<1>15. \A i \in 0 .. 12 : g[i] = IF i = 0 THEN BaseCommand(o.size) ELSE Apply(g[i - 1], E[i])
  <2> TAKE i \in 0 .. 12
  <2>1. CASE i \in 0 .. 4
    BY <2>1, <1>0, <1>1, <1>2, <1>3, <1>4, <1>14
  <2>2. CASE i \in 5 .. 8
    BY <2>2, <1>5, <1>6, <1>7, <1>8, <1>14
  <2>3. CASE i \in 9 .. 12
    BY <2>3, <1>9, <1>10, <1>11, <1>12, <1>14
  <2> QED BY <2>1, <2>2, <2>3
<1>16. g = [i \in 0 .. 12 |-> IF i = 0 THEN BaseCommand(o.size) ELSE Apply(g[i - 1], E[i])]
  BY <1>13, <1>15
<1> QED BY <1>16 DEF IsChain

LEMMA TwelveEdits ==
  ASSUME NEW a1, NEW a2, NEW a3, NEW a4, NEW a5, NEW a6,
         NEW a7, NEW a8, NEW a9, NEW a10, NEW a11, NEW a12, NEW E,
         E = <<a1, a2, a3>> \o <<a4, a5>> \o <<a6, a7, a8, a9, a10, a11, a12>>
  PROVE  /\ Len(E) = 12
         /\ E[1] = a1 /\ E[2] = a2 /\ E[3] = a3 /\ E[4] = a4 /\ E[5] = a5 /\ E[6] = a6
         /\ E[7] = a7 /\ E[8] = a8 /\ E[9] = a9 /\ E[10] = a10 /\ E[11] = a11 /\ E[12] = a12
OBVIOUS

LEMMA CommandIs ==
  ASSUME NEW o \in Options
  PROVE  After(Command(o, 0), 12, o)
<1> DEFINE a1 == Edit(TRUE, [memory |-> IF o.size = 4 THEN 70 ELSE 82],
                  [memory |-> 85, tokens |-> 8192])
           a2 == Edit(TRUE, [context |-> 409600], [context |-> 8192])
           a3 == Edit(TRUE, [chunk |-> 2048], [chunk |-> o.chunk])
           a4 == Relaxed
           a5 == Concurrency(o)
           a6 == Edit(~o.dspark, [draft |-> 5], [draft |-> 0])
           a7 == Edit(o.graphs, [graphs |-> {}], [graphs |-> 1 .. o.concurrency])
           a8 == Edit(o.autotune, [autotune |-> FALSE], [autotune |-> TRUE])
           a9 == Edit(TRUE, [cacheGiB |-> 32], [cacheGiB |-> 8])
           a10 == Edit(o.local, [engram |-> <<>>], [engram |-> <<o.size, 0>>])
           a11 == Edit(o.mla \notin {"none", "hybrid"}, [backend |-> "flashinfer"],
                  [backend |-> o.mla])
           a12 == Edit(o.mla = "hybrid", [triton |-> FALSE], [triton |-> TRUE])
<1> HIDE DEF a1, a2, a3, a4, a5, a6, a7, a8, a9, a10, a11, a12
<1>1. PICK E : E = Edits(o, 0)
  OBVIOUS
<1>2. E = <<a1, a2, a3>> \o <<a4, a5>> \o <<a6, a7, a8, a9, a10, a11, a12>>
  BY <1>1 DEF Edits, Requests, Edit, a1, a2, a3, a4, a5, a6, a7, a8, a9, a10,
                   a11, a12
<1>3. Len(E) = 12
  BY <1>2, TwelveEdits
<1>4. PICK A : A = CHOOSE f : IsChain(f, o, E)
  OBVIOUS
<1>5. IsChain(A, o, E)
  BY <1>3, <1>4, ChainExists, Zenon
<1>6. Command(o, 0) = A[12]
  BY <1>1, <1>3, <1>4 DEF Command, IsChain
<1>7. /\ A[0] = BaseCommand(o.size)
      /\ \A i \in 1 .. 12 : A[i] = Apply(A[i - 1], E[i])
  BY <1>3, <1>5 DEF IsChain
<1>8. /\ A[1] = Apply(A[0], E[1]) /\ A[2] = Apply(A[1], E[2]) /\ A[3] = Apply(A[2], E[3])
      /\ A[4] = Apply(A[3], E[4]) /\ A[5] = Apply(A[4], E[5]) /\ A[6] = Apply(A[5], E[6])
      /\ A[7] = Apply(A[6], E[7]) /\ A[8] = Apply(A[7], E[8]) /\ A[9] = Apply(A[8], E[9])
      /\ A[10] = Apply(A[9], E[10]) /\ A[11] = Apply(A[10], E[11])
      /\ A[12] = Apply(A[11], E[12])
  BY <1>7
<1>9. After(A[0], 0, o)
  BY <1>7 DEF After, BaseCommand, Fields
<1>10. After(A[1], 1, o)
  <2>1. E[1] = a1
    BY <1>2, TwelveEdits
  <2>2. a1.if
    BY DEF a1, Edit
  <2>3. /\ a1.old = [memory |-> IF o.size = 4 THEN 70 ELSE 82]
        /\ a1.new = [memory |-> 85, tokens |-> 8192]
    BY DEF a1, Edit
  <2> QED BY <1>8, <1>9, <2>1, <2>2, <2>3, Edited1
<1>11. After(A[2], 2, o)
  <2>1. E[2] = a2
    BY <1>2, TwelveEdits
  <2>2. a2.if
    BY DEF a2, Edit
  <2>3. /\ a2.old = [context |-> 409600]
        /\ a2.new = [context |-> 8192]
    BY DEF a2, Edit
  <2> QED BY <1>8, <1>10, <2>1, <2>2, <2>3, Edited2
<1>12. After(A[3], 3, o)
  <2>1. E[3] = a3
    BY <1>2, TwelveEdits
  <2>2. a3.if
    BY DEF a3, Edit
  <2>3. /\ a3.old = [chunk |-> 2048]
        /\ a3.new = [chunk |-> o.chunk]
    BY DEF a3, Edit
  <2> QED BY <1>8, <1>11, <2>1, <2>2, <2>3, Edited3
<1>13. After(A[4], 4, o)
  <2>1. E[4] = a4
    BY <1>2, TwelveEdits
  <2>2. a4.if
    BY DEF a4, Edit, Relaxed
  <2>3. /\ a4.old = [running |-> 4, graphs |-> 1 .. 4]
        /\ a4.new = [running |-> 1, graphs |-> {}, prefillGraphs |-> FALSE, autotune |-> FALSE,
           warmup |-> FALSE]
    BY DEF a4, Edit, Relaxed
  <2> QED BY <1>8, <1>12, <2>1, <2>2, <2>3, Edited4
<1>14. After(A[5], 5, o)
  <2>1. E[5] = a5
    BY <1>2, TwelveEdits
  <2>2. a5.if
    BY DEF a5, Edit, Concurrency
  <2>3. /\ a5.old = [running |-> 1]
        /\ a5.new = [running |-> o.concurrency]
    BY DEF a5, Edit, Concurrency
  <2> QED BY <1>8, <1>13, <2>1, <2>2, <2>3, Edited5
<1>15. After(A[6], 6, o)
  <2>1. E[6] = a6
    BY <1>2, TwelveEdits
  <2>2. a6.if = (~o.dspark)
    BY DEF a6, Edit
  <2>3. a6.if <=> ~o.dspark
    BY <2>2, Zenon
  <2>4. /\ a6.old = [draft |-> 5]
        /\ a6.new = [draft |-> 0]
    BY DEF a6, Edit
  <2> QED BY <1>8, <1>14, <2>1, <2>3, <2>4, Edited6
<1>16. After(A[7], 7, o)
  <2>1. E[7] = a7
    BY <1>2, TwelveEdits
  <2>2. a7.if = o.graphs
    BY DEF a7, Edit
  <2>3. a7.if <=> o.graphs
    BY <2>2, Zenon
  <2>4. /\ a7.old = [graphs |-> {}]
        /\ a7.new = [graphs |-> 1 .. o.concurrency]
    BY DEF a7, Edit
  <2> QED BY <1>8, <1>15, <2>1, <2>3, <2>4, Edited7
<1>17. After(A[8], 8, o)
  <2>1. E[8] = a8
    BY <1>2, TwelveEdits
  <2>2. a8.if = o.autotune
    BY DEF a8, Edit
  <2>3. a8.if <=> o.autotune
    BY <2>2, Zenon
  <2>4. /\ a8.old = [autotune |-> FALSE]
        /\ a8.new = [autotune |-> TRUE]
    BY DEF a8, Edit
  <2> QED BY <1>8, <1>16, <2>1, <2>3, <2>4, Edited8
<1>18. After(A[9], 9, o)
  <2>1. E[9] = a9
    BY <1>2, TwelveEdits
  <2>2. a9.if
    BY DEF a9, Edit
  <2>3. /\ a9.old = [cacheGiB |-> 32]
        /\ a9.new = [cacheGiB |-> 8]
    BY DEF a9, Edit
  <2> QED BY <1>8, <1>17, <2>1, <2>2, <2>3, Edited9
<1>19. After(A[10], 10, o)
  <2>1. E[10] = a10
    BY <1>2, TwelveEdits
  <2>2. a10.if = o.local
    BY DEF a10, Edit
  <2>3. a10.if <=> o.local
    BY <2>2, Zenon
  <2>4. /\ a10.old = [engram |-> <<>>]
        /\ a10.new = [engram |-> <<o.size, 0>>]
    BY DEF a10, Edit
  <2> QED BY <1>8, <1>18, <2>1, <2>3, <2>4, Edited10
<1>20. After(A[11], 11, o)
  <2>1. E[11] = a11
    BY <1>2, TwelveEdits
  <2>2. a11.if = (o.mla \notin {"none", "hybrid"})
    BY DEF a11, Edit
  <2>3. a11.if <=> o.mla \notin {"none", "hybrid"}
    BY <2>2, Zenon
  <2>4. /\ a11.old = [backend |-> "flashinfer"]
        /\ a11.new = [backend |-> o.mla]
    BY DEF a11, Edit
  <2> QED BY <1>8, <1>19, <2>1, <2>3, <2>4, Edited11
<1>21. After(A[12], 12, o)
  <2>1. E[12] = a12
    BY <1>2, TwelveEdits
  <2>2. a12.if = (o.mla = "hybrid")
    BY DEF a12, Edit
  <2>3. a12.if <=> o.mla = "hybrid"
    BY <2>2, Zenon
  <2>4. /\ a12.old = [triton |-> FALSE]
        /\ a12.new = [triton |-> TRUE]
    BY DEF a12, Edit
  <2> QED BY <1>8, <1>20, <2>1, <2>3, <2>4, Edited12
<1> QED BY <1>6, <1>21

(***************************************************************************)
(* The recipe, and what the comparison leaves behind                       *)
(***************************************************************************)
OInv == opts \in Options /\ cmd = Command(opts, 0)

LEMMA OInit == ServiceInit => OInv
BY DEF ServiceInit, Fresh, OInv

LEMMA ONext == OInv /\ [CampaignNext]_campaign => OInv'
<1> SUFFICES ASSUME OInv, [CampaignNext]_campaign
             PROVE  OInv'
  OBVIOUS
<1>1. CASE UNCHANGED <<opts, cmd>>
  BY <1>1 DEF OInv
<1>2. CASE NewService
  BY <1>2, DispatchAssumption DEF NewService, Relaunch, OInv
<1>3. CASE StartSuite \/ StartJitter
  BY <1>1, <1>3 DEF StartSuite, BeginSuite, StartJitter, BeginJitter, service
<1>4. CASE SuiteStep
  <2>1. CASE Wait \/ Flush \/ Arm \/ Disarm \/ SaveParity
    BY <1>1, <2>1 DEF Wait, Flush, Arm, Disarm, Ssh, SaveParity, service
  <2>2. ASSUME NEW s \in Scripts, Request(s) \/ RequestFails(s) \/ Exit(s)
        PROVE  OInv'
    BY <1>1, <2>2 DEF Request, Answers, RequestFails, Exit, service
  <2> QED BY <1>4, <2>1, <2>2 DEF SuiteStep
<1>5. CASE JitterStep
  BY <1>1, <1>5 DEF JitterStep, Decide, Measure, EndBench, Resized, Join, Spawn, Terminate, Answers,
     service
<1>6. CASE Ready \/ Dies \/ LateSsh
  BY <1>1, <1>6 DEF Ready, Dies, LateSsh
<1>7. CASE \E n \in Ranks : Reader(n)
  BY <1>1, <1>7 DEF Reader, Enter, Connect, Sample, HangUp, service
<1>8. CASE UNCHANGED campaign
  BY <1>1, <1>8 DEF campaign, service
<1> QED BY <1>2, <1>3, <1>4, <1>5, <1>6, <1>7, <1>8 DEF CampaignNext, Tool

LEMMA OptionsAre ==
  ASSUME NEW o \in Options
  PROVE  /\ o.concurrency \in 1 .. 8 /\ o.chunk \in {1024, 2048, 4096, 8192}
         /\ o.autotune \in BOOLEAN /\ o.dspark \in BOOLEAN
BY DispatchAssumption

\* The edits of the command add up to what was asked for, for every set of options the
\* program accepts and in every state of the campaign; with at most eight requests of
\* at most six tokens, every decode batch of the hybrid stays below the 64 tokens of
\* the fast kernel (recover_eager.py:41-62, 91-96, flash_mla_sm120.py:212, 297).
THEOREM CommandIsAsAsked == CampaignSpec => []RecipeServes
<1>1. OInv => RecipeServes
  <2> SUFFICES ASSUME OInv
               PROVE  RecipeServes
    OBVIOUS
  <2>1. opts \in Options /\ After(cmd, 12, opts)
    BY CommandIs DEF OInv
  <2>2. /\ cmd.tokens = 8192 /\ cmd.chunk = opts.chunk /\ cmd.running = opts.concurrency
        /\ opts.concurrency \in 1 .. 8 /\ cmd.draft = IF opts.dspark THEN 5 ELSE 0
        /\ opts.graphs => cmd.graphs = 1 .. opts.concurrency
        /\ opts.mla = "hybrid" => cmd.backend = "flashinfer"
    BY <2>1, OptionsAre DEF After
  <2>3. cmd.autotune <=> opts.autotune
    <3>1. 12 >= 8 => (cmd.autotune <=> opts.autotune)
      BY <2>1, Switches, Zenon
    <3>2. 12 >= 8
      OBVIOUS
    <3> QED BY <3>1, <3>2, Zenon
  <2>4. ASSUME NEW n \in 1 .. cmd.running, opts.mla = "hybrid"
        PROVE  Kernel(n * (cmd.draft + 1)) = "decode"
    <3>1. n \in 1 .. 8 /\ cmd.draft + 1 \in {1, 6}
      BY <2>2
    <3>2. n * (cmd.draft + 1) <= 64
      BY <3>1
    <3> QED BY <2>2, <2>4, <3>2 DEF Kernel, MaxDecode
  <2> QED BY <2>2, <2>3, <2>4 DEF RecipeServes
<1>2. CampaignInit => OInv
  BY OInit DEF CampaignInit
<1> QED BY <1>1, <1>2, ONext, PTL DEF CampaignSpec

\* Both kernels can be compared: the module of the image serves a hybrid launch, and
\* no ssh to the host has been lost.
Observed ==
  /\ suite.parity # NoRank /\ suite.parity \notin ssh.hosts
  /\ opts.mla = "hybrid" /\ ~overlay
Logged == suite.n \in lines[suite.parity]

\* The parity script sends a prompt that takes the prefill way when it is not cached.
ParityPrompt ==
  \E i \in 1 .. Len(Script["parity"]) : Tokens[Script["parity"][i]] > MaxDecode

\* The file is there and the cache is empty when the script starts; whatever fills the
\* cache then has been compared.
KInv ==
  /\ spc = "arm" => cached = {}
  /\ Observed /\ spc = "parity" =>
       /\ suite.parity \in flag
       /\ cached # {} => Logged
       /\ \A i \in 1 .. at : Tokens[Script["parity"][i]] > MaxDecode => Logged
  /\ Observed /\ spc = "remove" /\ <<"parity", 0>> \in steps => Logged
  /\ Observed /\ spc = "logs" => Logged
  /\ Observed /\ spc \in TimedSteps \cup {"retrieval"} => suite.n \in evidence

HInv == DInv /\ GInv /\ OInv /\ KInv

LEMMA HookServes ==
  ASSUME OInv, opts.mla = "hybrid", ~overlay,
         NEW p \in Prompts, Tokens[p] > MaxDecode, p \notin cached
  PROVE  Comparing(p) = flag
<1>1. opts \in Options /\ After(cmd, 12, opts)
  BY CommandIs DEF OInv
<1>2. cmd.backend = "flashinfer" /\ cmd.chunk = opts.chunk /\ cmd.source = TRUE
  BY <1>1 DEF After
<1>3. cmd.chunk > MaxDecode
  BY <1>1, <1>2, OptionsAre DEF MaxDecode
<1>4. cmd.triton
  <2>1. 12 >= 12 => (cmd.triton <=> opts.mla = "hybrid")
    BY <1>1, Switches, Zenon
  <2>2. 12 >= 12
    OBVIOUS
  <2> QED BY <2>1, <2>2, Zenon
<1>5. Tokens[p] \in Nat /\ cmd.chunk \in Nat
  BY <1>1, <1>2, OptionsAre, DispatchAssumption
<1>6. Batch(p) > MaxDecode /\ Batch(p) \in Nat
  BY <1>3, <1>5 DEF Batch
<1>7. Hooked
  BY <1>2, <1>4, Zenon DEF Hooked
<1>8. Kernel(Batch(p)) = "hook"
  <2>1. ~(Batch(p) <= MaxDecode)
    BY <1>6 DEF MaxDecode
  <2> QED BY <1>2, <1>6, <1>7, <2>1 DEF Kernel
<1> QED BY <1>8 DEF Comparing

LEMMA KInit == CampaignInit => KInv
BY DEF CampaignInit, SuiteInit, KInv, Observed, Compared, TimedSteps

LEMMA KUnchanged ==
  ASSUME KInv, UNCHANGED <<suite, spc, at, steps, evidence, cached, lines, opts, overlay>>,
         ssh.hosts \subseteq ssh'.hosts,
         \A r : r \notin ssh.hosts => (r \in flag <=> r \in flag')
  PROVE  KInv'
BY DEF KInv, Observed, Logged, Compared, TimedSteps

\* Nothing has been compared yet.
LEMMA KNothing ==
  ASSUME spc' \in {"idle", "failed", "waiting", "correctness"}
  PROVE  KInv'
BY DEF KInv, Compared, TimedSteps

LEMMA KGate ==
  ASSUME NEW rows, Gate(rows), UNCHANGED <<suite, ssh>>
  PROVE  KInv'
<1>1. spc' \in {"failed", AfterCorrectness}
  BY DEF Gate, Then, Fail
<1>2. CASE suite.parity = NoRank
  BY <1>1, <1>2 DEF AfterCorrectness, KInv, Observed, Compared, TimedSteps
<1>3. CASE suite.parity # NoRank
  BY <1>1, <1>3 DEF AfterCorrectness, KInv, Compared, TimedSteps
<1> QED BY <1>2, <1>3

\* A prompt of the comparison: the first one that the cache does not hold is compared.
LEMMA KCompares ==
  ASSUME HInv, Request("parity")
  PROVE  KInv'
<1> DEFINE p == Script["parity"][at + 1]
<1>1. /\ spc = "parity" /\ at \in Nat /\ at < Len(Script["parity"])
      /\ spc' = spc /\ at' = at + 1 /\ UNCHANGED <<suite, evidence, ssh, steps>>
      /\ Answers(p, suite.n)
  BY DEF Request, Running, HInv, GInv
<1>2. p \in Prompts
  <2>1. Script["parity"] \in Seq(Prompts) /\ Len(Script["parity"]) \in Nat
    BY ScriptLen DEF Scripts
  <2> QED BY <1>1, <2>1
<1> HIDE DEF p
<1>3. /\ lines' = [r \in Ranks |-> IF r \in Comparing(p) THEN lines[r] \cup {suite.n} ELSE lines[r]]
      /\ cached' = cached \cup {q \in {p} : Tokens[q] > MaxDecode}
      /\ UNCHANGED <<opts, overlay, flag>>
  BY <1>1 DEF Answers
<1>4. ASSUME Observed
      PROVE  /\ suite.parity \in flag
             /\ cached' # {} => Logged'
             /\ \A i \in 1 .. at' : Tokens[Script["parity"][i]] > MaxDecode => Logged'
  <2>1. /\ suite.parity \in flag /\ suite.parity \in Ranks
        /\ cached # {} => Logged
        /\ \A i \in 1 .. at : Tokens[Script["parity"][i]] > MaxDecode => Logged
    BY <1>1, <1>4 DEF HInv, KInv, DInv, Observed
  <2>2. Logged => Logged'
    BY <1>1, <1>3, <2>1 DEF Logged
  <2>3. Tokens[p] > MaxDecode => Logged'
    <3>1. CASE Tokens[p] > MaxDecode /\ p \notin cached
      <4>1. Comparing(p) = flag
        BY <1>2, <1>4, <3>1, HookServes DEF HInv, Observed
      <4> QED BY <1>1, <1>3, <2>1, <4>1 DEF Logged
    <3> QED BY <2>1, <2>2, <3>1
  <2>4. cached' # {} => Logged'
    BY <1>3, <2>1, <2>2, <2>3
  <2>5. ASSUME NEW i \in 1 .. at', Tokens[Script["parity"][i]] > MaxDecode
        PROVE  Logged'
    <3>1. i \in 1 .. at \/ i = at + 1
      BY <1>1
    <3> QED BY <2>1, <2>2, <2>3, <2>5, <3>1 DEF p
  <2> QED BY <2>1, <2>4, <2>5
<1>5. Observed' => Observed
  BY <1>1, <1>3 DEF Observed
<1> QED BY <1>1, <1>3, <1>4, <1>5, SuiteAssumption DEF HInv, KInv, Compared, TimedSteps

LEMMA KSuite ==
  ASSUME HInv, ParityPrompt, SuiteStep
  PROVE  KInv'
<1>1. CASE Wait
  BY <1>1, KGate, KNothing DEF Wait, Then, Fail
<1>2. CASE Flush
  BY <1>2 DEF Flush, Retry, Then, Fail, HInv, KInv, Compared, TimedSteps
<1>3. CASE Arm
  <2>1. spc = "arm" /\ cached = {}
    BY <1>3 DEF Arm, HInv, KInv
  <2>2. CASE spc' = "parity" /\ at' = 0 /\ flag' = flag \cup {suite.parity} /\ UNCHANGED ssh
    BY <1>3, <2>1, <2>2 DEF Arm, Ssh, KInv, Observed, Compared, TimedSteps
  <2>3. CASE spc' = "failed"
    BY <2>3, KNothing
  <2> QED BY <1>3, <2>2, <2>3 DEF Arm, Ssh, Effect, Then, Fail
<1>4. CASE Disarm
  <2>1. CASE spc' = "failed"
    BY <2>1, KNothing
  <2>2. CASE spc' = "logs" /\ <<"parity", 0>> \in steps /\ UNCHANGED ssh
    <3>1. spc = "remove" /\ UNCHANGED <<opts, overlay, lines, suite>>
      BY <1>4 DEF Disarm, Ssh
    <3> QED BY <2>2, <3>1 DEF HInv, KInv, Observed, Logged, Compared, TimedSteps
  <2> QED BY <1>4, <2>1, <2>2 DEF Disarm, Ssh, Then, Fail
<1>5. CASE SaveParity
  BY <1>5 DEF SaveParity, Then, Fail, service, HInv, KInv, Observed, Logged, Compared, TimedSteps
<1>6. ASSUME NEW s \in Scripts, Request(s)
      PROVE  KInv'
  <2>1. CASE s = "parity"
    BY <1>6, <2>1, KCompares
  <2>2. CASE s # "parity"
    <3>1. spc = s /\ spc' \in {s, "failed"} /\ UNCHANGED <<suite, evidence, ssh, opts, overlay>>
      BY <1>6 DEF Request, Running, Answers, Then, Fail
    <3> QED BY <2>2, <3>1 DEF Scripts, HInv, KInv, Observed, Compared, TimedSteps
  <2> QED BY <2>1, <2>2
<1>7. ASSUME NEW s \in Scripts, RequestFails(s)
      PROVE  KInv'
  <2>1. /\ spc = s /\ UNCHANGED <<suite, ssh, opts, overlay>> /\ steps' = steps \cup {<<s, 1>>}
        /\ spc' = IF s = "parity" THEN "remove" ELSE "failed"
    BY <1>7 DEF RequestFails, Running, AfterFailure, Then, Fail, service
  <2>2. CASE s = "parity"
    <3>1. <<"parity", 0>> \notin steps'
      BY <2>1, <2>2 DEF HInv, GInv, GSteps
    <3> QED BY <2>1, <2>2, <3>1 DEF HInv, KInv, Observed, Compared, TimedSteps
  <2> QED BY <2>1, <2>2, KNothing
<1>8. ASSUME NEW s \in Scripts, Exit(s)
      PROVE  KInv'
  <2>1. /\ spc = s /\ at = Len(Script[s])
        /\ UNCHANGED <<suite, ssh, opts, overlay, lines, evidence>>
    BY <1>8 DEF Exit, service
  <2>2. CASE s = "correctness"
    BY <1>8, <2>1, <2>2, KGate DEF Exit
  <2>3. CASE s = "parity"
    <3>1. spc' = "remove"
      BY <1>8, <2>3 DEF Exit, Then
    <3>2. Observed => Logged
      BY <2>1, <2>3 DEF HInv, KInv, ParityPrompt
    <3> QED BY <2>1, <2>3, <3>1, <3>2 DEF HInv, KInv, Observed, Logged, Compared, TimedSteps
  <2>4. CASE s \in {"retrieval", "c1-repeat", "matrix"}
    <3>1. spc' \in {"c1-repeat", "matrix", "completed", "failed"}
      BY <1>8, <2>4 DEF Exit, Then, Fail
    <3> QED BY <2>1, <2>4, <3>1 DEF HInv, KInv, Observed, Compared, TimedSteps
  <2> QED BY <2>2, <2>3, <2>4 DEF Scripts
<1> QED BY <1>1, <1>2, <1>3, <1>4, <1>5, <1>6, <1>7, <1>8 DEF SuiteStep

LEMMA KNext == HInv /\ ParityPrompt /\ [CampaignNext]_campaign => KInv'
<1> SUFFICES ASSUME HInv, ParityPrompt, [CampaignNext]_campaign
             PROVE  KInv'
  OBVIOUS
<1>0. KInv
  BY DEF HInv
<1>1. CASE SuiteStep
  BY <1>1, KSuite
<1>2. CASE JitterStep /\ UNCHANGED suiteVars
  <2>1. jpc \notin JitterEnded
    BY <1>2 DEF JitterStep, Decide, Measure, EndBench, Resized, Join, Spawn, Terminate, JitterEnded
  <2>2. spc \in SuiteEnded
    BY <2>1 DEF HInv, DInv
  <2>3. UNCHANGED <<suite, spc, evidence, ssh, opts, overlay>>
    BY <1>2 DEF JitterStep, Decide, Measure, EndBench, Resized, Join, Spawn, Terminate, Answers,
       service, suiteVars
  <2> QED BY <1>0, <2>2, <2>3 DEF SuiteEnded, KInv, Observed, Compared, TimedSteps
<1>3. CASE StartSuite
  BY <1>3, KNothing DEF StartSuite, BeginSuite
<1>4. CASE StartJitter \/ NewService
  BY <1>4, KNothing DEF StartJitter, NewService, SuiteGone
<1>5. CASE (Ready \/ Dies) /\ UNCHANGED <<suiteVars, jitterVars>>
  BY <1>0, <1>5, KUnchanged DEF Ready, Dies, suiteVars
<1>6. CASE LateSsh
  <2>1. PICK e \in ssh.late : Effect(e[1], e[2]) /\ ssh' = [ssh EXCEPT !.late = @ \ {e}]
    BY <1>6 DEF LateSsh
  <2>2. ssh'.hosts = ssh.hosts /\ e[2] \in ssh.hosts
    BY <2>1 DEF HInv, DInv
  <2>3. \A r : r \notin ssh.hosts => (r \in flag <=> r \in flag')
    BY <2>1, <2>2 DEF Effect
  <2>4. UNCHANGED <<suite, spc, at, steps, evidence, cached, lines, opts, overlay>>
    BY <1>6 DEF LateSsh
  <2> QED BY <1>0, <2>2, <2>3, <2>4, KUnchanged
<1>7. CASE (\E n \in Ranks : Reader(n)) /\ UNCHANGED suiteVars
  BY <1>0, <1>7, KUnchanged DEF Reader, Enter, Connect, Sample, HangUp, service, suiteVars
<1>8. CASE UNCHANGED campaign
  BY <1>0, <1>8, KUnchanged DEF campaign, service, suiteVars
<1> QED BY <1>1, <1>2, <1>3, <1>4, <1>5, <1>6, <1>7, <1>8 DEF CampaignNext, Tool

\* A completed suite with a parity host has evidence of its own comparison, and not of
\* an earlier suite's, whenever the image's module serves a hybrid launch and no ssh
\* to the host was lost: for every script whose comparison sends a prompt above the
\* bound of the decode kernel, whatever the cache, the file and the log held before
\* (finish_spark_bench.py:46-58).
THEOREM ComparisonIsEvident ==
  ASSUME ParityPrompt
  PROVE  CampaignSpec => []HookCompares
<1>1. CampaignInit => HInv
  BY DInit, GInit, OInit, KInit DEF CampaignInit, HInv
<1>2. HInv /\ [CampaignNext]_campaign => HInv'
  BY DNext, GNext, ONext, KNext DEF HInv
<1>3. HInv => HookCompares
  BY DEF HInv, KInv, Observed, TimedSteps, HookCompares
<1> QED BY <1>1, <1>2, <1>3, PTL DEF CampaignSpec

(***************************************************************************)
(* Types                                                                   *)
(***************************************************************************)
ServiceTyped ==
  /\ opts \in Options /\ overlay \in Overlays /\ wrong \in Broken
  /\ cached \subseteq Prompts /\ flag \subseteq Ranks
  /\ lines \in [Ranks -> SUBSET (0 .. MaxSuites)]

\* A comparison is only begun with a host to run it on.
SuiteTyped ==
  /\ evidence \subseteq 0 .. MaxSuites /\ steps \subseteq Scripts \X {0, 1}
  /\ suite \in [n : 0 .. MaxSuites, parity : Ranks \cup {NoRank}, container : BOOLEAN,
                reuse : 0 .. MaxSuites]
  /\ spc = "flush" => at < FlushTries
  /\ spc \in Compared => suite.parity # NoRank
  /\ ssh.faults \in 0 .. MaxFaults /\ ssh.hosts \subseteq Ranks
  /\ ssh.late \subseteq {"touch", "rm"} \X Ranks

JitterTyped == asked \in 0 .. Repeats /\ loop \subseteq procs

Booleans == up \in BOOLEAN /\ retrieved \in BOOLEAN /\ ok \in BOOLEAN

TInv == JInv /\ DInv /\ GInv /\ ServiceTyped /\ SuiteTyped /\ JitterTyped /\ Booleans

LEMMA TInit == CampaignInit => ServiceTyped /\ SuiteTyped /\ JitterTyped /\ Booleans
<1> SUFFICES ASSUME CampaignInit
             PROVE  ServiceTyped /\ SuiteTyped /\ JitterTyped /\ Booleans
  OBVIOUS
<1> USE SuiteAssumption, JitterAssumption
<1>1. ServiceTyped
  BY DEF CampaignInit, ServiceInit, Fresh, ServiceTyped
<1>2. SuiteTyped
  BY DEF CampaignInit, SuiteInit, SuiteTyped, Compared
<1>3. JitterTyped
  BY DEF CampaignInit, JitterInit, JitterTyped
<1>4. up = FALSE /\ retrieved = TRUE /\ ok = TRUE
  BY DEF CampaignInit, ServiceInit, Fresh, SuiteInit, JitterInit
<1> QED BY <1>1, <1>2, <1>3, <1>4, Zenon DEF Booleans

\* An answer on behalf of a suite that exists, or of no suite.
LEMMA TAnswers ==
  ASSUME ServiceTyped, NEW p \in Prompts, NEW by \in 0 .. MaxSuites, Answers(p, by)
  PROVE  ServiceTyped'
BY DEF Answers, ServiceTyped

LEMMA TUnchanged ==
  ASSUME ServiceTyped, UNCHANGED <<opts, overlay, wrong, cached, flag, lines>>
  PROVE  ServiceTyped'
BY DEF ServiceTyped

LEMMA TService ==
  ASSUME TInv, [CampaignNext]_campaign
  PROVE  ServiceTyped'
<1> USE DEF TInv
<1>1. CASE Wait \/ SaveParity
  BY <1>1, TUnchanged DEF Wait, SaveParity, service
<1>2. CASE Flush
  BY <1>2 DEF Flush, ServiceTyped
<1>3. CASE Arm \/ Disarm
  <2>1. suite.parity \in Ranks
    BY <1>3 DEF Arm, Disarm, SuiteTyped, Compared
  <2>2. /\ flag' \subseteq flag \cup {suite.parity}
        /\ UNCHANGED <<opts, overlay, wrong, cached, lines>>
    BY <1>3 DEF Arm, Disarm, Ssh, Effect
  <2> QED BY <2>1, <2>2 DEF ServiceTyped
<1>4. ASSUME NEW s \in Scripts, Request(s)
      PROVE  ServiceTyped'
  <2>1. at < Len(Script[s]) /\ at \in Nat /\ suite.n \in 0 .. MaxSuites
        /\ Answers(Script[s][at + 1], suite.n)
    BY <1>4 DEF Request, Running, GInv, SuiteTyped
  <2>2. Script[s][at + 1] \in Prompts
    BY <2>1, ScriptLen
  <2> QED BY <2>1, <2>2, TAnswers
<1>5. ASSUME NEW s \in Scripts, RequestFails(s) \/ Exit(s)
      PROVE  ServiceTyped'
  BY <1>5, TUnchanged DEF RequestFails, Exit, service
<1>6. CASE JitterStep
  <2>1. CASE Measure
    BY <2>1, TAnswers, JitterAssumption, SuiteAssumption DEF Measure
  <2>2. CASE UNCHANGED service
    BY <2>2, TUnchanged DEF service
  <2> QED BY <1>6, <2>1, <2>2 DEF JitterStep, Decide, EndBench, Resized, Join, Spawn, Terminate
<1>7. CASE StartSuite \/ StartJitter
  BY <1>7, TUnchanged DEF StartSuite, BeginSuite, StartJitter, BeginJitter, service
<1>8. CASE NewService
  BY <1>8, DispatchAssumption DEF NewService, Relaunch, ServiceTyped
<1>9. CASE Ready \/ Dies
  BY <1>9, TUnchanged DEF Ready, Dies
<1>10. CASE LateSsh
  BY <1>10 DEF LateSsh, Effect, ServiceTyped, SuiteTyped
<1>11. CASE \E n \in Ranks : Reader(n)
  BY <1>11, TUnchanged DEF Reader, Enter, Connect, Sample, HangUp, service
<1>12. CASE UNCHANGED campaign
  BY <1>12, TUnchanged DEF campaign, service
<1> QED BY <1>1, <1>2, <1>3, <1>4, <1>5, <1>6, <1>7, <1>8, <1>9, <1>10, <1>11, <1>12
        DEF CampaignNext, Tool, SuiteStep

\* A suite that has ended keeps its number; what ssh left behind stays.
LEMMA TGone ==
  ASSUME SuiteTyped, SuiteGone, ssh'.faults = ssh.faults, ssh'.late = ssh.late,
         ssh'.hosts \subseteq Ranks
  PROVE  SuiteTyped'
<1>1. suite' = [suite EXCEPT !.parity = NoRank, !.container = FALSE, !.reuse = 0]
  BY DEF SuiteGone
<1>2. suite' \in [n : 0 .. MaxSuites, parity : Ranks \cup {NoRank}, container : BOOLEAN,
                 reuse : 0 .. MaxSuites]
  <2>1. 0 \in 0 .. MaxSuites
    BY SuiteAssumption
  <2>2. suite \in [n : 0 .. MaxSuites, parity : Ranks \cup {NoRank}, container : BOOLEAN,
                  reuse : 0 .. MaxSuites]
    BY DEF SuiteTyped
  <2> QED BY <1>1, <2>1, <2>2
<1>3. spc' = "idle" /\ steps' = {} /\ evidence' = {}
  BY DEF SuiteGone
<1> QED BY <1>2, <1>3 DEF SuiteTyped, Compared

LEMMA TSuiteUnchanged ==
  ASSUME SuiteTyped, UNCHANGED <<suite, spc, at, steps, evidence>>,
         ssh'.faults = ssh.faults, ssh'.hosts = ssh.hosts, ssh'.late \subseteq ssh.late
  PROVE  SuiteTyped'
BY DEF SuiteTyped, Compared

LEMMA TGate ==
  ASSUME SuiteTyped, NEW rows, Gate(rows), UNCHANGED <<suite, evidence, ssh>>,
         steps' \subseteq Scripts \X {0, 1}
  PROVE  SuiteTyped'
<1>1. spc' \in {"failed", AfterCorrectness} /\ at' = 0
  BY DEF Gate, Then, Fail
<1> QED BY <1>1, SuiteAssumption DEF AfterCorrectness, SuiteTyped, Compared

LEMMA TSuite ==
  ASSUME TInv, [CampaignNext]_campaign
  PROVE  SuiteTyped'
<1> USE DEF TInv
<1>1. CASE Wait
  <2>1. UNCHANGED <<suite, evidence, ssh, steps>> /\ steps \subseteq Scripts \X {0, 1}
    BY <1>1 DEF Wait, SuiteTyped
  <2>2. CASE Gate(verdicts[suite.reuse])
    BY <2>1, <2>2, TGate
  <2>3. CASE spc' \in {"correctness", "failed"}
    BY <2>1, <2>3 DEF SuiteTyped, Compared
  <2> QED BY <1>1, <2>2, <2>3 DEF Wait, Then, Fail
<1>2. CASE Flush
  <2>1. spc = "flush" /\ UNCHANGED <<suite, evidence, ssh, steps>> /\ at \in Nat
    BY <1>2 DEF Flush, GInv
  <2>2. \/ spc' \in {"arm", "failed"}
        \/ spc' = spc /\ at + 1 < FlushTries /\ at' = at + 1
    BY <1>2 DEF Flush, Retry, Then, Fail
  <2> QED BY <2>1, <2>2 DEF SuiteTyped, Compared
<1>3. CASE Arm \/ Disarm
  <2>1. /\ spc \in {"arm", "remove"} /\ UNCHANGED <<suite, steps, evidence>>
        /\ suite.parity \in Ranks
    BY <1>3 DEF Arm, Disarm, Ssh, SuiteTyped, Compared
  <2>2. spc' \in {"parity", "logs", "failed"}
    BY <1>3 DEF Arm, Disarm, Ssh, Then, Fail
  <2>3. \/ UNCHANGED ssh
        \/ /\ ssh.faults < MaxFaults
           /\ ssh'.faults = ssh.faults + 1 /\ ssh'.hosts = ssh.hosts \cup {suite.parity}
           /\ ssh'.late \subseteq ssh.late \cup ({"touch", "rm"} \X {suite.parity})
    BY <1>3 DEF Arm, Disarm, Ssh
  <2> QED BY <2>1, <2>2, <2>3, SuiteAssumption DEF SuiteTyped, Compared
<1>4. CASE SaveParity
  <2>1. spc = "logs" /\ UNCHANGED <<suite, steps>> /\ suite.parity \in Ranks
    BY <1>4 DEF SaveParity, SuiteTyped, Compared
  <2>2. lines[suite.parity] \subseteq 0 .. MaxSuites
    BY <2>1 DEF ServiceTyped
  <2>3. spc' \in {"retrieval", "failed"} /\ evidence' \in {evidence, lines[suite.parity]}
    BY <1>4 DEF SaveParity, Then, Fail
  <2>4. \/ UNCHANGED ssh
        \/ ssh.faults < MaxFaults /\ ssh' = [ssh EXCEPT !.faults = @ + 1]
    BY <1>4 DEF SaveParity
  <2>5. /\ ssh'.faults \in 0 .. MaxFaults
        /\ ssh'.hosts = ssh.hosts /\ ssh'.late = ssh.late
    BY <2>4, SuiteAssumption DEF SuiteTyped, DInv
  <2> QED BY <2>1, <2>2, <2>3, <2>5 DEF SuiteTyped, Compared
<1>5. ASSUME NEW s \in Scripts, Request(s)
      PROVE  SuiteTyped'
  <2>1. /\ spc = s /\ spc' \in {s, "failed"} /\ UNCHANGED <<suite, evidence, ssh>>
        /\ steps' \subseteq steps \cup {<<s, 1>>}
    BY <1>5 DEF Request, Running, Then, Fail
  <2> QED BY <2>1 DEF Scripts, SuiteTyped, Compared
<1>6. ASSUME NEW s \in Scripts, RequestFails(s)
      PROVE  SuiteTyped'
  <2>1. /\ spc = s /\ spc' = IF s = "parity" THEN "remove" ELSE "failed"
        /\ steps' = steps \cup {<<s, 1>>} /\ UNCHANGED <<suite, evidence, ssh>>
    BY <1>6 DEF RequestFails, Running, AfterFailure, Then, Fail
  <2> QED BY <2>1 DEF SuiteTyped, Compared
<1>7. ASSUME NEW s \in Scripts, Exit(s)
      PROVE  SuiteTyped'
  <2>1. /\ spc = s /\ steps' = steps \cup {<<s, 0>>} /\ UNCHANGED <<suite, evidence, ssh>>
        /\ steps' \subseteq Scripts \X {0, 1}
    BY <1>7 DEF Exit, SuiteTyped
  <2>2. CASE s = "correctness"
    BY <1>7, <2>1, <2>2, TGate DEF Exit
  <2>3. CASE s = "parity"
    <3>1. spc' = "remove"
      BY <1>7, <2>3 DEF Exit, Then
    <3> QED BY <2>1, <2>3, <3>1 DEF SuiteTyped, Compared
  <2>4. CASE s \in {"retrieval", "c1-repeat", "matrix"}
    <3>1. spc' \in {"c1-repeat", "matrix", "completed", "failed"}
      BY <1>7, <2>4 DEF Exit, Then, Fail
    <3> QED BY <2>1, <3>1 DEF SuiteTyped, Compared
  <2> QED BY <2>2, <2>3, <2>4 DEF Scripts
<1>8. CASE StartSuite
  <2>1. PICK h \in Ranks \cup {NoRank}, c \in BOOLEAN, d \in 0 .. suite.n : BeginSuite(h, c, d)
    BY <1>8 DEF StartSuite
  <2>2. /\ suite' = [n |-> suite.n + 1, parity |-> h, container |-> c, reuse |-> d]
        /\ suite.n < MaxSuites /\ suite.n \in 0 .. MaxSuites
        /\ spc' = "waiting" /\ steps' = {} /\ evidence' = {} /\ UNCHANGED ssh
    BY <2>1 DEF BeginSuite, SuiteTyped
  <2> QED BY <2>2, SuiteAssumption DEF SuiteTyped, Compared
<1>9. CASE StartJitter
  BY <1>9, TGone DEF StartJitter, SuiteTyped
<1>10. CASE NewService
  <2>1. SuiteGone /\ ssh' = [ssh EXCEPT !.hosts = {e[2] : e \in ssh.late}]
    BY <1>10 DEF NewService
  <2>2. /\ ssh'.faults = ssh.faults /\ ssh'.late = ssh.late
        /\ ssh'.hosts \subseteq Ranks
    BY <2>1 DEF SuiteTyped, DInv
  <2> QED BY <2>1, <2>2, TGone
<1>11. CASE LateSsh
  <2>1. PICK e \in ssh.late : ssh' = [ssh EXCEPT !.late = @ \ {e}]
    BY <1>11 DEF LateSsh
  <2>2. ssh'.faults = ssh.faults /\ ssh'.hosts = ssh.hosts /\ ssh'.late \subseteq ssh.late
    BY <2>1 DEF DInv
  <2> QED BY <1>11, <2>2, TSuiteUnchanged DEF LateSsh
<1>12. CASE UNCHANGED suiteVars
  BY <1>12, TSuiteUnchanged DEF suiteVars
<1> QED BY <1>1, <1>2, <1>3, <1>4, <1>5, <1>6, <1>7, <1>8, <1>9, <1>10, <1>11, <1>12
        DEF CampaignNext, Tool, SuiteStep, campaign

LEMMA TJitter ==
  ASSUME TInv, [CampaignNext]_campaign
  PROVE  JitterTyped'
<1> USE JitterAssumption DEF TInv, JitterTyped
<1>1. CASE JitterStep
  <2>1. CASE Measure
    BY <2>1 DEF Measure
  <2>2. CASE Decide \/ EndBench \/ Resized \/ Join
    BY <2>2 DEF Decide, EndBench, Leave, Resized, Join
  <2>3. CASE \E n \in Ranks : Spawn(n) \/ Terminate(n)
    BY <2>3 DEF Spawn, Terminate
  <2> QED BY <1>1, <2>1, <2>2, <2>3 DEF JitterStep
<1>2. CASE \E n \in Ranks : Reader(n)
  BY <1>2 DEF Reader, Enter, Connect, Sample, HangUp
<1>3. CASE StartSuite \/ StartJitter \/ NewService
  BY <1>3 DEF StartSuite, StartJitter, NewService, JitterGone, BeginJitter
<1>4. CASE UNCHANGED jitterVars
  BY <1>4 DEF jitterVars
<1> QED BY <1>1, <1>2, <1>3, <1>4 DEF CampaignNext, Tool, campaign

LEMMA TBooleans ==
  ASSUME TInv, [CampaignNext]_campaign
  PROVE  Booleans'
<1> USE DEF TInv, Booleans
<1>1. UNCHANGED up \/ up' = TRUE \/ up' = FALSE
  <2>1. CASE SuiteStep
    <3>1. CASE Wait \/ Flush \/ Arm \/ Disarm \/ SaveParity
      BY <3>1, Zenon DEF Wait, Flush, Arm, Disarm, Ssh, SaveParity, service
    <3>2. ASSUME NEW s \in Scripts, Request(s) \/ RequestFails(s) \/ Exit(s)
          PROVE  UNCHANGED up
      BY <3>2, Zenon DEF Request, Answers, RequestFails, Exit, service
    <3> QED BY <2>1, <3>1, <3>2, Zenon DEF SuiteStep
  <2>2. CASE JitterStep
    BY <2>2, Zenon DEF JitterStep, Decide, Measure, EndBench, Resized, Join, Spawn, Terminate,
       Answers, service
  <2>3. CASE StartSuite \/ StartJitter \/ NewService
    BY <2>3, Zenon DEF StartSuite, BeginSuite, StartJitter, BeginJitter, NewService, Relaunch,
       service
  <2>4. CASE Ready \/ Dies \/ LateSsh
    BY <2>4, Zenon DEF Ready, Dies, LateSsh
  <2>5. CASE \E n \in Ranks : Reader(n)
    BY <2>5, Zenon DEF Reader, Enter, Connect, Sample, HangUp, service
  <2>6. CASE UNCHANGED campaign
    BY <2>6, Zenon DEF campaign, service
  <2> QED BY <2>1, <2>2, <2>3, <2>4, <2>5, <2>6, Zenon DEF CampaignNext, Tool
<1>2. UNCHANGED retrieved \/ retrieved' = TRUE \/ retrieved' \in BOOLEAN
  <2>1. CASE SuiteStep
    <3>1. CASE Wait \/ Flush \/ Arm \/ Disarm \/ SaveParity
      BY <3>1, Zenon DEF Wait, Flush, Arm, Disarm, Ssh, SaveParity
    <3>2. ASSUME NEW s \in Scripts, RequestFails(s) \/ Exit(s)
          PROVE  UNCHANGED retrieved
      BY <3>2, Zenon DEF RequestFails, Exit
    <3>3. ASSUME NEW s \in Scripts, Request(s)
          PROVE  retrieved' \in BOOLEAN
      <4>1. retrieved' = (retrieved /\ (s = "retrieval" => Script[s][at + 1] \notin wrong))
        BY <3>3, Zenon DEF Request, Retrieves
      <4> QED BY <4>1, Zenon
    <3> QED BY <2>1, <3>1, <3>2, <3>3, Zenon DEF SuiteStep
  <2>2. CASE UNCHANGED suiteVars
    BY <2>2, Zenon DEF suiteVars
  <2>3. CASE StartSuite \/ StartJitter \/ NewService \/ LateSsh
    BY <2>3, Zenon DEF StartSuite, BeginSuite, StartJitter, NewService, SuiteGone, LateSsh
  <2> QED BY <2>1, <2>2, <2>3, Zenon DEF CampaignNext, Tool, campaign
<1>3. UNCHANGED ok \/ ok' = TRUE \/ ok' = FALSE
  <2>1. CASE JitterStep
    BY <2>1, Zenon DEF JitterStep, Decide, Leave, Measure, EndBench, Resized, Join, Spawn, Terminate
  <2>2. CASE \E n \in Ranks : Reader(n)
    BY <2>2, Zenon DEF Reader, Enter, Connect, Sample, HangUp
  <2>3. CASE StartSuite \/ StartJitter \/ NewService
    BY <2>3, Zenon DEF StartSuite, StartJitter, BeginJitter, NewService, JitterGone
  <2>4. CASE UNCHANGED jitterVars
    BY <2>4, Zenon DEF jitterVars
  <2> QED BY <2>1, <2>2, <2>3, <2>4, Zenon DEF CampaignNext, Tool, campaign
<1> QED BY <1>1, <1>2, <1>3, Zenon

\* Every variable holds a value of its kind, for any number of ranks, suites, prompts
\* and faults; in particular no more is sent, tried or lost than the limits allow.
THEOREM CampaignTyped == CampaignSpec => []TypeOK
<1>1. CampaignInit => TInv
  BY JInit, DInit, GInit, TInit DEF CampaignInit, TInv
<1>2. TInv /\ [CampaignNext]_campaign => TInv'
  BY JNext, DNext, GNext, TService, TSuite, TJitter, TBooleans DEF TInv
<1>3. TInv => TypeOK
  <2> SUFFICES ASSUME TInv
               PROVE  TypeOK
    OBVIOUS
  <2>1. Booleans
    BY DEF TInv
  <2>2. up \in BOOLEAN /\ retrieved \in BOOLEAN /\ ok \in BOOLEAN
    BY <2>1, Zenon DEF Booleans
  <2>3. /\ ServiceTyped /\ SuiteTyped /\ JitterTyped
        /\ at \in Nat /\ verdicts \in [1 .. MaxSuites -> Seq(BOOLEAN)]
        /\ spc \in SuiteEnded \cup Scripts \cup {"waiting", "flush", "arm", "remove", "logs"}
    BY DEF TInv, GInv, GChecked, Before, Compared, TimedSteps, Scripts, SuiteEnded
  <2>4. /\ jpc \in JitterEnded \cup {"spawn", "wait", "bench", "finally"}
        /\ reader \in [Ranks -> {"none", "started", "entered", "reading", "ended"}]
        /\ ready \subseteq procs /\ killed \subseteq loop /\ procs \subseteq Ranks
    BY DEF TInv, JInv
  <2> QED BY <2>2, <2>3, <2>4 DEF TypeOK, ServiceTyped, SuiteTyped, JitterTyped
<1> QED BY <1>1, <1>2, <1>3, PTL DEF CampaignSpec

(***************************************************************************)
(* The matrix: its jobs                                                    *)
(***************************************************************************)
PointsBefore(j) ==
  IF j <= Warmups + Cells THEN 0
  ELSE IF WarmPrefill THEN (j - 1 - Warmups - Cells) \div 2 ELSE j - 1 - Warmups - Cells

LEMMA MCounts ==
  /\ Warmups \in Nat /\ Warmups >= 1 /\ Warmups <= Len(Cats)
  /\ Len(Cats) \in Nat /\ Len(AllCats) = Len(Cats) + 1 /\ Len(Levels) \in Nat
  /\ Cells = Len(Levels) * Len(AllCats) /\ Cells \in Nat
  /\ LastJob = Warmups + Cells + (IF WarmPrefill THEN 2 * Targets ELSE Targets)
  /\ LastJob \in Nat /\ LastJob >= Warmups + Cells
<1>1. PICK S : Cats \in Seq(S) /\ Cats # <<>>
  BY MatrixAssumption
<1>2. Len(Cats) \in Nat /\ Len(Cats) >= 1 /\ Len(AllCats) = Len(Cats) + 1
  <2>1. Len(Cats) \in Nat /\ Len(Cats) >= 1
    BY <1>1
  <2>2. Len(AllCats) = Len(Cats) + 1
    BY <1>1 DEF AllCats
  <2> QED BY <2>1, <2>2
<1>3. Len(Levels) \in Nat
  BY MatrixAssumption
<1>4. Len(Levels) * Len(AllCats) \in Nat
  BY <1>2, <1>3
<1>5. Targets * PerTarget = IF WarmPrefill THEN 2 * Targets ELSE Targets
  BY MatrixAssumption DEF PerTarget
<1>6. Warmups \in Nat /\ Warmups >= 1 /\ Warmups <= Len(Cats)
  BY <1>2 DEF Warmups
<1>7. Targets \in Nat
  BY MatrixAssumption
<1> QED BY <1>2, <1>3, <1>4, <1>5, <1>6, <1>7 DEF Cells, LastJob

LEMMA Divided ==
  ASSUME NEW x \in Nat, NEW n \in Nat \ {0}, NEW m \in Nat, x < m * n
  PROVE  (x \div n) + 1 \in 1 .. m /\ (x % n) + 1 \in 1 .. n
<1>1. x \div n \in Nat /\ x % n \in 0 .. n - 1 /\ x = n * (x \div n) + (x % n)
  OBVIOUS
<1> DEFINE q == x \div n
<1>2. q \in Nat /\ n * q <= x
  BY <1>1
<1> HIDE DEF q
<1>3. q < m
  <2> SUFFICES ASSUME q >= m
               PROVE  FALSE
    BY <1>2
  <2>1. PICK d \in Nat : q = m + d
    BY <1>2
  <2>2. n * q = n * m + n * d /\ n * d \in Nat /\ n * m = m * n /\ m * n \in Nat
    BY <2>1
  <2> QED BY <1>2, <2>2
<1> QED BY <1>1, <1>2, <1>3 DEF q

LEMMA MKinds ==
  ASSUME NEW j \in Nat
  PROVE  /\ j <= Warmups <=> Kind(j) = "warm"
         /\ Warmups < j /\ j <= Warmups + Cells <=> Kind(j) = "cell"
         /\ Warmups + Cells < j <=> Kind(j) \in {"shape", "prefill"}
         /\ Kind(j) = "shape" => WarmPrefill /\ (j - Warmups - Cells) % 2 = 1
         /\ Kind(j) = "prefill" => ~WarmPrefill \/ (j - Warmups - Cells) % 2 = 0
BY MCounts DEF Kind

LEMMA MLevel ==
  ASSUME NEW j \in 1 .. LastJob
  PROVE  Level(j) \in Nat /\ (Kind(j) # "cell" => Level(j) = 1)
<1>1. CASE Kind(j) = "cell"
  <2> DEFINE x == j - Warmups - 1
  <2>1. x \in Nat /\ x < Len(Levels) * Len(AllCats) /\ Len(AllCats) \in Nat \ {0}
    BY <1>1, MCounts, MKinds
  <2>2. (x \div Len(AllCats)) + 1 \in 1 .. Len(Levels)
    BY <2>1, MCounts, Divided
  <2> QED BY <1>1, <2>2, MatrixAssumption DEF Level
<1> QED BY <1>1 DEF Level

LEMMA MCat ==
  ASSUME NEW k \in 1 .. Cells
  PROVE  Cat(Warmups + k) \in {AllCats[i] : i \in DOMAIN AllCats}
<1>0. PICK j \in Nat : j = Warmups + k
  BY MCounts
<1>1. /\ j - Warmups - 1 \in Nat /\ j - Warmups - 1 < Len(Levels) * Len(AllCats)
      /\ Len(AllCats) \in Nat \ {0}
  BY <1>0, MCounts
<1>2. ((j - Warmups - 1) % Len(AllCats)) + 1 \in 1 .. Len(AllCats)
  BY <1>1, MCounts, Divided
<1>3. Kind(j) = "cell"
  BY <1>0, MCounts, MKinds
<1>4. DOMAIN AllCats = 1 .. Len(AllCats)
  <2>1. PICK S : Cats \in Seq(S)
    BY MatrixAssumption
  <2> QED BY <2>1 DEF AllCats
<1>5. Cat(j) = AllCats[((j - Warmups - 1) % Len(AllCats)) + 1]
  BY <1>3 DEF Cat
<1> QED BY <1>0, <1>2, <1>4, <1>5

LEMMA MAhead ==
  ASSUME NEW j \in 1 .. LastJob
  PROVE  /\ Kind(j) = "cell" => /\ CellsBefore(j + 1) = CellsBefore(j) + 1
                                /\ Warmups + CellsBefore(j) + 1 = j
         /\ Kind(j) # "cell" => CellsBefore(j + 1) = CellsBefore(j)
         /\ Kind(j) = "prefill" => PointsBefore(j + 1) = PointsBefore(j) + 1
         /\ Kind(j) # "prefill" => PointsBefore(j + 1) = PointsBefore(j)
<1>1. CASE j <= Warmups + Cells
  <2>1. Kind(j) \in {"warm", "cell"} /\ (Kind(j) = "cell" <=> Warmups < j)
    BY <1>1, MCounts, MKinds
  <2>2. PointsBefore(j) = 0 /\ PointsBefore(j + 1) = 0
    <3>1. (j + 1 - 1 - Warmups - Cells) <= 0 /\ j + 1 <= Warmups + Cells + 1
      BY <1>1, MCounts
    <3>2. j + 1 > Warmups + Cells => j + 1 - 1 - Warmups - Cells = 0
      BY <1>1, MCounts
    <3>3. 0 \div 2 = 0
      OBVIOUS
    <3> QED BY <1>1, <3>2, <3>3, MCounts DEF PointsBefore
  <2>3. CellsBefore(j) = (IF Warmups < j THEN j - Warmups - 1 ELSE 0)
    BY <1>1, MCounts DEF CellsBefore
  <2>4. CellsBefore(j + 1) = (IF Warmups < j THEN j - Warmups ELSE 0)
    BY <1>1, MCounts DEF CellsBefore
  <2> QED BY <2>1, <2>2, <2>3, <2>4, MCounts
<1>2. CASE j > Warmups + Cells
  <2>1. CellsBefore(j + 1) = Cells /\ CellsBefore(j) = Cells
    BY <1>2, MCounts DEF CellsBefore
  <2>2. Kind(j) \in {"shape", "prefill"}
    BY <1>2, MKinds
  <2>3. CASE WarmPrefill
    <3>1. Kind(j) = "shape" => (j - Warmups - Cells) % 2 = 1
      BY MKinds
    <3>2. Kind(j) = "prefill" => (j - Warmups - Cells) % 2 = 0
      BY <2>3, MKinds
    <3> QED BY <1>2, <2>1, <2>2, <2>3, <3>1, <3>2, MCounts, SMTT(30) DEF PointsBefore
  <2>4. CASE ~WarmPrefill
    <3>1. Kind(j) = "prefill"
      BY <2>2, <2>4, MKinds
    <3> QED BY <1>2, <2>1, <2>4, <3>1, MCounts DEF PointsBefore
  <2> QED BY <2>3, <2>4
<1> QED BY <1>1, <1>2, MCounts

LEMMA MEnds ==
  /\ CellsBefore(1) = 0 /\ PointsBefore(1) = 0
  /\ CellsBefore(LastJob + 1) = Cells /\ PointsBefore(LastJob + 1) = Targets
<1>1. CellsBefore(1) = 0 /\ PointsBefore(1) = 0
  BY MCounts DEF CellsBefore, PointsBefore
<1>2. CellsBefore(LastJob + 1) = Cells
  BY MCounts DEF CellsBefore
<1>3. Targets \in Nat
  BY MatrixAssumption
<1>4. CASE WarmPrefill
  <2>1. LastJob + 1 > Warmups + Cells /\ LastJob + 1 - 1 - Warmups - Cells = 2 * Targets
    BY <1>3, <1>4, MCounts
  <2>2. (2 * Targets) \div 2 = Targets
    BY <1>3
  <2>3. ~(LastJob + 1 <= Warmups + Cells)
    BY <2>1, MCounts
  <2> QED BY <1>1, <1>2, <1>4, <2>1, <2>2, <2>3, MCounts, SMTT(30) DEF PointsBefore
<1>5. CASE ~WarmPrefill
  <2>1. LastJob + 1 > Warmups + Cells /\ LastJob + 1 - 1 - Warmups - Cells = Targets
    BY <1>3, <1>5, MCounts
  <2>2. ~(LastJob + 1 <= Warmups + Cells)
    BY <2>1, MCounts
  <2> QED BY <1>1, <1>2, <1>3, <1>5, <2>1, <2>2, MCounts DEF PointsBefore
<1> QED BY <1>1, <1>2, <1>4, <1>5

LEMMA MGrows ==
  ASSUME NEW j \in Nat
  PROVE  CellsBefore(j) \in Nat /\ CellsBefore(j) <= CellsBefore(j + 1)
BY MCounts DEF CellsBefore

(***************************************************************************)
(* The matrix: its results                                                 *)
(***************************************************************************)
\* Results are backed by receipts, and whole when they say they are complete.
CellBacked(f, k, receipts) ==
  /\ DOMAIN f.cells[k] = Streams(Warmups + k)
  /\ \A i \in DOMAIN f.cells[k] :
       /\ f.cells[k][i].check \in CheckResults(Cat(Warmups + k))
       /\ [run |-> f.run, job |-> Warmups + k, stream |-> i] \in receipts
PointsBacked(f, points, receipts) ==
  \A p \in DOMAIN points : [run |-> f.run, job |-> points[p], stream |-> 1] \in receipts
Backed(f, receipts) ==
  /\ \A k \in DOMAIN f.cells : CellBacked(f, k, receipts)
  /\ PointsBacked(f, f.prefill, receipts) /\ PointsBacked(f, f.shapes, receipts)

CellClean(f, k) == \A i \in DOMAIN f.cells[k] : f.cells[k][i].check # "false"
AllClean(f) == \A k \in DOMAIN f.cells : CellClean(f, k)
Whole(f) == Len(f.cells) = Cells /\ Len(f.prefill) = Targets /\ AllClean(f)

Sound(f, receipts) ==
  f \in Results /\ Backed(f, receipts) /\ (f.status = "completed" => Whole(f))

\* How far the results are when the jobs before j have been kept.
UpTo(f, j) == Len(f.cells) = CellsBefore(j) /\ Len(f.prefill) = PointsBefore(j)

\* Only the cell that was added last may hold an answer that failed its check.
CleanButLast(f, j) ==
  \A k \in DOMAIN f.cells : CellClean(f, k) \/ (Kind(j) = "cell" /\ k = Len(f.cells))

LEMMA MEmpty ==
  ASSUME NEW n \in Nat, NEW receipts
  PROVE  /\ Empty(n) \in Results /\ Sound(Empty(n), receipts) /\ UpTo(Empty(n), 1)
         /\ Empty(n).run = n /\ Empty(n).status = "running" /\ CleanButLast(Empty(n), 0)
<1>1. Empty(n) \in Results
  BY DEF Empty, Results
<1>2. /\ Empty(n).run = n /\ Empty(n).status = "running" /\ Empty(n).cells = <<>>
      /\ Empty(n).prefill = <<>> /\ Empty(n).shapes = <<>>
  BY DEF Empty
<1> QED BY <1>1, <1>2, MEnds DEF Sound, Backed, PointsBacked, UpTo, CleanButLast

\* Receipts are never taken back.
LEMMA MMore ==
  ASSUME NEW f, NEW A, NEW B, Sound(f, A), A \subseteq B
  PROVE  Sound(f, B)
BY DEF Sound, Backed, CellBacked, PointsBacked

\* What main() does to its results.
StatusSet(f, g, s) == g = [f EXCEPT !.status = s]
CellAdded(f, g, a) == g = [f EXCEPT !.cells = Append(@, a)]
PointAdded(f, g, j) ==
  \/ Kind(j) = "prefill" /\ g = [f EXCEPT !.prefill = Append(@, j)]
  \/ Kind(j) = "shape" /\ g = [f EXCEPT !.shapes = Append(@, j)]

LEMMA MStatus ==
  ASSUME NEW f, NEW R, Sound(f, R), NEW s \in {"running", "stopped", "completed"},
         s = "completed" => Whole(f), NEW g, StatusSet(f, g, s)
  PROVE  /\ Sound(g, R) /\ g.status = s /\ g.run = f.run /\ g.cells = f.cells
         /\ g.prefill = f.prefill /\ g.shapes = f.shapes
<1>1. f \in Results /\ Backed(f, R)
  BY DEF Sound
<1>2. /\ g \in Results /\ g.status = s /\ g.run = f.run /\ g.cells = f.cells
      /\ g.prefill = f.prefill /\ g.shapes = f.shapes
  BY <1>1 DEF Results, StatusSet
<1>3. Backed(g, R)
  BY <1>1, <1>2 DEF Backed, CellBacked, PointsBacked
<1>4. Whole(f) => Whole(g)
  BY <1>2 DEF Whole, AllClean, CellClean
<1> QED BY <1>2, <1>3, <1>4 DEF Sound

LEMMA Longer ==
  ASSUME NEW S, NEW q \in Seq(S), NEW e \in S
  PROVE  /\ Append(q, e) \in Seq(S) /\ Len(Append(q, e)) = Len(q) + 1
         /\ DOMAIN Append(q, e) = 1 .. Len(q) + 1 /\ DOMAIN q = 1 .. Len(q) /\ Len(q) \in Nat
         /\ \A k \in 1 .. Len(q) : Append(q, e)[k] = q[k]
         /\ Append(q, e)[Len(q) + 1] = e
OBVIOUS

\* A cell whose answers are backed is added.
LEMMA MCell ==
  ASSUME NEW f, NEW R, Sound(f, R), f.status = "running", AllClean(f),
         NEW a \in Seq(AnswerRecords), NEW g, CellAdded(f, g, a),
         NEW j \in 1 .. LastJob, Kind(j) = "cell", UpTo(f, j), DOMAIN a = Streams(j),
         \A i \in DOMAIN a : /\ a[i].check \in CheckResults(Cat(j))
                             /\ [run |-> f.run, job |-> j, stream |-> i] \in R
  PROVE  /\ Sound(g, R) /\ g.run = f.run /\ g.status = "running"
         /\ UpTo(g, j + 1) /\ CleanButLast(g, j)
<1>1. f \in Results /\ Backed(f, R) /\ f.cells \in Seq(Seq(AnswerRecords))
  BY DEF Sound, Results
<1>2. /\ g.run = f.run /\ g.status = "running" /\ g.cells = Append(f.cells, a)
      /\ g.prefill = f.prefill /\ g.shapes = f.shapes
  BY <1>1 DEF Results, CellAdded
<1>3. /\ g.cells \in Seq(Seq(AnswerRecords)) /\ Len(g.cells) = Len(f.cells) + 1
      /\ DOMAIN g.cells = 1 .. Len(f.cells) + 1 /\ DOMAIN f.cells = 1 .. Len(f.cells)
      /\ Len(f.cells) \in Nat
      /\ \A k \in 1 .. Len(f.cells) : g.cells[k] = f.cells[k]
      /\ g.cells[Len(f.cells) + 1] = a
  BY <1>1, <1>2, Longer
<1>4. g \in Results
  BY <1>1, <1>3 DEF Results, CellAdded
<1>5. Warmups + (Len(f.cells) + 1) = j
  BY <1>3, MAhead, MCounts DEF UpTo
<1>6. ASSUME NEW k \in DOMAIN g.cells
      PROVE  CellBacked(g, k, R) /\ (CellClean(g, k) \/ k = Len(g.cells))
  <2>1. CASE k \in 1 .. Len(f.cells)
    <3>1. CellBacked(f, k, R) /\ CellClean(f, k)
      BY <1>1, <1>3, <2>1 DEF Backed, AllClean
    <3> QED BY <1>2, <1>3, <2>1, <3>1 DEF CellBacked, CellClean
  <2>2. CASE k = Len(f.cells) + 1
    <3>1. g.cells[k] = a /\ Warmups + k = j
      BY <1>3, <1>5, <2>2
    <3> QED BY <1>2, <1>3, <2>2, <3>1 DEF CellBacked
  <2> QED BY <1>3, <2>1, <2>2
<1>7. Backed(g, R)
  BY <1>1, <1>2, <1>6 DEF Backed, PointsBacked
<1>8. UpTo(g, j + 1)
  BY <1>2, <1>3, MAhead DEF UpTo
<1> QED BY <1>2, <1>4, <1>6, <1>7, <1>8 DEF Sound, CleanButLast

\* A prefill point, or what warmed its shape, is added.
LEMMA MPoint ==
  ASSUME NEW f, NEW R, Sound(f, R), f.status = "running", AllClean(f), NEW g,
         NEW j \in 1 .. LastJob, UpTo(f, j), [run |-> f.run, job |-> j, stream |-> 1] \in R,
         PointAdded(f, g, j)
  PROVE  /\ Sound(g, R) /\ g.run = f.run /\ g.status = "running"
         /\ UpTo(g, j + 1) /\ CleanButLast(g, j)
<1>1. /\ f \in Results /\ Backed(f, R) /\ f.prefill \in Seq(Nat) /\ f.shapes \in Seq(Nat)
      /\ j \in Nat
  BY DEF Sound, Results
<1>2. /\ g.run = f.run /\ g.status = "running" /\ g.cells = f.cells
      /\ g.prefill = (IF Kind(j) = "prefill" THEN Append(f.prefill, j) ELSE f.prefill)
      /\ g.shapes = (IF Kind(j) = "shape" THEN Append(f.shapes, j) ELSE f.shapes)
      /\ DOMAIN g = DOMAIN f
  BY <1>1 DEF Results, PointAdded
<1>3. ASSUME NEW q \in Seq(Nat), PointsBacked(f, q, R)
      PROVE  /\ Append(q, j) \in Seq(Nat) /\ Len(Append(q, j)) = Len(q) + 1
             /\ PointsBacked(f, Append(q, j), R)
  <2>1. /\ Append(q, j) \in Seq(Nat) /\ Len(Append(q, j)) = Len(q) + 1
        /\ DOMAIN Append(q, j) = 1 .. Len(q) + 1 /\ DOMAIN q = 1 .. Len(q) /\ Len(q) \in Nat
        /\ \A k \in 1 .. Len(q) : Append(q, j)[k] = q[k]
        /\ Append(q, j)[Len(q) + 1] = j
    BY <1>1, Longer
  <2>2. ASSUME NEW p \in 1 .. Len(q) + 1
        PROVE  [run |-> f.run, job |-> Append(q, j)[p], stream |-> 1] \in R
    <3>1. CASE p \in 1 .. Len(q)
      BY <1>3, <2>1, <3>1 DEF PointsBacked
    <3>2. CASE p = Len(q) + 1
      BY <2>1, <3>2
    <3> QED BY <2>1, <3>1, <3>2
  <2> QED BY <2>1, <2>2 DEF PointsBacked
<1>4. PointsBacked(f, f.prefill, R) /\ PointsBacked(f, f.shapes, R)
  BY <1>1 DEF Backed
<1>5. g.prefill \in Seq(Nat) /\ g.shapes \in Seq(Nat)
  BY <1>1, <1>2, <1>3, <1>4
<1>6. g \in Results
  <2>1. f.cells \in Seq(Seq(AnswerRecords)) /\ f.run \in Nat
    BY <1>1 DEF Results
  <2>2. g = [run |-> g.run, status |-> g.status, cells |-> g.cells, prefill |-> g.prefill,
             shapes |-> g.shapes]
    BY <1>1 DEF Results, PointAdded
  <2> QED BY <1>2, <1>5, <2>1, <2>2 DEF Results
<1>7. PointsBacked(f, g.prefill, R) /\ PointsBacked(f, g.shapes, R)
  BY <1>1, <1>2, <1>3, <1>4
<1>8. Backed(g, R)
  BY <1>1, <1>2, <1>7 DEF Backed, CellBacked, PointsBacked
<1>9. Len(g.prefill) = Len(f.prefill) + (IF Kind(j) = "prefill" THEN 1 ELSE 0)
  <2>1. Len(f.prefill) \in Nat
    BY <1>1
  <2>2. CASE Kind(j) = "prefill"
    <3>1. Len(Append(f.prefill, j)) = Len(f.prefill) + 1
      BY <1>1, <1>3, <1>4
    <3> QED BY <1>2, <2>2, <3>1
  <2>3. CASE Kind(j) # "prefill"
    BY <1>2, <2>1, <2>3
  <2> QED BY <2>2, <2>3
<1>10. UpTo(g, j + 1)
  <2>1. Kind(j) # "cell" /\ Len(f.prefill) \in Nat
    BY <1>1 DEF PointAdded
  <2>2. Len(g.cells) = CellsBefore(j + 1)
    BY <1>2, <2>1, MAhead DEF UpTo
  <2>3. Len(g.prefill) = PointsBefore(j + 1)
    BY <1>9, <2>1, MAhead DEF UpTo
  <2> QED BY <2>2, <2>3 DEF UpTo
<1>11. CleanButLast(g, j)
  BY <1>2 DEF AllClean, CellClean, CleanButLast
<1> QED BY <1>2, <1>6, <1>8, <1>10, <1>11 DEF Sound

(***************************************************************************)
(* The matrix: its runs                                                    *)
(***************************************************************************)
InFile ==
  /\ file \notin {NoFile, Partial}
  /\ file.cells = res.cells /\ file.prefill = res.prefill /\ file.shapes = res.shapes

\* The job under way: a stream that has answered has left a receipt.
UnderWay ==
  /\ job \in 1 .. LastJob /\ DOMAIN stream = Streams(job)
  /\ got \in [Streams(job) -> AnswerRecords]
  /\ \A i \in DOMAIN stream : stream[i] = "answered" =>
       /\ got[i].check \in CheckResults(Cat(job))
       /\ [run |-> run, job |-> job, stream |-> i] \in raw

Position ==
  /\ run \in 0 .. MaxRuns /\ job \in 0 .. LastJob
  /\ pc \in Ended \cup {"save", "write", "judge", "next", "batch"}
  /\ \A i \in DOMAIN stream : stream[i] \in {"queued", "waiting", "sent", "answered", "error"}
  /\ pc = "batch" => UnderWay

Progress ==
  /\ pc \in {"save", "write", "judge", "next"} => UpTo(res, job + 1)
  /\ pc = "batch" => UpTo(res, job)
  /\ pc \in {"judge", "next", "batch"} => res.status = "running" /\ InFile
  /\ pc \in {"next", "batch"} => AllClean(res)
  /\ pc \in {"save", "write"} /\ res.status = "running" => CleanButLast(res, job)
  /\ pc \in {"failed", "stopped", "completed"} => InFile /\ Len(res.cells) >= CellsBefore(job)

Kept ==
  /\ res.run = run /\ Sound(res, raw)
  /\ file \notin {NoFile, Partial} => Sound(file, raw)

MInv == Position /\ Progress /\ CellIsolated /\ Kept

LEMMA MInit == Init => MInv
<1> SUFFICES ASSUME Init
             PROVE  MInv
  OBVIOUS
<1> USE DEF Init
<1>1. Position
  BY MatrixAssumption, MCounts DEF Position, Ended
<1>2. res.run = run /\ Sound(res, raw)
  BY MEmpty
<1>3. Progress /\ CellIsolated /\ Kept
  BY <1>2 DEF Progress, CellIsolated, Kept
<1> QED BY <1>1, <1>3 DEF MInv

LEMMA MBegin ==
  ASSUME MInv, Begin
  PROVE  MInv'
<1>1. /\ run < MaxRuns /\ run \in Nat /\ run' = run + 1 /\ pc' = "save" /\ job' = 0
      /\ res' = Empty(run') /\ DOMAIN stream' = {} /\ UNCHANGED <<file, raw>>
  BY DEF Begin, Forget, MInv, Position
<1>2. /\ Sound(res', raw) /\ UpTo(res', 1) /\ res'.run = run' /\ res'.status = "running"
      /\ CleanButLast(res', 0)
  BY <1>1, MEmpty
<1>3. Position'
  BY <1>1, MatrixAssumption, MCounts DEF Position
<1>4. Progress'
  BY <1>1, <1>2 DEF Progress
<1>5. CellIsolated' /\ Kept'
  BY <1>1, <1>2 DEF CellIsolated, Kept, MInv
<1> QED BY <1>3, <1>4, <1>5 DEF MInv

LEMMA MTruncate ==
  ASSUME MInv, Truncate
  PROVE  MInv'
<1> USE DEF Truncate, MInv
<1>1. Position' /\ CellIsolated'
  BY DEF Position, CellIsolated
<1>2. Progress' /\ Kept'
  BY DEF Progress, Kept
<1> QED BY <1>1, <1>2

\* What is written is results, not one of the two things that are none.
LEMMA MWrite ==
  ASSUME MInv, Write
  PROVE  MInv'
<1>1. /\ pc = "write" /\ file' = res /\ UNCHANGED <<run, job, stream, got, res, raw>>
      /\ Sound(res, raw) /\ res \in Results /\ job \in Nat
  BY MCounts DEF Write, MInv, Kept, Sound, Position
<1>2. res \notin {NoFile, Partial} /\ res.status \in {"running", "stopped", "completed"}
  BY <1>1, FileAssumption DEF Results
<1>3. InFile'
  BY <1>1, <1>2 DEF InFile
<1>4. UpTo(res, job + 1) /\ (res.status = "running" => CleanButLast(res, job))
  BY <1>1 DEF MInv, Progress
<1>5. Len(res.cells) >= CellsBefore(job)
  BY <1>1, <1>4, MGrows DEF UpTo
<1>6. Kept' /\ CellIsolated'
  BY <1>1 DEF MInv, Kept, CellIsolated, Write
<1>7. CASE res.status # "running"
  <2>1. pc' = res.status
    BY <1>7 DEF Write
  <2> QED BY <1>1, <1>2, <1>3, <1>5, <1>6, <1>7, <2>1 DEF MInv, Position, Progress, Ended
<1>8. CASE res.status = "running" /\ Kind(job) = "cell" /\ Spoiled(res)
  <2>1. pc' = "judge"
    BY <1>8 DEF Write
  <2> QED BY <1>1, <1>3, <1>4, <1>6, <1>8, <2>1 DEF MInv, Position, Progress, Ended
<1>9. CASE res.status = "running" /\ ~(Kind(job) = "cell" /\ Spoiled(res))
  <2>1. pc' = "next"
    BY <1>9 DEF Write
  <2>2. AllClean(res)
    <3> SUFFICES ASSUME NEW k \in DOMAIN res.cells, ~CellClean(res, k)
                 PROVE  FALSE
      BY DEF AllClean
    <3>1. Kind(job) = "cell" /\ k = Len(res.cells)
      BY <1>4, <1>9 DEF CleanButLast
    <3>2. res.cells # <<>>
      OBVIOUS
    <3>3. Spoiled(res)
      BY <3>1, <3>2 DEF Spoiled, CellClean
    <3> QED BY <1>9, <3>1, <3>3
  <2> QED BY <1>1, <1>3, <1>4, <1>6, <1>9, <2>1, <2>2 DEF MInv, Position, Progress, Ended
<1> QED BY <1>7, <1>8, <1>9

LEMMA MStop ==
  ASSUME MInv, Stop
  PROVE  MInv'
<1>1. /\ pc = "judge" /\ pc' = "save" /\ StatusSet(res, res', "stopped")
      /\ UNCHANGED <<run, job, stream, got, file, raw>>
      /\ Sound(res, raw) /\ UpTo(res, job + 1)
  BY DEF Stop, StatusSet, MInv, Kept, Progress
<1>2. /\ Sound(res', raw) /\ res'.status = "stopped" /\ res'.run = res.run
      /\ res'.cells = res.cells /\ res'.prefill = res.prefill /\ res'.shapes = res.shapes
  BY <1>1, MStatus
<1>3. UpTo(res', job + 1)
  BY <1>1, <1>2 DEF UpTo
<1> QED BY <1>1, <1>2, <1>3 DEF MInv, Position, Progress, CellIsolated, Kept, Ended

LEMMA MStart ==
  ASSUME MInv, StartJob
  PROVE  MInv'
<1>1. /\ pc = "next" /\ pc' = "batch" /\ job' = job + 1 /\ job \in Nat /\ job < LastJob
      /\ UNCHANGED <<run, res, file, raw>>
      /\ stream' = [i \in Streams(job') |->
                      IF Kind(job') \in {"shape", "prefill"} THEN "sent" ELSE "queued"]
      /\ got' = [i \in Streams(job') |-> NoAnswer]
  BY MCounts DEF StartJob, MInv, Position
<1>2. job' \in 1 .. LastJob
  BY <1>1, MCounts
<1>3. NoAnswer \in AnswerRecords
  BY DEF NoAnswer, AnswerRecords, Timings
<1>4. UnderWay'
  BY <1>1, <1>2, <1>3 DEF UnderWay
<1>5. Position' /\ CellIsolated'
  BY <1>1, <1>2, <1>4 DEF MInv, Position, CellIsolated
<1>6. Progress' /\ Kept'
  BY <1>1 DEF MInv, Progress, Kept, InFile
<1> QED BY <1>5, <1>6 DEF MInv

LEMMA MFinish ==
  ASSUME MInv, Finish
  PROVE  MInv'
<1>1. /\ pc = "next" /\ job = LastJob /\ pc' \in {"save", "failed"}
      /\ StatusSet(res, res', "completed") /\ UNCHANGED <<run, job, stream, got, file, raw>>
      /\ Sound(res, raw) /\ UpTo(res, job + 1) /\ AllClean(res) /\ InFile
  BY DEF Finish, StatusSet, MInv, Kept, Progress
<1>2. Whole(res)
  BY <1>1, MEnds DEF UpTo, Whole
<1>3. /\ Sound(res', raw) /\ res'.status = "completed" /\ res'.run = res.run
      /\ res'.cells = res.cells /\ res'.prefill = res.prefill /\ res'.shapes = res.shapes
  BY <1>1, <1>2, MStatus
<1>4. UpTo(res', job + 1)
  BY <1>1, <1>3 DEF UpTo
<1>5. Len(res'.cells) >= CellsBefore(job)
  BY <1>1, <1>4, MCounts, MGrows DEF UpTo
<1>6. InFile'
  BY <1>1, <1>3 DEF InFile
<1> QED BY <1>1, <1>3, <1>4, <1>5, <1>6 DEF MInv, Position, Progress, CellIsolated, Kept, Ended

\* A stream moves: the results and the file stay, receipts are only added.
LEMMA MStream ==
  ASSUME MInv, pc = "batch", UNCHANGED <<run, pc, job, res, file>>, raw \subseteq raw',
         UnderWay', CellIsolated',
         \A i \in DOMAIN stream' : stream'[i] \in {"queued", "waiting", "sent", "answered", "error"}
  PROVE  MInv'
<1>1. Position'
  BY DEF MInv, Position
<1>2. Progress'
  BY DEF MInv, Progress, InFile
<1>3. Kept'
  BY MMore DEF MInv, Kept
<1> QED BY <1>1, <1>2, <1>3 DEF MInv

LEMMA MBatch ==
  ASSUME MInv,
         \/ Release
         \/ \E i \in DOMAIN stream : Arrive(i) \/ Answer(i) \/ Error(i)
  PROVE  MInv'
<1>0. pc = "batch" /\ UnderWay /\ CellIsolated /\ Position
  BY DEF MInv, Position, Release, Arrive, Answer, Error
<1>1. CASE Release
  <2>1. /\ UNCHANGED <<run, pc, job, got, res, file, raw>>
        /\ stream' = [i \in DOMAIN stream |-> IF i \in Waiting THEN "sent" ELSE stream[i]]
        /\ Waiting = DOMAIN stream
    BY <1>0, <1>1 DEF Release, BarrierFull, UnderWay
  <2>2. stream' = [i \in DOMAIN stream |-> "sent"]
    BY <2>1
  <2>3. UnderWay' /\ CellIsolated'
    BY <1>0, <2>1, <2>2 DEF UnderWay, CellIsolated
  <2> QED BY <1>0, <2>1, <2>2, <2>3, MStream
<1>2. ASSUME NEW i \in DOMAIN stream, Arrive(i)
      PROVE  MInv'
  <2>1. /\ UNCHANGED <<run, pc, job, got, res, file, raw>> /\ stream[i] = "queued"
        /\ stream' = [stream EXCEPT ![i] = "waiting"]
    BY <1>2 DEF Arrive
  <2>2. UnderWay' /\ CellIsolated'
    BY <1>0, <2>1 DEF UnderWay, CellIsolated
  <2> QED BY <1>0, <2>1, <2>2, MStream DEF Position
<1>3. ASSUME NEW i \in DOMAIN stream, Answer(i)
      PROVE  MInv'
  <2>1. PICK check \in CheckResults(Cat(job)), timing \in Timings :
          got' = [got EXCEPT ![i] = [check |-> check, timing |-> timing]]
    BY <1>3 DEF Answer
  <2>2. /\ UNCHANGED <<run, pc, job, res, file>> /\ stream[i] = "sent"
        /\ stream' = [stream EXCEPT ![i] = "answered"]
        /\ raw' = raw \cup {[run |-> run, job |-> job, stream |-> i]}
    BY <1>3 DEF Answer, Receipt
  <2>3. PICK a : a = [check |-> check, timing |-> timing]
    OBVIOUS
  <2>4. a \in AnswerRecords /\ a.check \in CheckResults(Cat(job))
    BY <2>3 DEF AnswerRecords, CheckResults
  <2>5. got' = [got EXCEPT ![i] = a]
    BY <2>1, <2>3
  <2>6. UnderWay'
    BY <1>0, <2>2, <2>4, <2>5 DEF UnderWay
  <2>7. CellIsolated'
    BY <1>0, <2>2 DEF CellIsolated
  <2> QED BY <1>0, <2>2, <2>6, <2>7, MStream DEF Position
<1>4. ASSUME NEW i \in DOMAIN stream, Error(i)
      PROVE  MInv'
  <2>1. /\ UNCHANGED <<run, pc, job, got, res, file>> /\ stream[i] = "sent"
        /\ stream' = [stream EXCEPT ![i] = "error"]
        /\ raw' = raw \cup {[run |-> run, job |-> job, stream |-> i]}
    BY <1>4 DEF Error, Receipt
  <2>2. UnderWay' /\ CellIsolated'
    BY <1>0, <2>1 DEF UnderWay, CellIsolated
  <2> QED BY <1>0, <2>1, <2>2, MStream DEF Position
<1> QED BY <1>1, <1>2, <1>3, <1>4

\* The streams of a job have all answered: what they brought is backed.
LEMMA MCollect ==
  ASSUME MInv, Collect
  PROVE  MInv'
<1>0. /\ pc = "batch" /\ UnderWay /\ CellIsolated /\ UNCHANGED <<run, job, stream, got, file, raw>>
      /\ job \in 1 .. LastJob /\ job \in Nat
      /\ Sound(res, raw) /\ res.status = "running" /\ AllClean(res) /\ UpTo(res, job)
      /\ InFile /\ res.run = run
      /\ \A i \in DOMAIN stream : stream[i] \in {"answered", "error"}
  BY MCounts DEF Collect, Joined, MInv, Position, Progress, Kept, UnderWay
<1>1. CellIsolated'
  BY <1>0 DEF CellIsolated
<1>2. CASE pc' = "failed" /\ UNCHANGED res
  <2>1. Len(res.cells) >= CellsBefore(job)
    BY <1>0, MGrows DEF UpTo
  <2>2. Position'
    BY <1>0, <1>2 DEF MInv, Position, Ended
  <2>3. Progress' /\ Kept'
    BY <1>0, <1>2, <2>1 DEF MInv, Progress, Kept, InFile
  <2> QED BY <1>1, <2>2, <2>3 DEF MInv
<1>3. CASE /\ \A i \in DOMAIN stream : stream[i] = "answered"
           /\ pc' = (IF Saved(Kind(job)) THEN "save" ELSE "next") /\ res' = Keep(Kind(job))
  <2>1. Kind(job) \in {"warm", "cell", "shape", "prefill"}
    BY <1>0, MKinds, MCounts
  <2>2. \A i \in Streams(job) : /\ got[i].check \in CheckResults(Cat(job))
                                /\ [run |-> run, job |-> job, stream |-> i] \in raw
    BY <1>0, <1>3 DEF UnderWay
  <2>3. CASE Kind(job) = "warm"
    <3>1. pc' = "next" /\ UNCHANGED res
      BY <1>3, <2>3 DEF Saved, Keep
    <3>2. UpTo(res, job + 1)
      BY <1>0, <2>3, MAhead DEF UpTo
    <3>3. Position'
      BY <1>0, <3>1 DEF MInv, Position
    <3>4. Progress' /\ Kept'
      BY <1>0, <3>1, <3>2 DEF MInv, Progress, Kept, InFile
    <3> QED BY <1>1, <3>3, <3>4 DEF MInv
  <2>4. CASE Kind(job) # "warm"
    <3>1. pc' = "save"
      BY <1>3, <2>4 DEF Saved
    <3>2. /\ Sound(res', raw) /\ res'.run = res.run /\ res'.status = "running"
          /\ UpTo(res', job + 1) /\ CleanButLast(res', job)
      <4>1. CASE Kind(job) = "cell"
        <5>1. CellAdded(res, res', got)
          BY <1>3, <4>1 DEF Keep, CellAdded
        <5>2. Level(job) \in Nat
          BY <1>0, MLevel
        <5>3. got \in Seq(AnswerRecords) /\ DOMAIN got = Streams(job)
          BY <1>0, <5>2 DEF UnderWay, Streams
        <5>4. \A i \in DOMAIN got : /\ got[i].check \in CheckResults(Cat(job))
                                    /\ [run |-> res.run, job |-> job, stream |-> i] \in raw
          BY <1>0, <2>2, <5>3
        <5> QED BY <1>0, <4>1, <5>1, <5>3, <5>4, MCell
      <4>2. CASE Kind(job) \in {"shape", "prefill"}
        <5>1. PointAdded(res, res', job)
          BY <1>3, <4>2 DEF Keep, PointAdded
        <5>2. 1 \in Streams(job)
          BY <1>0, <4>2, MLevel DEF Streams
        <5>3. [run |-> res.run, job |-> job, stream |-> 1] \in raw
          BY <1>0, <2>2, <5>2
        <5> QED BY <1>0, <5>1, <5>3, MPoint
      <4> QED BY <2>1, <2>4, <4>1, <4>2
    <3>3. Position'
      BY <1>0, <3>1 DEF MInv, Position
    <3>4. Progress' /\ Kept'
      BY <1>0, <3>1, <3>2 DEF MInv, Progress, Kept
    <3> QED BY <1>1, <3>3, <3>4 DEF MInv
  <2> QED BY <2>3, <2>4
<1> QED BY <1>0, <1>2, <1>3 DEF Collect

LEMMA MKill ==
  ASSUME MInv, Kill
  PROVE  MInv'
<1>1. pc' = "killed" /\ DOMAIN stream' = {} /\ UNCHANGED <<run, job, res, file, raw>>
  BY DEF Kill, Forget
<1>2. Position'
  BY <1>1 DEF MInv, Position, Ended
<1>3. Progress' /\ CellIsolated' /\ Kept'
  BY <1>1 DEF MInv, Progress, CellIsolated, Kept
<1> QED BY <1>2, <1>3 DEF MInv

LEMMA MNext == MInv /\ [Next]_vars => MInv'
<1> SUFFICES ASSUME MInv, [Next]_vars
             PROVE  MInv'
  OBVIOUS
<1>1. CASE UNCHANGED vars
  BY <1>1 DEF vars, MInv, Position, UnderWay, Progress, InFile, CellIsolated, Kept
<1>2. CASE Next
  BY <1>2, MBegin, MTruncate, MWrite, MStop, MStart, MFinish, MBatch, MCollect, MKill
     DEF Next, Step
<1> QED BY <1>1, <1>2

\* Every result is where its job puts it, with one answer for every stream of its
\* level, for every sequence of levels and categories, any number of prefill points,
\* runs and receipts (bench_matrix.py:176-195).
THEOREM MatrixTyped == Spec => []ResultsTyped
<1>1. MInv => ResultsTyped
  BY DEF MInv, Position, Progress, UpTo, UnderWay, Kept, Sound, Backed, CellBacked, ResultsTyped
<1> QED BY <1>1, MInit, MNext, PTL DEF Spec

\* A cell's streams are sent together and no request of one job is under way in another
\* (bench_matrix.py:112-119).
THEOREM CellsAreIsolated == Spec => []CellIsolated
<1>1. MInv => CellIsolated
  BY DEF MInv
<1> QED BY <1>1, MInit, MNext, PTL DEF Spec

\* While a job is under way, and after a run that completed, failed or stopped, the file
\* has every cell and point that was finished before (bench_matrix.py:169-171, 178-195).
THEOREM NoDataIsLost == Spec => []NothingLost
<1>1. MInv => NothingLost
  <2> SUFFICES ASSUME MInv, pc \in {"batch", "judge", "failed", "stopped", "completed"}
               PROVE  InFile /\ Len(file.cells) >= CellsBefore(job)
    BY DEF NothingLost, InFile
  <2>1. job \in Nat
    BY MCounts DEF MInv, Position
  <2>2. CellsBefore(job) \in Nat /\ CellsBefore(job) <= CellsBefore(job + 1)
    BY <2>1, MGrows
  <2> QED BY <2>1, <2>2 DEF MInv, Progress, UpTo, InFile
<1> QED BY <1>1, MInit, MNext, PTL DEF Spec

\* A file that says it is complete passes the verification of published data when all
\* its answers could be timed and every category is checked, for every matrix and
\* however its runs and those before them under the same label ended
\* (bench_matrix.py:181-183, 197; verify_final_data.py:13-50).
THEOREM CompleteFilesVerify == Spec => []CompletedVerifies
<1>1. MInv => CompletedVerifies
  <2> SUFFICES ASSUME MInv, file \notin {NoFile, Partial},
                      {AllCats[k] : k \in DOMAIN AllCats} \subseteq Checked,
                      file.status = "completed", Timeable(file)
               PROVE  Verifies(file)
    BY DEF CompletedVerifies
  <2>1. Sound(file, raw)
    BY DEF MInv, Kept
  <2>2. file \in Results /\ Backed(file, raw) /\ Whole(file)
    BY <2>1 DEF Sound
  <2>3. Len(file.cells) = Cells /\ Len(file.prefill) = Targets /\ DOMAIN file.cells = 1 .. Cells
    BY <2>2 DEF Whole, Results
  <2>4. ASSUME NEW k \in 1 .. Cells
        PROVE  /\ DOMAIN file.cells[k] = Streams(Warmups + k)
               /\ \A i \in DOMAIN file.cells[k] :
                    /\ file.cells[k][i].check = "true" /\ file.cells[k][i].timing = "rate"
                    /\ HasReceipt(file, Warmups + k, i)
    <3>1. CellBacked(file, k, raw) /\ CellClean(file, k)
      BY <2>2, <2>3 DEF Backed, Whole, AllClean
    <3>2. Cat(Warmups + k) \in Checked
      BY MCat
    <3>3. CheckResults(Cat(Warmups + k)) = {"true", "false"}
      BY <3>2 DEF CheckResults
    <3> QED BY <2>3, <3>1, <3>3 DEF CellBacked, CellClean, Timeable, HasReceipt
  <2>5. /\ \A p \in DOMAIN file.prefill : HasReceipt(file, file.prefill[p], 1)
        /\ \A p \in DOMAIN file.shapes : HasReceipt(file, file.shapes[p], 1)
    BY <2>2 DEF Backed, PointsBacked, HasReceipt
  <2> QED BY <2>3, <2>4, <2>5 DEF Verifies
<1> QED BY <1>1, MInit, MNext, PTL DEF Spec
=============================================================================
