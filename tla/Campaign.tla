-------------------------------- MODULE Campaign --------------------------------
(***************************************************************************)
(* An operator's work with one service: suites and jitter runs, one at a   *)
(* time (a tool's numbers mean nothing beside another's load), and         *)
(* relaunches of the service in between.                                   *)
(***************************************************************************)
EXTENDS BenchSuite, JitterTelemetry

campaign == <<service, suiteVars, jitterVars>>

CampaignInit == ServiceInit /\ SuiteInit /\ JitterInit

Idle == spc \in SuiteEnded /\ jpc \in JitterEnded

\* What a tool that has ended held in memory is gone; its files are not.
SuiteGone ==
  /\ spc' = "idle" /\ at' = 0 /\ retrieved' = TRUE /\ steps' = {} /\ evidence' = {}
  /\ suite' = [suite EXCEPT !.parity = NoRank, !.container = FALSE, !.reuse = 0]
JitterGone ==
  /\ jpc' = "idle" /\ asked' = 0 /\ ok' = TRUE /\ reader' = [n \in Ranks |-> "none"]
  /\ procs' = {} /\ ready' = {} /\ loop' = {} /\ killed' = {}

StartSuite ==
  /\ Idle /\ opts \in Measured
  /\ \E h \in Ranks \cup {NoRank}, c \in BOOLEAN, d \in 0 .. suite.n :
       /\ (h = NoRank => ~c) /\ (d > 0 => verdicts[d] # <<>>)
       /\ BeginSuite(h, c, d)
  /\ JitterGone

\* bound: no jitter run after the last suite
StartJitter ==
  /\ Idle /\ opts \in Measured /\ suite.n < MaxSuites
  /\ BeginJitter /\ SuiteGone /\ UNCHANGED <<verdicts, ssh>>

\* New containers: what failed on the old ones is gone, but for what is still to come.
NewService ==
  /\ Idle /\ Relaunch
  /\ ssh' = [ssh EXCEPT !.hosts = {e[2] : e \in ssh.late}]
  /\ SuiteGone /\ JitterGone /\ UNCHANGED verdicts

Tool ==
  \/ SuiteStep /\ UNCHANGED jitterVars
  \/ JitterStep /\ UNCHANGED suiteVars

CampaignNext ==
  \/ Tool \/ StartSuite \/ StartJitter \/ NewService
  \/ (Ready \/ Dies) /\ UNCHANGED <<suiteVars, jitterVars>>
  \/ LateSsh /\ UNCHANGED jitterVars
  \/ (\E n \in Ranks : Reader(n)) /\ UNCHANGED suiteVars

CampaignSpec == CampaignInit /\ [][CampaignNext]_campaign /\ WF_campaign(Tool)

(***************************************************************************)
(* Properties                                                              *)
(***************************************************************************)
\* Every variable holds a value of its kind; a suite's manifest only has steps of the
\* suite, and the dictionaries of the jitter tool only its hosts.
TypeOK ==
  /\ opts \in Options /\ overlay \in Overlays /\ up \in BOOLEAN /\ wrong \in Broken
  /\ cached \subseteq Prompts /\ flag \subseteq Ranks
  /\ lines \in [Ranks -> SUBSET (0 .. MaxSuites)] /\ evidence \subseteq 0 .. MaxSuites
  /\ spc \in SuiteEnded \cup Scripts \cup {"waiting", "flush", "arm", "remove", "logs"}
  /\ suite \in [n : 0 .. MaxSuites, parity : Ranks \cup {NoRank}, container : BOOLEAN,
                reuse : 0 .. MaxSuites]
  /\ at \in Nat /\ (spc = "flush" => at < FlushTries)
  /\ retrieved \in BOOLEAN /\ steps \subseteq Scripts \X {0, 1}
  /\ verdicts \in [1 .. MaxSuites -> Seq(BOOLEAN)]
  /\ ssh.faults \in 0 .. MaxFaults /\ ssh.hosts \subseteq Ranks
  /\ ssh.late \subseteq {"touch", "rm"} \X Ranks
  /\ jpc \in JitterEnded \cup {"spawn", "wait", "bench", "finally"}
  /\ asked \in 0 .. Repeats /\ ok \in BOOLEAN
  /\ reader \in [Ranks -> {"none", "started", "entered", "reading", "ended"}]
  /\ ready \subseteq procs /\ killed \subseteq loop /\ loop \subseteq procs
  /\ procs \subseteq Ranks

Timing == spc \in {"c1-repeat", "matrix"} \/ jpc = "bench"

\* No timing is taken while the comparison is armed, by whichever tool and whichever
\* step the suites before it stopped at, but for a host on which an ssh of a suite
\* failed.  A suite that is killed between touch and rm leaves the file in place: that
\* is not modelled, a suite here ends through its finally clause
\* (finish_spark_bench.py:53-56, sitecustomize.py:45).
TimedDisarmed == Timing => flag \subseteq ssh.hosts

\* A tool that was started ends: health, flush, samples and benchmark are waited for
\* with a limit, and no thread of the jitter tool can hold it up.
ToolEnds == ~Idle ~> Idle
=============================================================================
