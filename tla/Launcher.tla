------------------------------- MODULE Launcher -------------------------------
(***************************************************************************)
(* Bringing the server up on all nodes from one control host:              *)
(* launch/recover_eager.py main() ("recover") and the older launcher it    *)
(* builds on, launch/launch_spark_v41.py launch() ("base"), run one after  *)
(* the other by an operator who starts the next attempt when one has ended.*)
(*                                                                         *)
(* Every ssh call may be answered, or end in a nonzero code or a deadline. *)
(* Then the remote command was never run, has run, or runs later: giving   *)
(* up kills the local ssh client only.  Docker is modelled from how the    *)
(* scripts use it: a name belongs to one container at a time.              *)
(***************************************************************************)
EXTENDS Integers, Sequences, FiniteSets

CONSTANTS
  N,            \* hosts; the host of rank r is r
  Target,       \* the name recover starts its containers under
  BaseName,     \* the name of the base launcher's containers
  Setups,       \* ways the launchers are used, see LauncherAssumption
  MaxFaults     \* bound: ssh calls that fail

ASSUME LauncherAssumption ==
  /\ N \in Nat \ {0} /\ MaxFaults \in Nat
  \* names: recover's container names, in the order they are cleared; tools: the
  \* programs in use; late: may a command run after its caller gave up;
  \* launches: bound on the attempts
  /\ \A s \in Setups :
       /\ s.names \in Seq(STRING) /\ \E m \in DOMAIN s.names : s.names[m] = Target
       /\ s.tools \subseteq {"recover", "base", "archive"}
       /\ s.late \in BOOLEAN /\ s.launches \in Nat

VARIABLES
  setup,   \* the one of Setups in use
  launch,  \* number of the attempt, its stamp (run.mkdir refuses a stamp twice)
  tool,    \* which launcher it is
  pc,      \* what it does next
  step,    \* <<position in its order of the hosts, position in Names>>
  box,     \* box[h][n]: the container called n on host h, or NoBox
  saved,   \* the renamed containers
  logs,    \* the logs written on the control host
  late,    \* commands given up on that may still run
  faults,  \* ssh calls that failed so far
  clean    \* this attempt met no fault and nothing late

remote == <<box, saved, late>>
vars == <<setup, launch, tool, pc, step, box, saved, logs, late, faults, clean>>

Hosts == 0 .. N - 1
Names == setup.names
AllNames == {BaseName} \cup UNION {{s.names[m] : m \in DOMAIN s.names} : s \in Setups}
Ended == {"idle", "done", "failed", "archived"}
NoBox == [launch |-> 0, up |-> FALSE]
Exists(h, n) == box[h][n] # NoBox

Init ==
  /\ setup \in Setups
  /\ launch = 0 /\ tool = "recover" /\ pc = "idle" /\ step = <<1, 1>>
  /\ box = [h \in Hosts |-> [n \in AllNames |-> NoBox]]
  /\ saved = {} /\ logs = {} /\ late = {} /\ faults = 0 /\ clean = TRUE

(***************************************************************************)
(* What a docker command does on its host                                  *)
(***************************************************************************)
Does(op, h, n, k) ==
  /\ box' = CASE op = "stop" /\ Exists(h, n) -> [box EXCEPT ![h][n].up = FALSE]
              [] op \in {"rename", "rm"} -> [box EXCEPT ![h][n] = NoBox]
              [] op = "run" /\ ~Exists(h, n) -> [box EXCEPT ![h][n] = [launch |-> k, up |-> TRUE]]
              [] OTHER -> box
  /\ saved' = IF op = "rename" /\ Exists(h, n)
                THEN saved \cup {[host |-> h, name |-> n, launch |-> box[h][n].launch,
                                  up |-> box[h][n].up, stamp |-> k]}
                ELSE saved

Succeeds(op, h, n) ==
  \/ op = "rm"
  \/ op \in {"stop", "rename"} /\ Exists(h, n)
  \/ op = "run" /\ ~Exists(h, n)

(***************************************************************************)
(* The calls of a launcher                                                 *)
(***************************************************************************)
Goto(label) == pc' = label /\ step' = <<1, 1>>
Raise == Goto("failed")

Fault ==
  /\ faults < MaxFaults
  /\ faults' = faults + 1 /\ clean' = FALSE

\* ssh(host, cmd) for a command with an effect, and what follows a zero and a
\* nonzero code.
Remote(op, h, n, Then, Else) ==
  \/ /\ Does(op, h, n, launch)
     /\ IF Succeeds(op, h, n) THEN Then ELSE Else
     /\ UNCHANGED <<late, faults, clean>>
  \/ /\ Fault /\ Else
     /\ \/ UNCHANGED remote
        \/ Does(op, h, n, launch) /\ UNCHANGED late
        \/ /\ op = "run" /\ ~Exists(h, n)        \* created, not started
           /\ box' = [box EXCEPT ![h][n] = [launch |-> launch, up |-> FALSE]]
           /\ UNCHANGED <<saved, late>>
        \/ /\ setup.late
           /\ late' = late \cup {[op |-> op, host |-> h, name |-> n, launch |-> launch]}
           /\ UNCHANGED <<box, saved>>

Call(op, h, n, Then) == Remote(op, h, n, Then, Raise)

Host == step[1] - 1
Name == Names[step[2]]

\* mutant: one host too many
MutNextName ==
  IF step[2] < Len(Names)
    THEN step' = <<step[1], step[2] + 1>> /\ pc' = "inspect"
    ELSE IF step[1] <= N THEN step' = <<step[1] + 1, 1>> /\ pc' = "inspect" ELSE Goto("run")

\* The next name of this host, the next host, or the containers.
NextName ==
  IF step[2] < Len(Names)
    THEN step' = <<step[1], step[2] + 1>> /\ pc' = "inspect"
    ELSE IF step[1] < N THEN step' = <<step[1] + 1, 1>> /\ pc' = "inspect" ELSE Goto("run")

Begin(t) ==
  /\ pc \in Ended /\ launch < setup.launches
  /\ launch' = launch + 1 /\ tool' = t /\ clean' = (late = {})
  /\ Goto(IF t = "recover" THEN "preflight" ELSE "rm")
  /\ UNCHANGED <<setup, remote, logs, faults>>

\* Every host is probed, at once, before anything is changed.
Preflight ==
  /\ pc = "preflight"
  /\ \/ Goto("inspect") /\ UNCHANGED <<faults, clean>>
     \/ Fault /\ Raise
  /\ UNCHANGED <<setup, launch, tool, remote, logs>>

\* Any nonzero code, that of an ssh that did not connect included, reads as
\* "no such container"; only a deadline raises.
Inspect ==
  /\ pc = "inspect"
  /\ \/ /\ IF Exists(Host, Name) THEN pc' = "logs" /\ UNCHANGED step ELSE NextName
        /\ UNCHANGED <<faults, clean>>
     \/ Fault /\ (NextName \/ Raise)
  /\ UNCHANGED <<setup, launch, tool, remote, logs>>

\* mutant: the logs are fetched and not written
MutSaveLogs ==
  /\ pc = "logs"
  /\ pc' = "stop"
  /\ UNCHANGED <<setup, launch, tool, step, remote, logs, faults, clean>>

SaveLogs ==
  /\ pc = "logs"
  /\ \/ /\ Exists(Host, Name)
        /\ logs' = logs \cup {[host |-> Host, name |-> Name, stamp |-> launch,
                               launch |-> box[Host][Name].launch]}
        /\ pc' = "stop" /\ UNCHANGED <<step, faults, clean>>
     \/ ~Exists(Host, Name) /\ Raise /\ UNCHANGED <<logs, faults, clean>>
     \/ Fault /\ Raise /\ UNCHANGED logs
  /\ UNCHANGED <<setup, launch, tool, remote>>

StopOld ==
  /\ pc = "stop"
  /\ Call("stop", Host, Name, pc' = "rename" /\ UNCHANGED step)
  /\ UNCHANGED <<setup, launch, tool, logs>>

\* mutant: the stopped container keeps its name
MutRenameOld ==
  /\ pc = "rename"
  /\ NextName
  /\ UNCHANGED <<setup, launch, tool, remote, logs, faults, clean>>

RenameOld ==
  /\ pc = "rename"
  /\ Call("rename", Host, Name, NextName)
  /\ UNCHANGED <<setup, launch, tool, logs>>

\* base: docker rm -f of its own name on every host, whatever it answers.
RemoveOld ==
  /\ pc = "rm"
  /\ Call("rm", Host, BaseName,
          IF step[1] < N THEN step' = <<step[1] + 1, 1>> /\ UNCHANGED pc ELSE Goto("run"))
  /\ UNCHANGED <<setup, launch, tool, logs>>

MutRunHost == step[1] - 1                              \* mutant: rank 0 first
RunHost == IF step[1] < N THEN step[1] ELSE 0          \* hosts[1:] + hosts[:1]
RunName == IF tool = "recover" THEN Target ELSE BaseName

\* mutant: the exit code of docker run is not looked at
MutRun ==
  /\ pc = "run"
  /\ Does("run", RunHost, RunName, launch)
  /\ IF step[1] < N THEN step' = <<step[1] + 1, 1>> /\ UNCHANGED pc ELSE Goto("done")
  /\ UNCHANGED <<setup, launch, tool, logs, late, faults, clean>>

Run ==
  /\ pc = "run"
  /\ Call("run", RunHost, RunName,
          IF step[1] < N THEN step' = <<step[1] + 1, 1>> /\ UNCHANGED pc ELSE Goto("done"))
  /\ UNCHANGED <<setup, launch, tool, logs>>

(***************************************************************************)
(* The hosts                                                               *)
(***************************************************************************)
Late(c) ==
  /\ Does(c.op, c.host, c.name, c.launch)
  /\ late' = late \ {c} /\ clean' = FALSE
  /\ UNCHANGED <<setup, launch, tool, pc, step, logs, faults>>

\* A server dies of its own: out of memory, a lost peer.
Dies(h, n) ==
  /\ box[h][n].up
  /\ box' = [box EXCEPT ![h][n].up = FALSE]
  /\ UNCHANGED <<setup, launch, tool, pc, step, saved, logs, late, faults, clean>>

Next ==
  \/ \E t \in setup.tools \ {"archive"} : Begin(t)
  \/ Preflight \/ Inspect \/ SaveLogs \/ StopOld \/ RenameOld \/ RemoveOld \/ Run
  \/ \E c \in late : Late(c)
  \/ \E h \in Hosts, n \in AllNames : Dies(h, n)

Spec == Init /\ [][Next]_vars

(***************************************************************************)
(* Properties                                                              *)
(***************************************************************************)
Stamps == 1 .. setup.launches
Boxes == {NoBox} \cup [launch : Stamps, up : BOOLEAN]
Saved == [host : Hosts, name : AllNames, launch : Stamps, up : BOOLEAN, stamp : Stamps]

\* Every variable holds a value of its kind: the loops over hosts and names never
\* leave them, and nothing is saved under a name of no container or a stamp of no
\* attempt (recover_eager.py:154-175).
TypeOK ==
  /\ setup \in Setups /\ launch \in {0} \cup Stamps /\ tool \in {"recover", "base", "archive"}
  /\ pc \in Ended \cup {"preflight", "inspect", "logs", "stop", "rename", "rm", "run", "archive"}
  /\ step \in (1 .. N) \X (1 .. Len(Names))
  /\ box \in [Hosts -> [AllNames -> Boxes]]
  /\ saved \subseteq Saved
  /\ logs \subseteq [host : Hosts, name : AllNames, stamp : Stamps, launch : Stamps]
  /\ late \subseteq [op : {"stop", "rename", "run", "rm"}, host : Hosts, name : AllNames,
                     launch : Stamps]
  /\ faults \in 0 .. MaxFaults /\ clean \in BOOLEAN

\* On host h the container of the launched name is this attempt's; or this attempt's
\* was put aside by a rename that an earlier attempt had given up on.
Mine(h) == box[h][RunName].launch = launch
Displaced(h) == \E c \in saved : c.host = h /\ c.launch = launch /\ c.stamp < launch

\* When a launcher ends well, and until the next begins, the container of the name
\* it launched is this very attempt's on every host, whatever earlier attempts left
\* half done under that name; only a rename of an earlier attempt that is carried
\* out late can take it away, and then it is kept under that attempt's stamp.
\* (Nothing tells that launcher: a run given up on may fill the name again, and
\* ranks of two attempts are up as one group.)  recover_eager.py:154-175
OneGeneration ==
  pc = "done" => \A h \in Hosts : Mine(h) \/ (setup.late /\ Displaced(h))

Started(h) ==
  \/ \E n \in AllNames : box[h][n].launch = launch
  \/ \E c \in saved : c.host = h /\ c.launch = launch

\* Rank 0, which the others rendezvous with, is started last: when it exists, all
\* other ranks of the attempt have been started, though a command of an earlier
\* attempt that is carried out late may have stopped or renamed them since
\* (README.md:88).
RankZeroLast ==
  launch > 0 /\ Started(0) => \A h \in Hosts : Started(h)

\* Whatever a container's end, and whichever attempt broke off in between, a
\* container that was put aside is stopped and its log is on the control host
\* under the stamp in its name, unless a rename given up on took effect in a later
\* attempt (recover_eager.py:155-170).
Preserved ==
  ~setup.late => \A c \in saved :
    /\ ~c.up
    /\ [host |-> c.host, name |-> c.name, stamp |-> c.stamp, launch |-> c.launch] \in logs

\* An attempt that meets no fault of its own succeeds whatever state the broken
\* attempts before it left on the hosts: relaunching is the way out.  Nothing is
\* said of an attempt begun while a command given up on may still run (clean).
RelaunchSucceeds == pc = "failed" => ~clean

\* When recover ends well no earlier container of its names is still running
\* beside the new ones (recover_eager.py:3-4, 154-170).
OldStopped ==
  pc = "done" /\ tool = "recover" =>
    \A h \in Hosts, m \in DOMAIN Names :
      box[h][Names[m]].up => box[h][Names[m]].launch = launch
=============================================================================
