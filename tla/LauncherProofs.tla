----------------------------- MODULE LauncherProofs -----------------------------
(***************************************************************************)
(* Proofs about the launchers and the archiver, for any number of hosts,   *)
(* names, attempts and failing calls.                                      *)
(***************************************************************************)
EXTENDS ArchiveStop, TLAPS

\* Where commands may run after their caller gave up, no launcher uses docker rm: it
\* could remove a container of the attempt under way.
NoLateRemoval == \A s \in Setups : s.late => "base" \notin s.tools

(***************************************************************************)
(* The invariants                                                          *)
(***************************************************************************)
\* The stages of recover before it starts anything; those in which a call is about
\* the container at step.
Clearing == {"inspect", "logs", "stop", "rename"}
Handling == {"logs", "stop", "rename"}
Before == Clearing \cup {"preflight", "rm"}

\* One tool at a time, in its own stages.
Stage ==
  /\ pc = "idle" <=> launch = 0
  /\ pc \in Clearing \cup {"preflight"} => tool = "recover"
  /\ pc = "rm" => tool = "base"
  /\ pc = "run" => tool \in {"recover", "base"}
  /\ tool = "base" => "base" \in setup.tools
  /\ pc # "archive" => \A h \in Hosts : work[h] = "idle"
  /\ work \in [Hosts -> {"idle", "inspect", "logs", "config", "stop", "stopped", "failed"}]
  /\ info \in [Hosts -> {0} \cup Stamps]

Base == TypeOK /\ Stage

\* What an attempt has started, or may start after it gave up on the call.
StartedAs(h, k) ==
  \/ \E n \in AllNames : box[h][n].launch = k
  \/ \E c \in saved : c.host = h /\ c.launch = k
Ordered(h) == \E c \in late : c.op = "run" /\ c.host = h /\ c.launch = launch
MayStart(h) == Started(h) \/ Ordered(h)

\* Containers are started in order, rank 0 last, and only by the attempt whose
\* number they carry.
Starts ==
  /\ \A h \in Hosts, k \in Stamps : StartedAs(h, k) => k <= launch
  /\ \A c \in late : c.launch <= launch
  /\ NoLateRemoval => \A c \in late : c.op # "rm"
  /\ launch > 0 /\ pc \in Before \cup {"archive"} => \A h \in Hosts : ~MayStart(h)
  /\ pc = "run" => ~MayStart(0) /\ \A h \in 1 .. step[1] - 1 : Started(h)
  /\ launch > 0 /\ MayStart(0) => \A h \in Hosts : h # 0 => Started(h)

\* Until an attempt breaks off, what may still run is of earlier attempts; so what it
\* started is under its name, or was put aside with the stamp of an earlier one.
Held(h) == Mine(h) \/ (setup.late /\ Displaced(h))
Group ==
  /\ late # {} => setup.late
  /\ pc \in Before \cup {"run", "done"} => \A c \in late : c.launch < launch
  /\ pc = "run" => \A h \in 1 .. step[1] - 1 : Held(h)
  /\ pc = "done" => \A h \in Hosts : Held(h)

\* What is put aside has been logged and stopped.
Aside ==
  /\ Preserved
  /\ ~setup.late =>
       /\ late = {}
       /\ pc \in {"stop", "rename"} /\ Exists(Host, Name) =>
            [host |-> Host, name |-> Name, stamp |-> launch, launch |-> box[Host][Name].launch] \in logs
       /\ pc = "rename" => ~box[Host][Name].up

\* What an attempt that met no fault has found and cleared.
Cleared(h, m) == h < Host \/ (h = Host /\ m < step[2])
Clean ==
  clean =>
    /\ late = {} /\ pc # "failed"
    /\ pc \in Handling => Exists(Host, Name)
    /\ pc \in Clearing =>
         \A h \in Hosts, m \in DOMAIN Names : Cleared(h, m) => ~Exists(h, Names[m])
    /\ pc = "rm" => \A h \in Hosts : h < Host => ~Exists(h, BaseName)
    /\ pc = "run" => \A h \in Hosts : h = 0 \/ h >= step[1] => ~Exists(h, RunName)
    /\ pc = "archive" => \A h \in Hosts : Exists(h, Target) /\ work[h] # "failed"

\* What each worker of the archiver has established when it is where it is.
Established(h) ==
  LET g == box[h][Target].launch
  IN /\ work[h] \in {"logs", "config", "stop", "stopped"} => Exists(h, Target) /\ info[h] = g
     /\ work[h] \in {"config", "stop", "stopped"} => Entry(h, g) \in logs
     /\ work[h] \in {"stop", "stopped"} => Entry(h, g) \in confs
     /\ work[h] = "stopped" => ~box[h][Target].up
Workers ==
  /\ ~setup.late /\ pc = "archive" => \A h \in Hosts : Established(h)
  /\ SummaryTrue

(***************************************************************************)
(* Types and stages                                                        *)
(***************************************************************************)
\* The host and the name at step, and the host that is next to run.
LEMMA AtStep ==
  ASSUME Base
  PROVE  /\ Len(Names) \in Nat \ {0} /\ DOMAIN Names = 1 .. Len(Names)
         /\ \A m \in DOMAIN Names : Names[m] \in AllNames
         /\ \E m \in DOMAIN Names : Names[m] = Target
         /\ {Target, BaseName, Name, RunName} \subseteq AllNames
         /\ {Host, RunHost} \subseteq Hosts
         /\ step[1] \in 1 .. N /\ step[2] \in 1 .. Len(Names) /\ step = <<step[1], step[2]>>
         /\ <<1, 1>> \in (1 .. N) \X (1 .. Len(Names))
<1>1. setup \in Setups /\ step \in (1 .. N) \X (1 .. Len(Names)) /\ N \in Nat \ {0}
  BY LauncherAssumption DEF Base, TypeOK
<1>2. Names \in Seq(STRING) /\ \E m \in DOMAIN Names : Names[m] = Target
  BY <1>1, LauncherAssumption DEF Names
<1>3. \A m \in DOMAIN Names : Names[m] \in AllNames
  <2> SUFFICES ASSUME NEW m \in DOMAIN setup.names
               PROVE  setup.names[m] \in AllNames
    BY DEF Names
  <2>1. setup.names[m] \in {setup.names[k] : k \in DOMAIN setup.names}
    OBVIOUS
  <2> QED BY <1>1, <2>1 DEF AllNames
<1>4. Len(Names) \in Nat \ {0} /\ DOMAIN Names = 1 .. Len(Names)
  BY <1>2
<1>5. step[1] \in 1 .. N /\ step[2] \in 1 .. Len(Names) /\ step = <<step[1], step[2]>>
  BY <1>1
<1>6. {Host, RunHost} \subseteq Hosts
  BY <1>1, <1>5 DEF Host, RunHost, Hosts
<1>7. {Target, BaseName, Name, RunName} \subseteq AllNames
  <2>1. BaseName \in AllNames
    BY DEF AllNames
  <2>2. Target \in AllNames
    BY <1>2, <1>3
  <2>3. Name \in AllNames
    BY <1>3, <1>4, <1>5 DEF Name
  <2> QED BY <2>1, <2>2, <2>3 DEF RunName
<1> QED BY <1>1, <1>2, <1>3, <1>4, <1>5, <1>6, <1>7

LEMMA LaunchFacts ==
  ASSUME Base
  PROVE  /\ launch \in Nat /\ setup.launches \in Nat
         /\ pc # "idle" => launch \in Stamps
         /\ launch < setup.launches => launch + 1 \in Stamps
BY LauncherAssumption DEF Base, TypeOK, Stage, Stamps

\* What an ssh call with an effect can do to the remote side, answered or not.
Effect(op, h, n) ==
  \/ Does(op, h, n, launch) /\ UNCHANGED late
  \/ UNCHANGED remote
  \/ /\ op = "run" /\ ~Exists(h, n)
     /\ box' = [box EXCEPT ![h][n] = [launch |-> launch, up |-> FALSE]]
     /\ UNCHANGED <<saved, late>>
  \/ /\ setup.late
     /\ late' = late \cup {[op |-> op, host |-> h, name |-> n, launch |-> launch]}
     /\ UNCHANGED <<box, saved>>

\* How the call ends: well, with its effect done; or not, and then the attempt has
\* met a fault or found nothing to act on.
EndsWell(op, h, n) ==
  Does(op, h, n, launch) /\ Succeeds(op, h, n) /\ UNCHANGED <<late, faults, clean>>
EndsBadly(op, h, n) ==
  /\ Effect(op, h, n)
  /\ \/ Fault
     \/ ~Succeeds(op, h, n) /\ UNCHANGED <<late, faults, clean>>

Quiet == UNCHANGED <<setup, launch, tool, archiveVars>>

LEMMA StopOldEnds ==
  ASSUME StopOld, UNCHANGED archiveVars
  PROVE  /\ pc = "stop" /\ Quiet /\ UNCHANGED logs
         /\ \/ EndsWell("stop", Host, Name) /\ pc' = "rename" /\ UNCHANGED step
            \/ EndsBadly("stop", Host, Name) /\ Raise
BY DEF StopOld, Call, Remote, EndsWell, EndsBadly, Effect, Quiet

LEMMA RenameOldEnds ==
  ASSUME RenameOld, UNCHANGED archiveVars
  PROVE  /\ pc = "rename" /\ Quiet /\ UNCHANGED logs
         /\ \/ EndsWell("rename", Host, Name) /\ NextName
            \/ EndsBadly("rename", Host, Name) /\ Raise
BY DEF RenameOld, Call, Remote, EndsWell, EndsBadly, Effect, Quiet

LEMMA RemoveOldEnds ==
  ASSUME RemoveOld, UNCHANGED archiveVars
  PROVE  /\ pc = "rm" /\ Quiet /\ UNCHANGED logs
         /\ \/ /\ EndsWell("rm", Host, BaseName)
               /\ IF step[1] < N THEN step' = <<step[1] + 1, 1>> /\ UNCHANGED pc ELSE Goto("run")
            \/ EndsBadly("rm", Host, BaseName) /\ Raise
BY DEF RemoveOld, Call, Remote, EndsWell, EndsBadly, Effect, Quiet

LEMMA RunEnds ==
  ASSUME Run, UNCHANGED archiveVars
  PROVE  /\ pc = "run" /\ Quiet /\ UNCHANGED logs
         /\ \/ /\ EndsWell("run", RunHost, RunName)
               /\ IF step[1] < N THEN step' = <<step[1] + 1, 1>> /\ UNCHANGED pc ELSE Goto("done")
            \/ EndsBadly("run", RunHost, RunName) /\ Raise
BY DEF Run, Call, Remote, EndsWell, EndsBadly, Effect, Quiet, RunName

LEMMA StopBoxEnds ==
  ASSUME NEW h \in Hosts, StopBox(h)
  PROVE  /\ work[h] = "stop" /\ UNCHANGED <<setup, launch, tool, pc, step, logs, info, confs>>
         /\ \/ EndsWell("stop", h, Target) /\ Becomes(h, "stopped")
            \/ EndsBadly("stop", h, Target) /\ Becomes(h, "failed")
BY DEF StopBox, Remote, EndsWell, EndsBadly, Effect

\* The remote side keeps its types, whoever acts on it.
RemoteTyped ==
  /\ box \in [Hosts -> [AllNames -> Boxes]] /\ saved \subseteq Saved
  /\ late \subseteq [op : {"stop", "rename", "run", "rm"}, host : Hosts, name : AllNames,
                     launch : Stamps]

LEMMA DoesTyped ==
  ASSUME RemoteTyped, UNCHANGED setup, NEW op, NEW h \in Hosts, NEW n \in AllNames,
         NEW k \in Stamps, Does(op, h, n, k)
  PROVE  box' \in [Hosts -> [AllNames -> Boxes]]' /\ saved' \subseteq Saved'
<1>1. Boxes' = Boxes /\ Saved' = Saved
  BY DEF Boxes, Saved, Stamps
<1>2. box' \in [Hosts -> [AllNames -> Boxes]]
  <2>1. box[h][n] \in Boxes
    BY DEF RemoteTyped
  <2>2. CASE op = "stop" /\ Exists(h, n)
    BY <2>1, <2>2 DEF Does, RemoteTyped, Exists, Boxes
  <2>3. CASE op \in {"rename", "rm"}
    BY <2>3 DEF Does, RemoteTyped, Boxes
  <2>4. CASE op = "run" /\ ~Exists(h, n)
    BY <2>4 DEF Does, RemoteTyped, Boxes
  <2>5. CASE ~(op = "stop" /\ Exists(h, n)) /\ op \notin {"rename", "rm"}
             /\ ~(op = "run" /\ ~Exists(h, n))
    BY <2>5 DEF Does, RemoteTyped
  <2> QED BY <2>2, <2>3, <2>4, <2>5
<1>3. saved' \subseteq Saved
  BY DEF Does, RemoteTyped, Exists, Boxes, Saved
<1> QED BY <1>1, <1>2, <1>3

LEMMA EffectTyped ==
  ASSUME RemoteTyped, UNCHANGED setup, NEW op \in {"stop", "rename", "run", "rm"},
         NEW h \in Hosts, NEW n \in AllNames, launch \in Stamps, Effect(op, h, n)
  PROVE  RemoteTyped'
<1>1. Boxes' = Boxes /\ Saved' = Saved /\ Stamps' = Stamps
  BY DEF Boxes, Saved, Stamps
<1>2. CASE Does(op, h, n, launch) /\ UNCHANGED late
  BY <1>1, <1>2, DoesTyped DEF RemoteTyped
<1>3. CASE UNCHANGED remote
  BY <1>1, <1>3 DEF RemoteTyped, remote
<1>4. CASE box' = [box EXCEPT ![h][n] = [launch |-> launch, up |-> FALSE]] /\ UNCHANGED <<saved, late>>
  BY <1>1, <1>4 DEF RemoteTyped, Boxes
<1>5. CASE /\ late' = late \cup {[op |-> op, host |-> h, name |-> n, launch |-> launch]}
           /\ UNCHANGED <<box, saved>>
  BY <1>1, <1>5 DEF RemoteTyped
<1> QED BY <1>2, <1>3, <1>4, <1>5 DEF Effect

Steps == (1 .. N) \X (1 .. Len(Names))

LEMMA GotoTyped ==
  ASSUME Base, UNCHANGED setup, NEW l, Goto(l)
  PROVE  pc' = l /\ step' \in Steps'
BY AtStep DEF Goto, Steps, Names

LEMMA NextNameTyped ==
  ASSUME Base, UNCHANGED setup, NextName
  PROVE  pc' \in {"inspect", "run"} /\ step' \in Steps'
<1>1. N \in Nat \ {0} /\ Steps' = Steps
  BY LauncherAssumption DEF Steps, Names
<1>2. CASE step[2] < Len(Names)
  BY <1>1, <1>2, AtStep DEF NextName, Steps
<1>3. CASE ~(step[2] < Len(Names)) /\ step[1] < N
  BY <1>1, <1>3, AtStep DEF NextName, Steps
<1>4. CASE ~(step[2] < Len(Names)) /\ ~(step[1] < N)
  BY <1>4, GotoTyped DEF NextName
<1> QED BY <1>2, <1>3, <1>4

LEMMA FaultTyped ==
  ASSUME Base, Fault \/ UNCHANGED <<faults, clean>>
  PROVE  faults' \in 0 .. MaxFaults /\ clean' \in BOOLEAN
<1>1. MaxFaults \in Nat /\ faults \in 0 .. MaxFaults /\ clean \in BOOLEAN
  BY LauncherAssumption DEF Base, TypeOK
<1>2. CASE Fault
  <2>1. faults' = faults + 1 /\ faults < MaxFaults
    BY <1>2 DEF Fault
  <2>2. clean' \in BOOLEAN
    BY <1>2, Zenon DEF Fault
  <2> QED BY <1>1, <2>1, <2>2
<1>3. CASE UNCHANGED <<faults, clean>>
  <2>1. faults' \in 0 .. MaxFaults
    BY <1>1, <1>3
  <2>2. clean' \in BOOLEAN
    BY <1>1, <1>3, Zenon
  <2> QED BY <2>1, <2>2
<1> QED BY <1>2, <1>3

LEMMA RemoteSame ==
  ASSUME Base, UNCHANGED <<setup, remote>>
  PROVE  RemoteTyped'
BY DEF Base, TypeOK, RemoteTyped, remote, Stamps, Boxes, Saved

\* A stage of a launcher that ends in another of its stages, or of its ends.
LEMMA BaseFrame ==
  ASSUME Base, Quiet, UNCHANGED logs, RemoteTyped', faults' \in 0 .. MaxFaults,
         clean' \in BOOLEAN, step' \in Steps', pc \notin {"idle", "archive"},
         \/ pc' = "failed"
         \/ pc' \in Clearing /\ tool = "recover"
         \/ pc' = "rm" /\ tool = "base"
         \/ pc' \in {"run", "done"} /\ tool \in {"recover", "base"}
  PROVE  Base'
<1>1. TypeOK'
  BY DEF Base, TypeOK, Quiet, RemoteTyped, Steps, Stamps, Ended, Clearing, Names
<1>2. Stage'
  BY DEF Base, Stage, Quiet, archiveVars, Clearing, Stamps
<1> QED BY <1>1, <1>2 DEF Base

LEMMA BaseRemote ==
  ASSUME Base, Quiet, UNCHANGED logs, NEW op \in {"stop", "rename", "run", "rm"},
         NEW h \in Hosts, NEW n \in AllNames, EndsWell(op, h, n) \/ EndsBadly(op, h, n),
         pc # "idle"
  PROVE  RemoteTyped' /\ faults' \in 0 .. MaxFaults /\ clean' \in BOOLEAN
<1>1. Effect(op, h, n) /\ (Fault \/ UNCHANGED <<faults, clean>>)
  BY DEF EndsWell, EndsBadly, Effect
<1>2. RemoteTyped /\ UNCHANGED setup /\ launch \in Stamps
  BY LaunchFacts DEF Base, TypeOK, RemoteTyped, Quiet
<1> QED BY <1>1, <1>2, EffectTyped, FaultTyped

LEMMA BaseCalls ==
  ASSUME Base, UNCHANGED archiveVars, StopOld \/ RenameOld \/ RemoveOld \/ Run
  PROVE  Base'
<1>1. CASE StopOld
  <2>1. tool = "recover" /\ pc = "stop"
    BY <1>1 DEF StopOld, Base, Stage, Clearing
  <2>2. step' \in Steps' /\ pc' \in {"rename", "failed"}
    BY <1>1, <2>1, StopOldEnds, GotoTyped DEF Raise, Base, TypeOK, Quiet, Steps, Names
  <2> QED BY <1>1, <2>1, <2>2, StopOldEnds, AtStep, BaseRemote, BaseFrame DEF Clearing
<1>2. CASE RenameOld
  <2>1. tool = "recover" /\ pc = "rename"
    BY <1>2 DEF RenameOld, Base, Stage, Clearing
  <2>2. step' \in Steps' /\ pc' \in {"inspect", "run", "failed"}
    BY <1>2, RenameOldEnds, GotoTyped, NextNameTyped DEF Raise, Quiet
  <2> QED BY <1>2, <2>1, <2>2, RenameOldEnds, AtStep, BaseRemote, BaseFrame DEF Clearing
<1>3. CASE RemoveOld
  <2>1. tool = "base" /\ pc = "rm"
    BY <1>3 DEF RemoveOld, Base, Stage
  <2>2. step' \in Steps' /\ pc' \in {"rm", "run", "failed"}
    <3>1. CASE Goto("run") \/ Raise
      BY <1>3, <3>1, RemoveOldEnds, GotoTyped DEF Raise, Quiet
    <3>2. CASE step[1] < N /\ step' = <<step[1] + 1, 1>> /\ UNCHANGED pc
      BY <1>3, <3>2, <2>1, RemoveOldEnds, AtStep, LauncherAssumption DEF Quiet, Steps, Names
    <3> QED BY <1>3, <3>1, <3>2, RemoveOldEnds
  <2> QED BY <1>3, <2>1, <2>2, RemoveOldEnds, AtStep, BaseRemote, BaseFrame
<1>4. CASE Run
  <2>1. tool \in {"recover", "base"} /\ pc = "run"
    BY <1>4 DEF Run, Base, Stage
  <2>2. step' \in Steps' /\ pc' \in {"run", "done", "failed"}
    <3>1. CASE Goto("done") \/ Raise
      BY <1>4, <3>1, RunEnds, GotoTyped DEF Raise, Quiet
    <3>2. CASE step[1] < N /\ step' = <<step[1] + 1, 1>> /\ UNCHANGED pc
      BY <1>4, <3>2, <2>1, RunEnds, AtStep, LauncherAssumption DEF Quiet, Steps, Names
    <3> QED BY <1>4, <3>1, <3>2, RunEnds
  <2> QED BY <1>4, <2>1, <2>2, RunEnds, AtStep, BaseRemote, BaseFrame
<1> QED BY <1>1, <1>2, <1>3, <1>4

LEMMA BaseBegin ==
  ASSUME Base, NEW t \in {"recover", "base"}, t = "base" => "base" \in setup.tools,
         Begin(t), UNCHANGED archiveVars
  PROVE  Base'
<1>1. step' \in Steps' /\ pc' = IF t = "recover" THEN "preflight" ELSE "rm"
  BY GotoTyped DEF Begin
<1>2. launch' \in Stamps' /\ launch' # 0 /\ RemoteTyped'
  BY LaunchFacts, RemoteSame DEF Begin, Stamps
<1>3. TypeOK'
  BY <1>1, <1>2 DEF Begin, Base, TypeOK, RemoteTyped, Steps, Stamps, Ended, Names
<1>4. Stage'
  BY <1>1, <1>2 DEF Begin, Base, Stage, archiveVars, Clearing, Stamps, Ended
<1> QED BY <1>3, <1>4 DEF Base

LEMMA BaseProbe ==
  ASSUME Base, UNCHANGED archiveVars, Preflight \/ Inspect
  PROVE  Base'
<1>1. Quiet /\ UNCHANGED logs /\ RemoteTyped' /\ pc \notin {"idle", "archive"} /\ tool = "recover"
  BY RemoteSame DEF Preflight, Inspect, Quiet, Base, Stage, Clearing
<1>2. faults' \in 0 .. MaxFaults /\ clean' \in BOOLEAN
  BY FaultTyped DEF Preflight, Inspect
<1>3. step' \in Steps' /\ pc' \in {"inspect", "logs", "run", "failed"}
  <2>1. CASE Preflight
    BY <2>1, GotoTyped DEF Preflight, Raise
  <2>2. CASE pc' = "logs" /\ UNCHANGED <<step, setup>>
    BY <2>2 DEF Base, TypeOK, Steps, Names
  <2>3. CASE (NextName \/ Raise) /\ UNCHANGED setup
    BY <2>3, GotoTyped, NextNameTyped DEF Raise
  <2> QED BY <2>1, <2>2, <2>3 DEF Inspect
<1> QED BY <1>1, <1>2, <1>3, BaseFrame DEF Clearing

LEMMA BaseLogs ==
  ASSUME Base, UNCHANGED archiveVars, SaveLogs
  PROVE  Base'
<1>1. RemoteTyped' /\ faults' \in 0 .. MaxFaults /\ clean' \in BOOLEAN
  BY RemoteSame, FaultTyped DEF SaveLogs
<1>2. step' \in Steps' /\ pc' \in {"stop", "failed"}
  BY GotoTyped DEF SaveLogs, Raise, Base, TypeOK, Steps, Names
<1>3. logs' \subseteq [host : Hosts, name : AllNames, stamp : Stamps, launch : Stamps]
  <2>1. Exists(Host, Name) => box[Host][Name].launch \in Stamps
    BY AtStep DEF Base, TypeOK, Exists, Boxes
  <2>2. launch \in Stamps
    BY LaunchFacts DEF SaveLogs
  <2> QED BY <2>1, <2>2, AtStep DEF SaveLogs, Base, TypeOK
<1>4. TypeOK'
  BY <1>1, <1>2, <1>3 DEF SaveLogs, Base, TypeOK, RemoteTyped, Steps, Stamps, Ended, Names
<1>5. Stage'
  BY <1>2 DEF SaveLogs, Base, Stage, archiveVars, Clearing, Stamps
<1> QED BY <1>4, <1>5 DEF Base

LEMMA BaseHosts ==
  ASSUME Base, UNCHANGED archiveVars,
         (\E c \in late : Late(c)) \/ \E h \in Hosts, n \in AllNames : Dies(h, n)
  PROVE  Base'
<1>1. UNCHANGED <<setup, launch, tool, pc, step, logs, faults>> /\ clean' \in BOOLEAN
  BY DEF Late, Dies, Base, TypeOK
<1>2. RemoteTyped'
  <2>1. RemoteTyped /\ UNCHANGED setup
    BY <1>1 DEF Base, TypeOK, RemoteTyped
  <2>2. ASSUME NEW c \in late, Late(c)
        PROVE  RemoteTyped'
    <3>1. c.host \in Hosts /\ c.name \in AllNames /\ c.launch \in Stamps
      BY <2>1 DEF RemoteTyped
    <3>2. box' \in [Hosts -> [AllNames -> Boxes]]' /\ saved' \subseteq Saved'
      BY <2>1, <2>2, <3>1, DoesTyped DEF Late
    <3> QED BY <2>1, <2>2, <3>2 DEF RemoteTyped, Late, Stamps
  <2>3. ASSUME NEW h \in Hosts, NEW n \in AllNames, Dies(h, n)
        PROVE  RemoteTyped'
    <3>1. box[h][n] \in [launch : Stamps, up : BOOLEAN]
      BY <2>1, <2>3 DEF RemoteTyped, Dies, Boxes, NoBox
    <3>2. box' \in [Hosts -> [AllNames -> Boxes]]
      BY <2>1, <2>3, <3>1 DEF RemoteTyped, Dies, Boxes
    <3> QED BY <2>1, <2>3, <3>2 DEF RemoteTyped, Dies, Boxes, Stamps, Saved
  <2> QED BY <2>2, <2>3
<1>3. TypeOK'
  BY <1>1, <1>2 DEF Base, TypeOK, RemoteTyped, Stamps, Names
<1>4. Stage'
  BY <1>1 DEF Base, Stage, archiveVars, Stamps
<1> QED BY <1>3, <1>4 DEF Base

LEMMA BaseLauncher ==
  ASSUME Base, Next, UNCHANGED archiveVars
  PROVE  Base'
<1>1. ASSUME NEW t \in setup.tools \ {"archive"}, Begin(t)
      PROVE  Base'
  BY <1>1, BaseBegin, LauncherAssumption DEF Base, TypeOK
<1> QED
  BY <1>1, BaseProbe, BaseLogs, BaseCalls, BaseHosts DEF Next

LEMMA BaseInit == ArchiveInit => Base
<1> SUFFICES ASSUME ArchiveInit PROVE Base
  OBVIOUS
<1>1. TypeOK
  <2>1. Len(Names) \in Nat \ {0} /\ <<1, 1>> \in (1 .. N) \X (1 .. Len(Names))
    <3>1. setup \in Setups /\ N \in Nat \ {0}
      BY LauncherAssumption DEF ArchiveInit, Init
    <3>2. Names \in Seq(STRING) /\ \E m \in DOMAIN Names : Names[m] = Target
      BY <3>1, LauncherAssumption DEF Names
    <3> QED BY <3>1, <3>2
  <2>2. box \in [Hosts -> [AllNames -> Boxes]]
    BY DEF ArchiveInit, Init, Boxes
  <2> QED
    BY <2>1, <2>2, LauncherAssumption DEF ArchiveInit, Init, TypeOK, Ended
<1>2. Stage
  BY DEF ArchiveInit, Init, Stage, Clearing
<1> QED BY <1>1, <1>2 DEF Base

WorkStates == {"idle", "inspect", "logs", "config", "stop", "stopped", "failed"}

\* A worker changes nothing of the launchers' control.
LEMMA WorkerFrame ==
  ASSUME Base, NEW h \in Hosts, work[h] # "idle", NEW s \in WorkStates \ {"idle"}, Becomes(h, s),
         UNCHANGED <<setup, launch, tool, pc, step>>, RemoteTyped',
         faults' \in 0 .. MaxFaults, clean' \in BOOLEAN,
         info' \in [Hosts -> {0} \cup Stamps],
         logs' \subseteq [host : Hosts, name : AllNames, stamp : Stamps, launch : Stamps]
  PROVE  Base'
<1>1. pc = "archive"
  BY DEF Base, Stage
<1>2. TypeOK'
  BY DEF Base, TypeOK, RemoteTyped, Stamps, Names
<1>3. Stage'
  BY <1>1 DEF Base, Stage, Becomes, WorkStates, Clearing, Stamps
<1> QED BY <1>2, <1>3 DEF Base

LEMMA BaseArchive ==
  ASSUME Base, NEW h \in Hosts, Archive(h)
  PROVE  Base'
<1>1. launch \in Stamps /\ Target \in AllNames
  <2>1. pc # "idle"
    BY DEF Archive, InspectBox, FetchLogs, Asks, WriteConfig, StopBox, Base, Stage
  <2> QED BY <2>1, LaunchFacts, AtStep
<1>2. Exists(h, Target) => box[h][Target].launch \in Stamps
  BY <1>1 DEF Base, TypeOK, Exists, Boxes
<1>3. info \in [Hosts -> {0} \cup Stamps]
      /\ logs \subseteq [host : Hosts, name : AllNames, stamp : Stamps, launch : Stamps]
  BY DEF Base, TypeOK, Stage
<1>4. CASE InspectBox(h)
  <2>1. RemoteTyped' /\ faults' \in 0 .. MaxFaults /\ clean' \in BOOLEAN
    BY <1>4, RemoteSame, FaultTyped DEF InspectBox, Asks
  <2>2. /\ info' \in [Hosts -> {0} \cup Stamps] /\ UNCHANGED logs
        /\ Becomes(h, "logs") \/ Becomes(h, "failed")
    BY <1>2, <1>3, <1>4 DEF InspectBox, Asks
  <2> QED BY <1>3, <1>4, <2>1, <2>2, WorkerFrame DEF InspectBox, Asks, WorkStates
<1>5. CASE FetchLogs(h)
  <2>1. RemoteTyped' /\ faults' \in 0 .. MaxFaults /\ clean' \in BOOLEAN
    BY <1>5, RemoteSame, FaultTyped DEF FetchLogs, Asks
  <2>2. /\ logs' \subseteq [host : Hosts, name : AllNames, stamp : Stamps, launch : Stamps]
        /\ UNCHANGED info
        /\ Becomes(h, "config") \/ Becomes(h, "failed")
    BY <1>1, <1>2, <1>3, <1>5 DEF FetchLogs, Asks, Entry
  <2> QED BY <1>3, <1>5, <2>1, <2>2, WorkerFrame DEF FetchLogs, Asks, WorkStates
<1>6. CASE WriteConfig(h)
  <2>1. RemoteTyped' /\ faults' \in 0 .. MaxFaults /\ clean' \in BOOLEAN
    BY <1>6, RemoteSame, FaultTyped DEF WriteConfig, vars, remote
  <2> QED BY <1>3, <1>6, <2>1, WorkerFrame DEF WriteConfig, vars, WorkStates
<1>7. CASE StopBox(h)
  <2>1. RemoteTyped' /\ faults' \in 0 .. MaxFaults /\ clean' \in BOOLEAN
    <3>1. Effect("stop", h, Target) /\ (Fault \/ UNCHANGED <<faults, clean>>)
      BY <1>7, StopBoxEnds DEF EndsWell, EndsBadly, Effect
    <3>2. RemoteTyped /\ UNCHANGED setup
      BY <1>7, StopBoxEnds DEF Base, TypeOK, RemoteTyped
    <3> QED BY <1>1, <3>1, <3>2, EffectTyped, FaultTyped
  <2> QED BY <1>3, <1>7, <2>1, StopBoxEnds, WorkerFrame DEF WorkStates
<1> QED BY <1>4, <1>5, <1>6, <1>7 DEF Archive

LEMMA BasePool ==
  ASSUME Base, BeginArchive \/ EndArchive
  PROVE  Base'
<1>1. RemoteTyped' /\ step' \in Steps' /\ UNCHANGED setup
  BY RemoteSame, GotoTyped DEF BeginArchive, EndArchive, Raise
<1>2. launch' \in {0} \cup Stamps /\ launch' # 0 /\ clean' \in BOOLEAN
  <2>1. CASE BeginArchive
    BY <2>1, LaunchFacts DEF BeginArchive
  <2>2. CASE EndArchive
    BY <2>2, LaunchFacts DEF EndArchive, Stamps, Base, TypeOK
  <2> QED BY <2>1, <2>2
<1>3. TypeOK'
  BY <1>1, <1>2
     DEF BeginArchive, EndArchive, Goto, Raise, Base, TypeOK, RemoteTyped, Steps, Stamps,
         Ended, Names
<1>4. Stage'
  BY <1>2 DEF BeginArchive, EndArchive, Goto, Raise, Base, Stage, Clearing, Stamps
<1> QED BY <1>3, <1>4 DEF Base

LEMMA BaseNext == Base /\ [ArchiveNext]_allVars => Base'
<1> SUFFICES ASSUME Base, [ArchiveNext]_allVars PROVE Base'
  OBVIOUS
<1>1. CASE UNCHANGED allVars
  BY <1>1 DEF allVars, vars, remote, archiveVars, Base, TypeOK, Stage, Stamps, Saved, Boxes, Names
<1> QED
  BY <1>1, BaseLauncher, BaseArchive, BasePool DEF ArchiveNext

LEMMA BaseHolds == ArchiveSpec => []Base
BY BaseInit, BaseNext, PTL DEF ArchiveSpec

\* Every reachable state of the launchers is well typed: their loops over hosts and
\* names stay inside them, for any number of both (recover_eager.py:154-175).
THEOREM TypeCorrect == ArchiveSpec => []TypeOK
<1>1. Base => TypeOK
  BY DEF Base
<1> QED BY <1>1, BaseHolds, PTL

(***************************************************************************)
(* What an attempt has started                                             *)
(***************************************************************************)
LEMMA DoesStarts ==
  ASSUME RemoteTyped, NEW op, NEW h \in Hosts, NEW n \in AllNames, NEW k \in Stamps,
         Does(op, h, n, k)
  PROVE  /\ \A g \in Hosts, j \in Stamps :
              /\ StartedAs(g, j)' => StartedAs(g, j) \/ (op = "run" /\ g = h /\ j = k)
              /\ StartedAs(g, j) /\ op # "rm" => StartedAs(g, j)'
         /\ op = "run" /\ ~Exists(h, n) => StartedAs(h, k)'
<1>0. 0 \notin Stamps
  BY DEF Stamps
<1>1. CASE op = "stop" /\ Exists(h, n)
  <2>1. \A g \in Hosts, m \in AllNames : box'[g][m].launch = box[g][m].launch
    <3>1. box[h][n] \in [launch : Stamps, up : BOOLEAN]
      BY <1>1 DEF RemoteTyped, Exists, Boxes
    <3> QED BY <1>1, <3>1 DEF Does, RemoteTyped
  <2>2. saved' = saved
    BY <1>1 DEF Does
  <2> QED BY <1>1, <2>1, <2>2 DEF StartedAs
<1>2. CASE op \in {"rename", "rm"}
  <2>1. box' = [box EXCEPT ![h][n] = NoBox]
    BY <1>2 DEF Does
  <2>2. \A g \in Hosts, m \in AllNames :
          box'[g][m] = IF g = h /\ m = n THEN NoBox ELSE box[g][m]
    BY <2>1 DEF RemoteTyped
  <2>3. /\ saved \subseteq saved'
        /\ \A c \in saved' : c \in saved
             \/ (Exists(h, n) /\ c.host = h /\ c.launch = box[h][n].launch)
    BY DEF Does
  <2>4. op = "rename" /\ Exists(h, n) =>
          \E c \in saved' : c.host = h /\ c.launch = box[h][n].launch
    <3> DEFINE r == [host |-> h, name |-> n, launch |-> box[h][n].launch,
                     up |-> box[h][n].up, stamp |-> k]
    <3>1. op = "rename" /\ Exists(h, n) => r \in saved'
      BY DEF Does
    <3>2. r.host = h /\ r.launch = box[h][n].launch
      OBVIOUS
    <3> QED BY <3>1, <3>2
  <2>5. NoBox.launch = 0
    BY DEF NoBox
  <2>6. \A g \in Hosts, j \in Stamps : StartedAs(g, j)' => StartedAs(g, j)
    BY <1>0, <2>2, <2>3, <2>5 DEF StartedAs
  <2>7. \A g \in Hosts, j \in Stamps : StartedAs(g, j) /\ op = "rename" => StartedAs(g, j)'
    BY <1>0, <2>2, <2>3, <2>4, <2>5 DEF StartedAs, Exists
  <2> QED BY <1>2, <2>6, <2>7
<1>3. CASE op = "run" /\ ~Exists(h, n)
  <2>1. \A g \in Hosts, m \in AllNames :
          box'[g][m].launch = IF g = h /\ m = n THEN k ELSE box[g][m].launch
    BY <1>3 DEF Does, RemoteTyped
  <2>2. saved' = saved /\ box[h][n].launch = 0
    BY <1>3 DEF Does, Exists, NoBox
  <2> QED BY <1>0, <1>3, <2>1, <2>2 DEF StartedAs
<1>4. CASE ~(op = "stop" /\ Exists(h, n)) /\ op \notin {"rename", "rm"}
           /\ ~(op = "run" /\ ~Exists(h, n))
  <2>1. box' = box /\ saved' = saved
    BY <1>4 DEF Does
  <2> QED BY <1>4, <2>1 DEF StartedAs
<1> QED BY <1>1, <1>2, <1>3, <1>4

LEMMA EffectStarts ==
  ASSUME RemoteTyped, launch \in Stamps, UNCHANGED launch,
         NEW op \in {"stop", "rename", "run", "rm"}, NEW h \in Hosts, NEW n \in AllNames,
         Effect(op, h, n)
  PROVE  /\ \A g \in Hosts, j \in Stamps :
              /\ StartedAs(g, j)' => StartedAs(g, j) \/ (op = "run" /\ g = h /\ j = launch)
              /\ StartedAs(g, j) /\ op # "rm" => StartedAs(g, j)'
         /\ \A g \in Hosts : MayStart(g)' => MayStart(g) \/ (op = "run" /\ g = h)
         /\ \A c \in late' : c \in late \/ (c.op = op /\ c.launch = launch /\ setup.late)
<1>1. \A g \in Hosts, j \in Stamps :
         /\ StartedAs(g, j)' => StartedAs(g, j) \/ (op = "run" /\ g = h /\ j = launch)
         /\ StartedAs(g, j) /\ op # "rm" => StartedAs(g, j)'
  <2>1. CASE Does(op, h, n, launch)
    BY <2>1, DoesStarts
  <2>2. CASE UNCHANGED <<box, saved>>
    BY <2>2 DEF StartedAs
  <2>3. CASE /\ op = "run" /\ ~Exists(h, n) /\ UNCHANGED saved
             /\ box' = [box EXCEPT ![h][n] = [launch |-> launch, up |-> FALSE]]
    <3>1. \A g \in Hosts, m \in AllNames :
            box'[g][m].launch = IF g = h /\ m = n THEN launch ELSE box[g][m].launch
      BY <2>3 DEF RemoteTyped
    <3>2. box[h][n].launch = 0 /\ 0 \notin Stamps
      BY <2>3 DEF Exists, NoBox, Stamps
    <3> QED BY <2>3, <3>1, <3>2 DEF StartedAs
  <2> QED BY <2>1, <2>2, <2>3 DEF Effect, remote
<1>2. \A c \in late' : c \in late
        \/ (c.op = op /\ c.host = h /\ c.launch = launch /\ setup.late)
  BY DEF Effect, remote
<1>3. \A g : (Started(g) <=> StartedAs(g, launch)) /\ (Started(g)' <=> StartedAs(g, launch)')
  BY DEF Started, StartedAs
<1>4. \A g \in Hosts : MayStart(g)' => MayStart(g) \/ (op = "run" /\ g = h)
  BY <1>1, <1>2, <1>3 DEF MayStart, Ordered
<1> QED BY <1>1, <1>2, <1>4

\* A step that begins an attempt finds nothing under its number.
LEMMA StartsBegin ==
  ASSUME Base, Starts, UNCHANGED <<setup, remote>>, launch' = launch + 1,
         launch < setup.launches, pc' \in {"preflight", "rm", "archive"}
  PROVE  Starts'
<1>1. launch \in Nat /\ launch' \in Stamps /\ Stamps' = Stamps
  BY LaunchFacts DEF Stamps
<1>2. \A h \in Hosts : \A k \in Stamps : StartedAs(h, k)' <=> StartedAs(h, k)
  BY DEF StartedAs, remote
<1>3. \A h \in Hosts, k \in Stamps : StartedAs(h, k)' => k < launch'
  BY <1>1, <1>2 DEF Starts, Stamps
<1>4. \A c \in late' : c.launch < launch' /\ c.launch \in Stamps
  BY <1>1 DEF Starts, Base, TypeOK, Stamps, remote
<1>5. \A h \in Hosts : ~MayStart(h)'
  <2>1. launch' \in Nat /\ ~(launch' < launch')
    BY <1>1
  <2>2. \A h \in Hosts : ~Started(h)'
    BY <1>1, <1>3, <2>1 DEF Started, StartedAs
  <2>3. \A h \in Hosts : ~Ordered(h)'
    BY <1>4, <2>1 DEF Ordered
  <2> QED BY <2>2, <2>3 DEF MayStart
<1>6. 0 \in Hosts
  BY LauncherAssumption DEF Hosts
<1>7. \A h \in Hosts, k \in Stamps : StartedAs(h, k)' => k <= launch'
  BY <1>1, <1>3 DEF Stamps
<1>8. \A c \in late' : c.launch <= launch'
  BY <1>1, <1>4 DEF Stamps
<1>9. NoLateRemoval => \A c \in late' : c.op # "rm"
  BY DEF Starts, remote
<1> QED BY <1>1, <1>5, <1>6, <1>7, <1>8, <1>9 DEF Starts, NoLateRemoval

\* A step that starts nothing, taken before the attempt starts anything.
LEMMA StartsNothing ==
  ASSUME Base, Starts, UNCHANGED <<setup, launch>>, pc \in Before \cup {"archive"},
         pc' \in Before \cup {"archive", "failed", "archived", "run"},
         pc' = "run" => step'[1] = 1,
         \A g \in Hosts, j \in Stamps : StartedAs(g, j)' => StartedAs(g, j),
         \A g \in Hosts : MayStart(g)' => MayStart(g),
         \A c \in late' : c \in late \/ (c.launch = launch /\ (NoLateRemoval => c.op # "rm"))
  PROVE  Starts'
<1>1. launch \in Stamps /\ launch \in Nat /\ launch > 0 /\ Stamps' = Stamps
  BY LaunchFacts DEF Before, Clearing, Stamps
<1>2. \A h \in Hosts : ~MayStart(h)'
  BY <1>1 DEF Starts
<1>3. 0 \in Hosts
  BY LauncherAssumption DEF Hosts
<1>4. \A c \in late' : c.launch <= launch'
  BY <1>1 DEF Starts
<1>5. NoLateRemoval => \A c \in late' : c.op # "rm"
  BY DEF Starts
<1>6. \A h \in Hosts, k \in Stamps : StartedAs(h, k)' => k <= launch'
  BY DEF Starts
<1>7. pc' = "run" => 1 .. step'[1] - 1 = {}
  OBVIOUS
<1> QED BY <1>1, <1>2, <1>3, <1>4, <1>5, <1>6, <1>7 DEF Starts, NoLateRemoval

\* A step of a host, which starts nothing but what was ordered before.
LEMMA StartsKept ==
  ASSUME Starts, UNCHANGED <<setup, launch, pc, step>>,
         \A g \in Hosts, j \in Stamps : StartedAs(g, j)' => j <= launch,
         \A g \in Hosts : MayStart(g)' => MayStart(g),
         NoLateRemoval /\ launch > 0 => \A g \in Hosts : Started(g) => Started(g)',
         late' \subseteq late, pc \in {"run", "done"} => launch > 0, step[1] \in 1 .. N
  PROVE  NoLateRemoval => Starts'
<1>1. 0 \in Hosts /\ 1 .. step[1] - 1 \subseteq Hosts /\ Stamps' = Stamps
  BY LauncherAssumption DEF Hosts, Stamps
<1> SUFFICES ASSUME NoLateRemoval PROVE Starts'
  OBVIOUS
<1>2. \A c \in late' : c.launch <= launch' /\ c.op # "rm"
  BY DEF Starts
<1>3. launch' > 0 /\ pc' \in Before \cup {"archive"} => \A h \in Hosts : ~MayStart(h)'
  BY DEF Starts
<1>4. pc' = "run" => ~MayStart(0)' /\ \A h \in 1 .. step'[1] - 1 : Started(h)'
  BY <1>1 DEF Starts
<1>5. launch' > 0 /\ MayStart(0)' => \A h \in Hosts : h # 0 => Started(h)'
  BY <1>1 DEF Starts
<1> QED BY <1>1, <1>2, <1>3, <1>4, <1>5 DEF Starts, NoLateRemoval

\* The calls made before the attempt starts anything.
LEMMA StartsBefore ==
  ASSUME Base, Starts, UNCHANGED <<setup, launch>>, pc \in Before \cup {"archive"},
         pc' \in Before \cup {"archive", "failed", "archived", "run"},
         pc' = "run" => step'[1] = 1,
         NEW op \in {"stop", "rename", "rm"}, op = "rm" => pc = "rm",
         NEW h \in Hosts, NEW n \in AllNames, EndsWell(op, h, n) \/ EndsBadly(op, h, n)
  PROVE  Starts'
<1>1. Effect(op, h, n) /\ RemoteTyped /\ launch \in Stamps
  BY LaunchFacts DEF EndsWell, EndsBadly, Effect, Base, TypeOK, RemoteTyped, Before, Clearing
<1>2. NoLateRemoval /\ setup.late => op # "rm"
  BY DEF NoLateRemoval, Base, TypeOK, Stage
<1>3. op \in {"stop", "rename", "run", "rm"} /\ op # "run"
  OBVIOUS
<1>4. /\ \A g \in Hosts, j \in Stamps : StartedAs(g, j)' => StartedAs(g, j)
      /\ \A g \in Hosts : MayStart(g)' => MayStart(g)
      /\ \A c \in late' : c \in late \/ (c.op = op /\ c.launch = launch /\ setup.late)
  BY <1>1, <1>3, EffectStarts
<1> QED BY <1>2, <1>4, StartsNothing

LEMMA StartsProbe ==
  ASSUME Base, Starts, UNCHANGED <<setup, launch, remote>>, pc \in Before \cup {"archive"},
         pc' \in Before \cup {"archive", "failed", "archived", "run"},
         pc' = "run" => step'[1] = 1
  PROVE  Starts'
<1>1. \A g \in Hosts, j \in Stamps : StartedAs(g, j)' => StartedAs(g, j)
  BY DEF StartedAs, remote
<1>2. \A g \in Hosts : MayStart(g)' => MayStart(g)
  BY DEF MayStart, Started, Ordered, remote
<1> QED BY <1>1, <1>2, StartsNothing DEF remote

LEMMA StartsRun ==
  ASSUME Base, Starts, NoLateRemoval, UNCHANGED archiveVars, Run
  PROVE  Starts'
<1>1. /\ pc = "run" /\ UNCHANGED <<setup, launch>> /\ launch \in Stamps /\ launch > 0
      /\ Stamps' = Stamps /\ RemoteTyped /\ RunHost \in Hosts /\ RunName \in AllNames
      /\ step[1] \in 1 .. N /\ 0 \in Hosts /\ Hosts = 0 .. N - 1
  BY RunEnds, LaunchFacts, AtStep, LauncherAssumption, SMTT(30)
     DEF Quiet, Base, TypeOK, RemoteTyped, Stamps, Hosts
<1>2. Effect("run", RunHost, RunName)
  BY RunEnds DEF EndsWell, EndsBadly, Effect
<1>3. /\ \A g \in Hosts, j \in Stamps :
           /\ StartedAs(g, j)' => StartedAs(g, j) \/ (g = RunHost /\ j = launch)
           /\ StartedAs(g, j) => StartedAs(g, j)'
      /\ \A g \in Hosts : MayStart(g)' => MayStart(g) \/ g = RunHost
      /\ \A c \in late' : c \in late \/ (c.op = "run" /\ c.launch = launch /\ setup.late)
  BY <1>1, <1>2, EffectStarts
<1>4. \A g \in Hosts : Started(g) => Started(g)'
  BY <1>1, <1>3 DEF Started, StartedAs
<1>5. /\ \A h \in Hosts, k \in Stamps' : StartedAs(h, k)' => k <= launch'
      /\ \A c \in late' : c.launch <= launch'
      /\ \A c \in late' : c.op # "rm"
  BY <1>1, <1>3 DEF Starts, Stamps
<1>6. ~MayStart(0) /\ \A h \in 1 .. step[1] - 1 : Started(h)'
  <2>1. \A h \in 1 .. step[1] - 1 : h \in Hosts
    BY <1>1, LauncherAssumption
  <2>2. ~MayStart(0) /\ \A h \in 1 .. step[1] - 1 : Started(h)
    BY <1>1 DEF Starts
  <2> QED BY <1>4, <2>1, <2>2
<1>7. RunHost # 0 => ~MayStart(0)'
  BY <1>1, <1>3, <1>6
<1>8. RunHost = 0 => \A h \in Hosts : h # 0 => Started(h)'
  <2>1. RunHost = 0 => step[1] = N
    BY <1>1, LauncherAssumption DEF RunHost
  <2>2. \A h \in Hosts : h # 0 /\ step[1] = N => h \in 1 .. step[1] - 1
    BY <1>1, LauncherAssumption
  <2> QED BY <1>6, <2>1, <2>2
<1>9. CASE Raise /\ EndsBadly("run", RunHost, RunName)
  BY <1>1, <1>5, <1>7, <1>8, <1>9 DEF Starts, Raise, Goto, Before, Clearing
<1>10. CASE /\ EndsWell("run", RunHost, RunName)
            /\ IF step[1] < N THEN step' = <<step[1] + 1, 1>> /\ UNCHANGED pc ELSE Goto("done")
  <2> PICK r \in Hosts : r = RunHost
    BY <1>1
  <2>1. Started(r)'
    <3>1. Does("run", RunHost, RunName, launch) /\ ~Exists(RunHost, RunName)
      BY <1>10 DEF EndsWell, Succeeds
    <3>2. \E n \in AllNames : box'[RunHost][n].launch = launch
      BY <1>1, <3>1 DEF Does, RemoteTyped
    <3> QED BY <1>1, <3>2 DEF Started
  <2>2. CASE step[1] < N
    <3>1. RunHost = step[1] /\ step'[1] = step[1] + 1 /\ pc' = "run"
      BY <1>1, <1>10, <2>2 DEF RunHost
    <3>2. \A h \in 1 .. step'[1] - 1 : h \in 1 .. step[1] - 1 \/ h = r
      BY <1>1, <3>1
    <3>4. \A h \in 1 .. step'[1] - 1 : Started(h)'
      BY <1>6, <2>1, <3>2
    <3>3. ~MayStart(0)'
      BY <1>1, <1>7, <3>1
    <3> QED BY <1>1, <1>5, <3>1, <3>3, <3>4 DEF Starts, Before, Clearing
  <2>3. CASE ~(step[1] < N)
    <3>1. RunHost = 0 /\ pc' = "done"
      BY <1>1, <1>10, <2>3 DEF RunHost, Goto
    <3> QED BY <1>1, <1>5, <1>8, <3>1 DEF Starts, Before, Clearing
  <2> QED BY <2>2, <2>3
<1> QED BY <1>9, <1>10, RunEnds

LEMMA StartsLate ==
  ASSUME Base, Starts, NoLateRemoval, NEW c \in late, Late(c)
  PROVE  Starts'
<1>1. /\ UNCHANGED <<setup, launch, pc, step>> /\ late' \subseteq late /\ RemoteTyped
      /\ c.host \in Hosts /\ c.name \in AllNames /\ c.launch \in Stamps /\ c.launch <= launch
      /\ c.op # "rm" /\ Does(c.op, c.host, c.name, c.launch)
  BY DEF Late, Base, TypeOK, RemoteTyped, Starts
<1>2. \A g \in Hosts, j \in Stamps :
        /\ StartedAs(g, j)' => StartedAs(g, j) \/ (c.op = "run" /\ g = c.host /\ j = c.launch)
        /\ StartedAs(g, j) => StartedAs(g, j)'
  BY <1>1, DoesStarts
<1>3. launch > 0 => launch \in Stamps
  BY DEF Base, TypeOK, Stamps
<1>4. \A g \in Hosts, j \in Stamps : StartedAs(g, j)' => j <= launch
  BY <1>1, <1>2 DEF Starts
<1>5. launch > 0
  BY <1>1, LaunchFacts DEF Stamps
<1>6. \A g \in Hosts : Started(g)' => Started(g) \/ (c.op = "run" /\ g = c.host /\ launch = c.launch)
  BY <1>1, <1>2, <1>3, <1>5 DEF Started, StartedAs
<1>7. \A g \in Hosts : MayStart(g)' => MayStart(g)
  BY <1>1, <1>6 DEF MayStart, Ordered
<1>8. \A g \in Hosts : Started(g) => Started(g)'
  BY <1>1, <1>2, <1>3, <1>5 DEF Started, StartedAs
<1> QED BY <1>1, <1>4, <1>5, <1>7, <1>8, AtStep, StartsKept

\* A container that dies is still there, under its name.
LEMMA DiesBox ==
  ASSUME Base, NEW h \in Hosts, NEW n \in AllNames, Dies(h, n)
  PROVE  \A g \in Hosts, m \in AllNames :
           /\ box'[g][m].launch = box[g][m].launch
           /\ box'[g][m].up => box[g][m].up
           /\ Exists(g, m)' <=> Exists(g, m)
<1>1. box[h][n] \in [launch : Stamps, up : BOOLEAN] /\ box \in [Hosts -> [AllNames -> Boxes]]
  BY DEF Dies, Base, TypeOK, Boxes, NoBox
<1>2. /\ \A g \in Hosts, m \in AllNames : ~(g = h /\ m = n) => box'[g][m] = box[g][m]
      /\ box'[h][n].launch = box[h][n].launch /\ ~box'[h][n].up
  BY <1>1 DEF Dies
<1>3. Exists(h, n) /\ box[h][n].up
  BY DEF Dies, Exists, NoBox
<1>4. Exists(h, n)'
  BY <1>1, <1>2 DEF Exists, NoBox, Stamps
<1> QED BY <1>2, <1>3, <1>4 DEF Exists

LEMMA StartsDies ==
  ASSUME Base, Starts, NoLateRemoval, NEW h \in Hosts, NEW n \in AllNames, Dies(h, n)
  PROVE  Starts'
<1>1. UNCHANGED <<setup, launch, pc, step, saved, late>>
  BY DEF Dies
<1>2. \A g \in Hosts, m \in AllNames : box'[g][m].launch = box[g][m].launch
  BY DiesBox
<1>3. \A g \in Hosts, j \in Stamps : StartedAs(g, j)' <=> StartedAs(g, j)
  BY <1>1, <1>2 DEF StartedAs
<1>4. \A g \in Hosts : Started(g)' <=> Started(g)
  BY <1>1, <1>2 DEF Started
<1>5. \A g \in Hosts : MayStart(g)' => MayStart(g)
  BY <1>1, <1>4 DEF MayStart, Ordered
<1>6. pc \in {"run", "done"} => launch > 0
  BY LaunchFacts DEF Stamps
<1>7. \A g \in Hosts, j \in Stamps : StartedAs(g, j)' => j <= launch
  BY <1>3 DEF Starts
<1> QED BY <1>1, <1>4, <1>5, <1>6, <1>7, AtStep, StartsKept

LEMMA NextNameRuns ==
  ASSUME NextName
  PROVE  pc' \in {"inspect", "run"} /\ (pc' = "run" => step'[1] = 1)
BY DEF NextName, Goto

LEMMA StartsNext == Base /\ Starts /\ NoLateRemoval /\ [ArchiveNext]_allVars => Starts'
<1> SUFFICES ASSUME Base, Starts, NoLateRemoval, [ArchiveNext]_allVars PROVE Starts'
  OBVIOUS
<1>1. CASE UNCHANGED allVars
  <2>1. UNCHANGED <<setup, launch, pc, step, box, saved, late>>
    BY <1>1 DEF allVars, vars, remote
  <2>2. /\ \A g \in Hosts, j \in Stamps : StartedAs(g, j)' <=> StartedAs(g, j)
        /\ \A g \in Hosts : Started(g)' <=> Started(g)
        /\ \A g \in Hosts : MayStart(g)' <=> MayStart(g)
    BY <2>1 DEF StartedAs, Started, MayStart, Ordered
  <2>3. pc \in {"run", "done"} => launch > 0
    BY LaunchFacts DEF Stamps
  <2>4. \A g \in Hosts, j \in Stamps : StartedAs(g, j)' => j <= launch
    BY <2>2 DEF Starts
  <2> QED BY <2>1, <2>2, <2>3, <2>4, AtStep, StartsKept
<1>2. ASSUME NEW t, Begin(t)
      PROVE  Starts'
  BY <1>2, StartsBegin DEF Begin, Goto
<1>3. CASE Preflight \/ Inspect \/ SaveLogs
  BY <1>3, NextNameRuns, StartsProbe
     DEF Preflight, Inspect, SaveLogs, Raise, Goto, Before, Clearing
<1>4. CASE StopOld /\ UNCHANGED archiveVars
  BY <1>4, StopOldEnds, AtStep, StartsBefore DEF Raise, Goto, Before, Clearing, Quiet
<1>5. CASE RenameOld /\ UNCHANGED archiveVars
  BY <1>5, RenameOldEnds, NextNameRuns, AtStep, StartsBefore
     DEF Raise, Goto, Before, Clearing, Quiet
<1>6. CASE RemoveOld /\ UNCHANGED archiveVars
  BY <1>6, RemoveOldEnds, AtStep, StartsBefore DEF Raise, Goto, Before, Clearing, Quiet
<1>7. CASE BeginArchive
  BY <1>7, StartsBegin DEF BeginArchive, Goto
<1>8. CASE EndArchive
  BY <1>8, StartsProbe DEF EndArchive, Raise, Goto
<1>9. ASSUME NEW h \in Hosts, Archive(h)
      PROVE  Starts'
  <2>1. pc = "archive"
    BY <1>9 DEF Archive, InspectBox, FetchLogs, Asks, WriteConfig, StopBox, Base, Stage
  <2>2. CASE InspectBox(h) \/ FetchLogs(h) \/ WriteConfig(h)
    <3>1. UNCHANGED <<setup, launch, pc, remote>>
      <4>1. CASE InspectBox(h)
        BY <4>1 DEF InspectBox, Asks
      <4>2. CASE FetchLogs(h)
        BY <4>2 DEF FetchLogs, Asks
      <4>3. CASE WriteConfig(h)
        BY <4>3 DEF WriteConfig, vars, remote
      <4> QED BY <2>2, <4>1, <4>2, <4>3
    <3> QED BY <2>1, <3>1, StartsProbe
  <2>3. CASE StopBox(h)
    BY <2>1, <2>3, StopBoxEnds, AtStep, StartsBefore
  <2> QED BY <1>9, <2>2, <2>3 DEF Archive
<1> QED
  BY <1>1, <1>2, <1>3, <1>4, <1>5, <1>6, <1>7, <1>8, <1>9, StartsRun, StartsLate, StartsDies
     DEF ArchiveNext, Next

LEMMA StartsHold == ASSUME NoLateRemoval PROVE ArchiveSpec => []Starts
<1>1. ArchiveInit => Starts
  BY DEF ArchiveInit, Init, Starts, StartedAs, NoBox, Stamps
<1>2. Base /\ Starts /\ [ArchiveNext]_allVars => Starts'
  BY StartsNext
<1> QED BY <1>1, <1>2, BaseHolds, PTL DEF ArchiveSpec

(***************************************************************************)
(* What an attempt holds under its name                                    *)
(***************************************************************************)
\* A step that begins an attempt: all that may still run is of earlier ones.
LEMMA GroupBegin ==
  ASSUME Base, Starts, Group, UNCHANGED <<setup, remote>>, launch' = launch + 1,
         pc' \in {"preflight", "rm", "archive"}
  PROVE  Group'
<1>1. launch \in Nat /\ \A c \in late : c.launch \in Nat /\ c.launch <= launch
  BY LaunchFacts DEF Starts, Base, TypeOK, Stamps
<1>2. \A c \in late' : c.launch < launch'
  BY <1>1 DEF remote
<1> QED BY <1>2 DEF Group, remote

\* A step taken before the attempt starts anything: only one that breaks it off can
\* leave a command of it behind.
LEMMA GroupBefore ==
  ASSUME Group, UNCHANGED <<setup, launch>>, pc \in Before \cup {"archive"},
         pc' # "done", pc' = "run" => step'[1] = 1,
         pc = "archive" => pc' \notin Before \cup {"run"},
         late' # late => setup.late /\ pc' \notin Before \cup {"run"}
  PROVE  Group'
<1>1. pc' = "run" => 1 .. step'[1] - 1 = {}
  OBVIOUS
<1>2. late' # {} => setup'.late
  BY DEF Group
<1>3. pc' \in Before \cup {"run", "done"} => \A c \in late' : c.launch < launch'
  BY DEF Group
<1> QED BY <1>1, <1>2, <1>3 DEF Group

LEMMA GroupCall ==
  ASSUME Group, Quiet, pc \in Before, pc' # "done", pc' = "run" => step'[1] = 1,
         NEW op, NEW h, NEW n,
         EndsWell(op, h, n) \/ (EndsBadly(op, h, n) /\ Raise)
  PROVE  Group'
<1>1. late' # late => setup.late /\ pc' = "failed"
  BY DEF EndsWell, EndsBadly, Effect, remote, Raise, Goto
<1>2. pc # "archive" /\ "failed" \notin Before \cup {"run"}
  BY DEF Before, Clearing
<1> QED BY <1>1, <1>2, GroupBefore DEF Quiet

\* A step of a host.
LEMMA GroupKept ==
  ASSUME Base, Group, UNCHANGED <<setup, launch, pc, step>>, late' \subseteq late,
         \A h \in Hosts : pc \in {"run", "done"} /\ Held(h) => Held(h)'
  PROVE  Group'
<1>1. 1 .. step[1] - 1 \subseteq Hosts
  BY AtStep, LauncherAssumption DEF Hosts
<1>2. pc' = "run" => \A h \in 1 .. step'[1] - 1 : Held(h)'
  BY <1>1 DEF Group
<1>3. pc' = "done" => \A h \in Hosts : Held(h)'
  BY DEF Group
<1> QED BY <1>2, <1>3 DEF Group

LEMMA GroupRun ==
  ASSUME Base, Group, UNCHANGED archiveVars, Run
  PROVE  Group'
<1>1. /\ pc = "run" /\ UNCHANGED <<setup, launch, tool>> /\ RunHost \in Hosts
      /\ RunName \in AllNames /\ step[1] \in 1 .. N /\ N \in Nat \ {0} /\ RunName' = RunName
      /\ box \in [Hosts -> [AllNames -> Boxes]]
  BY RunEnds, AtStep, LauncherAssumption DEF Quiet, Base, TypeOK, RunName
<1>2. CASE EndsBadly("run", RunHost, RunName) /\ Raise
  <2>1. late' # {} => setup.late
    BY <1>2 DEF EndsBadly, Effect, remote, Group
  <2> QED BY <1>1, <1>2, <2>1 DEF Raise, Goto, Group, Before, Clearing
<1>3. CASE /\ EndsWell("run", RunHost, RunName)
           /\ IF step[1] < N THEN step' = <<step[1] + 1, 1>> /\ UNCHANGED pc ELSE Goto("done")
  <2>1. /\ box' = [box EXCEPT ![RunHost][RunName] = [launch |-> launch, up |-> TRUE]]
        /\ UNCHANGED <<saved, late>>
    BY <1>3 DEF EndsWell, Succeeds, Does
  <2> PICK r \in Hosts : r = RunHost
    BY <1>1
  <2>2. Mine(r)'
    BY <1>1, <2>1 DEF Mine
  <2>3. \A h \in Hosts : Held(h) => Held(h)'
    <3>1. \A h \in Hosts : h # r => box'[h][RunName] = box[h][RunName]
      BY <1>1, <2>1
    <3> QED BY <1>1, <2>1, <2>2, <3>1 DEF Held, Mine, Displaced
  <2>4. \A h \in 1 .. step[1] - 1 : Held(h)'
    <3>1. 1 .. step[1] - 1 \subseteq Hosts
      BY <1>1 DEF Hosts
    <3> QED BY <1>1, <2>3, <3>1 DEF Group
  <2>5. Held(r)'
    BY <2>2 DEF Held
  <2>6. \A c \in late' : c.launch < launch'
    BY <1>1, <2>1 DEF Group
  <2>7. late' # {} => setup'.late
    BY <1>1, <2>1 DEF Group
  <2>8. CASE step[1] < N
    <3>1. RunHost = step[1] /\ step'[1] = step[1] + 1 /\ pc' = "run"
      BY <1>1, <1>3, <2>8 DEF RunHost
    <3>2. \A h \in 1 .. step'[1] - 1 : h \in 1 .. step[1] - 1 \/ h = r
      BY <1>1, <3>1
    <3>3. \A h \in 1 .. step'[1] - 1 : Held(h)'
      BY <2>4, <2>5, <3>2
    <3> QED BY <2>6, <2>7, <3>1, <3>3 DEF Group
  <2>9. CASE ~(step[1] < N)
    <3>1. RunHost = 0 /\ pc' = "done" /\ step[1] = N
      BY <1>1, <1>3, <2>9 DEF RunHost, Goto
    <3>2. \A h \in Hosts : h \in 1 .. step[1] - 1 \/ h = r
      BY <1>1, <3>1 DEF Hosts
    <3>3. \A h \in Hosts : Held(h)'
      BY <2>4, <2>5, <3>2
    <3> QED BY <2>6, <2>7, <3>1, <3>3 DEF Group
  <2> QED BY <2>8, <2>9
<1> QED BY <1>2, <1>3, RunEnds

\* A late command of an earlier attempt leaves this one's container where it is, or
\* puts it aside with the earlier stamp.
LEMMA HeldLate ==
  ASSUME Base, Starts, Group, NoLateRemoval, NEW c \in late, Late(c),
         pc \in {"run", "done"}, NEW h \in Hosts, Held(h)
  PROVE  Held(h)'
<1>1. /\ UNCHANGED <<setup, launch, tool>> /\ RunName' = RunName /\ RunName \in AllNames
      /\ c.host \in Hosts /\ c.name \in AllNames /\ Does(c.op, c.host, c.name, c.launch)
      /\ box \in [Hosts -> [AllNames -> Boxes]] /\ c.op \in {"stop", "rename", "run"}
  BY AtStep DEF Late, Base, TypeOK, RunName, Starts
<1>2. setup.late /\ c.launch < launch
  BY DEF Group
<1>3. launch # 0
  BY LaunchFacts DEF Stamps
<1>4. CASE Displaced(h)
  <2>1. saved \subseteq saved'
    BY <1>1 DEF Does
  <2> QED BY <1>1, <1>2, <1>4, <2>1 DEF Held, Displaced
<1>5. CASE Mine(h) /\ c.op = "rename" /\ c.host = h /\ c.name = RunName
  <2> DEFINE r == [host |-> h, name |-> RunName, launch |-> box[h][RunName].launch,
                   up |-> box[h][RunName].up, stamp |-> c.launch]
  <2>1. Exists(h, RunName) /\ box[h][RunName].launch = launch
    BY <1>3, <1>5 DEF Mine, Exists, NoBox
  <2>2. r \in saved'
    BY <1>1, <1>5, <2>1 DEF Does
  <2>3. r.host = h /\ r.launch = launch /\ r.stamp < launch
    BY <1>2, <2>1
  <2> QED BY <1>1, <1>2, <2>2, <2>3 DEF Held, Displaced
<1>6. CASE Mine(h) /\ ~(c.op = "rename" /\ c.host = h /\ c.name = RunName)
  <2>1. Exists(h, RunName) /\ box[h][RunName] \in [launch : Stamps, up : BOOLEAN]
    BY <1>1, <1>3, <1>6 DEF Mine, Exists, NoBox, Boxes
  <2>2. box'[h][RunName].launch = box[h][RunName].launch
    <3>1. CASE c.op = "stop"
      BY <1>1, <2>1, <3>1 DEF Does
    <3>2. CASE c.op = "rename"
      BY <1>1, <1>6, <2>1, <3>2 DEF Does
    <3>3. CASE c.op = "run"
      <4>1. CASE c.host = h /\ c.name = RunName
        BY <1>1, <2>1, <3>3, <4>1 DEF Does
      <4>2. CASE ~(c.host = h /\ c.name = RunName)
        BY <1>1, <3>3, <4>2 DEF Does
      <4> QED BY <4>1, <4>2
    <3> QED BY <1>1, <3>1, <3>2, <3>3
  <2> QED BY <1>1, <1>6, <2>2 DEF Held, Mine
<1> QED BY <1>4, <1>5, <1>6 DEF Held

LEMMA GroupNext ==
  Base /\ Starts /\ Group /\ NoLateRemoval /\ [ArchiveNext]_allVars => Group'
<1> SUFFICES ASSUME Base, Starts, Group, NoLateRemoval, [ArchiveNext]_allVars PROVE Group'
  OBVIOUS
<1>1. CASE UNCHANGED allVars
  BY <1>1 DEF allVars, vars, remote, Group, Held, Mine, Displaced, RunName
<1>2. ASSUME NEW t, Begin(t)
      PROVE  Group'
  BY <1>2, GroupBegin DEF Begin, Goto
<1>3. CASE Preflight \/ Inspect \/ SaveLogs
  BY <1>3, NextNameRuns, GroupBefore
     DEF Preflight, Inspect, SaveLogs, Raise, Goto, Before, Clearing, remote
<1>4. CASE StopOld /\ UNCHANGED archiveVars
  BY <1>4, StopOldEnds, GroupCall DEF Raise, Goto, Before, Clearing
<1>5. CASE RenameOld /\ UNCHANGED archiveVars
  BY <1>5, RenameOldEnds, NextNameRuns, GroupCall DEF Raise, Goto, Before, Clearing
<1>6. CASE RemoveOld /\ UNCHANGED archiveVars
  BY <1>6, RemoveOldEnds, GroupCall DEF Raise, Goto, Before, Clearing
<1>7. CASE BeginArchive
  BY <1>7, GroupBegin DEF BeginArchive, Goto
<1>8. CASE EndArchive
  BY <1>8, GroupBefore DEF EndArchive, Raise, Goto, remote, Before, Clearing
<1>9. ASSUME NEW h \in Hosts, Archive(h)
      PROVE  Group'
  <2>1. pc = "archive" /\ "archive" \notin Before \cup {"run"}
    BY <1>9 DEF Archive, InspectBox, FetchLogs, Asks, WriteConfig, StopBox, Base, Stage,
       Before, Clearing
  <2>2. UNCHANGED <<setup, launch, pc>> /\ (late' # late => setup.late)
    <3>1. CASE InspectBox(h)
      BY <3>1 DEF InspectBox, Asks, remote
    <3>2. CASE FetchLogs(h)
      BY <3>2 DEF FetchLogs, Asks, remote
    <3>3. CASE WriteConfig(h)
      BY <3>3 DEF WriteConfig, vars, remote
    <3>4. CASE StopBox(h)
      BY <3>4, StopBoxEnds DEF EndsWell, EndsBadly, Effect, remote
    <3> QED BY <1>9, <3>1, <3>2, <3>3, <3>4 DEF Archive
  <2> QED BY <2>1, <2>2, GroupBefore
<1>10. ASSUME NEW c \in late, Late(c)
       PROVE  Group'
  BY <1>10, HeldLate, GroupKept DEF Late
<1>11. ASSUME NEW h \in Hosts, NEW n \in AllNames, Dies(h, n)
       PROVE  Group'
  <2>1. UNCHANGED <<setup, launch, tool, pc, step, saved, late>> /\ RunName \in AllNames
    BY <1>11, AtStep DEF Dies
  <2>2. \A g \in Hosts : Held(g) => Held(g)'
    BY <1>11, <2>1, DiesBox DEF Held, Mine, Displaced, RunName
  <2> QED BY <2>1, <2>2, GroupKept
<1> QED
  BY <1>1, <1>2, <1>3, <1>4, <1>5, <1>6, <1>7, <1>8, <1>9, <1>10, <1>11, GroupRun
     DEF ArchiveNext, Next

LEMMA GroupHolds == ASSUME NoLateRemoval PROVE ArchiveSpec => []Group
<1>1. ArchiveInit => Group
  BY DEF ArchiveInit, Init, Group, Before, Clearing
<1>2. Base /\ Starts /\ Group /\ [ArchiveNext]_allVars => Group'
  BY GroupNext
<1> QED BY <1>1, <1>2, BaseHolds, StartsHold, PTL DEF ArchiveSpec

\* When an attempt has ended well, the containers of the name it launched are its own
\* on every host, but for those that a late rename of an earlier attempt has put aside:
\* for any number of hosts, attempts and failing calls, as long as no docker rm given
\* up on can run late (recover_eager.py:154-175).
THEOREM EveryHostStarted ==
  ASSUME NoLateRemoval
  PROVE  ArchiveSpec => []OneGeneration
<1>1. Group => OneGeneration
  BY DEF Group, Held, OneGeneration
<1> QED BY <1>1, GroupHolds, PTL

\* When rank 0 of an attempt exists, so do all other ranks (README.md:88).
THEOREM RankZeroIsLast ==
  ASSUME NoLateRemoval
  PROVE  ArchiveSpec => []RankZeroLast
<1>1. Starts => RankZeroLast
  BY DEF Starts, RankZeroLast, MayStart
<1> QED BY <1>1, StartsHold, PTL

(***************************************************************************)
(* What is put aside                                                       *)
(***************************************************************************)
LEMMA EffectAside ==
  ASSUME NEW op, NEW h, NEW n, EndsWell(op, h, n) \/ EndsBadly(op, h, n)
  PROVE  /\ op # "rename" => saved' = saved
         /\ ~setup.late => late' = late
BY DEF EndsWell, EndsBadly, Effect, Does, remote

\* A step that puts nothing aside and is not about a container found.
LEMMA AsideFrame ==
  ASSUME Aside, UNCHANGED <<setup, saved>>, logs \subseteq logs', ~setup.late => late' = late,
         pc' \notin {"stop", "rename"}
  PROVE  Aside'
BY DEF Aside, Preserved

LEMMA AsideSave ==
  ASSUME Base, Aside, SaveLogs
  PROVE  Aside'
<1>1. CASE pc' = "failed"
  BY <1>1, AsideFrame DEF SaveLogs, remote
<1>2. CASE pc' # "failed"
  <2>1. UNCHANGED <<setup, launch, step, remote>> /\ pc' = "stop"
        /\ logs' = logs \cup {[host |-> Host, name |-> Name, stamp |-> launch,
                               launch |-> box[Host][Name].launch]}
    BY <1>2 DEF SaveLogs, Raise, Goto
  <2> QED BY <2>1 DEF Aside, Preserved, Host, Name, Names, remote
<1> QED BY <1>1, <1>2

LEMMA AsideStop ==
  ASSUME Base, Aside, StopOld, UNCHANGED archiveVars
  PROVE  Aside'
<1>1. UNCHANGED <<setup, launch, logs, saved>> /\ (~setup.late => late' = late) /\ pc = "stop"
  BY StopOldEnds, EffectAside DEF Quiet
<1>2. CASE Raise
  BY <1>1, <1>2, AsideFrame DEF Raise, Goto
<1>3. CASE EndsWell("stop", Host, Name) /\ pc' = "rename" /\ UNCHANGED step
  <2>1. box' = [box EXCEPT ![Host][Name].up = FALSE] /\ Exists(Host, Name)
    BY <1>3 DEF EndsWell, Succeeds, Does
  <2>2. box[Host][Name] \in [launch : Stamps, up : BOOLEAN] /\ box \in [Hosts -> [AllNames -> Boxes]]
        /\ Host \in Hosts /\ Name \in AllNames
    BY <2>1, AtStep DEF Base, TypeOK, Exists, Boxes
  <2>3. box'[Host][Name].launch = box[Host][Name].launch /\ ~box'[Host][Name].up
    BY <2>1, <2>2
  <2>4. Host' = Host /\ Name' = Name
    BY <1>1, <1>3 DEF Host, Name, Names
  <2> QED BY <1>1, <1>3, <2>1, <2>3, <2>4 DEF Aside, Preserved
<1> QED BY <1>2, <1>3, StopOldEnds

LEMMA AsideRename ==
  ASSUME Base, Aside, RenameOld, UNCHANGED archiveVars
  PROVE  Aside'
<1>1. UNCHANGED <<setup, launch, logs>> /\ (~setup.late => late' = late) /\ pc = "rename"
      /\ pc' \in {"inspect", "run", "failed"}
  BY RenameOldEnds, EffectAside, NextNameRuns DEF Quiet, Raise, Goto
<1>2. Effect("rename", Host, Name)
  BY RenameOldEnds DEF EndsWell, EndsBadly, Effect
<1>3. \A c \in saved' : c \in saved
        \/ (/\ Exists(Host, Name)
            /\ c = [host |-> Host, name |-> Name, launch |-> box[Host][Name].launch,
                    up |-> box[Host][Name].up, stamp |-> launch])
  BY <1>2 DEF Effect, Does, remote
<1>4. Preserved'
  <2> SUFFICES ASSUME ~setup.late, NEW c \in saved'
               PROVE  /\ ~c.up
                      /\ [host |-> c.host, name |-> c.name, stamp |-> c.stamp,
                          launch |-> c.launch] \in logs
    BY <1>1 DEF Preserved
  <2> QED BY <1>1, <1>3 DEF Aside, Preserved
<1> QED BY <1>1, <1>4 DEF Aside

LEMMA AsideDies ==
  ASSUME Base, Aside, NEW h \in Hosts, NEW n \in AllNames, Dies(h, n)
  PROVE  Aside'
<1>1. UNCHANGED <<setup, launch, pc, step, saved, logs, late>>
  BY DEF Dies
<1>2. /\ Host' = Host /\ Name' = Name
      /\ pc \in {"stop", "rename"} => Host \in Hosts /\ Name \in AllNames
  BY <1>1, AtStep DEF Host, Name, Names
<1>3. \A g \in Hosts, m \in AllNames :
        /\ box'[g][m].launch = box[g][m].launch
        /\ box'[g][m].up => box[g][m].up
        /\ Exists(g, m)' => Exists(g, m)
  BY DiesBox
<1>4. Preserved'
  BY <1>1 DEF Aside, Preserved
<1>5. ~setup.late /\ pc \in {"stop", "rename"} /\ Exists(Host, Name)' =>
        [host |-> Host, name |-> Name, stamp |-> launch, launch |-> box'[Host][Name].launch] \in logs
  BY <1>2, <1>3 DEF Aside, Exists
<1> QED BY <1>1, <1>2, <1>3, <1>4, <1>5 DEF Aside, Exists

LEMMA AsideNext == Base /\ Aside /\ [ArchiveNext]_allVars => Aside'
<1> SUFFICES ASSUME Base, Aside, [ArchiveNext]_allVars PROVE Aside'
  OBVIOUS
<1>1. CASE UNCHANGED allVars
  BY <1>1 DEF allVars, vars, remote, Aside, Preserved, Host, Name, Names, Exists
<1>2. ASSUME NEW t, Begin(t)
      PROVE  Aside'
  BY <1>2, AsideFrame DEF Begin, Goto, remote
<1>3. CASE Preflight \/ Inspect
  BY <1>3, NextNameRuns, AsideFrame DEF Preflight, Inspect, Raise, Goto, remote
<1>4. CASE (RemoveOld \/ Run) /\ UNCHANGED archiveVars
  <2>1. pc' \notin {"stop", "rename"} /\ UNCHANGED <<setup, saved, logs>> /\ (~setup.late => late' = late)
    BY <1>4, RemoveOldEnds, RunEnds, EffectAside DEF Raise, Goto, Quiet
  <2> QED BY <2>1, AsideFrame
<1>5. ASSUME NEW c \in late, Late(c)
      PROVE  Aside'
  BY <1>5 DEF Late, Aside, Preserved
<1>6. CASE BeginArchive \/ EndArchive
  BY <1>6, AsideFrame DEF BeginArchive, EndArchive, Raise, Goto, remote
<1>7. ASSUME NEW h \in Hosts, Archive(h)
      PROVE  Aside'
  <2>1. pc = "archive"
    BY <1>7 DEF Archive, InspectBox, FetchLogs, Asks, WriteConfig, StopBox, Base, Stage
  <2>2. UNCHANGED <<setup, saved, pc>> /\ logs \subseteq logs' /\ (~setup.late => late' = late)
    <3>1. CASE InspectBox(h)
      BY <3>1 DEF InspectBox, Asks, remote
    <3>2. CASE FetchLogs(h)
      BY <3>2 DEF FetchLogs, Asks, remote
    <3>3. CASE WriteConfig(h)
      BY <3>3 DEF WriteConfig, vars, remote
    <3>4. CASE StopBox(h)
      BY <3>4, StopBoxEnds, EffectAside
    <3> QED BY <1>7, <3>1, <3>2, <3>3, <3>4 DEF Archive
  <2> QED BY <2>1, <2>2, AsideFrame
<1> QED
  BY <1>1, <1>2, <1>3, <1>4, <1>5, <1>6, <1>7, AsideSave, AsideStop, AsideRename, AsideDies
     DEF ArchiveNext, Next

LEMMA AsideHolds == ArchiveSpec => []Aside
<1>1. ArchiveInit => Aside
  BY DEF ArchiveInit, Init, Aside, Preserved
<1>2. Base /\ Aside /\ [ArchiveNext]_allVars => Aside'
  BY AsideNext
<1> QED BY <1>1, <1>2, BaseHolds, PTL DEF ArchiveSpec

\* Nothing that was put aside is lost: every container that was renamed is stopped
\* and its log is on the control host under the stamp in its name, wherever the
\* attempt that did it broke off (recover_eager.py:155-170).
THEOREM PutAsideIsPreserved == ArchiveSpec => []Preserved
<1>1. Aside => Preserved
  BY DEF Aside
<1> QED BY <1>1, AsideHolds, PTL

(***************************************************************************)
(* An attempt without a fault                                              *)
(***************************************************************************)
\* A command reaches the one container it names.
LEMMA DoesFrame ==
  ASSUME box \in [Hosts -> [AllNames -> Boxes]], NEW op, NEW h \in Hosts, NEW n \in AllNames,
         NEW k, Does(op, h, n, k)
  PROVE  \A g \in Hosts, m \in AllNames : ~(g = h /\ m = n) => box'[g][m] = box[g][m]
<1>1. CASE op = "stop" /\ Exists(h, n)
  BY <1>1 DEF Does
<1>2. CASE op \in {"rename", "rm"}
  BY <1>2 DEF Does
<1>3. CASE op = "run" /\ ~Exists(h, n)
  BY <1>3 DEF Does
<1>4. CASE ~(op = "stop" /\ Exists(h, n)) /\ op \notin {"rename", "rm"}
           /\ ~(op = "run" /\ ~Exists(h, n))
  BY <1>4 DEF Does
<1> QED BY <1>1, <1>2, <1>3, <1>4

LEMMA DoesClears ==
  ASSUME box \in [Hosts -> [AllNames -> Boxes]], NEW op \in {"rename", "rm"}, NEW h \in Hosts,
         NEW n \in AllNames, NEW k, Does(op, h, n, k)
  PROVE  box'[h][n] = NoBox
BY DEF Does

LEMMA DoesStop ==
  ASSUME box \in [Hosts -> [AllNames -> Boxes]], NEW h \in Hosts, NEW n \in AllNames,
         NEW k, Does("stop", h, n, k), Exists(h, n)
  PROVE  box'[h][n] # NoBox /\ box'[h][n].launch = box[h][n].launch /\ ~box'[h][n].up
<1>1. box[h][n] \in [launch : Stamps, up : BOOLEAN] /\ box' = [box EXCEPT ![h][n].up = FALSE]
  BY DEF Exists, Boxes, Does
<1>2. box'[h][n].launch = box[h][n].launch /\ ~box'[h][n].up
  BY <1>1
<1>3. box'[h][n] # NoBox
  BY <1>1, <1>2 DEF NoBox, Stamps
<1> QED BY <1>2, <1>3

\* A call that ends badly is a fault, or had nothing to act on.
LEMMA CleanCall ==
  ASSUME Base, NEW op, NEW h, NEW n, EndsBadly(op, h, n), clean'
  PROVE  clean /\ ~Succeeds(op, h, n)
BY DEF EndsBadly, Fault

LEMMA CleanNextName ==
  ASSUME Base, NextName, UNCHANGED <<setup, tool>>, tool = "recover", late' = {},
         \A h \in Hosts, m \in DOMAIN Names :
           Cleared(h, m) \/ (h = Host /\ m = step[2]) => box'[h][Names[m]] = NoBox
  PROVE  Clean'
<1> USE AtStep, LauncherAssumption
<1>1. CASE step[2] < Len(Names)
  <2>1. Host' = Host /\ step'[2] = step[2] + 1 /\ pc' = "inspect" /\ Names' = Names
    BY <1>1 DEF NextName, Host, Names
  <2>2. \A h \in Hosts, m \in DOMAIN Names :
          Cleared(h, m)' => Cleared(h, m) \/ (h = Host /\ m = step[2])
    BY <2>1 DEF Cleared
  <2> QED BY <2>1, <2>2 DEF Clean, Exists, Handling, Clearing
<1>2. CASE ~(step[2] < Len(Names)) /\ step[1] < N
  <2>1. Host' = Host + 1 /\ step'[2] = 1 /\ pc' = "inspect" /\ Names' = Names
    BY <1>2 DEF NextName, Host, Names
  <2>2. \A h \in Hosts, m \in DOMAIN Names :
          Cleared(h, m)' => Cleared(h, m) \/ (h = Host /\ m = step[2])
    BY <1>2, <2>1, SMTT(30) DEF Cleared, Hosts, Host
  <2> QED BY <2>1, <2>2 DEF Clean, Exists, Handling, Clearing
<1>3. CASE ~(step[2] < Len(Names)) /\ ~(step[1] < N)
  <2>1. pc' = "run" /\ RunName' = Target
    BY <1>3 DEF NextName, Goto, RunName
  <2>2. \A h \in Hosts, m \in DOMAIN Names : Cleared(h, m) \/ (h = Host /\ m = step[2])
    BY <1>3 DEF Cleared, Hosts, Host
  <2>3. \A h \in Hosts : box'[h][Target] = NoBox
    BY <2>2
  <2> QED BY <2>1, <2>3 DEF Clean, Exists, Handling, Clearing
<1> QED BY <1>1, <1>2, <1>3

LEMMA CleanProbe ==
  ASSUME Base, Clean, Preflight \/ Inspect \/ SaveLogs
  PROVE  Clean'
<1> SUFFICES ASSUME clean' PROVE Clean'
  BY DEF Clean
<1>1. clean /\ late = {} /\ UNCHANGED <<setup, tool, box, late>> /\ ~Fault
  BY DEF Preflight, Inspect, SaveLogs, Fault, remote, Clean
<1>2. CASE Preflight
  <2>1. pc' = "inspect" /\ Host' = 0 /\ step'[2] = 1
    BY <1>1, <1>2 DEF Preflight, Goto, Host
  <2>2. \A h \in Hosts, m \in DOMAIN Names : ~Cleared(h, m)'
    BY <1>1, <2>1, AtStep, LauncherAssumption DEF Cleared, Hosts
  <2> QED BY <1>1, <2>1, <2>2 DEF Clean, Handling, Clearing, Names
<1>3. CASE Inspect /\ Exists(Host, Name)
  <2>1. pc = "inspect" /\ pc' = "logs" /\ UNCHANGED step
    BY <1>1, <1>3 DEF Inspect
  <2> QED BY <1>1, <1>3, <2>1 DEF Clean, Handling, Clearing, Host, Name, Names, Cleared, Exists
<1>4. CASE Inspect /\ ~Exists(Host, Name)
  <2>1. NextName /\ tool = "recover" /\ pc = "inspect"
    BY <1>1, <1>4 DEF Inspect, Base, Stage, Clearing
  <2>2. \A h \in Hosts, m \in DOMAIN Names :
          Cleared(h, m) \/ (h = Host /\ m = step[2]) => box'[h][Names[m]] = NoBox
    BY <1>1, <1>4, <2>1 DEF Clean, Clearing, Exists, Name
  <2> QED BY <1>1, <2>1, <2>2, CleanNextName
<1>5. CASE SaveLogs
  <2>1. pc = "logs" /\ Exists(Host, Name)
    BY <1>1, <1>5 DEF SaveLogs, Clean, Handling
  <2>2. pc' = "stop" /\ UNCHANGED step
    BY <1>1, <1>5, <2>1 DEF SaveLogs
  <2> QED BY <1>1, <2>1, <2>2 DEF Clean, Handling, Clearing, Host, Name, Names, Cleared, Exists
<1> QED BY <1>2, <1>3, <1>4, <1>5

LEMMA CleanStop ==
  ASSUME Base, Clean, StopOld, UNCHANGED archiveVars
  PROVE  Clean'
<1> SUFFICES ASSUME clean' PROVE Clean'
  BY DEF Clean
<1>1. ~EndsBadly("stop", Host, Name)
  BY StopOldEnds, CleanCall DEF Clean, Handling, Succeeds
<1>2. EndsWell("stop", Host, Name) /\ pc = "stop" /\ pc' = "rename" /\ Quiet /\ UNCHANGED step
  BY <1>1, StopOldEnds
<1>3. clean /\ late' = {} /\ Exists(Host, Name)
      /\ UNCHANGED <<Host, Name, Names>> /\ Host \in Hosts /\ Name \in AllNames
      /\ launch \in Stamps /\ box \in [Hosts -> [AllNames -> Boxes]]
  BY <1>2, AtStep, LaunchFacts
     DEF EndsWell, Succeeds, Clean, Host, Name, Names, Quiet, Base, TypeOK
<1>4. \A g \in Hosts, m \in AllNames : Exists(g, m)' <=> Exists(g, m)
  <2>1. /\ \A g \in Hosts, m \in AllNames : ~(g = Host /\ m = Name) => box'[g][m] = box[g][m]
        /\ box'[Host][Name] # NoBox
    BY <1>2, <1>3, DoesFrame, DoesStop DEF EndsWell
  <2> QED BY <1>3, <2>1 DEF Exists
<1>5. Exists(Host, Name)'
  BY <1>3, <1>4
<1>6. \A h \in Hosts, m \in DOMAIN Names : Cleared(h, m) => ~Exists(h, Names[m])'
  BY <1>2, <1>3, <1>4, AtStep DEF Clean, Clearing
<1> QED BY <1>2, <1>3, <1>5, <1>6 DEF Clean, Handling, Clearing, Cleared

LEMMA CleanRename ==
  ASSUME Base, Clean, RenameOld, UNCHANGED archiveVars
  PROVE  Clean'
<1> SUFFICES ASSUME clean' PROVE Clean'
  BY DEF Clean
<1>1. ~EndsBadly("rename", Host, Name)
  BY RenameOldEnds, CleanCall DEF Clean, Handling, Succeeds
<1>2. EndsWell("rename", Host, Name) /\ pc = "rename" /\ NextName /\ UNCHANGED <<setup, tool>>
      /\ tool = "recover"
  BY <1>1, RenameOldEnds DEF Quiet, Base, Stage, Clearing
<1>3. clean /\ late' = {} /\ Host \in Hosts /\ Name \in AllNames
      /\ launch \in Stamps /\ box \in [Hosts -> [AllNames -> Boxes]]
  BY <1>2, AtStep, LaunchFacts DEF EndsWell, Clean, Base, TypeOK
<1>4. /\ \A g \in Hosts, m \in AllNames : ~(g = Host /\ m = Name) => box'[g][m] = box[g][m]
      /\ box'[Host][Name] = NoBox
  BY <1>2, <1>3, DoesFrame, DoesClears DEF EndsWell
<1>5. \A h \in Hosts, m \in DOMAIN Names : Cleared(h, m) => box[h][Names[m]] = NoBox
  BY <1>2, <1>3 DEF Clean, Clearing, Exists
<1>6. \A h \in Hosts, m \in DOMAIN Names :
        Cleared(h, m) \/ (h = Host /\ m = step[2]) => box'[h][Names[m]] = NoBox
  BY <1>4, <1>5, AtStep DEF Name
<1> QED BY <1>2, <1>3, <1>6, CleanNextName

LEMMA CleanRemove ==
  ASSUME Base, Clean, RemoveOld, UNCHANGED archiveVars
  PROVE  Clean'
<1> SUFFICES ASSUME clean' PROVE Clean'
  BY DEF Clean
<1>1. ~EndsBadly("rm", Host, BaseName)
  BY RemoveOldEnds, CleanCall DEF Succeeds
<1>2. /\ EndsWell("rm", Host, BaseName) /\ pc = "rm" /\ UNCHANGED tool /\ tool = "base"
      /\ IF step[1] < N THEN step' = <<step[1] + 1, 1>> /\ UNCHANGED pc ELSE Goto("run")
  BY <1>1, RemoveOldEnds DEF Quiet, Base, Stage
<1>3. clean /\ late' = {} /\ Host \in Hosts /\ BaseName \in AllNames
      /\ launch \in Stamps /\ box \in [Hosts -> [AllNames -> Boxes]]
  BY <1>2, AtStep, LaunchFacts DEF EndsWell, Clean, Base, TypeOK
<1>4. /\ \A g \in Hosts, m \in AllNames : ~(g = Host /\ m = BaseName) => box'[g][m] = box[g][m]
      /\ box'[Host][BaseName] = NoBox
  BY <1>2, <1>3, DoesFrame, DoesClears DEF EndsWell
<1>5. \A h \in Hosts : h <= Host => box'[h][BaseName] = NoBox
  <2>1. \A h \in Hosts : h < Host => box[h][BaseName] = NoBox
    BY <1>2, <1>3 DEF Clean, Exists
  <2>2. \A h \in Hosts : h <= Host => h < Host \/ h = Host
    BY <1>3, LauncherAssumption DEF Hosts
  <2> QED BY <1>3, <1>4, <2>1, <2>2
<1>6. CASE step[1] < N
  <2>1. pc' = "rm" /\ Host' = Host + 1
    BY <1>2, <1>6, AtStep DEF Host
  <2>2. \A h \in Hosts : h < Host' => h <= Host
    BY <1>3, <2>1, LauncherAssumption DEF Hosts
  <2> QED BY <1>3, <1>5, <2>1, <2>2 DEF Clean, Handling, Clearing, Exists
<1>7. CASE ~(step[1] < N)
  <2>1. pc' = "run" /\ RunName' = BaseName
    BY <1>2, <1>7 DEF Goto, RunName
  <2>2. \A h \in Hosts : h <= Host
    BY <1>7, AtStep, LauncherAssumption DEF Hosts, Host
  <2> QED BY <1>3, <1>5, <2>1, <2>2 DEF Clean, Handling, Clearing, Exists
<1> QED BY <1>6, <1>7

LEMMA CleanRun ==
  ASSUME Base, Clean, Run, UNCHANGED archiveVars
  PROVE  Clean'
<1> SUFFICES ASSUME clean' PROVE Clean'
  BY DEF Clean
<1>1. pc = "run" /\ RunHost \in Hosts /\ RunName \in AllNames /\ launch \in Stamps
      /\ box \in [Hosts -> [AllNames -> Boxes]] /\ step[1] \in 1 .. N
  BY RunEnds, AtStep, LaunchFacts DEF Base, TypeOK
<1>2. RunHost = 0 \/ RunHost >= step[1]
  BY <1>1, LauncherAssumption DEF RunHost
<1>3. ~EndsBadly("run", RunHost, RunName)
  BY <1>1, <1>2, CleanCall DEF Clean, Succeeds
<1>4. /\ EndsWell("run", RunHost, RunName) /\ UNCHANGED tool
      /\ IF step[1] < N THEN step' = <<step[1] + 1, 1>> /\ UNCHANGED pc ELSE Goto("done")
  BY <1>3, RunEnds DEF Quiet
<1>5. clean /\ late' = {} /\ RunName' = RunName
  BY <1>4 DEF EndsWell, Clean, RunName
<1>6. \A g \in Hosts : g # RunHost => box'[g][RunName] = box[g][RunName]
  BY <1>1, <1>4, DoesFrame DEF EndsWell
<1>7. CASE step[1] < N
  <2>1. pc' = "run" /\ step'[1] = step[1] + 1 /\ RunHost = step[1]
    BY <1>1, <1>4, <1>7 DEF RunHost
  <2>2. \A h \in Hosts : h = 0 \/ h >= step'[1] => (h = 0 \/ h >= step[1]) /\ h # RunHost
    BY <1>1, <2>1, LauncherAssumption DEF Hosts
  <2>3. \A h \in Hosts : h = 0 \/ h >= step'[1] => box'[h][RunName] = NoBox
    BY <1>1, <1>5, <1>6, <2>2 DEF Clean, Exists
  <2> QED BY <1>5, <2>1, <2>3 DEF Clean, Handling, Clearing, Exists
<1>8. CASE ~(step[1] < N)
  BY <1>4, <1>5, <1>8 DEF Goto, Clean, Handling, Clearing
<1> QED BY <1>7, <1>8

LEMMA CleanDies ==
  ASSUME Base, Clean, NEW h \in Hosts, NEW n \in AllNames, Dies(h, n), UNCHANGED archiveVars
  PROVE  Clean'
<1> SUFFICES ASSUME clean' PROVE Clean'
  BY DEF Clean
<1>1. UNCHANGED <<setup, tool, pc, step, late, clean, work>> /\ clean
  BY DEF Dies, archiveVars
<1>2. \A g \in Hosts, m \in AllNames : Exists(g, m)' <=> Exists(g, m)
  BY DiesBox
<1>3. /\ Host' = Host /\ Name' = Name /\ Names' = Names /\ RunName' = RunName
      /\ Host \in Hosts /\ {Name, Target, BaseName, RunName} \subseteq AllNames
      /\ \A m \in DOMAIN Names : Names[m] \in AllNames
      /\ \A g \in Hosts, m \in DOMAIN Names : Cleared(g, m)' <=> Cleared(g, m)
  BY <1>1, AtStep DEF Host, Name, Names, RunName, Cleared
<1>4. /\ pc \in Handling => Exists(Host, Name)'
      /\ pc \in Clearing =>
           \A g \in Hosts, m \in DOMAIN Names : Cleared(g, m) => ~Exists(g, Names[m])'
  BY <1>1, <1>2, <1>3 DEF Clean
<1>5. /\ pc = "rm" => \A g \in Hosts : g < Host => ~Exists(g, BaseName)'
      /\ pc = "run" => \A g \in Hosts : g = 0 \/ g >= step[1] => ~Exists(g, RunName)'
      /\ pc = "archive" => \A g \in Hosts : Exists(g, Target)' /\ work[g] # "failed"
  BY <1>1, <1>2, <1>3 DEF Clean
<1> QED BY <1>1, <1>3, <1>4, <1>5 DEF Clean

LEMMA CleanArchive ==
  ASSUME Base, Clean, NEW h \in Hosts, Archive(h)
  PROVE  Clean'
<1> SUFFICES ASSUME clean' PROVE Clean'
  BY DEF Clean
<1>1. pc = "archive" /\ pc' = "archive" /\ launch \in Stamps /\ Target \in AllNames
  <2>1. pc = "archive"
    BY DEF Archive, InspectBox, FetchLogs, Asks, WriteConfig, StopBox, Base, Stage
  <2>2. UNCHANGED pc
    <3>1. CASE InspectBox(h) \/ FetchLogs(h)
      BY <3>1 DEF InspectBox, FetchLogs, Asks
    <3>2. CASE WriteConfig(h)
      BY <3>2 DEF WriteConfig, vars
    <3>3. CASE StopBox(h)
      BY <3>3, StopBoxEnds
    <3> QED BY <3>1, <3>2, <3>3 DEF Archive
  <2> QED BY <2>1, <2>2, LaunchFacts, AtStep
<1>2. clean => late = {} /\ \A g \in Hosts : Exists(g, Target) /\ work[g] # "failed"
  BY <1>1 DEF Clean
<1>3. late' = {} /\ clean /\ \A g \in Hosts : box'[g][Target] # NoBox
  <2>1. CASE InspectBox(h) \/ FetchLogs(h)
    BY <1>2, <2>1 DEF InspectBox, FetchLogs, Asks, Fault, remote, Exists
  <2>2. CASE WriteConfig(h)
    BY <1>2, <2>2 DEF WriteConfig, vars, remote, Exists
  <2>3. CASE StopBox(h)
    <3>1. EndsWell("stop", h, Target)
      BY <1>2, <2>3, StopBoxEnds, CleanCall DEF Succeeds
    <3>2. box \in [Hosts -> [AllNames -> Boxes]]
      BY DEF Base, TypeOK
    <3>3. /\ \A g \in Hosts : g # h => box'[g][Target] = box[g][Target]
          /\ box'[h][Target] # NoBox
      BY <1>1, <1>2, <3>1, <3>2, CleanCall, DoesFrame, DoesStop DEF EndsWell
    <3> QED BY <1>2, <3>1, <3>3 DEF EndsWell, Exists
  <2> QED BY <2>1, <2>2, <2>3 DEF Archive
<1>4. \E s \in {"logs", "config", "stop", "stopped"} : Becomes(h, s)
  <2>1. CASE InspectBox(h)
    BY <1>2, <1>3, <2>1 DEF InspectBox, Asks, Fault
  <2>2. CASE FetchLogs(h)
    BY <1>2, <1>3, <2>2 DEF FetchLogs, Asks, Fault
  <2>3. CASE WriteConfig(h)
    BY <2>3 DEF WriteConfig
  <2>4. CASE StopBox(h)
    BY <1>2, <1>3, <2>4, StopBoxEnds, CleanCall DEF Succeeds
  <2> QED BY <2>1, <2>2, <2>3, <2>4 DEF Archive
<1>5. \A g \in Hosts : work'[g] # "failed"
  BY <1>2, <1>3, <1>4 DEF Becomes, Base, Stage
<1> QED BY <1>1, <1>3, <1>5 DEF Clean, Handling, Clearing, Exists

LEMMA CleanPool ==
  ASSUME Base, Clean, BeginArchive \/ EndArchive
  PROVE  Clean'
<1> SUFFICES ASSUME clean' PROVE Clean'
  BY DEF Clean
<1>1. CASE BeginArchive
  <2>1. /\ pc' = "archive" /\ late' = {}
        /\ \A h \in Hosts : work'[h] = "inspect" /\ Exists(h, Target)
    BY <1>1 DEF BeginArchive, Goto, remote
  <2>2. \A h \in Hosts : box'[h][Target] # NoBox
    BY <1>1, <2>1 DEF BeginArchive, remote, Exists
  <2> QED BY <2>1, <2>2 DEF Clean, Handling, Clearing, Exists
<1>2. CASE EndArchive
  <2>1. Summary /\ late' = {}
    BY <1>2 DEF EndArchive, Clean, Summary, remote
  <2> QED BY <1>2, <2>1 DEF EndArchive, Goto, Clean, Handling, Clearing
<1> QED BY <1>1, <1>2

LEMMA CleanNext == Base /\ Clean /\ [ArchiveNext]_allVars => Clean'
<1> SUFFICES ASSUME Base, Clean, [ArchiveNext]_allVars PROVE Clean'
  OBVIOUS
<1>1. CASE UNCHANGED allVars
  BY <1>1 DEF allVars, vars, remote, archiveVars, Clean, Host, Name, Names, Exists, RunName, Cleared
<1>2. ASSUME NEW t, Begin(t)
      PROVE  Clean'
  <2>1. pc' \in {"preflight", "rm"} /\ step' = <<1, 1>>
    BY <1>2 DEF Begin, Goto
  <2>3. Host' = 0
    BY <2>1 DEF Host
  <2>4. clean' = (late = {}) /\ late' = late
    BY <1>2 DEF Begin, remote
  <2>2. \A h \in Hosts : ~(h < 0)
    BY LauncherAssumption DEF Hosts
  <2> QED BY <2>1, <2>2, <2>3, <2>4 DEF Clean, Handling, Clearing
<1>3. ASSUME NEW c \in late, Late(c)
      PROVE  Clean'
  BY <1>3 DEF Late, Clean
<1> QED
  BY <1>1, <1>2, <1>3, CleanProbe, CleanStop, CleanRename, CleanRemove, CleanRun, CleanDies,
     CleanArchive, CleanPool
     DEF ArchiveNext, Next

\* Relaunching is always the way out: an attempt that meets no fault of its own, and
\* nothing late, succeeds from whatever the broken attempts before it left on the
\* hosts (recover_eager.py:154-175, launch_spark_v41.py launch(),
\* archive_stop_groups.py:20-28).
THEOREM RelaunchWorks == ArchiveSpec => []RelaunchSucceeds
<1>1. ArchiveInit => Clean
  BY DEF ArchiveInit, Init, Clean, Handling, Clearing
<1>2. Base /\ Clean /\ [ArchiveNext]_allVars => Clean'
  BY CleanNext
<1>3. Clean => RelaunchSucceeds
  BY DEF Clean, RelaunchSucceeds
<1> QED BY <1>1, <1>2, <1>3, BaseHolds, PTL DEF ArchiveSpec

(***************************************************************************)
(* The workers of the archiver                                             *)
(***************************************************************************)
\* What a worker has established outlives the steps of the others, and the death of
\* its server.
LEMMA EstablishedKept ==
  ASSUME NEW h, Established(h), UNCHANGED <<setup, launch>>,
         work'[h] = work[h], info'[h] = info[h], logs \subseteq logs', confs \subseteq confs',
         box'[h][Target].launch = box[h][Target].launch,
         box[h][Target] # NoBox => box'[h][Target] # NoBox,
         box'[h][Target].up => box[h][Target].up
  PROVE  Established(h)'
BY DEF Established, Entry, Exists

LEMMA WorkersStep ==
  ASSUME Base, Aside, Workers, NEW h \in Hosts, Archive(h)
  PROVE  Workers'
<1>1. pc = "archive" /\ UNCHANGED <<setup, launch, pc>>
  <2>1. pc = "archive"
    BY DEF Archive, InspectBox, FetchLogs, Asks, WriteConfig, StopBox, Base, Stage
  <2>2. CASE InspectBox(h) \/ FetchLogs(h)
    BY <2>1, <2>2 DEF InspectBox, FetchLogs, Asks
  <2>3. CASE WriteConfig(h)
    BY <2>1, <2>3 DEF WriteConfig, vars
  <2>4. CASE StopBox(h)
    BY <2>1, <2>4, StopBoxEnds
  <2> QED BY <2>2, <2>3, <2>4 DEF Archive
<1> SUFFICES ASSUME ~setup.late, NEW g \in Hosts
             PROVE  Established(g)'
  BY <1>1 DEF Workers, SummaryTrue
<1>2. Established(g) /\ Established(h)
  BY <1>1 DEF Workers
<1>3. /\ work \in [Hosts -> WorkStates] /\ info \in [Hosts -> {0} \cup Stamps]
      /\ box \in [Hosts -> [AllNames -> Boxes]] /\ launch \in Stamps /\ Target \in AllNames
  BY <1>1, LaunchFacts, AtStep DEF Base, Stage, TypeOK, WorkStates
<1>4. CASE InspectBox(h)
  <2>1. /\ UNCHANGED <<box, logs, confs>>
        /\ \/ Exists(h, Target) /\ Becomes(h, "logs") /\ info' = [info EXCEPT ![h] = box[h][Target].launch]
           \/ Becomes(h, "failed") /\ UNCHANGED info
    BY <1>4 DEF InspectBox, Asks, remote
  <2>2. CASE g # h
    BY <1>1, <1>2, <1>3, <2>1, <2>2, EstablishedKept DEF Becomes
  <2>3. CASE g = h
    BY <1>3, <2>1, <2>3 DEF Established, Becomes, Exists
  <2> QED BY <2>2, <2>3
<1>5. CASE FetchLogs(h)
  <2>1. /\ UNCHANGED <<box, info, confs>> /\ work[h] = "logs" /\ logs \subseteq logs'
        /\ \/ Exists(h, Target) /\ Becomes(h, "config") /\ Entry(h, box[h][Target].launch) \in logs'
           \/ Becomes(h, "failed")
    BY <1>5 DEF FetchLogs, Asks, remote
  <2>2. CASE g # h
    BY <1>1, <1>2, <1>3, <2>1, <2>2, EstablishedKept DEF Becomes
  <2>3. CASE g = h
    BY <1>1, <1>2, <1>3, <2>1, <2>3 DEF Established, Becomes, Exists, Entry
  <2> QED BY <2>2, <2>3
<1>6. CASE WriteConfig(h)
  <2>1. /\ UNCHANGED <<box, info, logs>> /\ work[h] = "config" /\ confs \subseteq confs'
        /\ Becomes(h, "stop") /\ Entry(h, info[h]) \in confs'
    BY <1>6 DEF WriteConfig, vars, remote
  <2>2. CASE g # h
    BY <1>1, <1>2, <1>3, <2>1, <2>2, EstablishedKept DEF Becomes
  <2>3. CASE g = h
    BY <1>1, <1>2, <1>3, <2>1, <2>3 DEF Established, Becomes, Exists, Entry
  <2> QED BY <2>2, <2>3
<1>7. CASE StopBox(h)
  <2>1. UNCHANGED <<info, confs, logs>> /\ work[h] = "stop" /\ Exists(h, Target)
    BY <1>2, <1>7, StopBoxEnds DEF Established
  <2>2. \/ Does("stop", h, Target, launch) /\ Becomes(h, "stopped")
        \/ Effect("stop", h, Target) /\ Becomes(h, "failed")
    BY <1>7, StopBoxEnds DEF EndsWell, EndsBadly
  <2>3. CASE g # h
    <3>1. box'[g][Target] = box[g][Target]
      BY <1>3, <2>2, <2>3, DoesFrame DEF Effect, remote
    <3> QED BY <1>1, <1>2, <1>3, <2>1, <2>2, <2>3, <3>1, EstablishedKept DEF Becomes
  <2>4. CASE g = h /\ Becomes(h, "failed")
    BY <1>3, <2>4 DEF Established, Becomes
  <2>5. CASE g = h /\ Does("stop", h, Target, launch) /\ Becomes(h, "stopped")
    <3>1. /\ box'[h][Target] # NoBox /\ box'[h][Target].launch = box[h][Target].launch
          /\ ~box'[h][Target].up
      BY <1>3, <2>1, <2>5, DoesStop
    <3> QED BY <1>1, <1>2, <1>3, <2>1, <2>5, <3>1 DEF Established, Becomes, Exists, Entry
  <2> QED BY <2>2, <2>3, <2>4, <2>5
<1> QED BY <1>4, <1>5, <1>6, <1>7 DEF Archive

LEMMA WorkersDies ==
  ASSUME Base, Workers, NEW h \in Hosts, NEW n \in AllNames, Dies(h, n), UNCHANGED archiveVars
  PROVE  Workers'
<1>1. UNCHANGED <<setup, launch, pc, logs, work, info, confs>> /\ Target \in AllNames
  BY AtStep DEF Dies, archiveVars
<1>2. \A g \in Hosts :
        /\ box'[g][Target].launch = box[g][Target].launch
        /\ box[g][Target] # NoBox => box'[g][Target] # NoBox
        /\ box'[g][Target].up => box[g][Target].up
  BY <1>1, DiesBox DEF Exists
<1>3. ~setup.late /\ pc = "archive" => \A g \in Hosts : Established(g)'
  BY <1>1, <1>2, EstablishedKept DEF Workers
<1>4. SummaryTrue'
  BY <1>1, <1>2 DEF Workers, SummaryTrue, Archived, Entry
<1> QED BY <1>1, <1>3, <1>4 DEF Workers

LEMMA WorkersNext == Base /\ Aside /\ Workers /\ [ArchiveNext]_allVars => Workers'
<1> SUFFICES ASSUME Base, Aside, Workers, [ArchiveNext]_allVars PROVE Workers'
  OBVIOUS
<1>1. CASE UNCHANGED allVars
  BY <1>1 DEF allVars, vars, remote, archiveVars, Workers, SummaryTrue, Established, Exists,
              Archived, Entry
<1>2. CASE /\ \/ \E t \in setup.tools \ {"archive"} : Begin(t)
              \/ Preflight \/ Inspect \/ SaveLogs \/ StopOld \/ RenameOld \/ RemoveOld \/ Run
           /\ UNCHANGED archiveVars
  <2>1. pc' \notin {"archive", "archived"}
    <3>1. CASE \E t \in setup.tools \ {"archive"} : Begin(t)
      BY <3>1 DEF Begin, Goto
    <3>2. CASE Preflight \/ Inspect \/ SaveLogs
      BY <3>2, NextNameRuns DEF Preflight, Inspect, SaveLogs, Goto, Raise
    <3>3. CASE StopOld \/ RenameOld \/ RemoveOld \/ Run
      BY <1>2, <3>3, StopOldEnds, RenameOldEnds, RemoveOldEnds, RunEnds, NextNameRuns
         DEF Goto, Raise
    <3> QED BY <1>2, <3>1, <3>2, <3>3
  <2> QED BY <2>1 DEF Workers, SummaryTrue
<1>3. ASSUME NEW c \in late, Late(c)
      PROVE  Workers'
  BY <1>3 DEF Late, Aside, Workers, SummaryTrue
<1>4. CASE BeginArchive
  <2>1. pc' = "archive" /\ work' = [h \in Hosts |-> "inspect"]
    BY <1>4 DEF BeginArchive, Goto
  <2> QED BY <2>1 DEF Workers, SummaryTrue, Established
<1>5. CASE EndArchive
  <2>1. /\ UNCHANGED <<setup, launch, box, logs, confs>> /\ pc = "archive"
        /\ (pc' = "archived" /\ Summary) \/ pc' = "failed"
    BY <1>5 DEF EndArchive, Goto, Raise, remote
  <2>2. ~setup.late /\ Summary =>
          \A h \in Hosts : ~box[h][Target].up /\ Archived(h, box[h][Target].launch)
    BY <2>1 DEF Workers, Established, Summary, Archived
  <2> QED BY <2>1, <2>2 DEF Workers, SummaryTrue, Archived, Entry
<1> QED
  BY <1>1, <1>2, <1>3, <1>4, <1>5, WorkersStep, WorkersDies DEF ArchiveNext, Next

LEMMA WorkersHold == ArchiveSpec => []Workers
<1>1. ArchiveInit => Workers
  BY DEF ArchiveInit, Init, Workers, SummaryTrue
<1>2. Base /\ Aside /\ Workers /\ [ArchiveNext]_allVars => Workers'
  BY WorkersNext
<1> QED BY <1>1, <1>2, BaseHolds, AsideHolds, PTL DEF ArchiveSpec

\* The summary is true: every server it lists is stopped and archived, also when a
\* worker failed while the others went on (archive_stop_groups.py:26-28).
THEOREM SummaryIsTrue == ArchiveSpec => []SummaryTrue
<1>1. Workers => SummaryTrue
  BY DEF Workers
<1> QED BY <1>1, WorkersHold, PTL

\* A worker stops no running server before its log and configuration are on the
\* control host (archive_stop_groups.py:1, 20-24).
THEOREM StopsAfterArchiving == ArchiveSpec => ArchivedFirst
<1>1. ASSUME Base, Workers, NEW h \in Hosts, ~setup.late, work[h] = "stop"
      PROVE  Archived(h, box[h][Target].launch)
  <2>1. pc = "archive"
    BY <1>1 DEF Base, Stage
  <2> QED BY <1>1, <2>1 DEF Workers, Established, Archived
<1>2. Base /\ Workers /\ [ArchiveNext]_allVars =>
        [\A h \in Hosts :
           ~setup.late /\ work[h] = "stop" /\ work'[h] # "stop"
             /\ box[h][Target].up /\ ~box'[h][Target].up
           => Archived(h, box[h][Target].launch)]_allVars
  BY <1>1
<1> QED BY <1>2, BaseHolds, WorkersHold, PTL DEF ArchiveSpec, ArchivedFirst
===============================================================================
