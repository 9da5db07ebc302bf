------------------------------ MODULE ArchiveStop ------------------------------
(***************************************************************************)
(* launch/archive_stop_groups.py beside the launchers: a pool with one     *)
(* worker per host archives a container's log and configuration and then   *)
(* stops it.  A worker that raises leaves the others running; the summary  *)
(* is written when every one has returned.  Like the launchers it is       *)
(* started by the operator when nothing else runs.  Both of its groups     *)
(* make eight tasks, so a pool of eight has a worker for each.             *)
(***************************************************************************)
EXTENDS Launcher

VARIABLES
  work,   \* work[h]: where the worker of host h is
  info,   \* info[h]: the container (by its launch) that inspect described
  confs   \* the configurations written on the control host

archiveVars == <<work, info, confs>>
allVars == <<vars, archiveVars>>

ArchiveInit ==
  /\ Init
  /\ work = [h \in Hosts |-> "idle"] /\ info = [h \in Hosts |-> 0] /\ confs = {}

Becomes(h, state) == work' = [work EXCEPT ![h] = state]
Entry(h, g) == [host |-> h, name |-> Target, stamp |-> launch, launch |-> g]

BeginArchive ==
  /\ "archive" \in setup.tools /\ pc \in Ended /\ launch < setup.launches
  /\ launch' = launch + 1 /\ tool' = "archive" /\ Goto("archive")
  /\ clean' = (late = {} /\ \A h \in Hosts : Exists(h, Target))
  /\ work' = [h \in Hosts |-> "inspect"]
  /\ UNCHANGED <<setup, remote, logs, faults, info, confs>>

\* ssh raises on a nonzero code and on a deadline.
Asks(h, from, Then) ==
  /\ work[h] = from
  /\ \/ Exists(h, Target) /\ Then /\ UNCHANGED <<faults, clean>>
     \/ /\ ~Exists(h, Target) /\ Becomes(h, "failed")
        /\ UNCHANGED <<info, logs, faults, clean>>
     \/ Fault /\ Becomes(h, "failed") /\ UNCHANGED <<info, logs>>
  /\ UNCHANGED <<setup, launch, tool, pc, step, remote, confs>>

InspectBox(h) ==
  Asks(h, "inspect", /\ Becomes(h, "logs") /\ UNCHANGED logs
                     /\ info' = [info EXCEPT ![h] = box[h][Target].launch])

\* mutant: the code of docker logs is not looked at
MutFetchLogs(h) ==
  /\ work[h] = "logs"
  /\ \/ logs' = logs \cup {Entry(h, box[h][Target].launch)} /\ UNCHANGED <<faults, clean>>
     \/ Fault /\ UNCHANGED logs
  /\ Becomes(h, "config")
  /\ UNCHANGED <<setup, launch, tool, pc, step, remote, info, confs>>
FetchLogs(h) ==
  Asks(h, "logs", /\ Becomes(h, "config") /\ UNCHANGED info
                  /\ logs' = logs \cup {Entry(h, box[h][Target].launch)})

WriteConfig(h) ==
  /\ work[h] = "config"
  /\ confs' = confs \cup {Entry(h, info[h])}
  /\ Becomes(h, "stop")
  /\ UNCHANGED <<vars, info>>

StopBox(h) ==
  /\ work[h] = "stop"
  /\ Remote("stop", h, Target, Becomes(h, "stopped"), Becomes(h, "failed"))
  /\ UNCHANGED <<setup, launch, tool, pc, step, logs, info, confs>>

\* mutant: exceptions of the workers stay in the pool
MutSummary == \E h \in Hosts : work[h] = "stopped"
Summary == \A h \in Hosts : work[h] = "stopped"

\* The pool is joined; list() raises what a worker raised, or the summary is written.
EndArchive ==
  /\ pc = "archive" /\ \A h \in Hosts : work[h] \in {"stopped", "failed"}
  /\ IF Summary THEN Goto("archived") ELSE Raise
  /\ work' = [h \in Hosts |-> "idle"]
  /\ UNCHANGED <<setup, launch, tool, remote, logs, faults, clean, info, confs>>

Archive(h) == InspectBox(h) \/ FetchLogs(h) \/ WriteConfig(h) \/ StopBox(h)

ArchiveNext ==
  \/ Next /\ UNCHANGED archiveVars
  \/ BeginArchive \/ EndArchive
  \/ \E h \in Hosts : Archive(h)

ArchiveSpec == ArchiveInit /\ [][ArchiveNext]_allVars

(***************************************************************************)
(* Properties                                                              *)
(***************************************************************************)
Archived(h, g) == Entry(h, g) \in logs /\ Entry(h, g) \in confs

\* A running server is only stopped by a worker once its own log and
\* configuration are on the control host, whichever calls fail and however the
\* workers of the other hosts fare.  (A stop given up on may come later and hit the
\* next container of the name, which nobody archived.)  archive_stop_groups.py:1, 20-24
ArchivedFirst ==
  [][\A h \in Hosts :
       ~setup.late /\ work[h] = "stop" /\ work'[h] # "stop"
         /\ box[h][Target].up /\ ~box'[h][Target].up
       => Archived(h, box[h][Target].launch)]_allVars

\* The summary says that every server of the groups is stopped, and that is so,
\* also when one worker failed while the others went on (archive_stop_groups.py:26-28).
SummaryTrue ==
  pc = "archived" /\ ~setup.late =>
    \A h \in Hosts : ~box[h][Target].up /\ Archived(h, box[h][Target].launch)
=============================================================================
