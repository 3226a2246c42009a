------------------------------- MODULE AgentDaemon -------------------------------
(***************************************************************************)
(* The daemon of the host agent and the command that stops it (daemon.py,        *)
(* _daemon_child_main): a PID file and a metadata file that name the daemon, and *)
(* the operating system, which gives the number of a process that ended to       *)
(* another one. A target without a queue may have two daemons at a time, which    *)
(* write the same files.                                                    *)
(***************************************************************************)
EXTENDS Naturals, FiniteSets

CONSTANTS
  Pids,
  Stops,       \* commands --stop that may run at the same time
  MaxBirths,   \* bound: processes that are ever started
  Nobody

DaemonAssumption == IsFiniteSet(Pids) /\ MaxBirths \in Nat /\ Nobody \notin Pids

VARIABLES
  process,   \* what runs under each PID, and its start time
  births,    \* start time of the latest process
  told,      \* PIDs whose process was sent SIGTERM
  pidFile,   \* data/dailyfx-agent-<target>.pid
  metadata,  \* ... .pid.json: process_start_time
  queued,    \* does the target have a queue, and so one worker at a time?
  stop,      \* each command: its stage, the PID it has read, the time it has checked
  killed,    \* history: a process that is no daemon was sent a signal
  reused     \* history: a PID changed its process between a command's check and its last signal

vars == <<process, births, told, pidFile, metadata, queued, stop, killed, reused>>

None     == [kind |-> "none", born |-> 0]
Daemons  == {"starting", "named", "ready", "ending", "unnamed"}
NoStop   == [stage |-> "idle", pid |-> Nobody, born |-> 0]
\* A metadata file that is missing or cannot be read has the time 0.
Missing  == 0

TypeOK ==
  /\ process \in [Pids -> [kind : Daemons \cup {"other", "none"}, born : 0..MaxBirths]]
  /\ births \in 0..MaxBirths /\ told \subseteq Pids
  /\ pidFile \in Pids \cup {Nobody} /\ metadata \in 0..MaxBirths
  /\ queued \in BOOLEAN /\ killed \in BOOLEAN /\ reused \in BOOLEAN
  /\ stop \in [Stops -> [stage : {"idle", "read", "checked", "told", "unlinking"},
                         pid : Pids \cup {Nobody}, born : 0..MaxBirths]]

Init ==
  /\ process = [p \in Pids |-> None] /\ births = 0 /\ told = {}
  /\ pidFile = Nobody /\ metadata = Missing /\ queued \in BOOLEAN
  /\ stop = [s \in Stops |-> NoStop] /\ killed = FALSE /\ reused = FALSE

-----------------------------------------------------------------------------
(* Processes.                                                              *)

Alive(p)     == process[p].kind # "none"
Is(p, kinds) == process[p].kind \in kinds
Becomes(p, kind) == process' = [process EXCEPT ![p].kind = kind]

Born(p, kind) ==
  /\ ~Alive(p) /\ births < MaxBirths /\ births' = births + 1
  /\ process' = [process EXCEPT ![p] = [kind |-> kind, born |-> births']]
  /\ reused' = (reused \/ \E s \in Stops : stop[s].pid = p /\ stop[s].stage \in {"checked", "told"})

\* Some process that has nothing to do with the agent.
OtherStarts(p) ==
  /\ Born(p, "other")
  /\ UNCHANGED <<told, pidFile, metadata, queued, stop, killed>>

\* The parent spawns the child. With a queue the worker before it has released it
\* (runner.py:138), or is dead.
DaemonStarts(p) ==
  /\ queued => \A q \in Pids : ~Is(q, {"starting", "named", "ready"})
  /\ Born(p, "starting")
  /\ UNCHANGED <<told, pidFile, metadata, queued, stop, killed>>

\* By itself, by a signal that it was sent, or by the host's restart; its files stay.
Exits(p) ==
  /\ Alive(p)
  /\ process' = [process EXCEPT ![p] = None] /\ told' = told \ {p}
  /\ UNCHANGED <<births, pidFile, metadata, queued, stop, killed, reused>>

-----------------------------------------------------------------------------
(* _daemon_child_main, and its parent when the child is not ready in time.       *)

Names(p) ==
  /\ Is(p, {"starting"}) /\ Becomes(p, "named")
  /\ pidFile' = p
  /\ UNCHANGED <<births, told, metadata, queued, stop, killed, reused>>

Ready(p) ==
  /\ Is(p, {"named"}) /\ Becomes(p, "ready")
  /\ metadata' = process[p].born
  /\ UNCHANGED <<births, told, pidFile, queued, stop, killed, reused>>

\* The files of whoever has them now are removed: PID file first.
TimesOut(p) ==
  /\ Is(p, {"starting", "named"}) /\ Becomes(p, "none")
  /\ pidFile' = Nobody /\ metadata' = Missing /\ told' = told \ {p}
  /\ UNCHANGED <<births, queued, stop, killed, reused>>

\* The runs are over and the queue is released ...
Drained(p) ==
  /\ Is(p, {"ready"}) /\ Becomes(p, "ending")
  /\ UNCHANGED <<births, told, pidFile, metadata, queued, stop, killed, reused>>

\* ... and then the files go, one after the other.
RemovesName(p) ==
  /\ Is(p, {"ending"}) /\ Becomes(p, "unnamed")
  /\ pidFile' = Nobody
  /\ UNCHANGED <<births, told, metadata, queued, stop, killed, reused>>

RemovesMetadata(p) ==
  /\ Is(p, {"unnamed"}) /\ Becomes(p, "none")
  /\ metadata' = Missing /\ told' = told \ {p}
  /\ UNCHANGED <<births, pidFile, queued, stop, killed, reused>>

-----------------------------------------------------------------------------
(* _stop_single_daemon.                                                    *)

Stage(s, stage) == stop' = [stop EXCEPT ![s].stage = stage]
Ends(s)         == stop' = [stop EXCEPT ![s] = NoStop]

\* The PID is read; a process that is not there has its files removed.
StopReads(s) ==
  /\ stop[s] = NoStop /\ pidFile # Nobody
  /\ stop' = [stop EXCEPT ![s] = [stage |-> IF Alive(pidFile) THEN "read" ELSE "unlinking",
                                  pid |-> pidFile, born |-> 0]]
  /\ UNCHANGED <<process, births, told, pidFile, metadata, queued, killed, reused>>

\* Mutant: a metadata file that is missing proves nothing, and is no obstacle.
VerifiedOrMissing(s) == metadata \in {Missing, process[stop[s].pid].born} \/ ~Alive(stop[s].pid)

\* The metadata has the start time of the process that has the PID now. One whose
\* start time cannot be read has ended.
Verified(s) == metadata # Missing /\ (~Alive(stop[s].pid) \/ metadata = process[stop[s].pid].born)

StopChecks(s) ==
  /\ stop[s].stage = "read"
  /\ IF Verified(s) THEN Stage(s, "checked") ELSE Ends(s)
  /\ UNCHANGED <<process, births, told, pidFile, metadata, queued, killed, reused>>

\* Did a signal to the PID reach a process that is no daemon?
Strays(s) == killed' = (killed \/ Is(stop[s].pid, {"other"}))

StopTells(s) ==
  /\ stop[s].stage = "checked" /\ Strays(s)
  /\ IF Alive(stop[s].pid)
     THEN told' = told \cup {stop[s].pid} /\ Stage(s, "told")
     ELSE Stage(s, "unlinking") /\ UNCHANGED told
  /\ UNCHANGED <<process, births, pidFile, metadata, queued, reused>>

\* Two seconds, and then SIGKILL for whatever has the PID.
StopKills(s) ==
  /\ stop[s].stage = "told" /\ Stage(s, "unlinking") /\ Strays(s)
  /\ process' = [process EXCEPT ![stop[s].pid] = None] /\ told' = told \ {stop[s].pid}
  /\ UNCHANGED <<births, pidFile, metadata, queued, reused>>

StopSeesEnd(s) ==
  /\ stop[s].stage = "told" /\ ~Alive(stop[s].pid) /\ Stage(s, "unlinking")
  /\ UNCHANGED <<process, births, told, pidFile, metadata, queued, killed, reused>>

\* The files are removed by their path, whoever wrote them.
StopUnlinks(s) ==
  /\ stop[s].stage = "unlinking" /\ Ends(s)
  /\ pidFile' = Nobody /\ metadata' = Missing
  /\ UNCHANGED <<process, births, told, queued, killed, reused>>

Next ==
  \/ \E p \in Pids : \/ OtherStarts(p) \/ DaemonStarts(p) \/ Exits(p) \/ Names(p) \/ Ready(p)
                     \/ TimesOut(p) \/ Drained(p) \/ RemovesName(p) \/ RemovesMetadata(p)
  \/ \E s \in Stops : \/ StopReads(s) \/ StopChecks(s) \/ StopTells(s) \/ StopKills(s)
                      \/ StopSeesEnd(s) \/ StopUnlinks(s)

Spec == Init /\ [][Next]_vars

-----------------------------------------------------------------------------
(* --stop signals daemons only, although the files outlive a daemon that was killed, *)
(* its PID goes to another process, a new daemon has written one file of the two,  *)
(* and two daemons or two commands write and remove the same files: except when    *)
(* the PID changes hands between the check and the last signal (daemon.py:151).    *)
OnlyDaemonsSignalled == killed => reused
================================================================================
