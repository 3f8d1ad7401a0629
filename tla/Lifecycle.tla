----------------------------- MODULE Lifecycle -----------------------------
(***************************************************************************)
(* The three processes of the daemon: how cli.py forks them, which ends of *)
(* the four socket pairs each of them holds, and how the end of one        *)
(* process reaches the others, that is as end of file on a socket whose    *)
(* other end nobody holds any more, and to the monitor through waitpid.    *)
(* The rules travel as in RuleSync while this goes on.                     *)
(*                                                                         *)
(* A request of the worker and the answers of its listener are there or    *)
(* not: what they say is the subject of Rpc and Enforcement.  One answer   *)
(* is all the socket holds.  A spawned console matters until it execs, as  *)
(* a process that holds copies of the monitor's ends; Python's descriptors *)
(* are closed by exec.                                                     *)
(***************************************************************************)
EXTENDS RuleSync

CONSTANT MaxFaults    \* bound: processes that die of something else

ASSUME LifecycleAssumption == MaxFaults \in Nat

VARIABLES
    at,         \* where each process is
    holds,      \* the ends of the socket pairs each process has open
    listener,   \* the worker's push listener: between messages or reading
                \* one, serving one of push or of watch, or ended
    request,    \* the worker's request is on rpc, unread
    answers,    \* there are answers on push for the monitor, unread
    faults

lifeVars == <<at, holds, listener, request, answers, faults>>
vars == <<lifeVars, syncVars>>

Procs == {"monitor", "worker", "watcher", "console"}
Daemon == Procs \ {"console"}

Peer == [rpc_m |-> "rpc_w", rpc_w |-> "rpc_m",
         push_m |-> "push_w", push_w |-> "push_m",
         ctl_m |-> "ctl_w", ctl_w |-> "ctl_m",
         watch_w2 |-> "watch_worker", watch_worker |-> "watch_w2"]
Ends == DOMAIN Peer

\* The ends each process waits on for messages.
Reads == [monitor |-> {"rpc_m", "push_m", "ctl_m"},
          worker |-> {"push_w", "watch_worker"},
          watcher |-> {"ctl_w"}]

\* The monitor's main thread: in run_monitor waiting or with a request, then
\* in the two calls of waitpid.
Looping == {"serving", "busy", "spawned"}
Waiting == {"awaits_worker", "awaits_watcher"}
Stages ==
    [monitor |-> {"start", "one_fork", "two_forks", "gone"} \cup Looping \cup Waiting,
     worker |-> {"none", "forked", "running", "gone"},
     watcher |-> {"none", "forked", "running", "gone"},
     console |-> {"none", "forked"}]

TypeOK ==
    /\ SyncTypeOK
    /\ at \in [Procs -> UNION {Stages[p] : p \in Procs}]
    /\ \A p \in Procs : at[p] \in Stages[p]
    /\ holds \in [Procs -> SUBSET Ends]
    /\ \A p \in Procs : at[p] \in {"none", "gone"} => holds[p] = {}
    /\ listener \in {"up", "serving", "watching", "dead"}
    /\ request \in BOOLEAN /\ answers \in BOOLEAN
    /\ faults \in 0..MaxFaults

Init ==
    /\ SyncInit
    /\ at = [p \in Procs |-> IF p = "monitor" THEN "start" ELSE "none"]
    /\ holds = [p \in Procs |-> IF p = "monitor" THEN Ends ELSE {}]
    /\ listener = "up"
    /\ request = FALSE /\ answers = FALSE
    /\ faults = 0

-----------------------------------------------------------------------------
Held(e) == \E p \in Procs : e \in holds[p]

\* Process p goes from one of the stages from to stage to.
Goes(p, from, to) == at[p] \in from /\ at' = [at EXCEPT ![p] = to]

Exits(p) == at' = [at EXCEPT ![p] = "gone"] /\ holds' = [holds EXCEPT ![p] = {}]

Closes(p, ends) == holds' = [holds EXCEPT ![p] = @ \ ends]

\* A fork copies what the monitor has open.
Forks(p, from, to) ==
    /\ at["monitor"] = from /\ at[p] = "none"
    /\ at' = [at EXCEPT !["monitor"] = to, ![p] = "forked"]
    /\ holds' = [holds EXCEPT ![p] = holds["monitor"]]

\* The main thread of the monitor goes on when no signal handler runs.
MainThread == handlers = <<>>

-----------------------------------------------------------------------------
(* cli.py: the start.                                                      *)

ForkWatcher ==
    /\ Forks("watcher", "start", "one_fork")
    /\ UNCHANGED <<listener, request, answers, faults, syncVars>>

WatcherCloses ==
    /\ Goes("watcher", {"forked"}, "running")
    /\ Closes("watcher", {"rpc_m", "rpc_w", "push_m", "push_w", "watch_worker"})
    /\ UNCHANGED <<listener, request, answers, faults, syncVars>>

ForkWorker ==
    /\ Forks("worker", "one_fork", "two_forks")
    /\ UNCHANGED <<listener, request, answers, faults, syncVars>>


\* Mutant of WorkerCloses: the other end of push is closed.
WorkerClosesPush ==
    /\ Goes("worker", {"forked"}, "running")
    /\ Closes("worker", {"rpc_m", "push_w", "ctl_m", "ctl_w", "watch_w2"})
    /\ UNCHANGED <<listener, request, answers, faults, syncVars>>

\* The worker closes what is not its own and starts the push listener.
WorkerCloses ==
    /\ Goes("worker", {"forked"}, "running")
    /\ Closes("worker", {"rpc_m", "push_m", "ctl_m", "ctl_w", "watch_w2"})
    /\ UNCHANGED <<listener, request, answers, faults, syncVars>>

\* The monitor likewise, and installs its signal handlers.
MonitorCloses ==
    /\ Goes("monitor", {"two_forks"}, "serving")
    /\ Closes("monitor", {"rpc_w", "push_w", "ctl_w", "watch_w2", "watch_worker"})
    /\ UNCHANGED <<listener, request, answers, faults, syncVars>>

-----------------------------------------------------------------------------
(* Requests of the worker's sessions, one at a time.                       *)

WorkerCalls ==
    /\ at["worker"] = "running" /\ Held("rpc_m")
    /\ ~request /\ at["monitor"] \notin {"busy", "spawned"}
    /\ request' = TRUE
    /\ UNCHANGED <<at, holds, listener, answers, faults, syncVars>>

TakeRequest ==
    /\ MainThread /\ request
    /\ Goes("monitor", {"serving"}, "busy")
    /\ request' = FALSE
    /\ UNCHANGED <<holds, listener, answers, faults, syncVars>>

\* SPAWN_REQ: the child has every descriptor of the monitor until it execs.
Spawn ==
    /\ MainThread
    /\ Forks("console", "busy", "spawned")
    /\ UNCHANGED <<listener, request, answers, faults, syncVars>>

\* It does, or it fails to and exits.
ConsoleExecs ==
    /\ Goes("console", {"forked"}, "none")
    /\ holds' = [holds EXCEPT !["console"] = {}]
    /\ UNCHANGED <<listener, request, answers, faults, syncVars>>

Answer ==
    /\ MainThread /\ Held("rpc_w")
    /\ Goes("monitor", {"busy", "spawned"}, "serving")
    /\ UNCHANGED <<holds, listener, request, answers, faults, syncVars>>

\* There is nobody to answer: after a spawn, or when one is refused because of
\* an error, the exception is caught ...
AnswerDropped ==
    /\ MainThread /\ ~Held("rpc_w")
    /\ Goes("monitor", {"busy", "spawned"}, "serving")
    /\ UNCHANGED <<holds, listener, request, answers, faults, syncVars>>

\* ... and anywhere else it ends the monitor, without waitpid.
AnswerRaises ==
    /\ MainThread /\ ~Held("rpc_w")
    /\ at["monitor"] = "busy" /\ Exits("monitor")
    /\ UNCHANGED <<listener, request, answers, faults, syncVars>>

-----------------------------------------------------------------------------
(* The push channel.                                                       *)

\* Sending to a worker that is gone fails; the handler logs that and goes on.
SendLost ==
    /\ ~Held("push_w")
    /\ handlers # <<>>
    /\ Sending(Head(handlers)) \/ CutShort(Head(handlers))
    /\ handlers' = After(Head(handlers)) \o Tail(handlers)
    /\ UNCHANGED <<monCfg, monMap, reload, workerRules, channel>>

Handling ==
    /\ at["monitor"] \in Looping \cup Waiting
    /\ \/ ReloadMap
       \/ ReloadCfg
       \/ GetMap
       \/ SendFails
       \/ Held("push_w") /\ (SendCfg \/ SendMap \/ SendRest)
       \/ SendLost
    /\ UNCHANGED lifeVars

\* SIGHUP, SIGUSR2; and SIGUSR1, to a worker that is there.
Signalled ==
    /\ at["monitor"] \in Looping \cup Waiting
    /\ \/ \E sig \in Signals : SignalArrives(sig)
       \/ Held("push_w") /\ AskForSessions
    /\ UNCHANGED lifeVars

ListenerRuns == at["worker"] = "running" /\ listener = "up"

ListenerAppliesCfg ==
    /\ ListenerRuns
    /\ ApplyCfg
    /\ UNCHANGED lifeVars

\* ENFORCE_REQ: the map, and kill_stale.
ListenerEnforces ==
    /\ ListenerRuns
    /\ ApplyMap
    /\ listener' = "serving"
    /\ UNCHANGED <<at, holds, request, answers, faults>>

\* SESSION_LIST_REQ: the snapshots.
ListenerLists ==
    /\ ListenerRuns
    /\ ReadAsk
    /\ listener' = "serving"
    /\ UNCHANGED <<at, holds, request, answers, faults>>

\* What raises in ipc_recv is logged, and the listener goes on.
ListenerMisreads ==
    /\ ListenerRuns
    /\ Misread
    /\ UNCHANGED lifeVars

\* ENFORCE_RESP, SESSION_LIST_RESP: the listener is through with kill_stale
\* or the snapshots, which wait for locks and users, and the monitor has read
\* what was sent before.
Reply ==
    /\ at["worker"] = "running" /\ listener = "serving"
    /\ Held("push_m") /\ ~answers
    /\ answers' = TRUE
    /\ listener' = "up"
    /\ UNCHANGED <<at, holds, request, faults, syncVars>>

\* Nobody reads the reply any more, or the configuration is one that kill_stale
\* or match_socket cannot work with: the exception is not caught and ends the
\* thread, and only the thread.
ServingRaises ==
    /\ at["worker"] = "running" /\ listener \in {"serving", "watching"}
    /\ listener' = "dead"
    /\ UNCHANGED <<at, holds, request, answers, faults, syncVars>>

\* A message of the watcher, which may have ended since: the console it is
\* about is connected or ended.
ListenerWatches ==
    /\ ListenerRuns /\ ~midway
    /\ at["watcher"] \notin {"none", "forked"}
    /\ listener' = "watching"
    /\ UNCHANGED <<at, holds, request, answers, faults, syncVars>>

Watched ==
    /\ at["worker"] = "running" /\ listener = "watching"
    /\ listener' = "up"
    /\ UNCHANGED <<at, holds, request, answers, faults, syncVars>>

TakeAnswers ==
    /\ MainThread /\ answers /\ at["monitor"] = "serving"
    /\ answers' = FALSE
    /\ UNCHANGED <<at, holds, listener, request, faults, syncVars>>

\* An answer over the limit of ipc_recv: run_monitor returns.
AnswersTooLong ==
    /\ MainThread /\ answers
    /\ Goes("monitor", {"serving"}, "awaits_worker")
    /\ answers' = FALSE
    /\ UNCHANGED <<holds, listener, request, faults, syncVars>>

-----------------------------------------------------------------------------
(* The end.                                                                *)

\* End of file comes behind what was sent before, and also to a listener that
\* waits for more of a message; but only on the socket it waits on.
AtEof(e) ==
    /\ ~Held(Peer[e])
    /\ e = "rpc_m" => ~request
    /\ e = "push_m" => ~answers
    /\ e = "push_w" => push = <<>>
    /\ e = "watch_worker" => ~midway

CanRead(p) ==
    \/ p = "monitor" /\ at[p] = "serving" /\ MainThread
    \/ p = "worker" /\ ListenerRuns
    \/ p = "watcher" /\ at[p] = "running"

\* The worker and the watcher exit; run_monitor returns.
ReadsEof(p) ==
    /\ CanRead(p) /\ \E e \in Reads[p] : AtEof(e)
    /\ IF p = "monitor"
       THEN at' = [at EXCEPT ![p] = "awaits_worker"] /\ UNCHANGED holds
       ELSE Exits(p)
    /\ UNCHANGED <<listener, request, answers, faults, syncVars>>

WorkerReaped ==
    /\ MainThread /\ at["worker"] = "gone"
    /\ Goes("monitor", {"awaits_worker"}, "awaits_watcher")
    /\ UNCHANGED <<holds, listener, request, answers, faults, syncVars>>

WatcherReaped ==
    /\ MainThread /\ at["watcher"] = "gone"
    /\ at["monitor"] = "awaits_watcher" /\ Exits("monitor")
    /\ UNCHANGED <<listener, request, answers, faults, syncVars>>

\* A process is killed, or ends of an exception its code does not catch: a
\* command the monitor cannot split, a thread the worker cannot start.
Dies(p) ==
    /\ at[p] \notin {"none", "gone"} /\ faults < MaxFaults
    /\ Exits(p)
    /\ faults' = faults + 1
    /\ UNCHANGED <<listener, request, answers, syncVars>>

Next ==
    \/ ForkWatcher \/ WatcherCloses \/ ForkWorker \/ WorkerCloses
    \/ MonitorCloses
    \/ WorkerCalls \/ TakeRequest \/ Spawn \/ ConsoleExecs
    \/ Answer \/ AnswerDropped \/ AnswerRaises
    \/ Handling \/ Signalled
    \/ ListenerAppliesCfg \/ ListenerEnforces \/ ListenerLists
    \/ ListenerMisreads \/ Reply \/ ServingRaises
    \/ ListenerWatches \/ Watched
    \/ TakeAnswers \/ AnswersTooLong
    \/ \E p \in Daemon : ReadsEof(p)
    \/ WorkerReaped \/ WatcherReaped
    \/ \E p \in Daemon : Dies(p)

Spec == Init /\ [][Next]_vars

MainStep ==
    \/ ForkWatcher \/ ForkWorker \/ MonitorCloses
    \/ TakeRequest \/ Spawn \/ Answer \/ AnswerDropped \/ AnswerRaises
    \/ TakeAnswers \/ AnswersTooLong
    \/ ReadsEof("monitor") \/ WorkerReaped \/ WatcherReaped

ListenerReads ==
    \/ ListenerAppliesCfg \/ ListenerEnforces \/ ListenerLists
    \/ ListenerMisreads

\* What the processes do of themselves: signals, requests, the watcher's
\* messages and deaths come when they please, and nothing is known of when the
\* listener gets done with what it serves.
ProcessStep ==
    \/ WatcherCloses \/ WorkerCloses \/ ConsoleExecs
    \/ MainStep \/ Handling
    \/ ListenerReads \/ ReadsEof("worker") \/ ReadsEof("watcher")

-----------------------------------------------------------------------------
Gone(p) == at[p] \in {"none", "gone"}

\* The listener is not there to read: it is dead, it serves a message that it
\* does not get done with, or it waits for more of one.
Deaf == listener # "up" \/ midway

\* As long as the worker lives it has the monitor's rules, in the sense of
\* InSync and with its exceptions, whatever happened to the monitor and the
\* watcher.
InSyncWhileUp == at["worker"] # "gone" => InSync

\* Until the worker is gone the rules travel as in RuleSync, wherever the
\* processes are in their starts and ends: a send never fails for want of a
\* reader, so that only what json.dumps refuses, and what is too long or cut
\* by another message or behind such a one, is not read by the worker.
RulesTravelWhileUp == [][at["worker"] # "gone" => [SyncNext]_syncVars]_vars

=============================================================================
