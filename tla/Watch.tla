------------------------------- MODULE Watch -------------------------------
(***************************************************************************)
(* From a directory of sockets to hubs: the watcher (watcher.py) and the   *)
(* part of the worker's push listener that serves it (worker.py).          *)
(*                                                                         *)
(* Two threads of the watcher start watches: the main thread once, before  *)
(* it reads events, and the ctl thread whenever the monitor reloads.  They *)
(* share the inotify descriptor, watch_dir and the channel to the worker.  *)
(*                                                                         *)
(* The worker's answer to a message depends on what the directory holds    *)
(* when it is handled, not when it was sent: it connects to whatever       *)
(* listens at the path by then.                                            *)
(*                                                                         *)
(* Every path has a console, the same one always: RELOAD_WATCH and         *)
(* CONFIG_UPDATE may define others, which is left out.                     *)
(***************************************************************************)
EXTENDS Integers, Sequences, FiniteSets

CONSTANTS
    Dirs, Names,    \* directories, and file names in them
    FirstDir,       \* the watch_dir of the configuration at the start
    NoDir,          \* nothing is watched
    Explicit,       \* paths that a console is defined for by name
    Capacity,       \* messages watch_sock holds
    MaxSockets,     \* bound: sockets ever bound
    MaxReloads      \* bound: reloads

Paths == Dirs \X Names

ASSUME WatchAssumption ==
    /\ FirstDir \in Dirs /\ NoDir \notin Dirs
    /\ IsFiniteSet(Names)
    /\ Explicit \subseteq Paths
    /\ Capacity \in Nat /\ MaxSockets \in Nat /\ MaxReloads \in Nat

VARIABLES
    sock,       \* the socket at each path: 0 is none, each bind a new number
    bound,      \* how many there have been
    up,         \* those there that are listening and pass validation
    watched,    \* the directory inotify_fd watches
    queue,      \* inotify's events not yet read
    watch_dir,  \* watch_dir
    pc,         \* where each thread is in start_watch, if it is
    wanted,     \* its argument
    todo,       \* files listed or events read, still to be handled
    out,        \* the message a thread is sending
    chan,       \* watch_sock
    hub,        \* the socket each console's hub is connected to, 0 if none
    reloads,
    lone,       \* history: sockets refused before they were up, or whose hub
                \* has ended by itself
    unseen      \* history: paths a new watch may have missed something of

vars == <<sock, bound, up, watched, queue, watch_dir, pc, wanted, todo, out, chan,
          hub, reloads, lone, unseen>>

Threads == {"main", "ctl"}
Kinds == {"appeared", "disappeared"}
\* dir is where it happened, which an event does not say.
Events == [kind : Kinds, dir : Dirs, name : Names]
Messages == [kind : Kinds, path : Paths]

TypeOK ==
    /\ sock \in [Paths -> Nat] /\ bound \in Nat
    /\ up \subseteq Nat /\ lone \subseteq Nat
    /\ watched \in Dirs \cup {NoDir} /\ watch_dir \in Dirs
    /\ queue \in Seq(Events)
    /\ pc \in [Threads -> {"idle", "start", "open", "list", "handle"}]
    /\ wanted \in [Threads -> Dirs]
    /\ todo \in [Threads -> Seq(Events)]
    /\ out \in [Threads -> Seq(Messages)]
    /\ chan \in Seq(Messages) /\ Len(chan) <= Capacity
    /\ hub \in [Paths -> Nat]
    /\ reloads \in Nat
    /\ unseen \subseteq Paths

Init ==
    /\ sock = [p \in Paths |-> 0] /\ bound = 0 /\ up = {}
    /\ watched = NoDir /\ queue = <<>> /\ watch_dir = FirstDir
    /\ pc = [t \in Threads |-> IF t = "main" THEN "start" ELSE "idle"]
    /\ wanted = [t \in Threads |-> FirstDir]
    /\ todo = [t \in Threads |-> <<>>]
    /\ out = [t \in Threads |-> <<>>]
    /\ chan = <<>>
    /\ hub = [p \in Paths |-> 0]
    /\ reloads = 0
    /\ lone = {} /\ unseen = {}

-----------------------------------------------------------------------------
(* The virtual machines, inotify, and hubs that end.                       *)

\* The event goes to the watch there is, if it is of this directory.
Notify(kind, p) ==
    queue' = IF watched = p[1]
             THEN Append(queue, [kind |-> kind, dir |-> p[1], name |-> p[2]])
             ELSE queue

Bind(p) ==
    /\ bound < MaxSockets
    /\ sock[p] = 0
    /\ bound' = bound + 1
    /\ sock' = [sock EXCEPT ![p] = bound + 1]
    /\ Notify("appeared", p)
    /\ UNCHANGED <<up, watched, watch_dir, pc, wanted, todo, out, chan, hub, reloads,
                   lone, unseen>>

Listen(p) ==
    /\ sock[p] # 0 /\ sock[p] \notin up
    /\ up' = up \cup {sock[p]}
    /\ UNCHANGED <<sock, bound, watched, queue, watch_dir, pc, wanted, todo, out, chan,
                   hub, reloads, lone, unseen>>

Unlink(p) ==
    /\ sock[p] # 0
    /\ sock' = [sock EXCEPT ![p] = 0]
    /\ Notify("disappeared", p)
    /\ up' = up \ {sock[p]} /\ lone' = lone \ {sock[p]}
    /\ unseen' = IF watched # p[1] /\ hub[p] = sock[p] THEN unseen \cup {p} ELSE unseen
    /\ UNCHANGED <<bound, watched, watch_dir, pc, wanted, todo, out, chan, hub, reloads>>

\* The console closes or the hub has no more users (ConsoleHub).
HubEnds(p) ==
    /\ hub[p] # 0
    /\ lone' = lone \cup ({hub[p]} \cap {sock[p]})
    /\ hub' = [hub EXCEPT ![p] = 0]
    /\ UNCHANGED <<sock, bound, up, watched, queue, watch_dir, pc, wanted, todo, out,
                   chan, reloads, unseen>>

-----------------------------------------------------------------------------
(* The watcher: start_watch.                                               *)

PathsOf(events) == {<<events[i].dir, events[i].name>> : i \in 1..Len(events)}

\* Events a thread has read but not sent the message of.
InHand(t) == PathsOf(todo[t]) \cup {out[t][i].path : i \in 1..Len(out[t])}

Present(d) == {p \in {d} \X Names : sock[p] # 0}

\* ctl_listener: RELOAD_WATCH, with a configuration whose directory may be
\* another and whose consoles are the same.
Reload(d) ==
    /\ reloads < MaxReloads
    /\ pc["ctl"] = "idle"
    /\ reloads' = reloads + 1
    /\ pc' = [pc EXCEPT !["ctl"] = "start"]
    /\ wanted' = [wanted EXCEPT !["ctl"] = d]
    /\ UNCHANGED <<sock, bound, up, watched, queue, watch_dir, todo, out, chan, hub,
                   lone, unseen>>

\* The old descriptor is closed, and the events queued on it are gone.  What
\* the main thread has in hand may now come after what this thread will list.
StartWatch(t) ==
    /\ pc[t] = "start"
    /\ watched' = NoDir /\ queue' = <<>>
    /\ watch_dir' = wanted[t]
    /\ pc' = [pc EXCEPT ![t] = "open"]
    /\ unseen' = unseen \cup PathsOf(queue) \cup InHand("main")
    /\ UNCHANGED <<sock, bound, up, wanted, todo, out, chan, hub, reloads, lone>>

\* Bad permissions, or inotify fails.
GiveUp(t) ==
    /\ pc[t] = "open"
    /\ pc' = [pc EXCEPT ![t] = "idle"]
    /\ UNCHANGED <<sock, bound, up, watched, queue, watch_dir, wanted, todo, out, chan,
                   hub, reloads, lone, unseen>>

\* If the other thread has got here in between its descriptor is forgotten.
OpenWatch(t) ==
    /\ pc[t] = "open"
    /\ watched' = wanted[t] /\ queue' = <<>>
    /\ pc' = [pc EXCEPT ![t] = "list"]
    /\ unseen' = unseen \cup PathsOf(queue) \cup InHand("main")
    /\ UNCHANGED <<sock, bound, up, watch_dir, wanted, todo, out, chan, hub, reloads,
                   lone>>

\* The files of a directory, in some order.
Listings(d) ==
    LET n == Cardinality(Present(d)) IN
    {[i \in 1..n |-> [kind |-> "appeared", dir |-> d, name |-> order[i][2]]] :
        order \in {f \in [1..n -> Present(d)] :
                     \A i, j \in 1..n : f[i] = f[j] => i = j}}

\* Under landlock only the first directory can be read: OSError otherwise.
List(t) ==
    /\ pc[t] = "list"
    /\ pc' = [pc EXCEPT ![t] = "handle"]
    /\ \/ /\ \E files \in Listings(wanted[t]) : todo' = [todo EXCEPT ![t] = files]
          /\ UNCHANGED unseen
       \/ /\ wanted[t] # FirstDir
          /\ unseen' = unseen \cup Present(wanted[t])
          /\ UNCHANGED todo
    /\ UNCHANGED <<sock, bound, up, watched, queue, watch_dir, wanted, out, chan, hub,
                   reloads, lone>>

\* Mutant of StartSteps: the directory is read before it is watched.
ListsFirst(t) ==
    \/ StartWatch(t)
    \/ GiveUp(t)
    \/ /\ pc[t] = "open" /\ todo[t] = <<>> /\ watched = NoDir
       /\ \E files \in Listings(wanted[t]) : todo' = [todo EXCEPT ![t] = files]
       /\ pc' = [pc EXCEPT ![t] = "list"]
       /\ UNCHANGED <<sock, bound, up, watched, queue, watch_dir, wanted, out, chan, hub,
                      reloads, lone, unseen>>
    \/ /\ pc[t] = "list"
       /\ watched' = wanted[t] /\ queue' = <<>>
       /\ pc' = [pc EXCEPT ![t] = "handle"]
       /\ unseen' = unseen \cup PathsOf(queue) \cup InHand("main")
       /\ UNCHANGED <<sock, bound, up, watch_dir, wanted, todo, out, chan, hub, reloads,
                      lone>>

StartSteps(t) ==
    \/ StartWatch(t)
    \/ GiveUp(t)
    \/ OpenWatch(t)
    \/ List(t)

-----------------------------------------------------------------------------
(* The watcher: files and events.                                          *)

\* The main thread's loop: os.read takes all events there are.
ReadEvents ==
    /\ pc["main"] = "idle" /\ todo["main"] = <<>> /\ out["main"] = <<>>
    /\ watched # NoDir /\ queue # <<>>
    /\ todo' = [todo EXCEPT !["main"] = queue]
    /\ queue' = <<>>
    /\ UNCHANGED <<sock, bound, up, watched, watch_dir, pc, wanted, out, chan, hub,
                   reloads, lone, unseen>>

\* A listed file is in the directory listed, an event wherever watch_dir is.
PathOf(t, e) == IF pc[t] = "handle" THEN <<e.dir, e.name>> ELSE <<watch_dir, e.name>>

\* _handle_appeared, as far as the validation, and _handle_disappeared: what
\* is to be sent.  A socket that is not up yet may pass the validation.
Handle(t) ==
    /\ todo[t] # <<>> /\ out[t] = <<>>
    /\ LET e == Head(todo[t])
           p == PathOf(t, e)
       IN /\ \/ /\ e.kind = "disappeared" \/ sock[p] # 0
                /\ out' = [out EXCEPT ![t] = <<[kind |-> e.kind, path |-> p]>>]
                /\ UNCHANGED lone
             \/ /\ e.kind = "appeared" /\ sock[p] \notin up
                /\ lone' = lone \cup ({sock[p]} \ {0})
                /\ UNCHANGED out
          /\ unseen' = IF p[1] # e.dir THEN unseen \cup {p, <<e.dir, e.name>>} ELSE unseen
    /\ todo' = [todo EXCEPT ![t] = Tail(@)]
    /\ UNCHANGED <<sock, bound, up, watched, queue, watch_dir, pc, wanted, chan, hub,
                   reloads>>

\* Mutant of Send: the message is written however full the channel is.
SendAnyway(t) ==
    /\ out[t] # <<>>
    /\ chan' = Append(chan, out[t][1])
    /\ out' = [out EXCEPT ![t] = <<>>]
    /\ UNCHANGED <<sock, bound, up, watched, queue, watch_dir, pc, wanted, todo, hub,
                   reloads, lone, unseen>>

Send(t) ==
    /\ out[t] # <<>> /\ Len(chan) < Capacity
    /\ chan' = Append(chan, out[t][1])
    /\ out' = [out EXCEPT ![t] = <<>>]
    /\ UNCHANGED <<sock, bound, up, watched, queue, watch_dir, pc, wanted, todo, hub,
                   reloads, lone, unseen>>

\* WATCHER_READY, and start_watch returns.
Ready(t) ==
    /\ pc[t] = "handle" /\ todo[t] = <<>> /\ out[t] = <<>>
    /\ pc' = [pc EXCEPT ![t] = "idle"]
    /\ UNCHANGED <<sock, bound, up, watched, queue, watch_dir, wanted, todo, out, chan,
                   hub, reloads, lone, unseen>>

-----------------------------------------------------------------------------
(* The worker.                                                             *)

Received(kind) == chan # <<>> /\ Head(chan).kind = kind

\* SOCKET_APPEARED: validate and connect; a hub that lives is kept, and the
\* new connection closed.
Appeared ==
    /\ Received("appeared")
    /\ LET p == Head(chan).path
       IN \/ /\ sock[p] \in up
             /\ hub' = [hub EXCEPT ![p] = IF @ = 0 THEN sock[p] ELSE @]
             /\ UNCHANGED lone
          \/ /\ sock[p] \notin up
             /\ lone' = lone \cup ({sock[p]} \ {0})
             /\ UNCHANGED hub
    /\ chan' = Tail(chan)
    /\ UNCHANGED <<sock, bound, up, watched, queue, watch_dir, pc, wanted, todo, out,
                   reloads, unseen>>

\* Mutant of WorkerStep: a refused connection ends the listener.
StopsAtRefusal ==
    /\ Received("appeared") => sock[Head(chan).path] \in up
    /\ Appeared

\* SOCKET_DISAPPEARED.  The hub of an explicit console is looked up under an
\* empty name.
Disappeared ==
    /\ Received("disappeared")
    /\ LET p == Head(chan).path
       IN hub' = IF p \in Explicit THEN hub ELSE [hub EXCEPT ![p] = 0]
    /\ chan' = Tail(chan)
    /\ UNCHANGED <<sock, bound, up, watched, queue, watch_dir, pc, wanted, todo, out,
                   reloads, lone, unseen>>

AppearedOrStops == StopsAtRefusal \/ Disappeared

WorkerStep == Appeared \/ Disappeared

-----------------------------------------------------------------------------
Environment ==
    \/ \E p \in Paths : Bind(p) \/ Listen(p) \/ Unlink(p) \/ HubEnds(p)
    \/ \E d \in Dirs : Reload(d)

ThreadStep(t) == StartSteps(t) \/ Handle(t) \/ Send(t) \/ Ready(t)

Next ==
    \/ Environment
    \/ \E t \in Threads : ThreadStep(t)
    \/ ReadEvents
    \/ WorkerStep

Spec == Init /\ [][Next]_vars

\* The threads run, and the listener comes back to its select: no push
\* message has left it in the middle of another (RuleSync), and neither
\* kill_stale nor a connect keeps it (Lifecycle).
Fairness ==
    /\ \A t \in Threads : WF_vars(ThreadStep(t))
    /\ WF_vars(ReadEvents)
    /\ WF_vars(WorkerStep)

FairSpec == Spec /\ Fairness

-----------------------------------------------------------------------------
Quiet ==
    /\ queue = <<>> /\ chan = <<>>
    /\ \A t \in Threads : pc[t] = "idle" /\ todo[t] = <<>> /\ out[t] = <<>>

\* When all is quiet, a socket of the watched directory and the hub of its
\* console belong together: the hub is connected to the socket that is there,
\* and there is none only if there is no socket, or the socket was not up when
\* it was reported, or its hub has ended since.  Except what happened to a file
\* while the watch was being replaced, and explicit consoles.
Reflected ==
    Quiet =>
        \A p \in Paths \ (Explicit \cup unseen) :
            p[1] = watched =>
                \/ hub[p] = sock[p]
                \/ hub[p] = 0 /\ sock[p] \in lone

\* Whatever happens in the directory, in the end all of it has been dealt with.
Settles == <>[]Quiet
=============================================================================
