----------------------------- MODULE HubRegistry -----------------------------
(***************************************************************************)
(* The registry of hubs by console name (HubRegistry in hub.py) and the    *)
(* threads of the worker that go through it: sessions running the console  *)
(* command (worker.py, run_authenticated_session) and the push listener    *)
(* handling SOCKET_APPEARED and SOCKET_DISAPPEARED.                        *)
(*                                                                         *)
(* Every method of the registry is one step, as its lock makes it; what    *)
(* its callers do between two methods is not.  A connection is a console   *)
(* descriptor someone opened (a pty the monitor passed, a connected        *)
(* socket); a hub is named by the connection it was created on.  Of a hub  *)
(* only what HubObject promises is used.                                   *)
(***************************************************************************)
EXTENDS Naturals

CONSTANTS
    Sessions,     \* session threads
    ExecNames,    \* consoles the monitor spawns a command for
    SocketNames,  \* consoles behind a socket the watcher reports
    Conns,        \* bound: the connections opened in one behaviour
    None          \* no connection

Names == ExecNames \cup SocketNames

ASSUME RegistryAssumption ==
    /\ ExecNames \cap SocketNames = {}
    /\ Names # {}
    /\ None \notin Conns

VARIABLES
    hubs,       \* _hubs: the hub registered under each name, or None
    name,       \* the console each hub was created for
    live,       \* hubs that are not done
    clients,    \* the clients of each hub
    conn,       \* state of each connection
    session,    \* where each session thread is in the console command
    cname,      \* the console name it was given
    held,       \* the connection or hub it holds a reference to
    listener,   \* where the push listener is in a handler
    lname,      \* the console name of the event it handles
    lheld       \* the connection or hub it holds a reference to

sessionVars == <<session, cname, held>>
listenerVars == <<listener, lname, lheld>>
hubVars == <<name, live, clients>>
vars == <<hubs, hubVars, conn, sessionVars, listenerVars>>

ConnStates == {"unused", "carried", "hub", "closed"}
SessionStates == {"prompt", "spawning", "spawned", "holding", "attached", "over"}
ListenerStates == {"idle", "connected", "found", "down"}

TypeOK ==
    /\ hubs \in [Names -> Conns \cup {None}]
    /\ name \in [Conns -> Names]
    /\ live \in SUBSET Conns
    /\ clients \in [Conns -> SUBSET Sessions]
    /\ conn \in [Conns -> ConnStates]
    /\ session \in [Sessions -> SessionStates]
    /\ cname \in [Sessions -> Names]
    /\ held \in [Sessions -> Conns \cup {None}]
    /\ listener \in ListenerStates
    /\ lname \in Names
    /\ lheld \in Conns \cup {None}
    /\ \A s \in Sessions :
         session[s] \in {"spawned", "holding", "attached", "over"} => held[s] \in Conns
    /\ listener # "idle" => lheld \in Conns

SomeName == CHOOSE n \in Names : TRUE

Init ==
    /\ hubs = [n \in Names |-> None]
    /\ name = [c \in Conns |-> SomeName]
    /\ live = {}
    /\ clients = [c \in Conns |-> {}]
    /\ conn = [c \in Conns |-> "unused"]
    /\ session = [s \in Sessions |-> "prompt"]
    /\ cname = [s \in Sessions |-> SomeName]
    /\ held = [s \in Sessions |-> None]
    /\ listener = "idle"
    /\ lname = SomeName
    /\ lheld = None

-----------------------------------------------------------------------------
(* The methods of HubRegistry.                                             *)

\* get: the registered hub, if there is one and it is not done.
Get(n) == IF hubs[n] \in live THEN hubs[n] ELSE None

NewHub(n, c) ==
    /\ conn' = [conn EXCEPT ![c] = "hub"]
    /\ hubs' = [hubs EXCEPT ![n] = c]
    /\ name' = [name EXCEPT ![c] = n]
    /\ live' = live \cup {c}
    /\ UNCHANGED clients

\* Mutant of GetOrCreate: a hub on every descriptor, whatever is registered.
CreateAlways(n, c) == NewHub(n, c)

\* Mutant of GetOrCreate: the descriptor that is not needed is left open.
GetOrCreateLeaks(n, c) ==
    IF Get(n) = None THEN NewHub(n, c) ELSE UNCHANGED <<conn, hubs, hubVars>>

\* get_or_create(n, fd): the live hub, and the new descriptor is closed; or a
\* new hub on the new descriptor, which replaces a registered one that is done.
GetOrCreate(n, c) ==
    IF Get(n) = None
    THEN NewHub(n, c)
    ELSE conn' = [conn EXCEPT ![c] = "closed"] /\ UNCHANGED <<hubs, hubVars>>

\* The hub get_or_create returns.
Returned(n, c) == IF Get(n) = None THEN c ELSE Get(n)

\* Mutant of RemoveIfDone: the name is dropped without a look at the hub.
RemoveAlways(n) == hubs' = [hubs EXCEPT ![n] = None]

\* remove_if_done looks at the hub registered now, not at the caller's.
RemoveIfDone(n) ==
    hubs' = IF hubs[n] \in live THEN hubs ELSE [hubs EXCEPT ![n] = None]

-----------------------------------------------------------------------------
(* Sessions: the console command.                                          *)

Move(s, from, to) ==
    session[s] = from /\ session' = [session EXCEPT ![s] = to]

\* Mutant of Console: attaches to what get returned without looking at it.
ConsoleUnchecked(s, n) ==
    /\ Move(s, "prompt", "holding")
    /\ cname' = [cname EXCEPT ![s] = n]
    /\ held' = [held EXCEPT ![s] = Get(n)]
    /\ UNCHANGED <<hubs, hubVars, conn, listenerVars>>

\* The access check is not modelled here.  A live hub is taken as it is; an
\* exec console without one is spawned; a socket console has to wait.
Console(s, n) ==
    /\ Get(n) # None \/ n \in ExecNames
    /\ Move(s, "prompt", IF Get(n) # None THEN "holding" ELSE "spawning")
    /\ cname' = [cname EXCEPT ![s] = n]
    /\ held' = [held EXCEPT ![s] = Get(n)]
    /\ UNCHANGED <<hubs, hubVars, conn, listenerVars>>

\* The monitor answers SPAWN_REQ with the master side of a pty ...
Spawned(s) ==
    /\ Move(s, "spawning", "spawned")
    /\ \E c \in Conns :
         /\ conn[c] = "unused"
         /\ conn' = [conn EXCEPT ![c] = "carried"]
         /\ held' = [held EXCEPT ![s] = c]
    /\ UNCHANGED <<hubs, hubVars, cname, listenerVars>>

\* ... or with an error.
SpawnFails(s) ==
    /\ Move(s, "spawning", "prompt")
    /\ UNCHANGED <<hubs, hubVars, conn, cname, held, listenerVars>>

\* Other sessions may have got there first: the hub may be theirs.
Obtain(s) ==
    /\ Move(s, "spawned", "holding")
    /\ GetOrCreate(cname[s], held[s])
    /\ held' = [held EXCEPT ![s] = Returned(cname[s], held[s])]
    /\ UNCHANGED <<cname, listenerVars>>

\* add_client, whether or not the hub has ended since.
Attach(s) ==
    /\ Move(s, "holding", "attached")
    /\ clients' = [clients EXCEPT ![held[s]] = @ \cup {s}]
    /\ UNCHANGED <<hubs, name, live, conn, cname, held, listenerVars>>

\* Sending "[Attached to ...]" raised: the session ends, the hub stays.
AttachFails(s) ==
    /\ Move(s, "holding", "prompt")
    /\ held' = [held EXCEPT ![s] = None]
    /\ UNCHANGED <<hubs, hubVars, conn, cname, listenerVars>>

\* run_console_session ends in remove_client.
Leave(s) ==
    /\ Move(s, "attached", "over")
    /\ clients' = [clients EXCEPT ![held[s]] = @ \ {s}]
    /\ UNCHANGED <<hubs, name, live, conn, cname, held, listenerVars>>

\* hub_registry.remove_if_done(cname), back to the prompt.
Detached(s) ==
    /\ Move(s, "over", "prompt")
    /\ RemoveIfDone(cname[s])
    /\ held' = [held EXCEPT ![s] = None]
    /\ UNCHANGED <<hubVars, conn, cname, listenerVars>>

SessionStep(s) ==
    \/ \E n \in Names : Console(s, n)
    \/ Spawned(s)
    \/ SpawnFails(s)
    \/ Obtain(s)
    \/ Attach(s)
    \/ AttachFails(s)
    \/ Leave(s)
    \/ Detached(s)

-----------------------------------------------------------------------------
(* Hubs on their own: the reader and the timers.                           *)

\* End of file, a failed write, or the grace period.
HubEnds(h) ==
    /\ live' = live \ {h}
    /\ h \in live
    /\ UNCHANGED <<hubs, name, clients, conn, sessionVars, listenerVars>>

\* A client whose socket failed is dropped.
HubDrops(h, s) ==
    /\ s \in clients[h]
    /\ clients' = [clients EXCEPT ![h] = @ \ {s}]
    /\ UNCHANGED <<hubs, name, live, conn, sessionVars, listenerVars>>

\* The reader of a hub that is done clears the clients ...
HubDissolves(h) ==
    /\ conn[h] \in {"hub", "closed"} /\ h \notin live
    /\ clients[h] # {}
    /\ clients' = [clients EXCEPT ![h] = {}]
    /\ UNCHANGED <<hubs, name, live, conn, sessionVars, listenerVars>>

\* ... and it, or shutdown, closes the connection.
HubCloses(h) ==
    /\ conn[h] = "hub" /\ h \notin live
    /\ conn' = [conn EXCEPT ![h] = "closed"]
    /\ UNCHANGED <<hubs, hubVars, sessionVars, listenerVars>>

HubStep(h) ==
    HubEnds(h) \/ HubDissolves(h) \/ HubCloses(h) \/ \E s \in Sessions : HubDrops(h, s)

-----------------------------------------------------------------------------
(* The push listener: SOCKET_APPEARED and SOCKET_DISAPPEARED.              *)

ListenerMove(from, to) == listener = from /\ listener' = to

\* The socket passed validation and connect succeeded.
Appeared(n) ==
    /\ ListenerMove("idle", "connected")
    /\ lname' = n
    /\ \E c \in Conns :
         /\ conn[c] = "unused"
         /\ conn' = [conn EXCEPT ![c] = "carried"]
         /\ lheld' = c
    /\ UNCHANGED <<hubs, hubVars, sessionVars>>

Register ==
    /\ ListenerMove("connected", "idle")
    /\ GetOrCreate(lname, lheld)
    /\ lheld' = None
    /\ UNCHANGED <<sessionVars, lname>>

\* get found a live hub under the name of the socket that is gone.
Disappeared(n) ==
    /\ Get(n) # None
    /\ ListenerMove("idle", "found")
    /\ lname' = n
    /\ lheld' = Get(n)
    /\ UNCHANGED <<hubs, hubVars, conn, sessionVars>>

ShutDown ==
    /\ ListenerMove("found", "down")
    /\ live' = live \ {lheld}
    /\ conn' = [conn EXCEPT ![lheld] = "closed"]
    /\ UNCHANGED <<hubs, name, clients, sessionVars, lname, lheld>>

Forget ==
    /\ ListenerMove("down", "idle")
    /\ RemoveIfDone(lname)
    /\ lheld' = None
    /\ UNCHANGED <<hubVars, conn, sessionVars, lname>>

ListenerStep ==
    \/ \E n \in SocketNames : Appeared(n) \/ Disappeared(n)
    \/ Register
    \/ ShutDown
    \/ Forget

-----------------------------------------------------------------------------
Next ==
    \/ \E s \in Sessions : SessionStep(s)
    \/ \E h \in Conns : HubStep(h)
    \/ ListenerStep

Spec == Init /\ [][Next]_vars

-----------------------------------------------------------------------------
(* Safety.                                                                 *)

\* A hub that is not done is the one registered under its name: it can be
\* reached again, and no second one runs for the same console.
LiveHubsRegistered ==
    \A h \in live : hubs[name[h]] = h /\ conn[h] = "hub"

\* The users attached to one console share one hub, unless theirs has ended:
\* whatever the interleaving of their spawns, with detaches and with endings.
OneConversation ==
    \A s, t \in Sessions :
        /\ session[s] = "attached" /\ session[t] = "attached"
        /\ cname[s] = cname[t]
        /\ held[s] \in live /\ held[t] \in live
        => held[s] = held[t]

Carries(s, c) == session[s] = "spawned" /\ held[s] = c
ListenerCarries(c) == listener = "connected" /\ lheld = c

\* No console descriptor is lost: one that is open and not a hub's is in the
\* hands of a thread that will give it to get_or_create, and of only one.
DescriptorsAccounted ==
    \A c \in Conns :
        conn[c] = "carried" =>
            \/ /\ ListenerCarries(c)
               /\ \A s \in Sessions : ~Carries(s, c)
            \/ /\ ~ListenerCarries(c)
               /\ \E s \in Sessions :
                    Carries(s, c) /\ \A t \in Sessions \ {s} : ~Carries(t, c)

-----------------------------------------------------------------------------
(* What happens to one connection here is what HubObject allows of a hub:  *)
(* HubRegistry_proof shows it for every connection.                        *)

Hub(c) == INSTANCE HubObject WITH
    Callers <- Sessions,
    ended <- conn[c] \in {"hub", "closed"} /\ c \notin live,
    members <- clients[c]
=============================================================================
