---------------------------- MODULE Enforcement ----------------------------
(***************************************************************************)
(* Sessions going onto consoles while the rules change and are enforced:   *)
(* the console command (worker.py), the session registry and kill_stale    *)
(* (session.py), with the rules arriving as RuleSync describes.            *)
(*                                                                         *)
(* kill_stale sees a session through the registry only; the session itself *)
(* is a thread that looks the console up, resolves the access, obtains a   *)
(* hub and registers in steps of its own.                                  *)
(***************************************************************************)
EXTENDS Access, RuleSync

CONSTANTS
    Sessions,   \* session threads
    Absent      \* no entry in the session registry

AtPrompt == "prompt"

ASSUME EnforcementAssumption ==
    /\ \A cfg \in Cfgs : IsConfig(cfg)
    /\ \A map \in Maps : IsUserMap(map)
    /\ None \notin Defns
    /\ Absent \notin Names /\ AtPrompt \notin Names /\ Absent # AtPrompt
    /\ Users # {} /\ Names # {}

VARIABLES
    session,    \* where each session thread is
    user,       \* its user name
    cname,      \* the console name it was given
    defn,       \* the definition it found for it
    entry,      \* SessionRegistry: Absent, AtPrompt, or the console's name
    cut,        \* sessions whose socket kill_stale has shut down
    missed,     \* sessions kill_stale took off the registry without doing so
    overtaken,  \* sessions on their way to a console when kill_stale last ran
    live,       \* names with a live hub
    listener,   \* the push listener between the two halves of ENFORCE_REQ
    enforced    \* no rule of the worker has changed since kill_stale last ran

sessionVars == <<session, user, cname, defn, entry>>
killVars == <<cut, missed, overtaken, listener, enforced>>
vars == <<syncVars, sessionVars, killVars, live>>

OnTheWay ==
    {"matching", "defaulting", "looked", "granted", "spawning", "attaching"}
SessionStates == {"away", "prompt", "console", "leaving"} \cup OnTheWay

SessionTypeOK ==
    /\ session \in [Sessions -> SessionStates]
    /\ user \in [Sessions -> Users]
    /\ cname \in [Sessions -> Names]
    /\ defn \in [Sessions -> Defns \cup {None}]
    /\ entry \in [Sessions -> Names \cup {Absent, AtPrompt}]
    /\ cut \in SUBSET Sessions
    /\ missed \in SUBSET Sessions
    /\ overtaken \in SUBSET Sessions
    /\ live \in SUBSET Names
    /\ listener \in {"idle", "enforcing"}
    /\ enforced \in BOOLEAN

TypeOK == SyncTypeOK /\ SessionTypeOK

Init ==
    /\ SyncInit
    /\ session = [s \in Sessions |-> "away"]
    /\ user = [s \in Sessions |-> CHOOSE u \in Users : TRUE]
    /\ cname = [s \in Sessions |-> CHOOSE n \in Names : TRUE]
    /\ defn = [s \in Sessions |-> None]
    /\ entry = [s \in Sessions |-> Absent]
    /\ cut = {} /\ missed = {} /\ overtaken = {}
    /\ live = {}
    /\ listener = "idle"
    /\ enforced = FALSE

-----------------------------------------------------------------------------
(* Session threads.                                                        *)

Move(s, from, to) == session[s] = from /\ session' = [session EXCEPT ![s] = to]

\* registry.update: a session that is not registered stays so.
Update(s, e) ==
    entry' = IF entry[s] = Absent THEN entry ELSE [entry EXCEPT ![s] = e]

\* handle_trusted_client: a user of the map gets a session and a prompt.
Login(s, u) ==
    /\ u \in DOMAIN wrkMap.users
    /\ Move(s, "away", "prompt")
    /\ user' = [user EXCEPT ![s] = u]
    /\ entry' = [entry EXCEPT ![s] = AtPrompt]
    /\ UNCHANGED <<cname, defn, syncVars, killVars, live>>

\* Mutant of LookUp: the name is kept where the definition belongs.
LookUpKeepsName(s, n) ==
    /\ Move(s, "prompt", IF Explicit(wrkCfg, n) = None THEN "matching" ELSE "looked")
    /\ cname' = [cname EXCEPT ![s] = n]
    /\ defn' = [defn EXCEPT ![s] = n]
    /\ overtaken' = overtaken \ {s}
    /\ UNCHANGED <<user, entry, cut, missed, listener, enforced, syncVars, live>>

\* The console command reads the configuration up to three times, and each
\* time finds the one of that moment: first the explicit consoles,
LookUp(s, n) ==
    /\ Move(s, "prompt", IF Explicit(wrkCfg, n) = None THEN "matching" ELSE "looked")
    /\ cname' = [cname EXCEPT ![s] = n]
    /\ defn' = [defn EXCEPT ![s] = Explicit(wrkCfg, n)]
    /\ overtaken' = overtaken \ {s}
    /\ UNCHANGED <<user, entry, cut, missed, listener, enforced, syncVars, live>>

\* then the patterns,
MatchName(s) ==
    LET found == ByPattern(wrkCfg, cname[s]) IN
    /\ Move(s, "matching", IF found = None THEN "defaulting" ELSE "looked")
    /\ defn' = [defn EXCEPT ![s] = found]
    /\ UNCHANGED <<user, cname, entry, syncVars, killVars, live>>

\* then, unless a hub is live under the name, the default.
FindDefault(s) ==
    LET found == IF cname[s] \in live THEN None ELSE DefaultExec(wrkCfg) IN
    /\ Move(s, "defaulting",
            IF found = None /\ cname[s] \notin live THEN "prompt" ELSE "looked")
    /\ defn' = [defn EXCEPT ![s] = found]
    /\ UNCHANGED <<user, cname, entry, syncVars, killVars, live>>

\* resolve_access, with the user map of now; "Access denied" without a level.
Resolve(s) ==
    /\ Move(s, "looked", IF Level(wrkMap, user[s], OrElse(defn[s], Blank)) = None
                         THEN "prompt" ELSE "granted")
    /\ UNCHANGED <<user, cname, defn, entry, syncVars, killVars, live>>

\* The hub is live, or there is a command to spawn, or it is not active.
Obtain(s) ==
    /\ Move(s, "granted",
            IF cname[s] \in live THEN "attaching"
            ELSE IF defn[s] # None /\ defn[s].type = "exec" THEN "spawning"
            ELSE "prompt")
    /\ UNCHANGED <<user, cname, defn, entry, syncVars, killVars, live>>

\* SPAWN_REQ passes the monitor's own check by its own rules.
SpawnAllowed(s) ==
    LET own == MonitorDefn(monCfg, cname[s]) IN
    /\ own # None
    /\ own.type = "exec"
    /\ Level(monMap, user[s], own) # None

Spawned(s) ==
    /\ handlers = <<>>
    /\ SpawnAllowed(s)
    /\ Move(s, "spawning", "attaching")
    /\ live' = live \cup {cname[s]}
    /\ UNCHANGED <<user, cname, defn, entry, syncVars, killVars>>

\* The check fails, or the command cannot be started.
SpawnFails(s) ==
    /\ handlers = <<>>
    /\ Move(s, "spawning", "prompt")
    /\ UNCHANGED <<user, cname, defn, entry, syncVars, killVars, live>>

\* Mutant of Register: the entry says console, but not which.
RegisterNameless(s) ==
    /\ Move(s, "attaching", "console")
    /\ Update(s, AtPrompt)
    /\ UNCHANGED <<user, cname, defn, syncVars, killVars, live>>

\* "[Attached to ...]" is out; registry.update, then run_console_session.
Register(s) ==
    /\ Move(s, "attaching", "console")
    /\ Update(s, cname[s])
    /\ UNCHANGED <<user, cname, defn, syncVars, killVars, live>>

\* run_console_session returns.
Leave(s) ==
    /\ Move(s, "console", "leaving")
    /\ UNCHANGED <<user, cname, defn, entry, syncVars, killVars, live>>

\* registry.update(state='prompt', console=None) and the next prompt.
Detached(s) ==
    /\ s \notin cut
    /\ Move(s, "leaving", "prompt")
    /\ Update(s, AtPrompt)
    /\ UNCHANGED <<user, cname, defn, syncVars, killVars, live>>

\* quit, or the socket fails: the entry is removed, the socket closed.
SessionOver(s) ==
    /\ session[s] \in {"prompt", "attaching", "leaving"}
    /\ session' = [session EXCEPT ![s] = "away"]
    /\ entry' = [entry EXCEPT ![s] = Absent]
    /\ cut' = cut \ {s}
    /\ missed' = missed \ {s}
    /\ UNCHANGED <<user, cname, defn, overtaken, listener, enforced, syncVars, live>>

SessionStep(s) ==
    \/ \E u \in Users : Login(s, u)
    \/ \E n \in Names : LookUp(s, n)
    \/ MatchName(s)
    \/ FindDefault(s)
    \/ Resolve(s)
    \/ Obtain(s)
    \/ Spawned(s)
    \/ SpawnFails(s)
    \/ Register(s)
    \/ Leave(s)
    \/ Detached(s)
    \/ SessionOver(s)

-----------------------------------------------------------------------------
(* Hubs on their own: a watched socket appears, a console ends.            *)

HubStarts(n) ==
    /\ n \notin live
    /\ live' = live \cup {n}
    /\ UNCHANGED <<syncVars, sessionVars, killVars>>

HubEnds(n) ==
    /\ n \in live
    /\ live' = live \ {n}
    /\ UNCHANGED <<syncVars, sessionVars, killVars>>

-----------------------------------------------------------------------------
(* The push listener and kill_stale.                                       *)

\* CONFIG_UPDATE.
NewCfg ==
    /\ listener = "idle"
    /\ ApplyCfg
    /\ enforced' = (enforced /\ wrkCfg' = wrkCfg)
    /\ UNCHANGED <<sessionVars, cut, missed, overtaken, listener, live>>

\* ENFORCE_REQ: the user map, then kill_stale.
NewMap ==
    /\ listener = "idle"
    /\ ApplyMap
    /\ listener' = "enforcing"
    /\ enforced' = (enforced /\ wrkMap' = wrkMap)
    /\ UNCHANGED <<sessionVars, cut, missed, overtaken, live>>

\* A SESSION_LIST_REQ, and what ipc_recv raises on: neither touches a session.
OtherMessage ==
    /\ listener = "idle"
    /\ ReadAsk \/ Misread
    /\ UNCHANGED <<sessionVars, killVars, live>>

\* Mutant of Stale: a console without an explicit definition is let be.
StaleIfDefined(s) ==
    LET own == Explicit(wrkCfg, entry[s]) IN
    entry[s] \in Names /\ own # None /\ Level(wrkMap, user[s], own) = None

\* kill_stale on one session: explicit consoles are judged by their rules.  A
\* pattern is looked up by the console's socket, which only explicit ones
\* have, and so never found; what is not found counts as removed.
Stale(s) ==
    LET own == Explicit(wrkCfg, entry[s]) IN
    entry[s] \in Names /\ (own = None \/ Level(wrkMap, user[s], own) = None)

\* kill_stale, under the registry's lock.  If the notice raises, the socket
\* is not shut down; the session is off the registry all the same.
Enforce ==
    /\ listener = "enforcing"
    /\ listener' = "idle"
    /\ \E failed \in SUBSET {s \in Sessions : Stale(s)} :
         /\ cut' = cut \cup {s \in Sessions \ failed : Stale(s)}
         /\ missed' = missed \cup failed
    /\ entry' = [s \in Sessions |-> IF Stale(s) THEN Absent ELSE entry[s]]
    /\ overtaken' = {s \in Sessions : session[s] \in OnTheWay}
    /\ enforced' = TRUE
    /\ UNCHANGED <<session, user, cname, defn, syncVars, live>>

-----------------------------------------------------------------------------
Next ==
    \/ \E s \in Sessions : SessionStep(s)
    \/ \E n \in Names : HubStarts(n) \/ HubEnds(n)
    \/ MonitorStep /\ UNCHANGED <<sessionVars, killVars, live>>
    \/ NewCfg
    \/ NewMap
    \/ OtherMessage
    \/ Enforce

Spec == Init /\ [][Next]_vars

-----------------------------------------------------------------------------
(* Safety.                                                                 *)

\* kill_stale can see whoever is on a console: the registry names his
\* console, unless he is being disconnected, or his notice failed before.
Visible ==
    \A s \in Sessions :
        session[s] = "console" => entry[s] = cname[s] \/ s \in cut \cup missed

\* After an enforcement, and until the rules change again, nobody is on a
\* console to which the rules give him no access, but for sessions that
\* were between their first lookup and their registration when it ran, and
\* those whose notice failed.
NoStaleAccess ==
    enforced =>
        \A s \in Sessions :
            session[s] = "console" /\ s \notin cut \cup missed \cup overtaken =>
                HasAccess(wrkCfg, wrkMap, user[s], cname[s])

\* session.py:50, "Disconnect sessions whose console access has been
\* revoked": and no others.
CutsOnlyRevoked ==
    [][\A s \in Sessions :
         s \in cut' \ cut => ~HasAccess(wrkCfg, wrkMap, user[s], cname[s])]_vars
=============================================================================
