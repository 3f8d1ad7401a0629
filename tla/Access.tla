------------------------------- MODULE Access -------------------------------
(***************************************************************************)
(* Who may use which console, and how: the rules of acl.py over a user map *)
(* and a console configuration (config.py), and the ways the program looks *)
(* a console up by name.                                                   *)
(*                                                                         *)
(* A configuration gives, for a name, what a lookup finds: consoles are the *)
(* explicit definitions; patterns are the first of console_patterns whose  *)
(* name template matches, its template variables substituted; default is   *)
(* defaults.console.  A user map gives users their groups and groups their *)
(* role.  Of a definition only the backend and the rw and ro lists matter. *)
(***************************************************************************)
CONSTANTS
    Users, Groups, Names,
    Everyone,   \* the '*' of an rw or ro list
    None        \* no definition, no access

Principals == Users \cup Groups \cup {Everyone}

Defns == [type : {"exec", "qemu_unix"},
          rw : SUBSET Principals, ro : SUBSET Principals]

\* f gives some elements of S something in T.
Partial(f, S, T) == DOMAIN f \subseteq S /\ f \in [DOMAIN f -> T]

IsConfig(cfg) ==
    /\ Partial(cfg.consoles, Names, Defns)
    /\ Partial(cfg.patterns, Names, Defns)
    /\ cfg.default \in Defns \cup {None}

\* A role that is neither of the two known ones counts as read_only.
IsUserMap(map) ==
    /\ Partial(map.users, Users, SUBSET Groups)
    /\ Partial(map.groups, Groups, {"read_write", "read_only", "other", None})

-----------------------------------------------------------------------------
(* UserMapStore and ACLResolver.                                           *)

\* get_role: read_write if any group has it, read_only if any has another.
Role(map, user) ==
    LET roles == {map.groups[g] : g \in map.users[user] \cap DOMAIN map.groups}
                 \ {None}
    IN  IF "read_write" \in roles THEN "read_write"
        ELSE IF roles # {} THEN "read_only"
        ELSE None

Matches(map, user, principals) ==
    principals \cap (map.users[user] \cup {user, Everyone}) # {}

\* The {} the callers pass for a console without a definition.
Blank == [type |-> "exec", rw |-> {}, ro |-> {}]

\* resolve_access: rw and ro lists win over the role, if there are any.
Level(map, user, defn) ==
    IF user \notin DOMAIN map.users THEN None
    ELSE IF defn.rw \cup defn.ro = {} THEN Role(map, user)
    ELSE IF Matches(map, user, defn.rw) THEN "read_write"
    ELSE IF Matches(map, user, defn.ro) THEN "read_only"
    ELSE None

-----------------------------------------------------------------------------
(* The lookups by name.                                                    *)

Explicit(cfg, n) == IF n \in DOMAIN cfg.consoles THEN cfg.consoles[n] ELSE None

\* match_console_name.
ByPattern(cfg, n) == IF n \in DOMAIN cfg.patterns THEN cfg.patterns[n] ELSE None

\* get_default_exec.
DefaultExec(cfg) ==
    IF cfg.default # None /\ cfg.default.type = "exec" THEN cfg.default ELSE None

OrElse(defn, other) == IF defn = None THEN other ELSE defn

\* Explicit consoles first, then match_console_name.
Found(cfg, n) == OrElse(Explicit(cfg, n), ByPattern(cfg, n))

\* The definition the monitor finds for SPAWN_REQ.
MonitorDefn(cfg, n) == OrElse(Found(cfg, n), DefaultExec(cfg))

\* The definitions by which a user can have been let onto a console.
Ways(cfg, n) ==
    IF Found(cfg, n) # None THEN {Found(cfg, n)}
    ELSE {Blank} \cup ({DefaultExec(cfg)} \ {None})

HasAccess(cfg, map, user, n) ==
    \E defn \in Ways(cfg, n) : Level(map, user, defn) # None
=============================================================================
