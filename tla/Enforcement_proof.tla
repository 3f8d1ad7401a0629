------------------------- MODULE Enforcement_proof -------------------------
(***************************************************************************)
(* Proofs about Enforcement for any users, consoles, rules and sessions.   *)
(*                                                                         *)
(* The rules travel as in RuleSync (RulesTravelAsInSync), so its results   *)
(* hold here.  NoStaleAccess rests on Visible, by which kill_stale judges  *)
(* everyone who is on a console, and on Judged, which says of a session on *)
(* its way there what it has been checked against.                         *)
(***************************************************************************)
EXTENDS Enforcement, RuleSync_proof

\* A running session that the registry does not list was taken off it.
Known ==
    \A s \in Sessions :
        session[s] # "away" => entry[s] # Absent \/ s \in cut \cup missed

\* Since the last enforcement, whoever is looking a console up has missed
\* only what is not there, whoever looked it up found a way onto it, and
\* whoever passed the check has access.
Judged ==
    enforced =>
        \A s \in Sessions \ (cut \cup missed \cup overtaken) :
            /\ session[s] \in {"matching", "defaulting"} =>
                  Explicit(wrkCfg, cname[s]) = None
            /\ session[s] = "defaulting" => ByPattern(wrkCfg, cname[s]) = None
            /\ session[s] = "looked" =>
                  OrElse(defn[s], Blank) \in Ways(wrkCfg, cname[s])
            /\ session[s] \in {"granted", "spawning", "attaching", "console"} =>
                  HasAccess(wrkCfg, wrkMap, user[s], cname[s])

-----------------------------------------------------------------------------
\* A lookup returns a definition or nothing.
LEMMA LookupTypes ==
    ASSUME NEW cfg \in Cfgs, NEW n \in Names
    PROVE  /\ Explicit(cfg, n) \in Defns \cup {None}
           /\ ByPattern(cfg, n) \in Defns \cup {None}
           /\ DefaultExec(cfg) \in Defns \cup {None}
<1>1. IsConfig(cfg)
  BY EnforcementAssumption DEF EnforcementAssumption
<1>. QED
  BY <1>1 DEF Explicit, ByPattern, DefaultExec, IsConfig, Partial

\* What each lookup of the console command finds is a way onto the console,
\* if the lookups before it found nothing.
LEMMA LookupIsWay ==
    ASSUME NEW cfg, NEW n
    PROVE  /\ Explicit(cfg, n) # None => Explicit(cfg, n) \in Ways(cfg, n)
           /\ Explicit(cfg, n) = None /\ ByPattern(cfg, n) # None =>
                ByPattern(cfg, n) \in Ways(cfg, n)
           /\ Explicit(cfg, n) = None /\ ByPattern(cfg, n) = None =>
                {Blank, OrElse(DefaultExec(cfg), Blank)} \subseteq Ways(cfg, n)
BY DEF Found, OrElse, Ways

-----------------------------------------------------------------------------
\* The monitor and the channel do here what they do in RuleSync.
THEOREM RulesTravelAsInSync == Spec => SyncSpec
<1>1. Init => SyncInit
  BY DEF Init
<1>2. [Next]_vars => [SyncNext]_syncVars
  <2>. SUFFICES ASSUME [Next]_vars PROVE [SyncNext]_syncVars
    OBVIOUS
  <2>1. ASSUME NEW s \in Sessions, SessionStep(s) PROVE UNCHANGED syncVars
    BY <2>1 DEF SessionStep, Login, LookUp, MatchName, FindDefault, Resolve, Obtain, Spawned, SpawnFails,
       Register, Leave, Detached, SessionOver
  <2>2. ASSUME NEW n \in Names, HubStarts(n) \/ HubEnds(n) PROVE UNCHANGED syncVars
    BY <2>2 DEF HubStarts, HubEnds
  <2>3. CASE Enforce
    BY <2>3 DEF Enforce
  <2>4. CASE NewCfg \/ NewMap \/ OtherMessage
    BY <2>4 DEF NewCfg, NewMap, OtherMessage, SyncNext, ListenerStep
  <2>5. CASE MonitorStep
    BY <2>5 DEF SyncNext
  <2>6. CASE UNCHANGED vars
    BY <2>6 DEF vars
  <2>. QED
    BY <2>1, <2>2, <2>3, <2>4, <2>5, <2>6 DEF Next
<1>. QED
  BY <1>1, <1>2, PTL DEF Spec, SyncSpec

\* Every variable keeps its type.
THEOREM TypeCorrect == Spec => []TypeOK
<1>1. Init => SessionTypeOK
  <2>. SUFFICES ASSUME Init PROVE SessionTypeOK
    OBVIOUS
  <2>1. (CHOOSE u \in Users : TRUE) \in Users /\ (CHOOSE n \in Names : TRUE) \in Names
    BY EnforcementAssumption DEF EnforcementAssumption
  <2>. QED
    BY <2>1 DEF Init, SessionTypeOK, SessionStates
<1>2. SyncTypeOK /\ SessionTypeOK /\ [Next]_vars => SessionTypeOK'
  <2>. SUFFICES ASSUME SyncTypeOK, SessionTypeOK, [Next]_vars PROVE SessionTypeOK'
    OBVIOUS
  <2>. USE DEF SessionTypeOK, SessionStates, OnTheWay, sessionVars, killVars, Move, Update
  <2>1. ASSUME NEW s \in Sessions, NEW u \in Users, Login(s, u) PROVE SessionTypeOK'
    BY <2>1 DEF Login
  <2>2. ASSUME NEW s \in Sessions, NEW n \in Names, LookUp(s, n) PROVE SessionTypeOK'
    <3>1. Explicit(wrkCfg, n) \in Defns \cup {None}
      BY LookupTypes DEF SyncTypeOK
    <3>. QED
      BY <2>2, <3>1 DEF LookUp
  <2>21. ASSUME NEW s \in Sessions, MatchName(s) \/ FindDefault(s)
         PROVE  SessionTypeOK'
    <3>1. /\ ByPattern(wrkCfg, cname[s]) \in Defns \cup {None}
          /\ DefaultExec(wrkCfg) \in Defns \cup {None}
      BY LookupTypes DEF SyncTypeOK
    <3>2. CASE MatchName(s)
      BY <3>1, <3>2 DEF MatchName
    <3>3. CASE FindDefault(s)
      BY <3>1, <3>3 DEF FindDefault
    <3>. QED
      BY <2>21, <3>2, <3>3
  <2>3. ASSUME NEW s \in Sessions, Resolve(s) PROVE SessionTypeOK'
    BY <2>3 DEF Resolve
  <2>4. ASSUME NEW s \in Sessions, Obtain(s) PROVE SessionTypeOK'
    BY <2>4 DEF Obtain
  <2>5. ASSUME NEW s \in Sessions, Spawned(s) PROVE SessionTypeOK'
    BY <2>5 DEF Spawned
  <2>6. ASSUME NEW s \in Sessions, SpawnFails(s) PROVE SessionTypeOK'
    BY <2>6 DEF SpawnFails
  <2>7. ASSUME NEW s \in Sessions, Register(s) PROVE SessionTypeOK'
    BY <2>7 DEF Register
  <2>8. ASSUME NEW s \in Sessions, Leave(s) PROVE SessionTypeOK'
    BY <2>8 DEF Leave
  <2>9. ASSUME NEW s \in Sessions, Detached(s) PROVE SessionTypeOK'
    BY <2>9 DEF Detached
  <2>10. ASSUME NEW s \in Sessions, SessionOver(s) PROVE SessionTypeOK'
    BY <2>10 DEF SessionOver
  <2>11. ASSUME NEW n \in Names, HubStarts(n) \/ HubEnds(n) PROVE SessionTypeOK'
    BY <2>11 DEF HubStarts, HubEnds
  <2>12. CASE UNCHANGED <<sessionVars, killVars, live>>
    BY <2>12
  <2>17. CASE OtherMessage
    BY <2>12, <2>17 DEF OtherMessage
  <2>13. CASE NewCfg
    BY <2>13 DEF NewCfg
  <2>14. CASE NewMap
    BY <2>14 DEF NewMap
  <2>15. CASE Enforce
    <3>1. PICK failed \in SUBSET {s \in Sessions : Stale(s)} :
            /\ cut' = cut \cup {s \in Sessions \ failed : Stale(s)}
            /\ missed' = missed \cup failed
      BY <2>15 DEF Enforce
    <3>2. cut' \in SUBSET Sessions /\ missed' \in SUBSET Sessions
      BY <3>1
    <3>3. entry' \in [Sessions -> Names \cup {Absent, AtPrompt}]
      BY <2>15 DEF Enforce
    <3>. QED
      BY <2>15, <3>2, <3>3 DEF Enforce
  <2>16. CASE UNCHANGED vars
    BY <2>16 DEF vars
  <2>. QED
    BY <2>1, <2>2, <2>21, <2>3, <2>4, <2>5, <2>6, <2>7, <2>8,
       <2>9, <2>10, <2>11, <2>12,
       <2>13, <2>14, <2>15, <2>16, <2>17 DEF Next, SessionStep
<1>. QED
  BY <1>1, <1>2, RulesTravelAsInSync, SyncTypeCorrect, PTL DEF Spec, TypeOK

-----------------------------------------------------------------------------
\* A running session is listed unless kill_stale took it off the registry.
THEOREM KnownAlways == Spec => []Known
<1>1. Init => Known
  BY DEF Init, Known
<1>2. TypeOK /\ Known /\ [Next]_vars => Known'
  <2>. SUFFICES ASSUME TypeOK, Known, [Next]_vars PROVE Known'
    OBVIOUS
  <2>. USE EnforcementAssumption DEF EnforcementAssumption, TypeOK, SessionTypeOK,
     Known, sessionVars, killVars, Move, Update
  <2>1. ASSUME NEW s \in Sessions, NEW u \in Users, Login(s, u) PROVE Known'
    BY <2>1 DEF Login
  <2>2. ASSUME NEW s \in Sessions, NEW n \in Names, LookUp(s, n) PROVE Known'
    BY <2>2 DEF LookUp
  <2>21. ASSUME NEW s \in Sessions, MatchName(s) \/ FindDefault(s) PROVE Known'
    BY <2>21 DEF MatchName, FindDefault
  <2>3. ASSUME NEW s \in Sessions, Resolve(s) PROVE Known'
    BY <2>3 DEF Resolve
  <2>4. ASSUME NEW s \in Sessions, Obtain(s) PROVE Known'
    BY <2>4 DEF Obtain
  <2>5. ASSUME NEW s \in Sessions, Spawned(s) PROVE Known'
    BY <2>5 DEF Spawned
  <2>6. ASSUME NEW s \in Sessions, SpawnFails(s) PROVE Known'
    BY <2>6 DEF SpawnFails
  <2>7. ASSUME NEW s \in Sessions, Register(s) PROVE Known'
    BY <2>7 DEF Register
  <2>8. ASSUME NEW s \in Sessions, Leave(s) PROVE Known'
    BY <2>8 DEF Leave
  <2>9. ASSUME NEW s \in Sessions, Detached(s) PROVE Known'
    BY <2>9 DEF Detached
  <2>10. ASSUME NEW s \in Sessions, SessionOver(s) PROVE Known'
    BY <2>10 DEF SessionOver
  <2>11. ASSUME NEW n \in Names, HubStarts(n) \/ HubEnds(n) PROVE Known'
    BY <2>11 DEF HubStarts, HubEnds
  <2>12. CASE UNCHANGED <<sessionVars, killVars, live>>
    BY <2>12
  <2>17. CASE OtherMessage
    BY <2>12, <2>17 DEF OtherMessage
  <2>13. CASE NewCfg
    BY <2>13 DEF NewCfg
  <2>14. CASE NewMap
    BY <2>14 DEF NewMap
  <2>15. CASE Enforce
    <3>1. \A s \in Sessions : Stale(s) => s \in cut' \cup missed'
      BY <2>15 DEF Enforce
    <3>2. cut \subseteq cut' /\ missed \subseteq missed'
      BY <2>15 DEF Enforce
    <3>3. /\ \A s \in Sessions : ~Stale(s) => entry'[s] = entry[s]
          /\ session' = session
      BY <2>15 DEF Enforce
    <3>. QED
      BY <3>1, <3>2, <3>3
  <2>16. CASE UNCHANGED vars
    BY <2>16 DEF vars
  <2>. QED
    BY <2>1, <2>2, <2>21, <2>3, <2>4, <2>5, <2>6, <2>7, <2>8,
       <2>9, <2>10, <2>11, <2>12,
       <2>13, <2>14, <2>15, <2>16, <2>17 DEF Next, SessionStep
<1>. QED
  BY <1>1, <1>2, TypeCorrect, PTL DEF Spec

\* kill_stale can see whoever is on a console.
THEOREM VisibleAlways == Spec => []Visible
<1>1. Init => Visible
  BY DEF Init, Visible
<1>2. TypeOK /\ Known /\ Visible /\ [Next]_vars => Visible'
  <2>. SUFFICES ASSUME TypeOK, Known, Visible, [Next]_vars PROVE Visible'
    OBVIOUS
  <2>. USE DEF TypeOK, SessionTypeOK, Visible, sessionVars, killVars, Move, Update
  <2>1. ASSUME NEW s \in Sessions, NEW u \in Users, Login(s, u) PROVE Visible'
    BY <2>1 DEF Login
  <2>2. ASSUME NEW s \in Sessions, NEW n \in Names, LookUp(s, n) PROVE Visible'
    BY <2>2 DEF LookUp
  <2>21. ASSUME NEW s \in Sessions, MatchName(s) \/ FindDefault(s) PROVE Visible'
    BY <2>21 DEF MatchName, FindDefault
  <2>3. ASSUME NEW s \in Sessions, Resolve(s) PROVE Visible'
    BY <2>3 DEF Resolve
  <2>4. ASSUME NEW s \in Sessions, Obtain(s) PROVE Visible'
    BY <2>4 DEF Obtain
  <2>5. ASSUME NEW s \in Sessions, Spawned(s) PROVE Visible'
    BY <2>5 DEF Spawned
  <2>6. ASSUME NEW s \in Sessions, SpawnFails(s) PROVE Visible'
    BY <2>6 DEF SpawnFails
  <2>7. ASSUME NEW s \in Sessions, Register(s) PROVE Visible'
    BY <2>7 DEF Register, Known
  <2>8. ASSUME NEW s \in Sessions, Leave(s) PROVE Visible'
    BY <2>8 DEF Leave
  <2>9. ASSUME NEW s \in Sessions, Detached(s) PROVE Visible'
    BY <2>9 DEF Detached
  <2>10. ASSUME NEW s \in Sessions, SessionOver(s) PROVE Visible'
    BY <2>10 DEF SessionOver
  <2>11. ASSUME NEW n \in Names, HubStarts(n) \/ HubEnds(n) PROVE Visible'
    BY <2>11 DEF HubStarts, HubEnds
  <2>12. CASE UNCHANGED <<sessionVars, killVars, live>>
    BY <2>12
  <2>17. CASE OtherMessage
    BY <2>12, <2>17 DEF OtherMessage
  <2>13. CASE NewCfg
    BY <2>13 DEF NewCfg
  <2>14. CASE NewMap
    BY <2>14 DEF NewMap
  <2>15. CASE Enforce
    <3>1. \A s \in Sessions : Stale(s) => s \in cut' \cup missed'
      BY <2>15 DEF Enforce
    <3>2. cut \subseteq cut' /\ missed \subseteq missed'
      BY <2>15 DEF Enforce
    <3>3. /\ \A s \in Sessions : ~Stale(s) => entry'[s] = entry[s]
          /\ UNCHANGED <<session, cname>>
      BY <2>15 DEF Enforce
    <3>. QED
      BY <3>1, <3>2, <3>3
  <2>16. CASE UNCHANGED vars
    BY <2>16 DEF vars
  <2>. QED
    BY <2>1, <2>2, <2>21, <2>3, <2>4, <2>5, <2>6, <2>7, <2>8,
       <2>9, <2>10, <2>11, <2>12,
       <2>13, <2>14, <2>15, <2>16, <2>17 DEF Next, SessionStep
<1>. QED
  BY <1>1, <1>2, TypeCorrect, KnownAlways, PTL DEF Spec

-----------------------------------------------------------------------------
\* Since the last enforcement everyone passed the check by the present rules.
THEOREM JudgedAlways == Spec => []Judged
<1>1. Init => Judged
  BY DEF Init, Judged
<1>2. TypeOK /\ Visible /\ Judged /\ [Next]_vars => Judged'
  <2>. SUFFICES ASSUME TypeOK, Visible, Judged, [Next]_vars PROVE Judged'
    OBVIOUS
  <2>. USE DEF TypeOK, SessionTypeOK, Judged, sessionVars, killVars, syncVars,
     workerRules, Move, Update
  <2>0. ASSUME enforced' => enforced /\ UNCHANGED workerRules,
               UNCHANGED <<session, user, cname, defn, cut, missed, overtaken>>
        PROVE  Judged'
    BY <2>0
  <2>1. ASSUME NEW s \in Sessions, NEW u \in Users, Login(s, u) PROVE Judged'
    BY <2>1 DEF Login
  <2>2. ASSUME NEW s \in Sessions, NEW n \in Names, LookUp(s, n) PROVE Judged'
    <3>1. /\ session'[s] = IF Explicit(wrkCfg, n) = None THEN "matching" ELSE "looked"
          /\ defn'[s] = Explicit(wrkCfg, n) /\ cname'[s] = n
          /\ \A t \in Sessions \ {s} :
               /\ session'[t] = session[t] /\ defn'[t] = defn[t]
               /\ cname'[t] = cname[t]
          /\ overtaken' = overtaken \ {s}
          /\ UNCHANGED <<user, cut, missed, enforced, wrkCfg, wrkMap>>
      BY <2>2 DEF LookUp
    <3>. QED
      BY <3>1, LookupIsWay DEF OrElse
  <2>21. ASSUME NEW s \in Sessions, MatchName(s) PROVE Judged'
    <3>1. /\ session[s] = "matching"
          /\ defn'[s] = ByPattern(wrkCfg, cname[s])
          /\ session'[s] = IF ByPattern(wrkCfg, cname[s]) = None
                           THEN "defaulting" ELSE "looked"
          /\ \A t \in Sessions \ {s} : session'[t] = session[t] /\ defn'[t] = defn[t]
          /\ UNCHANGED <<user, cname, cut, missed, overtaken, enforced,
                         wrkCfg, wrkMap>>
      BY <2>21 DEF MatchName
    <3>. QED
      BY <3>1, LookupIsWay DEF OrElse
  <2>22. ASSUME NEW s \in Sessions, FindDefault(s) PROVE Judged'
    <3>1. /\ session[s] = "defaulting"
          /\ defn'[s] \in {None, DefaultExec(wrkCfg)}
          /\ session'[s] \in {"prompt", "looked"}
          /\ \A t \in Sessions \ {s} : session'[t] = session[t] /\ defn'[t] = defn[t]
          /\ UNCHANGED <<user, cname, cut, missed, overtaken, enforced,
                         wrkCfg, wrkMap>>
      BY <2>22 DEF FindDefault
    <3>2. OrElse(defn'[s], Blank) \in {Blank, OrElse(DefaultExec(wrkCfg), Blank)}
      BY <3>1 DEF OrElse
    <3>. QED
      BY <3>1, <3>2, LookupIsWay
  <2>3. ASSUME NEW s \in Sessions, Resolve(s) PROVE Judged'
    <3>1. /\ session[s] = "looked"
          /\ session'[s] = "granted" =>
               Level(wrkMap, user[s], OrElse(defn[s], Blank)) # None
          /\ session'[s] \in {"prompt", "granted"}
          /\ \A t \in Sessions \ {s} : session'[t] = session[t]
          /\ UNCHANGED <<user, defn, cname, cut, missed, overtaken, enforced,
                         wrkCfg, wrkMap>>
      BY <2>3 DEF Resolve
    <3>. QED
      BY <3>1 DEF HasAccess
  <2>4. ASSUME NEW s \in Sessions, Obtain(s) PROVE Judged'
    BY <2>4 DEF Obtain
  <2>5. ASSUME NEW s \in Sessions, Spawned(s) PROVE Judged'
    BY <2>5 DEF Spawned
  <2>6. ASSUME NEW s \in Sessions, SpawnFails(s) PROVE Judged'
    BY <2>6 DEF SpawnFails
  <2>7. ASSUME NEW s \in Sessions, Register(s) PROVE Judged'
    BY <2>7 DEF Register
  <2>8. ASSUME NEW s \in Sessions, Leave(s) PROVE Judged'
    BY <2>8 DEF Leave
  <2>9. ASSUME NEW s \in Sessions, Detached(s) PROVE Judged'
    BY <2>9 DEF Detached
  <2>10. ASSUME NEW s \in Sessions, SessionOver(s) PROVE Judged'
    BY <2>10 DEF SessionOver
  <2>11. ASSUME NEW n \in Names, HubStarts(n) \/ HubEnds(n) PROVE Judged'
    <3>1. HubStarts(n) => Judged'
      BY <2>0 DEF HubStarts
    <3>2. HubEnds(n) => Judged'
      BY <2>0 DEF HubEnds
    <3>. QED
      BY <2>11, <3>1, <3>2
  <2>12. CASE MonitorStep /\ UNCHANGED <<sessionVars, killVars, live>>
    <3>1. UNCHANGED workerRules
      BY <2>12 DEF MonitorStep, SignalArrives, ReloadMap, ReloadCfg, SendCfg,
         GetMap, SendMap, SendRest, SendFails, AskForSessions
    <3>. QED
      BY <2>0, <2>12, <3>1
  <2>17. CASE OtherMessage
    BY <2>0, <2>17 DEF OtherMessage, ReadAsk, Misread
  <2>13. CASE NewCfg
    <3>1. enforced' => enforced /\ wrkCfg' = wrkCfg
      BY <2>13, Zenon DEF NewCfg
    <3>2. UNCHANGED <<wrkMap, session, user, cname, defn, cut, missed, overtaken>>
      BY <2>13 DEF NewCfg, ApplyCfg
    <3>. QED
      BY <2>0, <3>1, <3>2
  <2>14. CASE NewMap
    <3>1. enforced' => enforced /\ wrkMap' = wrkMap
      BY <2>14, Zenon DEF NewMap
    <3>2. UNCHANGED <<wrkCfg, session, user, cname, defn, cut, missed, overtaken>>
      BY <2>14 DEF NewMap, ApplyMap
    <3>. QED
      BY <2>0, <3>1, <3>2
  <2>15. CASE Enforce
    <3>1. \A s \in Sessions : Stale(s) => s \in cut' \cup missed'
      BY <2>15 DEF Enforce
    <3>2. /\ cut \subseteq cut' /\ missed \subseteq missed'
          /\ overtaken' = {s \in Sessions : session[s] \in OnTheWay}
          /\ UNCHANGED <<session, user, cname, defn, wrkCfg, wrkMap>>
      BY <2>15 DEF Enforce
    <3>3. ASSUME NEW s \in Sessions \ (cut' \cup missed' \cup overtaken')
          PROVE  /\ session[s] \notin OnTheWay
                 /\ session[s] = "console" =>
                      HasAccess(wrkCfg, wrkMap, user[s], cname[s])
      <4>1. session[s] \notin OnTheWay
        BY <3>2
      <4>2. ASSUME session[s] = "console"
            PROVE  HasAccess(wrkCfg, wrkMap, user[s], cname[s])
        <5>1. ~Stale(s) /\ entry[s] = cname[s]
          BY <3>1, <3>2, <4>2 DEF Visible
        <5>2. /\ Explicit(wrkCfg, cname[s]) # None
              /\ Level(wrkMap, user[s], Explicit(wrkCfg, cname[s])) # None
          BY <5>1 DEF Stale
        <5>. QED
          BY <5>2, LookupIsWay DEF HasAccess
      <4>. QED
        BY <4>1, <4>2
    <3>. QED
      BY <3>2, <3>3 DEF OnTheWay
  <2>16. CASE UNCHANGED vars
    BY <2>16 DEF vars
  <2>. QED
    BY <2>1, <2>2, <2>21, <2>22, <2>3, <2>4, <2>5, <2>6, <2>7, <2>8,
       <2>9, <2>10, <2>11, <2>12,
       <2>13, <2>14, <2>15, <2>16, <2>17 DEF Next, SessionStep
<1>. QED
  BY <1>1, <1>2, TypeCorrect, VisibleAlways, PTL DEF Spec

\* After an enforcement nobody keeps a console he has no access to, but for
\* the sessions it overtook and those whose notice failed.
THEOREM NoStaleAccessAlways == Spec => []NoStaleAccess
<1>1. Judged => NoStaleAccess
  BY DEF Judged, NoStaleAccess
<1>. QED
  BY <1>1, JudgedAlways, PTL
=============================================================================
