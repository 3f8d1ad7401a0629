-------------------------- MODULE HubRegistry_proof --------------------------
(***************************************************************************)
(* Proofs about HubRegistry for any number of sessions, names and          *)
(* connections.  First who carries a descriptor (CarriedOnce), then what   *)
(* the registry holds (Registered), then what the references of the        *)
(* threads stand for (References); the properties follow.                  *)
(***************************************************************************)
EXTENDS HubRegistry, TLAPS

\* The connection a session or the listener is about to give to get_or_create
\* is carried, by that thread only; a carried connection has a carrier; and what
\* is a live hub or is being shut down is not carried.
CarriedOnce ==
    /\ \A s \in Sessions : session[s] = "spawned" =>
         /\ conn[held[s]] = "carried"
         /\ \A t \in Sessions \ {s} :
              session[t] = "spawned" => held[t] # held[s]
         /\ listener = "connected" => lheld # held[s]
    /\ listener = "connected" => conn[lheld] = "carried"
    /\ \A c \in Conns : conn[c] = "carried" =>
         \/ listener = "connected" /\ lheld = c
         \/ \E s \in Sessions : session[s] = "spawned" /\ held[s] = c
    /\ \A h \in live : conn[h] = "hub"
    /\ listener \in {"found", "down"} => conn[lheld] \in {"hub", "closed"}

\* A hub is registered only under its own name, and every hub that is not done
\* is registered.
Registered ==
    /\ LiveHubsRegistered
    /\ \A n \in Names : hubs[n] # None =>
         conn[hubs[n]] \in {"hub", "closed"} /\ name[hubs[n]] = n

\* A session in the console command, and the listener, refer to a hub of the
\* console they were given.
References ==
    /\ \A s \in Sessions : session[s] \in {"holding", "attached", "over"} =>
         conn[held[s]] \in {"hub", "closed"} /\ name[held[s]] = cname[s]
    /\ listener \in {"found", "down"} =>
         name[lheld] = lname

-----------------------------------------------------------------------------
LEMMA NamesCovered == SocketNames \subseteq Names /\ ExecNames \subseteq Names
BY DEF Names

\* get returns None or the registered hub, which is then not done.
LEMMA GetHub ==
    ASSUME TypeOK, NEW n \in Names
    PROVE  /\ Get(n) = None => hubs[n] \notin live
           /\ Get(n) # None => Get(n) \in live /\ Get(n) \in Conns /\ Get(n) = hubs[n]
BY RegistryAssumption DEF RegistryAssumption, Get, TypeOK

\* get_or_create keeps the types of what it may change.
LEMMA GetOrCreateType ==
    ASSUME TypeOK, NEW n \in Names, NEW c \in Conns, GetOrCreate(n, c)
    PROVE  /\ hubs' \in [Names -> Conns \cup {None}]
           /\ name' \in [Conns -> Names]
           /\ live' \in SUBSET Conns
           /\ clients' = clients
           /\ conn' \in [Conns -> ConnStates]
BY DEF TypeOK, GetOrCreate, NewHub, hubVars, ConnStates

\* get_or_create takes the descriptor it is given, and no other connection
\* changes its state.
LEMMA GetOrCreateEffect ==
    ASSUME TypeOK, NEW n \in Names, NEW c \in Conns, GetOrCreate(n, c)
    PROVE  /\ conn'[c] \in {"hub", "closed"}
           /\ \A d \in Conns \ {c} : conn'[d] = conn[d]
           /\ live' = live \/ (live' = live \cup {c} /\ conn'[c] = "hub")
BY DEF TypeOK, GetOrCreate, NewHub, ConnStates, hubVars

-----------------------------------------------------------------------------
\* Every variable keeps its type.
THEOREM TypeCorrect == Spec => []TypeOK
<1>1. Init => TypeOK
  <2>. SUFFICES ASSUME Init PROVE TypeOK
    OBVIOUS
  <2>1. SomeName \in Names
    BY RegistryAssumption DEF RegistryAssumption, SomeName
  <2>. QED
    BY <2>1 DEF Init, TypeOK, ConnStates, SessionStates, ListenerStates
<1>2. TypeOK /\ [Next]_vars => TypeOK'
  <2>. SUFFICES ASSUME TypeOK, [Next]_vars PROVE TypeOK'
    OBVIOUS
  <2>. USE DEF TypeOK, ConnStates, SessionStates, ListenerStates, vars,
     hubVars, sessionVars, listenerVars, Move, ListenerMove
  <2>1. ASSUME NEW s \in Sessions, NEW n \in Names, Console(s, n)
        PROVE  TypeOK'
    BY <2>1, GetHub DEF Console
  <2>2. ASSUME NEW s \in Sessions, Spawned(s)
        PROVE  TypeOK'
    BY <2>2 DEF Spawned
  <2>3. ASSUME NEW s \in Sessions, SpawnFails(s)
        PROVE  TypeOK'
    BY <2>3 DEF SpawnFails
  <2>4. ASSUME NEW s \in Sessions, Obtain(s)
        PROVE  TypeOK'
    BY <2>4, GetOrCreateType, GetHub DEF Obtain, Returned
  <2>5. ASSUME NEW s \in Sessions, Attach(s)
        PROVE  TypeOK'
    BY <2>5 DEF Attach
  <2>6. ASSUME NEW s \in Sessions, AttachFails(s)
        PROVE  TypeOK'
    BY <2>6 DEF AttachFails
  <2>7. ASSUME NEW s \in Sessions, Leave(s)
        PROVE  TypeOK'
    BY <2>7 DEF Leave
  <2>8. ASSUME NEW s \in Sessions, Detached(s)
        PROVE  TypeOK'
    BY <2>8 DEF Detached, RemoveIfDone
  <2>9. ASSUME NEW h \in Conns, HubEnds(h)
        PROVE  TypeOK'
    BY <2>9 DEF HubEnds
  <2>10. ASSUME NEW h \in Conns, NEW s \in Sessions, HubDrops(h, s)
        PROVE  TypeOK'
    BY <2>10 DEF HubDrops
  <2>11. ASSUME NEW h \in Conns, HubDissolves(h)
        PROVE  TypeOK'
    BY <2>11 DEF HubDissolves
  <2>12. ASSUME NEW h \in Conns, HubCloses(h)
        PROVE  TypeOK'
    BY <2>12 DEF HubCloses
  <2>13. ASSUME NEW n \in SocketNames, Appeared(n)
        PROVE  TypeOK'
    BY <2>13, NamesCovered DEF Appeared
  <2>14. CASE Register
    BY <2>14, GetOrCreateType DEF Register
  <2>15. ASSUME NEW n \in SocketNames, Disappeared(n)
        PROVE  TypeOK'
    BY <2>15, GetHub, NamesCovered DEF Disappeared
  <2>16. CASE ShutDown
    BY <2>16 DEF ShutDown
  <2>17. CASE Forget
    BY <2>17 DEF Forget, RemoveIfDone
  <2>18. CASE UNCHANGED vars
    BY <2>18
  <2>. QED
    BY <2>1, <2>2, <2>3, <2>4, <2>5, <2>6, <2>7, <2>8, <2>9, <2>10, <2>11,
       <2>12, <2>13, <2>14, <2>15, <2>16, <2>17, <2>18 DEF Next, SessionStep,
       HubStep, ListenerStep
<1>. QED
  BY <1>1, <1>2, PTL DEF Spec

-----------------------------------------------------------------------------
\* Every carried descriptor has exactly one carrier.
THEOREM CarriersUnique == Spec => []CarriedOnce
<1>1. Init => CarriedOnce
  BY DEF Init, CarriedOnce
<1>2. TypeOK /\ CarriedOnce /\ [Next]_vars => CarriedOnce'
  <2>. SUFFICES ASSUME TypeOK, CarriedOnce, [Next]_vars PROVE CarriedOnce'
    OBVIOUS
  <2>. USE DEF TypeOK, CarriedOnce, vars, hubVars, sessionVars, listenerVars,
     Move, ListenerMove
  <2>1. ASSUME NEW s \in Sessions, NEW n \in Names, Console(s, n)
        PROVE  CarriedOnce'
    BY <2>1 DEF Console
  <2>2. ASSUME NEW s \in Sessions, Spawned(s)
        PROVE  CarriedOnce'
    BY <2>2 DEF Spawned
  <2>3. ASSUME NEW s \in Sessions, SpawnFails(s)
        PROVE  CarriedOnce'
    BY <2>3 DEF SpawnFails
  <2>4. ASSUME NEW s \in Sessions, Obtain(s)
        PROVE  CarriedOnce'
    BY <2>4, GetOrCreateEffect DEF Obtain
  <2>5. ASSUME NEW s \in Sessions, Attach(s)
        PROVE  CarriedOnce'
    BY <2>5 DEF Attach
  <2>6. ASSUME NEW s \in Sessions, AttachFails(s)
        PROVE  CarriedOnce'
    BY <2>6 DEF AttachFails
  <2>7. ASSUME NEW s \in Sessions, Leave(s)
        PROVE  CarriedOnce'
    BY <2>7 DEF Leave
  <2>8. ASSUME NEW s \in Sessions, Detached(s)
        PROVE  CarriedOnce'
    BY <2>8 DEF Detached
  <2>9. ASSUME NEW h \in Conns, HubEnds(h)
        PROVE  CarriedOnce'
    BY <2>9 DEF HubEnds
  <2>10. ASSUME NEW h \in Conns, NEW s \in Sessions, HubDrops(h, s)
        PROVE  CarriedOnce'
    BY <2>10 DEF HubDrops
  <2>11. ASSUME NEW h \in Conns, HubDissolves(h)
        PROVE  CarriedOnce'
    BY <2>11 DEF HubDissolves
  <2>12. ASSUME NEW h \in Conns, HubCloses(h)
        PROVE  CarriedOnce'
    BY <2>12 DEF HubCloses
  <2>13. ASSUME NEW n \in SocketNames, Appeared(n)
        PROVE  CarriedOnce'
    BY <2>13 DEF Appeared
  <2>14. CASE Register
    BY <2>14, GetOrCreateEffect DEF Register
  <2>15. ASSUME NEW n \in SocketNames, Disappeared(n)
        PROVE  CarriedOnce'
    BY <2>15, GetHub, NamesCovered DEF Disappeared
  <2>16. CASE ShutDown
    BY <2>16 DEF ShutDown
  <2>17. CASE Forget
    BY <2>17 DEF Forget
  <2>18. CASE UNCHANGED vars
    BY <2>18
  <2>. QED
    BY <2>1, <2>2, <2>3, <2>4, <2>5, <2>6, <2>7, <2>8, <2>9, <2>10, <2>11,
       <2>12, <2>13, <2>14, <2>15, <2>16, <2>17, <2>18 DEF Next, SessionStep,
       HubStep, ListenerStep
<1>. QED
  BY <1>1, <1>2, TypeCorrect, PTL DEF Spec

-----------------------------------------------------------------------------
\* The registry holds each live hub under its name, and hubs only under their
\* names.  A hub replaced by get_or_create was done.
THEOREM RegistryInvariant == Spec => []Registered
<1>1. Init => Registered
  BY DEF Init, Registered, LiveHubsRegistered
<1>2. TypeOK /\ CarriedOnce /\ Registered /\ [Next]_vars => Registered'
  <2>. SUFFICES ASSUME TypeOK, CarriedOnce, Registered, [Next]_vars PROVE
     Registered'
    OBVIOUS
  <2>. USE DEF TypeOK, CarriedOnce, Registered, LiveHubsRegistered, vars,
     hubVars, sessionVars, listenerVars, Move, ListenerMove
  <2>1. ASSUME NEW s \in Sessions, NEW n \in Names, Console(s, n)
        PROVE  Registered'
    BY <2>1 DEF Console
  <2>2. ASSUME NEW s \in Sessions, Spawned(s)
        PROVE  Registered'
    BY <2>2 DEF Spawned
  <2>3. ASSUME NEW s \in Sessions, SpawnFails(s)
        PROVE  Registered'
    BY <2>3 DEF SpawnFails
  <2>4. ASSUME NEW s \in Sessions, Obtain(s)
        PROVE  Registered'
    BY <2>4, GetHub DEF Obtain, GetOrCreate, NewHub
  <2>5. ASSUME NEW s \in Sessions, Attach(s)
        PROVE  Registered'
    BY <2>5 DEF Attach
  <2>6. ASSUME NEW s \in Sessions, AttachFails(s)
        PROVE  Registered'
    BY <2>6 DEF AttachFails
  <2>7. ASSUME NEW s \in Sessions, Leave(s)
        PROVE  Registered'
    BY <2>7 DEF Leave
  <2>8. ASSUME NEW s \in Sessions, Detached(s)
        PROVE  Registered'
    BY <2>8 DEF Detached, RemoveIfDone
  <2>9. ASSUME NEW h \in Conns, HubEnds(h)
        PROVE  Registered'
    BY <2>9 DEF HubEnds
  <2>10. ASSUME NEW h \in Conns, NEW s \in Sessions, HubDrops(h, s)
        PROVE  Registered'
    BY <2>10 DEF HubDrops
  <2>11. ASSUME NEW h \in Conns, HubDissolves(h)
        PROVE  Registered'
    BY <2>11 DEF HubDissolves
  <2>12. ASSUME NEW h \in Conns, HubCloses(h)
        PROVE  Registered'
    BY <2>12 DEF HubCloses
  <2>13. ASSUME NEW n \in SocketNames, Appeared(n)
        PROVE  Registered'
    BY <2>13 DEF Appeared
  <2>14. CASE Register
    BY <2>14, GetHub DEF Register, GetOrCreate, NewHub
  <2>15. ASSUME NEW n \in SocketNames, Disappeared(n)
        PROVE  Registered'
    BY <2>15 DEF Disappeared
  <2>16. CASE ShutDown
    BY <2>16 DEF ShutDown
  <2>17. CASE Forget
    BY <2>17 DEF Forget, RemoveIfDone
  <2>18. CASE UNCHANGED vars
    BY <2>18
  <2>. QED
    BY <2>1, <2>2, <2>3, <2>4, <2>5, <2>6, <2>7, <2>8, <2>9, <2>10, <2>11,
       <2>12, <2>13, <2>14, <2>15, <2>16, <2>17, <2>18 DEF Next, SessionStep,
       HubStep, ListenerStep
<1>. QED
  BY <1>1, <1>2, TypeCorrect, CarriersUnique, PTL DEF Spec

-----------------------------------------------------------------------------
\* A session holds a hub of the console it asked for, and the listener shuts down
\* a hub of the console whose socket is gone.
THEOREM ReferencesRight == Spec => []References
<1>1. Init => References
  BY DEF Init, References
<1>2. TypeOK /\ CarriedOnce /\ Registered /\ References /\ [Next]_vars =>
   References'
  <2>. SUFFICES ASSUME TypeOK, CarriedOnce, Registered, References,
     [Next]_vars PROVE References'
    OBVIOUS
  <2>. USE DEF TypeOK, CarriedOnce, References, vars, hubVars, sessionVars,
     listenerVars, Move, ListenerMove
  <2>1. ASSUME NEW s \in Sessions, NEW n \in Names, Console(s, n)
        PROVE  References'
    BY <2>1, GetHub DEF Console, Registered, LiveHubsRegistered
  <2>2. ASSUME NEW s \in Sessions, Spawned(s)
        PROVE  References'
    BY <2>2 DEF Spawned
  <2>3. ASSUME NEW s \in Sessions, SpawnFails(s)
        PROVE  References'
    BY <2>3 DEF SpawnFails
  <2>4. ASSUME NEW s \in Sessions, Obtain(s)
        PROVE  References'
    <3>. DEFINE n == cname[s]
                c == held[s]
                h == IF Get(n) = None THEN c ELSE Get(n)
    <3>1. session[s] = "spawned" /\ c \in Conns /\ n \in Names /\ conn[c] = "carried"
      BY <2>4 DEF Obtain
    <3>2. /\ h \in Conns
          /\ conn'[h] \in {"hub", "closed"} /\ name'[h] = n
          /\ \A d \in Conns \ {c} : conn'[d] = conn[d] /\ name'[d] = name[d]
      <4>1. CASE Get(n) = None
        BY <4>1, <2>4, <3>1 DEF Obtain, GetOrCreate, NewHub
      <4>2. CASE Get(n) # None
        <5>1. /\ Get(n) \in Conns /\ Get(n) = hubs[n] /\ hubs[n] # None
              /\ conn[Get(n)] = "hub"
          BY <4>2, <3>1, GetHub
        <5>2. name[Get(n)] = n
          BY <5>1, <3>1 DEF Registered
        <5>. QED
          BY <5>1, <5>2, <4>2, <2>4, <3>1 DEF Obtain, GetOrCreate
      <4>. QED
        BY <4>1, <4>2
    <3>3. /\ held' = [held EXCEPT ![s] = h]
          /\ session' = [session EXCEPT ![s] = "holding"]
          /\ UNCHANGED <<cname, listener, lname, lheld>>
      BY <2>4 DEF Obtain, Returned
    <3>4. listener \in {"found", "down"} => name'[lheld] = lname
      <4>1. lheld = c => listener \notin {"found", "down"}
        BY <3>1
      <4>. QED
        BY <4>1, <3>2, <3>1
    <3>. HIDE DEF n, c, h
    <3>5. ASSUME NEW t \in Sessions, session'[t] \in {"holding", "attached", "over"}
          PROVE  conn'[held'[t]] \in {"hub", "closed"} /\ name'[held'[t]] = cname'[t]
      BY <3>1, <3>2, <3>3, <3>5 DEF n, c
    <3>. QED
      BY <3>3, <3>4, <3>5
  <2>5. ASSUME NEW s \in Sessions, Attach(s)
        PROVE  References'
    BY <2>5 DEF Attach
  <2>6. ASSUME NEW s \in Sessions, AttachFails(s)
        PROVE  References'
    BY <2>6 DEF AttachFails
  <2>7. ASSUME NEW s \in Sessions, Leave(s)
        PROVE  References'
    BY <2>7 DEF Leave
  <2>8. ASSUME NEW s \in Sessions, Detached(s)
        PROVE  References'
    BY <2>8 DEF Detached
  <2>9. ASSUME NEW h \in Conns, HubEnds(h)
        PROVE  References'
    BY <2>9 DEF HubEnds
  <2>10. ASSUME NEW h \in Conns, NEW s \in Sessions, HubDrops(h, s)
        PROVE  References'
    BY <2>10 DEF HubDrops
  <2>11. ASSUME NEW h \in Conns, HubDissolves(h)
        PROVE  References'
    BY <2>11 DEF HubDissolves
  <2>12. ASSUME NEW h \in Conns, HubCloses(h)
        PROVE  References'
    BY <2>12 DEF HubCloses
  <2>13. ASSUME NEW n \in SocketNames, Appeared(n)
        PROVE  References'
    BY <2>13 DEF Appeared
  <2>14. CASE Register
    BY <2>14, GetHub DEF Register, GetOrCreate, NewHub
  <2>15. ASSUME NEW n \in SocketNames, Disappeared(n)
        PROVE  References'
    BY <2>15, GetHub, NamesCovered DEF Disappeared, Registered,
       LiveHubsRegistered
  <2>16. CASE ShutDown
    BY <2>16 DEF ShutDown
  <2>17. CASE Forget
    BY <2>17 DEF Forget
  <2>18. CASE UNCHANGED vars
    BY <2>18
  <2>. QED
    BY <2>1, <2>2, <2>3, <2>4, <2>5, <2>6, <2>7, <2>8, <2>9, <2>10, <2>11,
       <2>12, <2>13, <2>14, <2>15, <2>16, <2>17, <2>18 DEF Next, SessionStep,
       HubStep, ListenerStep
<1>. QED
  BY <1>1, <1>2, TypeCorrect, CarriersUnique, RegistryInvariant, PTL DEF Spec

-----------------------------------------------------------------------------
\* A hub that is not done is the one registered under its name.
THEOREM LiveHubsRegisteredAlways == Spec => []LiveHubsRegistered
<1>1. Registered => LiveHubsRegistered
  BY DEF Registered
<1>. QED
  BY <1>1, RegistryInvariant, PTL

\* The users attached to one console share one hub, unless theirs has ended.
THEOREM OneConversationAlways == Spec => []OneConversation
<1>1. Registered /\ References => OneConversation
  BY DEF Registered, LiveHubsRegistered, References, OneConversation
<1>. QED
  BY <1>1, RegistryInvariant, ReferencesRight, PTL

\* An open console descriptor is a hub's or in the hands of exactly one thread.
THEOREM DescriptorsAccountedAlways == Spec => []DescriptorsAccounted
<1>1. CarriedOnce => DescriptorsAccounted
  BY DEF CarriedOnce, DescriptorsAccounted, Carries, ListenerCarries
<1>. QED
  BY <1>1, CarriersUnique, PTL

-----------------------------------------------------------------------------
\* Each connection is used as HubObject allows: this is the side of the callers
\* of a hub, ConsoleHub_proof!HubObjectImplemented that of the hub itself.
THEOREM HubsUsedAsPromised ==
    ASSUME NEW c \in Conns
    PROVE  Spec => Hub(c)!Spec
<1>. DEFINE over == conn[c] \in {"hub", "closed"} /\ c \notin live
            view == <<over, clients[c]>>
            Allowed == \/ \E s \in Sessions : clients[c]' = clients[c] \cup {s} /\ over' = over
                       \/ \E s \in Sessions : clients[c]' = clients[c] \ {s} /\ over' = over
                       \/ over' = TRUE /\ clients[c]' = clients[c]
                       \/ over /\ clients[c]' = {} /\ over' = over
                       \/ over' = over /\ clients[c]' = clients[c]
<1>1. Init => Hub(c)!Init
  BY DEF Init, Hub!Init
<1>2. TypeOK /\ CarriedOnce /\ [Next]_vars => Allowed
  <2>. SUFFICES ASSUME TypeOK, CarriedOnce, [Next]_vars PROVE Allowed
    OBVIOUS
  <2>. USE DEF TypeOK, CarriedOnce, vars, hubVars, sessionVars, listenerVars, Move, ListenerMove
  <2>1. ASSUME NEW s \in Sessions, NEW n \in Names, Console(s, n)
        PROVE  Allowed
    BY <2>1 DEF Console
  <2>2. ASSUME NEW s \in Sessions, Spawned(s)
        PROVE  Allowed
    BY <2>2 DEF Spawned
  <2>3. ASSUME NEW s \in Sessions, SpawnFails(s)
        PROVE  Allowed
    BY <2>3 DEF SpawnFails
  <2>4. ASSUME NEW s \in Sessions, Obtain(s)
        PROVE  Allowed
    BY <2>4, GetHub DEF Obtain, GetOrCreate, NewHub
  <2>5. ASSUME NEW s \in Sessions, Attach(s)
        PROVE  Allowed
    BY <2>5 DEF Attach
  <2>6. ASSUME NEW s \in Sessions, AttachFails(s)
        PROVE  Allowed
    BY <2>6 DEF AttachFails
  <2>7. ASSUME NEW s \in Sessions, Leave(s)
        PROVE  Allowed
    BY <2>7 DEF Leave
  <2>8. ASSUME NEW s \in Sessions, Detached(s)
        PROVE  Allowed
    BY <2>8 DEF Detached
  <2>9. ASSUME NEW h \in Conns, HubEnds(h)
        PROVE  Allowed
    BY <2>9 DEF HubEnds
  <2>10. ASSUME NEW h \in Conns, NEW s \in Sessions, HubDrops(h, s)
        PROVE  Allowed
    BY <2>10 DEF HubDrops
  <2>11. ASSUME NEW h \in Conns, HubDissolves(h)
        PROVE  Allowed
    BY <2>11 DEF HubDissolves
  <2>12. ASSUME NEW h \in Conns, HubCloses(h)
        PROVE  Allowed
    BY <2>12 DEF HubCloses
  <2>13. ASSUME NEW n \in SocketNames, Appeared(n)
        PROVE  Allowed
    BY <2>13 DEF Appeared
  <2>14. CASE Register
    BY <2>14, GetHub DEF Register, GetOrCreate, NewHub
  <2>15. ASSUME NEW n \in SocketNames, Disappeared(n)
        PROVE  Allowed
    BY <2>15 DEF Disappeared
  <2>16. CASE ShutDown
    BY <2>16 DEF ShutDown
  <2>17. CASE Forget
    BY <2>17 DEF Forget
  <2>18. CASE UNCHANGED vars
    BY <2>18
  <2>. QED
    BY <2>1, <2>2, <2>3, <2>4, <2>5, <2>6, <2>7, <2>8, <2>9, <2>10, <2>11,
       <2>12, <2>13, <2>14, <2>15, <2>16, <2>17, <2>18 DEF Next, SessionStep,
       HubStep, ListenerStep
<1>3. Allowed => [Hub(c)!Next]_view
  BY DEF Hub!Next, Hub!Join, Hub!Leave, Hub!End, Hub!Dissolve
<1>. QED
  BY <1>1, <1>2, <1>3, TypeCorrect, CarriersUnique, PTL DEF Spec, Hub!Spec
=============================================================================
