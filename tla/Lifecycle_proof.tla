-------------------------- MODULE Lifecycle_proof --------------------------
(***************************************************************************)
(* Proofs about Lifecycle for any files, nesting of signal handlers,       *)
(* capacity of push and number of processes that die.                      *)
(*                                                                         *)
(* The rules travel as in RuleSync except that a send may find no reader   *)
(* (SendLost).  It can only when nobody has the worker's end of push any   *)
(* more, and a worker that lives has it (WorkerListens); so as long as the *)
(* worker lives the argument of RuleSync_proof holds.                      *)
(***************************************************************************)
EXTENDS Lifecycle, RuleSync_proof

Starting == {"start", "one_fork", "two_forks"}

\* The monitor forks the worker before it handles signals, and with the
\* worker's end of push, which the worker keeps.
WorkerListens ==
    /\ at["monitor"] \in Starting => "push_w" \in holds["monitor"]
    /\ at["worker"] \in {"forked", "running"} => "push_w" \in holds["worker"]
    /\ at["worker"] = "none" => at["monitor"] \in {"start", "one_fork", "gone"}

TrackedWhileUp == at["worker"] # "gone" => Tracked

\* What the actions that move processes share.
LifeTypes ==
    /\ at \in [Procs -> UNION {Stages[p] : p \in Procs}]
    /\ \A p \in Procs : at[p] \in Stages[p]
    /\ holds \in [Procs -> SUBSET Ends]
    /\ \A p \in Procs : at[p] \in {"none", "gone"} => holds[p] = {}

-----------------------------------------------------------------------------
\* Process p being at stage s from now on.
LEMMA Moves ==
    ASSUME LifeTypes, NEW p \in Procs, NEW s \in Stages[p],
           at' = [at EXCEPT ![p] = s]
    PROVE  /\ at' \in [Procs -> UNION {Stages[q] : q \in Procs}]
           /\ \A q \in Procs : at'[q] \in Stages[q]
           /\ at'[p] = s
           /\ \A q \in Procs \ {p} : at'[q] = at[q]
<1>1. s \in UNION {Stages[q] : q \in Procs}
  OBVIOUS
<1>. QED
  BY <1>1 DEF LifeTypes


\* It goes on there, with the ends E.
LEMMA MovesWith ==
    ASSUME LifeTypes, NEW p \in Procs, NEW s \in Stages[p], NEW E \in SUBSET Ends,
           s \in {"none", "gone"} => E = {},
           at' = [at EXCEPT ![p] = s],
           holds' = [holds EXCEPT ![p] = E]
    PROVE  LifeTypes'
<1>1. /\ at' \in [Procs -> UNION {Stages[q] : q \in Procs}]
      /\ \A q \in Procs : at'[q] \in Stages[q]
      /\ at'[p] = s
      /\ \A q \in Procs \ {p} : at'[q] = at[q]
  BY Moves
<1>2. /\ holds' \in [Procs -> SUBSET Ends]
      /\ holds'[p] = E
      /\ \A q \in Procs \ {p} : holds'[q] = holds[q]
  BY DEF LifeTypes
<1>. QED
  BY <1>1, <1>2 DEF LifeTypes

\* It goes on there, with the ends it has.
LEMMA MovesOn ==
    ASSUME LifeTypes, NEW p \in Procs, NEW s \in Stages[p],
           s \notin {"none", "gone"},
           at' = [at EXCEPT ![p] = s],
           holds' = holds
    PROVE  LifeTypes'
<1>1. /\ at' \in [Procs -> UNION {Stages[q] : q \in Procs}]
      /\ \A q \in Procs : at'[q] \in Stages[q]
      /\ at'[p] = s
      /\ \A q \in Procs \ {p} : at'[q] = at[q]
  BY Moves
<1>. QED
  BY <1>1 DEF LifeTypes

\* A fork keeps the types.
LEMMA ForkTypes ==
    ASSUME LifeTypes, NEW p \in Procs \ {"monitor"},
           NEW from, NEW to \in Stages["monitor"],
           to \notin {"none", "gone"}, Forks(p, from, to)
    PROVE  LifeTypes'
<1>1. "forked" \in Stages[p] /\ "monitor" \in Procs
  BY DEF Stages, Procs
<1>2. /\ at' = [at EXCEPT !["monitor"] = to, ![p] = "forked"]
      /\ holds' = [holds EXCEPT ![p] = holds["monitor"]]
  BY DEF Forks
<1>3. /\ at'["monitor"] = to /\ at'[p] = "forked"
      /\ \A q \in Procs \ {p, "monitor"} : at'[q] = at[q]
  BY <1>1, <1>2 DEF LifeTypes
<1>4. /\ \A q \in Procs : at'[q] \in Stages[q]
      /\ at' \in [Procs -> UNION {Stages[q] : q \in Procs}]
  <2>1. \A q \in Procs : at'[q] \in Stages[q]
    BY <1>1, <1>3 DEF LifeTypes
  <2>2. \A q \in Procs : at'[q] \in UNION {Stages[r] : r \in Procs}
    BY <2>1
  <2>3. at' = [q \in Procs |-> at'[q]]
    BY <1>2 DEF LifeTypes
  <2>. QED
    BY <2>1, <2>2, <2>3
<1>5. /\ holds' \in [Procs -> SUBSET Ends]
      /\ \A q \in Procs \ {p} : holds'[q] = holds[q]
  BY <1>1, <1>2 DEF LifeTypes
<1>6. to # "none" /\ to # "gone"
  OBVIOUS
<1>7. ASSUME NEW q \in Procs, at'[q] \in {"none", "gone"} PROVE holds'[q] = {}
  <2>1. q # p /\ q # "monitor"
    BY <1>3, <1>6, <1>7
  <2>. QED
    BY <1>3, <1>5, <1>7, <2>1 DEF LifeTypes
<1>. QED
  BY <1>4, <1>5, <1>7 DEF LifeTypes

\* The conjuncts of TypeOK that are about the worker's listener and what is
\* on the channels.
ChannelTypes ==
    /\ listener \in {"up", "serving", "watching", "dead"}
    /\ request \in BOOLEAN /\ answers \in BOOLEAN
    /\ faults \in 0..MaxFaults

LEMMA TypeParts == TypeOK <=> SyncTypeOK /\ LifeTypes /\ ChannelTypes
BY DEF TypeOK, LifeTypes, ChannelTypes

\* Process p exits.
LEMMA ExitTypes ==
    ASSUME LifeTypes, NEW p \in Daemon, Exits(p)
    PROVE  LifeTypes'
<1>1. p \in Procs /\ "gone" \in Stages[p] /\ {} \in SUBSET Ends
  BY DEF Procs, Daemon, Stages
<1>2. at' = [at EXCEPT ![p] = "gone"] /\ holds' = [holds EXCEPT ![p] = {}]
  BY DEF Exits
<1>. QED
  BY <1>1, <1>2, MovesWith

\* Process p goes on, with the ends it does not close.
LEMMA CloseTypes ==
    ASSUME LifeTypes, NEW p \in Daemon, NEW from, NEW to \in Stages[p], NEW ends,
           to \notin {"none", "gone"}, Goes(p, from, to), Closes(p, ends)
    PROVE  LifeTypes'
<1>1. p \in Procs
  BY DEF Procs, Daemon
<1>2. holds[p] \ ends \in SUBSET Ends
  BY <1>1 DEF LifeTypes
<1>3. at' = [at EXCEPT ![p] = to] /\ holds' = [holds EXCEPT ![p] = holds[p] \ ends]
  BY DEF Goes, Closes
<1>. QED
  BY <1>1, <1>2, <1>3, MovesWith

\* The monitor goes on.
LEMMA MonitorGoesTypes ==
    ASSUME LifeTypes, NEW from, NEW to \in Looping \cup Waiting,
           Goes("monitor", from, to), UNCHANGED holds
    PROVE  LifeTypes'
<1>1. "monitor" \in Procs /\ to \in Stages["monitor"] /\ to \notin {"none", "gone"}
  BY DEF Procs, Stages, Looping, Waiting
<1>2. at' = [at EXCEPT !["monitor"] = to] /\ holds' = holds
  BY DEF Goes
<1>. QED
  BY <1>1, <1>2, MovesOn

\* A message that is lost leaves the handler's stack a stack.
LEMMA LostTypes == SyncTypeOK /\ SendLost => SyncTypeOK'
<1>. SUFFICES ASSUME SyncTypeOK, SendLost PROVE SyncTypeOK'
  OBVIOUS
<1>1. handlers # <<>>
  BY DEF SendLost
<1>2. After(Head(handlers)) \in Seq(Handlers) /\ Tail(handlers) \in Seq(Handlers)
  BY <1>1, TopIsHandler, AfterTypes
<1>3. handlers' \in Seq(Handlers)
  BY <1>2, ConcatProperties DEF SendLost
<1>. QED
  BY <1>3 DEF SendLost, SyncTypeOK, workerRules, channel

\* What happens to the rules is a step of RuleSync, but for SendLost.
LEMMA RulesTravel ==
    ASSUME [Next]_vars
    PROVE  [SyncNext]_syncVars \/ (SendLost /\ Handling)
<1>1. CASE Handling
  BY <1>1 DEF Handling, SyncNext, MonitorStep
<1>2. CASE Signalled
  BY <1>2 DEF Signalled, SyncNext, MonitorStep
<1>3. CASE ListenerReads
  BY <1>3 DEF ListenerReads, ListenerAppliesCfg, ListenerEnforces, ListenerLists,
              ListenerMisreads, SyncNext, ListenerStep
<1>4. CASE ForkWatcher \/ WatcherCloses \/ ForkWorker \/ WorkerCloses \/ MonitorCloses
  BY <1>4 DEF ForkWatcher, WatcherCloses, ForkWorker, WorkerCloses, MonitorCloses
<1>5. CASE \/ WorkerCalls \/ TakeRequest \/ Spawn \/ ConsoleExecs
           \/ Answer \/ AnswerDropped \/ AnswerRaises
  BY <1>5 DEF WorkerCalls, TakeRequest, Spawn, ConsoleExecs, Answer,
              AnswerDropped, AnswerRaises
<1>6. CASE \/ Reply \/ ServingRaises \/ ListenerWatches \/ Watched
           \/ TakeAnswers \/ AnswersTooLong
  BY <1>6 DEF Reply, ServingRaises, ListenerWatches, Watched, TakeAnswers,
              AnswersTooLong
<1>7. CASE (\E p \in Daemon : ReadsEof(p)) \/ WorkerReaped \/ WatcherReaped
           \/ (\E p \in Daemon : Dies(p))
  BY <1>7 DEF ReadsEof, WorkerReaped, WatcherReaped, Dies
<1>8. CASE UNCHANGED vars
  BY <1>8 DEF vars
<1>. QED
  BY <1>1, <1>2, <1>3, <1>4, <1>5, <1>6, <1>7, <1>8 DEF Next, ListenerReads

-----------------------------------------------------------------------------
\* An action keeps the types of where the processes are and what they hold.
LEMMA LifeTypeStep == TypeOK /\ [Next]_vars => LifeTypes'
<1>. SUFFICES ASSUME LifeTypes, [Next]_vars PROVE LifeTypes'
  BY TypeParts
<1>. USE DEF Procs, Daemon
<1>1. CASE ForkWatcher \/ ForkWorker \/ Spawn
  <2>1. \A to \in {"one_fork", "two_forks", "spawned"} :
          to \in Stages["monitor"] /\ to \notin {"none", "gone"}
    BY DEF Stages, Looping
  <2>. QED
    BY <1>1, <2>1, ForkTypes DEF ForkWatcher, ForkWorker, Spawn
<1>2. CASE WatcherCloses \/ WorkerCloses \/ MonitorCloses
  <2>1. /\ "running" \in Stages["watcher"] /\ "running" \in Stages["worker"]
        /\ "serving" \in Stages["monitor"]
    BY DEF Stages, Looping
  <2>. QED
    BY <1>2, <2>1, CloseTypes DEF WatcherCloses, WorkerCloses, MonitorCloses
<1>3. CASE TakeRequest \/ Answer \/ AnswerDropped \/ AnswersTooLong \/ WorkerReaped
  BY <1>3, MonitorGoesTypes
     DEF TakeRequest, Answer, AnswerDropped, AnswersTooLong, WorkerReaped,
         Looping, Waiting
<1>4. CASE AnswerRaises \/ WatcherReaped
  BY <1>4, ExitTypes DEF AnswerRaises, WatcherReaped
<1>5. ASSUME NEW p \in Daemon, ReadsEof(p) PROVE LifeTypes'
  <2>1. CASE p = "monitor"
    <3>1. Goes("monitor", {"serving"}, "awaits_worker") /\ UNCHANGED holds
      BY <1>5, <2>1 DEF ReadsEof, CanRead, Goes
    <3>. QED
      BY <3>1, MonitorGoesTypes DEF Waiting
  <2>2. CASE p # "monitor"
    BY <1>5, <2>2, ExitTypes DEF ReadsEof
  <2>. QED
    BY <2>1, <2>2
<1>6. ASSUME NEW p \in Daemon, Dies(p) PROVE LifeTypes'
  BY <1>6, ExitTypes DEF Dies
<1>7. CASE ConsoleExecs
  <2>1. "none" \in Stages["console"] /\ {} \in SUBSET Ends
    BY DEF Stages
  <2>2. at' = [at EXCEPT !["console"] = "none"]
    BY <1>7 DEF ConsoleExecs, Goes
  <2>. QED
    BY <1>7, <2>1, <2>2, MovesWith DEF ConsoleExecs
<1>8. CASE UNCHANGED <<at, holds>>
  BY <1>8 DEF LifeTypes
<1>9. CASE Handling \/ Signalled \/ ListenerReads
  BY <1>8, <1>9
     DEF Handling, Signalled, ListenerReads, ListenerAppliesCfg, ListenerEnforces,
         ListenerLists, ListenerMisreads, lifeVars
<1>10. CASE \/ WorkerCalls \/ Reply \/ ServingRaises \/ ListenerWatches \/ Watched
            \/ TakeAnswers \/ UNCHANGED vars
  BY <1>8, <1>10
     DEF WorkerCalls, Reply, ServingRaises, ListenerWatches, Watched, TakeAnswers,
         vars, lifeVars
<1>. QED
  BY <1>1, <1>2, <1>3, <1>4, <1>5, <1>6, <1>7, <1>9, <1>10 DEF Next, ListenerReads

\* And those of the listener and the channels.
LEMMA ChannelTypeStep == ChannelTypes /\ [Next]_vars => ChannelTypes'
<1>. SUFFICES ASSUME ChannelTypes, [Next]_vars PROVE ChannelTypes'
  OBVIOUS
<1>. USE DEF ChannelTypes
<1>1. CASE UNCHANGED <<listener, request, answers, faults>>
  BY <1>1
<1>2. CASE \/ ForkWatcher \/ WatcherCloses \/ ForkWorker \/ WorkerCloses
           \/ MonitorCloses \/ Spawn \/ ConsoleExecs
  BY <1>1, <1>2 DEF ForkWatcher, WatcherCloses, ForkWorker, WorkerCloses,
                    MonitorCloses, Spawn, ConsoleExecs
<1>3. CASE \/ WorkerCalls \/ TakeRequest \/ Answer \/ AnswerDropped
           \/ AnswerRaises
  BY <1>3 DEF WorkerCalls, TakeRequest, Answer, AnswerDropped, AnswerRaises
<1>4. CASE \/ Handling \/ Signalled \/ ListenerAppliesCfg \/ ListenerMisreads
           \/ UNCHANGED vars
  BY <1>1, <1>4 DEF Handling, Signalled, ListenerAppliesCfg, ListenerMisreads,
                    vars, lifeVars
<1>5. CASE \/ ListenerEnforces \/ ListenerLists \/ Reply \/ ServingRaises
           \/ ListenerWatches \/ Watched \/ TakeAnswers \/ AnswersTooLong
  BY <1>5 DEF ListenerEnforces, ListenerLists, Reply, ServingRaises,
              ListenerWatches, Watched, TakeAnswers, AnswersTooLong
<1>6. CASE (\E p \in Daemon : ReadsEof(p)) \/ WorkerReaped \/ WatcherReaped
  BY <1>1, <1>6 DEF ReadsEof, WorkerReaped, WatcherReaped
<1>7. ASSUME NEW p \in Daemon, Dies(p) PROVE ChannelTypes'
  <2>1. faults + 1 \in 0..MaxFaults
    BY <1>7, LifecycleAssumption DEF Dies, LifecycleAssumption
  <2>. QED
    BY <1>7, <2>1 DEF Dies
<1>. QED
  BY <1>2, <1>3, <1>4, <1>5, <1>6, <1>7 DEF Next

\* Every variable keeps its type.
THEOREM TypeCorrect == Spec => []TypeOK
<1>1. Init => TypeOK
  <2>. SUFFICES ASSUME Init PROVE TypeOK
    OBVIOUS
  <2>1. SyncTypeOK
    <3>1. <<>> \in Seq(Messages) /\ <<>> \in Seq(Handlers)
      OBVIOUS
    <3>. QED
      BY <3>1 DEF Init, SyncInit, SyncTypeOK
  <2>2. \A p \in Procs :
          /\ at[p] = IF p = "monitor" THEN "start" ELSE "none"
          /\ at[p] \in Stages[p]
          /\ at[p] \in UNION {Stages[q] : q \in Procs}
    <3>1. \A p \in Procs : at[p] = IF p = "monitor" THEN "start" ELSE "none"
      BY DEF Init
    <3>2. \A p \in Procs : at[p] \in Stages[p]
      BY <3>1 DEF Procs, Stages
    <3>. QED
      BY <3>1, <3>2
  <2>3. LifeTypes
    BY <2>2 DEF Init, LifeTypes
  <2>4. ChannelTypes
    <3>1. 0 \in 0..MaxFaults
      BY LifecycleAssumption DEF LifecycleAssumption
    <3>. QED
      BY <3>1, Zenon DEF Init, ChannelTypes
  <2>. QED
    BY <2>1, <2>3, <2>4, TypeParts
<1>2. TypeOK /\ [Next]_vars => TypeOK'
  <2>. SUFFICES ASSUME TypeOK, [Next]_vars PROVE TypeOK'
    OBVIOUS
  <2>1. SyncTypeOK'
    BY RulesTravel, SyncTypeStep, LostTypes, TypeParts
  <2>2. LifeTypes' /\ ChannelTypes'
    BY LifeTypeStep, ChannelTypeStep, TypeParts
  <2>. QED
    BY <2>1, <2>2 DEF TypeOK, LifeTypes, ChannelTypes
<1>. QED
  BY <1>1, <1>2, PTL DEF Spec

-----------------------------------------------------------------------------
\* A process that is gone stays gone, and only a fork of the monitor, before
\* it handles signals, makes a worker.
LEMMA WorkerStages ==
    ASSUME TypeOK, [Next]_vars
    PROVE  \/ /\ at'["worker"] = at["worker"] /\ holds'["worker"] = holds["worker"]
              /\ \/ at'["monitor"] = at["monitor"] /\ holds'["monitor"] = holds["monitor"]
                 \/ at["monitor"] = "start" /\ at'["monitor"] = "one_fork"
                    /\ holds'["monitor"] = holds["monitor"]
                 \/ at["monitor"] \notin {"start", "one_fork", "gone"}
                    /\ at'["monitor"] \notin Starting
                 \/ at'["monitor"] = "gone"
           \/ /\ at["worker"] = "none" /\ at'["worker"] = "forked"
              /\ at["monitor"] = "one_fork" /\ at'["monitor"] = "two_forks"
              /\ holds'["worker"] = holds["monitor"]
              /\ holds'["monitor"] = holds["monitor"]
           \/ /\ at["worker"] = "forked" /\ at'["worker"] = "running"
              /\ "push_w" \in holds["worker"] => "push_w" \in holds'["worker"]
              /\ at'["monitor"] = at["monitor"] /\ holds'["monitor"] = holds["monitor"]
           \/ /\ at["worker"] # "none" /\ at'["worker"] = "gone"
              /\ at'["monitor"] = at["monitor"] /\ holds'["monitor"] = holds["monitor"]
<1>. USE DEF Procs, Daemon
<1>0. /\ at \in [Procs -> UNION {Stages[p] : p \in Procs}]
      /\ holds \in [Procs -> SUBSET Ends]
  BY DEF TypeOK
<1>1. CASE ForkWatcher
  BY <1>0, <1>1 DEF ForkWatcher, Forks
<1>2. CASE ForkWorker
  BY <1>0, <1>2 DEF ForkWorker, Forks
<1>3. CASE Spawn
  BY <1>0, <1>3 DEF Spawn, Forks, Starting
<1>4. CASE WatcherCloses
  BY <1>0, <1>4 DEF WatcherCloses, Goes, Closes
<1>5. CASE WorkerCloses
  BY <1>0, <1>5 DEF WorkerCloses, Goes, Closes
<1>6. CASE MonitorCloses
  BY <1>0, <1>6 DEF MonitorCloses, Goes, Closes, Starting
<1>7. CASE TakeRequest \/ Answer \/ AnswerDropped \/ AnswersTooLong \/ WorkerReaped
  BY <1>0, <1>7
     DEF TakeRequest, Answer, AnswerDropped, AnswersTooLong, WorkerReaped,
         Goes, Starting
<1>8. CASE AnswerRaises \/ WatcherReaped
  BY <1>0, <1>8 DEF AnswerRaises, WatcherReaped, Exits
<1>9. ASSUME NEW p \in Daemon, ReadsEof(p)
      PROVE  IF p = "monitor"
             THEN /\ at["monitor"] = "serving"
                  /\ at' = [at EXCEPT !["monitor"] = "awaits_worker"]
                  /\ holds' = holds
             ELSE Exits(p) /\ at[p] = "running"
  BY <1>9 DEF ReadsEof, CanRead, ListenerRuns
<1>10. CASE \E p \in Daemon : ReadsEof(p)
  BY <1>0, <1>9, <1>10 DEF Exits, Starting
<1>11. CASE \E p \in Daemon : Dies(p)
  BY <1>0, <1>11 DEF Dies, Exits
<1>12. CASE ConsoleExecs
  BY <1>0, <1>12 DEF ConsoleExecs, Goes
<1>13. CASE UNCHANGED <<at, holds>>
  BY <1>13
<1>14. CASE Handling \/ Signalled \/ ListenerReads
  BY <1>13, <1>14
     DEF Handling, Signalled, ListenerReads, ListenerAppliesCfg, ListenerEnforces,
         ListenerLists, ListenerMisreads, lifeVars
<1>15. CASE \/ WorkerCalls \/ Reply \/ ServingRaises \/ ListenerWatches \/ Watched
            \/ TakeAnswers \/ UNCHANGED vars
  BY <1>13, <1>15
     DEF WorkerCalls, Reply, ServingRaises, ListenerWatches, Watched, TakeAnswers,
         vars, lifeVars
<1>. QED
  BY <1>1, <1>2, <1>3, <1>4, <1>5, <1>6, <1>7, <1>8, <1>10, <1>11, <1>12,
     <1>14, <1>15 DEF Next, ListenerReads

\* A worker that lives has its end of push, and the monitor has forked it
\* before it handles signals.
THEOREM WorkerListensAlways == Spec => []WorkerListens
<1>1. Init => WorkerListens
  BY DEF Init, WorkerListens, Procs, Ends, Peer, Starting
<1>2. TypeOK /\ WorkerListens /\ [Next]_vars => WorkerListens'
  <2>. SUFFICES ASSUME TypeOK, WorkerListens, [Next]_vars PROVE WorkerListens'
    OBVIOUS
  <2>. QED
    BY WorkerStages DEF WorkerListens, Starting
<1>. QED
  BY <1>1, <1>2, TypeCorrect, PTL DEF Spec

\* As long as the worker lives, no send fails for want of a reader.
LEMMA ReaderThere ==
    ASSUME TypeOK, WorkerListens, at["worker"] # "gone", Handling
    PROVE  ~SendLost
<1>1. at["worker"] \in {"forked", "running"}
  <2>1. at["worker"] \in Stages["worker"]
    BY DEF TypeOK, Procs
  <2>2. at["worker"] # "none"
    BY DEF WorkerListens, Handling, Looping, Waiting
  <2>. QED
    BY <2>1, <2>2 DEF Stages
<1>2. Held("push_w")
  BY <1>1 DEF WorkerListens, Held, Procs
<1>. QED
  BY <1>2 DEF SendLost

\* The monitor's handlers find somebody at the worker's end of push, so that the
\* rules travel as in RuleSync, its errors included and no others, for any
\* nesting of the handlers and whichever process dies.
THEOREM RulesTravelWhileUpAlways == Spec => RulesTravelWhileUp
<1>1. TypeOK /\ WorkerListens /\ [Next]_vars
        => (at["worker"] # "gone" => [SyncNext]_syncVars)
  BY RulesTravel, ReaderThere
<1>. QED
  BY <1>1, TypeCorrect, WorkerListensAlways, PTL DEF Spec, RulesTravelWhileUp

\* While the worker lives the rules are tracked as RuleSync_proof says.
THEOREM TrackedWhileUpAlways == Spec => []TrackedWhileUp
<1>1. Init => TrackedWhileUp
  BY TrackedInit DEF Init, TrackedWhileUp
<1>2. TypeOK /\ TypeOK' /\ WorkerListens /\ TrackedWhileUp /\ [Next]_vars
        => TrackedWhileUp'
  <2>. SUFFICES ASSUME TypeOK, TypeOK', WorkerListens, TrackedWhileUp,
                       [Next]_vars, at'["worker"] # "gone"
                PROVE  Tracked'
    BY DEF TrackedWhileUp
  <2>1. at["worker"] # "gone"
    BY WorkerStages
  <2>2. [SyncNext]_syncVars
    BY <2>1, ReaderThere, RulesTravel
  <2>3. SyncTypeOK /\ Tracked
    BY <2>1 DEF TypeOK, TrackedWhileUp
  <2>. QED
    BY <2>2, <2>3, TrackedStep
<1>. QED
  BY <1>1, <1>2, TypeCorrect, WorkerListensAlways, PTL DEF Spec

\* As long as the worker lives it has the monitor's rules, in the sense of
\* InSync and with its exceptions, whatever happened to the others.
THEOREM InSyncWhileUpAlways == Spec => []InSyncWhileUp
<1>1. TypeOK /\ TrackedWhileUp => InSyncWhileUp
  BY TrackedArrives DEF TypeOK, TrackedWhileUp, InSyncWhileUp
<1>. QED
  BY <1>1, TypeCorrect, TrackedWhileUpAlways, PTL
=============================================================================
