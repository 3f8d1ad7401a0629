-------------------------- MODULE ConsoleHub_proof --------------------------
(***************************************************************************)
(* Proofs about ConsoleHub for any number of sessions and timer threads.   *)
(*                                                                         *)
(* The order of the argument: types; then _done comes before every close   *)
(* and before the reader leaves its loop (DoneFirst); then what the reader *)
(* owes the sessions on _clients (AttachedIsServed), which starts the loop *)
(* invariant of its last notices (NoticePending), and with it NoSilentHang.*)
(* OneGraceTimer is independent of these.                                  *)
(***************************************************************************)
EXTENDS ConsoleHub, TLAPS

\* _done is set before anybody closes the descriptor, and before the reader
\* gets to its notices.
DoneFirst ==
    ~done =>
        /\ fd = "own"
        /\ reader \in {"check", "enter", "reading", "deliver", "sending"}
        /\ listener # "closing"
        /\ \A t \in Timers : timers[t] # "closing"

\* While the last notices go out, a session in recv that is not to be sent
\* one any more has got it, or its client is gone.
NoticePending ==
    reader = "notifying" =>
        \A s \in Sessions :
            session[s] = "blocked" =>
                s \in tosend \/ s \in told \/ peer[s] = "gone"

-----------------------------------------------------------------------------
\* Timer.cancel takes no thread out of a state other than counting, and
\* leaves the thread it is given not counting.
LEMMA CancelledEffect ==
    ASSUME NEW ts \in [Timers -> TimerStates], NEW t \in Timers \cup {NoTimer}
    PROVE  /\ Cancelled(ts, t) \in [Timers -> TimerStates]
           /\ \A u \in Timers :
                /\ ts[u] # "counting" => Cancelled(ts, t)[u] = ts[u]
                /\ Cancelled(ts, t)[u] = "counting" => ts[u] = "counting" /\ u # t
                /\ Cancelled(ts, t)[u] \in {ts[u], "idle"}
BY DEF Cancelled, TimerStates

\* _arm_grace records the timer it starts; any other timer counting after it
\* was counting before and was not the recorded one; a timer that has fired
\* is left where it is.
LEMMA ArmGraceEffect ==
    ASSUME TypeOK, ArmGrace
    PROVE  /\ timers' \in [Timers -> TimerStates]
           /\ grace_timer' \in Timers
           /\ \A u \in Timers :
                /\ timers'[u] = "counting" =>
                      u = grace_timer' \/ (timers[u] = "counting" /\ u # grace_timer)
                /\ timers[u] \notin {"counting", "idle"} => timers'[u] = timers[u]
                /\ timers'[u] \in {"expired", "closing"} => timers'[u] = timers[u]
<1>. PICK t \in Timers :
        /\ Startable(t)
        /\ timers' = [Cancelled(timers, grace_timer) EXCEPT ![t] = "counting"]
        /\ grace_timer' = t
  BY DEF ArmGrace
<1>. DEFINE ts == Cancelled(timers, grace_timer)
<1>1. /\ ts \in [Timers -> TimerStates]
      /\ \A u \in Timers :
           /\ timers[u] # "counting" => ts[u] = timers[u]
           /\ ts[u] = "counting" => timers[u] = "counting" /\ u # grace_timer
           /\ ts[u] \in {timers[u], "idle"}
  BY CancelledEffect DEF TypeOK
<1>. HIDE DEF ts
<1>2. timers' = [ts EXCEPT ![t] = "counting"]
  BY DEF ts
<1>. QED
  BY <1>1, <1>2 DEF Startable, TimerStates

-----------------------------------------------------------------------------
\* Every variable keeps its type.
THEOREM TypeCorrect == Spec => []TypeOK
<1>1. Init => TypeOK
  <2>. SUFFICES ASSUME Init PROVE TypeOK
    OBVIOUS
  <2>. USE DEF Init
  <2>1. arms \in 0..MaxArms
    BY HubAssumption DEF HubAssumption
  <2>2. /\ timers \in [Timers -> TimerStates]
        /\ session \in [Sessions -> SessionStates]
        /\ peer \in [Sessions -> {"up", "gone"}]
    BY DEF TimerStates, SessionStates
  <2>3. reader \in ReaderStates /\ listener \in ListenerStates
    BY DEF ReaderStates, ListenerStates
  <2>. QED
    BY <2>1, <2>2, <2>3 DEF TypeOK
<1>2. TypeOK /\ [Next]_vars => TypeOK'
  <2>. SUFFICES ASSUME TypeOK, [Next]_vars PROVE TypeOK'
    OBVIOUS
  <2>. USE DEF TypeOK, ReaderStates, ListenerStates, SessionStates, vars,
     hubVars, readerVars, timerVars
  <2>1. ASSUME NEW s \in Sessions, ObtainHub(s) PROVE TypeOK'
    BY <2>1 DEF ObtainHub
  <2>2. ASSUME NEW s \in Sessions, AttachFails(s) PROVE TypeOK'
    BY <2>2 DEF AttachFails
  <2>3. ASSUME NEW s \in Sessions, AddClient(s) PROVE TypeOK'
    BY <2>3, CancelledEffect DEF AddClient
  <2>4. ASSUME NEW s \in Sessions, TestDone(s) PROVE TypeOK'
    BY <2>4 DEF TestDone
  <2>5. ASSUME NEW s \in Sessions, SocketGone(s) PROVE TypeOK'
    BY <2>5 DEF SocketGone
  <2>6. ASSUME NEW s \in Sessions, ViewerPoll(s) PROVE TypeOK'
    BY <2>6 DEF ViewerPoll
  <2>7. ASSUME NEW s \in Sessions, WriterInput(s) PROVE TypeOK'
    BY <2>7 DEF WriterInput
  <2>8. ASSUME NEW s \in Sessions, WriteInput(s) PROVE TypeOK'
    BY <2>8 DEF WriteInput
  <2>9. ASSUME NEW s \in Sessions, RemoveClient(s) PROVE TypeOK'
    BY <2>9 DEF RemoveClient
  <2>10. ASSUME NEW s \in Sessions, ArmAfterLast(s) PROVE TypeOK'
    BY <2>10, ArmGraceEffect DEF ArmAfterLast
  <2>11. ASSUME NEW s \in Sessions, PeerGoes(s) PROVE TypeOK'
    BY <2>11 DEF PeerGoes
  <2>12. CASE ReaderTest
    BY <2>12 DEF ReaderTest
  <2>13. CASE ReaderEnter
    BY <2>13 DEF ReaderEnter
  <2>14. CASE ReadData
    BY <2>14 DEF ReadData
  <2>15. CASE ReadEnd
    BY <2>15 DEF ReadEnd
  <2>16. CASE TakeLock
    BY <2>16 DEF TakeLock
  <2>17. ASSUME NEW c \in Sessions, SendOutput(c) PROVE TypeOK'
    BY <2>17 DEF SendOutput
  <2>18. ASSUME NEW c \in Sessions, SendNotice(c) PROVE TypeOK'
    BY <2>18 DEF SendNotice
  <2>19. CASE BroadcastEnds
    BY <2>19, HubAssumption DEF BroadcastEnds, HubAssumption
  <2>20. CASE ClearClients
    BY <2>20 DEF ClearClients
  <2>21. CASE ReaderClose
    BY <2>21 DEF ReaderClose, CloseFd
  <2>22. CASE ArmThread
    BY <2>22, ArmGraceEffect, HubAssumption DEF ArmThread, HubAssumption
  <2>23. ASSUME NEW t \in Timers, TimerFires(t) PROVE TypeOK'
    BY <2>23 DEF TimerFires, TimerStates
  <2>24. ASSUME NEW t \in Timers, Teardown(t) PROVE TypeOK'
    BY <2>24 DEF Teardown, TimerStates
  <2>25. ASSUME NEW t \in Timers, TimerSetsDone(t) PROVE TypeOK'
    BY <2>25 DEF TimerSetsDone, TimerStates
  <2>26. ASSUME NEW t \in Timers, TimerCloses(t) PROVE TypeOK'
    BY <2>26 DEF TimerCloses, TimerStates, CloseFd
  <2>27. CASE ListenerFinds
    BY <2>27 DEF ListenerFinds
  <2>28. CASE ListenerSetsDone
    BY <2>28 DEF ListenerSetsDone
  <2>29. CASE ListenerCloses
    BY <2>29 DEF ListenerCloses, CloseFd
  <2>30. CASE NumberReused
    BY <2>30 DEF NumberReused
  <2>31. CASE OtherCloses
    BY <2>31 DEF OtherCloses
  <2>32. CASE UNCHANGED vars
    BY <2>32
  <2>. QED
    BY <2>1, <2>2, <2>3, <2>4, <2>5, <2>6, <2>7, <2>8, <2>9, <2>10, <2>11,
       <2>12, <2>13, <2>14, <2>15, <2>16, <2>17, <2>18, <2>19, <2>20, <2>21,
       <2>22, <2>23, <2>24, <2>25, <2>26, <2>27, <2>28, <2>29, <2>30, <2>31,
       <2>32 DEF Next, SessionStep, ReaderStep, TimerStep, ListenerStep
<1>. QED
  BY <1>1, <1>2, PTL DEF Spec

-----------------------------------------------------------------------------
\* No thread closes the descriptor, and the reader does not get to its notices,
\* before _done has been set.
THEOREM DoneComesFirst == Spec => []DoneFirst
<1>1. Init => DoneFirst
  BY DEF Init, DoneFirst
<1>2. TypeOK /\ DoneFirst /\ [Next]_vars => DoneFirst'
  <2>. SUFFICES ASSUME TypeOK, DoneFirst, [Next]_vars PROVE DoneFirst'
    OBVIOUS
  <2>. USE DEF TypeOK, DoneFirst, vars, hubVars, readerVars, timerVars
  <2>1. ASSUME NEW s \in Sessions, ObtainHub(s) PROVE DoneFirst'
    BY <2>1 DEF ObtainHub
  <2>2. ASSUME NEW s \in Sessions, AttachFails(s) PROVE DoneFirst'
    BY <2>2 DEF AttachFails
  <2>3. ASSUME NEW s \in Sessions, AddClient(s) PROVE DoneFirst'
    BY <2>3, CancelledEffect DEF AddClient
  <2>4. ASSUME NEW s \in Sessions, TestDone(s) PROVE DoneFirst'
    BY <2>4 DEF TestDone
  <2>5. ASSUME NEW s \in Sessions, SocketGone(s) PROVE DoneFirst'
    BY <2>5 DEF SocketGone
  <2>6. ASSUME NEW s \in Sessions, ViewerPoll(s) PROVE DoneFirst'
    BY <2>6 DEF ViewerPoll
  <2>7. ASSUME NEW s \in Sessions, WriterInput(s) PROVE DoneFirst'
    BY <2>7 DEF WriterInput
  <2>8. ASSUME NEW s \in Sessions, WriteInput(s) PROVE DoneFirst'
    BY <2>8 DEF WriteInput
  <2>9. ASSUME NEW s \in Sessions, RemoveClient(s) PROVE DoneFirst'
    BY <2>9 DEF RemoveClient
  <2>10. ASSUME NEW s \in Sessions, ArmAfterLast(s) PROVE DoneFirst'
    BY <2>10, ArmGraceEffect DEF ArmAfterLast
  <2>11. ASSUME NEW s \in Sessions, PeerGoes(s) PROVE DoneFirst'
    BY <2>11 DEF PeerGoes
  <2>12. CASE ReaderTest
    BY <2>12 DEF ReaderTest
  <2>13. CASE ReaderEnter
    BY <2>13 DEF ReaderEnter
  <2>14. CASE ReadData
    BY <2>14 DEF ReadData
  <2>15. CASE ReadEnd
    BY <2>15 DEF ReadEnd
  <2>16. CASE TakeLock
    BY <2>16 DEF TakeLock
  <2>17. ASSUME NEW c \in Sessions, SendOutput(c) PROVE DoneFirst'
    BY <2>17 DEF SendOutput
  <2>18. ASSUME NEW c \in Sessions, SendNotice(c) PROVE DoneFirst'
    BY <2>18 DEF SendNotice
  <2>19. CASE BroadcastEnds
    BY <2>19 DEF BroadcastEnds
  <2>20. CASE ClearClients
    BY <2>20 DEF ClearClients
  <2>21. CASE ReaderClose
    BY <2>21 DEF ReaderClose, CloseFd
  <2>22. CASE ArmThread
    BY <2>22, ArmGraceEffect DEF ArmThread
  <2>23. ASSUME NEW t \in Timers, TimerFires(t) PROVE DoneFirst'
    BY <2>23 DEF TimerFires
  <2>24. ASSUME NEW t \in Timers, Teardown(t) PROVE DoneFirst'
    BY <2>24 DEF Teardown
  <2>25. ASSUME NEW t \in Timers, TimerSetsDone(t) PROVE DoneFirst'
    BY <2>25 DEF TimerSetsDone
  <2>26. ASSUME NEW t \in Timers, TimerCloses(t) PROVE DoneFirst'
    BY <2>26 DEF TimerCloses, CloseFd
  <2>27. CASE ListenerFinds
    BY <2>27 DEF ListenerFinds
  <2>28. CASE ListenerSetsDone
    BY <2>28 DEF ListenerSetsDone
  <2>29. CASE ListenerCloses
    BY <2>29 DEF ListenerCloses, CloseFd
  <2>30. CASE NumberReused
    BY <2>30 DEF NumberReused
  <2>31. CASE OtherCloses
    BY <2>31 DEF OtherCloses
  <2>32. CASE UNCHANGED vars
    BY <2>32
  <2>. QED
    BY <2>1, <2>2, <2>3, <2>4, <2>5, <2>6, <2>7, <2>8, <2>9, <2>10, <2>11,
       <2>12, <2>13, <2>14, <2>15, <2>16, <2>17, <2>18, <2>19, <2>20, <2>21,
       <2>22, <2>23, <2>24, <2>25, <2>26, <2>27, <2>28, <2>29, <2>30, <2>31,
       <2>32 DEF Next, SessionStep, ReaderStep, TimerStep, ListenerStep
<1>. QED
  BY <1>1, <1>2, TypeCorrect, PTL DEF Spec

-----------------------------------------------------------------------------
\* A hub that can still be handed out has its descriptor open and its reader
\* in its loop.
THEOREM LiveHubIsWholeAlways == Spec => []LiveHubIsWhole
<1>1. DoneFirst => LiveHubIsWhole
  BY DEF DoneFirst, LiveHubIsWhole
<1>. QED
  BY <1>1, DoneComesFirst, PTL

-----------------------------------------------------------------------------
\* A session that attached and has not detached is on _clients, unless its own
\* client is gone or the reader has given its last notices.
THEOREM AttachedIsServedAlways == Spec => []AttachedIsServed
<1>1. Init => AttachedIsServed
  BY DEF Init, AttachedIsServed, InConsole
<1>2. TypeOK /\ AttachedIsServed /\ [Next]_vars => AttachedIsServed'
  <2>. SUFFICES ASSUME TypeOK, AttachedIsServed, [Next]_vars PROVE
     AttachedIsServed'
    OBVIOUS
  <2>. USE DEF TypeOK, AttachedIsServed, InConsole, Notified, vars, hubVars,
     readerVars, timerVars
  <2>1. ASSUME NEW s \in Sessions, ObtainHub(s) PROVE AttachedIsServed'
    BY <2>1 DEF ObtainHub
  <2>2. ASSUME NEW s \in Sessions, AttachFails(s) PROVE AttachedIsServed'
    BY <2>2 DEF AttachFails
  <2>3. ASSUME NEW s \in Sessions, AddClient(s) PROVE AttachedIsServed'
    BY <2>3 DEF AddClient
  <2>4. ASSUME NEW s \in Sessions, TestDone(s) PROVE AttachedIsServed'
    BY <2>4 DEF TestDone
  <2>5. ASSUME NEW s \in Sessions, SocketGone(s) PROVE AttachedIsServed'
    BY <2>5 DEF SocketGone
  <2>6. ASSUME NEW s \in Sessions, ViewerPoll(s) PROVE AttachedIsServed'
    BY <2>6 DEF ViewerPoll
  <2>7. ASSUME NEW s \in Sessions, WriterInput(s) PROVE AttachedIsServed'
    BY <2>7 DEF WriterInput
  <2>8. ASSUME NEW s \in Sessions, WriteInput(s) PROVE AttachedIsServed'
    BY <2>8 DEF WriteInput
  <2>9. ASSUME NEW s \in Sessions, RemoveClient(s) PROVE AttachedIsServed'
    BY <2>9 DEF RemoveClient
  <2>10. ASSUME NEW s \in Sessions, ArmAfterLast(s) PROVE AttachedIsServed'
    BY <2>10 DEF ArmAfterLast
  <2>11. ASSUME NEW s \in Sessions, PeerGoes(s) PROVE AttachedIsServed'
    BY <2>11 DEF PeerGoes
  <2>12. CASE ReaderTest
    BY <2>12 DEF ReaderTest
  <2>13. CASE ReaderEnter
    BY <2>13 DEF ReaderEnter
  <2>14. CASE ReadData
    BY <2>14 DEF ReadData
  <2>15. CASE ReadEnd
    BY <2>15 DEF ReadEnd
  <2>16. CASE TakeLock
    BY <2>16 DEF TakeLock
  <2>17. ASSUME NEW c \in Sessions, SendOutput(c) PROVE AttachedIsServed'
    BY <2>17 DEF SendOutput
  <2>18. ASSUME NEW c \in Sessions, SendNotice(c) PROVE AttachedIsServed'
    BY <2>18 DEF SendNotice
  <2>19. CASE BroadcastEnds
    BY <2>19 DEF BroadcastEnds
  <2>20. CASE ClearClients
    BY <2>20 DEF ClearClients
  <2>21. CASE ReaderClose
    BY <2>21 DEF ReaderClose
  <2>22. CASE ArmThread
    BY <2>22 DEF ArmThread
  <2>23. ASSUME NEW t \in Timers, TimerFires(t) PROVE AttachedIsServed'
    BY <2>23 DEF TimerFires
  <2>24. ASSUME NEW t \in Timers, Teardown(t) PROVE AttachedIsServed'
    BY <2>24 DEF Teardown
  <2>25. ASSUME NEW t \in Timers, TimerSetsDone(t) PROVE AttachedIsServed'
    BY <2>25 DEF TimerSetsDone
  <2>26. ASSUME NEW t \in Timers, TimerCloses(t) PROVE AttachedIsServed'
    BY <2>26 DEF TimerCloses
  <2>27. CASE ListenerFinds
    BY <2>27 DEF ListenerFinds
  <2>28. CASE ListenerSetsDone
    BY <2>28 DEF ListenerSetsDone
  <2>29. CASE ListenerCloses
    BY <2>29 DEF ListenerCloses
  <2>30. CASE NumberReused
    BY <2>30 DEF NumberReused
  <2>31. CASE OtherCloses
    BY <2>31 DEF OtherCloses
  <2>32. CASE UNCHANGED vars
    BY <2>32
  <2>. QED
    BY <2>1, <2>2, <2>3, <2>4, <2>5, <2>6, <2>7, <2>8, <2>9, <2>10, <2>11,
       <2>12, <2>13, <2>14, <2>15, <2>16, <2>17, <2>18, <2>19, <2>20, <2>21,
       <2>22, <2>23, <2>24, <2>25, <2>26, <2>27, <2>28, <2>29, <2>30, <2>31,
       <2>32 DEF Next, SessionStep, ReaderStep, TimerStep, ListenerStep
<1>. QED
  BY <1>1, <1>2, TypeCorrect, PTL DEF Spec

-----------------------------------------------------------------------------
\* The loop invariant of the last notices: it starts from AttachedIsServed, and
\* as _done is set no session enters recv any more.
THEOREM NoticeInvariant == Spec => []NoticePending
<1>1. Init => NoticePending
  BY DEF Init, NoticePending
<1>2. TypeOK /\ DoneFirst /\ AttachedIsServed /\ NoticePending /\ [Next]_vars
   => NoticePending'
  <2>. SUFFICES ASSUME TypeOK, DoneFirst, AttachedIsServed, NoticePending,
     [Next]_vars PROVE NoticePending'
    OBVIOUS
  <2>. USE DEF TypeOK, NoticePending, vars, hubVars, readerVars, timerVars
  <2>1. ASSUME NEW s \in Sessions, ObtainHub(s) PROVE NoticePending'
    BY <2>1 DEF ObtainHub
  <2>2. ASSUME NEW s \in Sessions, AttachFails(s) PROVE NoticePending'
    BY <2>2 DEF AttachFails
  <2>3. ASSUME NEW s \in Sessions, AddClient(s) PROVE NoticePending'
    BY <2>3 DEF AddClient
  <2>4. ASSUME NEW s \in Sessions, TestDone(s) PROVE NoticePending'
    BY <2>4 DEF TestDone, DoneFirst
  <2>5. ASSUME NEW s \in Sessions, SocketGone(s) PROVE NoticePending'
    BY <2>5 DEF SocketGone
  <2>6. ASSUME NEW s \in Sessions, ViewerPoll(s) PROVE NoticePending'
    BY <2>6 DEF ViewerPoll
  <2>7. ASSUME NEW s \in Sessions, WriterInput(s) PROVE NoticePending'
    BY <2>7 DEF WriterInput
  <2>8. ASSUME NEW s \in Sessions, WriteInput(s) PROVE NoticePending'
    BY <2>8 DEF WriteInput
  <2>9. ASSUME NEW s \in Sessions, RemoveClient(s) PROVE NoticePending'
    BY <2>9 DEF RemoveClient
  <2>10. ASSUME NEW s \in Sessions, ArmAfterLast(s) PROVE NoticePending'
    BY <2>10 DEF ArmAfterLast
  <2>11. ASSUME NEW s \in Sessions, PeerGoes(s) PROVE NoticePending'
    BY <2>11 DEF PeerGoes
  <2>12. CASE ReaderTest
    BY <2>12 DEF ReaderTest
  <2>13. CASE ReaderEnter
    BY <2>13 DEF ReaderEnter
  <2>14. CASE ReadData
    BY <2>14 DEF ReadData
  <2>15. CASE ReadEnd
    BY <2>15 DEF ReadEnd
  <2>16. CASE TakeLock
    BY <2>16 DEF TakeLock, AttachedIsServed, InConsole, Notified
  <2>17. ASSUME NEW c \in Sessions, SendOutput(c) PROVE NoticePending'
    BY <2>17 DEF SendOutput
  <2>18. ASSUME NEW c \in Sessions, SendNotice(c) PROVE NoticePending'
    BY <2>18 DEF SendNotice
  <2>19. CASE BroadcastEnds
    BY <2>19 DEF BroadcastEnds
  <2>20. CASE ClearClients
    BY <2>20 DEF ClearClients
  <2>21. CASE ReaderClose
    BY <2>21 DEF ReaderClose
  <2>22. CASE ArmThread
    BY <2>22 DEF ArmThread
  <2>23. ASSUME NEW t \in Timers, TimerFires(t) PROVE NoticePending'
    BY <2>23 DEF TimerFires
  <2>24. ASSUME NEW t \in Timers, Teardown(t) PROVE NoticePending'
    BY <2>24 DEF Teardown
  <2>25. ASSUME NEW t \in Timers, TimerSetsDone(t) PROVE NoticePending'
    BY <2>25 DEF TimerSetsDone
  <2>26. ASSUME NEW t \in Timers, TimerCloses(t) PROVE NoticePending'
    BY <2>26 DEF TimerCloses
  <2>27. CASE ListenerFinds
    BY <2>27 DEF ListenerFinds
  <2>28. CASE ListenerSetsDone
    BY <2>28 DEF ListenerSetsDone
  <2>29. CASE ListenerCloses
    BY <2>29 DEF ListenerCloses
  <2>30. CASE NumberReused
    BY <2>30 DEF NumberReused
  <2>31. CASE OtherCloses
    BY <2>31 DEF OtherCloses
  <2>32. CASE UNCHANGED vars
    BY <2>32
  <2>. QED
    BY <2>1, <2>2, <2>3, <2>4, <2>5, <2>6, <2>7, <2>8, <2>9, <2>10, <2>11,
       <2>12, <2>13, <2>14, <2>15, <2>16, <2>17, <2>18, <2>19, <2>20, <2>21,
       <2>22, <2>23, <2>24, <2>25, <2>26, <2>27, <2>28, <2>29, <2>30, <2>31,
       <2>32 DEF Next, SessionStep, ReaderStep, TimerStep, ListenerStep
<1>. QED
  BY <1>1, <1>2, TypeCorrect, DoneComesFirst, AttachedIsServedAlways, PTL DEF
     Spec

-----------------------------------------------------------------------------
\* No session waits for input on a console whose reader has gone without having
\* been told so.
THEOREM NoSilentHangAlways == Spec => []NoSilentHang
<1>1. Init => NoSilentHang
  BY DEF Init, NoSilentHang
<1>2. TypeOK /\ DoneFirst /\ NoticePending /\ NoSilentHang /\ [Next]_vars =>
   NoSilentHang'
  <2>. SUFFICES ASSUME TypeOK, DoneFirst, NoticePending, NoSilentHang,
     [Next]_vars PROVE NoSilentHang'
    OBVIOUS
  <2>. USE DEF TypeOK, NoSilentHang, Notified, vars, hubVars, readerVars,
     timerVars
  <2>1. ASSUME NEW s \in Sessions, ObtainHub(s) PROVE NoSilentHang'
    BY <2>1 DEF ObtainHub
  <2>2. ASSUME NEW s \in Sessions, AttachFails(s) PROVE NoSilentHang'
    BY <2>2 DEF AttachFails
  <2>3. ASSUME NEW s \in Sessions, AddClient(s) PROVE NoSilentHang'
    BY <2>3 DEF AddClient
  <2>4. ASSUME NEW s \in Sessions, TestDone(s) PROVE NoSilentHang'
    BY <2>4 DEF TestDone, DoneFirst
  <2>5. ASSUME NEW s \in Sessions, SocketGone(s) PROVE NoSilentHang'
    BY <2>5 DEF SocketGone
  <2>6. ASSUME NEW s \in Sessions, ViewerPoll(s) PROVE NoSilentHang'
    BY <2>6 DEF ViewerPoll
  <2>7. ASSUME NEW s \in Sessions, WriterInput(s) PROVE NoSilentHang'
    BY <2>7 DEF WriterInput
  <2>8. ASSUME NEW s \in Sessions, WriteInput(s) PROVE NoSilentHang'
    BY <2>8 DEF WriteInput
  <2>9. ASSUME NEW s \in Sessions, RemoveClient(s) PROVE NoSilentHang'
    BY <2>9 DEF RemoveClient
  <2>10. ASSUME NEW s \in Sessions, ArmAfterLast(s) PROVE NoSilentHang'
    BY <2>10 DEF ArmAfterLast
  <2>11. ASSUME NEW s \in Sessions, PeerGoes(s) PROVE NoSilentHang'
    BY <2>11 DEF PeerGoes
  <2>12. CASE ReaderTest
    BY <2>12 DEF ReaderTest
  <2>13. CASE ReaderEnter
    BY <2>13 DEF ReaderEnter
  <2>14. CASE ReadData
    BY <2>14 DEF ReadData
  <2>15. CASE ReadEnd
    BY <2>15 DEF ReadEnd
  <2>16. CASE TakeLock
    BY <2>16 DEF TakeLock
  <2>17. ASSUME NEW c \in Sessions, SendOutput(c) PROVE NoSilentHang'
    BY <2>17 DEF SendOutput
  <2>18. ASSUME NEW c \in Sessions, SendNotice(c) PROVE NoSilentHang'
    BY <2>18 DEF SendNotice
  <2>19. CASE BroadcastEnds
    BY <2>19 DEF BroadcastEnds
  <2>20. CASE ClearClients
    BY <2>20 DEF ClearClients, NoticePending
  <2>21. CASE ReaderClose
    BY <2>21 DEF ReaderClose
  <2>22. CASE ArmThread
    BY <2>22 DEF ArmThread
  <2>23. ASSUME NEW t \in Timers, TimerFires(t) PROVE NoSilentHang'
    BY <2>23 DEF TimerFires
  <2>24. ASSUME NEW t \in Timers, Teardown(t) PROVE NoSilentHang'
    BY <2>24 DEF Teardown
  <2>25. ASSUME NEW t \in Timers, TimerSetsDone(t) PROVE NoSilentHang'
    BY <2>25 DEF TimerSetsDone
  <2>26. ASSUME NEW t \in Timers, TimerCloses(t) PROVE NoSilentHang'
    BY <2>26 DEF TimerCloses
  <2>27. CASE ListenerFinds
    BY <2>27 DEF ListenerFinds
  <2>28. CASE ListenerSetsDone
    BY <2>28 DEF ListenerSetsDone
  <2>29. CASE ListenerCloses
    BY <2>29 DEF ListenerCloses
  <2>30. CASE NumberReused
    BY <2>30 DEF NumberReused
  <2>31. CASE OtherCloses
    BY <2>31 DEF OtherCloses
  <2>32. CASE UNCHANGED vars
    BY <2>32
  <2>. QED
    BY <2>1, <2>2, <2>3, <2>4, <2>5, <2>6, <2>7, <2>8, <2>9, <2>10, <2>11,
       <2>12, <2>13, <2>14, <2>15, <2>16, <2>17, <2>18, <2>19, <2>20, <2>21,
       <2>22, <2>23, <2>24, <2>25, <2>26, <2>27, <2>28, <2>29, <2>30, <2>31,
       <2>32 DEF Next, SessionStep, ReaderStep, TimerStep, ListenerStep
<1>. QED
  BY <1>1, <1>2, TypeCorrect, DoneComesFirst, NoticeInvariant, PTL DEF Spec

-----------------------------------------------------------------------------
\* Until a teardown has been decided at most one grace timer counts, and it is
\* the recorded one.
THEOREM OneGraceTimerAlways == Spec => []OneGraceTimer
<1>1. Init => OneGraceTimer
  BY DEF Init, OneGraceTimer
<1>2. TypeOK /\ OneGraceTimer /\ [Next]_vars => OneGraceTimer'
  <2>. SUFFICES ASSUME TypeOK, OneGraceTimer, [Next]_vars PROVE OneGraceTimer'
    OBVIOUS
  <2>. USE DEF TypeOK, OneGraceTimer, vars, hubVars, readerVars, timerVars
  <2>1. ASSUME NEW s \in Sessions, ObtainHub(s) PROVE OneGraceTimer'
    BY <2>1 DEF ObtainHub
  <2>2. ASSUME NEW s \in Sessions, AttachFails(s) PROVE OneGraceTimer'
    BY <2>2 DEF AttachFails
  <2>3. ASSUME NEW s \in Sessions, AddClient(s) PROVE OneGraceTimer'
    BY <2>3, CancelledEffect DEF AddClient
  <2>4. ASSUME NEW s \in Sessions, TestDone(s) PROVE OneGraceTimer'
    BY <2>4 DEF TestDone
  <2>5. ASSUME NEW s \in Sessions, SocketGone(s) PROVE OneGraceTimer'
    BY <2>5 DEF SocketGone
  <2>6. ASSUME NEW s \in Sessions, ViewerPoll(s) PROVE OneGraceTimer'
    BY <2>6 DEF ViewerPoll
  <2>7. ASSUME NEW s \in Sessions, WriterInput(s) PROVE OneGraceTimer'
    BY <2>7 DEF WriterInput
  <2>8. ASSUME NEW s \in Sessions, WriteInput(s) PROVE OneGraceTimer'
    BY <2>8 DEF WriteInput
  <2>9. ASSUME NEW s \in Sessions, RemoveClient(s) PROVE OneGraceTimer'
    BY <2>9 DEF RemoveClient
  <2>10. ASSUME NEW s \in Sessions, ArmAfterLast(s) PROVE OneGraceTimer'
    BY <2>10, ArmGraceEffect DEF ArmAfterLast
  <2>11. ASSUME NEW s \in Sessions, PeerGoes(s) PROVE OneGraceTimer'
    BY <2>11 DEF PeerGoes
  <2>12. CASE ReaderTest
    BY <2>12 DEF ReaderTest
  <2>13. CASE ReaderEnter
    BY <2>13 DEF ReaderEnter
  <2>14. CASE ReadData
    BY <2>14 DEF ReadData
  <2>15. CASE ReadEnd
    BY <2>15 DEF ReadEnd
  <2>16. CASE TakeLock
    BY <2>16 DEF TakeLock
  <2>17. ASSUME NEW c \in Sessions, SendOutput(c) PROVE OneGraceTimer'
    BY <2>17 DEF SendOutput
  <2>18. ASSUME NEW c \in Sessions, SendNotice(c) PROVE OneGraceTimer'
    BY <2>18 DEF SendNotice
  <2>19. CASE BroadcastEnds
    BY <2>19 DEF BroadcastEnds
  <2>20. CASE ClearClients
    BY <2>20 DEF ClearClients
  <2>21. CASE ReaderClose
    BY <2>21 DEF ReaderClose
  <2>22. CASE ArmThread
    BY <2>22, ArmGraceEffect DEF ArmThread
  <2>23. ASSUME NEW t \in Timers, TimerFires(t) PROVE OneGraceTimer'
    BY <2>23 DEF TimerFires
  <2>24. ASSUME NEW t \in Timers, Teardown(t) PROVE OneGraceTimer'
    BY <2>24 DEF Teardown
  <2>25. ASSUME NEW t \in Timers, TimerSetsDone(t) PROVE OneGraceTimer'
    BY <2>25 DEF TimerSetsDone
  <2>26. ASSUME NEW t \in Timers, TimerCloses(t) PROVE OneGraceTimer'
    BY <2>26 DEF TimerCloses
  <2>27. CASE ListenerFinds
    BY <2>27 DEF ListenerFinds
  <2>28. CASE ListenerSetsDone
    BY <2>28 DEF ListenerSetsDone
  <2>29. CASE ListenerCloses
    BY <2>29 DEF ListenerCloses
  <2>30. CASE NumberReused
    BY <2>30 DEF NumberReused
  <2>31. CASE OtherCloses
    BY <2>31 DEF OtherCloses
  <2>32. CASE UNCHANGED vars
    BY <2>32
  <2>. QED
    BY <2>1, <2>2, <2>3, <2>4, <2>5, <2>6, <2>7, <2>8, <2>9, <2>10, <2>11,
       <2>12, <2>13, <2>14, <2>15, <2>16, <2>17, <2>18, <2>19, <2>20, <2>21,
       <2>22, <2>23, <2>24, <2>25, <2>26, <2>27, <2>28, <2>29, <2>30, <2>31,
       <2>32 DEF Next, SessionStep, ReaderStep, TimerStep, ListenerStep
<1>. QED
  BY <1>1, <1>2, TypeCorrect, PTL DEF Spec
-----------------------------------------------------------------------------
\* That a grace period is over is decided only while every user on the console
\* is one who is gone or whom the reader has told of its end.
THEOREM GraceSparesUsersAlways == Spec => GraceSparesUsers
<1>. DEFINE Expires(t) == timers[t] # "expired" /\ timers'[t] = "expired"
            Spared == \A s \in Sessions : InConsole(s) => peer[s] = "gone" \/ Notified
            Spares == \A t \in Timers : Expires(t) => Spared
<1>1. TypeOK /\ AttachedIsServed /\ [Next]_vars => [Spares]_vars
  <2>. SUFFICES ASSUME TypeOK, AttachedIsServed, [Next]_vars,
                       NEW t \in Timers, Expires(t)
                PROVE  Spared
    OBVIOUS
  <2>1. ASSUME NEW s \in Sessions PROVE ~ SessionStep(s)
    <3>1. SessionStep(s) => timers' = timers \/ AddClient(s) \/ ArmAfterLast(s)
      BY DEF SessionStep, ObtainHub, AttachFails, TestDone, SocketGone,
             ViewerPoll, WriterInput, WriteInput, RemoveClient, PeerGoes,
             timerVars
    <3>2. AddClient(s) => (timers'[t] \in {timers[t], "idle"})
      BY CancelledEffect DEF TypeOK, AddClient
    <3>3. ArmAfterLast(s) => ~ Expires(t)
      BY ArmGraceEffect DEF ArmAfterLast
    <3>. QED
      BY <3>1, <3>2, <3>3
  <2>2. ReaderStep => timers' = timers
    BY DEF ReaderStep, ReaderTest, ReaderEnter, ReadData, ReadEnd, TakeLock,
           SendOutput, SendNotice, BroadcastEnds, ClearClients, ReaderClose,
           timerVars
  <2>3. ~ ArmThread
    BY ArmGraceEffect DEF ArmThread
  <2>4. ListenerStep \/ NumberReused \/ OtherCloses \/ UNCHANGED vars
          => timers' = timers
    BY DEF ListenerStep, ListenerFinds, ListenerSetsDone, ListenerCloses,
           NumberReused, OtherCloses, vars, timerVars
  <2>5. PICK u \in Timers : TimerStep(u)
    BY <2>1, <2>2, <2>3, <2>4 DEF Next
  <2>6. Teardown(u) /\ clients = {}
    BY <2>5 DEF TypeOK, TimerStep, TimerFires, Teardown, TimerSetsDone,
                TimerCloses
  <2>. QED
    BY <2>6 DEF AttachedIsServed
<1>. QED
  BY <1>1, TypeCorrect, AttachedIsServedAlways, PTL DEF Spec, GraceSparesUsers

-----------------------------------------------------------------------------
\* The hub implements HubObject: every step of a thread is a join, a leave, the
\* end, a dissolution after the end, or changes nothing the callers can see.
THEOREM HubObjectImplemented == Spec => ImplementsHubObject
<1>1. Init => Object!Init
  BY DEF Init, Object!Init
<1>2. TypeOK /\ DoneFirst /\ [Next]_vars => [Object!Next]_<<done, clients>>
  <2>. SUFFICES ASSUME TypeOK, DoneFirst, [Next]_vars
                PROVE  [Object!Next]_<<done, clients>>
    OBVIOUS
  <2>. USE DEF Object!Next, Object!Join, Object!Leave, Object!End,
       Object!Dissolve, TypeOK, vars, hubVars, readerVars, timerVars, ArmGrace
  <2>1. ASSUME NEW s \in Sessions, ObtainHub(s) PROVE [Object!Next]_<<done, clients>>
    BY <2>1 DEF ObtainHub
  <2>2. ASSUME NEW s \in Sessions, AttachFails(s) PROVE [Object!Next]_<<done, clients>>
    BY <2>2 DEF AttachFails
  <2>3. ASSUME NEW s \in Sessions, AddClient(s) PROVE [Object!Next]_<<done, clients>>
    BY <2>3 DEF AddClient
  <2>4. ASSUME NEW s \in Sessions, TestDone(s) PROVE [Object!Next]_<<done, clients>>
    BY <2>4 DEF TestDone
  <2>5. ASSUME NEW s \in Sessions, SocketGone(s) PROVE [Object!Next]_<<done, clients>>
    BY <2>5 DEF SocketGone
  <2>6. ASSUME NEW s \in Sessions, ViewerPoll(s) PROVE [Object!Next]_<<done, clients>>
    BY <2>6 DEF ViewerPoll
  <2>7. ASSUME NEW s \in Sessions, WriterInput(s) PROVE [Object!Next]_<<done, clients>>
    BY <2>7 DEF WriterInput
  <2>8. ASSUME NEW s \in Sessions, WriteInput(s) PROVE [Object!Next]_<<done, clients>>
    BY <2>8 DEF WriteInput
  <2>9. ASSUME NEW s \in Sessions, RemoveClient(s) PROVE [Object!Next]_<<done, clients>>
    BY <2>9 DEF RemoveClient
  <2>10. ASSUME NEW s \in Sessions, ArmAfterLast(s) PROVE [Object!Next]_<<done, clients>>
    BY <2>10 DEF ArmAfterLast
  <2>11. ASSUME NEW s \in Sessions, PeerGoes(s) PROVE [Object!Next]_<<done, clients>>
    BY <2>11 DEF PeerGoes
  <2>12. CASE ReaderTest
    BY <2>12 DEF ReaderTest
  <2>13. CASE ReaderEnter
    BY <2>13 DEF ReaderEnter
  <2>14. CASE ReadData
    BY <2>14 DEF ReadData
  <2>15. CASE ReadEnd
    BY <2>15 DEF ReadEnd
  <2>16. CASE TakeLock
    BY <2>16 DEF TakeLock
  <2>17. ASSUME NEW c \in Sessions, SendOutput(c) PROVE [Object!Next]_<<done, clients>>
    BY <2>17 DEF SendOutput
  <2>18. ASSUME NEW c \in Sessions, SendNotice(c) PROVE [Object!Next]_<<done, clients>>
    BY <2>18 DEF SendNotice
  <2>19. CASE BroadcastEnds
    BY <2>19 DEF BroadcastEnds
  <2>20. CASE ClearClients
    BY <2>20 DEF ClearClients, DoneFirst
  <2>21. CASE ReaderClose
    BY <2>21 DEF ReaderClose
  <2>22. CASE ArmThread
    BY <2>22 DEF ArmThread
  <2>23. ASSUME NEW t \in Timers, TimerFires(t) PROVE [Object!Next]_<<done, clients>>
    BY <2>23 DEF TimerFires
  <2>24. ASSUME NEW t \in Timers, Teardown(t) PROVE [Object!Next]_<<done, clients>>
    BY <2>24 DEF Teardown
  <2>25. ASSUME NEW t \in Timers, TimerSetsDone(t) PROVE [Object!Next]_<<done, clients>>
    BY <2>25 DEF TimerSetsDone
  <2>26. ASSUME NEW t \in Timers, TimerCloses(t) PROVE [Object!Next]_<<done, clients>>
    BY <2>26 DEF TimerCloses
  <2>27. CASE ListenerFinds
    BY <2>27 DEF ListenerFinds
  <2>28. CASE ListenerSetsDone
    BY <2>28 DEF ListenerSetsDone
  <2>29. CASE ListenerCloses
    BY <2>29 DEF ListenerCloses
  <2>30. CASE NumberReused
    BY <2>30 DEF NumberReused
  <2>31. CASE OtherCloses
    BY <2>31 DEF OtherCloses
  <2>32. CASE UNCHANGED vars
    BY <2>32
  <2>. QED
    BY <2>1, <2>2, <2>3, <2>4, <2>5, <2>6, <2>7, <2>8, <2>9, <2>10, <2>11,
       <2>12, <2>13, <2>14, <2>15, <2>16, <2>17, <2>18, <2>19, <2>20, <2>21,
       <2>22, <2>23, <2>24, <2>25, <2>26, <2>27, <2>28, <2>29, <2>30, <2>31,
       <2>32 DEF Next, SessionStep, ReaderStep, TimerStep, ListenerStep
<1>. QED
  BY <1>1, <1>2, TypeCorrect, DoneComesFirst, PTL
     DEF Spec, ImplementsHubObject, Object!Spec
=============================================================================
