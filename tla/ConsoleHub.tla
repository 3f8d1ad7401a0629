----------------------------- MODULE ConsoleHub -----------------------------
(***************************************************************************)
(* One ConsoleHub object of the worker (server/src/vnctlsd/hub.py) and the *)
(* threads that meet in it:                                                *)
(*                                                                         *)
(*   reader     the hub's own thread, _reader                              *)
(*   sessions   one thread per connected user, in run_console_session      *)
(*   timers     threading.Timer threads started by _arm_grace              *)
(*   arms       threads the reader spawns to call _arm_grace               *)
(*   listener   the push-listener thread, which calls shutdown when the    *)
(*              console's socket disappears                                *)
(*                                                                         *)
(* A critical section under _lock that cannot block is one step.  The two  *)
(* sections of the reader that call the blocking sendall are split into a  *)
(* step per client, with the lock held in between (LockFree).  What        *)
(* happens outside the lock is a step per access: the test of _done, the   *)
(* entry and the return of os.read, os.write, _done.set and os.close.      *)
(*                                                                         *)
(* The descriptor is a number, as the kernel sees it: "own" while it names *)
(* this hub's console, "free" once closed, "other" when the kernel gave    *)
(* the freed number to some other file the worker opened since.            *)
(***************************************************************************)
EXTENDS Naturals

CONSTANTS
    Writers,    \* sessions whose access level for this console is read_write
    Viewers,    \* sessions whose access level for this console is read_only
    Timers,     \* identities of timer threads (a bound on how many exist at one
                \* time); the identity of a thread that ended is used again
    NoTimer,    \* the None of _grace_timer
    HasSocket,  \* the console is a watched socket, not a spawned command
    MaxArms     \* bound: _arm_grace threads of the reader waiting at one time

Sessions == Writers \cup Viewers

ASSUME HubAssumption ==
    /\ Writers \cap Viewers = {}
    /\ NoTimer \notin Timers
    /\ HasSocket \in BOOLEAN
    /\ MaxArms \in Nat

VARIABLES
    clients,      \* the keys of _clients
    grace_timer,  \* _grace_timer
    done,         \* _done
    reader,       \* where the reader thread is
    tosend,       \* clients the reader's loop has not sent to yet
    timers,       \* where each timer thread is
    arms,         \* threads spawned by the reader that have not run _arm_grace
    listener,     \* where the push listener is in tearing this hub down
    session,      \* where each session thread is
    peer,         \* the client's side of each session's socket
    told,         \* sessions that received "Console terminated"
    fd            \* what self.fd names

hubVars == <<clients, grace_timer, done>>
readerVars == <<reader, tosend, told>>
timerVars == <<timers, arms>>
vars == <<hubVars, readerVars, timerVars, listener, session, peer, fd>>

ReaderStates == {"check", "enter", "reading", "deliver", "sending", "ending",
                 "notifying", "closing", "exited"}
TimerStates == {"idle", "counting", "fired", "expired", "closing"}
ListenerStates == {"idle", "found", "closing"}
SessionStates == {"away", "holding", "attached", "blocked", "writing",
                  "leaving", "arming"}

TypeOK ==
    /\ clients \in SUBSET Sessions
    /\ grace_timer \in Timers \cup {NoTimer}
    /\ done \in BOOLEAN
    /\ reader \in ReaderStates
    /\ tosend \in SUBSET Sessions
    /\ timers \in [Timers -> TimerStates]
    /\ arms \in 0..MaxArms
    /\ listener \in ListenerStates
    /\ session \in [Sessions -> SessionStates]
    /\ peer \in [Sessions -> {"up", "gone"}]
    /\ told \in SUBSET Sessions
    /\ fd \in {"own", "free", "other"}

Init ==
    /\ clients = {}
    /\ grace_timer = NoTimer
    /\ done = FALSE
    /\ reader = "check"
    /\ tosend = {}
    /\ timers = [t \in Timers |-> "idle"]
    /\ arms = 0
    /\ listener = "idle"
    /\ session = [s \in Sessions |-> "away"]
    /\ peer = [s \in Sessions |-> "up"]
    /\ told = {}
    /\ fd = "own"

-----------------------------------------------------------------------------
(* The lock, the timers and the descriptor.                                *)

LockFree == reader \notin {"sending", "notifying"}

\* Mutant of Cancelled: the old timer is forgotten without being cancelled.
CancelForgotten(ts, t) == ts

\* Timer.cancel: stops a timer that is still counting, and no other.
Cancelled(ts, t) ==
    IF t \in Timers /\ ts[t] = "counting" THEN [ts EXCEPT ![t] = "idle"] ELSE ts

\* A thread identity the next Timer can take.
Startable(t) == timers[t] = "idle" /\ t # grace_timer

\* _arm_grace, under the lock: cancel the old timer, start and record a new one.
ArmGrace ==
    /\ LockFree
    /\ \E t \in Timers :
         /\ Startable(t)
         /\ timers' = [Cancelled(timers, grace_timer) EXCEPT ![t] = "counting"]
         /\ grace_timer' = t

\* os.close(self.fd): closes whatever the number names; EBADF is ignored.
CloseFd == fd' = "free"

-----------------------------------------------------------------------------
(* Session threads: run_console_session.                                   *)

\* HubRegistry.get or get_or_create gave the session this hub, not yet done.
ObtainHub(s) ==
    /\ session[s] = "away"
    /\ ~done
    /\ session' = [session EXCEPT ![s] = "holding"]
    /\ UNCHANGED <<hubVars, readerVars, timerVars, listener, peer, fd>>

\* Sending the "[Attached to ...]" line raised (the client is gone, or did not
\* drain its socket for idle_timeout): the session ends without attaching.
AttachFails(s) ==
    /\ session[s] = "holding"
    /\ session' = [session EXCEPT ![s] = "away"]
    /\ peer' = [peer EXCEPT ![s] = "gone"]
    /\ UNCHANGED <<hubVars, readerVars, timerVars, listener, fd>>

\* Mutant of AddClient: the session goes to recv without testing is_done.
AddClientThenRecv(s) ==
    /\ session[s] = "holding"
    /\ LockFree
    /\ timers' = Cancelled(timers, grace_timer)
    /\ grace_timer' = NoTimer
    /\ clients' = clients \cup {s}
    /\ session' = [session EXCEPT ![s] = "blocked"]
    /\ UNCHANGED <<done, readerVars, arms, listener, peer, fd>>

\* add_client: a counting grace timer is cancelled and forgotten.
AddClient(s) ==
    /\ session[s] = "holding"
    /\ LockFree
    /\ timers' = Cancelled(timers, grace_timer)
    /\ grace_timer' = NoTimer
    /\ clients' = clients \cup {s}
    /\ session' = [session EXCEPT ![s] = "attached"]
    /\ UNCHANGED <<done, readerVars, arms, listener, peer, fd>>

\* Mutant of TestDone: the loop never looks at is_done again.
TestNothing(s) ==
    /\ session[s] = "attached"
    /\ session' = [session EXCEPT ![s] = "blocked"]
    /\ UNCHANGED <<hubVars, readerVars, timerVars, listener, peer, fd>>

\* while not hub.is_done: go to recv (writer) or select (viewer), or leave.
TestDone(s) ==
    /\ session[s] = "attached"
    /\ session' = [session EXCEPT ![s] = IF done THEN "leaving" ELSE "blocked"]
    /\ UNCHANGED <<hubVars, readerVars, timerVars, listener, peer, fd>>

\* recv returned nothing or raised: the client's side is gone.
SocketGone(s) ==
    /\ session[s] = "blocked"
    /\ peer[s] = "gone"
    /\ session' = [session EXCEPT ![s] = "leaving"]
    /\ UNCHANGED <<hubVars, readerVars, timerVars, listener, peer, fd>>

\* A viewer's select timed out after 1.0 s, or returned input to discard.
ViewerPoll(s) ==
    /\ s \in Viewers
    /\ session[s] = "blocked"
    /\ session' = [session EXCEPT ![s] = "attached"]
    /\ UNCHANGED <<hubVars, readerVars, timerVars, listener, peer, fd>>

\* A writer typed: keystrokes to pass on, nothing to pass on, or a bare "~.".
WriterInput(s) ==
    /\ s \in Writers
    /\ session[s] = "blocked"
    /\ \E next \in {"writing", "attached", "leaving"} :
         session' = [session EXCEPT ![s] = next]
    /\ UNCHANGED <<hubVars, readerVars, timerVars, listener, peer, fd>>

\* write_input: OSError (always so on a closed number) sets _done.  A chunk
\* that ended in "~." goes on to remove_client, any other back to the loop.
WriteInput(s) ==
    /\ session[s] = "writing"
    /\ \E failed \in BOOLEAN :
         /\ fd = "free" => failed
         /\ done' = (done \/ failed)
    /\ \E next \in {"attached", "leaving"} :
         session' = [session EXCEPT ![s] = next]
    /\ UNCHANGED <<clients, grace_timer, readerVars, timerVars, listener,
                   peer, fd>>

\* Mutant of RemoveClient: the last client to leave arms no grace timer.
RemoveClientOnly(s) ==
    /\ session[s] = "leaving"
    /\ LockFree
    /\ clients' = clients \ {s}
    /\ session' = [session EXCEPT ![s] = "away"]
    /\ UNCHANGED <<grace_timer, done, readerVars, timerVars, listener, peer, fd>>

\* remove_client up to the end of its critical section.
RemoveClient(s) ==
    /\ session[s] = "leaving"
    /\ LockFree
    /\ clients' = clients \ {s}
    /\ session' = [session EXCEPT ![s] =
                      IF clients \ {s} = {} THEN "arming" ELSE "away"]
    /\ UNCHANGED <<grace_timer, done, readerVars, timerVars, listener, peer, fd>>

\* remove_client, remaining == 0: _arm_grace, in a critical section of its own.
ArmAfterLast(s) ==
    /\ session[s] = "arming"
    /\ ArmGrace
    /\ session' = [session EXCEPT ![s] = "away"]
    /\ UNCHANGED <<clients, done, readerVars, arms, listener, peer, fd>>

\* The user disconnects, or kill_stale shuts the socket down.
PeerGoes(s) ==
    /\ peer[s] = "up"
    /\ peer' = [peer EXCEPT ![s] = "gone"]
    /\ UNCHANGED <<hubVars, readerVars, timerVars, listener, session, fd>>

SessionStep(s) ==
    \/ ObtainHub(s)
    \/ AttachFails(s)
    \/ AddClient(s)
    \/ TestDone(s)
    \/ SocketGone(s)
    \/ ViewerPoll(s)
    \/ WriterInput(s)
    \/ WriteInput(s)
    \/ RemoveClient(s)
    \/ ArmAfterLast(s)
    \/ PeerGoes(s)

-----------------------------------------------------------------------------
(* The reader thread: _reader.                                             *)

ReaderTest ==
    /\ reader = "check"
    /\ reader' = IF done THEN "ending" ELSE "enter"
    /\ UNCHANGED <<hubVars, tosend, told, timerVars, listener, session,
                   peer, fd>>

\* os.read(self.fd, ...) enters the kernel, which takes a reference to the
\* file the number names now; a closed number raises OSError.
ReaderEnter ==
    /\ reader = "enter"
    /\ IF fd = "free"
       THEN /\ done' = TRUE
            /\ reader' = "ending"
       ELSE /\ reader' = "reading"
            /\ UNCHANGED done
    /\ UNCHANGED <<clients, grace_timer, tosend, told, timerVars, listener,
                   session, peer, fd>>

\* The console produced output.  A close of the number does not wake a read
\* that is already in the kernel: it returns when the file has something.
ReadData ==
    /\ reader = "reading"
    /\ reader' = "deliver"
    /\ UNCHANGED <<hubVars, tosend, told, timerVars, listener, session,
                   peer, fd>>

\* Mutant of ReadEnd: the loop is left at end of file without setting _done.
ReadEndQuietly ==
    /\ reader = "reading"
    /\ reader' = "ending"
    /\ UNCHANGED <<hubVars, tosend, told, timerVars, listener, session, peer, fd>>

\* End of file or an error on the file being read.
ReadEnd ==
    /\ reader = "reading"
    /\ done' = TRUE
    /\ reader' = "ending"
    /\ UNCHANGED <<clients, grace_timer, tosend, told, timerVars,
                   listener, session, peer, fd>>

\* with self._lock, before the loop over the clients.
TakeLock ==
    /\ reader \in {"deliver", "ending"}
    /\ reader' = IF reader = "deliver" THEN "sending" ELSE "notifying"
    /\ tosend' = clients
    /\ UNCHANGED <<hubVars, told, timerVars, listener, session, peer, fd>>

\* Mutant of SendOutput: a client slow to take output is dropped like a dead one.
SendOutputOrDrop(c) ==
    /\ reader = "sending"
    /\ c \in tosend
    /\ tosend' = tosend \ {c}
    /\ \/ UNCHANGED clients
       \/ clients' = clients \ {c}
    /\ UNCHANGED <<grace_timer, done, reader, told, timerVars, listener, session,
                   peer, fd>>

\* sendall of output to one client.  A client whose send raises is deleted;
\* the list of the dead is private to the reader until it unlocks.
SendOutput(c) ==
    /\ reader = "sending"
    /\ c \in tosend
    /\ tosend' = tosend \ {c}
    /\ \/ UNCHANGED clients
       \/ peer[c] = "gone" /\ clients' = clients \ {c}
    /\ UNCHANGED <<grace_timer, done, reader, told, timerVars, listener,
                   session, peer, fd>>

\* End of the broadcast: with no client left a thread is spawned to arm.
BroadcastEnds ==
    /\ reader = "sending"
    /\ tosend = {}
    /\ reader' = "check"
    /\ IF clients = {}
       THEN arms < MaxArms /\ arms' = arms + 1
       ELSE UNCHANGED arms
    /\ UNCHANGED <<hubVars, tosend, told, timers, listener, session,
                   peer, fd>>

\* sendall of "Console terminated" to one client; a failure is ignored.
SendNotice(c) ==
    /\ reader = "notifying"
    /\ c \in tosend
    /\ tosend' = tosend \ {c}
    /\ \/ told' = told \cup {c}
       \/ peer[c] = "gone" /\ UNCHANGED told
    /\ UNCHANGED <<hubVars, reader, timerVars, listener, session, peer, fd>>

\* _clients.clear() and the end of the last critical section.
ClearClients ==
    /\ reader = "notifying"
    /\ tosend = {}
    /\ clients' = {}
    /\ reader' = "closing"
    /\ UNCHANGED <<grace_timer, done, tosend, told, timerVars, listener,
                   session, peer, fd>>

ReaderClose ==
    /\ reader = "closing"
    /\ CloseFd
    /\ reader' = "exited"
    /\ UNCHANGED <<hubVars, tosend, told, timerVars, listener, session,
                   peer>>

ReaderStep ==
    \/ ReaderTest
    \/ ReaderEnter
    \/ ReadData
    \/ ReadEnd
    \/ TakeLock
    \/ \E c \in Sessions : SendOutput(c) \/ SendNotice(c)
    \/ BroadcastEnds
    \/ ClearClients
    \/ ReaderClose

\* Mutant of ArmThread: an arming thread runs that nobody spawned.
ArmThreadUnasked ==
    /\ arms' = arms - 1
    /\ ArmGrace
    /\ UNCHANGED <<clients, done, readerVars, listener, session, peer, fd>>

\* A thread spawned by the reader runs _arm_grace.
ArmThread ==
    /\ arms > 0
    /\ arms' = arms - 1
    /\ ArmGrace
    /\ UNCHANGED <<clients, done, readerVars, listener, session, peer, fd>>

-----------------------------------------------------------------------------
(* Timer threads: _teardown.                                               *)

\* The grace period passed; from here cancel() comes too late.
TimerFires(t) ==
    /\ timers[t] = "counting"
    /\ timers' = [timers EXCEPT ![t] = "fired"]
    /\ UNCHANGED <<hubVars, readerVars, arms, listener, session, peer, fd>>

\* Mutant of Teardown: a client who came after the timer fired is not looked for.
TeardownAnyway(t) ==
    /\ timers[t] = "fired"
    /\ LockFree
    /\ timers' = [timers EXCEPT ![t] = "expired"]
    /\ grace_timer' = NoTimer
    /\ UNCHANGED <<clients, done, readerVars, arms, listener, session, peer, fd>>

\* _teardown under the lock; shutdown follows after the lock is released.
Teardown(t) ==
    /\ timers[t] = "fired"
    /\ LockFree
    /\ IF clients # {}
       THEN /\ timers' = [timers EXCEPT ![t] = "idle"]
            /\ UNCHANGED grace_timer
       ELSE /\ timers' = [timers EXCEPT ![t] = "expired"]
            /\ grace_timer' = NoTimer
    /\ UNCHANGED <<clients, done, readerVars, arms, listener, session, peer, fd>>

\* Mutant of TimerSetsDone: shutdown closes first and sets _done afterwards.
TimerClosesEarly(t) ==
    /\ timers[t] = "expired"
    /\ CloseFd
    /\ timers' = [timers EXCEPT ![t] = "closing"]
    /\ UNCHANGED <<hubVars, readerVars, arms, listener, session, peer>>

\* shutdown: _done.set() ...
TimerSetsDone(t) ==
    /\ timers[t] = "expired"
    /\ done' = TRUE
    /\ timers' = [timers EXCEPT ![t] = "closing"]
    /\ UNCHANGED <<clients, grace_timer, readerVars, arms, listener, session,
                   peer, fd>>

\* ... then os.close(self.fd).
TimerCloses(t) ==
    /\ timers[t] = "closing"
    /\ CloseFd
    /\ timers' = [timers EXCEPT ![t] = "idle"]
    /\ UNCHANGED <<hubVars, readerVars, arms, listener, session, peer>>

TimerStep(t) ==
    \/ TimerFires(t)
    \/ Teardown(t)
    \/ TimerSetsDone(t)
    \/ TimerCloses(t)

-----------------------------------------------------------------------------
(* The push listener, on SOCKET_DISAPPEARED for this console.              *)

\* hub_registry.get(name) returned this hub, not yet done.
ListenerFinds ==
    /\ HasSocket
    /\ listener = "idle"
    /\ ~done
    /\ listener' = "found"
    /\ UNCHANGED <<hubVars, readerVars, timerVars, session, peer, fd>>

ListenerSetsDone ==
    /\ listener = "found"
    /\ done' = TRUE
    /\ listener' = "closing"
    /\ UNCHANGED <<clients, grace_timer, readerVars, timerVars, session, peer, fd>>

ListenerCloses ==
    /\ listener = "closing"
    /\ CloseFd
    /\ listener' = "idle"
    /\ UNCHANGED <<hubVars, readerVars, timerVars, session, peer>>

ListenerStep == ListenerFinds \/ ListenerSetsDone \/ ListenerCloses

-----------------------------------------------------------------------------
(* The rest of the worker and the kernel: another thread's accept, connect *)
(* or received descriptor takes the lowest free number, and closes it.     *)

NumberReused ==
    /\ fd = "free"
    /\ fd' = "other"
    /\ UNCHANGED <<hubVars, readerVars, timerVars, listener, session, peer>>

OtherCloses ==
    /\ fd = "other"
    /\ fd' = "free"
    /\ UNCHANGED <<hubVars, readerVars, timerVars, listener, session, peer>>

-----------------------------------------------------------------------------
Next ==
    \/ \E s \in Sessions : SessionStep(s)
    \/ ReaderStep
    \/ ArmThread
    \/ \E t \in Timers : TimerStep(t)
    \/ ListenerStep
    \/ NumberReused
    \/ OtherCloses

Spec == Init /\ [][Next]_vars

(***************************************************************************)
(* Fairness: a runnable thread eventually runs and select times out.      *)
(* Not fair, because nobody owes them: what the console does (ReadData,    *)
(* ReadEnd, WriteInput, which may block on a console that takes no input), *)
(* what users do (ObtainHub, WriterInput, PeerGoes), a client draining its *)
(* socket (SendOutput, SendNotice), and the rest of the worker             *)
(* (ListenerFinds, NumberReused, OtherCloses).  The steps that need _lock  *)
(* are strongly fair: a thread waiting for it is not passed over forever.  *)
(***************************************************************************)
Fairness ==
    /\ \A s \in Sessions :
         /\ WF_vars(TestDone(s))
         /\ WF_vars(SocketGone(s))
         /\ WF_vars(ViewerPoll(s))
         /\ SF_vars(AddClient(s))
         /\ SF_vars(RemoveClient(s))
         /\ SF_vars(ArmAfterLast(s))
    /\ WF_vars(ReaderTest)
    /\ WF_vars(ReaderEnter)
    /\ WF_vars(TakeLock)
    /\ WF_vars(BroadcastEnds)
    /\ WF_vars(ClearClients)
    /\ WF_vars(ReaderClose)
    /\ SF_vars(ArmThread)
    /\ \A t \in Timers :
         /\ WF_vars(TimerFires(t))
         /\ SF_vars(Teardown(t))
         /\ WF_vars(TimerSetsDone(t))
         /\ WF_vars(TimerCloses(t))
    /\ WF_vars(ListenerSetsDone)
    /\ WF_vars(ListenerCloses)

FairSpec == Spec /\ Fairness

-----------------------------------------------------------------------------
(* Safety.                                                                 *)

\* The session threads between add_client and remove_client.
InConsole(s) == session[s] \in {"attached", "blocked", "writing", "leaving"}

\* The reader has given its last notices.
Notified == reader \in {"closing", "exited"}

\* shutdown sets _done before it closes and the reader leaves its loop with
\* _done set: a hub that get() or get_or_create may still hand out (not done)
\* has its console descriptor open and its reader running.
LiveHubIsWhole ==
    ~done => fd = "own" /\ reader \notin {"ending", "notifying", "closing", "exited"}

\* A session that attached and did not detach is one the reader serves:
\* only a failed send or the end of the console takes it off _clients.
AttachedIsServed ==
    \A s \in Sessions :
        InConsole(s) => s \in clients \/ peer[s] = "gone" \/ Notified

\* add_client comes before the test of is_done, so no session waits for input
\* on a console whose reader has gone without having been told about it.
NoSilentHang ==
    \A s \in Sessions :
        session[s] = "blocked" /\ Notified => s \in told \/ peer[s] = "gone"

\* Until a teardown has been decided there is at most one grace timer counting,
\* the recorded one: the timer add_client cancels is the only one that could
\* end the console under the client it adds.
OneGraceTimer ==
    \A t \in Timers :
        timers[t] = "counting" =>
            \/ t = grace_timer
            \/ done
            \/ \E u \in Timers : timers[u] = "expired"

\* A timer that has fired is beyond cancel, and users attach meanwhile and
\* later; that a grace period is over is decided only while every user on the
\* console is one who is gone or whom the reader has told of its end.
GraceSparesUsers ==
    [][\A t \in Timers :
         timers[t] # "expired" /\ timers'[t] = "expired" =>
             \A s \in Sessions : InConsole(s) => peer[s] = "gone" \/ Notified]_vars

\* To its callers the hub is the object HubObject describes: it ends once, and
\* clients are dismissed all together only after it has ended.
Object == INSTANCE HubObject WITH
    Callers <- Sessions, ended <- done, members <- clients

ImplementsHubObject == Object!Spec

-----------------------------------------------------------------------------
(* Liveness, under FairSpec.                                               *)

AllAway == \A s \in Sessions : session[s] = "away"

\* The grace period works: a hub that had a client, has none again for good,
\* and whose console is silent (output without clients arms the timer anew)
\* is torn down.
GraceEndsHub ==
    (/\ <>(clients # {})
     /\ <>[](AllAway /\ reader = "reading")) => <>done

\* A viewer notices the end of the console within its select timeout.
ViewersNotice ==
    \A v \in Viewers : (done /\ session[v] = "blocked") ~> session[v] = "leaving"

-----------------------------------------------------------------------------
(* What the docstrings say and the code does not do.                       *)

\* hub.py:57, "close the console fd to unblock the reader thread".
CloseUnblocksReader == (done /\ fd # "own") ~> reader # "reading"

\* consoles.yaml:106, "The hub is live before any user attaches": as long as
\* nobody has attached, no grace period ends the hub of a socket console.
LiveBeforeFirstUser ==
    [](clients = {}) => [](\A t \in Timers : timers[t] # "expired")
=============================================================================
