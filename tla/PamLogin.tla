------------------------------ MODULE PamLogin ------------------------------
(***************************************************************************)
(* Logins at the PAM bridge (bridge/vnctlsd-pam-bridge): a thread for each *)
(* connection, the rate limiter they share, and its reaper.                *)
(*                                                                         *)
(* A tick of the clock is long compared with the wait for the limiter's    *)
(* lock, so that reading the clock and the section under the lock are one  *)
(* step; between a connection's check, its verification and what it        *)
(* records, any time may pass.                                             *)
(***************************************************************************)
EXTENDS Integers, Sequences, FiniteSets

CONSTANTS
    Conns, Users,
    NoUser,         \* a thread has read no name
    MaxFailures,    \* --max-failures
    Window,         \* --failure-window
    Lockout,        \* --lockout-duration
    MaxTime         \* bound: the clock

ASSUME PamAssumption ==
    /\ IsFiniteSet(Conns) /\ NoUser \notin Users
    /\ MaxFailures \in Nat \ {0}
    /\ Window \in Nat /\ Lockout \in Nat /\ MaxTime \in Nat

VARIABLES
    now,            \* time.monotonic
    stage,          \* where each connection's thread is
    name,           \* the username it has read
    known,          \* keys of _state
    failures,       \* its 'failures'
    locked_until,   \* its 'locked_until'
    failed          \* history: when each user's logins failed, since its last
                    \* successful one

loginVars == <<now, stage, name, known, failures, locked_until, failed>>
limiter == <<known, failures, locked_until, failed>>

Stages == {"closed", "asking", "checking", "verifying", "passed", "failed"}

LoginTypeOK ==
    /\ now \in 0..MaxTime
    /\ stage \in [Conns -> Stages]
    /\ name \in [Conns -> Users \cup {NoUser}]
    /\ \A c \in Conns : stage[c] \notin {"closed", "asking"} => name[c] \in Users
    /\ known \subseteq Users
    /\ failures \in [Users -> Seq(0..MaxTime)]
    /\ locked_until \in [Users -> 0..(MaxTime + Lockout)]
    /\ \A u \in Users :
         /\ Len(failures[u]) < MaxFailures
         /\ u \notin known => failures[u] = <<>> /\ locked_until[u] = 0

LoginInit ==
    /\ now = 0
    /\ stage = [c \in Conns |-> "closed"]
    /\ name = [c \in Conns |-> NoUser]
    /\ known = {}
    /\ failures = [u \in Users |-> <<>>]
    /\ locked_until = [u \in Users |-> 0]
    /\ failed = [u \in Users |-> <<>>]

-----------------------------------------------------------------------------
(* The limiter.                                                            *)

\* is_limited
Limited(u) == u \in known /\ locked_until[u] > now

\* The failures that are kept, going through them one by one.
Recent(times) ==
    LET kept[i \in 0..Len(times)] ==
            IF i = 0 THEN <<>>
            ELSE IF now - times[i] < Window THEN Append(kept[i - 1], times[i])
            ELSE kept[i - 1]
    IN kept[Len(times)]

\* Mutant of RecordFailure: old failures are not taken out.
RecordAll(u) ==
    LET all == Append(failures[u], now)
        locks == Len(all) >= MaxFailures
    IN /\ known' = known \cup {u}
       /\ failures' = [failures EXCEPT ![u] = IF locks THEN <<>> ELSE all]
       /\ locked_until' = [locked_until EXCEPT ![u] = IF locks THEN now + Lockout ELSE @]

\* Mutant of RecordFailure: one failure too many is let pass.
RecordLate(u) ==
    LET all == Append(Recent(failures[u]), now)
        locks == Len(all) > MaxFailures
    IN /\ known' = known \cup {u}
       /\ failures' = [failures EXCEPT ![u] = IF locks THEN <<>> ELSE all]
       /\ locked_until' = [locked_until EXCEPT ![u] = IF locks THEN now + Lockout ELSE @]

\* record_failure
RecordFailure(u) ==
    LET all == Append(Recent(failures[u]), now)
        locks == Len(all) >= MaxFailures
    IN /\ known' = known \cup {u}
       /\ failures' = [failures EXCEPT ![u] = IF locks THEN <<>> ELSE all]
       /\ locked_until' = [locked_until EXCEPT ![u] = IF locks THEN now + Lockout ELSE @]

\* The entries of these users go.
Forget(users) ==
    /\ known' = known \ users
    /\ failures' = [u \in Users |-> IF u \in users THEN <<>> ELSE failures[u]]
    /\ locked_until' = [u \in Users |-> IF u \in users THEN 0 ELSE locked_until[u]]

\* Mutant of Stale: whoever is not locked out is forgotten.
NotLocked == {u \in known : locked_until[u] < now}

\* Mutant of Stale: a lockout, which has taken the failures out, is not looked at.
AllOld ==
    {u \in known : \A i \in 1..Len(failures[u]) : now - failures[u][i] > Window}

Stale ==
    {u \in known :
        /\ locked_until[u] < now
        /\ \A i \in 1..Len(failures[u]) : now - failures[u][i] > Window}

\* The reaper thread.
Reap ==
    /\ Forget(Stale)
    /\ UNCHANGED <<now, stage, name, failed>>

-----------------------------------------------------------------------------
(* A connection.                                                           *)

\* A thread's locals go with it.
Goes(c, to) ==
    /\ stage' = [stage EXCEPT ![c] = to]
    /\ name' = [name EXCEPT ![c] = IF to = "closed" THEN NoUser ELSE @]

Accept(c) ==
    /\ stage[c] = "closed"
    /\ Goes(c, "asking")
    /\ UNCHANGED <<now, limiter>>

\* Username and password are read, or the connection ends or times out.
Ask(c) ==
    /\ stage[c] = "asking"
    /\ \/ /\ stage' = [stage EXCEPT ![c] = "checking"]
          /\ \E u \in Users : name' = [name EXCEPT ![c] = u]
       \/ Goes(c, "closed")
    /\ UNCHANGED <<now, limiter>>

Check(c) ==
    /\ stage[c] = "checking"
    /\ Goes(c, IF Limited(name[c]) THEN "closed" ELSE "verifying")
    /\ UNCHANGED <<now, limiter>>

\* _verify_subprocess; if it cannot fork the connection is closed.
Verify(c) ==
    /\ stage[c] = "verifying"
    /\ \E outcome \in {"passed", "failed", "closed"} : Goes(c, outcome)
    /\ UNCHANGED <<now, limiter>>

Fail(c) ==
    /\ stage[c] = "failed"
    /\ RecordFailure(name[c])
    /\ failed' = [failed EXCEPT ![name[c]] = Append(@, now)]
    /\ Goes(c, "closed")
    /\ UNCHANGED now

\* record_success; the helper takes the connection, and the thread ends.
Succeed(c) ==
    /\ stage[c] = "passed"
    /\ Forget({name[c]})
    /\ failed' = [failed EXCEPT ![name[c]] = <<>>]
    /\ Goes(c, "closed")
    /\ UNCHANGED now

Tick ==
    /\ now < MaxTime
    /\ now' = now + 1
    /\ UNCHANGED <<stage, name, limiter>>

LoginNext ==
    \/ \E c \in Conns :
         Accept(c) \/ Ask(c) \/ Check(c) \/ Verify(c) \/ Fail(c) \/ Succeed(c)
    \/ Reap
    \/ Tick

LoginSpec == LoginInit /\ [][LoginNext]_loginVars

-----------------------------------------------------------------------------
\* How often u's login failed in the time span that ended at t.
FailedWithin(u, span, t) ==
    Cardinality({i \in 1..Len(failed[u]) : t - span < failed[u][i] /\ failed[u][i] <= t})

InFlight(u) == {c \in Conns : name[c] = u /\ stage[c] \in {"verifying", "failed"}}

Span == IF Lockout < Window THEN Lockout ELSE Window

\* Between two successful logins of a user, the passwords tried for it in the
\* time of a lockout or of a failure window, the shorter of them, are no more
\* than make a lockout, and one for each other connection that had passed
\* is_limited by then, however the connections and the reaper interleave.
GuessesBounded ==
    \A u \in Users :
        FailedWithin(u, Span, now) + Cardinality(InFlight(u))
            <= MaxFailures + Cardinality(Conns) - 1

\* A user is locked out only for MaxFailures failures within one failure window,
\* that ended less than a lockout ago, with no successful login since.
LockedForCause ==
    \A u \in Users :
        Limited(u) =>
            \E t \in 0..now :
                now < t + Lockout /\ FailedWithin(u, Window, t) >= MaxFailures

\* While a lockout lasts it is not shortened or forgotten, by the reaper or by
\* failures that are recorded in the middle of it; only a login that passed,
\* whose password was let through before, takes it away.
LockoutHolds ==
    [][\A u \in Users :
        Limited(u) =>
            \/ u \in known' /\ locked_until'[u] >= locked_until[u]
            \/ \E c \in Conns :
                 name[c] = u /\ stage[c] = "passed" /\ stage'[c] = "closed"]_loginVars
=============================================================================
