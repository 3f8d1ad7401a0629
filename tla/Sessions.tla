------------------------------ MODULE Sessions ------------------------------
(***************************************************************************)
(* The connections of the worker from accept to the end of their threads,  *)
(* and what becomes of the bytes their users type: run_worker's loop,      *)
(* handle_trusted_client, run_authenticated_session, sock_readline and     *)
(* run_console_session.                                                    *)
(*                                                                         *)
(* What a user has typed is chosen when it is read, in pieces of any size. *)
(* A byte is one of those the code tells apart, or a letter; a line of one *)
(* letter stands for a command, "c" for console and "q" for quit.  Which   *)
(* console a user may have, and how its hub ends, is left open: see        *)
(* Enforcement and ConsoleHub.                                             *)
(*                                                                         *)
(* Three kinds of locks are held by others while they send to some user,   *)
(* who may not read: a thread that needs one then waits as long as he      *)
(* pleases.                                                                *)
(***************************************************************************)
EXTENDS Integers, FiniteSets, SequencesExt

CONSTANTS
    Conns,       \* connections
    Keys,        \* the bytes users type, at the prompt and on a console
    MaxTyped,    \* bound: how many bytes each user types
    MaxThreads,  \* max_threads
    MaxLine,     \* max_len of sock_readline
    MaxHeld      \* bound: locks that others hold at one time

Enter == {"cr", "lf"}
Letters == {"c", "q", "x"}
Bytes == Letters \cup Enter \cup {"bs", "etx", "~", "."}

ASSUME SessionsAssumption ==
    /\ IsFiniteSet(Conns)
    /\ Keys \in [{"prompt", "console"} -> SUBSET Bytes]
    /\ MaxTyped \in [Conns -> Nat]
    /\ MaxThreads \in Nat
    /\ MaxLine \in Nat /\ MaxHeld \in Nat

VARIABLES
    slots,    \* the semaphore of run_worker
    up,       \* connections whose user has not hung up
    typed,    \* how many bytes each user has typed
    thread,   \* where each connection's thread is and what it knows: what it
              \* has read of this line or on this console (input); the line
              \* (buf); the level, the pending escape, what it is to write
              \* (out), whether it is to detach then (stop), what it wrote to
              \* this console so far (written)
    entry,    \* the state of each connection's entry in the SessionRegistry
    clients,  \* connections in _clients of the hub they have
    ended,    \* connections whose console has come to its end
    cut,      \* connections whose socket kill_stale has shut down and closed
    held      \* locks that others have: the SessionRegistry's ("sessions"),
              \* the HubRegistry's ("hubs"), and that of the hub that the
              \* thread of c has or looks at (c)

vars == <<slots, up, typed, thread, entry, clients, ended, cut, held>>

Locks == Conns \cup {"sessions", "hubs"}

OnConsole == {"checking", "reading", "writing"}
Threaded ==
    {"identifying", "prompt", "command", "listing", "counting", "attaching",
     "registered", "joined", "leaving", "left", "detached", "closing",
     "releasing"} \cup OnConsole
Places == {"away", "backlog", "over"} \cup Threaded

ThreadStates ==
    [at : Places, input : Seq(Bytes), buf : Seq(Bytes),
     level : {"read_write", "read_only"}, escape : BOOLEAN, stop : BOOLEAN,
     out : Seq(Bytes), written : Seq(Bytes)]

TypeOK ==
    /\ slots \in 0..MaxThreads
    /\ typed \in [Conns -> Nat]
    /\ thread \in [Conns -> ThreadStates]
    /\ \A c \in Conns :
         /\ typed[c] <= MaxTyped[c]
         /\ Len(thread[c].input) <= typed[c]
         /\ Len(thread[c].buf) <= MaxLine
    /\ up \in SUBSET Conns
    /\ entry \in [Conns -> {"none", "prompt", "console"}]
    /\ clients \in SUBSET Conns
    /\ ended \in SUBSET Conns
    /\ cut \in SUBSET Conns
    /\ held \in SUBSET Locks

\* A place where no line and no console has begun.
Fresh(place) ==
    [at |-> place, input |-> <<>>, buf |-> <<>>,
     level |-> "read_only", escape |-> FALSE, stop |-> FALSE,
     out |-> <<>>, written |-> <<>>]

Init ==
    /\ slots = MaxThreads
    /\ up = Conns /\ typed = [c \in Conns |-> 0]
    /\ thread = [c \in Conns |-> Fresh("away")]
    /\ entry = [c \in Conns |-> "none"]
    /\ clients = {} /\ ended = {} /\ cut = {} /\ held = {}

-----------------------------------------------------------------------------
(* What the code does with bytes.                                          *)

\* run_console_session, one byte: a pending ~ is followed by a dot, which
\* detaches, by another ~, of which one is passed on, or by anything else.
Byte(st, b) ==
    IF st.stop THEN st
    ELSE IF ~st.escape THEN
        IF b = "~" THEN [st EXCEPT !.escape = TRUE]
        ELSE [st EXCEPT !.out = Append(@, b)]
    ELSE [out |-> IF b = "." THEN st.out
                  ELSE IF b = "~" THEN Append(st.out, "~")
                  ELSE st.out \o <<"~", b>>,
          escape |-> FALSE,
          stop |-> b = "."]

\* Mutant of Chunk: an escape is not remembered from one chunk to the next.
ChunkAlone(escape, chunk) ==
    LET after[i \in 0..Len(chunk)] ==
            IF i = 0 THEN [out |-> <<>>, escape |-> FALSE, stop |-> FALSE]
            ELSE Byte(after[i - 1], chunk[i])
    IN after[Len(chunk)]

Chunk(escape, chunk) ==
    LET after[i \in 0..Len(chunk)] ==
            IF i = 0 THEN [out |-> <<>>, escape |-> escape, stop |-> FALSE]
            ELSE Byte(after[i - 1], chunk[i])
    IN after[Len(chunk)]

\* Mutant of Edit: a line that is full takes no backspace either.
EditUnlessFull(buf, b) ==
    IF Len(buf) >= MaxLine \/ (b = "bs" /\ buf = <<>>) THEN buf
    ELSE IF b = "bs" THEN Front(buf) ELSE Append(buf, b)

\* Mutant of Edit: a line takes one byte too many.
EditPastEnd(buf, b) ==
    IF b = "bs" THEN IF buf = <<>> THEN buf ELSE Front(buf)
    ELSE IF Len(buf) <= MaxLine THEN Append(buf, b) ELSE buf

\* sock_readline, one byte that does not end the line.
Edit(buf, b) ==
    IF b = "bs" THEN IF buf = <<>> THEN buf ELSE Front(buf)
    ELSE IF Len(buf) < MaxLine THEN Append(buf, b) ELSE buf

-----------------------------------------------------------------------------
\* The thread of c, at place from, goes on as next.
Becomes(c, from, next) ==
    thread[c].at \in from /\ thread' = [thread EXCEPT ![c] = next]

Goes(c, from, to) == Becomes(c, from, [thread[c] EXCEPT !.at = to])

\* The thread of c, at place from, goes on anew at place to.
GoesAnew(c, from, to) == Becomes(c, from, Fresh(to))

\* registry.update changes the entry of a session that has one.
Update(c, state) ==
    /\ "sessions" \notin held
    /\ entry' = IF entry[c] = "none" THEN entry ELSE [entry EXCEPT ![c] = state]

-----------------------------------------------------------------------------
(* The user.                                                               *)

Connect(c) ==
    /\ Goes(c, {"away"}, "backlog")
    /\ UNCHANGED <<slots, up, typed, entry, clients, ended, cut, held>>

HangUp(c) ==
    /\ c \in up /\ thread[c].at \notin {"away", "over"}
    /\ up' = up \ {c}
    /\ UNCHANGED <<slots, typed, thread, entry, clients, ended, cut, held>>

\* The user types s, at the prompt or on a console.
Types(c, s) ==
    /\ typed[c] + Len(s) <= MaxTyped[c]
    /\ typed' = [typed EXCEPT ![c] = @ + Len(s)]

-----------------------------------------------------------------------------
(* run_worker and handle_trusted_client.                                   *)

\* Mutant of Accept: a connection that is turned away keeps a slot.
AcceptTakes(c) ==
    /\ Goes(c, {"backlog"}, IF slots > 1 THEN "identifying" ELSE "over")
    /\ slots' = IF slots > 0 THEN slots - 1 ELSE slots
    /\ UNCHANGED <<up, typed, entry, clients, ended, cut, held>>

\* accept, and semaphore.acquire without waiting: "Server at capacity".
Accept(c) ==
    /\ Goes(c, {"backlog"}, IF slots > 0 THEN "identifying" ELSE "over")
    /\ slots' = IF slots > 0 THEN slots - 1 ELSE slots
    /\ UNCHANGED <<up, typed, entry, clients, ended, cut, held>>

\* The peer's uid is that of a user of the map: registry.add, and a prompt.
Identified(c) ==
    /\ "sessions" \notin held
    /\ GoesAnew(c, {"identifying"}, "prompt")
    /\ entry' = [entry EXCEPT ![c] = "prompt"]
    /\ UNCHANGED <<slots, up, typed, clients, ended, cut, held>>

\* It is not, or lookup_uid raises.
NotIdentified(c) ==
    /\ Goes(c, {"identifying"}, "closing")
    /\ UNCHANGED <<slots, up, typed, entry, clients, ended, cut, held>>

\* The finally of handle_trusted_client: registry.remove, close.
Forget(c) ==
    /\ "sessions" \notin held
    /\ Goes(c, {"closing"}, "releasing")
    /\ entry' = [entry EXCEPT ![c] = "none"]
    /\ UNCHANGED <<slots, up, typed, clients, ended, cut, held>>

\* The finally of dispatch.
Release(c) ==
    /\ Goes(c, {"releasing"}, "over")
    /\ slots' = slots + 1
    /\ UNCHANGED <<up, typed, entry, clients, ended, cut, held>>

-----------------------------------------------------------------------------
(* run_authenticated_session.                                              *)

\* sock_readline takes one byte.
ReadByte(c) ==
    \E b \in Keys["prompt"] :
        /\ Types(c, <<b>>)
        /\ Becomes(c, {"prompt"},
             IF b \in Enter THEN [thread[c] EXCEPT !.at = "command"]
             ELSE IF b = "etx" THEN Fresh("closing")
             ELSE [thread[c] EXCEPT !.input = Append(@, b), !.buf = Edit(@, b)])
        /\ UNCHANGED <<slots, up, entry, clients, ended, cut, held>>

\* End of file, or nothing typed for idle_timeout: sock_readline returns None.
StopsReading(c) ==
    /\ GoesAnew(c, {"prompt"}, "closing")
    /\ UNCHANGED <<slots, up, typed, entry, clients, ended, cut, held>>

\* A send fails, or takes longer than idle_timeout.
SendFails(c) ==
    /\ GoesAnew(c, {"prompt", "command", "attaching"}, "closing")
    /\ UNCHANGED <<slots, up, typed, entry, clients, ended, cut, held>>

\* Every command but the two below, and the empty line; a console that is not
\* allowed, too.
OtherCommand(c) ==
    /\ thread[c].buf # <<"q">>
    /\ GoesAnew(c, {"command"}, "prompt")
    /\ UNCHANGED <<slots, up, typed, entry, clients, ended, cut, held>>

\* list, and a console that is not there, look at the hubs, ...
AsksForHubs(c) ==
    /\ thread[c].buf # <<"q">>
    /\ GoesAnew(c, {"command"}, "listing")
    /\ UNCHANGED <<slots, up, typed, entry, clients, ended, cut, held>>

\* ... which are listed under the lock of the registry ...
Lists(c) ==
    /\ "hubs" \notin held
    /\ \E to \in {"counting", "prompt"} : GoesAnew(c, {"listing"}, to)
    /\ UNCHANGED <<slots, up, typed, entry, clients, ended, cut, held>>

\* ... and, for list, looked at one by one under their own.
Counts(c) ==
    /\ c \notin held
    /\ GoesAnew(c, {"counting"}, "prompt")
    /\ UNCHANGED <<slots, up, typed, entry, clients, ended, cut, held>>

Quit(c) ==
    /\ thread[c].buf = <<"q">>
    /\ GoesAnew(c, {"command"}, "closing")
    /\ UNCHANGED <<slots, up, typed, entry, clients, ended, cut, held>>

\* The console command has a level and a hub that is not done.
Console(c, level) ==
    /\ thread[c].buf = <<"c">> /\ "hubs" \notin held
    /\ Becomes(c, {"command"},
               [Fresh("attaching") EXCEPT !.level = level])
    /\ UNCHANGED <<slots, up, typed, entry, clients, ended, cut, held>>

\* "[Attached to ...]", registry.update.
Register(c) ==
    /\ Goes(c, {"attaching"}, "registered")
    /\ Update(c, "console")
    /\ UNCHANGED <<slots, up, typed, clients, ended, cut, held>>

\* settimeout, before and after the console, which raises on a closed socket.
TooLate(c) ==
    /\ c \in cut
    /\ GoesAnew(c, {"registered", "detached"}, "closing")
    /\ UNCHANGED <<slots, up, typed, entry, clients, ended, cut, held>>

\* hub.add_client; a console that has ended takes clients too.
Join(c) ==
    /\ c \notin held
    /\ Goes(c, {"registered"}, "joined")
    /\ clients' = clients \cup {c}
    /\ UNCHANGED <<slots, up, typed, entry, ended, cut, held>>

\* registry.update, again.
Joined(c) ==
    /\ Goes(c, {"joined"}, "checking")
    /\ Update(c, "console")
    /\ UNCHANGED <<slots, up, typed, clients, ended, cut, held>>

\* hub_registry.remove_if_done.
Tidy(c) ==
    /\ "hubs" \notin held
    /\ Goes(c, {"left"}, "detached")
    /\ UNCHANGED <<slots, up, typed, entry, clients, ended, cut, held>>

\* registry.update, "[Detached from ...]", the prompt.
Detached(c) ==
    /\ c \notin cut
    /\ GoesAnew(c, {"detached"}, "prompt")
    /\ Update(c, "prompt")
    /\ UNCHANGED <<slots, up, typed, clients, ended, cut, held>>

-----------------------------------------------------------------------------
(* run_console_session.                                                    *)

\* while not hub.is_done
Check(c) ==
    /\ Goes(c, {"checking"}, IF c \in ended THEN "leaving" ELSE "reading")
    /\ UNCHANGED <<slots, up, typed, entry, clients, ended, cut, held>>

\* recv returns what is there, or the first part of it.
Receive(c) ==
    /\ thread[c].level = "read_write" /\ c \notin cut
    /\ \E n \in 1..(MaxTyped[c] - typed[c]) : \E s \in [1..n -> Keys["console"]] :
         LET res == Chunk(thread[c].escape, s) IN
         /\ Types(c, s)
         /\ Becomes(c, {"reading"},
              [thread[c] EXCEPT
                 !.input = @ \o s,
                 !.escape = res.escape, !.stop = res.stop, !.out = res.out,
                 !.at = IF res.out # <<>> THEN "writing"
                        ELSE IF res.stop THEN "leaving" ELSE "checking"])
    /\ UNCHANGED <<slots, up, entry, clients, ended, cut, held>>

\* write_input; on a hub that is done it fails, which nobody is told.
Write(c) ==
    /\ Becomes(c, {"writing"},
         [thread[c] EXCEPT
            !.written = IF c \in ended THEN @ ELSE @ \o thread[c].out,
            !.out = <<>>,
            !.at = IF thread[c].stop THEN "leaving" ELSE "checking"])
    /\ UNCHANGED <<slots, up, typed, entry, clients, ended, cut, held>>

\* select returns, after a second or with a viewer's input, which is thrown
\* away.
Discard(c) ==
    /\ thread[c].level = "read_only" /\ c \in up \ cut
    /\ Goes(c, {"reading"}, "checking")
    /\ UNCHANGED <<slots, up, typed, entry, clients, ended, cut, held>>

\* Mutant of InputEnds: an error is taken for a timeout.
InputEndsAtEof(c) ==
    /\ c \notin up \cup cut
    /\ Goes(c, {"reading"}, "leaving")
    /\ UNCHANGED <<slots, up, typed, entry, clients, ended, cut, held>>

\* recv returns nothing, or raises because kill_stale has closed the socket.
InputEnds(c) ==
    /\ c \notin up \ cut
    /\ Goes(c, {"reading"}, "leaving")
    /\ UNCHANGED <<slots, up, typed, entry, clients, ended, cut, held>>

\* Mutant of Leave: the hub keeps a client whose input has ended.
LeaveIfUp(c) ==
    /\ c \notin held
    /\ GoesAnew(c, {"leaving"}, "left")
    /\ clients' = IF c \in up THEN clients \ {c} ELSE clients
    /\ ended' = ended \ {c}
    /\ UNCHANGED <<slots, up, typed, entry, cut, held>>

\* hub.remove_client, whatever ended the loop.
Leave(c) ==
    /\ c \notin held
    /\ GoesAnew(c, {"leaving"}, "left")
    /\ clients' = clients \ {c}
    /\ ended' = ended \ {c}
    /\ UNCHANGED <<slots, up, typed, entry, cut, held>>

-----------------------------------------------------------------------------
(* What others do to a session.                                            *)

HasHub == {"attaching", "registered", "joined", "leaving"} \cup OnConsole

\* A hub's reader sends to one client after the other, a snapshot of the hubs
\* waits for each of their locks, kill_stale sends its notices.
Seize(l) ==
    /\ l \notin held /\ Cardinality(held) < MaxHeld
    /\ (l \in Conns => thread[l].at \in HasHub \cup {"counting"})
    /\ held' = held \cup {l}
    /\ UNCHANGED <<slots, up, typed, thread, entry, clients, ended, cut>>

LetGo(l) ==
    /\ l \in held
    /\ held' = held \ {l}
    /\ UNCHANGED <<slots, up, typed, thread, entry, clients, ended, cut>>

\* The console has come to its end, or is shut down.
HubEnds(c) ==
    /\ thread[c].at \in HasHub /\ c \notin ended
    /\ ended' = ended \cup {c}
    /\ UNCHANGED <<slots, up, typed, thread, entry, clients, cut, held>>

\* The reader drops a client whose socket is closed at either end, and all of
\* them when the console has ended.
HubDrops(c) ==
    /\ c \in clients /\ c \in held
    /\ c \notin up \/ c \in cut \/ c \in ended
    /\ clients' = clients \ {c}
    /\ UNCHANGED <<slots, up, typed, thread, entry, ended, cut, held>>

\* kill_stale: the entry goes, and the socket is shut down and closed unless
\* the notice fails.
Revoke(c) ==
    /\ "sessions" \in held
    /\ entry[c] = "console"
    /\ entry' = [entry EXCEPT ![c] = "none"]
    /\ cut' \in {cut, cut \cup {c}}
    /\ UNCHANGED <<slots, up, typed, thread, clients, ended, held>>

-----------------------------------------------------------------------------
AtPrompt(c) ==
    \/ ReadByte(c) \/ StopsReading(c) \/ SendFails(c)
    \/ OtherCommand(c) \/ AsksForHubs(c) \/ Lists(c)
    \/ Counts(c) \/ Quit(c)
    \/ \E level \in {"read_write", "read_only"} : Console(c, level)
    \/ Register(c) \/ TooLate(c) \/ Join(c) \/ Joined(c)
    \/ Tidy(c) \/ Detached(c)

AtConsole(c) ==
    \/ Check(c) \/ Receive(c) \/ Write(c)
    \/ Discard(c) \/ InputEnds(c)
    \/ Leave(c)

ThreadStep(c) ==
    \/ Identified(c) \/ NotIdentified(c)
    \/ AtPrompt(c) \/ AtConsole(c)
    \/ Forget(c) \/ Release(c)

Next ==
    \/ \E c \in Conns :
        \/ Connect(c) \/ HangUp(c)
        \/ Accept(c) \/ ThreadStep(c)
        \/ HubEnds(c) \/ HubDrops(c) \/ Revoke(c)
    \/ \E l \in Locks : Seize(l) \/ LetGo(l)

Spec == Init /\ [][Next]_vars

\* Every thread runs, the monitor answers, a write to a console comes to an
\* end, and recv and select return when there is something to return.  A
\* thread that waits for a lock gets it if it is let go again and again; that
\* it is let go is not assumed.
FairSpec == Spec /\ \A c \in Conns : SF_vars(ThreadStep(c))

-----------------------------------------------------------------------------
(* What should become of the bytes, without going through them one by one. *)

\* In s, a ~ at i begins an escape: it is the first, third, ... of its run.
Opens(s, i) ==
    /\ s[i] = "~"
    /\ Cardinality({j \in 1..i : \A k \in j..i : s[k] = "~"}) % 2 = 1

\* The escapes that detach.
Stops(s) == {i \in 2..Len(s) : s[i] = "." /\ Opens(s, i - 1)}

\* Everything before the first of them is passed on, a pending or escaping ~
\* only together with what follows it.
Passed(s) ==
    LET end == IF Stops(s) = {} THEN Len(s) ELSE Min(Stops(s)) - 1
        pass(i) == IF Opens(s, i) THEN <<>>
                   ELSE IF i > 1 /\ s[i] # "~" /\ Opens(s, i - 1) THEN <<"~", s[i]>>
                   ELSE <<s[i]>>
    IN FlattenSeq([i \in 1..end |-> pass(i)])

\* The byte at i is deleted again: some stretch after it has more backspaces
\* than other bytes.
Deleted(s, i) ==
    \E j \in (i + 1)..Len(s) :
        2 * Cardinality({k \in (i + 1)..j : s[k] = "bs"}) > j - i

Edited(s) ==
    FlattenSeq([i \in 1..Len(s) |->
                  IF s[i] = "bs" \/ Deleted(s, i) THEN <<>> ELSE <<s[i]>>])

-----------------------------------------------------------------------------
\* A console is sent what its writers typed while they were attached, in
\* whatever pieces it arrived, up to a ~. which makes them leave; viewers
\* send nothing.
ConsoleGetsTyped ==
    \A c \in Conns :
        thread[c].at \in OnConsole \cup {"leaving"} /\ c \notin ended =>
            IF thread[c].level = "read_only" THEN thread[c].written = <<>>
            ELSE /\ thread[c].written \o thread[c].out = Passed(thread[c].input)
                 /\ Stops(thread[c].input) # {} <=>
                        thread[c].stop /\ thread[c].at \in {"writing", "leaving"}

\* A line is what was typed at the prompt with the deletions applied, unless
\* it was too long at some time.
LineIsTyped ==
    \A c \in Conns :
        thread[c].at \in {"prompt", "command"} =>
            \/ thread[c].buf = Edited(thread[c].input)
            \/ \E n \in 1..Len(thread[c].input) :
                 Len(Edited(SubSeq(thread[c].input, 1, n))) > MaxLine

\* Every slot is free or with a thread that will give it back.
SlotsAccounted ==
    slots + Cardinality({c \in Conns : thread[c].at \in Threaded}) = MaxThreads

\* A hub has only clients whose threads are on its console, however they
\* leave it, and no entry is left of a connection whose thread is through.
NothingLeft ==
    \A c \in Conns :
        /\ c \in clients => thread[c].at \in OnConsole \cup {"joined", "leaving"}
        /\ thread[c].at \in {"releasing", "over"} => entry[c] = "none"

\* A connection whose user is gone, or whose access was revoked, gives its
\* slot back, wherever its thread was, unless one of the locks it needs is
\* held for ever: that of a hub while somebody on the same console does not
\* read (hub.py:89-93), the HubRegistry's while a snapshot waits for such a
\* hub, the SessionRegistry's while someone does not read the notice of
\* kill_stale (session.py:95).
SlotReturns ==
    \A c \in Conns :
        (\A l \in {c, "hubs", "sessions"} : []<>(l \notin held)) =>
            (thread[c].at \in Threaded /\ (c \notin up \/ c \in cut)
                ~> thread[c].at = "over")
=============================================================================
