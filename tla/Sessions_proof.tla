--------------------------- MODULE Sessions_proof ---------------------------
(***************************************************************************)
(* Proofs about Sessions for any number of connections and threads, any    *)
(* length of line and anything the users type.                             *)
(*                                                                         *)
(*  - That slots and entries are given back is about where the threads are *)
(*    only: Flow says which ways a connection goes, and what that does to  *)
(*    the semaphore.                                                       *)
(*  - What becomes of the bytes: Passed and Edited say it of all that was  *)
(*    typed, run_console_session and sock_readline go byte by byte.  One   *)
(*    byte more changes Passed as Byte does (PassedAppend, ByteRight), and *)
(*    Edited as Edit does (EditedByte, EditedBackspace); the invariant     *)
(*    AllSound says that each thread knows what is to be known of what its *)
(*    user typed so far.                                                   *)
(***************************************************************************)
EXTENDS Sessions, FiniteSetTheorems, SequenceTheorems, WellFoundedInduction,
        TLAPS

\* What is needed of the types.
Shaped ==
    /\ DOMAIN thread = Conns
    /\ \A c \in Conns : "at" \in DOMAIN thread[c] /\ thread[c].at \in Places

InThread == {c \in Conns : thread[c].at \in Threaded}

\* A connection comes, gets a slot or none, moves about with its slot, gives it
\* back, or stays where it is.
Flow(c) ==
    \/ thread[c].at = "away" /\ thread'[c].at = "backlog" /\ slots' = slots
    \/ thread[c].at = "backlog" /\ slots > 0
       /\ thread'[c].at = "identifying" /\ slots' = slots - 1
    \/ thread[c].at = "backlog" /\ thread'[c].at = "over" /\ slots' = slots
    \/ thread[c].at \in Threaded /\ thread'[c].at \in Threaded /\ slots' = slots
    \/ thread[c].at = "releasing" /\ thread'[c].at = "over" /\ slots' = slots + 1
    \/ thread'[c].at = thread[c].at /\ slots' = slots

\* What a step changes that is not only about locks.
kept == <<slots, up, typed, thread, entry, clients, ended, cut>>

\* What a connection, its user or others on its console do.
StepOf(c) ==
    \/ Connect(c) \/ HangUp(c) \/ Accept(c) \/ ThreadStep(c)
    \/ HubEnds(c) \/ HubDrops(c) \/ Revoke(c)

\* NothingLeft, with the places where there is no entry yet.
LeavesNothing ==
    /\ entry \in [Conns -> {"none", "prompt", "console"}]
    /\ \A c \in Conns :
         /\ c \in clients => thread[c].at \in OnConsole \cup {"joined", "leaving"}
         /\ thread[c].at \in {"away", "backlog", "releasing", "over"} =>
              entry[c] = "none"

-----------------------------------------------------------------------------
\* The thread of c goes on as next.
LEMMA BecomesEffect ==
    ASSUME Shaped, NEW c \in Conns, NEW from, NEW next, Becomes(c, from, next),
           "at" \in DOMAIN next, next.at \in Places
    PROVE  /\ Shaped'
           /\ thread[c].at \in from
           /\ thread'[c].at = next.at
           /\ \A d \in Conns \ {c} : thread'[d] = thread[d]
BY DEF Becomes, Shaped

LEMMA GoesEffect ==
    ASSUME Shaped, NEW c \in Conns, NEW from, NEW to \in Places, Goes(c, from, to)
    PROVE  /\ Shaped'
           /\ thread[c].at \in from
           /\ thread'[c].at = to
           /\ \A d \in Conns \ {c} : thread'[d] = thread[d]
<1>. DEFINE next == [thread[c] EXCEPT !.at = to]
<1>1. "at" \in DOMAIN next /\ next.at = to
  BY DEF Shaped
<1>2. Becomes(c, from, next)
  BY DEF Goes
<1>. HIDE DEF next
<1>. QED
  BY <1>1, <1>2, BecomesEffect

LEMMA AnewEffect ==
    ASSUME Shaped, NEW c \in Conns, NEW from, NEW to \in Places,
           GoesAnew(c, from, to)
    PROVE  /\ Shaped'
           /\ thread[c].at \in from
           /\ thread'[c].at = to
           /\ \A d \in Conns \ {c} : thread'[d] = thread[d]
<1>1. "at" \in DOMAIN Fresh(to) /\ Fresh(to).at = to
  BY DEF Fresh
<1>2. Becomes(c, from, Fresh(to))
  BY DEF GoesAnew
<1>. QED
  BY <1>1, <1>2, BecomesEffect

\* The other ways a thread goes on.
LEMMA ConsoleEffect ==
    ASSUME Shaped, NEW c \in Conns,
           \/ \E level \in {"read_write", "read_only"} : Console(c, level)
           \/ ReadByte(c) \/ Receive(c) \/ Write(c)
    PROVE  /\ Shaped'
           /\ \/ thread[c].at = "command" /\ thread'[c].at = "attaching"
              \/ thread[c].at = "prompt" /\ thread'[c].at \in {"prompt", "command", "closing"}
              \/ /\ thread[c].at \in {"reading", "writing"}
                 /\ thread'[c].at \in {"writing", "leaving", "checking"}
           /\ \A d \in Conns \ {c} : thread'[d] = thread[d]
           /\ UNCHANGED <<slots, entry, clients>>
<1>. USE DEF Places, Threaded, OnConsole
<1>1. ASSUME NEW level, Console(c, level)
      PROVE  /\ Shaped'
             /\ thread[c].at = "command" /\ thread'[c].at = "attaching"
             /\ \A d \in Conns \ {c} : thread'[d] = thread[d]
  <2>. DEFINE next == [Fresh("attaching") EXCEPT !.level = level]
  <2>1. "at" \in DOMAIN next /\ next.at = "attaching"
    BY DEF Fresh
  <2>2. Becomes(c, {"command"}, next)
    BY <1>1 DEF Console
  <2>. HIDE DEF next
  <2>. QED
    BY <2>1, <2>2, BecomesEffect
<1>2. ASSUME ReadByte(c)
      PROVE  /\ Shaped'
             /\ thread[c].at = "prompt"
             /\ thread'[c].at \in {"prompt", "command", "closing"}
             /\ \A d \in Conns \ {c} : thread'[d] = thread[d]
  <2>1. PICK b \in Keys["prompt"] :
          Becomes(c, {"prompt"},
             IF b \in Enter THEN [thread[c] EXCEPT !.at = "command"]
             ELSE IF b = "etx" THEN Fresh("closing")
             ELSE [thread[c] EXCEPT !.input = Append(@, b), !.buf = Edit(@, b)])
    BY <1>2 DEF ReadByte
  <2>. DEFINE next ==
             IF b \in Enter THEN [thread[c] EXCEPT !.at = "command"]
             ELSE IF b = "etx" THEN Fresh("closing")
             ELSE [thread[c] EXCEPT !.input = Append(@, b), !.buf = Edit(@, b)]
  <2>2. Becomes(c, {"prompt"}, next)
    BY <2>1
  <2>3. thread[c].at = "prompt"
    BY <2>2 DEF Becomes
  <2>4. "at" \in DOMAIN next /\ next.at \in {"prompt", "command", "closing"}
    BY <2>3 DEF Shaped, Fresh
  <2>. HIDE DEF next
  <2>. QED
    BY <2>2, <2>3, <2>4, BecomesEffect
<1>3. ASSUME Receive(c)
      PROVE  /\ Shaped'
             /\ thread[c].at = "reading"
             /\ thread'[c].at \in {"writing", "leaving", "checking"}
             /\ \A d \in Conns \ {c} : thread'[d] = thread[d]
  <2>1. PICK s, res :
          Becomes(c, {"reading"},
              [thread[c] EXCEPT
                 !.input = @ \o s,
                 !.escape = res.escape, !.stop = res.stop, !.out = res.out,
                 !.at = IF res.out # <<>> THEN "writing"
                        ELSE IF res.stop THEN "leaving" ELSE "checking"])
    BY <1>3 DEF Receive
  <2>. DEFINE next ==
              [thread[c] EXCEPT
                 !.input = @ \o s,
                 !.escape = res.escape, !.stop = res.stop, !.out = res.out,
                 !.at = IF res.out # <<>> THEN "writing"
                        ELSE IF res.stop THEN "leaving" ELSE "checking"]
  <2>2. Becomes(c, {"reading"}, next)
    BY <2>1
  <2>3. "at" \in DOMAIN next /\ next.at \in {"writing", "leaving", "checking"}
    BY DEF Shaped
  <2>. HIDE DEF next
  <2>. QED
    BY <2>2, <2>3, BecomesEffect
<1>4. ASSUME Write(c)
      PROVE  /\ Shaped'
             /\ thread[c].at = "writing"
             /\ thread'[c].at \in {"leaving", "checking"}
             /\ \A d \in Conns \ {c} : thread'[d] = thread[d]
  <2>. DEFINE next ==
         [thread[c] EXCEPT
            !.written = IF c \in ended THEN @ ELSE @ \o thread[c].out,
            !.out = <<>>,
            !.at = IF thread[c].stop THEN "leaving" ELSE "checking"]
  <2>1. Becomes(c, {"writing"}, next)
    BY <1>4 DEF Write
  <2>2. "at" \in DOMAIN next /\ next.at \in {"leaving", "checking"}
    BY DEF Shaped
  <2>. HIDE DEF next
  <2>. QED
    BY <2>1, <2>2, BecomesEffect
<1>5. UNCHANGED <<slots, entry, clients>>
  BY DEF Console, ReadByte, Receive, Write
<1>. QED
  BY <1>1, <1>2, <1>3, <1>4, <1>5

\* Whatever is done changes nothing but locks, or is done by or to one
\* connection.
LEMMA StepCases ==
    ASSUME [Next]_vars
    PROVE  UNCHANGED kept \/ \E c \in Conns : StepOf(c)
<1>1. ASSUME NEW l \in Locks, Seize(l) \/ LetGo(l)
      PROVE  UNCHANGED kept
  BY <1>1 DEF Seize, LetGo, kept
<1>2. CASE UNCHANGED vars
  BY <1>2 DEF vars, kept
<1>. QED
  BY <1>1, <1>2 DEF Next, StepOf

\* What a step of connection c is to the other connections, to the semaphore,
\* and to what is left of c.
LEMMA StepEffect ==
    ASSUME Shaped, NEW c \in Conns, StepOf(c)
    PROVE  /\ Shaped'
           /\ Flow(c)
           /\ \A d \in Conns \ {c} : thread'[d] = thread[d]
<1>. USE DEF Places, Threaded, OnConsole, Flow
<1>1. CASE Connect(c)
  BY <1>1, GoesEffect DEF Connect
<1>2. CASE HangUp(c) \/ HubEnds(c) \/ HubDrops(c) \/ Revoke(c)
  BY <1>2 DEF HangUp, HubEnds, HubDrops, Revoke, Shaped
<1>3. CASE Accept(c)
  <2>1. CASE slots > 0
    BY <1>3, <2>1, GoesEffect DEF Accept
  <2>2. CASE ~(slots > 0)
    BY <1>3, <2>2, GoesEffect DEF Accept
  <2>. QED
    BY <2>1, <2>2
<1>4. CASE Identified(c)
  BY <1>4, AnewEffect DEF Identified
<1>5. CASE NotIdentified(c) \/ Forget(c) \/ Release(c)
  BY <1>5, GoesEffect DEF NotIdentified, Forget, Release
<1>6. CASE \/ StopsReading(c) \/ SendFails(c) \/ OtherCommand(c) \/ Quit(c)
           \/ AsksForHubs(c) \/ Lists(c) \/ Counts(c) \/ TooLate(c)
           \/ Detached(c) \/ Leave(c)
  BY <1>6, AnewEffect
     DEF StopsReading, SendFails, OtherCommand, Quit, AsksForHubs, Lists, Counts,
         TooLate, Detached, Leave
<1>7. CASE \/ Register(c) \/ Join(c) \/ Joined(c) \/ Tidy(c)
           \/ Discard(c) \/ InputEnds(c)
  BY <1>7, GoesEffect DEF Register, Join, Joined, Tidy, Discard, InputEnds
<1>8. CASE Check(c)
  <2>1. CASE c \in ended
    BY <1>8, <2>1, GoesEffect DEF Check
  <2>2. CASE c \notin ended
    BY <1>8, <2>2, GoesEffect DEF Check
  <2>. QED
    BY <2>1, <2>2
<1>9. CASE \/ \E level \in {"read_write", "read_only"} : Console(c, level)
           \/ ReadByte(c) \/ Receive(c) \/ Write(c)
  BY <1>9, ConsoleEffect
<1>. QED
  BY <1>1, <1>2, <1>3, <1>4, <1>5, <1>6, <1>7, <1>8, <1>9
     DEF StepOf, ThreadStep, AtPrompt, AtConsole

-----------------------------------------------------------------------------
\* The threads stay at the places there are.
THEOREM ShapedAlways == Spec => []Shaped
<1>1. Init => Shaped
  BY DEF Init, Fresh, Shaped, Places
<1>2. Shaped /\ [Next]_vars => Shaped'
  <2>1. CASE UNCHANGED kept
    BY <2>1 DEF Shaped, kept
  <2>. QED
    BY <2>1, StepCases, StepEffect
<1>. QED
  BY <1>1, <1>2, PTL DEF Spec

\* A slot is taken by the connection that gets a thread and given back by the
\* thread that ends.
LEMMA FlowKeepsSlots ==
    ASSUME Shaped, SlotsAccounted, slots \in Nat, NEW c \in Conns, Flow(c),
           \A d \in Conns \ {c} : thread'[d] = thread[d]
    PROVE  SlotsAccounted' /\ slots' \in Nat
<1>. USE DEF InThread
<1>1. SlotsAccounted <=> slots + Cardinality(InThread) = MaxThreads
  BY DEF SlotsAccounted
<1>2. SlotsAccounted' <=> slots' + Cardinality(InThread') = MaxThreads
  BY DEF SlotsAccounted
<1>3. IsFiniteSet(InThread) /\ Cardinality(InThread) \in Nat
  <2>1. InThread \subseteq Conns
    OBVIOUS
  <2>. QED
    BY <2>1, SessionsAssumption, FS_Subset, FS_CardinalityType DEF SessionsAssumption
<1>4. CASE thread[c].at = "backlog" /\ slots > 0
           /\ thread'[c].at = "identifying" /\ slots' = slots - 1
  <2>1. c \notin InThread /\ InThread' = InThread \cup {c}
    BY <1>4 DEF Threaded, OnConsole
  <2>2. Cardinality(InThread') = Cardinality(InThread) + 1
    BY <1>3, <2>1, FS_AddElement
  <2>. HIDE DEF InThread
  <2>. QED
    BY <1>1, <1>2, <1>3, <1>4, <2>2
<1>5. CASE thread[c].at = "releasing" /\ thread'[c].at = "over" /\ slots' = slots + 1
  <2>1. c \in InThread /\ InThread' = InThread \ {c}
    BY <1>5 DEF Threaded, OnConsole
  <2>2. Cardinality(InThread') = Cardinality(InThread) - 1
    BY <1>3, <2>1, FS_RemoveElement
  <2>. HIDE DEF InThread
  <2>. QED
    BY <1>1, <1>2, <1>3, <1>5, <2>2
<1>6. CASE (thread[c].at \in Threaded <=> thread'[c].at \in Threaded) /\ slots' = slots
  <2>1. InThread' = InThread
    BY <1>6
  <2>. HIDE DEF InThread
  <2>. QED
    BY <1>1, <1>2, <1>6, <2>1
<1>. QED
  BY <1>4, <1>5, <1>6 DEF Flow, Threaded, OnConsole

\* Every slot is free or with a thread that will give it back, whatever ends
\* the thread.
THEOREM SlotsInRange == Spec => [](SlotsAccounted /\ slots \in Nat)
<1>1. Init => SlotsAccounted /\ slots \in Nat
  <2>. SUFFICES ASSUME Init PROVE SlotsAccounted /\ slots \in Nat
    OBVIOUS
  <2>1. slots = MaxThreads /\ MaxThreads \in Nat
    BY SessionsAssumption DEF Init, SessionsAssumption
  <2>2. {c \in Conns : thread[c].at \in Threaded} = {}
    BY DEF Init, Fresh, Threaded, OnConsole
  <2>. QED
    BY <2>1, <2>2, FS_EmptySet DEF SlotsAccounted
<1>2. Shaped /\ SlotsAccounted /\ slots \in Nat /\ [Next]_vars
        => SlotsAccounted' /\ (slots \in Nat)'
  <2>1. CASE UNCHANGED kept
    BY <2>1 DEF SlotsAccounted, kept
  <2>2. ASSUME Shaped, SlotsAccounted, slots \in Nat, NEW c \in Conns, StepOf(c)
        PROVE  SlotsAccounted' /\ slots' \in Nat
    BY <2>2, StepEffect, FlowKeepsSlots
  <2>. QED
    BY <2>1, <2>2, StepCases
<1>. QED
  BY <1>1, <1>2, ShapedAlways, PTL DEF Spec

\* The same, as the property.
THEOREM SlotsAccountedAlways == Spec => []SlotsAccounted
BY SlotsInRange, PTL

-----------------------------------------------------------------------------
\* A step of connection c leaves nothing behind.
LEMMA StepLeavesNothing ==
    ASSUME Shaped, LeavesNothing, NEW c \in Conns, StepOf(c)
    PROVE  LeavesNothing'
<1>. USE DEF Places, Threaded, OnConsole, LeavesNothing
<1>0. \A d \in Conns \ {c} : thread'[d] = thread[d]
  BY StepEffect
<1>1. CASE Connect(c)
  BY <1>0, <1>1, GoesEffect DEF Connect
<1>2. CASE HangUp(c) \/ HubEnds(c) \/ HubDrops(c) \/ Revoke(c)
  BY <1>2 DEF HangUp, HubEnds, HubDrops, Revoke
<1>3. CASE Accept(c)
  <2>1. thread[c].at = "backlog" /\ thread'[c].at \in {"identifying", "over"}
    <3>1. CASE slots > 0
      BY <1>3, <3>1, GoesEffect DEF Accept
    <3>2. CASE ~(slots > 0)
      BY <1>3, <3>2, GoesEffect DEF Accept
    <3>. QED
      BY <3>1, <3>2
  <2>. QED
    BY <1>0, <1>3, <2>1 DEF Accept
<1>4. CASE Identified(c)
  BY <1>0, <1>4, AnewEffect DEF Identified
<1>5. CASE NotIdentified(c) \/ Forget(c) \/ Release(c)
  BY <1>0, <1>5, GoesEffect DEF NotIdentified, Forget, Release
<1>6. CASE \/ StopsReading(c) \/ SendFails(c) \/ OtherCommand(c) \/ Quit(c)
           \/ AsksForHubs(c) \/ Lists(c) \/ Counts(c) \/ TooLate(c)
  BY <1>0, <1>6, AnewEffect
     DEF StopsReading, SendFails, OtherCommand, Quit, AsksForHubs, Lists,
         Counts, TooLate
<1>7. CASE Detached(c)
  BY <1>0, <1>7, AnewEffect DEF Detached, Update
<1>8. CASE Leave(c)
  BY <1>0, <1>8, AnewEffect DEF Leave
<1>9. CASE Register(c) \/ Joined(c)
  BY <1>0, <1>9, GoesEffect DEF Register, Joined, Update
<1>10. CASE Join(c) \/ Tidy(c) \/ Discard(c) \/ InputEnds(c)
  BY <1>0, <1>10, GoesEffect DEF Join, Tidy, Discard, InputEnds
<1>11. CASE Check(c)
  <2>1. thread[c].at = "checking" /\ thread'[c].at \in {"leaving", "reading"}
    <3>1. CASE c \in ended
      BY <1>11, <3>1, GoesEffect DEF Check
    <3>2. CASE c \notin ended
      BY <1>11, <3>2, GoesEffect DEF Check
    <3>. QED
      BY <3>1, <3>2
  <2>. QED
    BY <1>0, <1>11, <2>1 DEF Check
<1>12. CASE \/ \E level \in {"read_write", "read_only"} : Console(c, level)
            \/ ReadByte(c) \/ Receive(c) \/ Write(c)
  BY <1>0, <1>12, ConsoleEffect
<1>. QED
  BY <1>1, <1>2, <1>3, <1>4, <1>5, <1>6, <1>7, <1>8, <1>9, <1>10, <1>11, <1>12
     DEF StepOf, ThreadStep, AtPrompt, AtConsole

\* A hub has only clients whose threads are on its console, however they
\* leave it, and no entry is left of a connection whose thread is through.
THEOREM NothingLeftAlways == Spec => []NothingLeft
<1>1. Init => LeavesNothing
  BY DEF Init, Fresh, LeavesNothing
<1>2. Shaped /\ LeavesNothing /\ [Next]_vars => LeavesNothing'
  <2>1. CASE UNCHANGED kept
    BY <2>1 DEF LeavesNothing, kept
  <2>. QED
    BY <2>1, StepCases, StepLeavesNothing
<1>3. LeavesNothing => NothingLeft
  BY DEF LeavesNothing, NothingLeft
<1>. QED
  BY <1>1, <1>2, <1>3, ShapedAlways, PTL DEF Spec

-----------------------------------------------------------------------------
(* Induction and recursion, as facts about sets and functions.             *)

\* A set of naturals that is not empty has a least element.
LEMMA LeastNatural ==
    ASSUME NEW T \in SUBSET Nat, T # {}
    PROVE  \E n \in T : \A m \in T : n <= m
<1>1. PICK n \in T : \A m \in T : ~ (<<m, n>> \in OpToRel(<, Nat))
  BY WFMin, NatLessThanWellFounded
<1>2. \A m \in T : ~ (m < n)
  BY <1>1 DEF OpToRel
<1>. QED
  BY <1>2

\* A set with 0, and with each natural its successor, holds all naturals.
LEMMA AllNaturals ==
    ASSUME NEW T, 0 \in T, \A n \in Nat : n \in T => n + 1 \in T
    PROVE  Nat \subseteq T
<1>. SUFFICES ASSUME Nat \ T # {} PROVE FALSE
  OBVIOUS
<1>1. PICK n \in Nat \ T : \A m \in Nat \ T : n <= m
  BY LeastNatural
<1>. QED
  BY <1>1

\* Some numbers up to n have a greatest.
LEMMA Greatest ==
    ASSUME NEW n \in Nat, NEW U \in SUBSET (1..n), U # {}
    PROVE  \E m \in U : \A k \in U : k <= m
<1>. DEFINE V == {n - k : k \in U}
<1>1. V \in SUBSET Nat /\ V # {}
  <2>1. \A k \in U : k \in 1..n /\ n - k \in Nat
    OBVIOUS
  <2>. QED
    BY <2>1
<1>. HIDE DEF V
<1>2. PICK x \in V : \A y \in V : x <= y
  BY <1>1, LeastNatural
<1>3. PICK m \in U : x = n - m
  BY <1>2 DEF V
<1>4. \A k \in U : n - m <= n - k
  BY <1>2, <1>3 DEF V
<1>. QED
  BY <1>3, <1>4

\* f has the results of the steps g for each i in 1..n, starting at x.
Follows(f, n, x, g) == f[0] = x /\ \A i \in 1..n : f[i] = g[<<f[i - 1], i>>]

\* There are results.
LEMMA Recursion ==
    ASSUME NEW n \in Nat, NEW X, NEW x \in X, NEW g \in [X \X (1..n) -> X]
    PROVE  \E f \in [0..n -> X] : Follows(f, n, x, g)
<1>. USE DEF Follows
<1>. DEFINE Upto(m) == \E f \in [0..m -> X] :
                f[0] = x /\ \A i \in 1..m : f[i] = g[<<f[i - 1], i>>]
            T == {m \in Nat : m <= n => Upto(m)}
<1>1. 0 \in T
  <2>. DEFINE f == [i \in 0..0 |-> x]
  <2>1. f \in [0..0 -> X] /\ f[0] = x /\ \A i \in 1..0 : f[i] = g[<<f[i - 1], i>>]
    OBVIOUS
  <2>. QED
    BY <2>1
<1>2. ASSUME NEW m \in Nat, m \in T PROVE m + 1 \in T
  <2>. SUFFICES ASSUME m + 1 <= n PROVE Upto(m + 1)
    OBVIOUS
  <2>1. PICK f \in [0..m -> X] :
          f[0] = x /\ \A i \in 1..m : f[i] = g[<<f[i - 1], i>>]
    BY <1>2
  <2>. DEFINE h == [i \in 0..(m + 1) |-> IF i = m + 1 THEN g[<<f[m], m + 1>>] ELSE f[i]]
  <2>2. <<f[m], m + 1>> \in X \X (1..n)
    BY <2>1
  <2>3. h \in [0..(m + 1) -> X]
    <3>1. g[<<f[m], m + 1>>] \in X
      BY <2>2
    <3>2. \A i \in 0..(m + 1) : i # m + 1 => f[i] \in X
      BY <2>1
    <3>. QED
      BY <3>1, <3>2
  <2>4. h[0] = x
    BY <2>1
  <2>5. ASSUME NEW i \in 1..(m + 1) PROVE h[i] = g[<<h[i - 1], i>>]
    <3>1. i - 1 \in 0..(m + 1) /\ i \in 0..(m + 1) /\ i - 1 # m + 1
      OBVIOUS
    <3>2. h[i - 1] = f[i - 1]
      BY <3>1
    <3>3. CASE i = m + 1
      BY <3>1, <3>2, <3>3
    <3>4. CASE i # m + 1
      <4>1. i \in 1..m /\ h[i] = f[i]
        BY <3>1, <3>4
      <4>. QED
        BY <2>1, <3>2, <4>1
    <3>. QED
      BY <3>3, <3>4
  <2>. QED
    BY <2>3, <2>4, <2>5
<1>. HIDE DEF T
<1>3. n \in T
  BY <1>1, <1>2, AllNaturals
<1>. QED
  BY <1>3 DEF T

-----------------------------------------------------------------------------
(* Sequences of sequences.                                                 *)

\* Joining goes from left to right.
LEMMA FlattenIs ==
    ASSUME NEW S, NEW n \in Nat, NEW ss \in [1..n -> Seq(S)],
           NEW f \in [0..n -> Seq(S)],
           f[0] = <<>>, \A i \in 1..n : f[i] = f[i - 1] \o ss[i]
    PROVE  FlattenSeq(ss) = f[n]
<1>. DEFINE Step(h, i) == IF i = 1 THEN ss[i] ELSE h[i - 1] \o ss[i]
            Joins(h) == h = [i \in 1..n |-> Step(h, i)]
<1>0. Len(ss) = n
  OBVIOUS
<1>1. CASE n = 0
  <2>1. ss = <<>>
    BY <1>1
  <2>. QED
    BY <1>0, <1>1, <2>1 DEF FlattenSeq
<1>2. CASE n # 0
  <2>. DEFINE part == [i \in 1..n |-> f[i]]
  <2>1. f[1] = ss[1]
    <3>1. 1 \in 1..n /\ ss[1] \in Seq(S) /\ 1 - 1 = 0
      BY <1>2
    <3>2. f[1] = <<>> \o ss[1]
      BY <3>1
    <3>. QED
      BY <3>1, <3>2, ConcatEmptySeq
  <2>2. Joins(part)
    <3>1. ASSUME NEW i \in 1..n PROVE f[i] = Step(part, i)
      <4>1. CASE i = 1
        BY <2>1, <4>1
      <4>2. CASE i # 1
        <5>1. i - 1 \in 1..n
          BY <4>2
        <5>. QED
          BY <4>2, <5>1
      <4>. QED
        BY <4>1, <4>2
    <3>. HIDE DEF Step
    <3>. QED
      BY <3>1
  <2>3. ASSUME NEW h, Joins(h) PROVE h[n] = f[n]
    <3>. DEFINE T == {i \in Nat : i \in 1..n => h[i] = f[i]}
    <3>1. 0 \in T
      OBVIOUS
    <3>2. ASSUME NEW i \in Nat, i \in T PROVE i + 1 \in T
      <4>. SUFFICES ASSUME i + 1 \in 1..n PROVE h[i + 1] = f[i + 1]
        OBVIOUS
      <4>1. h[i + 1] = Step(h, i + 1)
        <5>. HIDE DEF Step
        <5>. QED
          BY <2>3
      <4>2. CASE i = 0
        BY <2>1, <4>1, <4>2
      <4>3. CASE i # 0
        <5>1. i \in 1..n /\ i + 1 # 1 /\ i + 1 - 1 = i
          BY <4>3
        <5>2. h[i] = f[i]
          BY <3>2, <5>1
        <5>3. f[i + 1] = f[i] \o ss[i + 1]
          <6>. DEFINE k == i + 1
          <6>1. k \in 1..n /\ k - 1 = i
            BY <5>1
          <6>. HIDE DEF k
          <6>2. f[k] = f[i] \o ss[k]
            BY <6>1
          <6>. QED
            BY <6>2 DEF k
        <5>4. Step(h, i + 1) = h[i] \o ss[i + 1]
          <6>. DEFINE k == i + 1
          <6>1. k # 1 /\ k - 1 = i
            BY <5>1
          <6>. HIDE DEF k
          <6>2. Step(h, k) = h[i] \o ss[k]
            BY <6>1
          <6>. QED
            BY <6>2 DEF k
        <5>. HIDE DEF Step
        <5>. QED
          BY <4>1, <5>2, <5>3, <5>4
      <4>. QED
        BY <4>2, <4>3
    <3>. HIDE DEF T
    <3>3. n \in T
      BY <3>1, <3>2, AllNaturals
    <3>. QED
      BY <1>2, <3>3 DEF T
  <2>4. FlattenSeq(ss) = (CHOOSE h : Joins(h))[n]
    BY <1>0, <1>2 DEF FlattenSeq
  <2>5. Joins(CHOOSE h : Joins(h))
    <3>. HIDE DEF Joins
    <3>. QED
      BY <2>2
  <2>. QED
    BY <2>3, <2>4, <2>5
<1>. QED
  BY <1>1, <1>2

\* Sequences joined are a sequence, and the last of them comes last.
LEMMA FlattenStep ==
    ASSUME NEW S, NEW n \in Nat, NEW ss \in [1..(n + 1) -> Seq(S)]
    PROVE  /\ FlattenSeq([i \in 1..n |-> ss[i]]) \in Seq(S)
           /\ FlattenSeq(ss) = FlattenSeq([i \in 1..n |-> ss[i]]) \o ss[n + 1]
<1>. DEFINE N == n + 1
            X == Seq(S)
            g == [p \in X \X (1..N) |-> p[1] \o ss[p[2]]]
            tt == [i \in 1..n |-> ss[i]]
<1>0. N \in Nat /\ N = n + 1 /\ ss \in [1..N -> Seq(S)]
  OBVIOUS
<1>. HIDE DEF N
<1>1. g \in [X \X (1..N) -> X] /\ <<>> \in X
  <2>1. ASSUME NEW p \in X \X (1..N) PROVE p[1] \o ss[p[2]] \in X
    <3>1. p[1] \in Seq(S) /\ ss[p[2]] \in Seq(S)
      BY <1>0
    <3>. QED
      BY <3>1, ConcatProperties
  <2>. QED
    BY <2>1
<1>2. PICK f \in [0..N -> X] :
         f[0] = <<>> /\ \A i \in 1..N : f[i] = g[<<f[i - 1], i>>]
  <2>. HIDE DEF X, g
  <2>1. \E f \in [0..N -> X] : Follows(f, N, <<>>, g)
    BY <1>0, <1>1, Recursion
  <2>. QED
    BY <2>1 DEF Follows
<1>3. \A i \in 1..N : i - 1 \in 0..N /\ f[i] = f[i - 1] \o ss[i]
  <2>. TAKE i \in 1..N
  <2>1. i - 1 \in 0..N
    BY <1>0
  <2>2. <<f[i - 1], i>> \in X \X (1..N)
    BY <1>2, <2>1
  <2>. QED
    BY <1>2, <2>1, <2>2
<1>4. FlattenSeq(ss) = f[N]
  <2>1. \A i \in 1..N : f[i] = f[i - 1] \o ss[i]
    BY <1>3
  <2>2. f \in [0..N -> Seq(S)] /\ f[0] = <<>>
    BY <1>2
  <2>. QED
    BY <1>0, <2>1, <2>2, FlattenIs
<1>5. FlattenSeq(tt) = f[n]
  <2>. DEFINE h == [i \in 0..n |-> f[i]]
  <2>1. h \in [0..n -> Seq(S)] /\ h[0] = <<>> /\ tt \in [1..n -> Seq(S)] /\ h[n] = f[n]
    BY <1>0, <1>2
  <2>2. \A i \in 1..n : h[i] = h[i - 1] \o tt[i]
    <3>. TAKE i \in 1..n
    <3>1. i \in 1..N /\ i - 1 \in 0..n /\ i \in 0..n
      BY <1>0
    <3>. QED
      BY <1>3, <3>1
  <2>. HIDE DEF h, tt
  <2>. QED
    BY <2>1, <2>2, FlattenIs
<1>6. N \in 1..N /\ N - 1 = n /\ n \in 0..N
  BY <1>0
<1>7. f[N] = f[n] \o ss[N] /\ f[n] \in Seq(S)
  BY <1>2, <1>3, <1>6
<1>. HIDE DEF tt
<1>8. FlattenSeq(tt) \in Seq(S) /\ FlattenSeq(ss) = FlattenSeq(tt) \o ss[N]
  BY <1>4, <1>5, <1>7
<1>. QED
  BY <1>0, <1>8 DEF tt

\* Nothing joined is nothing.
LEMMA FlattenEmpty == FlattenSeq(<<>>) = <<>>
BY DEF FlattenSeq

\* Sequences joined are a sequence.
LEMMA FlattenType ==
    ASSUME NEW S, NEW n \in Nat, NEW ss \in [1..n -> Seq(S)]
    PROVE  FlattenSeq(ss) \in Seq(S)
<1>. DEFINE tt == [i \in 1..(n + 1) |-> IF i = n + 1 THEN <<>> ELSE ss[i]]
<1>1. tt \in [1..(n + 1) -> Seq(S)] /\ [i \in 1..n |-> tt[i]] = ss
  OBVIOUS
<1>. HIDE DEF tt
<1>. QED
  BY <1>1, FlattenStep

\* The n of ss are the m of uu and empty ones.
Pads(S, ss, n, uu, m) ==
    /\ n \in Nat /\ ss \in [1..n -> Seq(S)]
    /\ m \in 0..n /\ uu \in [1..m -> Seq(S)]
    /\ \A i \in 1..m : ss[i] = uu[i]
    /\ \A i \in (m + 1)..n : ss[i] = <<>>

\* Empty sequences at the end add nothing.
LEMMA FlattenEmptyTail ==
    ASSUME NEW S, NEW ss, NEW n, NEW uu, NEW m, Pads(S, ss, n, uu, m)
    PROVE  FlattenSeq(ss) = FlattenSeq(uu)
<1>. USE DEF Pads
<1>. DEFINE upto(k) == [i \in 1..k |-> ss[i]]
            T == {k \in Nat : m + k <= n => FlattenSeq(upto(m + k)) = FlattenSeq(upto(m))}
<1>1. 0 \in T
  OBVIOUS
<1>2. ASSUME NEW k \in Nat, k \in T PROVE k + 1 \in T
  <2>. SUFFICES ASSUME m + (k + 1) <= n
                PROVE  FlattenSeq(upto(m + (k + 1))) = FlattenSeq(upto(m))
    OBVIOUS
  <2>. DEFINE j == m + k
              tt == upto(j + 1)
  <2>1. /\ j \in Nat /\ m + (k + 1) = j + 1 /\ j + 1 \in (m + 1)..n
        /\ tt \in [1..(j + 1) -> Seq(S)] /\ tt[j + 1] = <<>>
        /\ [i \in 1..j |-> tt[i]] = upto(j)
    OBVIOUS
  <2>2. FlattenSeq(upto(j)) = FlattenSeq(upto(m))
    BY <1>2
  <2>. HIDE DEF j, upto, tt
  <2>3. /\ FlattenSeq(tt) = FlattenSeq(upto(j)) \o <<>>
        /\ FlattenSeq(upto(j)) \in Seq(S)
    BY <2>1, FlattenStep
  <2>4. FlattenSeq(tt) = FlattenSeq(upto(m))
    BY <2>2, <2>3, ConcatEmptySeq
  <2>. QED
    BY <2>1, <2>4 DEF tt
<1>. HIDE DEF T
<1>3. n - m \in T
  <2>1. n - m \in Nat
    OBVIOUS
  <2>. QED
    BY <1>1, <1>2, <2>1, AllNaturals
<1>4. FlattenSeq(upto(n)) = FlattenSeq(upto(m)) /\ upto(n) = ss
  <2>1. n - m \in Nat /\ m + (n - m) = n
    OBVIOUS
  <2>. QED
    BY <1>3, <2>1 DEF T
<1>5. upto(m) = uu
  <2>1. \A i \in 1..m : ss[i] = uu[i]
    OBVIOUS
  <2>. QED
    BY <2>1
<1>. QED
  BY <1>4, <1>5

-----------------------------------------------------------------------------
(* Escapes.                                                                *)

\* The last byte of s begins an escape.
Pending(s) == s # <<>> /\ Opens(s, Len(s))

\* What a byte with the ones before it is passed on as (the part of Passed).
Piece(s, i) ==
    IF Opens(s, i) THEN <<>>
    ELSE IF i > 1 /\ s[i] # "~" /\ Opens(s, i - 1) THEN <<"~", s[i]>>
    ELSE <<s[i]>>

\* A byte begins an escape if it is a ~ and the one before it does not.
LEMMA OpensNext ==
    ASSUME NEW s, NEW i \in Nat, i >= 1
    PROVE  Opens(s, i) <=> s[i] = "~" /\ ~ (i > 1 /\ Opens(s, i - 1))
<1>. DEFINE Run(k) == {j \in 1..k : \A m \in j..k : s[m] = "~"}
<1>1. \A k \in Nat : IsFiniteSet(Run(k)) /\ Cardinality(Run(k)) \in Nat
  <2>. TAKE k \in Nat
  <2>1. Run(k) \in SUBSET (1..k) /\ IsFiniteSet(1..k)
    BY FS_Interval
  <2>. HIDE DEF Run
  <2>. QED
    BY <2>1, FS_Subset, FS_CardinalityType
<1>2. \A k \in Nat : Opens(s, k) <=> s[k] = "~" /\ Cardinality(Run(k)) % 2 = 1
  BY DEF Opens
<1>3. CASE s[i] # "~"
  BY <1>3 DEF Opens
<1>4. CASE s[i] = "~"
  <2>. DEFINE p == i - 1
  <2>0. p \in Nat /\ i = p + 1
    OBVIOUS
  <2>1. Run(i) = Run(p) \cup {i} /\ i \notin Run(p)
    <3>1. ASSUME NEW j \in Run(i) PROVE j \in Run(p) \cup {i}
      <4>1. j \in 1..i /\ \A m \in j..i : s[m] = "~"
        OBVIOUS
      <4>. QED
        BY <2>0, <4>1
    <3>2. ASSUME NEW j \in Run(p) PROVE j \in Run(i)
      <4>1. j \in 1..p /\ \A m \in j..p : s[m] = "~"
        OBVIOUS
      <4>2. \A m \in j..i : m \in j..p \/ m = i
        BY <2>0, <4>1
      <4>. QED
        BY <1>4, <2>0, <4>1, <4>2
    <3>3. i \in Run(i) /\ i \notin Run(p)
      BY <1>4, <2>0
    <3>. HIDE DEF Run, p
    <3>. QED
      BY <3>1, <3>2, <3>3
  <2>. HIDE DEF Run, p
  <2>2. Cardinality(Run(i)) = Cardinality(Run(p)) + 1
    BY <1>1, <2>0, <2>1, FS_AddElement
  <2>3. CASE i > 1 /\ s[p] = "~"
    <3>. DEFINE c == Cardinality(Run(p))
    <3>1. c \in Nat /\ Cardinality(Run(i)) = c + 1
      BY <1>1, <2>0, <2>2
    <3>2. /\ Opens(s, p) <=> c % 2 = 1
          /\ Opens(s, i) <=> Cardinality(Run(i)) % 2 = 1
      BY <1>2, <1>4, <2>0, <2>3
    <3>. HIDE DEF c
    <3>3. (c + 1) % 2 = 1 <=> ~ (c % 2 = 1)
      BY <3>1
    <3>. QED
      BY <1>4, <2>3, <3>1, <3>2, <3>3 DEF p
  <2>4. CASE ~ (i > 1 /\ s[p] = "~")
    <3>1. Run(p) = {}
      <4>1. ASSUME NEW j \in Run(p) PROVE FALSE
        <5>1. j \in 1..p /\ p \in j..p /\ s[p] = "~"
          BY <2>0 DEF Run
        <5>. QED
          BY <2>0, <2>4, <5>1
      <4>. QED
        BY <4>1
    <3>2. Cardinality(Run(i)) = 1
      BY <2>2, <3>1, FS_EmptySet
    <3>3. Opens(s, i)
      BY <1>2, <1>4, <3>2
    <3>4. ~ (i > 1 /\ Opens(s, p))
      BY <2>4 DEF Opens
    <3>. QED
      BY <1>4, <3>3, <3>4 DEF p
  <2>. QED
    BY <2>3, <2>4
<1>. QED
  BY <1>3, <1>4

\* What comes after a byte does not matter to it.
LEMMA OpensEarlier ==
    ASSUME NEW s, NEW t, NEW n \in Nat, \A i \in 1..n : t[i] = s[i], NEW i \in 1..n
    PROVE  Opens(t, i) <=> Opens(s, i)
<1>1. {j \in 1..i : \A k \in j..i : t[k] = "~"} = {j \in 1..i : \A k \in j..i : s[k] = "~"}
  <2>1. \A j \in 1..i : \A k \in j..i : t[k] = s[k]
    OBVIOUS
  <2>. QED
    BY <2>1
<1>. QED
  BY <1>1 DEF Opens

\* A byte more detaches if it is a dot and an escape is pending.
LEMMA StopsAppend ==
    ASSUME NEW s \in Seq(Bytes), NEW b \in Bytes
    PROVE  Stops(Append(s, b)) =
             Stops(s) \cup (IF b = "." /\ Pending(s) THEN {Len(s) + 1} ELSE {})
<1>. DEFINE n == Len(s)
            t == Append(s, b)
<1>1. n \in Nat /\ Len(t) = n + 1 /\ t[n + 1] = b /\ \A i \in 1..n : t[i] = s[i]
  BY AppendProperties
<1>2. n = 0 <=> s = <<>>
  OBVIOUS
<1>3. Pending(s) <=> n >= 1 /\ Opens(s, n)
  BY <1>1, <1>2 DEF Pending
<1>4. /\ Stops(s) = {i \in 2..n : s[i] = "." /\ Opens(s, i - 1)}
      /\ Stops(t) = {i \in 2..(n + 1) : t[i] = "." /\ Opens(t, i - 1)}
  BY <1>1 DEF Stops
<1>. HIDE DEF n, t
<1>5. \A i \in 1..n : Opens(t, i) <=> Opens(s, i)
  BY <1>1, OpensEarlier
<1>6. \A i \in 2..n : t[i] = s[i] /\ (Opens(t, i - 1) <=> Opens(s, i - 1)) /\ i \in 2..(n + 1)
  BY <1>1, <1>5
<1>7. n + 1 \in Stops(t) <=> b = "." /\ n >= 1 /\ Opens(s, n)
  <2>1. n + 1 - 1 = n /\ (n + 1 \in 2..(n + 1) <=> n >= 1)
    BY <1>1
  <2>2. n >= 1 => (Opens(t, n) <=> Opens(s, n))
    BY <1>1, <1>5
  <2>. QED
    BY <1>1, <1>4, <2>1, <2>2
<1>8. \A i \in Stops(t) : i = n + 1 \/ i \in Stops(s)
  BY <1>1, <1>4, <1>6
<1>9. \A i \in Stops(s) : i \in Stops(t)
  BY <1>1, <1>4, <1>6
<1>10. Stops(t) = Stops(s) \cup (IF b = "." /\ Pending(s) THEN {n + 1} ELSE {})
  <2>. HIDE DEF Stops
  <2>1. CASE b = "." /\ Pending(s)
    BY <1>3, <1>7, <1>8, <1>9, <2>1
  <2>2. CASE ~ (b = "." /\ Pending(s))
    BY <1>3, <1>7, <1>8, <1>9, <2>2
  <2>. QED
    BY <2>1, <2>2
<1>. QED
  BY <1>10 DEF n, t

\* A byte more is pending if it is a ~ and none was.
LEMMA PendingAppend ==
    ASSUME NEW s \in Seq(Bytes), NEW b \in Bytes
    PROVE  Pending(Append(s, b)) <=> b = "~" /\ ~ Pending(s)
<1>. DEFINE n == Len(s)
            t == Append(s, b)
<1>1. /\ n \in Nat /\ Len(t) = n + 1 /\ t[n + 1] = b /\ t # <<>>
      /\ \A i \in 1..n : t[i] = s[i]
  BY AppendProperties
<1>2. Pending(t) <=> Opens(t, n + 1)
  BY <1>1 DEF Pending
<1>3. Pending(s) <=> n >= 1 /\ Opens(s, n)
  <2>1. n = 0 <=> s = <<>>
    OBVIOUS
  <2>. QED
    BY <1>1, <2>1 DEF Pending
<1>. HIDE DEF n, t
<1>4. Opens(t, n + 1) <=> b = "~" /\ ~ (n >= 1 /\ Opens(t, n))
  <2>. DEFINE m == n + 1
  <2>1. m \in Nat /\ m >= 1 /\ m - 1 = n /\ (m > 1 <=> n >= 1) /\ t[m] = b
    BY <1>1
  <2>. HIDE DEF m
  <2>2. Opens(t, m) <=> t[m] = "~" /\ ~ (m > 1 /\ Opens(t, m - 1))
    BY <2>1, OpensNext
  <2>. QED
    BY <2>1, <2>2 DEF m
<1>5. n >= 1 => (Opens(t, n) <=> Opens(s, n))
  <2>. SUFFICES ASSUME n >= 1 PROVE Opens(t, n) <=> Opens(s, n)
    OBVIOUS
  <2>1. n \in 1..n
    BY <1>1
  <2>. QED
    BY <1>1, <2>1, OpensEarlier
<1>. QED
  BY <1>2, <1>3, <1>4, <1>5 DEF t

\* A later stop does not change which is the first.
LEMMA MinIs ==
    ASSUME NEW T \in SUBSET Nat, T # {}, NEW U \in SUBSET Nat,
           T \subseteq U, \A m \in U \ T : \A n \in T : n < m
    PROVE  Min(T) \in T /\ Min(U) = Min(T)
<1>1. PICK n \in T : \A m \in T : n <= m
  BY LeastNatural
<1>2. \A x \in T : (\A m \in T : x <= m) => x = n
  BY <1>1
<1>3. Min(T) = n
  BY <1>1, <1>2 DEF Min
<1>4. \A m \in U : n <= m
  BY <1>1
<1>5. \A x \in U : (\A m \in U : x <= m) => x = n
  BY <1>1, <1>4
<1>6. Min(U) = n
  BY <1>1, <1>4, <1>5 DEF Min
<1>. QED
  BY <1>1, <1>3, <1>6

\* How far Passed goes.
End(s) == IF Stops(s) = {} THEN Len(s) ELSE Min(Stops(s)) - 1

\* Passed joins the pieces up to there.
LEMMA PassedIs == ASSUME NEW s PROVE Passed(s) = FlattenSeq([i \in 1..End(s) |-> Piece(s, i)])
BY DEF Passed, Piece, End

\* A piece is a sequence of bytes.
LEMMA PieceType ==
    ASSUME NEW s \in Seq(Bytes), NEW i \in 1..Len(s)
    PROVE  Piece(s, i) \in Seq(Bytes)
<1>1. s[i] \in Bytes /\ "~" \in Bytes
  BY DEF Bytes
<1>. QED
  BY <1>1 DEF Piece

\* What comes after a byte does not matter to its piece.
LEMMA PieceEarlier ==
    ASSUME NEW s, NEW t, NEW n \in Nat, \A i \in 1..n : t[i] = s[i], NEW i \in 1..n
    PROVE  Piece(t, i) = Piece(s, i)
<1>1. t[i] = s[i] /\ (Opens(t, i) <=> Opens(s, i))
  BY OpensEarlier
<1>2. i > 1 => (Opens(t, i - 1) <=> Opens(s, i - 1))
  <2>1. i > 1 => i - 1 \in 1..n
    OBVIOUS
  <2>. QED
    BY <2>1, OpensEarlier
<1>. QED
  BY <1>1, <1>2 DEF Piece

\* It goes no further than what there is.
LEMMA EndIn ==
    ASSUME NEW s \in Seq(Bytes)
    PROVE  End(s) \in 0..Len(s) /\ Passed(s) \in Seq(Bytes)
<1>1. End(s) \in 0..Len(s)
  <2>1. CASE Stops(s) = {}
    BY <2>1, LenProperties DEF End
  <2>2. CASE Stops(s) # {}
    <3>1. Stops(s) \in SUBSET Nat /\ Stops(s) \subseteq 2..Len(s) /\ Len(s) \in Nat
      BY LenProperties DEF Stops
    <3>2. Min(Stops(s)) \in Stops(s)
      BY <2>2, <3>1, MinIs
    <3>. HIDE DEF Stops
    <3>3. Min(Stops(s)) \in 2..Len(s)
      BY <3>1, <3>2
    <3>4. End(s) = Min(Stops(s)) - 1
      BY <2>2 DEF End
    <3>. QED
      BY <3>1, <3>3, <3>4
  <2>. QED
    BY <2>1, <2>2
<1>2. Passed(s) \in Seq(Bytes)
  <2>. DEFINE n == End(s)
              ss == [i \in 1..n |-> Piece(s, i)]
  <2>1. \A i \in 1..n : Piece(s, i) \in Seq(Bytes)
    BY <1>1, PieceType, LenProperties
  <2>2. n \in Nat /\ ss \in [1..n -> Seq(Bytes)]
    BY <1>1, <2>1, LenProperties
  <2>. HIDE DEF n, ss
  <2>3. FlattenSeq(ss) \in Seq(Bytes)
    BY <2>2, FlattenType
  <2>. QED
    BY <2>3, PassedIs DEF n, ss
<1>. QED
  BY <1>1, <1>2

\* What is passed on because of one byte more.
Passes(s, b) ==
    IF b \in {".", "~"} /\ (b = "." <=> Pending(s)) THEN <<>>
    ELSE IF b # "~" /\ Pending(s) THEN <<"~", b>>
    ELSE <<b>>

\* One byte more, and what Passed has more.
LEMMA PassedAppend ==
    ASSUME NEW s \in Seq(Bytes), NEW b \in Bytes
    PROVE  Passed(Append(s, b)) =
             IF Stops(s) # {} THEN Passed(s) ELSE Passed(s) \o Passes(s, b)
<1>. DEFINE n == Len(s)
            t == Append(s, b)
<1>1. /\ n \in Nat /\ Len(t) = n + 1 /\ t[n + 1] = b /\ t \in Seq(Bytes)
      /\ \A i \in 1..n : t[i] = s[i]
  BY AppendProperties
<1>2. n = 0 <=> s = <<>>
  OBVIOUS
<1>3. Pending(s) <=> n >= 1 /\ Opens(s, n)
  BY <1>1, <1>2 DEF Pending
<1>4. Stops(t) = Stops(s) \cup (IF b = "." /\ Pending(s) THEN {n + 1} ELSE {})
  BY StopsAppend
<1>5. Stops(s) \in SUBSET (2..n)
  BY DEF Stops
<1>6. End(s) \in 0..n /\ Passed(s) \in Seq(Bytes)
  BY EndIn
<1>7. Stops(s) = {} => End(s) = n
  BY DEF End
<1>8. Stops(t) = {} => End(t) = n + 1
  BY <1>1 DEF End
<1>. HIDE DEF n, t
<1>9. [i \in 1..End(s) |-> Piece(t, i)] = [i \in 1..End(s) |-> Piece(s, i)]
  <2>1. \A i \in 1..End(s) : i \in 1..n
    BY <1>1, <1>6
  <2>2. \A i \in 1..End(s) : Piece(t, i) = Piece(s, i)
    BY <1>1, <2>1, PieceEarlier
  <2>. QED
    BY <2>2
<1>10. End(t) = End(s) => Passed(t) = Passed(s)
  <2>. SUFFICES ASSUME End(t) = End(s) PROVE Passed(t) = Passed(s)
    OBVIOUS
  <2>. QED
    BY <1>9, PassedIs
<1>11. CASE Stops(s) # {}
  <2>1. Stops(s) \in SUBSET Nat /\ Stops(t) \in SUBSET Nat /\ Stops(s) \subseteq Stops(t)
    <3>1. n + 1 \in Nat /\ 2..n \subseteq Nat
      BY <1>1
    <3>. QED
      BY <1>4, <1>5, <3>1
  <2>2. \A m \in Stops(t) \ Stops(s) : \A k \in Stops(s) : k < m
    <3>1. \A k \in Stops(s) : k < n + 1
      BY <1>1, <1>5
    <3>. QED
      BY <1>4, <3>1
  <2>. HIDE DEF Stops
  <2>3. Min(Stops(t)) = Min(Stops(s))
    BY <1>11, <2>1, <2>2, MinIs
  <2>4. End(t) = End(s)
    BY <1>11, <2>1, <2>3 DEF End
  <2>. QED
    BY <1>10, <1>11, <2>4 DEF t
<1>12. CASE Stops(s) = {} /\ b = "." /\ Pending(s)
  <2>1. Stops(t) = {n + 1}
    BY <1>4, <1>12
  <2>2. Min({n + 1}) = n + 1
    BY <1>1 DEF Min
  <2>3. End(t) = n
    BY <1>1, <2>1, <2>2 DEF End
  <2>4. Passes(s, b) = <<>>
    BY <1>12 DEF Passes
  <2>. QED
    BY <1>6, <1>7, <1>10, <1>12, <2>3, <2>4, ConcatEmptySeq DEF t
<1>13. CASE Stops(s) = {} /\ ~ (b = "." /\ Pending(s))
  <2>1. Stops(t) = {}
    BY <1>4, <1>13
  <2>2. End(t) = n + 1 /\ End(s) = n
    BY <1>7, <1>8, <1>13, <2>1
  <2>3. Piece(t, n + 1) = Passes(s, b)
    <3>1. Opens(t, n + 1) <=> b = "~" /\ ~ Pending(s)
      <4>1. Pending(t) <=> Opens(t, n + 1)
        <5>1. t # <<>>
          BY <1>1
        <5>. QED
          BY <1>1, <5>1 DEF Pending
      <4>. QED
        BY <4>1, PendingAppend DEF t
    <3>2. n >= 1 => (Opens(t, n) <=> Opens(s, n))
      <4>. SUFFICES ASSUME n >= 1 PROVE Opens(t, n) <=> Opens(s, n)
        OBVIOUS
      <4>1. n \in 1..n
        BY <1>1
      <4>. QED
        BY <1>1, <4>1, OpensEarlier
    <3>3. (n + 1 > 1 <=> n >= 1) /\ n + 1 - 1 = n
      BY <1>1
    <3>4. Piece(t, n + 1) = IF b = "~" /\ ~ Pending(s) THEN <<>>
                            ELSE IF b # "~" /\ Pending(s) THEN <<"~", b>>
                            ELSE <<b>>
      BY <1>1, <1>3, <3>1, <3>2, <3>3 DEF Piece
    <3>. QED
      BY <1>13, <3>4 DEF Passes
  <2>. DEFINE ss == [i \in 1..(n + 1) |-> Piece(t, i)]
  <2>4. ss \in [1..(n + 1) -> Seq(Bytes)] /\ ss[n + 1] = Passes(s, b)
    <3>1. \A i \in 1..(n + 1) : Piece(t, i) \in Seq(Bytes)
      BY <1>1, PieceType
    <3>2. n + 1 \in 1..(n + 1)
      BY <1>1
    <3>. QED
      BY <2>3, <3>1, <3>2
  <2>5. [i \in 1..n |-> ss[i]] = [i \in 1..n |-> Piece(s, i)]
    <3>1. \A i \in 1..n : i \in 1..(n + 1)
      BY <1>1
    <3>2. [i \in 1..n |-> ss[i]] = [i \in 1..n |-> Piece(t, i)]
      BY <3>1
    <3>. QED
      BY <1>9, <2>2, <3>2
  <2>. HIDE DEF ss
  <2>6. FlattenSeq(ss) = FlattenSeq([i \in 1..n |-> ss[i]]) \o ss[n + 1]
    BY <1>1, <2>4, FlattenStep
  <2>7. Passed(t) = FlattenSeq(ss)
    BY <2>2, PassedIs DEF ss
  <2>8. Passed(s) = FlattenSeq([i \in 1..n |-> Piece(s, i)])
    BY <2>2, PassedIs
  <2>. QED
    BY <1>13, <2>4, <2>5, <2>6, <2>7, <2>8 DEF t
<1>. QED
  BY <1>11, <1>12, <1>13

\* Nothing typed, nothing passed on.
LEMMA NothingPassed == Passed(<<>>) = <<>> /\ Stops(<<>>) = {} /\ ~ Pending(<<>>)
<1>1. Stops(<<>>) = {} /\ ~ Pending(<<>>)
  BY DEF Stops, Pending
<1>2. End(<<>>) = 0
  BY <1>1 DEF End
<1>3. [i \in 1..0 |-> Piece(<<>>, i)] = <<>>
  OBVIOUS
<1>. QED
  BY <1>1, <1>2, <1>3, PassedIs, FlattenEmpty

-----------------------------------------------------------------------------
(* What run_console_session does with a byte, and with a chunk.            *)

\* The states of the loop over the bytes of a chunk.
ByteStates == [out : Seq(Bytes), escape : BOOLEAN, stop : BOOLEAN]

\* After s was typed, of which w was written before, this is the state.
Right(st, s, w) ==
    /\ w \o st.out = Passed(s)
    /\ st.stop <=> Stops(s) # {}
    /\ ~ st.stop => (st.escape <=> Pending(s))

\* Joining is associative.
LEMMA JoinedBytes ==
    \A u, v, w \in Seq(Bytes) : (u \o v) \o w = u \o (v \o w)
BY ConcatAssociative

\* A step of the loop.
LEMMA ByteRight ==
    ASSUME NEW st \in ByteStates, NEW s \in Seq(Bytes), NEW w \in Seq(Bytes),
           NEW b \in Bytes, Right(st, s, w)
    PROVE  Byte(st, b) \in ByteStates /\ Right(Byte(st, b), Append(s, b), w)
<1>. DEFINE t == Append(s, b)
<1>0. st.out \in Seq(Bytes) /\ st.escape \in BOOLEAN /\ st.stop \in BOOLEAN
  BY DEF ByteStates
<1>1. /\ Passed(t) = IF Stops(s) # {} THEN Passed(s) ELSE Passed(s) \o Passes(s, b)
      /\ Stops(t) = Stops(s) \cup (IF b = "." /\ Pending(s) THEN {Len(s) + 1} ELSE {})
      /\ Pending(t) <=> b = "~" /\ ~ Pending(s)
  BY PassedAppend, StopsAppend, PendingAppend
<1>. HIDE DEF t
<1>2. CASE st.stop
  <2>1. Byte(st, b) = st
    BY <1>2 DEF Byte
  <2>2. Stops(s) # {} /\ Stops(t) # {} /\ Passed(t) = Passed(s)
    BY <1>1, <1>2 DEF Right
  <2>. QED
    BY <1>2, <2>1, <2>2 DEF Right, t
<1>3. CASE ~ st.stop
  <2>1. /\ Stops(s) = {} /\ Passed(t) = Passed(s) \o Passes(s, b)
        /\ Stops(t) # {} <=> b = "." /\ Pending(s)
        /\ st.escape <=> Pending(s)
        /\ Passed(s) = w \o st.out
    BY <1>1, <1>3 DEF Right
  <2>. DEFINE r == Byte(st, b)
  <2>2. /\ r \in [out : {r.out}, escape : BOOLEAN, stop : BOOLEAN]
        /\ r.out = st.out \o Passes(s, b)
        /\ r.escape <=> b = "~" /\ ~ Pending(s)
        /\ r.stop <=> b = "." /\ Pending(s)
    <3>1. CASE ~ st.escape /\ b = "~"
      <4>1. Passes(s, b) = <<>>
        BY <2>1, <3>1 DEF Passes
      <4>2. st.out \o <<>> = st.out
        BY <1>0, ConcatEmptySeq
      <4>3. r = [st EXCEPT !.escape = TRUE]
        BY <1>3, <3>1 DEF Byte
      <4>4. r = [out |-> st.out, escape |-> TRUE, stop |-> FALSE]
        BY <1>0, <1>3, <4>3 DEF ByteStates
      <4>. HIDE DEF r
      <4>. QED
        BY <2>1, <3>1, <4>1, <4>2, <4>4
    <3>2. CASE ~ st.escape /\ b # "~"
      <4>1. Passes(s, b) = <<b>>
        BY <2>1, <3>2 DEF Passes
      <4>2. Append(st.out, b) = st.out \o <<b>>
        BY <1>0, AppendIsConcat
      <4>3. r = [st EXCEPT !.out = Append(@, b)]
        BY <1>3, <3>2 DEF Byte
      <4>4. r = [out |-> Append(st.out, b), escape |-> FALSE, stop |-> FALSE]
        BY <1>0, <1>3, <3>2, <4>3 DEF ByteStates
      <4>. HIDE DEF r
      <4>. QED
        BY <2>1, <3>2, <4>1, <4>2, <4>4
    <3>3. CASE st.escape
      <4>1. r = [out |-> IF b = "." THEN st.out
                         ELSE IF b = "~" THEN Append(st.out, "~")
                         ELSE st.out \o <<"~", b>>,
                 escape |-> FALSE,
                 stop |-> b = "."]
        BY <1>3, <3>3 DEF Byte
      <4>. HIDE DEF r
      <4>2. /\ st.out \o <<>> = st.out
            /\ Append(st.out, "~") = st.out \o <<"~">>
        <5>1. "~" \in Bytes
          BY DEF Bytes
        <5>. QED
          BY <1>0, <5>1, ConcatEmptySeq, AppendIsConcat
      <4>3. r.out = st.out \o Passes(s, b)
        <5>1. CASE b = "."
          <6>1. Passes(s, b) = <<>> /\ r.out = st.out
            BY <2>1, <3>3, <4>1, <5>1 DEF Passes
          <6>. QED
            BY <4>2, <6>1
        <5>2. CASE b = "~"
          <6>1. Passes(s, b) = <<"~">> /\ r.out = Append(st.out, "~")
            BY <2>1, <3>3, <4>1, <5>2 DEF Passes
          <6>. QED
            BY <4>2, <6>1
        <5>3. CASE b # "." /\ b # "~"
          <6>1. Passes(s, b) = <<"~", b>> /\ r.out = st.out \o <<"~", b>>
            BY <2>1, <3>3, <4>1, <5>3 DEF Passes
          <6>. QED
            BY <6>1
        <5>. QED
          BY <5>1, <5>2, <5>3
      <4>4. r \in [out : {r.out}, escape : BOOLEAN, stop : BOOLEAN]
        BY <4>1
      <4>5. r.escape = FALSE /\ (r.stop <=> b = ".")
        BY <4>1
      <4>. QED
        BY <2>1, <3>3, <4>3, <4>4, <4>5
    <3>. HIDE DEF r
    <3>. QED
      BY <1>0, <3>1, <3>2, <3>3
  <2>3. Passes(s, b) \in Seq(Bytes)
    <3>1. "~" \in Bytes
      BY DEF Bytes
    <3>. QED
      BY <3>1 DEF Passes
  <2>. HIDE DEF r
  <2>4. w \o r.out = Passed(t)
    <3>. DEFINE o == st.out
                p == Passes(s, b)
    <3>1. o \in Seq(Bytes) /\ p \in Seq(Bytes) /\ Passed(t) = (w \o o) \o p /\ r.out = o \o p
      BY <1>0, <2>1, <2>2, <2>3
    <3>. HIDE DEF o, p
    <3>2. (w \o o) \o p = w \o (o \o p)
      BY <3>1, JoinedBytes
    <3>. QED
      BY <3>1, <3>2, Zenon
  <2>5. r \in ByteStates
    <3>1. st.out \o Passes(s, b) \in Seq(Bytes)
      BY <1>0, <2>3, ConcatProperties
    <3>. QED
      BY <2>2, <3>1 DEF ByteStates
  <2>6. Right(r, t, w)
    BY <1>1, <2>1, <2>2, <2>4 DEF Right
  <2>. QED
    BY <2>5, <2>6 DEF r, t
<1>. QED
  BY <1>0, <1>2, <1>3

\* One after the other, however they are cut up.
LEMMA ChunkRight ==
    ASSUME NEW escape \in BOOLEAN, NEW s \in Seq(Bytes), NEW w \in Seq(Bytes),
           NEW chunk \in Seq(Bytes),
           Right([out |-> <<>>, escape |-> escape, stop |-> FALSE], s, w)
    PROVE  /\ Chunk(escape, chunk) \in ByteStates
           /\ Right(Chunk(escape, chunk), s \o chunk, w)
<1>. DEFINE n == Len(chunk)
            first == [out |-> <<>>, escape |-> escape, stop |-> FALSE]
            Step(f, i) == IF i = 0 THEN [out |-> <<>>, escape |-> escape, stop |-> FALSE]
                          ELSE Byte(f[i - 1], chunk[i])
            Runs(f) == f = [i \in 0..n |-> Step(f, i)]
            g == [p \in ByteStates \X (1..n) |-> Byte(p[1], chunk[p[2]])]
<1>0. n \in Nat /\ \A i \in 1..n : chunk[i] \in Bytes
  OBVIOUS
<1>1. first \in ByteStates
  BY EmptySeq DEF ByteStates
<1>2. \A st \in ByteStates : \A b \in Bytes : Byte(st, b) \in ByteStates
  <2>. TAKE st \in ByteStates
  <2>. TAKE b \in Bytes
  <2>0. st.out \in Seq(Bytes) /\ st.escape \in BOOLEAN /\ st.stop \in BOOLEAN /\ "~" \in Bytes
    BY DEF ByteStates, Bytes
  <2>1. CASE st.stop
    BY <2>1 DEF Byte
  <2>2. CASE ~ st.stop /\ ~ st.escape
    BY <2>0, <2>2, AppendProperties DEF Byte, ByteStates
  <2>3. CASE ~ st.stop /\ st.escape
    <3>1. /\ Append(st.out, "~") \in Seq(Bytes)
          /\ st.out \o <<"~", b>> \in Seq(Bytes)
      BY <2>0, AppendProperties, ConcatProperties
    <3>. DEFINE o == IF b = "." THEN st.out
                     ELSE IF b = "~" THEN Append(st.out, "~")
                     ELSE st.out \o <<"~", b>>
    <3>2. o \in Seq(Bytes)
      BY <2>0, <3>1
    <3>3. Byte(st, b) = [out |-> o, escape |-> FALSE, stop |-> b = "."]
      BY <2>3 DEF Byte
    <3>. HIDE DEF o
    <3>. QED
      BY <3>2, <3>3 DEF ByteStates
  <2>. QED
    BY <2>0, <2>1, <2>2, <2>3
<1>3. g \in [ByteStates \X (1..n) -> ByteStates]
  <2>1. ASSUME NEW p \in ByteStates \X (1..n) PROVE Byte(p[1], chunk[p[2]]) \in ByteStates
    <3>1. p[1] \in ByteStates /\ chunk[p[2]] \in Bytes
      BY <1>0
    <3>. HIDE DEF ByteStates
    <3>. QED
      BY <1>2, <3>1
  <2>. QED
    BY <2>1
<1>4. \E f : Runs(f)
  <2>1. PICK f \in [0..n -> ByteStates] : Follows(f, n, first, g)
    <3>. HIDE DEF g, first, n, ByteStates
    <3>. QED
      BY <1>0, <1>1, <1>3, Recursion
  <2>2. ASSUME NEW i \in 0..n PROVE f[i] = Step(f, i)
    <3>1. CASE i = 0
      BY <2>1, <3>1 DEF Follows
    <3>2. CASE i # 0
      <4>1. i \in 1..n /\ i - 1 \in 0..n
        BY <1>0, <3>2
      <4>2. f[i] = g[<<f[i - 1], i>>] /\ <<f[i - 1], i>> \in ByteStates \X (1..n)
        BY <2>1, <4>1 DEF Follows
      <4>. QED
        BY <3>2, <4>2
    <3>. QED
      BY <3>1, <3>2
  <2>3. f = [i \in 0..n |-> f[i]]
    BY <2>1
  <2>. HIDE DEF Step, n
  <2>4. Runs(f)
    BY <2>2, <2>3
  <2>. QED
    BY <2>4
<1>5. PICK f : Runs(f) /\ Chunk(escape, chunk) = f[n]
  <2>1. Chunk(escape, chunk) = (CHOOSE f : Runs(f))[n]
    BY DEF Chunk
  <2>. HIDE DEF Runs
  <2>2. Runs(CHOOSE f : Runs(f))
    BY <1>4
  <2>. QED
    BY <2>1, <2>2
<1>. DEFINE part(i) == s \o SubSeq(chunk, 1, i)
            T == {i \in Nat : i <= n => f[i] \in ByteStates /\ Right(f[i], part(i), w)}
<1>6. 0 \in T
  <2>1. SubSeq(chunk, 1, 0) = <<>>
    BY SubSeqEmpty
  <2>2. part(0) = s
    BY <2>1, ConcatEmptySeq
  <2>3. f[0] = first
    BY <1>0, <1>5
  <2>. HIDE DEF part
  <2>. QED
    BY <1>1, <2>2, <2>3
<1>7. ASSUME NEW i \in Nat, i \in T PROVE i + 1 \in T
  <2>. SUFFICES ASSUME i + 1 <= n
                PROVE  f[i + 1] \in ByteStates /\ Right(f[i + 1], part(i + 1), w)
    OBVIOUS
  <2>. DEFINE j == i + 1
  <2>1. j \in 1..n /\ j \in 0..n /\ j # 0 /\ j - 1 = i /\ i \in 0..n /\ i <= n
    BY <1>0
  <2>. HIDE DEF j
  <2>2. f[j] = Byte(f[i], chunk[j])
    <3>. HIDE DEF n
    <3>1. f[j] = Step(f, j)
      <4>. HIDE DEF Step
      <4>. QED
        BY <1>5, <2>1
    <3>. QED
      BY <2>1, <3>1
  <2>3. part(i) \in Seq(Bytes) /\ part(j) = Append(part(i), chunk[j])
    <3>1. SubSeq(chunk, 1, j) = SubSeq(chunk, 1, i) \o <<chunk[j]>>
      <4>1. 1 \in 1..Len(chunk) /\ j \in 1..Len(chunk)
        BY <1>0, <2>1
      <4>. QED
        BY <2>1, <4>1, SubSeqRecursiveSecond
    <3>2. SubSeq(chunk, 1, i) \in Seq(Bytes)
      <4>1. \A k \in 1..i : chunk[k] \in Bytes
        BY <1>0, <2>1
      <4>. QED
        BY <4>1, SubSeqProperties
    <3>3. chunk[j] \in Bytes
      BY <1>0, <2>1
    <3>4. part(i) \in Seq(Bytes)
      BY <3>2, ConcatProperties
    <3>5. part(j) = part(i) \o <<chunk[j]>>
      <4>. DEFINE u == SubSeq(chunk, 1, i)
                  v == <<chunk[j]>>
      <4>1. v \in Seq(Bytes) /\ u \in Seq(Bytes)
        BY <3>2, <3>3
      <4>2. part(j) = s \o (u \o v) /\ part(i) = s \o u
        BY <3>1
      <4>. HIDE DEF u, v, part
      <4>3. (s \o u) \o v = s \o (u \o v)
        BY <4>1, JoinedBytes
      <4>4. part(j) = part(i) \o v
        BY <4>2, <4>3, Zenon
      <4>. QED
        BY <4>4 DEF v
    <3>. HIDE DEF part
    <3>. QED
      BY <3>3, <3>4, <3>5, AppendIsConcat
  <2>. HIDE DEF part
  <2>4. f[i] \in ByteStates /\ Right(f[i], part(i), w) /\ chunk[j] \in Bytes
    BY <1>0, <1>7, <2>1
  <2>5. f[j] \in ByteStates /\ Right(f[j], part(j), w)
    BY <2>2, <2>3, <2>4, ByteRight
  <2>. QED
    BY <2>5 DEF j
<1>. HIDE DEF T
<1>8. n \in T
  BY <1>0, <1>6, <1>7, AllNaturals
<1>9. part(n) = s \o chunk
  BY SubSeqFull
<1>10. f[n] \in ByteStates /\ Right(f[n], part(n), w)
  BY <1>0, <1>8 DEF T
<1>. HIDE DEF part, n
<1>. QED
  BY <1>5, <1>9, <1>10

-----------------------------------------------------------------------------
(* Backspaces.                                                             *)

\* The backspaces after i up to j.
Backs(s, i, j) == {k \in (i + 1)..j : s[k] = "bs"}

\* What is left of s.
Kept(s) == {i \in 1..Len(s) : s[i] # "bs" /\ ~ Deleted(s, i)}

\* What was typed after a byte that is left are backspaces, the bytes they
\* deleted, and bytes that are left.
Matched(s) ==
    \A i \in Kept(s) :
        Cardinality({k \in Kept(s) : k > i})
            = Len(s) - i - 2 * Cardinality(Backs(s, i, Len(s)))

\* There are finitely many backspaces.
LEMMA BacksFinite ==
    ASSUME NEW s, NEW i \in Nat, NEW j \in Nat
    PROVE  IsFiniteSet(Backs(s, i, j)) /\ Cardinality(Backs(s, i, j)) \in Nat
<1>1. Backs(s, i, j) \in SUBSET ((i + 1)..j) /\ IsFiniteSet((i + 1)..j)
  BY FS_Interval DEF Backs
<1>. QED
  BY <1>1, FS_Subset, FS_CardinalityType

\* t begins with the first n bytes of s.
Extends(t, s, n) == n \in Nat /\ \A k \in 1..n : t[k] = s[k]

\* One byte more is one backspace more or none.
LEMMA BacksAppend ==
    ASSUME NEW s, NEW t, NEW n, Extends(t, s, n)
    PROVE  \A i \in 0..n :
             /\ \A j \in 0..n : Backs(t, i, j) = Backs(s, i, j)
             /\ Cardinality(Backs(t, i, n + 1)) =
                  IF t[n + 1] = "bs" THEN Cardinality(Backs(s, i, n)) + 1
                  ELSE Cardinality(Backs(s, i, n))
<1>. USE DEF Extends
<1>. TAKE i \in 0..n
<1>1. \A j \in 0..n : Backs(t, i, j) = Backs(s, i, j)
  <2>. TAKE j \in 0..n
  <2>1. \A k \in (i + 1)..j : t[k] = s[k]
    OBVIOUS
  <2>. QED
    BY <2>1 DEF Backs
<1>2. CASE t[n + 1] = "bs"
  <2>1. Backs(t, i, n + 1) = Backs(t, i, n) \cup {n + 1} /\ n + 1 \notin Backs(t, i, n)
    <3>1. n + 1 \in (i + 1)..(n + 1) /\ n + 1 \notin (i + 1)..n
      OBVIOUS
    <3>2. \A k : k \in (i + 1)..(n + 1) <=> k \in (i + 1)..n \/ k = n + 1
      OBVIOUS
    <3>. QED
      BY <1>2, <3>1, <3>2 DEF Backs
  <2>2. Backs(t, i, n) = Backs(s, i, n) /\ IsFiniteSet(Backs(s, i, n))
    BY <1>1, BacksFinite
  <2>. QED
    BY <1>1, <1>2, <2>1, <2>2, FS_AddElement
<1>3. CASE t[n + 1] # "bs"
  <2>1. Backs(t, i, n + 1) = Backs(t, i, n)
    <3>1. \A k : k \in (i + 1)..(n + 1) <=> k \in (i + 1)..n \/ k = n + 1
      OBVIOUS
    <3>2. n + 1 \notin (i + 1)..n
      OBVIOUS
    <3>. QED
      BY <1>3, <3>1, <3>2 DEF Backs
  <2>2. Backs(t, i, n) = Backs(s, i, n)
    BY <1>1
  <2>. QED
    BY <1>1, <1>3, <2>1, <2>2
<1>. QED
  BY <1>1, <1>2, <1>3

\* Deleted in terms of Backs.
LEMMA DeletedIs ==
    ASSUME NEW s, NEW i
    PROVE  Deleted(s, i) <=>
             \E j \in (i + 1)..Len(s) : 2 * Cardinality(Backs(s, i, j)) > j - i
BY DEF Deleted, Backs

\* Nothing that is not deleted has more backspaces after it than other bytes.
LEMMA NotYetDeleted ==
    ASSUME NEW s \in Seq(Bytes), NEW i \in 1..Len(s), ~ Deleted(s, i)
    PROVE  2 * Cardinality(Backs(s, i, Len(s))) <= Len(s) - i
<1>. DEFINE n == Len(s)
            c == Cardinality(Backs(s, i, n))
<1>1. n \in Nat /\ i \in 1..n /\ c \in Nat
  BY BacksFinite
<1>2. CASE i = n
  <2>1. Backs(s, i, n) = {}
    <3>1. (i + 1)..n = {}
      BY <1>1, <1>2
    <3>. QED
      BY <3>1 DEF Backs
  <2>2. c = 0
    BY <2>1, FS_EmptySet
  <2>. HIDE DEF n, c
  <2>3. 2 * c <= n - i
    BY <1>1, <1>2, <2>2
  <2>. QED
    BY <2>3 DEF n, c
<1>3. CASE i # n
  <2>1. n \in (i + 1)..Len(s)
    BY <1>1, <1>3
  <2>2. ~ (2 * c > n - i)
    BY <2>1, DeletedIs
  <2>. HIDE DEF n, c
  <2>3. 2 * c <= n - i
    BY <1>1, <2>2
  <2>. QED
    BY <2>3 DEF n, c
<1>. QED
  BY <1>2, <1>3

\* What one byte more leaves.
LEMMA KeptAppend ==
    ASSUME NEW s \in Seq(Bytes), NEW b \in Bytes
    PROVE  Kept(Append(s, b)) =
             IF b = "bs"
             THEN {i \in Kept(s) : 2 * Cardinality(Backs(s, i, Len(s))) # Len(s) - i}
             ELSE Kept(s) \cup {Len(s) + 1}
<1>. DEFINE n == Len(s)
            t == Append(s, b)
            c(i) == Cardinality(Backs(s, i, n))
<1>1. /\ n \in Nat /\ Len(t) = n + 1 /\ t[n + 1] = b
      /\ \A i \in 1..n : t[i] = s[i]
  BY AppendProperties
<1>2. \A i \in 1..n : c(i) \in Nat /\ (~ Deleted(s, i) => 2 * c(i) <= n - i)
  <2>. TAKE i \in 1..n
  <2>1. c(i) \in Nat
    BY <1>1, BacksFinite
  <2>. QED
    BY <2>1, NotYetDeleted
<1>3. Kept(s) = {i \in 1..n : s[i] # "bs" /\ ~ Deleted(s, i)}
  BY DEF Kept
<1>4. Kept(t) = {i \in 1..(n + 1) : t[i] # "bs" /\ ~ Deleted(t, i)}
  BY <1>1 DEF Kept
<1>5. \A i \in 0..n : /\ \A j \in 0..n : Backs(t, i, j) = Backs(s, i, j)
                      /\ Cardinality(Backs(t, i, n + 1)) = IF b = "bs" THEN c(i) + 1 ELSE c(i)
  <2>. HIDE DEF n, t
  <2>1. \A i \in 0..n :
          /\ \A j \in 0..n : Backs(t, i, j) = Backs(s, i, j)
          /\ Cardinality(Backs(t, i, n + 1)) =
               IF t[n + 1] = "bs" THEN Cardinality(Backs(s, i, n)) + 1
               ELSE Cardinality(Backs(s, i, n))
    <3>1. Extends(t, s, n)
      BY <1>1 DEF Extends
    <3>. QED
      BY <3>1, BacksAppend
  <2>. QED
    BY <1>1, <2>1
<1>6. \A i \in 1..n : Deleted(t, i) <=>
         Deleted(s, i) \/ 2 * (IF b = "bs" THEN c(i) + 1 ELSE c(i)) > (n + 1) - i
  <2>. TAKE i \in 1..n
  <2>. DEFINE d == Cardinality(Backs(t, i, n + 1))
  <2>0. i \in 0..n /\ d = IF b = "bs" THEN c(i) + 1 ELSE c(i)
    BY <1>1, <1>5
  <2>1. Deleted(t, i) <=> \E j \in (i + 1)..(n + 1) : 2 * Cardinality(Backs(t, i, j)) > j - i
    BY <1>1, DeletedIs
  <2>2. Deleted(s, i) <=> \E j \in (i + 1)..n : 2 * Cardinality(Backs(s, i, j)) > j - i
    BY DeletedIs
  <2>. HIDE DEF n, t, c
  <2>3. \A j : j \in (i + 1)..(n + 1) <=> j \in (i + 1)..n \/ j = n + 1
    BY <1>1
  <2>4. \A j \in (i + 1)..n : Backs(t, i, j) = Backs(s, i, j)
    <3>. TAKE j \in (i + 1)..n
    <3>1. j \in 0..n
      BY <1>1
    <3>. QED
      BY <1>5, <2>0, <3>1
  <2>5. Deleted(t, i) <=> (\E j \in (i + 1)..n : 2 * Cardinality(Backs(t, i, j)) > j - i)
                            \/ 2 * d > (n + 1) - i
    <3>. DEFINE P(j) == 2 * Cardinality(Backs(t, i, j)) > j - i
    <3>1. Deleted(t, i) <=> \E j \in (i + 1)..(n + 1) : P(j)
      BY <2>1
    <3>2. P(n + 1) <=> 2 * d > (n + 1) - i
      BY DEF d
    <3>. HIDE DEF P, d
    <3>3. Deleted(t, i) <=> (\E j \in (i + 1)..n : P(j)) \/ P(n + 1)
      BY <2>3, <3>1
    <3>. QED
      BY <3>2, <3>3 DEF P
  <2>6. (\E j \in (i + 1)..n : 2 * Cardinality(Backs(t, i, j)) > j - i) <=> Deleted(s, i)
    BY <2>2, <2>4
  <2>. HIDE DEF d
  <2>. QED
    BY <2>0, <2>5, <2>6
<1>7. ~ Deleted(t, n + 1)
  <2>1. (n + 1 + 1)..(n + 1) = {}
    BY <1>1
  <2>. QED
    BY <1>1, <2>1, DeletedIs
<1>8. n + 1 \in Kept(t) <=> b # "bs"
  <2>1. n + 1 \in 1..(n + 1)
    BY <1>1
  <2>. QED
    BY <1>1, <1>4, <1>7, <2>1
<1>. HIDE DEF n, t, c
<1>9. ASSUME NEW i \in 1..n
      PROVE  i \in Kept(t) <=> i \in Kept(s) /\ (b = "bs" => 2 * c(i) # n - i)
  <2>1. i \in 1..(n + 1)
    BY <1>1
  <2>2. i \in Kept(t) <=> s[i] # "bs" /\ ~ Deleted(t, i)
    BY <1>1, <1>4, <2>1
  <2>3. i \in Kept(s) <=> s[i] # "bs" /\ ~ Deleted(s, i)
    BY <1>3
  <2>4. c(i) \in Nat /\ (~ Deleted(s, i) => 2 * c(i) <= n - i)
    BY <1>2
  <2>5. CASE b = "bs"
    <3>1. Deleted(t, i) <=> Deleted(s, i) \/ 2 * (c(i) + 1) > (n + 1) - i
      BY <1>6, <2>5
    <3>2. ~ Deleted(s, i) => (2 * (c(i) + 1) > (n + 1) - i <=> 2 * c(i) = n - i)
      <4>. DEFINE d == c(i)
      <4>1. d \in Nat /\ (~ Deleted(s, i) => 2 * d <= n - i)
        BY <2>4
      <4>. HIDE DEF d
      <4>2. 2 * d <= n - i => (2 * (d + 1) > (n + 1) - i <=> 2 * d = n - i)
        BY <1>1, <4>1
      <4>. QED
        BY <4>1, <4>2 DEF d
    <3>. QED
      BY <2>2, <2>3, <2>5, <3>1, <3>2
  <2>6. CASE b # "bs"
    <3>1. Deleted(t, i) <=> Deleted(s, i) \/ 2 * c(i) > (n + 1) - i
      BY <1>6, <2>6
    <3>2. ~ Deleted(s, i) => ~ (2 * c(i) > (n + 1) - i)
      BY <1>1, <2>4
    <3>. QED
      BY <2>2, <2>3, <2>6, <3>1, <3>2
  <2>. QED
    BY <2>5, <2>6
<1>10. Kept(s) \subseteq 1..n /\ Kept(t) \subseteq 1..(n + 1) /\ n + 1 \notin Kept(s)
  BY <1>1, <1>3, <1>4
<1>11. \A i \in 1..(n + 1) : i \in 1..n \/ i = n + 1
  BY <1>1
<1>. HIDE DEF Kept
<1>12. CASE b = "bs"
  <2>1. Kept(t) = {i \in Kept(s) : 2 * c(i) # n - i}
    BY <1>8, <1>9, <1>10, <1>11, <1>12
  <2>. QED
    BY <1>12, <2>1 DEF n, t, c
<1>13. CASE b # "bs"
  <2>1. Kept(t) = Kept(s) \cup {n + 1}
    BY <1>8, <1>9, <1>10, <1>11, <1>13
  <2>. QED
    BY <1>13, <2>1 DEF n, t
<1>. QED
  BY <1>12, <1>13

\* What is left are some of the bytes.
LEMMA KeptFinite ==
    ASSUME NEW s \in Seq(Bytes), NEW i
    PROVE  /\ Kept(s) \in SUBSET (1..Len(s))
           /\ IsFiniteSet({k \in Kept(s) : k > i})
           /\ Cardinality({k \in Kept(s) : k > i}) \in Nat
<1>1. Kept(s) \in SUBSET (1..Len(s)) /\ IsFiniteSet(1..Len(s))
  BY FS_Interval, LenProperties DEF Kept
<1>2. {k \in Kept(s) : k > i} \in SUBSET (1..Len(s))
  BY <1>1
<1>. QED
  BY <1>1, <1>2, FS_Subset, FS_CardinalityType

\* A backspace deletes the last byte that is left, if there is one.
LEMMA BackspaceKeeps ==
    ASSUME NEW s \in Seq(Bytes), Matched(s), NEW b \in Bytes, b = "bs"
    PROVE  Kept(Append(s, b)) = {i \in Kept(s) : \E k \in Kept(s) : k > i}
<1>1. ASSUME NEW i \in Kept(s)
      PROVE  2 * Cardinality(Backs(s, i, Len(s))) # Len(s) - i
               <=> \E k \in Kept(s) : k > i
  <2>. DEFINE n == Len(s)
              c == Cardinality(Backs(s, i, n))
              A == {k \in Kept(s) : k > i}
  <2>1. n \in Nat /\ i \in 1..n /\ c \in Nat
    <3>1. n \in Nat /\ i \in 1..n
      BY KeptFinite, LenProperties
    <3>. HIDE DEF n
    <3>2. c \in Nat
      BY <3>1, BacksFinite
    <3>. QED
      BY <3>1, <3>2
  <2>2. Cardinality(A) = n - i - 2 * c /\ IsFiniteSet(A) /\ Cardinality(A) \in Nat
    BY KeptFinite DEF Matched
  <2>3. Cardinality(A) = 0 <=> A = {}
    <3>. HIDE DEF A
    <3>. QED
      BY <2>2, FS_EmptySet
  <2>4. A # {} <=> \E k \in Kept(s) : k > i
    OBVIOUS
  <2>. HIDE DEF n, c, A
  <2>5. 2 * c # n - i <=> \E k \in Kept(s) : k > i
    BY <2>1, <2>2, <2>3, <2>4
  <2>. QED
    BY <2>5 DEF n, c
<1>2. Kept(Append(s, b)) =
        {i \in Kept(s) : 2 * Cardinality(Backs(s, i, Len(s))) # Len(s) - i}
  BY KeptAppend
<1>. QED
  BY <1>1, <1>2

-----------------------------------------------------------------------------
\* One byte more does not change that the bytes are matched ...
LEMMA MatchedAppend ==
    ASSUME NEW s \in Seq(Bytes), Matched(s), NEW b \in Bytes
    PROVE  Matched(Append(s, b))
<1>. DEFINE n == Len(s)
            t == Append(s, b)
            c(i) == Cardinality(Backs(s, i, n))
            d(i) == Cardinality(Backs(t, i, n + 1))
            A(i) == {k \in Kept(s) : k > i}
            B(i) == {k \in Kept(t) : k > i}
<1>1. /\ n \in Nat /\ Len(t) = n + 1 /\ t[n + 1] = b /\ t \in Seq(Bytes)
      /\ \A i \in 1..n : t[i] = s[i]
  BY AppendProperties
<1>2. /\ Kept(s) \subseteq 1..n
      /\ \A i : IsFiniteSet(A(i)) /\ Cardinality(A(i)) \in Nat
  BY KeptFinite
<1>3. \A i \in 1..n : c(i) \in Nat /\ d(i) = IF b = "bs" THEN c(i) + 1 ELSE c(i)
  <2>. HIDE DEF n, t
  <2>1. \A i \in 0..n :
          Cardinality(Backs(t, i, n + 1)) =
             IF t[n + 1] = "bs" THEN Cardinality(Backs(s, i, n)) + 1
             ELSE Cardinality(Backs(s, i, n))
    <3>1. Extends(t, s, n)
      BY <1>1 DEF Extends
    <3>. QED
      BY <3>1, BacksAppend
  <2>. TAKE i \in 1..n
  <2>2. i \in 0..n /\ i \in Nat
    BY <1>1
  <2>3. c(i) \in Nat
    BY <1>1, <2>2, BacksFinite
  <2>. QED
    BY <1>1, <2>1, <2>2, <2>3
<1>4. \A i \in Kept(s) : Cardinality(A(i)) = n - i - 2 * c(i)
  BY DEF Matched
<1>5. Matched(t) <=> \A i \in Kept(t) : Cardinality(B(i)) = (n + 1) - i - 2 * d(i)
  BY <1>1 DEF Matched
<1>6. b = "bs" => Kept(t) = {i \in Kept(s) : \E k \in Kept(s) : k > i}
  BY BackspaceKeeps
<1>7. b # "bs" => Kept(t) = Kept(s) \cup {n + 1}
  BY KeptAppend
<1>8. CASE b = "bs"
  <2>1. ASSUME NEW i \in Kept(t) PROVE Cardinality(B(i)) = (n + 1) - i - 2 * d(i)
    <3>0. i \in Kept(s) /\ i \in 1..n /\ A(i) # {}
      BY <1>2, <1>6, <1>8
    <3>1. PICK m \in A(i) : \A k \in A(i) : k <= m
      <4>1. A(i) \in SUBSET (1..n)
        BY <1>2
      <4>. HIDE DEF A, n
      <4>. QED
        BY <1>1, <3>0, <4>1, Greatest
    <3>2. B(i) = A(i) \ {m}
      <4>1. \A k \in Kept(s) : k > i => k \in 1..n /\ k \in A(i)
        BY <1>2
      <4>2. \A k \in Kept(t) : k \in Kept(s) /\ \E j \in Kept(s) : j > k
        BY <1>6, <1>8
      <4>3. ASSUME NEW k \in B(i) PROVE k \in A(i) \ {m}
        <5>1. k \in A(i) /\ k \in 1..n
          BY <1>2, <4>2
        <5>2. PICK j \in Kept(s) : j > k
          BY <4>2
        <5>3. j > i /\ j \in 1..n
          BY <1>1, <1>2, <3>0, <5>1, <5>2
        <5>4. j <= m /\ m \in 1..n
          BY <1>2, <3>1, <5>3
        <5>. HIDE DEF A, B, n
        <5>5. k # m
          BY <1>1, <5>1, <5>2, <5>3, <5>4
        <5>. QED
          BY <5>1, <5>5
      <4>4. ASSUME NEW k \in A(i) \ {m} PROVE k \in B(i)
        <5>1. k \in Kept(s) /\ k > i /\ m \in Kept(s) /\ k \in 1..n /\ m \in 1..n
          BY <1>2, <3>1
        <5>2. k <= m /\ k # m
          BY <3>1
        <5>3. m > k
          BY <1>1, <5>1, <5>2
        <5>. QED
          BY <1>6, <1>8, <5>1, <5>3
      <4>. HIDE DEF A, B
      <4>. QED
        BY <4>3, <4>4
    <3>. HIDE DEF A, B, n, c, d
    <3>3. Cardinality(B(i)) = Cardinality(A(i)) - 1
      BY <1>2, <3>1, <3>2, FS_RemoveElement
    <3>4. Cardinality(A(i)) = n - i - 2 * c(i) /\ d(i) = c(i) + 1 /\ c(i) \in Nat
      BY <1>3, <1>4, <1>8, <3>0
    <3>. DEFINE e == c(i)
                f == Cardinality(A(i))
                x == d(i)
                y == Cardinality(B(i))
    <3>5. f = n - i - 2 * e /\ x = e + 1 /\ e \in Nat /\ f \in Nat /\ y = f - 1
      BY <1>2, <3>3, <3>4
    <3>. HIDE DEF e, f, x, y
    <3>6. y = (n + 1) - i - 2 * x
      BY <1>1, <3>0, <3>5
    <3>. QED
      BY <3>6 DEF x, y
  <2>. HIDE DEF B, d
  <2>. QED
    BY <1>5, <2>1 DEF t
<1>9. CASE b # "bs"
  <2>1. ASSUME NEW i \in Kept(s) PROVE Cardinality(B(i)) = (n + 1) - i - 2 * d(i)
    <3>0. i \in 1..n
      BY <1>2
    <3>1. B(i) = A(i) \cup {n + 1} /\ n + 1 \notin A(i)
      <4>1. n + 1 > i /\ n + 1 \notin 1..n
        BY <1>1, <3>0
      <4>. QED
        BY <1>2, <1>7, <1>9, <4>1
    <3>. HIDE DEF A, B, n, c, d
    <3>2. Cardinality(B(i)) = Cardinality(A(i)) + 1
      BY <1>2, <3>1, FS_AddElement
    <3>. DEFINE e == c(i)
                f == Cardinality(A(i))
    <3>3. f = n - i - 2 * e /\ d(i) = e /\ e \in Nat /\ f \in Nat
      BY <1>2, <1>3, <1>4, <1>9, <3>0
    <3>4. Cardinality(B(i)) = f + 1
      BY <3>2
    <3>. DEFINE x == d(i)
                y == Cardinality(B(i))
    <3>5. f = n - i - 2 * e /\ x = e /\ e \in Nat /\ f \in Nat /\ y = f + 1
      BY <3>3, <3>4
    <3>. HIDE DEF e, f, x, y
    <3>6. y = (n + 1) - i - 2 * x
      BY <1>1, <3>0, <3>5
    <3>. QED
      BY <3>6 DEF x, y
  <2>2. Cardinality(B(n + 1)) = (n + 1) - (n + 1) - 2 * d(n + 1)
    <3>1. B(n + 1) = {}
      <4>1. \A k \in 1..n : ~ (k > n + 1)
        BY <1>1
      <4>2. ~ (n + 1 > n + 1)
        BY <1>1
      <4>. QED
        BY <1>2, <1>7, <1>9, <4>1, <4>2
    <3>2. Backs(t, n + 1, n + 1) = {}
      <4>1. (n + 1 + 1)..(n + 1) = {}
        BY <1>1
      <4>. QED
        BY <4>1 DEF Backs
    <3>3. d(n + 1) = 0
      BY <3>2, FS_EmptySet
    <3>4. Cardinality(B(n + 1)) = 0
      <4>. HIDE DEF B
      <4>. QED
        BY <3>1, FS_EmptySet
    <3>. HIDE DEF B, n, d
    <3>. QED
      BY <1>1, <3>3, <3>4
  <2>. HIDE DEF B, d
  <2>. QED
    BY <1>5, <1>7, <1>9, <2>1, <2>2 DEF t
<1>. QED
  BY <1>8, <1>9

\* ... so they always are.
LEMMA AllMatched == ASSUME NEW s \in Seq(Bytes) PROVE Matched(s)
<1>. DEFINE T == {n \in Nat : \A r \in Seq(Bytes) : Len(r) = n => Matched(r)}
<1>1. 0 \in T
  <2>1. ASSUME NEW r \in Seq(Bytes), Len(r) = 0 PROVE Matched(r)
    <3>1. Kept(r) = {}
      BY <2>1 DEF Kept
    <3>. QED
      BY <3>1 DEF Matched
  <2>. QED
    BY <2>1
<1>2. ASSUME NEW n \in Nat, n \in T PROVE n + 1 \in T
  <2>1. ASSUME NEW r \in Seq(Bytes), Len(r) = n + 1 PROVE Matched(r)
    <3>1. r # <<>>
      BY <2>1
    <3>2. PICK q \in Seq(Bytes), b \in Bytes : r = Append(q, b)
      BY <3>1, SequenceEmptyOrAppend
    <3>3. Len(q) = n
      BY <2>1, <3>2, AppendProperties, LenProperties
    <3>4. Matched(q)
      BY <1>2, <3>3
    <3>. QED
      BY <3>2, <3>4, MatchedAppend
  <2>. QED
    BY <2>1
<1>. HIDE DEF T
<1>3. Len(s) \in T
  BY <1>1, <1>2, AllNaturals, LenProperties
<1>. QED
  BY <1>3 DEF T

-----------------------------------------------------------------------------
(* What sock_readline makes of it.                                         *)

\* What is left of the byte at i.
Left(s, i) == IF i \in Kept(s) THEN <<s[i]>> ELSE <<>>

\* Edited joins what is left.
LEMMA EditedIs ==
    ASSUME NEW s \in Seq(Bytes)
    PROVE  /\ Edited(s) = FlattenSeq([i \in 1..Len(s) |-> Left(s, i)])
           /\ \A i \in 1..Len(s) : Left(s, i) \in Seq(Bytes)
           /\ Edited(s) \in Seq(Bytes)
<1>. DEFINE n == Len(s)
            ss == [i \in 1..n |-> Left(s, i)]
<1>1. \A i \in 1..n : Left(s, i) = IF s[i] = "bs" \/ Deleted(s, i) THEN <<>> ELSE <<s[i]>>
  BY DEF Left, Kept
<1>2. \A i \in 1..n : Left(s, i) \in Seq(Bytes)
  <2>. TAKE i \in 1..n
  <2>1. s[i] \in Bytes
    OBVIOUS
  <2>. QED
    BY <2>1 DEF Left
<1>3. Edited(s) = FlattenSeq(ss)
  BY <1>1 DEF Edited
<1>4. n \in Nat /\ ss \in [1..n -> Seq(Bytes)]
  BY <1>2, LenProperties
<1>5. FlattenSeq(ss) \in Seq(Bytes)
  <2>. HIDE DEF ss, n
  <2>. QED
    BY <1>4, FlattenType
<1>. QED
  BY <1>2, <1>3, <1>5

\* A byte that is not a backspace comes to what is left.
LEMMA EditedByte ==
    ASSUME NEW s \in Seq(Bytes), NEW b \in Bytes, b # "bs"
    PROVE  Edited(Append(s, b)) = Append(Edited(s), b)
<1>. DEFINE n == Len(s)
            t == Append(s, b)
            ss == [i \in 1..n |-> Left(s, i)]
            tt == [i \in 1..(n + 1) |-> Left(t, i)]
<1>1. /\ n \in Nat /\ Len(t) = n + 1 /\ t[n + 1] = b /\ t \in Seq(Bytes)
      /\ \A i \in 1..n : t[i] = s[i]
  BY AppendProperties
<1>2. Kept(t) = Kept(s) \cup {n + 1}
  BY KeptAppend
<1>3. /\ Edited(s) = FlattenSeq(ss) /\ Edited(s) \in Seq(Bytes)
      /\ Edited(t) = FlattenSeq(tt) /\ \A i \in 1..(n + 1) : Left(t, i) \in Seq(Bytes)
  <2>1. Edited(s) = FlattenSeq(ss) /\ Edited(s) \in Seq(Bytes)
    BY EditedIs
  <2>. HIDE DEF ss, t
  <2>2. Edited(t) = FlattenSeq([i \in 1..Len(t) |-> Left(t, i)])
        /\ \A i \in 1..Len(t) : Left(t, i) \in Seq(Bytes)
    BY <1>1, EditedIs
  <2>. QED
    BY <1>1, <2>1, <2>2
<1>. HIDE DEF t, n
<1>4. [i \in 1..n |-> tt[i]] = ss
  <2>1. \A i \in 1..n : i \in 1..(n + 1) /\ i # n + 1
    BY <1>1
  <2>2. \A i \in 1..n : Left(t, i) = Left(s, i)
    BY <1>1, <1>2, <2>1 DEF Left
  <2>. QED
    BY <2>1, <2>2
<1>5. tt \in [1..(n + 1) -> Seq(Bytes)] /\ tt[n + 1] = <<b>>
  <2>1. n + 1 \in 1..(n + 1)
    BY <1>1
  <2>. QED
    BY <1>1, <1>2, <1>3, <2>1 DEF Left
<1>. HIDE DEF ss, tt
<1>6. FlattenSeq(tt) = FlattenSeq([i \in 1..n |-> tt[i]]) \o tt[n + 1]
  BY <1>1, <1>5, FlattenStep
<1>7. Edited(t) = Edited(s) \o <<b>>
  BY <1>3, <1>4, <1>5, <1>6
<1>8. Append(Edited(s), b) = Edited(s) \o <<b>>
  BY <1>3, AppendIsConcat
<1>. QED
  BY <1>7, <1>8 DEF t

\* A backspace takes the last of it.
LEMMA EditedBackspace ==
    ASSUME NEW s \in Seq(Bytes), NEW b \in Bytes, b = "bs"
    PROVE  Edited(Append(s, b)) =
             IF Edited(s) = <<>> THEN <<>> ELSE Front(Edited(s))
<1>. DEFINE n == Len(s)
            t == Append(s, b)
            ss == [i \in 1..n |-> Left(s, i)]
            tt == [i \in 1..(n + 1) |-> Left(t, i)]
<1>1. /\ n \in Nat /\ Len(t) = n + 1 /\ t \in Seq(Bytes)
      /\ \A i \in 1..n : t[i] = s[i]
  BY AppendProperties
<1>2. Kept(t) = {i \in Kept(s) : \E k \in Kept(s) : k > i} /\ Kept(s) \subseteq 1..n
  BY AllMatched, BackspaceKeeps, KeptFinite
<1>3. /\ Edited(s) = FlattenSeq(ss) /\ Edited(s) \in Seq(Bytes)
      /\ \A i \in 1..n : Left(s, i) \in Seq(Bytes)
      /\ Edited(t) = FlattenSeq(tt) /\ \A i \in 1..(n + 1) : Left(t, i) \in Seq(Bytes)
  <2>1. Edited(s) = FlattenSeq(ss) /\ Edited(s) \in Seq(Bytes)
        /\ \A i \in 1..n : Left(s, i) \in Seq(Bytes)
    BY EditedIs
  <2>. HIDE DEF ss, t
  <2>2. Edited(t) = FlattenSeq([i \in 1..Len(t) |-> Left(t, i)])
        /\ \A i \in 1..Len(t) : Left(t, i) \in Seq(Bytes)
    BY <1>1, EditedIs
  <2>. QED
    BY <1>1, <2>1, <2>2
<1>. HIDE DEF t, n
<1>4. ss \in [1..n -> Seq(Bytes)] /\ tt \in [1..(n + 1) -> Seq(Bytes)] /\ n + 1 \in Nat
  BY <1>1, <1>3
<1>5. CASE Kept(s) = {}
  <2>3. <<>> \in [1..0 -> Seq(Bytes)]
    OBVIOUS
  <2>4. 0 \in 0..n /\ 0 \in 0..(n + 1)
    BY <1>1
  <2>1. Pads(Bytes, ss, n, <<>>, 0)
    <3>1. \A i \in (0 + 1)..n : ss[i] = <<>>
      BY <1>1, <1>5 DEF Left
    <3>. HIDE DEF ss
    <3>. QED
      BY <1>1, <1>4, <2>3, <2>4, <3>1 DEF Pads
  <2>2. Pads(Bytes, tt, n + 1, <<>>, 0)
    <3>1. \A i \in (0 + 1)..(n + 1) : tt[i] = <<>>
      BY <1>1, <1>2, <1>5 DEF Left
    <3>. HIDE DEF tt
    <3>. QED
      BY <1>4, <2>3, <2>4, <3>1 DEF Pads
  <2>. HIDE DEF ss, tt
  <2>5. FlattenSeq(ss) = FlattenSeq(<<>>)
    BY <2>1, FlattenEmptyTail
  <2>6. FlattenSeq(tt) = FlattenSeq(<<>>)
    BY <2>2, FlattenEmptyTail
  <2>. QED
    BY <1>3, <2>3, <2>5, <2>6, FlattenEmpty DEF t
<1>6. CASE Kept(s) # {}
  <2>1. PICK m \in Kept(s) : \A k \in Kept(s) : k <= m
    BY <1>1, <1>2, <1>6, Greatest
  <2>. DEFINE p == m - 1
              uu == [i \in 1..m |-> ss[i]]
              vv == [i \in 1..p |-> ss[i]]
  <2>2. m \in 1..n /\ p \in Nat /\ p + 1 = m /\ p \in 0..(n + 1) /\ m \in 0..n
    BY <1>1, <1>2, <2>1
  <2>3. Kept(t) = Kept(s) \ {m}
    <3>1. \A k \in Kept(s) : k \in Int /\ m \in Int /\ k <= m
      BY <1>1, <1>2, <2>1
    <3>2. \A i \in Kept(s) : (\E k \in Kept(s) : k > i) <=> i # m
      BY <2>1, <3>1
    <3>. QED
      BY <1>2, <3>2
  <2>13. uu \in [1..m -> Seq(Bytes)] /\ vv \in [1..p -> Seq(Bytes)]
    <3>1. \A i \in 1..m : i \in 1..n
      BY <1>1, <2>2
    <3>2. \A i \in 1..p : i \in 1..n
      BY <1>1, <2>2
    <3>. QED
      BY <1>4, <3>1, <3>2
  <2>4. Pads(Bytes, ss, n, uu, m)
    <3>1. \A i \in (m + 1)..n : i \in 1..n /\ ~ (i <= m)
      BY <1>1, <2>2
    <3>2. \A i \in (m + 1)..n : i \notin Kept(s)
      BY <2>1, <3>1
    <3>3. \A i \in (m + 1)..n : ss[i] = <<>>
      BY <3>1, <3>2 DEF Left
    <3>4. \A i \in 1..m : ss[i] = uu[i]
      OBVIOUS
    <3>. HIDE DEF ss, uu
    <3>. QED
      BY <1>1, <1>4, <2>2, <2>13, <3>3, <3>4 DEF Pads
  <2>5. Pads(Bytes, tt, n + 1, vv, p)
    <3>1. \A i \in (p + 1)..(n + 1) : i \in 1..(n + 1) /\ (i = m \/ ~ (i <= m))
      BY <1>1, <2>2
    <3>2. \A i \in (p + 1)..(n + 1) : i \notin Kept(t)
      BY <2>1, <2>3, <3>1
    <3>3. \A i \in (p + 1)..(n + 1) : tt[i] = <<>>
      BY <3>1, <3>2 DEF Left
    <3>4. \A i \in 1..p : i \in 1..n /\ i \in 1..(n + 1) /\ i # m
      BY <1>1, <2>2
    <3>5. \A i \in 1..p : tt[i] = vv[i]
      BY <1>1, <2>3, <3>4 DEF Left
    <3>. HIDE DEF tt, vv
    <3>. QED
      BY <1>4, <2>2, <2>13, <3>3, <3>5 DEF Pads
  <2>7. uu \in [1..(p + 1) -> Seq(Bytes)] /\ uu[p + 1] = <<s[m]>>
        /\ [i \in 1..p |-> uu[i]] = vv /\ vv \in [1..p -> Seq(Bytes)]
        /\ uu \in [1..m -> Seq(Bytes)]
    <3>1. \A i \in 1..m : i \in 1..n
      BY <1>1, <2>2
    <3>2. \A i \in 1..p : i \in 1..m
      BY <2>2
    <3>3. uu \in [1..m -> Seq(Bytes)]
      BY <1>4, <3>1
    <3>4. uu[m] = <<s[m]>>
      <4>1. m \in 1..m
        BY <2>2
      <4>. QED
        BY <2>1, <2>2, <4>1 DEF Left
    <3>5. [i \in 1..p |-> uu[i]] = vv
      BY <3>2
    <3>6. vv \in [1..p -> Seq(Bytes)]
      BY <1>4, <3>1, <3>2
    <3>. HIDE DEF uu, vv, p
    <3>. QED
      BY <2>2, <3>3, <3>4, <3>5, <3>6
  <2>. HIDE DEF ss, tt, uu, vv, p
  <2>8. FlattenSeq(ss) = FlattenSeq(uu)
    BY <2>4, FlattenEmptyTail
  <2>9. FlattenSeq(tt) = FlattenSeq(vv)
    BY <2>5, FlattenEmptyTail
  <2>10. FlattenSeq(vv) \in Seq(Bytes) /\ FlattenSeq(uu) = FlattenSeq(vv) \o <<s[m]>>
    <3>1. /\ FlattenSeq([i \in 1..p |-> uu[i]]) \in Seq(Bytes)
          /\ FlattenSeq(uu) = FlattenSeq([i \in 1..p |-> uu[i]]) \o uu[p + 1]
      BY <2>2, <2>7, FlattenStep
    <3>. QED
      BY <2>7, <3>1
  <2>11. s[m] \in Bytes
    BY <2>2 DEF n
  <2>12. Edited(s) = Append(Edited(t), s[m]) /\ Edited(t) \in Seq(Bytes)
    <3>1. Append(FlattenSeq(vv), s[m]) = FlattenSeq(vv) \o <<s[m]>>
      BY <2>10, <2>11, AppendIsConcat
    <3>. QED
      BY <1>3, <2>8, <2>9, <2>10, <3>1
  <2>. DEFINE u == Edited(s)
              v == Edited(t)
  <2>14. u # <<>> /\ Front(u) = v
    <3>1. u = Append(v, s[m]) /\ v \in Seq(Bytes) /\ s[m] \in Bytes
      BY <2>11, <2>12
    <3>. HIDE DEF u, v
    <3>2. u # <<>> /\ Len(u) = Len(v) + 1 /\ Len(v) \in Nat
      BY <3>1, AppendProperties, LenProperties
    <3>. DEFINE k == Len(v)
    <3>3. SubSeq(u, 1, k) = v
      <4>1. \A i \in 1..k : u[i] = v[i] /\ v[i] \in Bytes
        BY <3>1, AppendProperties, LenProperties
      <4>2. k \in Nat
        BY <3>2
      <4>. DEFINE x == SubSeq(u, 1, k)
      <4>3. x \in Seq(Bytes) /\ Len(x) = k /\ \A i \in 1..k : x[i] = u[i]
        <5>1. \A i \in 1..k : u[i] \in Bytes
          BY <4>1
        <5>. HIDE DEF k
        <5>2. x \in Seq(Bytes) /\ Len(x) = k - 1 + 1 /\ \A i \in 1..(k - 1 + 1) : x[i] = u[1 + i - 1]
          BY <4>2, <5>1, SubSeqProperties
        <5>. QED
          BY <4>2, <5>2
      <4>. HIDE DEF x
      <4>. QED
        BY <3>1, <4>1, <4>3, SeqEqual DEF x
    <3>4. Len(u) - 1 = k
      BY <3>2
    <3>. QED
      BY <3>2, <3>3, <3>4 DEF Front
  <2>. QED
    BY <2>14 DEF t
<1>. QED
  BY <1>5, <1>6

-----------------------------------------------------------------------------
(* What a thread knows is what its user typed.                             *)

\* The line was too long at some time.
TooLong(s) == \E n \in 1..Len(s) : Len(Edited(SubSeq(s, 1, n))) > MaxLine

\* At the prompt th has the line as it is typed.
LineRight(th) ==
    th.at \in {"prompt", "command"} =>
        th.buf = Edited(th.input) \/ TooLong(th.input)

\* On a console th knows what is pending of what was typed, and has written, or
\* is about to write, all that is to be passed on, unless the console is over.
ConsoleRight(th, over) ==
    th.at \in HasHub =>
        /\ ~ over => th.written \o th.out = Passed(th.input)
        /\ th.stop <=> Stops(th.input) # {}
        /\ th.stop => th.at \in {"writing", "leaving"}
        /\ ~ th.stop => (th.escape <=> Pending(th.input))
        /\ th.at # "writing" => th.out = <<>>
        /\ th.level = "read_only" => th.input = <<>>

\* Both, with the bounds: no more than n bytes were typed.
Sound(th, n, over) ==
    /\ th \in ThreadStates
    /\ Len(th.input) <= n
    /\ Len(th.buf) <= MaxLine
    /\ LineRight(th)
    /\ ConsoleRight(th, over)

AllSound ==
    /\ typed \in [Conns -> Nat]
    /\ thread \in [Conns -> ThreadStates]
    /\ \A c \in Conns :
         typed[c] <= MaxTyped[c] /\ Sound(thread[c], typed[c], c \in ended)

-----------------------------------------------------------------------------
\* Nothing typed, an empty line.
LEMMA NothingEdited == Edited(<<>>) = <<>>
<1>1. [i \in 1..Len(<<>>) |-> IF <<>>[i] = "bs" \/ Deleted(<<>>, i) THEN <<>> ELSE <<(<<>>[i])>>]
        = <<>>
  OBVIOUS
<1>. QED
  BY <1>1, FlattenEmpty DEF Edited

\* The fields of what a thread knows.
LEMMA FieldsOf ==
    ASSUME NEW th \in ThreadStates
    PROVE  /\ th.at \in Places
           /\ th.input \in Seq(Bytes)
           /\ th.buf \in Seq(Bytes)
           /\ th.level \in {"read_write", "read_only"}
           /\ th.escape \in BOOLEAN
           /\ th.stop \in BOOLEAN
           /\ th.out \in Seq(Bytes)
           /\ th.written \in Seq(Bytes)
BY DEF ThreadStates

\* Nothing has been typed.
LEMMA SoundFresh ==
    ASSUME NEW place \in Places, NEW n \in Nat, NEW over,
           NEW level \in {"read_write", "read_only"}
    PROVE  /\ Sound(Fresh(place), n, over)
           /\ Sound([Fresh(place) EXCEPT !.level = level], n, over)
<1>1. ASSUME NEW x \in ThreadStates,
             x.input = <<>>, x.buf = <<>>, x.out = <<>>, x.written = <<>>,
             ~ x.escape, ~ x.stop
      PROVE  Sound(x, n, over)
  <2>1. Len(x.input) <= n /\ Len(x.buf) <= MaxLine
    <3>1. Len(<<>>) = 0 /\ MaxLine \in Nat
      BY SessionsAssumption DEF SessionsAssumption
    <3>. QED
      BY <1>1, <3>1
  <2>2. LineRight(x)
    BY <1>1, NothingEdited DEF LineRight
  <2>3. <<>> \o <<>> = <<>>
    OBVIOUS
  <2>4. ConsoleRight(x, over)
    BY <1>1, <2>3, NothingPassed DEF ConsoleRight
  <2>. QED
    BY <1>1, <2>1, <2>2, <2>4 DEF Sound
<1>. DEFINE f == Fresh(place)
            g == [f EXCEPT !.level = level]
<1>2. /\ f \in ThreadStates /\ f.input = <<>> /\ f.buf = <<>> /\ f.out = <<>>
      /\ f.written = <<>> /\ ~ f.escape /\ ~ f.stop
  BY EmptySeq DEF Fresh, ThreadStates
<1>. HIDE DEF f
<1>3. /\ g \in ThreadStates /\ g.input = <<>> /\ g.buf = <<>> /\ g.out = <<>>
      /\ g.written = <<>> /\ ~ g.escape /\ ~ g.stop
  BY <1>2 DEF ThreadStates
<1>. HIDE DEF g
<1>4. Sound(f, n, over) /\ Sound(g, n, over)
  BY <1>1, <1>2, <1>3
<1>. QED
  BY <1>4 DEF f, g

\* The thread goes on, with what it has.
LEMMA SoundMove ==
    ASSUME NEW th, NEW n, NEW over, Sound(th, n, over), NEW to \in Places,
           to \in HasHub => th.at \in {"attaching", "registered", "joined", "checking", "reading"},
           to \in {"prompt", "command"} => th.at = "prompt"
    PROVE  Sound([th EXCEPT !.at = to], n, over)
<1>. DEFINE x == [th EXCEPT !.at = to]
<1>1. /\ x \in ThreadStates /\ x.at = to /\ x.input = th.input /\ x.buf = th.buf
      /\ x.level = th.level /\ x.escape = th.escape /\ x.stop = th.stop
      /\ x.out = th.out /\ x.written = th.written
  BY DEF Sound, ThreadStates
<1>. HIDE DEF x
<1>2. LineRight(x)
  BY <1>1 DEF Sound, LineRight
<1>3. ConsoleRight(x, over)
  <2>. SUFFICES ASSUME to \in HasHub PROVE ConsoleRight(x, over)
    BY <1>1 DEF ConsoleRight
  <2>1. th.at \in HasHub /\ th.at \notin {"writing", "leaving"}
    BY DEF HasHub, OnConsole
  <2>2. /\ ~ over => th.written \o th.out = Passed(th.input)
        /\ ~ th.stop /\ Stops(th.input) = {}
        /\ th.escape <=> Pending(th.input)
        /\ th.out = <<>>
        /\ th.level = "read_only" => th.input = <<>>
    BY <2>1 DEF Sound, ConsoleRight
  <2>. QED
    BY <1>1, <2>2 DEF ConsoleRight
<1>. QED
  BY <1>1, <1>2, <1>3 DEF Sound, x

\* Its console comes to its end.
LEMMA SoundOver ==
    ASSUME NEW th, NEW n, NEW over, Sound(th, n, over), NEW later, over => later
    PROVE  Sound(th, n, later)
BY DEF Sound, ConsoleRight

\* It reads a byte of a line.
LEMMA SoundRead ==
    ASSUME NEW th, NEW n \in Nat, NEW over, Sound(th, n, over),
           th.at = "prompt", NEW b \in Bytes, NEW x,
           x = [th EXCEPT !.input = Append(@, b), !.buf = Edit(@, b)]
    PROVE  Sound(x, n + 1, over)
<1>. DEFINE s == th.input
            t == Append(s, b)
            l == th.buf
            m == Edit(l, b)
<1>1. /\ s \in Seq(Bytes) /\ l \in Seq(Bytes) /\ th \in ThreadStates
      /\ Len(s) <= n /\ Len(l) <= MaxLine /\ MaxLine \in Nat
      /\ l = Edited(s) \/ TooLong(s)
  BY FieldsOf, SessionsAssumption DEF Sound, LineRight, SessionsAssumption
<1>2. x.at = "prompt" /\ x.input = t /\ x.buf = m
  BY <1>1 DEF ThreadStates
<1>3. t \in Seq(Bytes) /\ Len(t) = Len(s) + 1 /\ Len(s) \in Nat
      /\ \A i \in 1..Len(s) : t[i] = s[i]
  BY <1>1, AppendProperties, LenProperties
<1>. HIDE DEF s, t, l
<1>4. m \in Seq(Bytes) /\ Len(m) <= MaxLine
  <2>0. Len(l) \in Nat
    BY <1>1, LenProperties
  <2>1. CASE b = "bs" /\ l # <<>>
    <3>1. Len(l) - 1 \in Nat /\ \A i \in 1..(Len(l) - 1) : l[i] \in Bytes
      BY <1>1, <2>0, <2>1, EmptySeq, ElementOfSeq
    <3>. DEFINE k == Len(l) - 1
    <3>2. m = SubSeq(l, 1, k)
      BY <2>1 DEF Edit, Front
    <3>3. k \in Nat /\ k < Len(l)
      BY <2>0, <3>1
    <3>4. \A i \in 1..k : l[i] \in Bytes
      BY <3>1
    <3>. HIDE DEF k, m
    <3>5. m \in Seq(Bytes) /\ Len(m) = IF 1 <= k THEN (k - 1) + 1 ELSE 0
      BY <3>2, <3>3, <3>4, SubSeqProperties
    <3>. QED
      BY <1>1, <2>0, <3>3, <3>5
  <2>2. CASE b # "bs" /\ Len(l) < MaxLine
    <3>1. m = Append(l, b)
      BY <2>2 DEF Edit
    <3>2. m \in Seq(Bytes) /\ Len(m) = Len(l) + 1
      BY <1>1, <3>1, AppendProperties
    <3>. HIDE DEF m
    <3>. QED
      BY <1>1, <2>0, <2>2, <3>2
  <2>3. CASE (b = "bs" /\ l = <<>>) \/ (b # "bs" /\ ~ (Len(l) < MaxLine))
    <3>1. m = l
      BY <2>3 DEF Edit
    <3>. QED
      BY <1>1, <3>1
  <2>. QED
    BY <2>1, <2>2, <2>3
<1>5. m = Edited(t) \/ TooLong(t)
  <2>0. \A k \in 1..Len(s) : SubSeq(t, 1, k) = SubSeq(s, 1, k)
    <3>. TAKE k \in 1..Len(s)
    <3>1. t = s \o <<b>> /\ <<b>> \in Seq(Bytes) /\ 1 \in 1..Len(s)
      BY <1>1, <1>3, AppendIsConcat DEF t
    <3>. QED
      BY <1>1, <3>1, SubSeqOfConcat1
  <2>1. CASE TooLong(s)
    <3>1. PICK k \in 1..Len(s) : Len(Edited(SubSeq(s, 1, k))) > MaxLine
      BY <2>1 DEF TooLong
    <3>2. k \in 1..Len(t)
      BY <1>3
    <3>. QED
      BY <2>0, <3>1, <3>2 DEF TooLong
  <2>2. CASE l = Edited(s)
    <3>1. CASE b = "bs"
      <4>1. Edited(t) = IF l = <<>> THEN <<>> ELSE Front(l)
        BY <1>1, <2>2, <3>1, EditedBackspace DEF t
      <4>. QED
        BY <3>1, <4>1 DEF Edit
    <3>2. CASE b # "bs"
      <4>1. Edited(t) = Append(l, b)
        BY <1>1, <2>2, <3>2, EditedByte DEF t
      <4>2. CASE Len(l) < MaxLine
        BY <3>2, <4>1, <4>2 DEF Edit
      <4>3. CASE ~ (Len(l) < MaxLine)
        <5>1. Len(Edited(t)) = Len(l) + 1 /\ Len(l) \in Nat
          BY <1>1, <4>1, AppendProperties, LenProperties
        <5>2. Len(Edited(t)) > MaxLine
          BY <1>1, <4>3, <5>1
        <5>3. SubSeq(t, 1, Len(t)) = t /\ Len(t) \in 1..Len(t)
          BY <1>3, SubSeqFull
        <5>. QED
          BY <5>2, <5>3 DEF TooLong
      <4>. QED
        BY <4>2, <4>3
    <3>. QED
      BY <3>1, <3>2
  <2>. QED
    BY <1>1, <2>1, <2>2
<1>6. x \in ThreadStates
  <2>1. x = [th EXCEPT !.input = t, !.buf = m]
    BY DEF s, t, l
  <2>. HIDE DEF m
  <2>. QED
    BY <1>1, <1>3, <1>4, <2>1 DEF ThreadStates
<1>. HIDE DEF m
<1>7. LineRight(x) /\ ConsoleRight(x, over)
  BY <1>2, <1>5 DEF LineRight, ConsoleRight, HasHub, OnConsole
<1>8. Len(x.input) <= n + 1
  BY <1>1, <1>2, <1>3
<1>. QED
  BY <1>2, <1>4, <1>6, <1>7, <1>8 DEF Sound

\* It receives a piece of what is typed on a console.
LEMMA SoundReceive ==
    ASSUME NEW th, NEW n \in Nat, NEW over, Sound(th, n, over),
           th.at = "reading", th.level = "read_write", NEW s \in Seq(Bytes),
           NEW res, res = Chunk(th.escape, s), NEW x,
           x = [th EXCEPT
                  !.input = @ \o s,
                  !.escape = res.escape, !.stop = res.stop, !.out = res.out,
                  !.at = IF res.out # <<>> THEN "writing"
                         ELSE IF res.stop THEN "leaving" ELSE "checking"]
    PROVE  Sound(x, n + Len(s), over)
<1>. DEFINE to == IF res.out # <<>> THEN "writing"
                  ELSE IF res.stop THEN "leaving" ELSE "checking"
            i == th.input
            j == i \o s
            first == [out |-> <<>>, escape |-> th.escape, stop |-> FALSE]
<1>1. /\ i \in Seq(Bytes) /\ th.buf \in Seq(Bytes) /\ th \in ThreadStates
      /\ Len(i) <= n /\ Len(th.buf) <= MaxLine
      /\ th.written \in Seq(Bytes) /\ th.escape \in BOOLEAN /\ th.out = <<>>
      /\ ~ over => th.written = Passed(i)
      /\ Stops(i) = {} /\ (th.escape <=> Pending(i))
  <2>1. th.at \in HasHub
    BY DEF HasHub, OnConsole
  <2>2. th.written \o <<>> = th.written
    BY FieldsOf, ConcatEmptySeq DEF Sound
  <2>. QED
    BY <2>1, <2>2, FieldsOf DEF Sound, ConsoleRight
<1>2. \A w \in Seq(Bytes) : w = Passed(i) => Right(res, j, w) /\ res \in ByteStates
  <2>. TAKE w \in Seq(Bytes)
  <2>. SUFFICES ASSUME w = Passed(i) PROVE Right(res, j, w) /\ res \in ByteStates
    OBVIOUS
  <2>1. w \o <<>> = w
    BY ConcatEmptySeq
  <2>2. Right(first, i, w)
    BY <1>1, <2>1 DEF Right
  <2>. HIDE DEF i
  <2>. QED
    BY <1>1, <2>2, ChunkRight
<1>3. /\ res \in ByteStates
      /\ res.stop <=> Stops(j) # {}
      /\ ~ res.stop => (res.escape <=> Pending(j))
      /\ ~ over => th.written \o res.out = Passed(j)
  <2>1. Passed(i) \in Seq(Bytes)
    BY <1>1, EndIn
  <2>. HIDE DEF i, j
  <2>2. Right(res, j, Passed(i)) /\ res \in ByteStates
    BY <1>2, <2>1
  <2>. QED
    BY <1>1, <2>2 DEF Right
<1>4. j \in Seq(Bytes) /\ Len(j) = Len(i) + Len(s) /\ Len(i) \in Nat /\ Len(s) \in Nat
  <2>. HIDE DEF i
  <2>. QED
    BY <1>1, ConcatProperties, LenProperties
<1>5. res.out \in Seq(Bytes) /\ res.escape \in BOOLEAN /\ res.stop \in BOOLEAN
  BY <1>3 DEF ByteStates
<1>6. /\ x = [th EXCEPT !.input = j, !.escape = res.escape, !.stop = res.stop,
                        !.out = res.out, !.at = to]
      /\ to \in {"writing", "leaving", "checking"}
      /\ res.stop => to \in {"writing", "leaving"}
      /\ to # "writing" => res.out = <<>>
  OBVIOUS
<1>. HIDE DEF i, j, to
<1>7. /\ x.at = to /\ x.input = j /\ x.buf = th.buf /\ x.level = "read_write"
      /\ x.escape = res.escape /\ x.stop = res.stop /\ x.out = res.out
      /\ x.written = th.written /\ x \in ThreadStates
  BY <1>1, <1>4, <1>5, <1>6 DEF ThreadStates, Places, Threaded, OnConsole
<1>8. LineRight(x)
  BY <1>6, <1>7 DEF LineRight
<1>9. ConsoleRight(x, over)
  BY <1>3, <1>6, <1>7 DEF ConsoleRight
<1>10. Len(x.input) <= n + Len(s)
  BY <1>1, <1>4, <1>7
<1>. QED
  BY <1>1, <1>7, <1>8, <1>9, <1>10 DEF Sound

\* It writes what it is to write.
LEMMA SoundWrite ==
    ASSUME NEW th, NEW n \in Nat, NEW over \in BOOLEAN, Sound(th, n, over),
           th.at = "writing", NEW x,
           x = [th EXCEPT
                  !.written = IF over THEN @ ELSE @ \o th.out,
                  !.out = <<>>,
                  !.at = IF th.stop THEN "leaving" ELSE "checking"]
    PROVE  Sound(x, n, over)
<1>. DEFINE to == IF th.stop THEN "leaving" ELSE "checking"
            w == IF over THEN th.written ELSE th.written \o th.out
<1>1. /\ th \in ThreadStates /\ Len(th.input) <= n /\ Len(th.buf) <= MaxLine
      /\ ~ over => th.written \o th.out = Passed(th.input)
      /\ th.stop <=> Stops(th.input) # {}
      /\ ~ th.stop => (th.escape <=> Pending(th.input))
      /\ th.level = "read_only" => th.input = <<>>
  <2>1. th.at \in HasHub
    BY DEF HasHub, OnConsole
  <2>. QED
    BY <2>1 DEF Sound, ConsoleRight
<1>2. w \in Seq(Bytes)
  BY <1>1, FieldsOf, ConcatProperties
<1>3. ~ over => w \o <<>> = Passed(th.input)
  <2>1. w \o <<>> = w
    <3>. HIDE DEF w
    <3>. QED
      BY <1>2, ConcatEmptySeq
  <2>. QED
    BY <1>1, <2>1
<1>4. /\ x = [th EXCEPT !.written = w, !.out = <<>>, !.at = to]
      /\ to \in {"leaving", "checking"} /\ (th.stop => to = "leaving")
  OBVIOUS
<1>. HIDE DEF w, to
<1>5. to \in Places /\ <<>> \in Seq(Bytes)
  BY <1>4, EmptySeq DEF Places, Threaded, OnConsole
<1>9. /\ x.at = to /\ x.input = th.input /\ x.buf = th.buf /\ x.level = th.level
      /\ x.escape = th.escape /\ x.stop = th.stop /\ x.out = <<>>
      /\ x.written = w
  BY <1>1, <1>4 DEF ThreadStates
<1>10. x \in ThreadStates
  BY <1>1, <1>2, <1>4, <1>5 DEF ThreadStates
<1>6. LineRight(x)
  BY <1>4, <1>9 DEF LineRight
<1>7. ConsoleRight(x, over)
  BY <1>1, <1>3, <1>4, <1>9 DEF ConsoleRight
<1>. QED
  BY <1>1, <1>9, <1>10, <1>6, <1>7 DEF Sound

-----------------------------------------------------------------------------
\* The thread of c goes on as next, and the other connections stay.
LEMMA BecomesSound ==
    ASSUME AllSound, NEW c \in Conns, NEW from, NEW next,
           Becomes(c, from, next),
           typed' \in [Conns -> Nat], typed'[c] <= MaxTyped[c],
           \A d \in Conns \ {c} : typed'[d] = typed[d] /\ (d \in ended' <=> d \in ended),
           Sound(next, typed'[c], c \in ended')
    PROVE  AllSound'
<1>1. thread' = [thread EXCEPT ![c] = next] /\ next \in ThreadStates
  BY DEF Becomes, Sound
<1>2. thread' \in [Conns -> ThreadStates]
  BY <1>1 DEF AllSound
<1>3. thread'[c] = next /\ \A d \in Conns \ {c} : thread'[d] = thread[d]
  BY <1>1 DEF AllSound
<1>4. ASSUME NEW d \in Conns
      PROVE  typed'[d] <= MaxTyped[d] /\ Sound(thread'[d], typed'[d], d \in ended')
  <2>1. CASE d = c
    BY <1>3, <2>1
  <2>2. CASE d # c
    <3>1. thread'[d] = thread[d] /\ typed'[d] = typed[d] /\ (d \in ended' <=> d \in ended)
      BY <1>3, <2>2
    <3>2. typed[d] <= MaxTyped[d] /\ Sound(thread[d], typed[d], d \in ended)
      BY DEF AllSound
    <3>3. Sound(thread[d], typed[d], d \in ended')
      BY <3>1, <3>2, SoundOver
    <3>. QED
      BY <3>1, <3>2, <3>3
  <2>. QED
    BY <2>1, <2>2
<1>. QED
  BY <1>2, <1>4 DEF AllSound

\* The thread goes on, with what it has.
LEMMA GoesSound ==
    ASSUME AllSound, NEW c \in Conns, NEW from, NEW to \in Places, Goes(c, from, to),
           to \in HasHub =>
             thread[c].at \in {"attaching", "registered", "joined", "checking", "reading"},
           to \in {"prompt", "command"} => thread[c].at = "prompt",
           UNCHANGED <<typed, ended>>
    PROVE  AllSound'
<1>. DEFINE next == [thread[c] EXCEPT !.at = to]
<1>1. Becomes(c, from, next)
  BY DEF Goes
<1>2. typed[c] <= MaxTyped[c] /\ Sound(thread[c], typed[c], c \in ended)
      /\ typed \in [Conns -> Nat]
  BY DEF AllSound
<1>3. Sound(next, typed[c], c \in ended)
  BY <1>2, SoundMove
<1>. HIDE DEF next
<1>. QED
  BY <1>1, <1>2, <1>3, BecomesSound

\* The thread goes on anew.
LEMMA AnewSound ==
    ASSUME AllSound, NEW c \in Conns, NEW from, NEW to \in Places,
           GoesAnew(c, from, to), typed' = typed,
           \A d \in Conns \ {c} : d \in ended' <=> d \in ended
    PROVE  AllSound'
<1>1. Becomes(c, from, Fresh(to))
  BY DEF GoesAnew
<1>2. typed[c] <= MaxTyped[c] /\ typed[c] \in Nat /\ typed \in [Conns -> Nat]
  BY DEF AllSound
<1>3. "read_only" \in {"read_write", "read_only"}
  OBVIOUS
<1>4. Sound(Fresh(to), typed[c], c \in ended')
  BY <1>2, <1>3, SoundFresh
<1>. QED
  BY <1>1, <1>2, <1>4, BecomesSound

\* Any step of connection c, or of others on it.
LEMMA StepSound ==
    ASSUME AllSound, NEW c \in Conns, StepOf(c)
    PROVE  AllSound'
<1>. USE DEF Places, Threaded, OnConsole, HasHub
<1>0. /\ typed \in [Conns -> Nat] /\ typed[c] \in Nat /\ typed[c] <= MaxTyped[c]
      /\ Sound(thread[c], typed[c], c \in ended)
      /\ MaxTyped[c] \in Nat /\ Keys["prompt"] \subseteq Bytes
      /\ Keys["console"] \subseteq Bytes
  BY SessionsAssumption DEF AllSound, SessionsAssumption
<1>1. CASE Connect(c)
  BY <1>1, GoesSound DEF Connect
<1>2. CASE HangUp(c) \/ HubDrops(c) \/ Revoke(c)
  BY <1>2 DEF HangUp, HubDrops, Revoke, AllSound
<1>3. CASE HubEnds(c)
  <2>1. UNCHANGED <<typed, thread>> /\ ended' = ended \cup {c}
    BY <1>3 DEF HubEnds
  <2>2. \A d \in Conns : Sound(thread[d], typed[d], d \in ended')
    <3>. TAKE d \in Conns
    <3>1. Sound(thread[d], typed[d], d \in ended) /\ (d \in ended => d \in ended')
      BY <2>1 DEF AllSound
    <3>. QED
      BY <3>1, SoundOver
  <2>. QED
    BY <2>1, <2>2 DEF AllSound
<1>4. CASE Accept(c)
  <2>1. CASE slots > 0
    BY <1>4, <2>1, GoesSound DEF Accept
  <2>2. CASE ~(slots > 0)
    BY <1>4, <2>2, GoesSound DEF Accept
  <2>. QED
    BY <2>1, <2>2
<1>5. CASE \/ Identified(c) \/ StopsReading(c) \/ SendFails(c) \/ OtherCommand(c)
           \/ Quit(c) \/ AsksForHubs(c) \/ Lists(c) \/ Counts(c) \/ TooLate(c)
           \/ Detached(c) \/ Leave(c)
  BY <1>5, AnewSound
     DEF Identified, StopsReading, SendFails, OtherCommand, Quit, AsksForHubs,
         Lists, Counts, TooLate, Detached, Leave
<1>6. CASE NotIdentified(c) \/ Forget(c) \/ Release(c)
  BY <1>6, GoesSound DEF NotIdentified, Forget, Release
<1>7. CASE \/ Register(c) \/ Join(c) \/ Joined(c) \/ Tidy(c)
           \/ Discard(c) \/ InputEnds(c)
  <2>1. CASE Register(c)
    BY <2>1, GoesSound DEF Register, Goes, Becomes
  <2>2. CASE Join(c)
    BY <2>2, GoesSound DEF Join, Goes, Becomes
  <2>3. CASE Discard(c)
    BY <2>3, GoesSound DEF Discard, Goes, Becomes
  <2>4. CASE InputEnds(c)
    BY <2>4, GoesSound DEF InputEnds, Goes, Becomes
  <2>5. CASE Joined(c)
    BY <2>5, GoesSound DEF Joined, Goes, Becomes
  <2>6. CASE Tidy(c)
    BY <2>6, GoesSound DEF Tidy, Goes, Becomes
  <2>. QED
    BY <1>7, <2>1, <2>2, <2>3, <2>4, <2>5, <2>6
<1>8. CASE Check(c)
  <2>1. thread[c].at = "checking" /\ UNCHANGED <<typed, ended>>
    BY <1>8 DEF Check, Goes, Becomes
  <2>2. CASE c \in ended
    BY <1>8, <2>1, <2>2, GoesSound DEF Check
  <2>3. CASE c \notin ended
    BY <1>8, <2>1, <2>3, GoesSound DEF Check
  <2>. QED
    BY <2>2, <2>3
<1>9. ASSUME NEW level \in {"read_write", "read_only"}, Console(c, level)
      PROVE  AllSound'
  <2>. DEFINE next == [Fresh("attaching") EXCEPT !.level = level]
  <2>1. Becomes(c, {"command"}, next) /\ UNCHANGED <<typed, ended>>
    BY <1>9 DEF Console
  <2>2. Sound(next, typed[c], c \in ended)
    BY <1>0, SoundFresh
  <2>. HIDE DEF next
  <2>. QED
    BY <1>0, <2>1, <2>2, BecomesSound
<1>10. CASE ReadByte(c)
  <2>. DEFINE th == thread[c]
              nextOf(b) == IF b \in Enter THEN [th EXCEPT !.at = "command"]
                           ELSE IF b = "etx" THEN Fresh("closing")
                           ELSE [th EXCEPT !.input = Append(@, b), !.buf = Edit(@, b)]
  <2>1. PICK b \in Keys["prompt"] :
          Types(c, <<b>>) /\ Becomes(c, {"prompt"}, nextOf(b)) /\ UNCHANGED ended
    BY <1>10 DEF ReadByte
  <2>2. b \in Bytes /\ th.at = "prompt" /\ Len(<<b>>) = 1
    BY <1>0, <2>1 DEF Becomes
  <2>3. /\ typed' \in [Conns -> Nat] /\ typed'[c] = typed[c] + 1
        /\ typed'[c] <= MaxTyped[c] /\ \A d \in Conns \ {c} : typed'[d] = typed[d]
    BY <1>0, <2>1, <2>2 DEF Types
  <2>4. Sound(th, typed[c], c \in ended) /\ Sound(th, typed[c] + 1, c \in ended)
    <3>1. Len(th.input) \in Nat
      BY <1>0, FieldsOf, LenProperties DEF Sound
    <3>2. Len(th.input) <= typed[c] => Len(th.input) <= typed[c] + 1
      BY <1>0, <3>1
    <3>. QED
      BY <1>0, <3>2 DEF Sound
  <2>5. Sound(nextOf(b), typed[c] + 1, c \in ended)
    <3>1. CASE b \in Enter
      <4>1. Sound([th EXCEPT !.at = "command"], typed[c] + 1, c \in ended)
        BY <2>2, <2>4, SoundMove
      <4>. QED
        BY <3>1, <4>1
    <3>2. CASE b \notin Enter /\ b = "etx"
      <4>1. typed[c] + 1 \in Nat /\ "read_only" \in {"read_write", "read_only"}
        BY <1>0
      <4>2. Sound(Fresh("closing"), typed[c] + 1, c \in ended)
        BY <4>1, SoundFresh
      <4>. QED
        BY <3>2, <4>2
    <3>3. CASE b \notin Enter /\ b # "etx"
      <4>. DEFINE x == [th EXCEPT !.input = Append(@, b), !.buf = Edit(@, b)]
      <4>1. nextOf(b) = x
        BY <3>3
      <4>2. x = [th EXCEPT !.input = Append(@, b), !.buf = Edit(@, b)]
        OBVIOUS
      <4>. HIDE DEF x, th, nextOf
      <4>3. Sound(x, typed[c] + 1, c \in ended)
        BY <1>0, <2>2, <2>4, <4>2, SoundRead
      <4>. QED
        BY <4>1, <4>3
    <3>. QED
      BY <3>1, <3>2, <3>3
  <2>. HIDE DEF nextOf
  <2>. QED
    BY <2>1, <2>3, <2>5, BecomesSound
<1>11. CASE Receive(c)
  <2>. DEFINE th == thread[c]
              nextOf(s, res) ==
                [th EXCEPT
                   !.input = @ \o s,
                   !.escape = res.escape, !.stop = res.stop, !.out = res.out,
                   !.at = IF res.out # <<>> THEN "writing"
                          ELSE IF res.stop THEN "leaving" ELSE "checking"]
  <2>1. PICK n \in 1..(MaxTyped[c] - typed[c]) : \E s \in [1..n -> Keys["console"]] :
          /\ Types(c, s)
          /\ Becomes(c, {"reading"}, nextOf(s, Chunk(th.escape, s)))
          /\ th.level = "read_write" /\ UNCHANGED ended
    BY <1>11 DEF Receive
  <2>2. PICK s \in [1..n -> Keys["console"]] :
          /\ Types(c, s)
          /\ Becomes(c, {"reading"}, nextOf(s, Chunk(th.escape, s)))
          /\ th.level = "read_write" /\ UNCHANGED ended
    BY <2>1
  <2>3. s \in Seq(Bytes) /\ Len(s) \in Nat
    <3>1. n \in Nat /\ s \in [1..n -> Bytes]
      BY <1>0
    <3>2. Seq(Bytes) = UNION {[1..k -> Bytes] : k \in Nat}
      BY SeqDef
    <3>. QED
      BY <3>1, <3>2, LenProperties
  <2>. DEFINE res == Chunk(th.escape, s)
              x == nextOf(s, res)
  <2>4. /\ typed' \in [Conns -> Nat] /\ typed'[c] = typed[c] + Len(s)
        /\ typed'[c] <= MaxTyped[c] /\ \A d \in Conns \ {c} : typed'[d] = typed[d]
    BY <1>0, <2>2, <2>3 DEF Types
  <2>5. th.at = "reading" /\ Becomes(c, {"reading"}, x) /\ UNCHANGED ended
        /\ th.level = "read_write"
    BY <2>2 DEF Becomes
  <2>6. x = [th EXCEPT
               !.input = @ \o s,
               !.escape = res.escape, !.stop = res.stop, !.out = res.out,
               !.at = IF res.out # <<>> THEN "writing"
                      ELSE IF res.stop THEN "leaving" ELSE "checking"]
        /\ res = Chunk(th.escape, s) /\ Sound(th, typed[c], c \in ended)
    BY <1>0
  <2>. HIDE DEF x, res, th
  <2>7. Sound(x, typed[c] + Len(s), c \in ended)
    BY <1>0, <2>3, <2>5, <2>6, SoundReceive
  <2>. QED
    BY <2>4, <2>5, <2>7, BecomesSound
<1>12. CASE Write(c)
  <2>. DEFINE th == thread[c]
              over == c \in ended
              x == [th EXCEPT
                      !.written = IF c \in ended THEN @ ELSE @ \o th.out,
                      !.out = <<>>,
                      !.at = IF th.stop THEN "leaving" ELSE "checking"]
  <2>1. /\ Becomes(c, {"writing"}, x) /\ UNCHANGED <<typed, ended>>
        /\ x = [th EXCEPT
                  !.written = IF over THEN @ ELSE @ \o th.out,
                  !.out = <<>>,
                  !.at = IF th.stop THEN "leaving" ELSE "checking"]
    BY <1>12 DEF Write
  <2>2. th.at = "writing" /\ over \in BOOLEAN /\ Sound(th, typed[c], over)
    BY <1>0, <2>1 DEF Becomes
  <2>. HIDE DEF x, th, over
  <2>3. Sound(x, typed[c], over)
    BY <1>0, <2>1, <2>2, SoundWrite
  <2>. QED
    BY <1>0, <2>1, <2>3, BecomesSound DEF over
<1>. QED
  BY <1>1, <1>2, <1>3, <1>4, <1>5, <1>6, <1>7, <1>8, <1>9, <1>10, <1>11, <1>12
     DEF StepOf, ThreadStep, AtPrompt, AtConsole

\* In the beginning nothing is typed.
LEMMA InitSound == Init => AllSound
<1>. SUFFICES ASSUME Init PROVE AllSound
  OBVIOUS
<1>1. typed = [c \in Conns |-> 0] /\ thread = [c \in Conns |-> Fresh("away")]
  BY DEF Init
<1>2. \A over : Sound(Fresh("away"), 0, over)
  <2>1. "away" \in Places /\ 0 \in Nat /\ "read_only" \in {"read_write", "read_only"}
    BY DEF Places
  <2>. QED
    BY <2>1, SoundFresh
<1>3. Fresh("away") \in ThreadStates
  BY <1>2 DEF Sound
<1>4. \A c \in Conns : 0 <= MaxTyped[c]
  BY SessionsAssumption DEF SessionsAssumption
<1>. QED
  BY <1>1, <1>2, <1>3, <1>4 DEF AllSound

\* What every thread knows is what its user typed, and no longer than allowed.
THEOREM ThreadsSound == Spec => []AllSound
<1>1. AllSound /\ [Next]_vars => AllSound'
  <2>1. CASE UNCHANGED kept
    BY <2>1 DEF AllSound, kept
  <2>. QED
    BY <2>1, StepCases, StepSound
<1>. QED
  BY <1>1, InitSound, PTL DEF Spec

\* A console is sent what its writers typed while they were attached, in
\* whatever pieces it arrived, up to a ~. which makes them leave; viewers
\* send nothing.
THEOREM ConsoleGetsTypedAlways == Spec => []ConsoleGetsTyped
<1>1. AllSound => ConsoleGetsTyped
  <2>. SUFFICES ASSUME AllSound, NEW c \in Conns,
                       thread[c].at \in OnConsole \cup {"leaving"}, c \notin ended
                PROVE  IF thread[c].level = "read_only" THEN thread[c].written = <<>>
                       ELSE /\ thread[c].written \o thread[c].out = Passed(thread[c].input)
                            /\ Stops(thread[c].input) # {} <=>
                                 thread[c].stop /\ thread[c].at \in {"writing", "leaving"}
    BY DEF ConsoleGetsTyped
  <2>. DEFINE th == thread[c]
  <2>1. /\ th.written \o th.out = Passed(th.input)
        /\ th.stop <=> Stops(th.input) # {}
        /\ th.stop => th.at \in {"writing", "leaving"}
        /\ th.level = "read_only" => th.input = <<>>
        /\ th \in ThreadStates
    BY DEF AllSound, Sound, ConsoleRight, HasHub
  <2>2. th.level = "read_only" => th.written = <<>>
    <3>1. th.written \in Seq(Bytes) /\ th.out \in Seq(Bytes)
      BY <2>1, FieldsOf
    <3>2. th.level = "read_only" => th.written \o th.out = <<>>
      BY <2>1, NothingPassed
    <3>. HIDE DEF th
    <3>. QED
      BY <3>1, <3>2, ConcatEqualIffEmpty
  <2>. QED
    BY <2>1, <2>2
<1>. QED
  BY <1>1, ThreadsSound, PTL

\* A line is what was typed at the prompt with the deletions applied, unless
\* it was too long at some time.
THEOREM LineIsTypedAlways == Spec => []LineIsTyped
<1>1. AllSound => LineIsTyped
  BY DEF AllSound, Sound, LineRight, TooLong, LineIsTyped
<1>. QED
  BY <1>1, ThreadsSound, PTL

\* Sets of connections, and of locks.
OfConns ==
    /\ up \in SUBSET Conns
    /\ clients \in SUBSET Conns
    /\ ended \in SUBSET Conns
    /\ cut \in SUBSET Conns
    /\ held \in SUBSET Locks

\* They stay that.
LEMMA StepOfConns == OfConns /\ [Next]_vars => OfConns'
<1>. USE DEF OfConns
<1>1. CASE UNCHANGED vars
  BY <1>1 DEF vars
<1>2. ASSUME OfConns, NEW c \in Conns,
             Connect(c) \/ HangUp(c) \/ Accept(c) \/ HubEnds(c) \/ HubDrops(c) \/ Revoke(c)
      PROVE  OfConns'
  BY <1>2 DEF Connect, HangUp, Accept, HubEnds, HubDrops, Revoke
<1>3. ASSUME OfConns, NEW c \in Conns,
             Identified(c) \/ NotIdentified(c) \/ Forget(c) \/ Release(c)
      PROVE  OfConns'
  BY <1>3 DEF Identified, NotIdentified, Forget, Release
<1>4. ASSUME OfConns, NEW c \in Conns, AtPrompt(c)
      PROVE  OfConns'
  BY <1>4
     DEF AtPrompt, ReadByte, StopsReading, SendFails, OtherCommand, AsksForHubs,
         Lists, Counts, Quit, Console, Register, TooLate, Join, Joined, Tidy, Detached
<1>5. ASSUME OfConns, NEW c \in Conns, AtConsole(c)
      PROVE  OfConns'
  BY <1>5 DEF AtConsole, Check, Receive, Write, Discard, InputEnds, Leave
<1>6. ASSUME OfConns, NEW l \in Locks, Seize(l) \/ LetGo(l)
      PROVE  OfConns'
  BY <1>6 DEF Seize, LetGo
<1>. QED
  BY <1>1, <1>2, <1>3, <1>4, <1>5, <1>6 DEF Next, ThreadStep

\* The types of the state: no more slots than threads are allowed, no more
\* bytes than typed, no line longer than max_len of sock_readline.
THEOREM TypeCorrect == Spec => []TypeOK
<1>1. Init => OfConns
  BY DEF Init, OfConns
<1>2. Init => LeavesNothing
  BY DEF Init, Fresh, LeavesNothing
<1>3. Shaped /\ LeavesNothing /\ [Next]_vars => LeavesNothing'
  <2>1. CASE UNCHANGED kept
    BY <2>1 DEF LeavesNothing, kept
  <2>. QED
    BY <2>1, StepCases, StepLeavesNothing
<1>4. SlotsAccounted /\ slots \in Nat => slots \in 0..MaxThreads
  <2>. DEFINE n == Cardinality({c \in Conns : thread[c].at \in Threaded})
  <2>1. n \in Nat
    <3>1. {c \in Conns : thread[c].at \in Threaded} \in SUBSET Conns
      OBVIOUS
    <3>. QED
      BY <3>1, SessionsAssumption, FS_Subset, FS_CardinalityType DEF SessionsAssumption
  <2>2. SlotsAccounted => slots + n = MaxThreads
    BY DEF SlotsAccounted
  <2>. HIDE DEF n
  <2>. QED
    BY <2>1, <2>2, SessionsAssumption DEF SessionsAssumption
<1>5. slots \in 0..MaxThreads /\ AllSound /\ OfConns /\ LeavesNothing => TypeOK
  BY DEF AllSound, Sound, OfConns, LeavesNothing, TypeOK
<1>. QED
  BY <1>1, <1>2, <1>3, <1>4, <1>5, StepOfConns, ShapedAlways, SlotsInRange,
     ThreadsSound, PTL DEF Spec
=============================================================================
