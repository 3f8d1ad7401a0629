---------------------------- MODULE Edges_proof ----------------------------
(***************************************************************************)
(* Proofs about the two components at the edges of the server: the watcher *)
(* of the socket directory (Watch) and the logins at the PAM bridge        *)
(* (PamLogin).  They share no state, and each has its invariant:           *)
(*                                                                         *)
(*  - of a socket and a hub that do not belong together, some message or   *)
(*    event that says so is on its way, and no later one says otherwise,   *)
(*    or the listing of a new watch is still to come (Owed, Served);       *)
(*  - what the limiter has of a user's failures is the end of the list of  *)
(*    them, and those it has dropped do not count any more (Remembered,    *)
(*    Spent).                                                              *)
(***************************************************************************)
EXTENDS Watch, PamLogin, FiniteSetTheorems, SequenceTheorems,
        WellFoundedInduction, TLAPS

-----------------------------------------------------------------------------
(* Watch: the inductive invariant.                                         *)

\* The path an event or a message is about.
Where(e) == IF "path" \in DOMAIN e THEN e.path ELSE <<e.dir, e.name>>

Says(kind, e, p) == e.kind = kind /\ Where(e) = p

\* That the socket at p is gone is among s.
Gone(s, p) == \E i \in 1..Len(s) : Says("disappeared", s[i], p)

\* The last that s says of p is that it has appeared.
Fresh(s, p) ==
    \E i \in 1..Len(s) :
        /\ Says("appeared", s[i], p)
        /\ \A j \in (i + 1)..Len(s) : ~ Says("disappeared", s[j], p)

\* Paths of which the properties speak.
Seen == Paths \ (Explicit \cup unseen)

\* A thread has nothing in hand until it has listed, one message at a time, and
\* the ctl thread only files it has listed.
Hands ==
    /\ \A t \in Threads :
         /\ Len(out[t]) <= 1
         /\ pc[t] \in {"start", "open", "list"} \/ (t = "ctl" /\ pc[t] = "idle") =>
              todo[t] = <<>> /\ out[t] = <<>>
    /\ \A p \in Paths : ~ Gone(todo["ctl"], p) /\ ~ Gone(out["ctl"], p)

\* A socket has a number of its own.
Numbered ==
    /\ \A p \in Paths : sock[p] <= bound
    /\ \A p, q \in Paths : sock[p] = sock[q] /\ sock[p] # 0 => p = q

\* From the directory to the worker: queue, the main thread's hands, chan.
Held(p) == Gone(out["main"], p) \/ Gone(todo["main"], p) \/ Gone(queue, p)

Pending(p) == Gone(chan, p) \/ Held(p)

\* The last on the way is that there is a socket at p.
Coming(p) ==
    \/ Fresh(queue, p)
    \/ /\ ~ Gone(queue, p)
       /\ \/ Fresh(todo["main"], p)
          \/ /\ ~ Gone(todo["main"], p)
             /\ Fresh(out["main"], p) \/ (~ Gone(out["main"], p) /\ Fresh(chan, p))

\* p is among the files that have been listed or will be, and no event is
\* older than that.
Listed(p) ==
    /\ ~ Held(p)
    /\ \/ \E t \in Threads : pc[t] = "list" /\ wanted[t] = p[1]
       \/ Fresh(todo["ctl"], p) \/ Fresh(out["ctl"], p)

\* A hub of a socket that is gone will hear of it.
OwedAt(p) == hub[p] \notin {0, sock[p]} => Pending(p)

Owed == \A p \in Seen : OwedAt(p)

\* A socket has its hub, or the worker will hear of it, unless it was refused.
ServedAt(p) ==
    p[1] = watched /\ sock[p] # 0 =>
        \/ sock[p] \in lone
        \/ hub[p] = sock[p] /\ ~ Pending(p)
        \/ Coming(p)
        \/ Listed(p)

Served == \A p \in Seen : ServedAt(p)

WatchInv == TypeOK /\ Hands /\ Numbered /\ Owed /\ Served

-----------------------------------------------------------------------------
(* Watch: sequences of events and messages.                                *)

\* What an event and a message are about.
LEMMA SaysWhat ==
    /\ \A e \in Events : \A p, k : Says(k, e, p) <=> e.kind = k /\ <<e.dir, e.name>> = p
    /\ \A m \in Messages : \A p, k : Says(k, m, p) <=> m.kind = k /\ m.path = p
<1>1. \A e \in Events : "path" \notin DOMAIN e
  BY DEF Events
<1>2. \A m \in Messages : "path" \in DOMAIN m
  BY DEF Messages
<1>. QED
  BY <1>1, <1>2 DEF Says, Where

\* Nothing is said by nothing.
LEMMA EmptySays == \A p : ~ Gone(<<>>, p) /\ ~ Fresh(<<>>, p)
  BY DEF Gone, Fresh

\* One more, at the end.
LEMMA AppendSays ==
    ASSUME NEW S, NEW s \in Seq(S), NEW e \in S, NEW p
    PROVE  /\ Gone(Append(s, e), p) <=> Gone(s, p) \/ Says("disappeared", e, p)
           /\ Fresh(Append(s, e), p) <=>
                \/ Says("appeared", e, p)
                \/ Fresh(s, p) /\ ~ Says("disappeared", e, p)
<1>. DEFINE n == Len(s)
            r == Append(s, e)
<1>1. /\ n \in Nat /\ Len(r) = n + 1
      /\ \A i \in 1..n : r[i] = s[i]
      /\ r[n + 1] = e
  BY AppendProperties
<1>2. Says("appeared", e, p) => ~ Says("disappeared", e, p)
  BY DEF Says
<1>. HIDE DEF n, r
<1>3. Gone(r, p) <=> (\E i \in 1..n : Says("disappeared", s[i], p)) \/ Says("disappeared", e, p)
  <2>1. \A i : i \in 1..(n + 1) <=> i \in 1..n \/ i = n + 1
    BY <1>1
  <2>. QED
    BY <1>1, <2>1 DEF Gone
<1>4. ASSUME Fresh(r, p)
      PROVE  Says("appeared", e, p) \/ (Fresh(s, p) /\ ~ Says("disappeared", e, p))
  <2>1. PICK i \in 1..(n + 1) :
          /\ Says("appeared", r[i], p)
          /\ \A j \in (i + 1)..(n + 1) : ~ Says("disappeared", r[j], p)
    BY <1>1, <1>4 DEF Fresh
  <2>2. CASE i = n + 1
    BY <1>1, <2>1, <2>2
  <2>3. CASE i # n + 1
    <3>1. i \in 1..n /\ n + 1 \in (i + 1)..(n + 1)
      BY <1>1, <2>3
    <3>2. \A j \in (i + 1)..n : j \in (i + 1)..(n + 1) /\ j \in 1..n
      BY <1>1, <3>1
    <3>. QED
      BY <1>1, <2>1, <3>1, <3>2 DEF Fresh, n
  <2>. QED
    BY <2>2, <2>3
<1>5. ASSUME Says("appeared", e, p) PROVE Fresh(r, p)
  <2>1. n + 1 \in 1..(n + 1) /\ (n + 1 + 1)..(n + 1) = {}
    BY <1>1
  <2>. QED
    BY <1>1, <1>5, <2>1 DEF Fresh
<1>6. ASSUME Fresh(s, p), ~ Says("disappeared", e, p) PROVE Fresh(r, p)
  <2>1. PICK i \in 1..n :
          /\ Says("appeared", s[i], p)
          /\ \A j \in (i + 1)..n : ~ Says("disappeared", s[j], p)
    BY <1>6 DEF Fresh, n
  <2>2. i \in 1..(n + 1) /\ Says("appeared", r[i], p)
    BY <1>1, <2>1
  <2>3. ASSUME NEW j \in (i + 1)..(n + 1) PROVE ~ Says("disappeared", r[j], p)
    <3>1. j = n + 1 \/ (j \in (i + 1)..n /\ j \in 1..n)
      BY <1>1
    <3>. QED
      BY <1>1, <1>6, <2>1, <3>1
  <2>. QED
    BY <1>1, <2>2, <2>3 DEF Fresh
<1>. QED
  BY <1>3, <1>4, <1>5, <1>6 DEF Gone, n, r

\* One less, at the front.
LEMMA TailSays ==
    ASSUME NEW S, NEW s \in Seq(S), s # <<>>, NEW p
    PROVE  /\ Gone(s, p) <=> Gone(Tail(s), p) \/ Says("disappeared", Head(s), p)
           /\ Fresh(s, p) <=>
                \/ Fresh(Tail(s), p)
                \/ Says("appeared", Head(s), p) /\ ~ Gone(Tail(s), p)
<1>. DEFINE n == Len(s)
            r == Tail(s)
<1>1. /\ n \in Nat \ {0} /\ Len(r) = n - 1
      /\ \A i \in 1..(n - 1) : r[i] = s[i + 1]
      /\ s[1] = Head(s)
  BY HeadTailProperties
<1>. HIDE DEF n, r
<1>2. \A i \in 1..n : i = 1 \/ (i - 1 \in 1..(n - 1) /\ s[i] = r[i - 1])
  <2>1. \A i \in 1..n : i # 1 => i - 1 \in 1..(n - 1) /\ i - 1 + 1 = i
    BY <1>1
  <2>. QED
    BY <1>1, <2>1
<1>3. \A i \in 1..(n - 1) : i + 1 \in 1..n /\ r[i] = s[i + 1]
  BY <1>1
<1>4. 1 \in 1..n
  BY <1>1
<1>5. Gone(s, p) <=> Gone(r, p) \/ Says("disappeared", Head(s), p)
  <2>1. Gone(s, p) => Gone(r, p) \/ Says("disappeared", Head(s), p)
    BY <1>1, <1>2 DEF Gone, n
  <2>2. Gone(r, p) => Gone(s, p)
    BY <1>1, <1>3 DEF Gone, n
  <2>3. Says("disappeared", Head(s), p) => Gone(s, p)
    BY <1>1, <1>4 DEF Gone, n
  <2>. QED
    BY <2>1, <2>2, <2>3
<1>6. ASSUME Fresh(s, p)
      PROVE  Fresh(r, p) \/ (Says("appeared", Head(s), p) /\ ~ Gone(r, p))
  <2>1. PICK i \in 1..n :
          /\ Says("appeared", s[i], p)
          /\ \A j \in (i + 1)..n : ~ Says("disappeared", s[j], p)
    BY <1>6 DEF Fresh, n
  <2>2. CASE i = 1
    <3>1. \A j \in 1..(n - 1) : j + 1 \in (i + 1)..n
      BY <1>1, <2>2
    <3>2. ~ Gone(r, p)
      BY <1>1, <2>1, <3>1 DEF Gone
    <3>. QED
      BY <1>1, <2>1, <2>2, <3>2
  <2>3. CASE i # 1
    <3>1. i - 1 \in 1..(n - 1) /\ s[i] = r[i - 1]
      BY <1>2, <2>3
    <3>2. ASSUME NEW j \in (i - 1 + 1)..(n - 1) PROVE ~ Says("disappeared", r[j], p)
      <4>1. j + 1 \in (i + 1)..n /\ j \in 1..(n - 1)
        BY <1>1
      <4>. QED
        BY <1>1, <2>1, <4>1
    <3>. QED
      BY <1>1, <2>1, <3>1, <3>2 DEF Fresh
  <2>. QED
    BY <2>2, <2>3
<1>7. ASSUME Fresh(r, p) PROVE Fresh(s, p)
  <2>1. PICK i \in 1..(n - 1) :
          /\ Says("appeared", r[i], p)
          /\ \A j \in (i + 1)..(n - 1) : ~ Says("disappeared", r[j], p)
    BY <1>1, <1>7 DEF Fresh
  <2>2. i + 1 \in 1..n /\ s[i + 1] = r[i]
    BY <1>3
  <2>3. ASSUME NEW j \in (i + 1 + 1)..n PROVE ~ Says("disappeared", s[j], p)
    <3>1. j \in 1..n /\ j # 1 /\ j - 1 \in (i + 1)..(n - 1)
      BY <1>1
    <3>. QED
      BY <1>2, <2>1, <3>1
  <2>. QED
    BY <2>1, <2>2, <2>3 DEF Fresh, n
<1>8. ASSUME Says("appeared", Head(s), p), ~ Gone(r, p) PROVE Fresh(s, p)
  <2>1. ASSUME NEW j \in (1 + 1)..n PROVE ~ Says("disappeared", s[j], p)
    <3>1. j \in 1..n /\ j # 1
      BY <1>1
    <3>. QED
      BY <1>1, <1>2, <1>8, <3>1 DEF Gone
  <2>. QED
    BY <1>1, <1>4, <1>8, <2>1 DEF Fresh, n
<1>. QED
  BY <1>5, <1>6, <1>7, <1>8 DEF r

\* What is said is said of one of the paths.
LEMMA GoneIsThere ==
    /\ \A s \in Seq(Events) : \A p : Gone(s, p) => p \in PathsOf(s)
    /\ \A s \in Seq(Messages) : \A p :
         Gone(s, p) => p \in {s[i].path : i \in 1..Len(s)}
<1>1. ASSUME NEW s \in Seq(Events), NEW p, Gone(s, p) PROVE p \in PathsOf(s)
  <2>1. PICK i \in 1..Len(s) : Says("disappeared", s[i], p)
    BY <1>1 DEF Gone
  <2>2. s[i] \in Events
    OBVIOUS
  <2>. QED
    BY <2>1, <2>2, SaysWhat DEF PathsOf
<1>2. ASSUME NEW s \in Seq(Messages), NEW p, Gone(s, p)
      PROVE  p \in {s[i].path : i \in 1..Len(s)}
  <2>1. PICK i \in 1..Len(s) : Says("disappeared", s[i], p)
    BY <1>2 DEF Gone
  <2>2. s[i] \in Messages
    OBVIOUS
  <2>. QED
    BY <2>1, <2>2, SaysWhat
<1>. QED
  BY <1>1, <1>2

\* A listing is of all the sockets there are, and of nothing that is gone.
LEMMA ListingsHave ==
    ASSUME TypeOK, NEW d \in Dirs, NEW files \in Listings(d)
    PROVE  /\ files \in Seq(Events)
           /\ \A p : ~ Gone(files, p)
           /\ \A p \in Present(d) : Fresh(files, p)
<1>. DEFINE S == Present(d)
            n == Cardinality(S)
<1>1. IsFiniteSet(S) /\ n \in Nat
  <2>1. IsFiniteSet({d} \X Names)
    BY WatchAssumption, FS_Singleton, FS_Product DEF WatchAssumption
  <2>2. S \subseteq {d} \X Names
    BY DEF Present
  <2>. QED
    BY <2>1, <2>2, FS_Subset, FS_CardinalityType
<1>2. PICK order \in [1..n -> S] :
        /\ \A i, j \in 1..n : order[i] = order[j] => i = j
        /\ files = [i \in 1..n |-> [kind |-> "appeared", dir |-> d, name |-> order[i][2]]]
  BY DEF Listings
<1>3. \A p \in S : p = <<d, p[2]>> /\ p[2] \in Names
  BY DEF Present
<1>4. \A p \in S : \E i \in 1..n : order[i] = p
  <2>1. IsFiniteSet(1..n) /\ Cardinality(1..n) = n
    BY <1>1, FS_Interval
  <2>. HIDE DEF S
  <2>2. order \in Injection(1..n, S)
    BY <1>2 DEF Injection, IsInjective
  <2>3. order \in Surjection(1..n, S)
    BY <1>1, <2>1, <2>2, FS_Injection
  <2>. QED
    BY <2>3 DEF Surjection
<1>. HIDE DEF S, n
<1>5. files \in Seq(Events) /\ Len(files) = n
  BY <1>1, <1>2, <1>3 DEF Events, Kinds
<1>6. ASSUME NEW i \in 1..n
      PROVE  /\ files[i] \in Events /\ files[i].kind = "appeared"
             /\ <<files[i].dir, files[i].name>> = order[i]
  BY <1>2, <1>3 DEF Events, Kinds
<1>7. \A i \in 1..n : \A p :
        /\ ~ Says("disappeared", files[i], p)
        /\ Says("appeared", files[i], p) <=> order[i] = p
  <2>. TAKE i \in 1..n
  <2>. TAKE p
  <2>1. /\ Says("disappeared", files[i], p) <=> files[i].kind = "disappeared"
                                                /\ <<files[i].dir, files[i].name>> = p
        /\ Says("appeared", files[i], p) <=> files[i].kind = "appeared"
                                             /\ <<files[i].dir, files[i].name>> = p
    BY <1>6, SaysWhat
  <2>. QED
    BY <1>6, <2>1
<1>8. \A p : ~ Gone(files, p)
  BY <1>5, <1>7 DEF Gone
<1>9. ASSUME NEW p \in S PROVE Fresh(files, p)
  <2>1. PICK i \in 1..n : order[i] = p
    BY <1>4
  <2>2. \A j \in (i + 1)..n : j \in 1..n
    BY <1>1
  <2>. QED
    BY <1>5, <1>7, <2>1, <2>2 DEF Fresh
<1>. QED
  BY <1>5, <1>8, <1>9 DEF S

-----------------------------------------------------------------------------
(* Watch: types.                                                           *)

\* Every step keeps the types.
LEMMA WatchTypeStep == TypeOK /\ [Next]_vars => TypeOK'
<1>. SUFFICES ASSUME TypeOK, [Next]_vars PROVE TypeOK'
  OBVIOUS
<1>0. /\ sock \in [Paths -> Nat] /\ bound \in Nat
      /\ up \subseteq Nat /\ lone \subseteq Nat
      /\ watched \in Dirs \cup {NoDir} /\ watch_dir \in Dirs
      /\ queue \in Seq(Events)
      /\ pc \in [Threads -> {"idle", "start", "open", "list", "handle"}]
      /\ wanted \in [Threads -> Dirs]
      /\ todo \in [Threads -> Seq(Events)]
      /\ out \in [Threads -> Seq(Messages)]
      /\ chan \in Seq(Messages) /\ Len(chan) <= Capacity
      /\ hub \in [Paths -> Nat] /\ reloads \in Nat /\ unseen \subseteq Paths
      /\ Capacity \in Nat
  BY WatchAssumption DEF TypeOK, WatchAssumption
<1>. DEFINE Rest == /\ watched' \in Dirs \cup {NoDir} /\ watch_dir' \in Dirs
                    /\ pc' \in [Threads -> {"idle", "start", "open", "list", "handle"}]
                    /\ wanted' \in [Threads -> Dirs]
                    /\ reloads' \in Nat
            Sockets == /\ sock' \in [Paths -> Nat] /\ bound' \in Nat
                       /\ up' \subseteq Nat /\ lone' \subseteq Nat
                       /\ hub' \in [Paths -> Nat]
            Flow == /\ queue' \in Seq(Events)
                    /\ todo' \in [Threads -> Seq(Events)]
                    /\ out' \in [Threads -> Seq(Messages)]
                    /\ chan' \in Seq(Messages) /\ Len(chan') <= Capacity
                    /\ unseen' \subseteq Paths
<1>1. SUFFICES Rest /\ Sockets /\ Flow
  BY DEF TypeOK
<1>2. \A p \in Paths : /\ p[1] \in Dirs /\ p[2] \in Names
                       /\ \A k \in Kinds : [kind |-> k, dir |-> p[1], name |-> p[2]] \in Events
  BY DEF Paths, Events
<1>3. \A p \in Paths, k \in Kinds : Notify(k, p) => queue' \in Seq(Events)
  BY <1>0, <1>2 DEF Notify
<1>4. CASE \E p \in Paths : Bind(p) \/ Listen(p) \/ Unlink(p) \/ HubEnds(p)
  <2>1. PICK p \in Paths : Bind(p) \/ Listen(p) \/ Unlink(p) \/ HubEnds(p)
    BY <1>4
  <2>2. CASE Bind(p)
    BY <1>0, <1>3, <2>2 DEF Bind, Kinds
  <2>3. CASE Listen(p)
    BY <1>0, <2>3 DEF Listen
  <2>4. CASE Unlink(p)
    BY <1>0, <1>3, <2>4 DEF Unlink, Kinds
  <2>5. CASE HubEnds(p)
    BY <1>0, <2>5 DEF HubEnds
  <2>. QED
    BY <2>1, <2>2, <2>3, <2>4, <2>5
<1>5. ASSUME NEW d \in Dirs, Reload(d) PROVE Rest /\ Sockets /\ Flow
  <2>1. Rest
    BY <1>0, <1>5 DEF Reload, Threads
  <2>2. Sockets /\ Flow
    BY <1>0, <1>5 DEF Reload
  <2>. QED
    BY <2>1, <2>2
<1>6. ASSUME NEW t \in Threads, ThreadStep(t) PROVE Rest /\ Sockets /\ Flow
  <2>1. InHand("main") \subseteq Paths /\ PathsOf(queue) \subseteq Paths
    <3>1. /\ \A e \in Events : <<e.dir, e.name>> \in Paths
          /\ \A m \in Messages : m.path \in Paths
      BY DEF Events, Messages, Paths
    <3>2. \A s \in Seq(Events) : PathsOf(s) \subseteq Paths
      BY <3>1 DEF PathsOf
    <3>3. \A s \in Seq(Messages) : {s[i].path : i \in 1..Len(s)} \subseteq Paths
      BY <3>1
    <3>4. todo["main"] \in Seq(Events) /\ out["main"] \in Seq(Messages)
      BY <1>0 DEF Threads
    <3>. QED
      BY <1>0, <3>2, <3>3, <3>4 DEF InHand
  <2>2. CASE StartWatch(t)
    BY <1>0, <2>1, <2>2 DEF StartWatch
  <2>3. CASE GiveUp(t)
    BY <1>0, <2>3 DEF GiveUp
  <2>4. CASE OpenWatch(t)
    BY <1>0, <2>1, <2>4 DEF OpenWatch
  <2>5. CASE List(t)
    <3>1. wanted[t] \in Dirs
      BY <1>0
    <3>2. Present(wanted[t]) \subseteq Paths
      BY <3>1 DEF Present, Paths
    <3>3. todo' \in [Threads -> Seq(Events)]
      <4>1. \A files \in Listings(wanted[t]) : files \in Seq(Events)
        BY <3>1, ListingsHave
      <4>. QED
        BY <1>0, <2>5, <4>1 DEF List
    <3>. QED
      BY <1>0, <2>5, <3>2, <3>3 DEF List
  <2>6. CASE Handle(t)
    <3>. DEFINE e == Head(todo[t])
                p == PathOf(t, e)
    <3>1. todo[t] \in Seq(Events) /\ todo[t] # <<>>
      BY <1>0, <2>6 DEF Handle
    <3>2. e \in Events /\ Tail(todo[t]) \in Seq(Events)
      BY <3>1, HeadTailProperties
    <3>3. p \in Paths /\ <<e.dir, e.name>> \in Paths /\ e.kind \in Kinds
      BY <1>0, <3>2 DEF PathOf, Paths, Events
    <3>4. <<[kind |-> e.kind, path |-> p]>> \in Seq(Messages)
      BY <3>3 DEF Messages
    <3>5. sock[p] \in Nat
      BY <1>0, <3>3
    <3>. HIDE DEF e, p
    <3>6. /\ \/ out' = [out EXCEPT ![t] = <<[kind |-> e.kind, path |-> p]>>] /\ UNCHANGED lone
             \/ lone' = lone \cup ({sock[p]} \ {0}) /\ UNCHANGED out
          /\ unseen' = IF p[1] # e.dir THEN unseen \cup {p, <<e.dir, e.name>>} ELSE unseen
          /\ todo' = [todo EXCEPT ![t] = Tail(@)]
          /\ UNCHANGED <<sock, bound, up, watched, queue, watch_dir, pc, wanted, chan, hub,
                         reloads>>
      BY <2>6 DEF Handle, e, p
    <3>7. Rest
      BY <1>0, <3>6
    <3>8. lone' \subseteq Nat /\ out' \in [Threads -> Seq(Messages)]
      BY <1>0, <3>4, <3>5, <3>6
    <3>9. todo' \in [Threads -> Seq(Events)] /\ unseen' \subseteq Paths
      BY <1>0, <3>2, <3>3, <3>6
    <3>. QED
      BY <1>0, <3>6, <3>7, <3>8, <3>9
  <2>7. CASE Send(t)
    <3>1. out[t] \in Seq(Messages) /\ out[t] # <<>> /\ Len(chan) < Capacity
      BY <1>0, <2>7 DEF Send
    <3>2. out[t][1] \in Messages
      BY <3>1
    <3>3. Append(chan, out[t][1]) \in Seq(Messages) /\ Len(Append(chan, out[t][1])) <= Capacity
      BY <1>0, <3>1, <3>2
    <3>. QED
      BY <1>0, <2>7, <3>3 DEF Send
  <2>8. CASE Ready(t)
    BY <1>0, <2>8 DEF Ready
  <2>. QED
    BY <1>6, <2>2, <2>3, <2>4, <2>5, <2>6, <2>7, <2>8 DEF ThreadStep, StartSteps
<1>7. CASE ReadEvents
  BY <1>0, <1>7 DEF ReadEvents, Threads
<1>8. CASE WorkerStep
  <2>1. chan # <<>> /\ chan' = Tail(chan)
    BY <1>8 DEF WorkerStep, Appeared, Disappeared, Received
  <2>2. Head(chan) \in Messages /\ Tail(chan) \in Seq(Messages) /\ Len(Tail(chan)) <= Capacity
    <3>1. Len(Tail(chan)) = Len(chan) - 1 /\ Len(chan) \in Nat
      BY <1>0, <2>1, HeadTailProperties
    <3>. QED
      BY <1>0, <2>1, <3>1, HeadTailProperties
  <2>3. Head(chan).path \in Paths
    BY <2>2 DEF Messages
  <2>4. CASE Appeared
    BY <1>0, <2>1, <2>2, <2>3, <2>4 DEF Appeared
  <2>5. CASE Disappeared
    BY <1>0, <2>1, <2>2, <2>3, <2>5 DEF Disappeared
  <2>. QED
    BY <1>8, <2>4, <2>5 DEF WorkerStep
<1>9. CASE UNCHANGED vars
  BY <1>0, <1>9 DEF vars
<1>. QED
  BY <1>4, <1>5, <1>6, <1>7, <1>8, <1>9 DEF Next, Environment

\* Only one, and there is no last before it.
LEMMA OneSays ==
    \A m, p : /\ Gone(<<m>>, p) <=> Says("disappeared", m, p)
              /\ Fresh(<<m>>, p) <=> Says("appeared", m, p)
<1>. TAKE m, p
<1>1. Len(<<m>>) = 1 /\ <<m>>[1] = m
  OBVIOUS
<1>2. 1..1 = {1} /\ (1 + 1)..1 = {}
  OBVIOUS
<1>. QED
  BY <1>1, <1>2 DEF Gone, Fresh

\* What the threads have in hand is in order after every step.
LEMMA HandsStep ==
    ASSUME TypeOK, Hands, [Next]_vars
    PROVE  Hands'
<1>. DEFINE Busy(t) == pc[t] \in {"start", "open", "list"} \/ (t = "ctl" /\ pc[t] = "idle")
<1>0. /\ \A t \in Threads : /\ Len(out[t]) <= 1
                            /\ Busy(t) => todo[t] = <<>> /\ out[t] = <<>>
      /\ \A p \in Paths : ~ Gone(todo["ctl"], p) /\ ~ Gone(out["ctl"], p)
      /\ pc \in [Threads -> {"idle", "start", "open", "list", "handle"}]
      /\ todo \in [Threads -> Seq(Events)] /\ out \in [Threads -> Seq(Messages)]
      /\ "ctl" \in Threads /\ "main" \in Threads /\ "ctl" # "main"
  BY DEF Hands, TypeOK, Threads
<1>1. SUFFICES
        /\ \A t \in Threads : /\ Len(out'[t]) <= 1
                              /\ Busy(t)' => todo'[t] = <<>> /\ out'[t] = <<>>
        /\ \A p \in Paths : ~ Gone(todo'["ctl"], p) /\ ~ Gone(out'["ctl"], p)
  BY DEF Hands, Gone
<1>2. CASE UNCHANGED <<pc, todo, out>>
  BY <1>0, <1>2
<1>3. CASE \E p \in Paths : Bind(p) \/ Listen(p) \/ Unlink(p) \/ HubEnds(p)
  BY <1>2, <1>3 DEF Bind, Listen, Unlink, HubEnds
<1>4. CASE \E d \in Dirs : Reload(d)
  BY <1>0, <1>4 DEF Reload
<1>5. ASSUME NEW t \in Threads, StartWatch(t) \/ GiveUp(t) \/ OpenWatch(t)
      PROVE  /\ \A u \in Threads : /\ Len(out'[u]) <= 1
                                   /\ Busy(u)' => todo'[u] = <<>> /\ out'[u] = <<>>
             /\ \A p \in Paths : ~ Gone(todo'["ctl"], p) /\ ~ Gone(out'["ctl"], p)
  <2>1. /\ todo' = todo /\ out' = out /\ pc[t] \in {"start", "open"}
        /\ \A u \in Threads : u # t => pc'[u] = pc[u]
    BY <1>0, <1>5 DEF StartWatch, GiveUp, OpenWatch
  <2>. QED
    BY <1>0, <2>1
<1>6. ASSUME NEW t \in Threads, List(t)
      PROVE  /\ \A u \in Threads : /\ Len(out'[u]) <= 1
                                   /\ Busy(u)' => todo'[u] = <<>> /\ out'[u] = <<>>
             /\ \A p \in Paths : ~ Gone(todo'["ctl"], p) /\ ~ Gone(out'["ctl"], p)
  <2>1. /\ out' = out /\ pc'[t] = "handle"
        /\ \A u \in Threads : u # t => pc'[u] = pc[u] /\ todo'[u] = todo[u]
    BY <1>0, <1>6 DEF List
  <2>2. todo'[t] = todo[t] \/ todo'[t] \in Listings(wanted[t])
    BY <1>0, <1>6 DEF List
  <2>3. wanted[t] \in Dirs
    BY DEF TypeOK
  <2>4. \A p \in Paths : ~ Gone(todo'["ctl"], p)
    BY <1>0, <2>1, <2>2, <2>3, ListingsHave
  <2>. QED
    BY <1>0, <2>1, <2>4
<1>7. ASSUME NEW t \in Threads, Handle(t)
      PROVE  /\ \A u \in Threads : /\ Len(out'[u]) <= 1
                                   /\ Busy(u)' => todo'[u] = <<>> /\ out'[u] = <<>>
             /\ \A p \in Paths : ~ Gone(todo'["ctl"], p) /\ ~ Gone(out'["ctl"], p)
  <2>. DEFINE e == Head(todo[t])
              m == [kind |-> e.kind, path |-> PathOf(t, e)]
  <2>1. /\ todo[t] # <<>> /\ out[t] = <<>> /\ pc' = pc
        /\ todo'[t] = Tail(todo[t])
        /\ out'[t] = <<m>> \/ out'[t] = <<>>
        /\ \A u \in Threads : u # t => todo'[u] = todo[u] /\ out'[u] = out[u]
    BY <1>0, <1>7 DEF Handle
  <2>2. /\ e \in Events /\ PathOf(t, e) \in Paths /\ m \in Messages
        /\ <<e.dir, e.name>> \in Paths
    <3>1. todo[t] \in Seq(Events)
      BY <1>0
    <3>2. e \in Events
      BY <2>1, <3>1, HeadTailProperties
    <3>. QED
      BY <3>2 DEF TypeOK, PathOf, Paths, Events, Messages
  <2>3. \A p : Gone(todo[t], p) <=> Gone(Tail(todo[t]), p) \/ Says("disappeared", e, p)
    <3>1. todo[t] \in Seq(Events)
      BY <1>0
    <3>. QED
      BY <2>1, <3>1, TailSays
  <2>4. \A p : Says("disappeared", m, p) =>
                 e.kind = "disappeared" /\ Says("disappeared", e, <<e.dir, e.name>>)
    <3>1. m.kind = e.kind
      OBVIOUS
    <3>. QED
      BY <2>2, <3>1, SaysWhat
  <2>. HIDE DEF e, m
  <2>5. t = "ctl" => \A p \in Paths : ~ Gone(<<m>>, p)
    BY <1>0, <2>2, <2>3, <2>4, OneSays
  <2>6. \A p \in Paths : ~ Gone(todo'["ctl"], p) /\ ~ Gone(out'["ctl"], p)
    BY <1>0, <2>1, <2>3, <2>5, EmptySays
  <2>7. Len(out'[t]) <= 1
    <3>1. Len(<<m>>) <= 1 /\ Len(<<>>) <= 1
      OBVIOUS
    <3>. QED
      BY <2>1, <3>1, Zenon
  <2>. QED
    BY <1>0, <2>1, <2>6, <2>7
<1>8. ASSUME NEW t \in Threads, Send(t) \/ Ready(t)
      PROVE  /\ \A u \in Threads : /\ Len(out'[u]) <= 1
                                   /\ Busy(u)' => todo'[u] = <<>> /\ out'[u] = <<>>
             /\ \A p \in Paths : ~ Gone(todo'["ctl"], p) /\ ~ Gone(out'["ctl"], p)
  <2>1. /\ todo' = todo /\ out'[t] = <<>>
        /\ \A u \in Threads : u # t => pc'[u] = pc[u] /\ out'[u] = out[u]
        /\ pc'[t] = pc[t] \/ (todo[t] = <<>> /\ out[t] = <<>>)
    BY <1>0, <1>8 DEF Send, Ready
  <2>. QED
    BY <1>0, <2>1, EmptySays
<1>9. CASE ReadEvents
  <2>1. /\ pc' = pc /\ out' = out /\ pc["main"] = "idle"
        /\ \A u \in Threads : u # "main" => todo'[u] = todo[u]
    BY <1>0, <1>9 DEF ReadEvents
  <2>. QED
    BY <1>0, <2>1
<1>10. CASE WorkerStep
  BY <1>2, <1>10 DEF WorkerStep, Appeared, Disappeared
<1>11. CASE UNCHANGED vars
  BY <1>2, <1>11 DEF vars
<1>. QED
  BY <1>3, <1>4, <1>5, <1>6, <1>7, <1>8, <1>9, <1>10, <1>11
     DEF Next, Environment, ThreadStep, StartSteps

\* No number is given twice.
LEMMA NumberedStep ==
    ASSUME TypeOK, Numbered, [Next]_vars
    PROVE  Numbered'
<1>1. CASE UNCHANGED <<sock, bound>>
  BY <1>1 DEF Numbered
<1>2. ASSUME NEW p \in Paths, Bind(p) PROVE Numbered'
  BY <1>2 DEF Bind, Numbered, TypeOK
<1>3. ASSUME NEW p \in Paths, Unlink(p) PROVE Numbered'
  BY <1>3 DEF Unlink, Numbered, TypeOK
<1>4. ASSUME NEW p \in Paths, Listen(p) \/ HubEnds(p) PROVE Numbered'
  BY <1>1, <1>4 DEF Listen, HubEnds
<1>5. ASSUME NEW d \in Dirs, Reload(d) PROVE Numbered'
  BY <1>1, <1>5 DEF Reload
<1>6. ASSUME NEW t \in Threads, ThreadStep(t) PROVE Numbered'
  BY <1>1, <1>6 DEF ThreadStep, StartSteps, StartWatch, GiveUp, OpenWatch, List, Handle,
                    Send, Ready
<1>7. CASE ReadEvents \/ WorkerStep \/ UNCHANGED vars
  BY <1>1, <1>7 DEF ReadEvents, WorkerStep, Appeared, Disappeared, vars
<1>. QED
  BY <1>2, <1>3, <1>4, <1>5, <1>6, <1>7 DEF Next, Environment

-----------------------------------------------------------------------------
(* Watch: what happens to one path.                                        *)

\* The two conjuncts after a step, spelt out.
LEMMA PathAfter ==
    ASSUME NEW p
    PROVE  /\ OwedAt(p)' <=>
                (hub'[p] \notin {0, sock'[p]} =>
                   \/ Gone(chan', p) \/ Gone(out'["main"], p)
                   \/ Gone(todo'["main"], p) \/ Gone(queue', p))
           /\ ServedAt(p)' <=>
                (p[1] = watched' /\ sock'[p] # 0 =>
                   \/ sock'[p] \in lone'
                   \/ /\ hub'[p] = sock'[p]
                      /\ ~ Gone(chan', p) /\ ~ Gone(out'["main"], p)
                      /\ ~ Gone(todo'["main"], p) /\ ~ Gone(queue', p)
                   \/ Fresh(queue', p)
                   \/ /\ ~ Gone(queue', p)
                      /\ \/ Fresh(todo'["main"], p)
                         \/ /\ ~ Gone(todo'["main"], p)
                            /\ \/ Fresh(out'["main"], p)
                               \/ ~ Gone(out'["main"], p) /\ Fresh(chan', p)
                   \/ /\ ~ Gone(out'["main"], p) /\ ~ Gone(todo'["main"], p)
                      /\ ~ Gone(queue', p)
                      /\ \/ \E t \in Threads : pc'[t] = "list" /\ wanted'[t] = p[1]
                         \/ Fresh(todo'["ctl"], p) \/ Fresh(out'["ctl"], p))
<1>1. /\ Pending(p)' <=> \/ Gone(chan', p) \/ Gone(out'["main"], p)
                         \/ Gone(todo'["main"], p) \/ Gone(queue', p)
      /\ Held(p)' <=> Gone(out'["main"], p) \/ Gone(todo'["main"], p) \/ Gone(queue', p)
  BY DEF Pending, Held, Gone
<1>2. /\ Gone(queue', p) <=> Gone(queue, p)'
      /\ Gone(todo'["main"], p) <=> Gone(todo["main"], p)'
      /\ Gone(out'["main"], p) <=> Gone(out["main"], p)'
      /\ Gone(chan', p) <=> Gone(chan, p)'
  BY DEF Gone
<1>3. /\ Fresh(queue', p) <=> Fresh(queue, p)'
      /\ Fresh(todo'["main"], p) <=> Fresh(todo["main"], p)'
      /\ Fresh(out'["main"], p) <=> Fresh(out["main"], p)'
      /\ Fresh(chan', p) <=> Fresh(chan, p)'
      /\ Fresh(todo'["ctl"], p) <=> Fresh(todo["ctl"], p)'
      /\ Fresh(out'["ctl"], p) <=> Fresh(out["ctl"], p)'
  BY DEF Fresh
<1>4. OwedAt(p)' <=> (hub'[p] \notin {0, sock'[p]} => Pending(p)')
  BY DEF OwedAt
<1>5. Coming(p)' <=>
        \/ Fresh(queue', p)
        \/ /\ ~ Gone(queue', p)
           /\ \/ Fresh(todo'["main"], p)
              \/ /\ ~ Gone(todo'["main"], p)
                 /\ \/ Fresh(out'["main"], p)
                    \/ ~ Gone(out'["main"], p) /\ Fresh(chan', p)
  BY <1>2, <1>3 DEF Coming
<1>6. Listed(p)' <=>
        /\ ~ Held(p)'
        /\ \/ \E t \in Threads : pc'[t] = "list" /\ wanted'[t] = p[1]
           \/ Fresh(todo'["ctl"], p) \/ Fresh(out'["ctl"], p)
  BY <1>3 DEF Listed
<1>7. ServedAt(p)' <=>
        (p[1] = watched' /\ sock'[p] # 0 =>
           \/ sock'[p] \in lone'
           \/ hub'[p] = sock'[p] /\ ~ Pending(p)'
           \/ Coming(p)' \/ Listed(p)')
  BY DEF ServedAt
<1>. QED
  BY <1>1, <1>4, <1>5, <1>6, <1>7

\* The virtual machines, and hubs that end.
LEMMA EnvironmentServes ==
    ASSUME WatchInv, Environment, NEW p \in Seen'
    PROVE  OwedAt(p)' /\ ServedAt(p)'
<1>0. p \in Paths /\ p \in Seen /\ OwedAt(p) /\ ServedAt(p) /\ queue \in Seq(Events)
  <2>1. unseen \subseteq unseen'
    BY DEF Environment, Bind, Listen, Unlink, HubEnds, Reload
  <2>. QED
    BY <2>1 DEF Seen, WatchInv, Owed, Served, TypeOK
<1>1. ASSUME NEW r \in Paths, NEW k \in Kinds, Notify(k, r)
      PROVE  IF watched = r[1] /\ r = p
             THEN /\ k = "appeared" => Fresh(queue', p) /\ (Gone(queue', p) <=> Gone(queue, p))
                  /\ k = "disappeared" => Gone(queue', p)
             ELSE (Fresh(queue', p) <=> Fresh(queue, p)) /\ (Gone(queue', p) <=> Gone(queue, p))
  <2>. DEFINE e == [kind |-> k, dir |-> r[1], name |-> r[2]]
  <2>1. e \in Events /\ <<e.dir, e.name>> = r /\ e.kind = k
    BY DEF Events, Paths
  <2>2. \A kind : Says(kind, e, p) <=> kind = k /\ r = p
    BY <2>1, SaysWhat
  <2>3. queue' = IF watched = r[1] THEN Append(queue, e) ELSE queue
    BY <1>1 DEF Notify
  <2>. HIDE DEF e
  <2>4. CASE watched = r[1]
    <3>1. /\ Gone(queue', p) <=> Gone(queue, p) \/ Says("disappeared", e, p)
          /\ Fresh(queue', p) <=>
               Says("appeared", e, p) \/ (Fresh(queue, p) /\ ~ Says("disappeared", e, p))
      BY <1>0, <2>1, <2>3, <2>4, AppendSays
    <3>. QED
      BY <2>2, <2>4, <3>1 DEF Kinds
  <2>5. CASE watched # r[1]
    BY <2>3, <2>5
  <2>. QED
    BY <2>4, <2>5
<1>2. ASSUME NEW r \in Paths, Bind(r) PROVE OwedAt(p)' /\ ServedAt(p)'
  <2>1. /\ UNCHANGED <<watched, pc, wanted, todo, out, chan, hub, lone>>
        /\ sock[r] = 0 /\ sock' = [sock EXCEPT ![r] = bound + 1]
        /\ Notify("appeared", r) /\ sock \in [Paths -> Nat]
    BY <1>2 DEF Bind, WatchInv, TypeOK
  <2>2. IF watched = r[1] /\ r = p
        THEN Fresh(queue', p) /\ (Gone(queue', p) <=> Gone(queue, p))
        ELSE (Fresh(queue', p) <=> Fresh(queue, p)) /\ (Gone(queue', p) <=> Gone(queue, p))
    BY <1>1, <2>1 DEF Kinds
  <2>3. CASE r = p
    BY <1>0, <2>1, <2>2, <2>3, PathAfter DEF OwedAt, Pending, Held
  <2>4. CASE r # p
    <3>1. sock'[p] = sock[p]
      BY <1>0, <2>1, <2>4
    <3>. QED
      BY <1>0, <2>1, <2>2, <2>4, <3>1, PathAfter
         DEF OwedAt, ServedAt, Pending, Held, Coming, Listed
  <2>. QED
    BY <2>3, <2>4
<1>3. ASSUME NEW r \in Paths, Listen(r) PROVE OwedAt(p)' /\ ServedAt(p)'
  <2>1. UNCHANGED <<sock, watched, queue, pc, wanted, todo, out, chan, hub, lone>>
    BY <1>3 DEF Listen
  <2>. QED
    BY <1>0, <2>1, PathAfter DEF OwedAt, ServedAt, Pending, Held, Coming, Listed
<1>4. ASSUME NEW r \in Paths, Unlink(r) PROVE OwedAt(p)' /\ ServedAt(p)'
  <2>1. /\ UNCHANGED <<watched, pc, wanted, todo, out, chan, hub>>
        /\ sock[r] # 0 /\ sock' = [sock EXCEPT ![r] = 0]
        /\ lone' = lone \ {sock[r]}
        /\ unseen' = IF watched # r[1] /\ hub[r] = sock[r] THEN unseen \cup {r} ELSE unseen
        /\ Notify("disappeared", r) /\ sock \in [Paths -> Nat]
    BY <1>4 DEF Unlink, WatchInv, TypeOK
  <2>2. IF watched = r[1] /\ r = p THEN Gone(queue', p)
        ELSE (Fresh(queue', p) <=> Fresh(queue, p)) /\ (Gone(queue', p) <=> Gone(queue, p))
    BY <1>1, <2>1 DEF Kinds
  <2>3. CASE r = p
    <3>1. sock'[p] = 0 /\ ~ (watched # r[1] /\ hub[r] = sock[r])
      BY <1>0, <2>1, <2>3 DEF Seen
    <3>. QED
      BY <1>0, <2>1, <2>2, <2>3, <3>1, PathAfter DEF OwedAt, Pending, Held
  <2>4. CASE r # p
    <3>1. sock'[p] = sock[p]
      BY <1>0, <2>1, <2>4
    <3>2. sock[p] \in lone => sock[p] \in lone'
      BY <1>0, <2>1, <2>4 DEF WatchInv, Numbered
    <3>. QED
      BY <1>0, <2>1, <2>2, <2>4, <3>1, <3>2, PathAfter
         DEF OwedAt, ServedAt, Pending, Held, Coming, Listed
  <2>. QED
    BY <2>3, <2>4
<1>5. ASSUME NEW r \in Paths, HubEnds(r) PROVE OwedAt(p)' /\ ServedAt(p)'
  <2>1. /\ UNCHANGED <<sock, watched, queue, pc, wanted, todo, out, chan>>
        /\ hub' = [hub EXCEPT ![r] = 0] /\ hub \in [Paths -> Nat]
        /\ lone' = lone \cup ({hub[r]} \cap {sock[r]})
    BY <1>5 DEF HubEnds, WatchInv, TypeOK
  <2>2. CASE r = p
    <3>1. hub'[p] = 0 /\ (hub[p] = sock[p] => sock[p] \in lone') /\ lone \subseteq lone'
      BY <1>0, <2>1, <2>2
    <3>. QED
      BY <1>0, <2>1, <3>1, PathAfter DEF ServedAt, Pending, Held, Coming, Listed
  <2>3. CASE r # p
    <3>1. hub'[p] = hub[p] /\ lone \subseteq lone'
      BY <1>0, <2>1, <2>3
    <3>. QED
      BY <1>0, <2>1, <3>1, PathAfter
         DEF OwedAt, ServedAt, Pending, Held, Coming, Listed
  <2>. QED
    BY <2>2, <2>3
<1>6. ASSUME NEW d \in Dirs, Reload(d) PROVE OwedAt(p)' /\ ServedAt(p)'
  <2>1. /\ UNCHANGED <<sock, watched, queue, todo, out, chan, hub, lone>>
        /\ pc["ctl"] = "idle"
        /\ \A t \in Threads : pc[t] = "list" => pc'[t] = "list" /\ wanted'[t] = wanted[t]
    BY <1>6 DEF Reload, WatchInv, TypeOK, Threads
  <2>. QED
    BY <1>0, <2>1, PathAfter DEF OwedAt, ServedAt, Pending, Held, Coming, Listed
<1>. QED
  BY <1>2, <1>3, <1>4, <1>5, <1>6 DEF Environment

\* Where the pipeline's parts are sequences.
LEMMA Parts ==
    ASSUME TypeOK
    PROVE  /\ queue \in Seq(Events) /\ chan \in Seq(Messages)
           /\ \A t \in Threads : todo[t] \in Seq(Events) /\ out[t] \in Seq(Messages)
           /\ "main" \in Threads /\ "ctl" \in Threads
  BY DEF TypeOK, Threads

\* A watch that is replaced, or that starts.
LEMMA StartServes ==
    ASSUME WatchInv, NEW t \in Threads, StartSteps(t), NEW p \in Seen'
    PROVE  OwedAt(p)' /\ ServedAt(p)'
<1>0. /\ p \in Paths /\ p \in Seen /\ OwedAt(p) /\ ServedAt(p) /\ p \notin unseen'
      /\ TypeOK /\ Hands /\ p[1] \in Dirs
  <2>1. unseen \subseteq unseen'
    BY DEF StartSteps, StartWatch, GiveUp, OpenWatch, List
  <2>. QED
    BY <2>1 DEF Seen, WatchInv, Owed, Served, Paths
<1>1. Held(p) => p \in PathsOf(queue) \cup InHand("main")
  BY <1>0, Parts, GoneIsThere DEF Held, InHand
<1>2. CASE StartWatch(t)
  <2>1. /\ UNCHANGED <<sock, todo, out, chan, hub>>
        /\ watched' = NoDir /\ queue' = <<>> /\ ~ Held(p)
    BY <1>0, <1>1, <1>2 DEF StartWatch
  <2>2. p[1] # watched'
    BY <1>0, <2>1, WatchAssumption DEF WatchAssumption
  <2>. QED
    BY <1>0, <2>1, <2>2, PathAfter DEF OwedAt, Pending, Held
<1>3. CASE GiveUp(t)
  <2>1. /\ UNCHANGED <<sock, watched, queue, wanted, todo, out, chan, hub, lone>>
        /\ \A u \in Threads : pc[u] = "list" => pc'[u] = "list"
    BY <1>0, <1>3 DEF GiveUp, TypeOK
  <2>. QED
    BY <1>0, <2>1, PathAfter DEF OwedAt, ServedAt, Pending, Held, Coming, Listed
<1>4. CASE OpenWatch(t)
  <2>1. /\ UNCHANGED <<sock, wanted, todo, out, chan, hub, lone>>
        /\ watched' = wanted[t] /\ queue' = <<>> /\ ~ Held(p) /\ pc'[t] = "list"
    BY <1>0, <1>1, <1>4 DEF OpenWatch, TypeOK
  <2>2. ~ Gone(queue', p)
    BY <2>1, EmptySays
  <2>. QED
    BY <1>0, <2>1, <2>2, PathAfter DEF OwedAt, Pending, Held
<1>5. CASE List(t)
  <2>1. /\ UNCHANGED <<sock, watched, queue, wanted, out, chan, hub, lone>>
        /\ todo[t] = <<>> /\ out[t] = <<>> /\ pc[t] = "list"
        /\ \A u \in Threads : u # t => pc'[u] = pc[u] /\ todo'[u] = todo[u]
    BY <1>0, <1>5 DEF List, TypeOK, Hands
  <2>2. ~ Gone(todo[t], p) /\ ~ Fresh(todo[t], p)
    BY <2>1, EmptySays
  <2>3. wanted[t] \in Dirs
    BY <1>0 DEF TypeOK
  <2>4. /\ ~ Gone(todo'[t], p)
        /\ wanted[t] = p[1] /\ sock[p] # 0 => Fresh(todo'[t], p)
    <3>1. wanted[t] = p[1] => (p \in Present(wanted[t]) <=> sock[p] # 0)
      BY <1>0 DEF Present, Paths
    <3>2. CASE todo'[t] \in Listings(wanted[t])
      BY <1>0, <2>3, <3>1, <3>2, ListingsHave
    <3>3. CASE unseen' = unseen \cup Present(wanted[t]) /\ todo' = todo
      BY <1>0, <2>2, <3>1, <3>3
    <3>. QED
      BY <1>0, <1>5, <3>2, <3>3 DEF List, TypeOK
  <2>5. \A u \in Threads : u # t => todo'[u] = todo[u] /\ pc'[u] = pc[u]
    BY <2>1
  <2>6. OwedAt(p)'
    BY <1>0, <2>1, <2>2, <2>5, Parts, PathAfter DEF OwedAt, Pending, Held
  <2>7. ASSUME p[1] = watched, sock[p] # 0, sock[p] \notin lone
        PROVE  ServedAt(p)'
    <3>1. (hub[p] = sock[p] /\ ~ Pending(p)) \/ Coming(p) \/ Listed(p)
      BY <1>0, <2>7 DEF ServedAt
    <3>2. t = "main" \/ t = "ctl"
      BY DEF Threads
    <3>3. CASE t = "main"
      <4>1. todo'["ctl"] = todo["ctl"] /\ pc'["ctl"] = pc["ctl"]
        BY <2>5, <3>3, Parts, <1>0
      <4>2. CASE hub[p] = sock[p] /\ ~ Pending(p)
        BY <2>1, <2>4, <3>3, <4>2, PathAfter DEF Pending, Held
      <4>3. CASE Coming(p)
        BY <2>1, <2>2, <2>4, <3>3, <4>3, PathAfter DEF Coming
      <4>4. CASE Listed(p)
        <5>1. \/ wanted["main"] = p[1] \/ (pc["ctl"] = "list" /\ wanted["ctl"] = p[1])
              \/ Fresh(todo["ctl"], p) \/ Fresh(out["ctl"], p)
          BY <4>4 DEF Listed, Threads
        <5>2. ~ Held(p)
          BY <4>4 DEF Listed
        <5>3. CASE wanted["main"] = p[1]
          BY <2>1, <2>4, <2>7, <3>3, <5>2, <5>3, PathAfter DEF Held
        <5>4. CASE wanted["main"] # p[1]
          BY <1>0, <2>1, <2>4, <3>3, <4>1, <5>1, <5>2, <5>4, Parts, PathAfter DEF Held
        <5>. QED
          BY <5>3, <5>4
      <4>. QED
        BY <3>1, <4>2, <4>3, <4>4
    <3>4. CASE t = "ctl"
      <4>1. todo'["main"] = todo["main"] /\ pc'["main"] = pc["main"]
        BY <2>5, <3>4, Parts, <1>0
      <4>2. CASE (hub[p] = sock[p] /\ ~ Pending(p)) \/ Coming(p)
        BY <2>1, <4>1, <4>2, PathAfter DEF Pending, Held, Coming
      <4>3. CASE Listed(p)
        <5>1. \/ wanted["ctl"] = p[1] \/ (pc["main"] = "list" /\ wanted["main"] = p[1])
          BY <2>1, <2>2, <3>4, <4>3, EmptySays DEF Listed, Threads
        <5>2. ~ Held(p)
          BY <4>3 DEF Listed
        <5>. QED
          BY <1>0, <2>1, <2>4, <2>7, <3>4, <4>1, <5>1, <5>2, Parts, PathAfter DEF Held
      <4>. QED
        BY <3>1, <4>2, <4>3
    <3>. QED
      BY <3>2, <3>3, <3>4
  <2>. QED
    BY <2>1, <2>6, <2>7, PathAfter
<1>. QED
  BY <1>2, <1>3, <1>4, <1>5 DEF StartSteps

\* What is read, handled and sent.
LEMMA FlowServes ==
    ASSUME WatchInv, NEW p \in Seen',
           ReadEvents \/ \E t \in Threads : Handle(t) \/ Send(t) \/ Ready(t)
    PROVE  OwedAt(p)' /\ ServedAt(p)'
<1>0. /\ p \in Paths /\ p \in Seen /\ OwedAt(p) /\ ServedAt(p) /\ p \notin unseen'
      /\ TypeOK /\ Hands
  <2>1. unseen \subseteq unseen'
    BY DEF ReadEvents, Handle, Send, Ready
  <2>. QED
    BY <2>1 DEF Seen, WatchInv, Owed, Served
<1>1. CASE ReadEvents
  <2>1. /\ UNCHANGED <<sock, watched, pc, wanted, out, chan, hub, lone>>
        /\ todo["main"] = <<>> /\ out["main"] = <<>> /\ queue' = <<>>
        /\ todo'["main"] = queue /\ todo'["ctl"] = todo["ctl"]
    BY <1>0, <1>1, Parts DEF ReadEvents, TypeOK
  <2>2. /\ ~ Gone(todo["main"], p) /\ ~ Fresh(todo["main"], p)
        /\ ~ Gone(out["main"], p) /\ ~ Fresh(out["main"], p)
        /\ ~ Gone(queue', p) /\ ~ Fresh(queue', p)
    BY <2>1, EmptySays
  <2>. QED
    BY <1>0, <2>1, <2>2, PathAfter DEF OwedAt, ServedAt, Pending, Held, Coming, Listed
<1>2. ASSUME NEW t \in Threads, Handle(t) PROVE OwedAt(p)' /\ ServedAt(p)'
  <2>. DEFINE e == Head(todo[t])
              m == [kind |-> e.kind, path |-> PathOf(t, e)]
  <2>1. /\ UNCHANGED <<sock, watched, queue, pc, wanted, chan, hub>>
        /\ todo[t] # <<>> /\ out[t] = <<>> /\ todo'[t] = Tail(todo[t])
        /\ \A u \in Threads : u # t => todo'[u] = todo[u] /\ out'[u] = out[u]
        /\ \/ out'[t] = <<m>> /\ lone' = lone
           \/ e.kind = "appeared" /\ out'[t] = <<>> /\ out' = out
              /\ lone' = lone \cup ({sock[PathOf(t, e)]} \ {0})
        /\ PathOf(t, e)[1] # e.dir => unseen' = unseen \cup {PathOf(t, e), <<e.dir, e.name>>}
    BY <1>0, <1>2 DEF Handle, TypeOK
  <2>2. e \in Events /\ PathOf(t, e) \in Paths /\ m \in Messages
    <3>1. todo[t] \in Seq(Events)
      BY <1>0, Parts
    <3>2. e \in Events
      BY <2>1, <3>1, HeadTailProperties
    <3>. QED
      BY <1>0, <3>2 DEF TypeOK, PathOf, Paths, Events, Messages
  <2>3. (<<e.dir, e.name>> = p <=> PathOf(t, e) = p)
    <3>1. PathOf(t, e)[2] = e.name /\ PathOf(t, e) = <<PathOf(t, e)[1], e.name>>
      BY <2>2 DEF PathOf
    <3>2. PathOf(t, e)[1] = e.dir \/ (PathOf(t, e) # p /\ <<e.dir, e.name>> # p)
      BY <1>0, <2>1
    <3>. QED
      BY <3>1, <3>2
  <2>4. /\ Gone(todo[t], p) <=> Gone(todo'[t], p) \/ Says("disappeared", e, p)
        /\ Fresh(todo[t], p) <=>
             Fresh(todo'[t], p) \/ (Says("appeared", e, p) /\ ~ Gone(todo'[t], p))
        /\ ~ Gone(out[t], p) /\ ~ Fresh(out[t], p)
    <3>1. todo[t] \in Seq(Events)
      BY <1>0, Parts
    <3>2. ~ Gone(out[t], p) /\ ~ Fresh(out[t], p)
      BY <2>1, EmptySays
    <3>. QED
      BY <2>1, <3>1, <3>2, TailSays
  <2>5. /\ Says("disappeared", e, p) => ~ Says("appeared", e, p)
        /\ \/ /\ Gone(out'[t], p) <=> Says("disappeared", e, p)
              /\ Fresh(out'[t], p) <=> Says("appeared", e, p)
              /\ lone' = lone
           \/ /\ ~ Gone(out'[t], p) /\ ~ Fresh(out'[t], p) /\ ~ Says("disappeared", e, p)
              /\ lone \subseteq lone'
              /\ Says("appeared", e, p) /\ sock[p] # 0 => sock[p] \in lone'
    <3>1. \A k : /\ Says(k, e, p) <=> e.kind = k /\ PathOf(t, e) = p
                 /\ Says(k, m, p) <=> e.kind = k /\ PathOf(t, e) = p
      <4>1. m.kind = e.kind /\ m.path = PathOf(t, e)
        OBVIOUS
      <4>. HIDE DEF m, e
      <4>. QED
        BY <2>2, <2>3, <4>1, SaysWhat
    <3>2. CASE out'[t] = <<m>> /\ lone' = lone
      BY <3>1, <3>2, OneSays
    <3>3. CASE e.kind = "appeared" /\ out'[t] = <<>> /\ out' = out
               /\ lone' = lone \cup ({sock[PathOf(t, e)]} \ {0})
      BY <3>1, <3>3, EmptySays
    <3>. QED
      BY <2>1, <3>1, <3>2, <3>3
  <2>. HIDE DEF e, m
  <2>6. CASE t = "main"
    <3>1. todo'["ctl"] = todo["ctl"] /\ out'["ctl"] = out["ctl"]
      BY <2>1, <2>6, Parts, <1>0
    <3>2. OwedAt(p)'
      BY <1>0, <2>1, <2>4, <2>5, <2>6, PathAfter DEF OwedAt, Pending, Held
    <3>3. ServedAt(p)'
      BY <1>0, <2>1, <2>4, <2>5, <2>6, <3>1, PathAfter
         DEF ServedAt, Pending, Held, Coming, Listed
    <3>. QED
      BY <3>2, <3>3
  <2>7. CASE t = "ctl"
    <3>1. todo'["main"] = todo["main"] /\ out'["main"] = out["main"]
      BY <2>1, <2>7, Parts, <1>0
    <3>2. OwedAt(p)'
      BY <1>0, <2>1, <3>1, PathAfter DEF OwedAt, Pending, Held
    <3>3. ServedAt(p)'
      BY <1>0, <2>1, <2>4, <2>5, <2>7, <3>1, PathAfter
         DEF ServedAt, Pending, Held, Coming, Listed
    <3>. QED
      BY <3>2, <3>3
  <2>. QED
    BY <2>6, <2>7 DEF Threads
<1>3. ASSUME NEW t \in Threads, Send(t) PROVE OwedAt(p)' /\ ServedAt(p)'
  <2>1. /\ UNCHANGED <<sock, watched, queue, pc, wanted, todo, hub, lone>>
        /\ out[t] # <<>> /\ out'[t] = <<>> /\ chan' = Append(chan, out[t][1])
        /\ \A u \in Threads : u # t => out'[u] = out[u]
    BY <1>0, <1>3 DEF Send, TypeOK
  <2>2. /\ chan \in Seq(Messages) /\ out[t][1] \in Messages
        /\ out[t] = <<out[t][1]>>
    <3>1. out[t] \in Seq(Messages) /\ Len(out[t]) <= 1 /\ chan \in Seq(Messages)
      BY <1>0, Parts DEF Hands
    <3>. DEFINE s == out[t]
    <3>2. s \in Seq(Messages) /\ s # <<>> /\ Len(s) <= 1
      BY <2>1, <3>1
    <3>. HIDE DEF s
    <3>3. Len(s) = 1
      <4>. DEFINE n == Len(s)
      <4>1. n \in Nat \ {0} /\ n <= 1
        BY <3>2, EmptySeq
      <4>. HIDE DEF n
      <4>2. n = 1
        BY <4>1
      <4>. QED
        BY <4>2 DEF n
    <3>4. s = <<s[1]>> /\ s[1] \in Messages
      BY <3>2, <3>3
    <3>. QED
      BY <3>1, <3>4 DEF s
  <2>3. /\ Gone(chan', p) <=> Gone(chan, p) \/ Gone(out[t], p)
        /\ Fresh(chan', p) <=> Fresh(out[t], p) \/ (Fresh(chan, p) /\ ~ Gone(out[t], p))
        /\ ~ Gone(out'[t], p) /\ ~ Fresh(out'[t], p)
    <3>1. /\ Gone(out[t], p) <=> Says("disappeared", out[t][1], p)
          /\ Fresh(out[t], p) <=> Says("appeared", out[t][1], p)
      BY <2>2, OneSays
    <3>2. ~ Gone(out'[t], p) /\ ~ Fresh(out'[t], p)
      BY <2>1, EmptySays
    <3>. QED
      BY <2>1, <2>2, <3>1, <3>2, AppendSays
  <2>4. CASE t = "main"
    <3>1. out'["ctl"] = out["ctl"]
      BY <2>1, <2>4, Parts, <1>0
    <3>. QED
      BY <1>0, <2>1, <2>3, <2>4, <3>1, PathAfter
         DEF OwedAt, ServedAt, Pending, Held, Coming, Listed
  <2>5. CASE t = "ctl"
    <3>1. out'["main"] = out["main"] /\ ~ Gone(out["ctl"], p)
      BY <1>0, <2>1, <2>5, Parts DEF Hands
    <3>. QED
      BY <1>0, <2>1, <2>3, <2>5, <3>1, PathAfter
         DEF OwedAt, ServedAt, Pending, Held, Coming, Listed
  <2>. QED
    BY <2>4, <2>5 DEF Threads
<1>4. ASSUME NEW t \in Threads, Ready(t) PROVE OwedAt(p)' /\ ServedAt(p)'
  <2>1. /\ UNCHANGED <<sock, watched, queue, wanted, todo, out, chan, hub, lone>>
        /\ \A u \in Threads : pc[u] = "list" => pc'[u] = "list"
    BY <1>0, <1>4 DEF Ready, TypeOK
  <2>. QED
    BY <1>0, <2>1, PathAfter DEF OwedAt, ServedAt, Pending, Held, Coming, Listed
<1>. QED
  BY <1>1, <1>2, <1>3, <1>4

\* What the worker does with a message.
LEMMA WorkerServes ==
    ASSUME WatchInv, WorkerStep, NEW p \in Seen'
    PROVE  OwedAt(p)' /\ ServedAt(p)'
<1>. DEFINE m == Head(chan)
<1>0. /\ p \in Paths /\ p \notin Explicit /\ OwedAt(p) /\ ServedAt(p) /\ TypeOK
      /\ UNCHANGED <<sock, watched, queue, pc, wanted, todo, out>>
      /\ chan # <<>> /\ chan' = Tail(chan)
  BY DEF WorkerStep, Appeared, Disappeared, Received, Seen, WatchInv, Owed, Served
<1>1. /\ Gone(chan, p) <=> Gone(chan', p) \/ Says("disappeared", m, p)
      /\ Fresh(chan, p) <=> Fresh(chan', p) \/ (Says("appeared", m, p) /\ ~ Gone(chan', p))
  BY <1>0, Parts, TailSays
<1>2. m \in Messages /\ \A k : Says(k, m, p) <=> m.kind = k /\ m.path = p
  BY <1>0, Parts, HeadTailProperties, SaysWhat
<1>3. CASE Appeared
  <2>1. /\ m.kind = "appeared"
        /\ lone \subseteq lone'
        /\ \/ hub' = [hub EXCEPT ![m.path] = IF @ = 0 THEN sock[m.path] ELSE @]
           \/ hub' = hub /\ (sock[m.path] # 0 => sock[m.path] \in lone')
    BY <1>3 DEF Appeared, Received
  <2>2. ~ Says("disappeared", m, p)
    BY <1>2, <2>1
  <2>3. hub \in [Paths -> Nat] /\ m.path \in Paths
    BY <1>0, <1>2 DEF TypeOK, Messages
  <2>4. CASE m.path # p
    <3>1. hub'[p] = hub[p] /\ ~ Says("appeared", m, p)
      BY <1>0, <1>2, <2>1, <2>3, <2>4
    <3>. QED
      BY <1>0, <1>1, <2>1, <2>2, <3>1, PathAfter
         DEF OwedAt, ServedAt, Pending, Held, Coming, Listed
  <2>5. CASE m.path = p
    <3>1. Says("appeared", m, p)
      BY <1>2, <2>1, <2>5
    <3>2. \/ hub'[p] = hub[p] /\ hub[p] # 0
          \/ hub'[p] = sock[p] /\ hub[p] = 0
          \/ hub'[p] = hub[p] /\ (sock[p] # 0 => sock[p] \in lone')
      BY <1>0, <2>1, <2>3, <2>5
    <3>. QED
      BY <1>0, <1>1, <2>1, <2>2, <3>1, <3>2, PathAfter
         DEF OwedAt, ServedAt, Pending, Held, Coming, Listed
  <2>. QED
    BY <2>4, <2>5
<1>4. CASE Disappeared
  <2>1. /\ m.kind = "disappeared" /\ lone' = lone
        /\ hub' = IF m.path \in Explicit THEN hub ELSE [hub EXCEPT ![m.path] = 0]
    BY <1>4 DEF Disappeared, Received
  <2>2. hub \in [Paths -> Nat] /\ m.path \in Paths /\ ~ Says("appeared", m, p)
    BY <1>0, <1>2, <2>1 DEF TypeOK, Messages
  <2>3. CASE m.path # p
    <3>1. hub'[p] = hub[p] /\ ~ Says("disappeared", m, p)
      BY <1>0, <1>2, <2>1, <2>2, <2>3
    <3>. QED
      BY <1>0, <1>1, <2>1, <2>2, <3>1, PathAfter
         DEF OwedAt, ServedAt, Pending, Held, Coming, Listed
  <2>4. CASE m.path = p
    <3>1. hub'[p] = 0 /\ Says("disappeared", m, p)
      BY <1>0, <1>2, <2>1, <2>2, <2>4
    <3>. QED
      BY <1>0, <1>1, <2>1, <2>2, <3>1, PathAfter
         DEF OwedAt, ServedAt, Pending, Held, Coming, Listed
  <2>. QED
    BY <2>3, <2>4
<1>. QED
  BY <1>3, <1>4 DEF WorkerStep

-----------------------------------------------------------------------------
(* Watch: the theorems.                                                    *)

\* The invariant holds before the first watch.
LEMMA WatchInvInit == Init => WatchInv
<1>. SUFFICES ASSUME Init PROVE WatchInv
  OBVIOUS
<1>1. TypeOK
  BY WatchAssumption DEF Init, TypeOK, WatchAssumption, Threads
<1>2. Hands
  BY EmptySays DEF Init, Hands, Threads
<1>3. Numbered /\ Owed /\ Served
  BY DEF Init, Numbered, Owed, OwedAt, Served, ServedAt, Seen
<1>. QED
  BY <1>1, <1>2, <1>3 DEF WatchInv

\* And after every step.
LEMMA WatchInvStep == WatchInv /\ [Next]_vars => WatchInv'
<1>. SUFFICES ASSUME WatchInv, [Next]_vars PROVE WatchInv'
  OBVIOUS
<1>1. TypeOK' /\ Hands' /\ Numbered'
  BY WatchTypeStep, HandsStep, NumberedStep DEF WatchInv
<1>2. CASE UNCHANGED vars
  <2>1. Owed' /\ Served'
    <3>. SUFFICES ASSUME NEW p \in Seen' PROVE OwedAt(p)' /\ ServedAt(p)'
      BY DEF Owed, Served
    <3>1. OwedAt(p) /\ ServedAt(p)
      BY <1>2 DEF vars, Seen, WatchInv, Owed, Served
    <3>. QED
      BY <1>2, <3>1, PathAfter DEF vars, OwedAt, ServedAt, Pending, Held, Coming, Listed
  <2>. QED
    BY <1>1, <2>1 DEF WatchInv
<1>3. CASE Next
  <2>1. ASSUME NEW p \in Seen' PROVE OwedAt(p)' /\ ServedAt(p)'
    BY <1>3, EnvironmentServes, StartServes, FlowServes, WorkerServes DEF Next, ThreadStep
  <2>2. Owed' /\ Served'
    BY <2>1 DEF Owed, Served
  <2>. QED
    BY <1>1, <2>2 DEF WatchInv
<1>. QED
  BY <1>2, <1>3

\* The watcher's and the listener's state is well typed, and watch_sock never
\* holds more than it has room for.
THEOREM WatchTypeCorrect == Spec => []TypeOK
<1>1. WatchInv => TypeOK
  BY DEF WatchInv
<1>. QED
  BY <1>1, WatchInvInit, WatchInvStep, PTL DEF Spec

\* Whatever is in a directory and whatever becomes of it, for any number of
\* sockets, reloads and interleavings of the two threads: a stale hub has word
\* of it on the way, and a socket without its hub was refused or is yet to be
\* reported.
THEOREM EverySocketAccountedFor == Spec => [](Owed /\ Served)
<1>1. WatchInv => Owed /\ Served
  BY DEF WatchInv
<1>. QED
  BY <1>1, WatchInvInit, WatchInvStep, PTL DEF Spec

\* So that nothing is out of step when all is quiet.
THEOREM ReflectedAlways == Spec => []Reflected
<1>1. WatchInv => Reflected
  <2>. SUFFICES ASSUME WatchInv, Quiet, NEW p \in Paths \ (Explicit \cup unseen),
                       p[1] = watched
                PROVE  hub[p] = sock[p] \/ (hub[p] = 0 /\ sock[p] \in lone)
    BY DEF Reflected
  <2>1. OwedAt(p) /\ ServedAt(p)
    BY DEF WatchInv, Owed, Served, Seen
  <2>2. /\ queue = <<>> /\ chan = <<>>
        /\ \A t \in Threads : pc[t] = "idle" /\ todo[t] = <<>> /\ out[t] = <<>>
        /\ "main" \in Threads /\ "ctl" \in Threads
    BY DEF Quiet, Threads
  <2>3. ~ Pending(p) /\ ~ Coming(p) /\ ~ Listed(p)
    BY <2>2, EmptySays DEF Pending, Held, Coming, Listed
  <2>. QED
    BY <2>1, <2>3 DEF OwedAt, ServedAt
<1>. QED
  BY <1>1, WatchInvInit, WatchInvStep, PTL DEF Spec

-----------------------------------------------------------------------------
(* Induction, as a fact about sets of naturals.                            *)

\* A set of naturals that is not empty has a least element.
LEMMA LeastNatural ==
    ASSUME NEW T \in SUBSET Nat, T # {}
    PROVE  \E n \in T : \A m \in T : n <= m
<1>1. PICK n \in T : \A m \in T : ~ (<<m, n>> \in OpToRel(<, Nat))
  BY WFMin, NatLessThanWellFounded
<1>2. \A m \in T : ~ (m < n)
  BY <1>1 DEF OpToRel
<1>. QED
  BY <1>2

\* A set with 0, and with each natural its successor, holds all naturals.
LEMMA AllNaturals ==
    ASSUME NEW T, 0 \in T, \A n \in Nat : n \in T => n + 1 \in T
    PROVE  Nat \subseteq T
<1>. SUFFICES ASSUME Nat \ T # {} PROVE FALSE
  OBVIOUS
<1>1. PICK n \in Nat \ T : \A m \in Nat \ T : n <= m
  BY LeastNatural
<1>. QED
  BY <1>1

-----------------------------------------------------------------------------
(* PamLogin: what the limiter keeps.                                       *)

\* In a sequence of times that ascends, those that are too old come first.
LEMMA OldOnesFirst ==
    ASSUME NEW times \in Seq(Nat), now \in Nat, Window \in Nat,
           \A i, j \in 1..Len(times) : i <= j => times[i] <= times[j]
    PROVE  \E k \in 0..Len(times) :
             /\ \A i \in 1..k : now - times[i] >= Window
             /\ \A i \in (k + 1)..Len(times) : now - times[i] < Window
<1>. DEFINE n == Len(times)
            young == {i \in 1..n : now - times[i] < Window}
<1>0. n \in Nat /\ \A i \in 1..n : times[i] \in Nat
  OBVIOUS
<1>1. CASE young = {}
  <2>1. \A i \in 1..n : now - times[i] >= Window
    BY <1>0, <1>1
  <2>2. n \in 0..n /\ (n + 1)..n = {}
    BY <1>0
  <2>. QED
    BY <2>1, <2>2
<1>2. CASE young # {}
  <2>1. PICK f \in young : \A i \in young : f <= i
    <3>1. young \in SUBSET Nat
      BY <1>0
    <3>. HIDE DEF young
    <3>. QED
      BY <3>1, <1>2, LeastNatural
  <2>2. f - 1 \in 0..n /\ f \in 1..n
    BY <1>0
  <2>4. \A i \in 1..(f - 1) : now - times[i] >= Window
    <3>. TAKE i \in 1..(f - 1)
    <3>1. i \in 1..n /\ ~ (f <= i)
      BY <1>0, <2>2
    <3>2. times[i] \in Nat /\ i \notin young
      BY <1>0, <2>1, <3>1
    <3>. QED
      BY <3>1, <3>2
  <2>3. \A i \in (f - 1 + 1)..n : now - times[i] < Window
    BY <1>0, <2>1
  <2>. QED
    BY <2>2, <2>3, <2>4
<1>. QED
  BY <1>1, <1>2

\* What is kept of it is all that is left when those are gone.
LEMMA RecentIsSuffix ==
    ASSUME NEW times \in Seq(Nat), now \in Nat, Window \in Nat,
           \A i, j \in 1..Len(times) : i <= j => times[i] <= times[j]
    PROVE  \E k \in 0..Len(times) :
             /\ Recent(times) = SubSeq(times, k + 1, Len(times))
             /\ \A i \in 1..k : now - times[i] >= Window
             /\ \A i \in (k + 1)..Len(times) : now - times[i] < Window
<1>. DEFINE n == Len(times)
            Step(f, i) == IF i = 0 THEN <<>>
                          ELSE IF now - times[i] < Window THEN Append(f[i - 1], times[i])
                          ELSE f[i - 1]
            Kept(f) == f = [i \in 0..n |-> Step(f, i)]
<1>1. PICK k \in 0..n : /\ \A i \in 1..k : now - times[i] >= Window
                        /\ \A i \in (k + 1)..n : now - times[i] < Window
  BY OldOnesFirst
<1>. DEFINE part(i) == IF i <= k THEN <<>> ELSE SubSeq(times, k + 1, i)
            parts == [i \in 0..n |-> part(i)]
<1>2. \A i \in 1..n : part(i) = IF i <= k THEN <<>> ELSE Append(part(i - 1), times[i])
  <2>. TAKE i \in 1..n
  <2>1. CASE i <= k
    BY <2>1
  <2>2. CASE i > k
    <3>1. k + 1 \in 1..Len(times) /\ i \in (k + 1)..Len(times)
      BY <2>2
    <3>2. SubSeq(times, k + 1, i) = Append(SubSeq(times, k + 1, i - 1), times[i])
      BY <3>1, SubSeqRecursiveSecond
    <3>3. CASE i - 1 <= k
      <4>1. SubSeq(times, k + 1, i - 1) = <<>>
        BY <2>2, <3>3
      <4>. QED
        BY <2>2, <3>2, <3>3, <4>1
    <3>4. CASE ~ (i - 1 <= k)
      BY <2>2, <3>2, <3>4
    <3>. QED
      BY <3>3, <3>4
  <2>. QED
    BY <2>1, <2>2
<1>3. Kept(parts)
  <2>1. \A i \in 0..n : part(i) = Step(parts, i)
    BY <1>1, <1>2
  <2>. QED
    BY <2>1
<1>4. ASSUME NEW f, Kept(f) PROVE f[n] = part(n)
  <2>. DEFINE T == {i \in Nat : i <= n => f[i] = part(i)}
  <2>1. 0 \in T
    BY <1>4
  <2>2. ASSUME NEW i \in Nat, i \in T PROVE i + 1 \in T
    <3>. SUFFICES ASSUME i + 1 <= n PROVE f[i + 1] = part(i + 1)
      OBVIOUS
    <3>1. i + 1 \in 1..n /\ i + 1 \in 0..n /\ f[i] = part(i) /\ i + 1 - 1 = i
      BY <2>2
    <3>2. f[i + 1] = Step(f, i + 1)
      BY <1>4, <3>1
    <3>4. part(i + 1) = IF i + 1 <= k THEN <<>> ELSE Append(part(i), times[i + 1])
      <4>1. part(i + 1) = IF i + 1 <= k THEN <<>>
                          ELSE Append(part(i + 1 - 1), times[i + 1])
        BY <1>2, <3>1
      <4>. QED
        BY <3>1, <4>1
    <3>. HIDE DEF part
    <3>3. Step(f, i + 1) = IF now - times[i + 1] < Window
                           THEN Append(part(i), times[i + 1]) ELSE part(i)
      BY <3>1
    <3>5. i + 1 <= k => part(i) = <<>>
      BY DEF part
    <3>. QED
      BY <1>1, <3>1, <3>2, <3>3, <3>4, <3>5
  <2>. HIDE DEF T
  <2>3. Nat \subseteq T
    BY <2>1, <2>2, AllNaturals
  <2>. QED
    BY <2>3 DEF T
<1>5. Recent(times) = (CHOOSE f : Kept(f))[n]
  BY DEF Recent
<1>6. Kept(CHOOSE f : Kept(f))
  <2>. HIDE DEF Kept
  <2>. QED
    BY <1>3
<1>7. Recent(times) = part(n)
  BY <1>4, <1>5, <1>6
<1>8. part(n) = SubSeq(times, k + 1, n)
  OBVIOUS
<1>. QED
  BY <1>1, <1>7, <1>8
-----------------------------------------------------------------------------
(* PamLogin: the inductive invariant.                                      *)

\* How many failures of u the limiter does not know any more.
Older(u) == Len(failed[u]) - Len(failures[u])

\* The limiter's failures are the last of those there were, in order.
Remembered ==
    /\ failed \in [Users -> Seq(0..MaxTime)]
    /\ \A u \in Users :
         /\ \A i \in 1..Len(failed[u]) : failed[u][i] <= now
         /\ \A i, j \in 1..Len(failed[u]) : i <= j => failed[u][i] <= failed[u][j]
         /\ Older(u) >= 0
         /\ \A i \in 1..Len(failures[u]) : failures[u][i] = failed[u][Older(u) + i]

\* One it does not know is long ago, or has made the lockout there is.
Spent ==
    \A u \in Users : \A i \in 1..Older(u) :
        now - failed[u][i] >= Span \/ failed[u][i] + Lockout <= locked_until[u]

\* A lockout began with enough failures.
Deserved ==
    \A u \in Users :
        locked_until[u] # 0 =>
            \E t \in 0..now :
                locked_until[u] = t + Lockout /\ FailedWithin(u, Window, t) >= MaxFailures

\* The failures among s in the time span that ended at t.
Within(s, span, t) == {i \in 1..Len(s) : t - span < s[i] /\ s[i] <= t}

-----------------------------------------------------------------------------
\* One failure more is counted once at most, and the others as before.
LEMMA WithinAppend ==
    ASSUME NEW s \in Seq(Nat), NEW x \in Nat, NEW span \in Nat, NEW t \in Nat
    PROVE  /\ Cardinality(Within(s, span, t)) \in Nat
           /\ Cardinality(Within(Append(s, x), span, t)) \in Nat
           /\ Cardinality(Within(s, span, t)) <= Cardinality(Within(Append(s, x), span, t))
           /\ Cardinality(Within(Append(s, x), span, t)) <= Cardinality(Within(s, span, t)) + 1
<1>. DEFINE old == Within(s, span, t)
            new == Within(Append(s, x), span, t)
            n == Len(s) + 1
<1>1. /\ n \in Nat /\ Len(Append(s, x)) = n
      /\ \A i \in 1..Len(s) : Append(s, x)[i] = s[i]
  OBVIOUS
<1>2. old \subseteq new /\ new \subseteq old \cup {n}
  BY <1>1 DEF Within
<1>3. IsFiniteSet(old)
  <2>1. old \in SUBSET (1..Len(s))
    BY DEF Within
  <2>2. IsFiniteSet(1..Len(s))
    BY <1>1, FS_Interval
  <2>. HIDE DEF old
  <2>. QED
    BY <2>1, <2>2, FS_Subset
<1>. HIDE DEF old, new, n
<1>4. /\ IsFiniteSet(old \cup {n})
      /\ Cardinality(old) \in Nat
      /\ Cardinality(old \cup {n}) <= Cardinality(old) + 1
  <2>1. Cardinality(old) \in Nat
    BY <1>3, FS_CardinalityType
  <2>2. /\ IsFiniteSet(old \cup {n})
        /\ Cardinality(old \cup {n}) = IF n \in old THEN Cardinality(old) ELSE Cardinality(old) + 1
    BY <1>3, FS_AddElement
  <2>. QED
    BY <2>1, <2>2
<1>5. /\ IsFiniteSet(new) /\ Cardinality(new) \in Nat
      /\ Cardinality(new) <= Cardinality(old \cup {n})
      /\ Cardinality(old) <= Cardinality(new)
      /\ Cardinality(old \cup {n}) \in Nat
  BY <1>2, <1>4, FS_Subset, FS_CardinalityType
<1>6. /\ Cardinality(old) \in Nat /\ Cardinality(new) \in Nat
      /\ Cardinality(old) <= Cardinality(new)
      /\ Cardinality(new) <= Cardinality(old) + 1
  BY <1>4, <1>5
<1>. QED
  BY <1>6 DEF old, new

\* What becomes of a user's failures when one more is recorded.
LEMMA AllRecorded ==
    ASSUME LoginTypeOK, Remembered, NEW u \in Users
    PROVE  LET s == failures[u]
               all == Append(Recent(failures[u]), now)
           IN \E k \in 0..Len(s) :
                /\ all \in Seq(0..MaxTime) /\ Len(all) = Len(s) - k + 1
                /\ \A i \in 1..(Len(s) - k) : all[i] = s[k + i] /\ now - all[i] < Window
                /\ all[Len(s) - k + 1] = now
                /\ \A i \in 1..k : now - s[i] >= Window
<1>. DEFINE s == failures[u]
            n == Len(s)
<1>1. /\ s \in Seq(0..MaxTime) /\ n \in Nat /\ now \in 0..MaxTime /\ now \in Nat
      /\ Window \in Nat /\ MaxTime \in Nat
  BY PamAssumption DEF LoginTypeOK, PamAssumption
<1>2. s \in Seq(Nat) /\ \A i \in 1..n : s[i] \in 0..MaxTime
  BY <1>1
<1>3. /\ Older(u) \in Nat
      /\ \A i \in 1..n : Older(u) + i \in 1..Len(failed[u]) /\ s[i] = failed[u][Older(u) + i]
  <2>1. Len(failed[u]) \in Nat
    BY DEF Remembered
  <2>2. /\ Older(u) >= 0
        /\ \A i \in 1..n : s[i] = failed[u][Older(u) + i]
    BY DEF Remembered
  <2>. DEFINE old == Older(u)
              m == Len(failed[u])
  <2>3. old = m - n
    BY DEF Older
  <2>. HIDE DEF n, m, old
  <2>4. old \in Nat /\ \A i \in 1..n : old + i \in 1..m
    BY <1>1, <2>1, <2>2, <2>3 DEF m, old
  <2>. QED
    BY <2>2, <2>4 DEF m, old
<1>4. \A i, j \in 1..n : i <= j => s[i] <= s[j]
  <2>1. \A i, j \in 1..Len(failed[u]) : i <= j => failed[u][i] <= failed[u][j]
    BY DEF Remembered
  <2>. HIDE DEF s, n
  <2>2. ASSUME NEW i \in 1..n, NEW j \in 1..n, i <= j PROVE s[i] <= s[j]
    <3>1. /\ Older(u) + i \in 1..Len(failed[u]) /\ Older(u) + j \in 1..Len(failed[u])
          /\ Older(u) + i <= Older(u) + j
      BY <1>1, <1>3, <2>2
    <3>2. failed[u][Older(u) + i] <= failed[u][Older(u) + j]
      BY <2>1, <3>1
    <3>. QED
      BY <1>3, <3>2
  <2>. QED
    BY <2>2
<1>. HIDE DEF s, n
<1>5. PICK k \in 0..n : /\ Recent(s) = SubSeq(s, k + 1, n)
                        /\ \A i \in 1..k : now - s[i] >= Window
                        /\ \A i \in (k + 1)..n : now - s[i] < Window
  <2>1. n = Len(s)
    BY DEF n
  <2>. QED
    BY <1>1, <1>2, <1>4, <2>1, RecentIsSuffix
<1>6. /\ Recent(s) \in Seq(0..MaxTime)
      /\ Len(Recent(s)) = n - k
      /\ \A i \in 1..(n - k) : Recent(s)[i] = s[k + i]
  <2>1. \A i \in (k + 1)..n : s[i] \in 0..MaxTime
    BY <1>1, <1>2
  <2>2. /\ SubSeq(s, k + 1, n) \in Seq(0..MaxTime)
        /\ Len(SubSeq(s, k + 1, n)) = IF k + 1 <= n THEN n - (k + 1) + 1 ELSE 0
        /\ \A i \in 1..(n - (k + 1) + 1) : SubSeq(s, k + 1, n)[i] = s[k + 1 + i - 1]
    BY <1>1, <2>1, SubSeqProperties
  <2>. QED
    BY <1>1, <1>5, <2>2
<1>7. \A i \in 1..(n - k) : k + i \in (k + 1)..n
  BY <1>1
<1>. DEFINE all == Append(Recent(s), now)
<1>8. /\ all \in Seq(0..MaxTime) /\ Len(all) = n - k + 1
      /\ \A i \in 1..(n - k) : all[i] = s[k + i]
      /\ all[n - k + 1] = now
  <2>. DEFINE r == Recent(s)
  <2>1. /\ r \in Seq(0..MaxTime) /\ Len(r) = n - k
        /\ \A i \in 1..(n - k) : r[i] = s[k + i]
    BY <1>6
  <2>. HIDE DEF r
  <2>2. Append(r, now) \in Seq(0..MaxTime) /\ Len(Append(r, now)) = n - k + 1
    BY <1>1, <2>1
  <2>3. \A i \in 1..(n - k) : Append(r, now)[i] = s[k + i]
    BY <1>1, <2>1
  <2>4. Append(r, now)[n - k + 1] = now
    <3>1. Append(r, now)[Len(r) + 1] = now
      BY <1>1, <2>1, AppendProperties
    <3>. QED
      BY <2>1, <3>1
  <2>. QED
    BY <2>2, <2>3, <2>4 DEF r
<1>9. \A i \in 1..(n - k) : now - all[i] < Window
  BY <1>5, <1>7, <1>8
<1>. QED
  BY <1>5, <1>8, <1>9 DEF s, n

\* Recording a failure of u, as far as the limiter and the past go.
LEMMA RecordEffect ==
    ASSUME LoginTypeOK, Remembered, NEW u \in Users, RecordFailure(u),
           failed' = [failed EXCEPT ![u] = Append(@, now)], now' = now
    PROVE  /\ known' \subseteq Users
           /\ failures' \in [Users -> Seq(0..MaxTime)]
           /\ locked_until' \in [Users -> 0..(MaxTime + Lockout)]
           /\ \A v \in Users :
                /\ Len(failures'[v]) < MaxFailures
                /\ v \notin known' => failures'[v] = <<>> /\ locked_until'[v] = 0
           /\ Remembered'
<1>. DEFINE n == Len(failures[u])
            m == Len(failed[u])
            all == Append(Recent(failures[u]), now)
            locks == Len(all) >= MaxFailures
<1>1. /\ now \in 0..MaxTime /\ now \in Nat /\ MaxFailures \in Nat \ {0}
      /\ Lockout \in Nat /\ MaxTime \in Nat
  BY PamAssumption DEF LoginTypeOK, PamAssumption
<1>2. PICK k \in 0..n :
        /\ all \in Seq(0..MaxTime) /\ Len(all) = n - k + 1
        /\ \A i \in 1..(n - k) : all[i] = failures[u][k + i]
        /\ all[n - k + 1] = now
  BY AllRecorded
<1>3. /\ known' = known \cup {u}
      /\ failures' = [failures EXCEPT ![u] = IF locks THEN <<>> ELSE all]
      /\ locked_until' = [locked_until EXCEPT ![u] = IF locks THEN now + Lockout ELSE @]
  BY DEF RecordFailure
<1>4. /\ failures[u] \in Seq(0..MaxTime) /\ n \in Nat
      /\ failed[u] \in Seq(0..MaxTime) /\ m \in Nat
      /\ failed'[u] = Append(failed[u], now)
      /\ \A v \in Users \ {u} : failed'[v] = failed[v]
      /\ failed' \in [Users -> Seq(0..MaxTime)]
  BY <1>1 DEF LoginTypeOK, Remembered
<1>. HIDE DEF n, m, all
<1>6. known' \subseteq Users
  BY <1>3 DEF LoginTypeOK
<1>7. failures' \in [Users -> Seq(0..MaxTime)]
  <2>1. <<>> \in Seq(0..MaxTime) /\ all \in Seq(0..MaxTime)
    BY <1>2
  <2>. HIDE DEF locks
  <2>. QED
    BY <1>3, <2>1 DEF LoginTypeOK
<1>8. locked_until' \in [Users -> 0..(MaxTime + Lockout)]
  BY <1>1, <1>3 DEF LoginTypeOK
<1>9. ASSUME NEW v \in Users
      PROVE  /\ Len(failures'[v]) < MaxFailures
             /\ v \notin known' => failures'[v] = <<>> /\ locked_until'[v] = 0
  <2>1. CASE v = u
    BY <1>1, <1>3, <1>4, <1>2, <2>1 DEF LoginTypeOK
  <2>2. CASE v # u
    BY <1>3, <2>2 DEF LoginTypeOK
  <2>. QED
    BY <2>1, <2>2
<1>10. Remembered'
  <2>1. ASSUME NEW v \in Users, v # u
        PROVE  /\ \A i \in 1..Len(failed'[v]) : failed'[v][i] <= now'
               /\ \A i, j \in 1..Len(failed'[v]) : i <= j => failed'[v][i] <= failed'[v][j]
               /\ Older(v)' >= 0
               /\ \A i \in 1..Len(failures'[v]) : failures'[v][i] = failed'[v][Older(v)' + i]
    <3>1. failed'[v] = failed[v] /\ failures'[v] = failures[v]
      BY <1>3, <1>4, <2>1 DEF LoginTypeOK
    <3>2. Older(v)' = Older(v)
      BY <3>1 DEF Older
    <3>. QED
      BY <3>1, <3>2 DEF Remembered
  <2>2. /\ Len(failed'[u]) = m + 1
        /\ \A i \in 1..m : failed'[u][i] = failed[u][i]
        /\ failed'[u][m + 1] = now
    BY <1>1, <1>4 DEF m
  <2>3. \A i \in 1..m : failed[u][i] \in Nat /\ failed[u][i] <= now
    BY <1>1, <1>4 DEF m, Remembered
  <2>4. \A i \in 1..Len(failed'[u]) : failed'[u][i] <= now'
    BY <1>1, <1>4, <2>2, <2>3
  <2>5. \A i, j \in 1..Len(failed'[u]) : i <= j => failed'[u][i] <= failed'[u][j]
    <3>1. \A i, j \in 1..m : i <= j => failed[u][i] <= failed[u][j]
      BY DEF m, Remembered
    <3>. QED
      BY <1>1, <1>4, <2>2, <2>3, <3>1
  <2>6. /\ Older(u)' = m + 1 - Len(failures'[u])
        /\ m - n >= 0
        /\ \A i \in 1..n : failures[u][i] = failed[u][m - n + i]
    <3>1. Older(u) = m - n
      BY DEF Older, m, n
    <3>2. Older(u)' = m + 1 - Len(failures'[u])
      BY <1>4, <1>7, <2>2 DEF Older
    <3>. QED
      BY <3>1, <3>2 DEF Remembered, n
  <2>. DEFINE first == m - n + k
  <2>8. m \in Nat /\ n \in Nat /\ k \in Nat /\ k <= n /\ first \in Nat
    BY <1>4, <2>6
  <2>7. /\ Older(u)' >= 0
        /\ \A i \in 1..Len(failures'[u]) : failures'[u][i] = failed'[u][Older(u)' + i]
    <3>1. CASE locks
      <4>1. failures'[u] = <<>>
        BY <1>3, <3>1 DEF LoginTypeOK
      <4>. QED
        BY <1>4, <2>6, <4>1
    <3>2. CASE ~locks
      <4>1. failures'[u] = all
        BY <1>3, <3>2 DEF LoginTypeOK
      <4>2. Older(u)' = first
        <5>1. Older(u)' = m + 1 - (n - k + 1)
          BY <1>2, <2>6, <4>1
        <5>. QED
          BY <2>8, <5>1
      <4>3. ASSUME NEW i \in 1..(n - k)
            PROVE  all[i] = failed'[u][first + i]
        <5>1. k + i \in 1..n /\ m - n + (k + i) \in 1..m
          BY <2>6, <2>8
        <5>2. all[i] = failed[u][m - n + (k + i)]
          BY <1>2, <2>6, <5>1
        <5>3. m - n + (k + i) = first + i
          BY <2>8
        <5>. QED
          BY <2>2, <5>1, <5>2, <5>3
      <4>4. first + (n - k + 1) = m + 1
        BY <2>8
      <4>5. all[n - k + 1] = failed'[u][first + (n - k + 1)]
        <5>1. all[n - k + 1] = failed'[u][m + 1]
          BY <1>2, <2>2, <2>8
        <5>. HIDE DEF first
        <5>. QED
          BY <4>4, <5>1
      <4>6. \A i \in 1..Len(all) : i \in 1..(n - k) \/ i = n - k + 1
        BY <1>2, <2>8
      <4>. HIDE DEF first
      <4>. QED
        <5>1. \A i \in 1..Len(all) : all[i] = failed'[u][first + i]
          BY <4>3, <4>5, <4>6
        <5>2. Older(u)' >= 0
          BY <2>8, <4>2
        <5>. QED
          BY <4>1, <4>2, <5>1, <5>2
    <3>. QED
      BY <3>1, <3>2
  <2>. QED
    BY <1>4, <2>1, <2>4, <2>5, <2>7 DEF Remembered
<1>. QED
  BY <1>6, <1>7, <1>8, <1>9, <1>10

\* Where a connection's thread has gone, its name is still one it has read.
LEMMA GoesEffect ==
    ASSUME LoginTypeOK, NEW c \in Conns, NEW to \in Stages, Goes(c, to),
           to \in {"closed", "asking"} \/ stage[c] \notin {"closed", "asking"}
    PROVE  /\ stage' \in [Conns -> Stages]
           /\ name' \in [Conns -> Users \cup {NoUser}]
           /\ \A d \in Conns : stage'[d] \notin {"closed", "asking"} => name'[d] \in Users
<1>1. stage' \in [Conns -> Stages] /\ name' \in [Conns -> Users \cup {NoUser}]
  BY DEF Goes, LoginTypeOK
<1>2. ASSUME NEW d \in Conns, stage'[d] \notin {"closed", "asking"}
      PROVE  name'[d] \in Users
  <2>1. CASE d = c
    BY <1>2, <2>1 DEF Goes, LoginTypeOK
  <2>2. CASE d # c
    BY <1>2, <2>2 DEF Goes, LoginTypeOK
  <2>. QED
    BY <2>1, <2>2
<1>. QED
  BY <1>1, <1>2

\* Entries that are forgotten leave the rest of the limiter as it was.
LEMMA ForgetEffect ==
    ASSUME LoginTypeOK, Remembered, NEW users \in SUBSET Users, Forget(users), now' = now,
           failed' \in [Users -> Seq(0..MaxTime)],
           \A u \in Users : failed'[u] = failed[u] \/ (u \in users /\ failed'[u] = <<>>)
    PROVE  /\ known' \subseteq Users
           /\ failures' \in [Users -> Seq(0..MaxTime)]
           /\ locked_until' \in [Users -> 0..(MaxTime + Lockout)]
           /\ \A v \in Users :
                /\ Len(failures'[v]) < MaxFailures
                /\ v \notin known' => failures'[v] = <<>> /\ locked_until'[v] = 0
           /\ Remembered'
<1>1. /\ MaxFailures \in Nat \ {0} /\ Lockout \in Nat /\ MaxTime \in Nat
      /\ 0 \in 0..(MaxTime + Lockout)
  BY PamAssumption DEF PamAssumption
<1>2. \A v \in Users :
        /\ v \in users => failures'[v] = <<>> /\ locked_until'[v] = 0 /\ v \notin known'
        /\ v \notin users => failures'[v] = failures[v] /\ locked_until'[v] = locked_until[v]
                             /\ (v \in known' <=> v \in known)
  BY DEF Forget
<1>3. known' \subseteq Users /\ <<>> \in Seq(0..MaxTime)
  BY DEF Forget, LoginTypeOK
<1>4. failures' \in [Users -> Seq(0..MaxTime)]
  BY <1>3 DEF Forget, LoginTypeOK
<1>5. locked_until' \in [Users -> 0..(MaxTime + Lockout)]
  BY <1>1 DEF Forget, LoginTypeOK
<1>6. ASSUME NEW v \in Users
      PROVE  /\ Len(failures'[v]) < MaxFailures
             /\ v \notin known' => failures'[v] = <<>> /\ locked_until'[v] = 0
  <2>1. CASE v \in users
    BY <1>1, <1>2, <2>1
  <2>2. CASE v \notin users
    BY <1>2, <2>2 DEF LoginTypeOK
  <2>. QED
    BY <2>1, <2>2
<1>7. ASSUME NEW v \in Users
      PROVE  /\ \A i \in 1..Len(failed'[v]) : failed'[v][i] <= now'
             /\ \A i, j \in 1..Len(failed'[v]) : i <= j => failed'[v][i] <= failed'[v][j]
             /\ Older(v)' >= 0
             /\ \A i \in 1..Len(failures'[v]) : failures'[v][i] = failed'[v][Older(v)' + i]
  <2>1. CASE v \in users
    <3>1. Older(v)' = Len(failed'[v]) /\ Len(failed'[v]) \in Nat
      BY <1>2, <2>1 DEF Older
    <3>2. CASE failed'[v] = failed[v]
      BY <1>2, <2>1, <3>1, <3>2 DEF Remembered
    <3>3. CASE failed'[v] = <<>>
      BY <1>2, <2>1, <3>1, <3>3
    <3>. QED
      BY <3>2, <3>3
  <2>2. CASE v \notin users
    <3>1. failed'[v] = failed[v] /\ failures'[v] = failures[v]
      BY <1>2, <2>2
    <3>2. Older(v)' = Older(v)
      BY <3>1 DEF Older
    <3>. QED
      BY <3>1, <3>2 DEF Remembered
  <2>. QED
    BY <2>1, <2>2
<1>. QED
  BY <1>3, <1>4, <1>5, <1>6, <1>7 DEF Remembered

-----------------------------------------------------------------------------
\* The types, and that the limiter knows the last failures, hold at the start.
LEMMA RememberedInit == LoginInit => LoginTypeOK /\ Remembered
<1>. SUFFICES ASSUME LoginInit PROVE LoginTypeOK /\ Remembered
  OBVIOUS
<1>. USE PamAssumption DEF PamAssumption, LoginInit
<1>1. LoginTypeOK
  BY DEF LoginTypeOK, Stages
<1>2. \A u \in Users : Older(u) = 0
  BY DEF Older
<1>. QED
  BY <1>1, <1>2 DEF Remembered

\* Every step keeps them.
LEMMA RememberedStep ==
    ASSUME LoginTypeOK, Remembered, [LoginNext]_loginVars
    PROVE  LoginTypeOK' /\ Remembered'
<1>1. CASE UNCHANGED limiter /\ now' \in 0..MaxTime /\ now' >= now
             /\ stage' \in [Conns -> Stages]
             /\ name' \in [Conns -> Users \cup {NoUser}]
             /\ \A d \in Conns : stage'[d] \notin {"closed", "asking"} => name'[d] \in Users
  <2>1. LoginTypeOK'
    BY <1>1 DEF LoginTypeOK, limiter
  <2>2. \A u \in Users : Older(u)' = Older(u)
    BY <1>1 DEF Older, limiter
  <2>3. \A u \in Users : \A i \in 1..Len(failed[u]) : failed[u][i] <= now'
    <3>1. now \in Nat /\ now' \in Nat /\ MaxTime \in Nat
      BY <1>1, PamAssumption DEF LoginTypeOK, PamAssumption
    <3>2. \A u \in Users : \A i \in 1..Len(failed[u]) : failed[u][i] \in Nat
      <4>1. \A u \in Users : failed[u] \in Seq(0..MaxTime)
        BY DEF Remembered
      <4>. QED
        BY <3>1, <4>1
    <3>. QED
      BY <1>1, <3>1, <3>2 DEF Remembered
  <2>4. failed' = failed /\ failures' = failures
    BY <1>1 DEF limiter
  <2>5. Remembered'
    BY <2>2, <2>3, <2>4 DEF Remembered
  <2>. QED
    BY <2>1, <2>5
<1>2. ASSUME NEW c \in Conns,
             Accept(c) \/ Ask(c) \/ Check(c) \/ Verify(c)
      PROVE  LoginTypeOK' /\ Remembered'
  <2>1. now' \in 0..MaxTime /\ now' >= now /\ UNCHANGED limiter
    <3>1. now \in Nat
      BY DEF LoginTypeOK
    <3>. QED
      BY <1>2, <3>1 DEF Accept, Ask, Check, Verify, LoginTypeOK
  <2>2. \/ \E to \in Stages : /\ Goes(c, to)
                              /\ to \in {"closed", "asking"} \/ stage[c] \notin {"closed", "asking"}
        \/ /\ stage' = [stage EXCEPT ![c] = "checking"]
           /\ \E u \in Users : name' = [name EXCEPT ![c] = u]
    <3>1. CASE Accept(c)
      BY <3>1 DEF Accept, Stages
    <3>2. CASE Ask(c)
      BY <3>2 DEF Ask, Stages
    <3>3. CASE Check(c)
      BY <3>3 DEF Check, Stages
    <3>4. CASE Verify(c)
      BY <3>4 DEF Verify, Stages
    <3>. QED
      BY <1>2, <3>1, <3>2, <3>3, <3>4
  <2>3. /\ stage' \in [Conns -> Stages]
        /\ name' \in [Conns -> Users \cup {NoUser}]
        /\ \A d \in Conns : stage'[d] \notin {"closed", "asking"} => name'[d] \in Users
    <3>1. CASE \E to \in Stages :
                 /\ Goes(c, to)
                 /\ to \in {"closed", "asking"} \/ stage[c] \notin {"closed", "asking"}
      BY <3>1, GoesEffect
    <3>2. CASE /\ stage' = [stage EXCEPT ![c] = "checking"]
               /\ \E u \in Users : name' = [name EXCEPT ![c] = u]
      BY <3>2 DEF LoginTypeOK, Stages
    <3>. QED
      BY <2>2, <3>1, <3>2
  <2>. QED
    BY <1>1, <2>1, <2>3
<1>3. ASSUME NEW c \in Conns, Fail(c) PROVE LoginTypeOK' /\ Remembered'
  <2>1. stage[c] = "failed" /\ name[c] \in Users /\ Goes(c, "closed") /\ now' = now
    BY <1>3 DEF Fail, LoginTypeOK
  <2>2. RecordFailure(name[c]) /\ failed' = [failed EXCEPT ![name[c]] = Append(@, now)]
    BY <1>3 DEF Fail
  <2>3. /\ known' \subseteq Users
        /\ failures' \in [Users -> Seq(0..MaxTime)]
        /\ locked_until' \in [Users -> 0..(MaxTime + Lockout)]
        /\ \A v \in Users :
             /\ Len(failures'[v]) < MaxFailures
             /\ v \notin known' => failures'[v] = <<>> /\ locked_until'[v] = 0
        /\ Remembered'
    BY <2>1, <2>2, RecordEffect
  <2>4. /\ stage' \in [Conns -> Stages]
        /\ name' \in [Conns -> Users \cup {NoUser}]
        /\ \A d \in Conns : stage'[d] \notin {"closed", "asking"} => name'[d] \in Users
    BY <2>1, GoesEffect DEF Stages
  <2>. QED
    BY <2>1, <2>3, <2>4 DEF LoginTypeOK
<1>4. ASSUME NEW c \in Conns, Succeed(c) PROVE LoginTypeOK' /\ Remembered'
  <2>1. stage[c] = "passed" /\ name[c] \in Users /\ Goes(c, "closed") /\ now' = now
    BY <1>4 DEF Succeed, LoginTypeOK
  <2>2. /\ Forget({name[c]}) /\ {name[c]} \in SUBSET Users
        /\ failed' \in [Users -> Seq(0..MaxTime)]
        /\ \A u \in Users : failed'[u] = failed[u] \/ (u \in {name[c]} /\ failed'[u] = <<>>)
    <3>1. <<>> \in Seq(0..MaxTime) /\ failed' = [failed EXCEPT ![name[c]] = <<>>]
      BY <1>4 DEF Succeed
    <3>. QED
      BY <1>4, <2>1, <3>1 DEF Succeed, Remembered
  <2>3. /\ known' \subseteq Users
        /\ failures' \in [Users -> Seq(0..MaxTime)]
        /\ locked_until' \in [Users -> 0..(MaxTime + Lockout)]
        /\ \A v \in Users :
             /\ Len(failures'[v]) < MaxFailures
             /\ v \notin known' => failures'[v] = <<>> /\ locked_until'[v] = 0
        /\ Remembered'
    BY <2>1, <2>2, ForgetEffect
  <2>4. /\ stage' \in [Conns -> Stages]
        /\ name' \in [Conns -> Users \cup {NoUser}]
        /\ \A d \in Conns : stage'[d] \notin {"closed", "asking"} => name'[d] \in Users
    BY <2>1, GoesEffect DEF Stages
  <2>. QED
    BY <2>1, <2>3, <2>4 DEF LoginTypeOK
<1>5. CASE Reap
  <2>1. /\ Forget(Stale) /\ Stale \in SUBSET Users
        /\ UNCHANGED <<now, stage, name, failed>>
    BY <1>5 DEF Reap, Stale, LoginTypeOK
  <2>2. /\ known' \subseteq Users
        /\ failures' \in [Users -> Seq(0..MaxTime)]
        /\ locked_until' \in [Users -> 0..(MaxTime + Lockout)]
        /\ \A v \in Users :
             /\ Len(failures'[v]) < MaxFailures
             /\ v \notin known' => failures'[v] = <<>> /\ locked_until'[v] = 0
        /\ Remembered'
    <3>1. failed' \in [Users -> Seq(0..MaxTime)] /\ failed' = failed
      BY <2>1 DEF Remembered
    <3>. QED
      BY <2>1, <3>1, ForgetEffect
  <2>. QED
    BY <2>1, <2>2 DEF LoginTypeOK
<1>6. CASE Tick
  <2>1. now' \in 0..MaxTime /\ now' >= now
    BY <1>6, PamAssumption DEF Tick, LoginTypeOK, PamAssumption
  <2>. QED
    BY <1>1, <1>6, <2>1 DEF Tick, LoginTypeOK
<1>7. CASE UNCHANGED loginVars
  <2>1. now' \in 0..MaxTime /\ now' >= now
    BY <1>7 DEF loginVars, LoginTypeOK
  <2>. QED
    BY <1>1, <1>7, <2>1 DEF loginVars, limiter, LoginTypeOK
<1>. QED
  BY <1>2, <1>3, <1>4, <1>5, <1>6, <1>7 DEF LoginNext

-----------------------------------------------------------------------------
(* PamLogin: what the limiter has forgotten.                               *)

\* A failure that is recorded: the old ones go, and either enough are left,
\* that are all recent, for a lockout, or they are what is kept.
LEMMA RecordCases ==
    ASSUME LoginTypeOK, Remembered, NEW u \in Users, RecordFailure(u),
           failed' = [failed EXCEPT ![u] = Append(@, now)], now' = now
    PROVE  \E k \in 0..Len(failures[u]) :
             /\ \A i \in (Older(u) + 1)..(Older(u) + k) : now - failed[u][i] >= Window
             /\ \A i \in (Older(u) + k + 1)..Len(failed[u]) : now - failed[u][i] < Window
             /\ \/ /\ Len(failures[u]) - k + 1 >= MaxFailures
                   /\ failures'[u] = <<>> /\ locked_until'[u] = now + Lockout
                \/ /\ Older(u)' = Older(u) + k
                   /\ locked_until'[u] = locked_until[u]
<1>. DEFINE n == Len(failures[u])
            m == Len(failed[u])
            old == Older(u)
            all == Append(Recent(failures[u]), now)
<1>1. PICK k \in 0..n :
        /\ all \in Seq(0..MaxTime) /\ Len(all) = n - k + 1
        /\ \A i \in 1..(n - k) : all[i] = failures[u][k + i] /\ now - all[i] < Window
        /\ all[n - k + 1] = now
        /\ \A i \in 1..k : now - failures[u][i] >= Window
  BY AllRecorded
<1>2. /\ failures' = [failures EXCEPT ![u] = IF Len(all) >= MaxFailures THEN <<>> ELSE all]
      /\ locked_until' = [locked_until EXCEPT ![u] =
                            IF Len(all) >= MaxFailures THEN now + Lockout ELSE @]
  BY DEF RecordFailure
<1>3. /\ n \in Nat /\ m \in Nat /\ old = m - n /\ old >= 0
      /\ \A i \in 1..n : failures[u][i] = failed[u][old + i]
  BY DEF Older, LoginTypeOK, Remembered
<1>4. Len(failed'[u]) = m + 1
  BY DEF Remembered, LoginTypeOK
<1>5. Older(u)' = m + 1 - Len(failures'[u])
  BY <1>4 DEF Older
<1>. HIDE DEF n, m, old, all
<1>6. ASSUME NEW i \in (old + 1)..(old + k) PROVE now - failed[u][i] >= Window
  <2>1. i - old \in 1..k /\ i - old \in 1..n /\ old + (i - old) = i
    BY <1>3
  <2>2. failures[u][i - old] = failed[u][i]
    BY <1>3, <2>1
  <2>. QED
    BY <1>1, <2>1, <2>2
<1>7. ASSUME NEW i \in (old + k + 1)..m PROVE now - failed[u][i] < Window
  <2>1. /\ i - old - k \in 1..(n - k) /\ k + (i - old - k) \in 1..n
        /\ old + (k + (i - old - k)) = i
    BY <1>3
  <2>2. failures[u][k + (i - old - k)] = failed[u][i]
    BY <1>3, <2>1
  <2>3. /\ all[i - old - k] = failures[u][k + (i - old - k)]
        /\ now - all[i - old - k] < Window
    BY <1>1, <2>1
  <2>. QED
    BY <2>2, <2>3
<1>8. CASE Len(all) >= MaxFailures
  <2>1. failures'[u] = <<>> /\ locked_until'[u] = now + Lockout
    BY <1>2, <1>8 DEF LoginTypeOK
  <2>. QED
    BY <1>1, <1>6, <1>7, <1>8, <2>1 DEF n, m, old
<1>9. CASE ~ (Len(all) >= MaxFailures)
  <2>1. failures'[u] = all /\ locked_until'[u] = locked_until[u]
    BY <1>2, <1>9 DEF LoginTypeOK
  <2>2. Older(u)' = old + k
    <3>1. Older(u)' = m + 1 - (n - k + 1)
      BY <1>1, <1>5, <2>1
    <3>2. m + 1 - (n - k + 1) = old + k
      BY <1>3
    <3>. QED
      BY <3>1, <3>2
  <2>. QED
    BY <1>6, <1>7, <2>1, <2>2 DEF n, m, old
<1>. QED
  BY <1>8, <1>9

\* The constants and the span of the bound.
LEMMA SpanBounds ==
    /\ Span \in Nat /\ Span <= Window /\ Span <= Lockout
    /\ Window \in Nat /\ Lockout \in Nat /\ MaxTime \in Nat /\ MaxFailures \in Nat \ {0}
  BY PamAssumption DEF Span, PamAssumption

\* The numbers in a user's state.
LEMMA NumbersOf ==
    ASSUME LoginTypeOK, Remembered, NEW u \in Users
    PROVE  /\ now \in Nat /\ locked_until[u] \in Nat
           /\ Len(failed[u]) \in Nat /\ Len(failures[u]) \in Nat /\ Older(u) \in Nat
           /\ failed[u] \in Seq(Nat)
           /\ \A i \in 1..Len(failed[u]) : failed[u][i] \in Nat /\ failed[u][i] <= now
           /\ Len(failed[u]) = Older(u) + Len(failures[u])
<1>1. now \in Nat /\ locked_until[u] \in Nat
  <2>1. now \in 0..MaxTime /\ locked_until[u] \in 0..(MaxTime + Lockout)
    BY DEF LoginTypeOK
  <2>. QED
    BY <2>1, SpanBounds
<1>2. failed[u] \in Seq(0..MaxTime) /\ failures[u] \in Seq(0..MaxTime)
  BY DEF LoginTypeOK, Remembered
<1>3. Len(failed[u]) \in Nat /\ Len(failures[u]) \in Nat /\ Older(u) >= 0
  BY <1>2 DEF Remembered
<1>4. Older(u) = Len(failed[u]) - Len(failures[u])
  BY DEF Older
<1>5. \A i \in 1..Len(failed[u]) : failed[u][i] \in Nat /\ failed[u][i] <= now
  <2>1. \A i \in 1..Len(failed[u]) : failed[u][i] <= now
    BY DEF Remembered
  <2>. QED
    BY <1>2, <2>1, SpanBounds
<1>6. failed[u] \in Seq(Nat)
  BY <1>2, SpanBounds
<1>. QED
  BY <1>1, <1>3, <1>4, <1>5, <1>6

\* What has been forgotten stays without effect on every step.
LEMMA SpentStep ==
    ASSUME LoginTypeOK, Remembered, Spent, [LoginNext]_loginVars
    PROVE  Spent'
<1>1. CASE UNCHANGED limiter /\ now' \in Nat /\ now' >= now
  <2>. SUFFICES ASSUME NEW u \in Users, NEW i \in 1..Older(u)
                PROVE  now' - failed[u][i] >= Span \/ failed[u][i] + Lockout <= locked_until[u]
    BY <1>1 DEF Spent, Older, limiter
  <2>1. now - failed[u][i] >= Span \/ failed[u][i] + Lockout <= locked_until[u]
    BY DEF Spent
  <2>2. now \in Nat /\ failed[u][i] \in Nat
    <3>1. i \in 1..Len(failed[u])
      BY NumbersOf
    <3>. QED
      BY <3>1, NumbersOf
  <2>. QED
    BY <1>1, <2>1, <2>2, SpanBounds
<1>2. ASSUME NEW users \in SUBSET Users, Forget(users), now' = now,
             NEW u \in Users, failed'[u] = failed[u],
             u \in users => u \in Stale
      PROVE  \A i \in 1..Older(u)' :
               now' - failed'[u][i] >= Span \/ failed'[u][i] + Lockout <= locked_until'[u]
  <2>1. CASE u \notin users
    <3>1. failures'[u] = failures[u] /\ locked_until'[u] = locked_until[u]
      BY <1>2, <2>1 DEF Forget
    <3>2. Older(u)' = Older(u)
      BY <1>2, <3>1 DEF Older
    <3>. QED
      BY <1>2, <3>1, <3>2 DEF Spent
  <2>2. CASE u \in users
    <3>1. failures'[u] = <<>>
      BY <2>2, <1>2 DEF Forget
    <3>2. Older(u)' = Len(failed[u])
      BY <1>2, <3>1, NumbersOf DEF Older
    <3>3. /\ locked_until[u] < now
          /\ \A i \in 1..Len(failures[u]) : now - failures[u][i] > Window
      BY <1>2, <2>2 DEF Stale
    <3>4. ASSUME NEW i \in 1..Len(failed[u]) PROVE now - failed[u][i] >= Span
      <4>1. CASE i <= Older(u)
        <5>1. i \in 1..Older(u)
          BY <4>1, NumbersOf
        <5>2. now - failed[u][i] >= Span \/ failed[u][i] + Lockout <= locked_until[u]
          BY <5>1 DEF Spent
        <5>. QED
          BY <3>3, <5>2, NumbersOf, SpanBounds
      <4>2. CASE i > Older(u)
        <5>1. i - Older(u) \in 1..Len(failures[u]) /\ Older(u) + (i - Older(u)) = i
          BY <4>2, NumbersOf
        <5>2. failures[u][i - Older(u)] = failed[u][i]
          BY <5>1 DEF Remembered
        <5>3. now - failed[u][i] > Window
          BY <3>3, <5>1, <5>2
        <5>. QED
          BY <5>3, NumbersOf, SpanBounds
      <4>. QED
        BY <4>1, <4>2, NumbersOf
    <3>. QED
      BY <1>2, <3>2, <3>4
  <2>. QED
    BY <2>1, <2>2
<1>3. ASSUME NEW c \in Conns, Accept(c) \/ Ask(c) \/ Check(c) \/ Verify(c) PROVE Spent'
  <2>1. UNCHANGED <<now, limiter>> /\ now \in Nat
    BY <1>3 DEF Accept, Ask, Check, Verify, LoginTypeOK
  <2>. QED
    BY <1>1, <2>1
<1>4. ASSUME NEW c \in Conns, Fail(c) PROVE Spent'
  <2>1. PICK u \in Users : /\ now' = now /\ RecordFailure(u)
                           /\ failed' = [failed EXCEPT ![u] = Append(@, now)]
    BY <1>4 DEF Fail, LoginTypeOK
  <2>2. ASSUME NEW v \in Users, v # u
        PROVE  \A i \in 1..Older(v)' :
                 now' - failed'[v][i] >= Span \/ failed'[v][i] + Lockout <= locked_until'[v]
    <3>1. /\ failed'[v] = failed[v] /\ failures'[v] = failures[v]
          /\ locked_until'[v] = locked_until[v]
      BY <2>1, <2>2 DEF RecordFailure, LoginTypeOK, Remembered
    <3>2. Older(v)' = Older(v)
      BY <3>1 DEF Older
    <3>. QED
      BY <2>1, <3>1, <3>2 DEF Spent
  <2>3. /\ Len(failed'[u]) = Len(failed[u]) + 1
        /\ \A i \in 1..Len(failed[u]) : failed'[u][i] = failed[u][i]
        /\ failed'[u][Len(failed[u]) + 1] = now
    <3>1. failed'[u] = Append(failed[u], now) /\ failed[u] \in Seq(Nat) /\ now \in Nat
      BY <2>1, NumbersOf DEF Remembered
    <3>. QED
      BY <3>1, AppendProperties
  <2>4. PICK k \in 0..Len(failures[u]) :
          /\ \A i \in (Older(u) + 1)..(Older(u) + k) : now - failed[u][i] >= Window
          /\ \A i \in (Older(u) + k + 1)..Len(failed[u]) : now - failed[u][i] < Window
          /\ \/ /\ Len(failures[u]) - k + 1 >= MaxFailures
                /\ failures'[u] = <<>> /\ locked_until'[u] = now + Lockout
             \/ /\ Older(u)' = Older(u) + k
                /\ locked_until'[u] = locked_until[u]
    BY <2>1, RecordCases
  <2>5. \A i \in 1..Older(u)' :
          now' - failed'[u][i] >= Span \/ failed'[u][i] + Lockout <= locked_until'[u]
    <3>1. CASE failures'[u] = <<>> /\ locked_until'[u] = now + Lockout
      <4>1. Older(u)' = Len(failed[u]) + 1
        <5>1. Older(u)' = Len(failed'[u]) - Len(failures'[u])
          BY DEF Older
        <5>2. Len(failed[u]) \in Nat /\ Len(failures'[u]) = 0
          BY <2>1, <3>1, NumbersOf
        <5>. QED
          BY <2>3, <5>1, <5>2
      <4>2. ASSUME NEW i \in 1..(Len(failed[u]) + 1) PROVE failed'[u][i] \in Nat /\ failed'[u][i] <= now
        <5>1. i \in 1..Len(failed[u]) \/ i = Len(failed[u]) + 1
          BY <2>1, NumbersOf
        <5>. QED
          BY <2>1, <2>3, <5>1, NumbersOf
      <4>3. now \in Nat
        BY DEF LoginTypeOK
      <4>. QED
        BY <3>1, <4>1, <4>2, <4>3, SpanBounds
    <3>2. CASE Older(u)' = Older(u) + k /\ locked_until'[u] = locked_until[u]
      <4>. SUFFICES ASSUME NEW i \in 1..(Older(u) + k)
                    PROVE  \/ now - failed'[u][i] >= Span
                           \/ failed'[u][i] + Lockout <= locked_until[u]
        BY <2>1, <3>2
      <4>1. i \in 1..Len(failed[u]) /\ (i \in 1..Older(u) \/ i \in (Older(u) + 1)..(Older(u) + k))
        BY <2>1, NumbersOf
      <4>2. failed'[u][i] = failed[u][i]
        BY <2>3, <4>1
      <4>3. CASE i \in 1..Older(u)
        BY <2>1, <4>2, <4>3 DEF Spent
      <4>4. CASE i \in (Older(u) + 1)..(Older(u) + k)
        <5>1. now - failed[u][i] >= Window
          BY <2>4, <4>4
        <5>2. now \in Nat /\ failed[u][i] \in Nat
          BY <4>1, NumbersOf
        <5>3. now - failed[u][i] >= Span
          BY <5>1, <5>2, SpanBounds
        <5>. QED
          BY <4>2, <5>3
      <4>. QED
        BY <4>1, <4>3, <4>4
    <3>. QED
      BY <2>4, <3>1, <3>2
  <2>. QED
    BY <2>2, <2>5 DEF Spent
<1>5. ASSUME NEW c \in Conns, Succeed(c) PROVE Spent'
  <2>1. PICK u \in Users : /\ now' = now /\ Forget({u})
                           /\ failed' = [failed EXCEPT ![u] = <<>>]
    BY <1>5 DEF Succeed, LoginTypeOK
  <2>2. ASSUME NEW v \in Users, v # u
        PROVE  \A i \in 1..Older(v)' :
                 now' - failed'[v][i] >= Span \/ failed'[v][i] + Lockout <= locked_until'[v]
    <3>1. {u} \in SUBSET Users /\ failed'[v] = failed[v] /\ v \notin {u}
      BY <2>1, <2>2 DEF Remembered
    <3>. QED
      BY <1>2, <2>1, <3>1
  <2>3. Older(u)' = 0
    BY <2>1 DEF Older, Forget, Remembered
  <2>. QED
    BY <2>1, <2>2, <2>3 DEF Spent
<1>6. CASE Reap
  <2>1. Forget(Stale) /\ now' = now /\ failed' = failed /\ Stale \in SUBSET Users
    BY <1>6 DEF Reap, Stale, LoginTypeOK
  <2>. QED
    BY <1>2, <2>1 DEF Spent
<1>7. CASE Tick
  BY <1>1, <1>7 DEF Tick, LoginTypeOK
<1>8. CASE UNCHANGED loginVars
  BY <1>1, <1>8 DEF loginVars, limiter, LoginTypeOK
<1>. QED
  BY <1>3, <1>4, <1>5, <1>6, <1>7, <1>8 DEF LoginNext

-----------------------------------------------------------------------------
(* PamLogin: why there is a lockout.                                       *)

\* The failures in a span of time are a finite set of their positions.
LEMMA WithinFinite ==
    ASSUME NEW s \in Seq(Nat), NEW span, NEW t
    PROVE  /\ IsFiniteSet(Within(s, span, t)) /\ Cardinality(Within(s, span, t)) \in Nat
<1>1. Within(s, span, t) \subseteq 1..Len(s)
  BY DEF Within
<1>2. IsFiniteSet(1..Len(s))
  BY FS_Interval
<1>. QED
  BY <1>1, <1>2, FS_Subset, FS_CardinalityType

\* A lockout that begins has enough failures behind it, all within the window.
LEMMA LockDeserved ==
    ASSUME LoginTypeOK, Remembered, NEW u \in Users, Window > 0,
           NEW k \in 0..Len(failures[u]),
           \A i \in (Older(u) + k + 1)..Len(failed[u]) : now - failed[u][i] < Window,
           Len(failures[u]) - k + 1 >= MaxFailures
    PROVE  Cardinality(Within(Append(failed[u], now), Window, now)) >= MaxFailures
<1>. DEFINE s == Append(failed[u], now)
            m == Len(failed[u])
            lo == Older(u) + k + 1
            last == lo..(m + 1)
<1>1. /\ failed[u] \in Seq(Nat) /\ now \in Nat /\ m \in Nat /\ lo \in Nat /\ lo <= m + 1
      /\ m + 1 - lo + 1 = Len(failures[u]) - k + 1
      /\ Len(failures[u]) - k + 1 \in Nat
      /\ lo >= 1
  BY NumbersOf
<1>2. /\ s \in Seq(Nat) /\ Len(s) = m + 1
      /\ \A i \in 1..m : s[i] = failed[u][i]
      /\ s[m + 1] = now
  BY <1>1, AppendProperties
<1>. HIDE DEF s, m, lo
<1>3. ASSUME NEW i \in last PROVE i \in Within(s, Window, now)
  <2>1. CASE i = m + 1
    <3>1. now - Window < now
      BY <1>1, SpanBounds
    <3>. QED
      BY <1>1, <1>2, <2>1, <3>1 DEF Within
  <2>2. CASE i # m + 1
    <3>1. i \in lo..m /\ i \in 1..m
      BY <1>1, <2>2
    <3>2. now - failed[u][i] < Window /\ failed[u][i] \in Nat /\ failed[u][i] <= now
      BY <3>1, NumbersOf DEF m, lo
    <3>3. now - Window < failed[u][i]
      BY <1>1, <3>2, SpanBounds
    <3>. QED
      BY <1>1, <1>2, <3>1, <3>2, <3>3 DEF Within
  <2>. QED
    BY <2>1, <2>2
<1>4. IsFiniteSet(last) /\ Cardinality(last) = m + 1 - lo + 1
  BY <1>1, FS_Interval
<1>5. /\ Cardinality(last) <= Cardinality(Within(s, Window, now))
      /\ Cardinality(Within(s, Window, now)) \in Nat
  <2>1. last \subseteq Within(s, Window, now)
    BY <1>3
  <2>. HIDE DEF last
  <2>. QED
    BY <1>2, <2>1, WithinFinite, FS_Subset
<1>6. Cardinality(Within(s, Window, now)) >= MaxFailures
  BY <1>1, <1>4, <1>5, SpanBounds
<1>. QED
  BY <1>6 DEF s

\* A lockout has had its failures, after every step.
LEMMA DeservedStep ==
    ASSUME LoginTypeOK, Remembered, Deserved, Window > 0, [LoginNext]_loginVars
    PROVE  Deserved'
<1>. DEFINE Cause(u) ==
              locked_until[u] # 0 =>
                \E t \in 0..now :
                    /\ locked_until[u] = t + Lockout
                    /\ Cardinality(Within(failed[u], Window, t)) >= MaxFailures
<1>0. (Deserved <=> \A u \in Users : Cause(u)) /\ (Deserved' <=> \A u \in Users : Cause(u)')
  BY DEF Deserved, FailedWithin, Within
<1>1. ASSUME NEW u \in Users, failed'[u] = failed[u], now' \in Nat, now' >= now,
             locked_until'[u] = locked_until[u] \/ locked_until'[u] = 0
      PROVE  Cause(u)'
  <2>. SUFFICES ASSUME locked_until'[u] # 0
                PROVE  \E t \in 0..now' :
                         /\ locked_until'[u] = t + Lockout
                         /\ Cardinality(Within(failed'[u], Window, t)) >= MaxFailures
    BY DEF Within
  <2>1. PICK t \in 0..now :
          /\ locked_until[u] = t + Lockout
          /\ Cardinality(Within(failed[u], Window, t)) >= MaxFailures
    BY <1>0, <1>1
  <2>2. t \in 0..now'
    BY <1>1 DEF LoginTypeOK
  <2>. QED
    BY <1>1, <2>1, <2>2
<1>. HIDE DEF Cause
<1>2. ASSUME NEW c \in Conns, Accept(c) \/ Ask(c) \/ Check(c) \/ Verify(c) PROVE Deserved'
  <2>1. UNCHANGED <<now, limiter>> /\ now \in Nat
    BY <1>2 DEF Accept, Ask, Check, Verify, LoginTypeOK
  <2>. QED
    BY <1>0, <1>1, <2>1 DEF limiter
<1>3. ASSUME NEW c \in Conns, Fail(c) PROVE Deserved'
  <2>1. PICK u \in Users : /\ now' = now /\ RecordFailure(u)
                           /\ failed' = [failed EXCEPT ![u] = Append(@, now)]
    BY <1>3 DEF Fail, LoginTypeOK
  <2>2. ASSUME NEW v \in Users, v # u PROVE Cause(v)'
    <3>1. failed'[v] = failed[v] /\ locked_until'[v] = locked_until[v] /\ now \in Nat
      BY <2>1, <2>2 DEF RecordFailure, LoginTypeOK, Remembered
    <3>. QED
      BY <1>1, <2>1, <3>1
  <2>3. failed'[u] = Append(failed[u], now) /\ failed[u] \in Seq(Nat) /\ now \in Nat
    BY <2>1, NumbersOf DEF Remembered
  <2>4. PICK k \in 0..Len(failures[u]) :
          /\ \A i \in (Older(u) + 1)..(Older(u) + k) : now - failed[u][i] >= Window
          /\ \A i \in (Older(u) + k + 1)..Len(failed[u]) : now - failed[u][i] < Window
          /\ \/ /\ Len(failures[u]) - k + 1 >= MaxFailures
                /\ failures'[u] = <<>> /\ locked_until'[u] = now + Lockout
             \/ /\ Older(u)' = Older(u) + k
                /\ locked_until'[u] = locked_until[u]
    BY <2>1, RecordCases
  <2>5. Cause(u)'
    <3>. SUFFICES ASSUME locked_until'[u] # 0
                  PROVE  \E t \in 0..now' :
                           /\ locked_until'[u] = t + Lockout
                           /\ Cardinality(Within(failed'[u], Window, t)) >= MaxFailures
      BY DEF Cause, Within
    <3>1. CASE /\ Len(failures[u]) - k + 1 >= MaxFailures
               /\ locked_until'[u] = now + Lockout
      <4>1. Cardinality(Within(failed'[u], Window, now)) >= MaxFailures
        BY <2>3, <2>4, <3>1, LockDeserved
      <4>. QED
        BY <2>1, <2>3, <3>1, <4>1
    <3>2. CASE locked_until'[u] = locked_until[u]
      <4>1. PICK t \in 0..now :
              /\ locked_until[u] = t + Lockout
              /\ Cardinality(Within(failed[u], Window, t)) >= MaxFailures
        BY <1>0, <3>2 DEF Cause
      <4>2. t \in Nat /\ Window \in Nat /\ MaxFailures \in Nat
        BY <2>3, SpanBounds
      <4>3. /\ Cardinality(Within(failed[u], Window, t)) \in Nat
            /\ Cardinality(Within(failed'[u], Window, t)) \in Nat
            /\ Cardinality(Within(failed[u], Window, t))
                 <= Cardinality(Within(failed'[u], Window, t))
        BY <2>3, <4>2, WithinAppend
      <4>4. Cardinality(Within(failed'[u], Window, t)) >= MaxFailures
        BY <4>1, <4>2, <4>3
      <4>. QED
        BY <2>1, <3>2, <4>1, <4>4
    <3>. QED
      BY <2>4, <3>1, <3>2
  <2>. QED
    BY <1>0, <2>2, <2>5
<1>4. ASSUME NEW c \in Conns, Succeed(c) PROVE Deserved'
  <2>1. PICK u \in Users : /\ now' = now /\ Forget({u})
                           /\ failed' = [failed EXCEPT ![u] = <<>>]
    BY <1>4 DEF Succeed, LoginTypeOK
  <2>2. ASSUME NEW v \in Users, v # u PROVE Cause(v)'
    <3>1. failed'[v] = failed[v] /\ locked_until'[v] = locked_until[v] /\ now \in Nat
      BY <2>1, <2>2 DEF Forget, LoginTypeOK, Remembered
    <3>. QED
      BY <1>1, <2>1, <3>1
  <2>3. locked_until'[u] = 0
    BY <2>1 DEF Forget
  <2>. QED
    BY <1>0, <2>2, <2>3 DEF Cause
<1>5. CASE Reap
  <2>1. /\ now' = now /\ failed' = failed /\ now \in Nat
        /\ \A u \in Users : locked_until'[u] = locked_until[u] \/ locked_until'[u] = 0
    BY <1>5 DEF Reap, Forget, LoginTypeOK
  <2>. QED
    BY <1>0, <1>1, <2>1
<1>6. CASE Tick
  <2>1. now' \in Nat /\ now' >= now /\ UNCHANGED limiter
    BY <1>6 DEF Tick, LoginTypeOK
  <2>. QED
    BY <1>0, <1>1, <2>1 DEF limiter
<1>7. CASE UNCHANGED loginVars
  <2>1. now' \in Nat /\ now' >= now /\ UNCHANGED limiter
    BY <1>7 DEF loginVars, limiter, LoginTypeOK
  <2>. QED
    BY <1>0, <1>1, <2>1 DEF limiter
<1>. QED
  BY <1>2, <1>3, <1>4, <1>5, <1>6, <1>7 DEF LoginNext

-----------------------------------------------------------------------------
(* PamLogin: how many passwords can be tried.                              *)

\* A user that is let pass has fewer failures in the span than make a lockout.
LEMMA FewFailures ==
    ASSUME LoginTypeOK, Remembered, Spent, NEW u \in Users, ~ Limited(u)
    PROVE  /\ FailedWithin(u, Span, now) \in Nat
           /\ FailedWithin(u, Span, now) <= MaxFailures - 1
<1>. DEFINE w == Within(failed[u], Span, now)
            lo == Older(u) + 1
            m == Len(failed[u])
<1>1. /\ locked_until[u] <= now
      /\ Len(failures[u]) < MaxFailures
  BY SpanBounds DEF Limited, LoginTypeOK
<1>2. /\ failed[u] \in Seq(Nat) /\ lo \in Nat /\ m \in Nat /\ lo <= m + 1
      /\ m - lo + 1 = Len(failures[u]) /\ Len(failures[u]) \in Nat
  <2>1. /\ failed[u] \in Seq(Nat) /\ Len(failures[u]) \in Nat /\ Older(u) \in Nat
        /\ m = Older(u) + Len(failures[u])
    BY NumbersOf
  <2>. HIDE DEF m
  <2>. QED
    BY <2>1
<1>3. ASSUME NEW i \in w PROVE i \in lo..m
  <2>1. i \in 1..m /\ now - Span < failed[u][i]
    BY DEF Within
  <2>2. failed[u][i] \in Nat /\ failed[u][i] <= now /\ now \in Nat /\ locked_until[u] \in Nat
    BY <2>1, NumbersOf
  <2>3. ~ (i <= Older(u))
    <3>. SUFFICES ASSUME i <= Older(u) PROVE FALSE
      OBVIOUS
    <3>1. i \in 1..Older(u)
      BY <2>1, NumbersOf
    <3>2. now - failed[u][i] >= Span \/ failed[u][i] + Lockout <= locked_until[u]
      BY <3>1 DEF Spent
    <3>. QED
      BY <1>1, <2>1, <2>2, <3>2, SpanBounds
  <2>. QED
    BY <1>2, <2>1, <2>3, NumbersOf
<1>4. IsFiniteSet(lo..m) /\ Cardinality(lo..m) = Len(failures[u])
  <2>. HIDE DEF lo, m
  <2>1. lo \in Int /\ m \in Int
    BY <1>2
  <2>2. IsFiniteSet(lo..m) /\ Cardinality(lo..m) = IF lo > m THEN 0 ELSE m - lo + 1
    BY <2>1, FS_Interval
  <2>. QED
    BY <1>2, <2>2
<1>5. Cardinality(w) \in Nat /\ Cardinality(w) <= Cardinality(lo..m)
  <2>1. w \subseteq lo..m
    BY <1>3
  <2>. HIDE DEF w, lo, m
  <2>. QED
    BY <1>4, <2>1, FS_Subset, FS_CardinalityType
<1>6. FailedWithin(u, Span, now) = Cardinality(w)
  BY DEF FailedWithin, Within
<1>. HIDE DEF w, lo, m
<1>. QED
  BY <1>1, <1>2, <1>4, <1>5, <1>6, SpanBounds

\* Counting the connections on their way.
LEMMA InFlightFinite ==
    ASSUME NEW u
    PROVE  /\ IsFiniteSet(InFlight(u)) /\ Cardinality(InFlight(u)) \in Nat
           /\ Cardinality(Conns) \in Nat
           /\ Cardinality(InFlight(u)) <= Cardinality(Conns)
<1>1. InFlight(u) \subseteq Conns /\ IsFiniteSet(Conns)
  BY PamAssumption DEF InFlight, PamAssumption
<1>. QED
  BY <1>1, FS_Subset, FS_CardinalityType

\* A failure that is counted was a connection on its way; and the clock, the
\* reaper and a success only take away.
LEMMA GuessesStep ==
    ASSUME LoginTypeOK, Remembered, Spent, GuessesBounded,
           LoginTypeOK', Remembered', [LoginNext]_loginVars
    PROVE  GuessesBounded'
<1>. DEFINE Bounded(u) ==
              Cardinality(Within(failed[u], Span, now)) + Cardinality(InFlight(u))
                <= MaxFailures + Cardinality(Conns) - 1
<1>0. /\ GuessesBounded <=> \A u \in Users : Bounded(u)
      /\ GuessesBounded' <=> \A u \in Users : Bounded(u)'
  BY DEF GuessesBounded, FailedWithin, Within
<1>1. ASSUME NEW u \in Users, InFlight(u)' \subseteq InFlight(u),
             Cardinality(Within(failed'[u], Span, now')) <= Cardinality(Within(failed[u], Span, now))
      PROVE  Bounded(u)'
  <2>1. /\ Cardinality(InFlight(u)) \in Nat /\ Cardinality(InFlight(u)') \in Nat
        /\ Cardinality(InFlight(u)') <= Cardinality(InFlight(u))
    BY <1>1, InFlightFinite, FS_Subset, FS_CardinalityType
  <2>2. /\ Cardinality(Within(failed[u], Span, now)) \in Nat
        /\ Cardinality(Within(failed'[u], Span, now')) \in Nat
    <3>1. failed[u] \in Seq(Nat) /\ failed'[u] \in Seq(Nat)
      <4>1. failed'[u] \in Seq(0..MaxTime)
        BY DEF Remembered
      <4>. QED
        BY <4>1, NumbersOf, SpanBounds
    <3>. QED
      BY <3>1, WithinFinite
  <2>3. Cardinality(Within(failed[u], Span, now)) + Cardinality(InFlight(u))
          <= MaxFailures + Cardinality(Conns) - 1
    BY <1>0
  <2>4. Cardinality(Within(failed'[u], Span, now')) + Cardinality(InFlight(u)')
          <= MaxFailures + Cardinality(Conns) - 1
    BY <1>1, <2>1, <2>2, <2>3, InFlightFinite, SpanBounds
  <2>. QED
    BY <2>4 DEF Within
<1>2. ASSUME NEW u \in Users
      PROVE  /\ Cardinality(Within(failed[u], Span, now)) \in Nat
             /\ Cardinality(Within(failed[u], Span, now)) <= Cardinality(Within(failed[u], Span, now))
  <2>1. Cardinality(Within(failed[u], Span, now)) \in Nat
    BY NumbersOf, WithinFinite
  <2>. QED
    BY <2>1
<1>. HIDE DEF Bounded
<1>3. ASSUME NEW c \in Conns, Accept(c) \/ Ask(c) \/ Verify(c) PROVE GuessesBounded'
  <2>1. /\ now' = now /\ failed' = failed
        /\ \A d \in Conns : d # c => stage'[d] = stage[d] /\ name'[d] = name[d]
        /\ stage'[c] \in {"verifying", "failed"} =>
             stage[c] \in {"verifying", "failed"} /\ name'[c] = name[c]
    BY <1>3 DEF Accept, Ask, Verify, Goes, limiter, LoginTypeOK
  <2>2. \A u \in Users : InFlight(u)' \subseteq InFlight(u)
    BY <2>1 DEF InFlight
  <2>. QED
    BY <1>0, <1>1, <1>2, <2>1, <2>2
<1>4. ASSUME NEW c \in Conns, Check(c) PROVE GuessesBounded'
  <2>1. /\ now' = now /\ failed' = failed
        /\ \A d \in Conns : d # c => name'[d] = name[d] /\ stage'[d] = stage[d]
        /\ stage'[c] \in {"verifying", "failed"} => name'[c] = name[c] /\ ~ Limited(name[c])
    <3>1. now' = now /\ failed' = failed
      BY <1>4 DEF Check, limiter
    <3>2. CASE Limited(name[c])
      BY <1>4, <3>1, <3>2 DEF Check, Goes, LoginTypeOK
    <3>3. CASE ~ Limited(name[c])
      BY <1>4, <3>1, <3>3 DEF Check, Goes, LoginTypeOK
    <3>. QED
      BY <3>2, <3>3
  <2>2. ASSUME NEW u \in Users, Limited(u) \/ name[c] # u PROVE Bounded(u)'
    <3>1. InFlight(u)' \subseteq InFlight(u)
      BY <2>1, <2>2 DEF InFlight
    <3>. QED
      BY <1>1, <1>2, <2>1, <3>1
  <2>3. ASSUME NEW u \in Users, ~ Limited(u) PROVE Bounded(u)'
    <3>1. /\ Cardinality(Within(failed[u], Span, now)) <= MaxFailures - 1
          /\ Cardinality(Within(failed[u], Span, now)) \in Nat
      BY <2>3, FewFailures DEF FailedWithin, Within
    <3>2. /\ Cardinality(InFlight(u)') \in Nat /\ Cardinality(Conns) \in Nat
          /\ Cardinality(InFlight(u)') <= Cardinality(Conns)
      <4>1. InFlight(u)' \subseteq Conns /\ IsFiniteSet(Conns)
        BY PamAssumption DEF InFlight, PamAssumption
      <4>. QED
        BY <4>1, FS_Subset, FS_CardinalityType
    <3>3. Cardinality(Within(failed'[u], Span, now')) + Cardinality(InFlight(u)')
            <= MaxFailures + Cardinality(Conns) - 1
      BY <2>1, <3>1, <3>2, SpanBounds
    <3>. QED
      BY <3>3 DEF Bounded, Within
  <2>. QED
    BY <1>0, <2>2, <2>3
<1>5. ASSUME NEW c \in Conns, Fail(c) PROVE GuessesBounded'
  <2>1. PICK u \in Users : /\ now' = now /\ name[c] = u /\ stage[c] = "failed"
                           /\ failed' = [failed EXCEPT ![u] = Append(@, now)]
                           /\ Goes(c, "closed")
    BY <1>5 DEF Fail, LoginTypeOK
  <2>2. /\ stage'[c] = "closed"
        /\ \A d \in Conns : d # c => stage'[d] = stage[d] /\ name'[d] = name[d]
    BY <2>1 DEF Goes, LoginTypeOK
  <2>3. ASSUME NEW v \in Users, v # u PROVE Bounded(v)'
    <3>1. InFlight(v)' \subseteq InFlight(v) /\ failed'[v] = failed[v]
      BY <2>1, <2>2, <2>3 DEF InFlight, Remembered
    <3>. QED
      BY <1>1, <1>2, <2>1, <3>1
  <2>4. Bounded(u)'
    <3>1. c \in InFlight(u) /\ InFlight(u)' \subseteq InFlight(u) \ {c}
      BY <2>1, <2>2 DEF InFlight
    <3>2. /\ IsFiniteSet(InFlight(u) \ {c})
          /\ Cardinality(InFlight(u) \ {c}) = Cardinality(InFlight(u)) - 1
      BY <3>1, InFlightFinite, FS_RemoveElement
    <3>3. /\ Cardinality(InFlight(u)') \in Nat /\ Cardinality(InFlight(u)) \in Nat
          /\ Cardinality(InFlight(u)') <= Cardinality(InFlight(u)) - 1
      BY <3>1, <3>2, InFlightFinite, FS_Subset, FS_CardinalityType
    <3>4. failed'[u] = Append(failed[u], now) /\ failed[u] \in Seq(Nat) /\ now \in Nat
      BY <2>1, NumbersOf DEF Remembered
    <3>5. /\ Cardinality(Within(failed[u], Span, now)) \in Nat
          /\ Cardinality(Within(failed'[u], Span, now)) \in Nat
          /\ Cardinality(Within(failed'[u], Span, now))
               <= Cardinality(Within(failed[u], Span, now)) + 1
      BY <3>4, WithinAppend, SpanBounds
    <3>6. Cardinality(Within(failed[u], Span, now)) + Cardinality(InFlight(u))
            <= MaxFailures + Cardinality(Conns) - 1
      BY <1>0 DEF Bounded
    <3>7. Cardinality(Within(failed'[u], Span, now')) + Cardinality(InFlight(u)')
            <= MaxFailures + Cardinality(Conns) - 1
      BY <2>1, <3>3, <3>5, <3>6, InFlightFinite, SpanBounds
    <3>. QED
      BY <3>7 DEF Bounded, Within
  <2>. QED
    BY <1>0, <2>3, <2>4
<1>6. ASSUME NEW c \in Conns, Succeed(c) PROVE GuessesBounded'
  <2>1. PICK u \in Users : /\ now' = now /\ Goes(c, "closed")
                           /\ failed' = [failed EXCEPT ![u] = <<>>]
    BY <1>6 DEF Succeed, LoginTypeOK
  <2>2. \A v \in Users : InFlight(v)' \subseteq InFlight(v)
    BY <2>1 DEF InFlight, Goes, LoginTypeOK
  <2>3. ASSUME NEW v \in Users
        PROVE  Cardinality(Within(failed'[v], Span, now')) <= Cardinality(Within(failed[v], Span, now))
    <3>1. CASE v = u
      <4>1. failed'[v] = <<>>
        BY <2>1, <3>1 DEF Remembered
      <4>2. Within(failed'[v], Span, now') = {}
        BY <4>1 DEF Within
      <4>. QED
        BY <1>2, <4>2, FS_EmptySet
    <3>2. CASE v # u
      <4>1. failed'[v] = failed[v]
        BY <2>1, <3>2 DEF Remembered
      <4>. QED
        BY <1>2, <2>1, <4>1
    <3>. QED
      BY <3>1, <3>2
  <2>. QED
    BY <1>0, <1>1, <2>2, <2>3
<1>7. CASE Reap
  <2>1. now' = now /\ failed' = failed /\ stage' = stage /\ name' = name
    BY <1>7 DEF Reap
  <2>2. \A u \in Users : InFlight(u)' \subseteq InFlight(u)
    BY <2>1 DEF InFlight
  <2>. QED
    BY <1>0, <1>1, <1>2, <2>1, <2>2
<1>8. CASE Tick
  <2>1. now' = now + 1 /\ failed' = failed /\ stage' = stage /\ name' = name
    BY <1>8 DEF Tick, limiter
  <2>2. \A u \in Users : InFlight(u)' \subseteq InFlight(u)
    BY <2>1 DEF InFlight
  <2>3. ASSUME NEW u \in Users
        PROVE  Cardinality(Within(failed'[u], Span, now')) <= Cardinality(Within(failed[u], Span, now))
    <3>1. /\ failed[u] \in Seq(Nat) /\ now \in Nat
          /\ \A i \in 1..Len(failed[u]) : failed[u][i] \in Nat /\ failed[u][i] <= now
      BY NumbersOf
    <3>2. Within(failed'[u], Span, now') \subseteq Within(failed[u], Span, now)
      BY <2>1, <3>1, SpanBounds DEF Within
    <3>. QED
      BY <3>1, <3>2, WithinFinite, FS_Subset
  <2>. QED
    BY <1>0, <1>1, <2>2, <2>3
<1>9. CASE UNCHANGED loginVars
  <2>1. now' = now /\ failed' = failed /\ stage' = stage /\ name' = name
    BY <1>9 DEF loginVars
  <2>2. \A u \in Users : InFlight(u)' \subseteq InFlight(u)
    BY <2>1 DEF InFlight
  <2>. QED
    BY <1>0, <1>1, <1>2, <2>1, <2>2
<1>. QED
  BY <1>3, <1>4, <1>5, <1>6, <1>7, <1>8, <1>9 DEF LoginNext

-----------------------------------------------------------------------------
(* PamLogin: the theorems.                                                 *)

\* The limiter's entries have their types, no user has as many failures left as
\* make a lockout, and a thread past the prompt has a name: PamLogin's typing,
\* for any number of connections and users and any limits.
THEOREM LoginTypeCorrect == LoginSpec => []LoginTypeOK
<1>1. LoginTypeOK /\ Remembered /\ [LoginNext]_loginVars => (LoginTypeOK /\ Remembered)'
  BY RememberedStep
<1>. QED
  BY <1>1, RememberedInit, PTL DEF LoginSpec

\* What the limiter keeps of a user's failures is the end of what happened, and
\* whatever it has dropped is too old to count, or is behind the lockout.
THEOREM LimiterRemembers == LoginSpec => [](Remembered /\ Spent)
<1>1. LoginInit => Spent
  BY DEF LoginInit, Spent, Older
<1>2. /\ LoginTypeOK /\ Remembered /\ Spent /\ [LoginNext]_loginVars
      => (LoginTypeOK /\ Remembered /\ Spent)'
  BY RememberedStep, SpentStep
<1>. QED
  BY <1>1, <1>2, RememberedInit, PTL DEF LoginSpec

\* record_failure, record_success, is_limited and the reaper together bound the
\* passwords that can be tried for a user in a lockout or a window.
THEOREM GuessesBoundedAlways == LoginSpec => []GuessesBounded
<1>1. LoginInit => GuessesBounded
  <2>. SUFFICES ASSUME LoginInit, NEW u \in Users
                PROVE  FailedWithin(u, Span, now) + Cardinality(InFlight(u))
                         <= MaxFailures + Cardinality(Conns) - 1
    BY DEF GuessesBounded
  <2>1. FailedWithin(u, Span, now) = 0
    <3>1. {i \in 1..Len(failed[u]) : now - Span < failed[u][i] /\ failed[u][i] <= now} = {}
      BY DEF LoginInit
    <3>. QED
      BY <3>1, FS_EmptySet DEF FailedWithin
  <2>. QED
    BY <2>1, InFlightFinite, SpanBounds
<1>2. /\ LoginTypeOK /\ Remembered /\ Spent /\ GuessesBounded /\ [LoginNext]_loginVars
      => GuessesBounded'
  BY GuessesStep, RememberedStep
<1>. QED
  BY <1>1, <1>2, LoginTypeCorrect, LimiterRemembers, PTL DEF LoginSpec

\* No user is locked out without the failures for it, as long as a failure
\* counts for some time at all (--failure-window is not 0).
THEOREM LockedForCauseAlways ==
    ASSUME Window > 0 PROVE LoginSpec => []LockedForCause
<1>1. LoginInit => Deserved
  BY DEF LoginInit, Deserved
<1>2. LoginTypeOK /\ Remembered /\ Deserved /\ [LoginNext]_loginVars => Deserved'
  BY DeservedStep
<1>3. LoginTypeOK /\ Deserved => LockedForCause
  <2>. SUFFICES ASSUME LoginTypeOK, Deserved, NEW u \in Users, Limited(u)
                PROVE  \E t \in 0..now :
                         now < t + Lockout /\ FailedWithin(u, Window, t) >= MaxFailures
    BY DEF LockedForCause
  <2>1. locked_until[u] # 0 /\ locked_until[u] > now
    BY DEF Limited, LoginTypeOK
  <2>. QED
    BY <2>1 DEF Deserved
<1>. QED
  BY <1>1, <1>2, <1>3, LoginTypeCorrect, LimiterRemembers, PTL DEF LoginSpec

-----------------------------------------------------------------------------
\* A lockout ends no later than if it began now: what starts one anew does not
\* shorten it.
Ahead == \A u \in Users : locked_until[u] <= now + Lockout

\* What a step does to a lockout that lasts.
LEMMA LockoutStep ==
    ASSUME LoginTypeOK, Ahead, [LoginNext]_loginVars
    PROVE  /\ Ahead'
           /\ \A u \in Users :
                Limited(u) =>
                    \/ u \in known' /\ locked_until'[u] >= locked_until[u]
                    \/ \E c \in Conns :
                         name[c] = u /\ stage[c] = "passed" /\ stage'[c] = "closed"
<1>1. /\ now \in Nat /\ Lockout \in Nat
      /\ \A u \in Users : locked_until[u] \in Nat
      /\ \A u \in Users : Limited(u) => u \in known /\ locked_until[u] > now
  BY PamAssumption DEF LoginTypeOK, PamAssumption, Limited
<1>2. CASE UNCHANGED limiter /\ (now' = now \/ now' = now + 1)
  BY <1>1, <1>2 DEF limiter, Ahead
<1>3. CASE Reap
  <2>1. /\ known' = known \ Stale /\ now' = now
        /\ locked_until' = [u \in Users |-> IF u \in Stale THEN 0 ELSE locked_until[u]]
    BY <1>3 DEF Reap, Forget
  <2>2. \A u \in Users : Limited(u) => u \notin Stale
    BY <1>1 DEF Stale
  <2>. QED
    BY <1>1, <2>1, <2>2 DEF Ahead
<1>4. ASSUME NEW c \in Conns, Fail(c)
      PROVE  /\ Ahead'
             /\ \A u \in Users :
                  Limited(u) => u \in known' /\ locked_until'[u] >= locked_until[u]
  <2>1. /\ known \subseteq known' /\ now' = now
        /\ \A u \in Users :
             locked_until'[u] = locked_until[u] \/ locked_until'[u] = now + Lockout
    BY <1>4 DEF Fail, RecordFailure, LoginTypeOK
  <2>. QED
    BY <1>1, <2>1 DEF Ahead
<1>5. ASSUME NEW c \in Conns, Succeed(c)
      PROVE  /\ Ahead'
             /\ \A u \in Users :
                  Limited(u) =>
                    \/ u \in known' /\ locked_until'[u] >= locked_until[u]
                    \/ name[c] = u /\ stage[c] = "passed" /\ stage'[c] = "closed"
  <2>1. /\ known' = known \ {name[c]} /\ now' = now
        /\ locked_until' =
             [u \in Users |-> IF u \in {name[c]} THEN 0 ELSE locked_until[u]]
        /\ stage[c] = "passed" /\ stage'[c] = "closed"
    BY <1>5 DEF Succeed, Forget, Goes, LoginTypeOK
  <2>. QED
    BY <1>1, <2>1 DEF Ahead
<1>6. ASSUME NEW c \in Conns, Accept(c) \/ Ask(c) \/ Check(c) \/ Verify(c)
      PROVE  UNCHANGED limiter /\ now' = now
  BY <1>6 DEF Accept, Ask, Check, Verify
<1>7. Tick => UNCHANGED limiter /\ now' = now + 1
  BY DEF Tick
<1>8. UNCHANGED loginVars => UNCHANGED limiter /\ now' = now
  BY DEF loginVars, limiter
<1>9. CASE \E c \in Conns : Fail(c)
  BY <1>4, <1>9
<1>10. CASE \E c \in Conns : Succeed(c)
  BY <1>5, <1>10
<1>. QED
  BY <1>2, <1>3, <1>6, <1>7, <1>8, <1>9, <1>10 DEF LoginNext

\* The reaper, failures recorded late and the limiter's other methods leave a
\* lockout in place for its time; record_success alone ends it.
THEOREM LockoutHoldsAlways == LoginSpec => LockoutHolds
<1>1. LoginInit => Ahead
  BY PamAssumption DEF LoginInit, Ahead, PamAssumption
<1>. QED
  BY <1>1, LockoutStep, LoginTypeCorrect, PTL DEF LoginSpec, LockoutHolds
=============================================================================
