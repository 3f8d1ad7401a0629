--------------------------- MODULE RuleSync_proof ---------------------------
(***************************************************************************)
(* Proofs about RuleSync for any files, limits, nesting and capacity of    *)
(* the channel.                                                            *)
(*                                                                         *)
(* InSync is about moments when nothing is under way.  The invariant that  *)
(* carries it says where what the monitor loaded is before: with the       *)
(* worker, or in the last message of its kind on the channel, whole or     *)
(* torn (Caught), or in the hands of the only handler (Tracked).           *)
(***************************************************************************)
EXTENDS RuleSync, SequenceTheorems, TLAPS

\* What the worker has of a kind of rules, and what it does not apply.
Have(k) == IF k = "CONFIG_UPDATE" THEN wrkCfg ELSE wrkMap
Null(k) == IF k = "CONFIG_UPDATE" THEN EmptyCfg ELSE EmptyMap

\* c is what the worker will have of kind k once it has emptied the channel,
\* but for what is never applied.
Caught(k, c) ==
    \/ c \in Unsendable
    \/ /\ \A i \in 1..Len(push) : k \notin KindsIn(push[i])
       /\ Have(k) = c \/ c = Null(k) \/ k \in lost
    \/ \E i \in 1..Len(push) :
         /\ k \in KindsIn(push[i])
         /\ push[i].type = k => push[i].body = c
         /\ \A j \in 1..Len(push) : j > i => k \notin KindsIn(push[j])

CfgCaught == Caught("CONFIG_UPDATE", monCfg)
MapCaught == Caught("ENFORCE_REQ", monMap)

\* h is where the only handler is, and the configuration no longer its to send.
PastCfg(h) == h.at \in {"get_map", "send_map", "rest_map"}

Tracked ==
    reload # "overlapped" =>
        /\ Len(handlers) <= 1
        /\ handlers = <<>> => CfgCaught /\ (reload = "SIGHUP" \/ MapCaught)
        /\ handlers # <<>> =>
             /\ Head(handlers).sig = reload
             /\ Head(handlers).at = "send_cfg" => Head(handlers).body = monCfg
             /\ Head(handlers).at = "send_map" => Head(handlers).body = monMap
             /\ PastCfg(Head(handlers)) => CfgCaught /\ reload = "SIGUSR2"

-----------------------------------------------------------------------------
\* The running handler going on as another keeps the stack a stack.
LEMMA StackTop ==
    ASSUME NEW S, NEW q \in Seq(S), q # <<>>, NEW h \in S
    PROVE  /\ <<h>> \o Tail(q) \in Seq(S)
           /\ Head(<<h>> \o Tail(q)) = h
           /\ Len(<<h>> \o Tail(q)) = Len(q)
           /\ <<h>> \o Tail(q) # <<>>
OBVIOUS

\* A handler starting on top of the others.
LEMMA StackPush ==
    ASSUME NEW S, NEW q \in Seq(S), NEW h \in S
    PROVE  /\ <<h>> \o q \in Seq(S)
           /\ Head(<<h>> \o q) = h
           /\ Len(<<h>> \o q) = Len(q) + 1
           /\ <<h>> \o q # <<>>
OBVIOUS

\* The top handler of a type-correct stack is a handler.
LEMMA TopIsHandler ==
    ASSUME SyncTypeOK, handlers # <<>>
    PROVE  /\ Head(handlers) \in Handlers
           /\ Tail(handlers) \in Seq(Handlers)
           /\ Len(Tail(handlers)) = Len(handlers) - 1
           /\ Len(handlers) > 0
BY DEF SyncTypeOK

\* What a handler is, field by field.
LEMMA HandlerFields ==
    ASSUME NEW h \in Handlers
    PROVE  /\ h.sig \in Signals
           /\ h.at = "send_cfg" => h.body \in Cfgs
           /\ h.at = "send_map" => h.body \in Maps
           /\ KindOf(h) \in Kinds
BY DEF Handlers, KindOf, Kinds

\* What remains of a handler is a stack of at most one.
LEMMA AfterTypes ==
    ASSUME NEW h \in Handlers
    PROVE  /\ After(h) \in Seq(Handlers)
           /\ Len(After(h)) <= 1
           /\ After(h) # <<>> => /\ Head(After(h)).at = "get_map"
                                 /\ Head(After(h)).sig = "SIGUSR2"
                                 /\ h.sig = "SIGUSR2"
                                 /\ KindOf(h) = "CONFIG_UPDATE"
           /\ After(h) = <<>> => h.sig # "SIGUSR2" \/ KindOf(h) # "CONFIG_UPDATE"
<1>1. [sig |-> "SIGUSR2", at |-> "get_map"] \in Handlers
  BY DEF Handlers, Signals
<1>. QED
  BY <1>1 DEF After

\* A message carries the rules of its kind, and no others unless it is torn.
LEMMA MessageFields ==
    ASSUME NEW m \in Messages
    PROVE  /\ KindsIn(m) \in SUBSET Kinds
           /\ m.type = "CONFIG_UPDATE" => m.body \in Cfgs
           /\ m.type = "ENFORCE_REQ" => m.body \in Maps
           /\ m.type \in Kinds => KindsIn(m) = {m.type}
           /\ m.type = "SESSION_LIST_REQ" => KindsIn(m) = {}
           /\ m.type = "torn" => KindsIn(m) = m.kinds
BY DEF Messages, KindsIn, Kinds

\* What the message at the head of the channel is.
LEMMA HeadOfPush ==
    ASSUME SyncTypeOK, push # <<>>
    PROVE  /\ Head(push) \in Messages
           /\ Head(push) = push[1]
           /\ Len(push) \in Nat \ {0}
           /\ Tail(push) \in Seq(Messages)
           /\ Len(Tail(push)) = Len(push) - 1
           /\ \A i \in 1..Len(Tail(push)) : Tail(push)[i] = push[i + 1]
BY DEF SyncTypeOK

\* One message goes on the channel, behind the others, torn or whole; and the
\* stack is a stack.
LEMMA SendEffect ==
    ASSUME SyncTypeOK, NEW msg \in Messages, NEW next \in Seq(Handlers),
           NEW below \in Seq(Handlers), Send(msg, next, below)
    PROVE  /\ push' \in Seq(Messages)
           /\ handlers' \in Seq(Handlers)
<1>1. PICK cut \in SUBSET {i \in DOMAIN below : Sending(below[i])} :
         LET into == cut \cup {i \in DOMAIN below : CutShort(below[i])} IN
         /\ push' = Append(push,
                IF into = {} THEN msg
                ELSE Torn(KindsIn(msg) \cup {KindOf(below[i]) : i \in into}))
         /\ handlers' = next \o [i \in DOMAIN below |->
                IF i \in cut THEN Rest(below[i]) ELSE below[i]]
  BY DEF Send
<1>. DEFINE into == cut \cup {i \in DOMAIN below : CutShort(below[i])}
            torn == KindsIn(msg) \cup {KindOf(below[i]) : i \in into}
            after == [i \in DOMAIN below |->
                        IF i \in cut THEN Rest(below[i]) ELSE below[i]]
<1>2. DOMAIN below = 1..Len(below) /\ Len(below) \in Nat
  OBVIOUS
<1>3. \A i \in DOMAIN below : below[i] \in Handlers
  BY <1>2
<1>4. torn \in SUBSET Kinds
  <2>1. \A i \in into : KindOf(below[i]) \in Kinds
    BY <1>3, HandlerFields
  <2>. QED
    BY <2>1, MessageFields
<1>5. Torn(torn) \in Messages
  BY <1>4 DEF Torn, Messages
<1>6. push' \in Seq(Messages)
  <2>1. PICK m \in Messages : push' = Append(push, m)
    BY <1>1, <1>5
  <2>. QED
    BY <2>1, AppendProperties DEF SyncTypeOK
<1>7. \A h \in Handlers : Rest(h) \in Handlers
  BY DEF Rest, Handlers
<1>8. after \in [1..Len(below) -> Handlers]
  BY <1>2, <1>3, <1>7
<1>9. after \in Seq(Handlers)
  BY <1>2, <1>8, SeqDef
<1>10. handlers' = next \o after
  BY <1>1
<1>. QED
  BY <1>6, <1>9, <1>10, ConcatProperties

\* If it interrupts no other handler, the message is whole.
LEMMA SendAlone ==
    ASSUME SyncTypeOK, NEW msg \in Messages, NEW next \in Seq(Handlers),
           Send(msg, next, <<>>)
    PROVE  push' = Append(push, msg) /\ handlers' = next
<1>1. PICK cut \in SUBSET {i \in DOMAIN <<>> : Sending(<<>>[i])} :
         LET into == cut \cup {i \in DOMAIN <<>> : CutShort(<<>>[i])} IN
         /\ push' = Append(push,
                IF into = {} THEN msg
                ELSE Torn(KindsIn(msg) \cup {KindOf(<<>>[i]) : i \in into}))
         /\ handlers' = next \o [i \in DOMAIN <<>> |->
                IF i \in cut THEN Rest(<<>>[i]) ELSE <<>>[i]]
  BY DEF Send
<1>2. DOMAIN <<>> = {}
  OBVIOUS
<1>3. cut = {} /\ {i \in DOMAIN <<>> : CutShort(<<>>[i])} = {}
  BY <1>2
<1>4. [i \in DOMAIN <<>> |-> IF i \in cut THEN Rest(<<>>[i]) ELSE <<>>[i]] = <<>>
  BY <1>2
<1>. QED
  BY <1>1, <1>3, <1>4, ConcatEmptySeq

-----------------------------------------------------------------------------
\* The four ways a handler is done with a message.
LEMMA SendTypes ==
    ASSUME SyncTypeOK, SendCfg \/ SendMap \/ SendRest \/ SendFails
    PROVE  /\ handlers # <<>> /\ Head(handlers) \in Handlers
           /\ SendCfg => [type |-> "CONFIG_UPDATE", body |-> Head(handlers).body]
                           \in Messages
           /\ SendMap => [type |-> "ENFORCE_REQ", body |-> Head(handlers).body]
                           \in Messages
           /\ Torn({KindOf(Head(handlers))}) \in Messages
           /\ UNCHANGED <<monCfg, monMap, reload, wrkCfg, wrkMap, midway, lost>>
           /\ push' \in Seq(Messages) /\ handlers' \in Seq(Handlers)
<1>1. handlers # <<>>
  BY DEF SendCfg, SendMap, SendRest, SendFails, Running
<1>2. Head(handlers) \in Handlers /\ Tail(handlers) \in Seq(Handlers)
  BY <1>1, TopIsHandler
<1>3. KindOf(Head(handlers)) \in Kinds
  BY <1>2, HandlerFields
<1>4. After(Head(handlers)) \in Seq(Handlers)
  BY <1>2, AfterTypes
<1>5. SendCfg => [type |-> "CONFIG_UPDATE", body |-> Head(handlers).body] \in Messages
  BY <1>2, HandlerFields DEF SendCfg, Running, Messages
<1>6. SendMap => [type |-> "ENFORCE_REQ", body |-> Head(handlers).body] \in Messages
  BY <1>2, HandlerFields DEF SendMap, Running, Messages
<1>7. Torn({KindOf(Head(handlers))}) \in Messages
  BY <1>3 DEF Torn, Messages
<1>8. push' \in Seq(Messages) /\ handlers' \in Seq(Handlers)
  <2>1. CASE SendCfg
    BY <1>2, <1>4, <1>5, <2>1, SendEffect DEF SendCfg
  <2>2. CASE SendMap
    BY <1>2, <1>4, <1>6, <2>2, SendEffect DEF SendMap
  <2>3. CASE SendRest
    BY <1>2, <1>4, <1>7, <2>3, SendEffect DEF SendRest
  <2>4. CASE SendFails
    BY <1>2, <1>4, <2>4, ConcatProperties DEF SendFails, channel, SyncTypeOK
  <2>. QED
    BY <2>1, <2>2, <2>3, <2>4
<1>9. UNCHANGED <<monCfg, monMap, reload, wrkCfg, wrkMap, midway, lost>>
  BY DEF SendCfg, SendMap, SendRest, SendFails, workerRules, channel
<1>. QED
  BY <1>1, <1>2, <1>5, <1>6, <1>7, <1>8, <1>9

\* What a step of the listener takes from the channel, and what it changes.
LEMMA ListenerEffect ==
    ASSUME SyncTypeOK, ListenerStep
    PROVE  /\ push # <<>> /\ push' = Tail(push)
           /\ UNCHANGED <<monCfg, monMap, handlers, reload>>
           /\ midway' \in BOOLEAN /\ lost' \in SUBSET Kinds
           /\ wrkCfg' \in Cfgs /\ wrkMap' \in Maps
<1>1. CASE ApplyCfg
  <2>1. push # <<>> /\ Head(push).body \in Cfgs
    BY <1>1, HeadOfPush, MessageFields DEF ApplyCfg, Arrived
  <2>. QED
    BY <1>1, <2>1 DEF ApplyCfg, SyncTypeOK, monitorVars
<1>2. CASE ApplyMap
  <2>1. push # <<>> /\ Head(push).body \in Maps
    BY <1>2, HeadOfPush, MessageFields DEF ApplyMap, Arrived
  <2>. QED
    BY <1>2, <2>1 DEF ApplyMap, SyncTypeOK, monitorVars
<1>3. CASE ReadAsk
  BY <1>3 DEF ReadAsk, Arrived, SyncTypeOK, monitorVars, workerRules
<1>4. CASE Misread
  <2>1. push # <<>> /\ KindsIn(Head(push)) \in SUBSET Kinds
    BY <1>4, HeadOfPush, MessageFields DEF Misread
  <2>. QED
    BY <1>4, <2>1 DEF Misread, SyncTypeOK, monitorVars, workerRules
<1>. QED
  BY <1>1, <1>2, <1>3, <1>4 DEF ListenerStep

\* A step of RuleSync keeps every variable's type.
LEMMA SyncTypeStep ==
    SyncTypeOK /\ [SyncNext]_syncVars => SyncTypeOK'
<1>. SUFFICES ASSUME SyncTypeOK, [SyncNext]_syncVars PROVE SyncTypeOK'
  OBVIOUS
<1>1. ASSUME NEW sig \in Signals, SignalArrives(sig) PROVE SyncTypeOK'
  <2>1. [sig |-> sig, at |-> "map"] \in Handlers
    BY DEF Handlers
  <2>2. handlers' \in Seq(Handlers)
    BY <1>1, <2>1, StackPush DEF SignalArrives, SyncTypeOK
  <2>. QED
    BY <1>1, <2>2 DEF SignalArrives, SyncTypeOK, workerRules, channel
<1>2. CASE ReloadMap
  <2>1. [sig |-> Head(handlers).sig, at |-> "cfg"] \in Handlers
    BY <1>2, TopIsHandler, HandlerFields DEF ReloadMap, Running, Handlers
  <2>2. handlers' \in Seq(Handlers)
    BY <1>2, <2>1, StackTop DEF ReloadMap, Running, Becomes, SyncTypeOK
  <2>. QED
    BY <1>2, <2>2 DEF ReloadMap, SyncTypeOK, workerRules, channel
<1>3. CASE ReloadCfg
  <2>1. [sig |-> Head(handlers).sig, at |-> "send_cfg", body |-> monCfg'] \in Handlers
    BY <1>3, TopIsHandler, HandlerFields DEF ReloadCfg, Running, Handlers
  <2>2. handlers' \in Seq(Handlers)
    BY <1>3, <2>1, StackTop DEF ReloadCfg, Running, Becomes, SyncTypeOK
  <2>. QED
    BY <1>3, <2>2 DEF ReloadCfg, SyncTypeOK, workerRules, channel
<1>4. CASE GetMap
  <2>1. [sig |-> "SIGUSR2", at |-> "send_map", body |-> monMap] \in Handlers
    BY DEF Handlers, Signals, SyncTypeOK
  <2>2. handlers' \in Seq(Handlers)
    BY <1>4, <2>1, StackTop DEF GetMap, Running, Becomes, SyncTypeOK
  <2>. QED
    BY <1>4, <2>2 DEF GetMap, SyncTypeOK, workerRules, channel
<1>5. CASE SendCfg \/ SendMap \/ SendRest \/ SendFails
  BY <1>5, SendTypes DEF SyncTypeOK
<1>6. CASE AskForSessions
  <2>1. [type |-> "SESSION_LIST_REQ"] \in Messages /\ <<>> \in Seq(Handlers)
    BY DEF Messages
  <2>2. push' \in Seq(Messages) /\ handlers' \in Seq(Handlers)
    BY <1>6, <2>1, SendEffect DEF AskForSessions, SyncTypeOK
  <2>. QED
    BY <1>6, <2>2 DEF AskForSessions, SyncTypeOK, workerRules
<1>7. CASE ListenerStep
  <2>1. push' \in Seq(Messages)
    BY <1>7, ListenerEffect, HeadOfPush
  <2>. QED
    BY <1>7, <2>1, ListenerEffect DEF SyncTypeOK
<1>8. CASE UNCHANGED syncVars
  BY <1>8 DEF SyncTypeOK, syncVars, monitorVars, workerRules, channel
<1>. QED
  BY <1>1, <1>2, <1>3, <1>4, <1>5, <1>6, <1>7, <1>8 DEF SyncNext, MonitorStep

\* Every variable keeps its type.
THEOREM SyncTypeCorrect == SyncSpec => []SyncTypeOK
<1>1. SyncInit => SyncTypeOK
  <2>1. <<>> \in Seq(Messages) /\ <<>> \in Seq(Handlers)
    OBVIOUS
  <2>. QED
    BY <2>1 DEF SyncInit, SyncTypeOK
<1>2. SyncTypeOK /\ [SyncNext]_syncVars => SyncTypeOK'
  BY SyncTypeStep
<1>. QED
  BY <1>1, <1>2, PTL DEF SyncSpec

-----------------------------------------------------------------------------
\* A message that goes on the channel is caught, as the last of its kind; one
\* of another kind changes nothing.
LEMMA AppendCaught ==
    ASSUME SyncTypeOK, NEW m \in Messages, push' = Append(push, m),
           UNCHANGED <<wrkCfg, wrkMap, lost>>,
           NEW k, NEW c,
           IF k \in KindsIn(m) THEN m.type = k => m.body = c ELSE Caught(k, c)
    PROVE  Caught(k, c)'
<1>1. /\ Len(push) \in Nat /\ Len(push') = Len(push) + 1
      /\ push'[Len(push) + 1] = m
      /\ \A i \in 1..Len(push) : push'[i] = push[i]
  BY DEF SyncTypeOK
<1>2. Have(k)' = Have(k) /\ lost' = lost
  BY DEF Have
<1>3. CASE k \in KindsIn(m)
  <2>1. /\ Len(push) + 1 \in 1..Len(push')
        /\ k \in KindsIn(push'[Len(push) + 1])
        /\ push'[Len(push) + 1].type = k => push'[Len(push) + 1].body = c
        /\ \A j \in 1..Len(push') : ~(j > Len(push) + 1)
    BY <1>1, <1>3
  <2>. QED
    BY <2>1 DEF Caught, KindsIn
<1>4. CASE k \notin KindsIn(m)
  <2>1. Caught(k, c)
    BY <1>4
  <2>2. CASE c \in Unsendable
    BY <2>2 DEF Caught
  <2>3. CASE /\ \A i \in 1..Len(push) : k \notin KindsIn(push[i])
             /\ Have(k) = c \/ c = Null(k) \/ k \in lost
    <3>1. \A i \in 1..Len(push') : k \notin KindsIn(push'[i])
      BY <1>1, <1>4, <2>3
    <3>. QED
      BY <1>2, <2>3, <3>1 DEF Caught, KindsIn, Have, Null
  <2>4. ASSUME NEW i \in 1..Len(push), k \in KindsIn(push[i]),
               push[i].type = k => push[i].body = c,
               \A j \in 1..Len(push) : j > i => k \notin KindsIn(push[j])
        PROVE  Caught(k, c)'
    <3>1. /\ i \in 1..Len(push') /\ k \in KindsIn(push'[i])
          /\ push'[i].type = k => push'[i].body = c
          /\ \A j \in 1..Len(push') : j > i => k \notin KindsIn(push'[j])
      BY <1>1, <1>4, <2>4
    <3>. QED
      BY <3>1 DEF Caught, KindsIn
  <2>. QED
    BY <2>1, <2>2, <2>3, <2>4 DEF Caught
<1>. QED
  BY <1>3, <1>4

\* A message that leaves the channel is applied, or lost.
LEMMA TailCaught ==
    ASSUME SyncTypeOK, push # <<>>, push' = Tail(push),
           NEW k, NEW c, Caught(k, c),
           IF k \in KindsIn(Head(push))
           THEN \/ k \in lost'
                \/ /\ Head(push).type = k
                   /\ Have(k)' = Head(push).body \/ Head(push).body = Null(k)
           ELSE Have(k)' = Have(k) /\ (k \in lost => k \in lost')
    PROVE  Caught(k, c)'
<1>1. /\ Head(push) = push[1] /\ Len(push) \in Nat \ {0}
      /\ Len(push') = Len(push) - 1
      /\ \A i \in 1..Len(push') : push'[i] = push[i + 1]
  BY HeadOfPush
<1>2. CASE c \in Unsendable
  BY <1>2 DEF Caught
<1>3. CASE /\ \A i \in 1..Len(push) : k \notin KindsIn(push[i])
           /\ Have(k) = c \/ c = Null(k) \/ k \in lost
  <2>1. \A i \in 1..Len(push') : k \notin KindsIn(push'[i])
    BY <1>1, <1>3
  <2>2. k \notin KindsIn(Head(push))
    BY <1>1, <1>3
  <2>3. Have(k)' = c \/ c = Null(k) \/ k \in lost'
    BY <1>3, <2>2
  <2>. QED
    BY <2>1, <2>3 DEF Caught, KindsIn, Have, Null
<1>4. ASSUME NEW i \in 1..Len(push), k \in KindsIn(push[i]),
             push[i].type = k => push[i].body = c,
             \A j \in 1..Len(push) : j > i => k \notin KindsIn(push[j])
      PROVE  Caught(k, c)'
  <2>1. CASE i = 1
    <3>1. \A j \in 1..Len(push') : k \notin KindsIn(push'[j])
      BY <1>1, <1>4, <2>1
    <3>2. Have(k)' = c \/ c = Null(k) \/ k \in lost'
      BY <1>1, <1>4, <2>1
    <3>. QED
      BY <3>1, <3>2 DEF Caught, KindsIn, Have, Null
  <2>2. CASE i # 1
    <3>1. /\ i - 1 \in 1..Len(push') /\ k \in KindsIn(push'[i - 1])
          /\ push'[i - 1].type = k => push'[i - 1].body = c
          /\ \A j \in 1..Len(push') : j > i - 1 => k \notin KindsIn(push'[j])
      BY <1>1, <1>4, <2>2
    <3>. QED
      BY <3>1 DEF Caught, KindsIn
  <2>. QED
    BY <2>1, <2>2
<1>. QED
  BY <1>2, <1>3, <1>4 DEF Caught

\* The listener leaves what is caught caught.
LEMMA ListenerCaught ==
    ASSUME SyncTypeOK, ListenerStep, NEW k \in Kinds, NEW c, Caught(k, c)
    PROVE  Caught(k, c)'
<1>1. push # <<>> /\ push' = Tail(push) /\ Head(push) \in Messages
  BY ListenerEffect, HeadOfPush
<1>2. IF k \in KindsIn(Head(push))
      THEN \/ k \in lost'
           \/ /\ Head(push).type = k
              /\ Have(k)' = Head(push).body \/ Head(push).body = Null(k)
      ELSE Have(k)' = Have(k) /\ (k \in lost => k \in lost')
  <2>1. CASE ApplyCfg
    <3>1. Head(push).type = "CONFIG_UPDATE" /\ KindsIn(Head(push)) = {"CONFIG_UPDATE"}
      BY <1>1, <2>1, MessageFields DEF ApplyCfg, Arrived, Kinds
    <3>2. CASE k = "CONFIG_UPDATE"
      BY <2>1, <3>1, <3>2 DEF ApplyCfg, Have, Null
    <3>3. CASE k = "ENFORCE_REQ"
      BY <2>1, <3>1, <3>3 DEF ApplyCfg, Have
    <3>. QED
      BY <3>2, <3>3 DEF Kinds
  <2>2. CASE ApplyMap
    <3>1. Head(push).type = "ENFORCE_REQ" /\ KindsIn(Head(push)) = {"ENFORCE_REQ"}
      BY <1>1, <2>2, MessageFields DEF ApplyMap, Arrived, Kinds
    <3>2. CASE k = "CONFIG_UPDATE"
      BY <2>2, <3>1, <3>2 DEF ApplyMap, Have
    <3>3. CASE k = "ENFORCE_REQ"
      BY <2>2, <3>1, <3>3 DEF ApplyMap, Have, Null
    <3>. QED
      BY <3>2, <3>3 DEF Kinds
  <2>3. CASE ReadAsk
    <3>1. KindsIn(Head(push)) = {}
      BY <1>1, <2>3, MessageFields DEF ReadAsk, Arrived
    <3>. QED
      BY <2>3, <3>1 DEF ReadAsk, workerRules, Have
  <2>4. CASE Misread
    BY <2>4 DEF Misread, workerRules, Have
  <2>. QED
    BY <2>1, <2>2, <2>3, <2>4 DEF ListenerStep
<1>. QED
  BY <1>1, <1>2, TailCaught

-----------------------------------------------------------------------------
\* At the start the worker has what the monitor has.
LEMMA TrackedInit == SyncInit => Tracked
<1>. SUFFICES ASSUME SyncInit PROVE Tracked
  OBVIOUS
<1>1. CfgCaught /\ MapCaught
  BY DEF SyncInit, CfgCaught, MapCaught, Caught, Have
<1>. QED
  BY <1>1 DEF SyncInit, Tracked

\* A handler that is done with a message leaves it caught, or goes on to get
\* the map.
LEMMA DoneTracked ==
    ASSUME SyncTypeOK, Tracked, reload # "overlapped", reload' = reload,
           handlers # <<>>, handlers' = After(Head(handlers)),
           CfgCaught', KindOf(Head(handlers)) = "ENFORCE_REQ" => MapCaught'
    PROVE  Tracked'
<1>. DEFINE h == Head(handlers)
<1>1. h \in Handlers /\ h.sig = reload
  BY TopIsHandler DEF Tracked
<1>2. h.sig \in Signals /\ KindOf(h) \in Kinds
  BY <1>1, HandlerFields
<1>3. /\ Len(After(h)) <= 1
      /\ After(h) # <<>> => /\ Head(After(h)).at = "get_map"
                            /\ Head(After(h)).sig = "SIGUSR2"
                            /\ h.sig = "SIGUSR2"
      /\ After(h) = <<>> => h.sig # "SIGUSR2" \/ KindOf(h) # "CONFIG_UPDATE"
  BY <1>1, AfterTypes
<1>4. After(h) = <<>> => reload = "SIGHUP" \/ MapCaught'
  BY <1>1, <1>2, <1>3 DEF Signals, Kinds
<1>. QED
  BY <1>1, <1>3, <1>4 DEF Tracked

\* The message a handler sends, whole or what is left of it, is caught.
LEMMA SendTracked ==
    ASSUME SyncTypeOK, Tracked, reload # "overlapped",
           SendCfg \/ SendMap \/ SendRest
    PROVE  Tracked'
<1>. DEFINE h == Head(handlers)
<1>1. /\ handlers # <<>> /\ h \in Handlers
      /\ SendCfg => [type |-> "CONFIG_UPDATE", body |-> h.body] \in Messages
      /\ SendMap => [type |-> "ENFORCE_REQ", body |-> h.body] \in Messages
      /\ Torn({KindOf(h)}) \in Messages
      /\ UNCHANGED <<monCfg, monMap, reload, wrkCfg, wrkMap, midway, lost>>
  BY SendTypes
<1>2. Tail(handlers) = <<>>
  BY <1>1 DEF Tracked, SyncTypeOK
<1>3. After(h) \in Seq(Handlers)
  BY <1>1, AfterTypes
<1>4. PICK m \in Messages :
        /\ push' = Append(push, m) /\ handlers' = After(h)
        /\ m.type = "CONFIG_UPDATE" => m.body = monCfg
        /\ m.type = "ENFORCE_REQ" => m.body = monMap
        /\ KindsIn(m) = {KindOf(h)}
  <2>1. CASE SendCfg
    <3>1. push' = Append(push, [type |-> "CONFIG_UPDATE", body |-> h.body])
          /\ handlers' = After(h)
      BY <1>1, <1>2, <1>3, <2>1, SendAlone DEF SendCfg
    <3>2. h.at = "send_cfg" /\ h.body = monCfg
      BY <1>1, <2>1 DEF SendCfg, Running, Tracked
    <3>3. KindsIn([type |-> "CONFIG_UPDATE", body |-> h.body]) = {KindOf(h)}
      BY <3>2 DEF KindsIn, Kinds, KindOf
    <3>. QED
      BY <1>1, <2>1, <3>1, <3>2, <3>3
  <2>2. CASE SendMap
    <3>1. push' = Append(push, [type |-> "ENFORCE_REQ", body |-> h.body])
          /\ handlers' = After(h)
      BY <1>1, <1>2, <1>3, <2>2, SendAlone DEF SendMap
    <3>2. h.at = "send_map" /\ h.body = monMap
      BY <1>1, <2>2 DEF SendMap, Running, Tracked
    <3>3. KindsIn([type |-> "ENFORCE_REQ", body |-> h.body]) = {KindOf(h)}
      BY <3>2 DEF KindsIn, Kinds, KindOf
    <3>. QED
      BY <1>1, <2>2, <3>1, <3>2, <3>3
  <2>3. CASE SendRest
    <3>1. push' = Append(push, Torn({KindOf(h)})) /\ handlers' = After(h)
      BY <1>1, <1>2, <1>3, <2>3, SendAlone DEF SendRest
    <3>2. KindsIn(Torn({KindOf(h)})) = {KindOf(h)} /\ Torn({KindOf(h)}).type = "torn"
      BY DEF KindsIn, Torn
    <3>. QED
      BY <1>1, <3>1, <3>2
  <2>. QED
    BY <2>1, <2>2, <2>3
<1>5. h.at # "send_cfg" /\ h.at # "rest_cfg" => CfgCaught
  BY <1>1 DEF SendCfg, SendMap, SendRest, Running, CutShort, PastCfg, Tracked
<1>6. KindOf(h) # "CONFIG_UPDATE" => CfgCaught
  BY <1>5 DEF KindOf
<1>7. Caught("CONFIG_UPDATE", monCfg)'
  <2>1. IF "CONFIG_UPDATE" \in KindsIn(m)
        THEN m.type = "CONFIG_UPDATE" => m.body = monCfg
        ELSE Caught("CONFIG_UPDATE", monCfg)
    BY <1>4, <1>6 DEF CfgCaught
  <2>2. \A c : c = monCfg => Caught("CONFIG_UPDATE", c)'
    BY <1>1, <1>4, <2>1, AppendCaught
  <2>. QED
    BY <1>1, <2>2 DEF Caught
<1>8. KindOf(h) = "ENFORCE_REQ" => Caught("ENFORCE_REQ", monMap)'
  <2>1. ASSUME KindOf(h) = "ENFORCE_REQ"
        PROVE  \A c : c = monMap => Caught("ENFORCE_REQ", c)'
    BY <1>1, <1>4, <2>1, AppendCaught
  <2>. QED
    BY <1>1, <2>1 DEF Caught
<1>. QED
  BY <1>1, <1>4, <1>7, <1>8, DoneTracked DEF CfgCaught, MapCaught

\* What the question of SIGUSR1 does to the only handler.
LEMMA AskEffect ==
    ASSUME SyncTypeOK, AskForSessions, Len(handlers) <= 1, handlers # <<>>
    PROVE  \E m \in Messages :
             /\ push' = Append(push, m) /\ m.type \notin Kinds
             /\ Len(handlers') = 1 /\ handlers' # <<>>
             /\ \/ Head(handlers') = Head(handlers)
                \/ /\ Sending(Head(handlers))
                   /\ Head(handlers') = Rest(Head(handlers))
<1>1. PICK cut \in SUBSET {i \in DOMAIN handlers : Sending(handlers[i])} :
         LET into == cut \cup {i \in DOMAIN handlers : CutShort(handlers[i])} IN
         /\ push' = Append(push,
                IF into = {} THEN [type |-> "SESSION_LIST_REQ"]
                ELSE Torn(KindsIn([type |-> "SESSION_LIST_REQ"])
                            \cup {KindOf(handlers[i]) : i \in into}))
         /\ handlers' = <<>> \o [i \in DOMAIN handlers |->
                IF i \in cut THEN Rest(handlers[i]) ELSE handlers[i]]
  BY DEF AskForSessions, Send
<1>. DEFINE into == cut \cup {i \in DOMAIN handlers : CutShort(handlers[i])}
            torn == KindsIn([type |-> "SESSION_LIST_REQ"])
                      \cup {KindOf(handlers[i]) : i \in into}
            after == [i \in DOMAIN handlers |->
                        IF i \in cut THEN Rest(handlers[i]) ELSE handlers[i]]
<1>2. /\ DOMAIN handlers = {1} /\ Len(handlers) = 1
      /\ handlers[1] = Head(handlers) /\ handlers[1] \in Handlers
  <2>1. handlers \in Seq(Handlers) /\ Len(handlers) \in Nat /\ Len(handlers) > 0
    BY TopIsHandler DEF SyncTypeOK
  <2>2. Len(handlers) = 1
    <3>. DEFINE n == Len(handlers)
    <3>1. n \in Nat /\ n > 0 /\ n <= 1
      BY <2>1
    <3>. HIDE DEF n
    <3>2. n = 1
      BY <3>1
    <3>. QED
      BY <3>2 DEF n
  <2>3. 1..1 = {1}
    OBVIOUS
  <2>. QED
    BY <2>1, <2>2, <2>3, LenProperties
<1>3. torn \in SUBSET Kinds
  <2>1. \A i \in into : KindOf(handlers[i]) \in Kinds
    BY <1>2, HandlerFields
  <2>. QED
    BY <2>1 DEF KindsIn, Kinds
<1>4. /\ Torn(torn) \in Messages /\ Torn(torn).type \notin Kinds
      /\ [type |-> "SESSION_LIST_REQ"] \in Messages
      /\ [type |-> "SESSION_LIST_REQ"].type \notin Kinds
  BY <1>3 DEF Torn, Messages, Kinds
<1>5. \A g \in Handlers : Rest(g) \in Handlers
  BY DEF Rest, Handlers
<1>6. after \in [1..1 -> Handlers] /\ after[1] \in {handlers[1], Rest(handlers[1])}
      /\ (after[1] # handlers[1] => Sending(handlers[1]))
  BY <1>2, <1>5
<1>7. after \in Seq(Handlers)
  BY <1>6, SeqDef
<1>8. handlers' = after
  BY <1>1, <1>7, ConcatEmptySeq
<1>9. Len(after) = 1 /\ after # <<>> /\ Head(after) = after[1]
  BY <1>6, <1>7
<1>10. PICK m \in Messages : push' = Append(push, m) /\ m.type \notin Kinds
  BY <1>1, <1>4
<1>. HIDE DEF after
<1>. QED
  BY <1>2, <1>6, <1>8, <1>9, <1>10

\* It takes nothing out of sight: what it is written into is torn.
LEMMA AskTracked ==
    ASSUME SyncTypeOK, Tracked, reload # "overlapped", AskForSessions
    PROVE  Tracked'
<1>1. UNCHANGED <<monCfg, monMap, reload, wrkCfg, wrkMap, lost>>
  BY DEF AskForSessions, workerRules
<1>2. ASSUME NEW m \in Messages, push' = Append(push, m), m.type \notin Kinds
      PROVE  /\ CfgCaught => CfgCaught'
             /\ MapCaught => MapCaught'
  <2>1. \A k \in Kinds : \A c : Caught(k, c) => Caught(k, c)'
    BY <1>1, <1>2, AppendCaught
  <2>2. /\ Caught("CONFIG_UPDATE", monCfg) => Caught("CONFIG_UPDATE", monCfg)'
        /\ Caught("ENFORCE_REQ", monMap) => Caught("ENFORCE_REQ", monMap)'
    BY <1>1, <2>1 DEF Kinds, Caught
  <2>. QED
    BY <2>2 DEF CfgCaught, MapCaught
<1>3. CASE handlers = <<>>
  <2>1. [type |-> "SESSION_LIST_REQ"] \in Messages
        /\ [type |-> "SESSION_LIST_REQ"].type \notin Kinds
        /\ <<>> \in Seq(Handlers)
    BY DEF Messages, Kinds
  <2>2. push' = Append(push, [type |-> "SESSION_LIST_REQ"]) /\ handlers' = <<>>
    BY <1>3, <2>1, SendAlone DEF AskForSessions
  <2>. QED
    BY <1>1, <1>2, <1>3, <2>1, <2>2 DEF Tracked
<1>4. CASE handlers # <<>>
  <2>. DEFINE h == Head(handlers)
              g == Head(handlers')
  <2>1. PICK m \in Messages :
             /\ push' = Append(push, m) /\ m.type \notin Kinds
             /\ Len(handlers') = 1 /\ handlers' # <<>>
             /\ g = h \/ (Sending(h) /\ g = Rest(h))
    BY <1>4, AskEffect DEF Tracked
  <2>2. /\ g.sig = h.sig
        /\ g.at \in {"send_cfg", "send_map"} => g = h
        /\ PastCfg(g) => PastCfg(h)
    BY <2>1 DEF Rest, Sending, PastCfg
  <2>3. CfgCaught => CfgCaught'
    BY <1>2, <2>1
  <2>. QED
    BY <1>1, <1>4, <2>1, <2>2, <2>3 DEF Tracked
<1>. QED
  BY <1>3, <1>4

\* A step of RuleSync does not lose track of the rules.
LEMMA TrackedStep ==
    SyncTypeOK /\ Tracked /\ [SyncNext]_syncVars => Tracked'
<1>. SUFFICES ASSUME SyncTypeOK, Tracked, [SyncNext]_syncVars,
                     reload' # "overlapped"
              PROVE  Tracked'
  BY DEF Tracked
<1>1. ASSUME NEW sig \in Signals, SignalArrives(sig) PROVE Tracked'
  <2>1. handlers = <<>> /\ reload' = sig
    BY <1>1 DEF SignalArrives
  <2>2. [sig |-> sig, at |-> "map"] \in Handlers
    BY DEF Handlers
  <2>3. /\ Len(handlers') = 1
        /\ handlers' # <<>>
        /\ Head(handlers') = [sig |-> sig, at |-> "map"]
    BY <1>1, <2>1, <2>2, StackPush DEF SignalArrives, SyncTypeOK
  <2>. QED
    BY <2>1, <2>3 DEF Tracked, PastCfg
<1>2. CASE ReloadMap
  <2>1. [sig |-> Head(handlers).sig, at |-> "cfg"] \in Handlers
    BY <1>2, TopIsHandler, HandlerFields DEF ReloadMap, Running, Handlers
  <2>2. /\ Len(handlers') = Len(handlers)
        /\ handlers' # <<>>
        /\ Head(handlers') = [sig |-> Head(handlers).sig, at |-> "cfg"]
    BY <1>2, <2>1, StackTop DEF ReloadMap, Running, Becomes, SyncTypeOK
  <2>. QED
    BY <1>2, <2>2 DEF ReloadMap, Tracked, PastCfg, Running
<1>3. CASE ReloadCfg
  <2>1. [sig |-> Head(handlers).sig, at |-> "send_cfg", body |-> monCfg'] \in Handlers
    BY <1>3, TopIsHandler, HandlerFields DEF ReloadCfg, Running, Handlers
  <2>2. /\ Len(handlers') = Len(handlers)
        /\ handlers' # <<>>
        /\ Head(handlers') = [sig |-> Head(handlers).sig, at |-> "send_cfg",
                              body |-> monCfg']
    BY <1>3, <2>1, StackTop DEF ReloadCfg, Running, Becomes, SyncTypeOK
  <2>. QED
    BY <1>3, <2>2 DEF ReloadCfg, Tracked, PastCfg, Running
<1>4. CASE GetMap
  <2>1. [sig |-> "SIGUSR2", at |-> "send_map", body |-> monMap] \in Handlers
    BY DEF Handlers, Signals, SyncTypeOK
  <2>2. /\ Len(handlers') = Len(handlers)
        /\ handlers' # <<>>
        /\ Head(handlers') = [sig |-> "SIGUSR2", at |-> "send_map", body |-> monMap]
    BY <1>4, <2>1, StackTop DEF GetMap, Running, Becomes, SyncTypeOK
  <2>3. /\ CfgCaught /\ reload = "SIGUSR2" /\ Len(handlers) <= 1
        /\ UNCHANGED <<monCfg, monMap, reload, wrkCfg, wrkMap, push, lost>>
    BY <1>4 DEF GetMap, Running, Tracked, PastCfg, workerRules, channel
  <2>4. CfgCaught'
    BY <2>3 DEF CfgCaught, Caught, Have
  <2>. QED
    BY <2>2, <2>3, <2>4 DEF Tracked
<1>5. CASE SendCfg \/ SendMap \/ SendRest
  <2>1. reload' = reload
    BY <1>5 DEF SendCfg, SendMap, SendRest
  <2>. QED
    BY <1>5, <2>1, SendTracked
<1>6. CASE SendFails
  <2>. DEFINE h == Head(handlers)
  <2>1. /\ handlers # <<>> /\ h.body \in Unsendable
        /\ h.at = "send_cfg" \/ h.at = "send_map"
        /\ handlers' = After(h) \o Tail(handlers)
        /\ UNCHANGED <<monCfg, monMap, reload, wrkCfg, wrkMap, push, lost>>
    BY <1>6 DEF SendFails, Running, workerRules, channel
  <2>2. Tail(handlers) = <<>> /\ After(h) \in Seq(Handlers)
    BY <2>1, TopIsHandler, AfterTypes DEF Tracked, SyncTypeOK
  <2>3. handlers' = After(h)
    BY <2>1, <2>2, ConcatEmptySeq
  <2>4. CfgCaught
    BY <2>1 DEF Tracked, PastCfg, CfgCaught, Caught
  <2>5. KindOf(h) = "ENFORCE_REQ" => MapCaught
    BY <2>1 DEF KindOf, Tracked, MapCaught, Caught
  <2>6. CfgCaught' /\ (KindOf(h) = "ENFORCE_REQ" => MapCaught')
    BY <2>1, <2>4, <2>5 DEF CfgCaught, MapCaught, Caught, Have
  <2>. QED
    BY <2>1, <2>3, <2>6, DoneTracked
<1>7. CASE AskForSessions
  <2>1. reload' = reload
    BY <1>7 DEF AskForSessions
  <2>. QED
    BY <1>7, <2>1, AskTracked
<1>8. CASE ListenerStep
  <2>1. UNCHANGED <<monCfg, monMap, handlers, reload>>
    BY <1>8, ListenerEffect
  <2>2. \A k \in Kinds : \A c : Caught(k, c) => Caught(k, c)'
    BY <1>8, ListenerCaught
  <2>3. /\ Caught("CONFIG_UPDATE", monCfg) => Caught("CONFIG_UPDATE", monCfg)'
        /\ Caught("ENFORCE_REQ", monMap) => Caught("ENFORCE_REQ", monMap)'
    BY <2>1, <2>2 DEF Kinds, Caught
  <2>4. (CfgCaught => CfgCaught') /\ (MapCaught => MapCaught')
    BY <2>3 DEF CfgCaught, MapCaught
  <2>. QED
    BY <2>1, <2>4 DEF Tracked
<1>9. CASE UNCHANGED syncVars
  BY <1>9 DEF Tracked, CfgCaught, MapCaught, Caught, Have, syncVars, monitorVars,
              workerRules, channel
<1>. QED
  BY <1>1, <1>2, <1>3, <1>4, <1>5, <1>6, <1>7, <1>8, <1>9 DEF SyncNext, MonitorStep

\* What is tracked has arrived when nothing is under way.
LEMMA TrackedArrives == SyncTypeOK /\ Tracked => InSync
BY DEF SyncTypeOK, Tracked, InSync, Settled, CfgArrived, MapArrived, CfgCaught,
       MapCaught, Caught, Have, Null

\* Unless reloads overlapped, what the monitor loaded is with the worker, on
\* its way, never to be applied, or with the handler that is about to send it.
THEOREM TrackedAlways == SyncSpec => []Tracked
BY TrackedInit, TrackedStep, SyncTypeCorrect, PTL DEF SyncSpec

\* When nothing is under way the worker has the monitor's rules, but for what
\* InSync excepts: an overlapped reload, rules that are empty or cannot be
\* sent, a message that is too long, cut by another or behind such a one, and
\* the user map after SIGHUP.
THEOREM InSyncAlways == SyncSpec => []InSync
BY TrackedArrives, SyncTypeCorrect, TrackedAlways, PTL
=============================================================================
