----------------------------- MODULE Rpc_proof -----------------------------
(***************************************************************************)
(* Proofs about Rpc for any sessions, any capacity of the channel and any  *)
(* modulus of the sequence numbers that is larger than twice the capacity. *)
(*                                                                         *)
(* InOrder: what is under way are the last calls made, in order, from the  *)
(* answers over the monitor to the requests.  There are too few of them    *)
(* for two to have the same sequence number, whence OwnAnswer.  InStep     *)
(* needs that the lock is held (Held) and that all frames are whole (Clean). *)
(***************************************************************************)
EXTENDS Rpc, TLAPS

\* The frames of q belong to the calls up to last, one each.
Numbered(q, last) == \A i \in 1..Len(q) : q[i].call = last - Len(q) + i

InOrder ==
    /\ Numbered(requests, calls)
    /\ Numbered(serving, calls - Len(requests))
    /\ Numbered(answers, calls - Len(requests) - Len(serving))

Held ==
    \A s \in Sessions :
        caller[s] \in {"holding", "receiving", "swallowing"} <=> lock = s

Receiving == \E s \in Sessions : caller[s] = "receiving"

UnderWay == Len(requests) + Len(serving) + Len(answers)

AllOfKind(q, k) == \A i \in 1..Len(q) : q[i].kind = k

Clean ==
    ~oversized =>
        /\ ~poisoned /\ ~lost
        /\ UnderWay = IF Receiving THEN 1 ELSE 0
        /\ \A i \in 1..Len(answers) : answers[i].left = "all" /\ ~answers[i].big
        /\ \A s \in Sessions :
             /\ caller[s] # "swallowing"
             /\ caller[s] = "receiving" =>
                  /\ AllOfKind(requests, kind[s])
                  /\ AllOfKind(serving, kind[s])
                  /\ AllOfKind(answers, kind[s])

-----------------------------------------------------------------------------
\* Numbers that are close and have the same remainder are the same.
LEMMA SameRemainder ==
    ASSUME NEW m \in Nat, NEW x \in Nat, NEW y \in Nat,
           x <= y, y - x < m, x % m = y % m
    PROVE  x = y
<1>. DEFINE p == x \div m
            q == y \div m
<1>1. /\ x = m * p + (x % m)
      /\ y = m * q + (y % m)
      /\ p \in Int /\ q \in Int
  OBVIOUS
<1>. HIDE DEF p, q
<1>2. y - x = m * (q - p)
  BY <1>1
<1>3. q - p = 0
  <2>1. ASSUME q - p >= 1 PROVE FALSE
    <3>1. m * (q - p) >= m
      BY <1>1, <2>1
    <3>. QED
      BY <1>2, <3>1
  <2>2. ASSUME q - p <= -1 PROVE FALSE
    <3>1. m * (q - p) <= -m
      BY <1>1, <2>2
    <3>. QED
      BY <1>2, <3>1
  <2>. QED
    BY <1>1, <2>1, <2>2
<1>. QED
  BY <1>2, <1>3

\* What is left of a numbered sequence without its head.
LEMMA NumberedTail ==
    ASSUME NEW S, NEW q \in Seq(S), q # <<>>, NEW last \in Int, Numbered(q, last)
    PROVE  /\ Tail(q) \in Seq(S)
           /\ Len(Tail(q)) = Len(q) - 1
           /\ \A i \in 1..Len(Tail(q)) : Tail(q)[i] = q[i + 1]
           /\ Numbered(Tail(q), last)
           /\ Head(q) = q[1] /\ Head(q).call = last - Len(q) + 1
BY DEF Numbered

\* The next call at the end of a numbered sequence.
LEMMA NumberedAppend ==
    ASSUME NEW S, NEW q \in Seq(S), NEW last \in Int, Numbered(q, last),
           NEW f \in S, f.call = last + 1
    PROVE  /\ Append(q, f) \in Seq(S)
           /\ Len(Append(q, f)) = Len(q) + 1
           /\ Numbered(Append(q, f), last + 1)
BY DEF Numbered

\* A frame that has been begun is still the same call's.
LEMMA RestOfFrame ==
    ASSUME NEW f \in Frames, NEW left \in {"payload", "length"}, NEW n \in Nat
    PROVE  /\ Rest(f, left, n) \in Frames
           /\ Rest(f, left, n).call = f.call /\ Rest(f, left, n).kind = f.kind
BY DEF Rest, Frames

\* A sequence of one.
LEMMA NumberedOne ==
    ASSUME NEW f, NEW last \in Int, f.call = last
    PROVE  Numbered(<<f>>, last)
<1>1. Len(<<f>>) = 1 /\ <<f>>[1] = f
  OBVIOUS
<1>. QED
  BY <1>1 DEF Numbered

LEMMA AtMostOne ==
    ASSUME NEW S, NEW q \in Seq(S), q # <<>>, Len(q) <= 1
    PROVE  Len(q) = 1 /\ Head(q) \in S
<1>1. Len(q) \in Nat /\ Len(q) # 0
  OBVIOUS
<1>2. Len(q) = 1
  BY <1>1
<1>3. Head(q) = q[1] /\ q[1] \in S
  BY <1>2
<1>. QED
  BY <1>2, <1>3

\* Beginning the first frame keeps the others, and every call's place.
LEMMA BegunStream ==
    ASSUME NEW q \in Seq(Frames), q # <<>>,
           NEW left \in {"payload", "length"}, NEW n \in Nat
    PROVE  /\ Begun(q, left, n) \in Seq(Frames)
           /\ Len(Begun(q, left, n)) = Len(q)
           /\ \A i \in 1..Len(q) : Begun(q, left, n)[i].call = q[i].call
<1>. DEFINE f == Rest(q[1], left, n)
<1>1. q[1] \in Frames /\ 1 \in 1..Len(q)
  OBVIOUS
<1>2. f \in Frames /\ f.call = q[1].call
  BY <1>1, RestOfFrame
<1>. HIDE DEF f
<1>3. Begun(q, left, n) = [q EXCEPT ![1] = f]
  BY DEF Begun, f
<1>. QED
  BY <1>1, <1>2, <1>3

\* What remains without the first frame.
LEMMA StreamTail ==
    ASSUME NEW q \in Seq(Frames), q # <<>>
    PROVE  /\ Tail(q) \in Seq(Frames) /\ Len(Tail(q)) = Len(q) - 1
           /\ \A i \in 1..Len(Tail(q)) : Tail(q)[i] = q[i + 1]
           /\ Head(q) \in Frames
           /\ Len(q) > 1 => Tail(q) # <<>>
OBVIOUS

\* What a step of a receiving session makes of the stream: it takes off the
\* first frame or begins one, and frames keep their calls and order.
Shortened(q, r) ==
    /\ r \in Seq(Frames)
    /\ Len(r) <= Len(q)
    /\ \A i \in 1..Len(r) : r[i].call = q[i + Len(q) - Len(r)].call

LEMMA ReceiveShortens ==
    ASSUME TypeOK, NEW s \in Sessions, ReceiveStep(s)
    PROVE  Shortened(answers, answers')
<1>. USE DEF TypeOK, Arrived, Shortened
<1>0. answers # <<>> /\ answers \in Seq(Frames)
  BY DEF ReceiveStep, Receive, ReceiveBig, ReceiveRest, Straddle, Swallow, SwallowEnds
<1>1. /\ Tail(answers) \in Seq(Frames) /\ Len(Tail(answers)) = Len(answers) - 1
      /\ \A i \in 1..Len(Tail(answers)) : Tail(answers)[i] = answers[i + 1]
      /\ Head(answers) \in Frames
      /\ Len(answers) > 1 => Tail(answers) # <<>>
  BY <1>0, StreamTail
<1>2. 1..MaxReads \subseteq Nat
  BY RpcAssumption DEF RpcAssumption
<1>3. ASSUME answers' = Tail(answers) PROVE Shortened(answers, answers')
  BY <1>0, <1>1, <1>3
<1>4. ASSUME NEW left \in {"payload", "length"}, NEW n \in Nat,
             answers' = Begun(answers, left, n)
      PROVE  Shortened(answers, answers')
  <2>1. /\ Begun(answers, left, n) \in Seq(Frames)
        /\ Len(Begun(answers, left, n)) = Len(answers)
        /\ \A i \in 1..Len(answers) : Begun(answers, left, n)[i].call = answers[i].call
    BY <1>0, BegunStream
  <2>. QED
    BY <1>0, <1>4, <2>1
<1>5. ASSUME NEW left \in {"payload", "length"}, NEW n \in Nat, Len(answers) > 1,
             answers' = Begun(Tail(answers), left, n)
      PROVE  Shortened(answers, answers')
  <2>. DEFINE r == Tail(answers)
  <2>1. /\ Begun(r, left, n) \in Seq(Frames)
        /\ Len(Begun(r, left, n)) = Len(r)
        /\ \A i \in 1..Len(r) : Begun(r, left, n)[i].call = r[i].call
    BY <1>1, <1>5, BegunStream
  <2>2. /\ r \in Seq(Frames) /\ Len(answers) \in Nat /\ Len(r) = Len(answers) - 1
        /\ \A i \in 1..Len(r) : r[i] = answers[i + 1]
    BY <1>0, <1>1
  <2>. HIDE DEF r, TypeOK
  <2>3. /\ answers' \in Seq(Frames) /\ Len(answers') = Len(answers) - 1
        /\ \A i \in 1..Len(answers') : answers'[i].call = answers[i + 1].call
    BY <1>5, <2>1, <2>2 DEF r
  <2>4. \A i \in 1..Len(answers') : i + Len(answers) - Len(answers') = i + 1
    BY <2>2, <2>3
  <2>. QED
    BY <2>2, <2>3, <2>4
<1>6. CASE Receive(s) \/ Swallow(s)
  BY <1>3, <1>6 DEF Receive, Swallow
<1>7. CASE ReceiveBig(s)
  BY <1>2, <1>4, <1>7 DEF ReceiveBig
<1>10. CASE SwallowEnds(s)
  BY <1>2, <1>4, <1>10 DEF SwallowEnds, Misaligned
<1>8. CASE ReceiveRest(s)
  <2>1. CASE Head(answers).reads > 1
    <3>1. Head(answers).reads - 1 \in Nat
      BY <1>1, <2>1 DEF Frames
    <3>. QED
      BY <1>4, <1>8, <2>1, <3>1 DEF ReceiveRest
  <2>. QED
    BY <1>3, <1>8, <2>1 DEF ReceiveRest
<1>9. CASE Straddle(s)
  BY <1>2, <1>5, <1>9 DEF Straddle, Misaligned
<1>. QED
  BY <1>6, <1>7, <1>8, <1>9, <1>10 DEF ReceiveStep

-----------------------------------------------------------------------------
\* Every variable keeps its type, and no direction holds more than it can.
THEOREM TypeCorrect == Spec => []TypeOK
<1>1. Init => TypeOK
  <2>. SUFFICES ASSUME Init PROVE TypeOK
    OBVIOUS
  <2>1. /\ requests \in Seq(Requests) /\ serving \in Seq(Requests)
        /\ answers \in Seq(Frames)
        /\ Len(requests) = 0 /\ Len(serving) = 0 /\ Len(answers) = 0
    BY DEF Init
  <2>2. /\ lock \in Sessions \cup {Nobody}
        /\ calls \in Nat
        /\ caller \in [Sessions -> {"idle", "waiting", "holding", "receiving",
                                    "swallowing"}]
        /\ kind \in [Sessions -> Kinds]
    BY DEF Init, Kinds
  <2>3. poisoned \in BOOLEAN /\ lost \in BOOLEAN /\ oversized \in BOOLEAN
    BY DEF Init
  <2>. QED
    BY <2>1, <2>2, <2>3, RpcAssumption DEF TypeOK, RpcAssumption
<1>2. TypeOK /\ [Next]_vars => TypeOK'
  <2>. SUFFICES ASSUME TypeOK, [Next]_vars PROVE TypeOK'
    OBVIOUS
  <2>. USE DEF TypeOK, Returns
  <2>1. ASSUME NEW s \in Sessions, NEW k \in Kinds, Call(s, k) PROVE TypeOK'
    BY <2>1 DEF Call
  <2>2. ASSUME NEW s \in Sessions, TakeLock(s) \/ Refuse(s) PROVE TypeOK'
    BY <2>2 DEF TakeLock, Refuse
  <2>3. ASSUME NEW s \in Sessions, Request(s) PROVE TypeOK'
    <3>1. [call |-> calls + 1, kind |-> kind[s]] \in Requests
      BY DEF Requests
    <3>. QED
      BY <2>3, <3>1, RpcAssumption DEF Request, RpcAssumption
  <2>4. CASE Take
    BY <2>4, RpcAssumption DEF Take, RpcAssumption
  <2>5. ASSUME NEW pty \in BOOLEAN, NEW big \in BOOLEAN, Answer(pty, big) PROVE TypeOK'
    <3>1. Head(serving) \in Requests
      BY <2>5 DEF Answer
    <3>2. [call |-> Head(serving).call, kind |-> Head(serving).kind, pty |-> pty,
           big |-> big, left |-> "all", reads |-> 0] \in Frames
      BY <3>1 DEF Requests, Frames
    <3>. QED
      BY <2>5, <3>2, RpcAssumption DEF Answer, RpcAssumption
  <2>6. ASSUME NEW s \in Sessions, ReceiveStep(s) PROVE TypeOK'
    <3>1. answers' \in Seq(Frames) /\ Len(answers') <= Capacity
      BY <2>6, ReceiveShortens, RpcAssumption DEF Shortened, RpcAssumption
    <3>2. lost' \in BOOLEAN /\ poisoned' \in BOOLEAN
      BY <2>6, Zenon DEF ReceiveStep, Receive, ReceiveBig, ReceiveRest, Straddle,
         Swallow, SwallowEnds
    <3>3. /\ lock' \in Sessions \cup {Nobody}
          /\ caller' \in [Sessions -> {"idle", "waiting", "holding", "receiving",
                                       "swallowing"}]
          /\ UNCHANGED <<calls, kind, requests, serving, oversized>>
      BY <2>6 DEF ReceiveStep, Receive, ReceiveBig, ReceiveRest, Straddle,
         Swallow, SwallowEnds
    <3>. QED
      BY <3>1, <3>2, <3>3
  <2>7. CASE UNCHANGED vars
    BY <2>7 DEF vars
  <2>. QED
    BY <2>1, <2>2, <2>3, <2>4, <2>5, <2>6, <2>7 DEF Next, MonitorStep, SessionStep
<1>. QED
  BY <1>1, <1>2, PTL DEF Spec

-----------------------------------------------------------------------------
\* Whoever has taken the lock and not returned holds it, and nobody else.
THEOREM HeldAlways == Spec => []Held
<1>1. Init => Held
  BY RpcAssumption DEF Init, Held, RpcAssumption
<1>2. TypeOK /\ Held /\ [Next]_vars => Held'
  <2>. SUFFICES ASSUME TypeOK, Held, [Next]_vars PROVE Held'
    OBVIOUS
  <2>. USE RpcAssumption DEF RpcAssumption, TypeOK, Held, Returns
  <2>1. ASSUME NEW s \in Sessions, NEW k \in Kinds, Call(s, k) PROVE Held'
    BY <2>1 DEF Call
  <2>2. ASSUME NEW s \in Sessions, TakeLock(s) PROVE Held'
    BY <2>2 DEF TakeLock
  <2>3. ASSUME NEW s \in Sessions, Refuse(s) \/ Request(s) PROVE Held'
    BY <2>3 DEF Refuse, Request
  <2>4. CASE MonitorStep
    BY <2>4 DEF MonitorStep, Take, Answer
  <2>5. ASSUME NEW s \in Sessions, ReceiveStep(s) PROVE Held'
    <3>1. CASE Swallow(s)
      BY <3>1 DEF Swallow, Arrived
    <3>2. ASSUME caller[s] \in {"receiving", "swallowing"}, Returns(s) PROVE Held'
      BY <3>2
    <3>. QED
      BY <2>5, <3>1, <3>2 DEF ReceiveStep, Receive, ReceiveBig, ReceiveRest, Straddle,
         SwallowEnds, Arrived
  <2>6. CASE UNCHANGED vars
    BY <2>6 DEF vars
  <2>. QED
    BY <2>1, <2>2, <2>3, <2>4, <2>5, <2>6 DEF Next, SessionStep
<1>. QED
  BY <1>1, <1>2, TypeCorrect, PTL DEF Spec

\* What is under way are the last calls made, in the order they were made in.
THEOREM InOrderAlways == Spec => []InOrder
<1>1. Init => InOrder
  BY DEF Init, InOrder, Numbered
<1>2. TypeOK /\ InOrder /\ [Next]_vars => InOrder'
  <2>. SUFFICES ASSUME TypeOK, InOrder, [Next]_vars PROVE InOrder'
    OBVIOUS
  <2>. USE DEF TypeOK
  <2>0. ASSUME UNCHANGED <<calls, requests, serving, answers>> PROVE InOrder'
    BY <2>0 DEF InOrder, Numbered
  <2>1. ASSUME NEW s \in Sessions, NEW k \in Kinds,
               Call(s, k) \/ TakeLock(s) \/ Refuse(s)
        PROVE  InOrder'
    BY <2>0, <2>1 DEF Call, TakeLock, Refuse
  <2>2. ASSUME NEW s \in Sessions, Request(s) PROVE InOrder'
    <3>. DEFINE r == [call |-> calls + 1, kind |-> kind[s]]
    <3>1. r \in Requests /\ r.call = calls + 1
      BY DEF Requests
    <3>2. /\ requests' = Append(requests, r) /\ calls' = calls + 1
          /\ UNCHANGED <<serving, answers>>
      BY <2>2 DEF Request
    <3>. HIDE DEF r
    <3>3. /\ Len(requests') = Len(requests) + 1
          /\ Numbered(requests', calls')
      BY <3>1, <3>2, NumberedAppend DEF InOrder
    <3>. QED
      BY <3>2, <3>3 DEF InOrder, Numbered
  <2>3. CASE Take
    <3>1. /\ Len(Tail(requests)) = Len(requests) - 1
          /\ Numbered(Tail(requests), calls)
          /\ Head(requests).call = calls - Len(requests) + 1
      BY <2>3, NumberedTail DEF Take, InOrder
    <3>2. Numbered(<<Head(requests)>>, calls - Len(Tail(requests)))
      BY <3>1, NumberedOne
    <3>3. /\ serving = <<>> /\ serving' = <<Head(requests)>>
          /\ requests' = Tail(requests)
          /\ UNCHANGED <<calls, answers>>
      BY <2>3 DEF Take
    <3>4. Len(serving) = 0 /\ Len(serving') = 1
      BY <3>3
    <3>. QED
      BY <3>1, <3>2, <3>3, <3>4 DEF InOrder
  <2>4. ASSUME NEW pty \in BOOLEAN, NEW big \in BOOLEAN, Answer(pty, big) PROVE InOrder'
    <3>. DEFINE f == [call |-> Head(serving).call, kind |-> Head(serving).kind,
                      pty |-> pty, big |-> big, left |-> "all", reads |-> 0]
    <3>1. /\ Len(serving) = 1 /\ Len(serving') = 0 /\ serving' = <<>>
          /\ Head(serving) \in Requests
          /\ Head(serving).call = calls - Len(requests)
      <4>1. serving # <<>> /\ serving' = <<>>
        BY <2>4 DEF Answer
      <4>2. Len(serving) = 1 /\ Head(serving) \in Requests
        BY <4>1, AtMostOne
      <4>5. Len(serving') = 0
        BY <4>1
      <4>3. calls - Len(requests) \in Int /\ Numbered(serving, calls - Len(requests))
        BY DEF InOrder
      <4>4. Head(serving).call = calls - Len(requests) - Len(serving) + 1
        BY <4>1, <4>3, NumberedTail
      <4>. QED
        BY <4>1, <4>2, <4>4, <4>5
    <3>2. f \in Frames /\ f.call = calls - Len(requests)
      BY <3>1 DEF Requests, Frames
    <3>3. /\ answers' = Append(answers, f)
          /\ UNCHANGED <<calls, requests>>
      BY <2>4 DEF Answer
    <3>. HIDE DEF f
    <3>4. Numbered(answers', calls - Len(requests))
      BY <3>1, <3>2, <3>3, NumberedAppend DEF InOrder
    <3>5. Numbered(serving', calls - Len(requests))
      BY <3>1 DEF Numbered
    <3>. QED
      BY <3>1, <3>3, <3>4, <3>5 DEF InOrder
  <2>5. ASSUME NEW s \in Sessions, ReceiveStep(s) PROVE InOrder'
    <3>1. UNCHANGED <<calls, requests, serving>>
      BY <2>5 DEF ReceiveStep, Receive, ReceiveBig, ReceiveRest, Straddle, Swallow,
         SwallowEnds
    <3>2. Shortened(answers, answers')
      BY <2>5, ReceiveShortens
    <3>3. Numbered(answers', calls - Len(requests) - Len(serving))
      BY <3>2 DEF InOrder, Numbered, Shortened
    <3>. QED
      BY <3>1, <3>3 DEF InOrder, Numbered
  <2>6. CASE UNCHANGED vars
    BY <2>0, <2>6 DEF vars
  <2>. QED
    BY <2>1, <2>2, <2>3, <2>4, <2>5, <2>6 DEF Next, MonitorStep, SessionStep
<1>. QED
  BY <1>1, <1>2, TypeCorrect, PTL DEF Spec

\* No call takes another call's answer for its own.
THEOREM OwnAnswerAlways == Spec => []OwnAnswer
<1>1. TypeOK /\ InOrder => OwnAnswer
  <2>. SUFFICES ASSUME TypeOK, InOrder, NEW s \in Sessions,
                       answers # <<>>, Accepts(s, Head(answers))
                PROVE  Head(answers).call = calls
    BY DEF OwnAnswer, Arrived
  <2>. DEFINE under == Len(requests) + Len(serving) + Len(answers)
  <2>1. /\ Head(answers).call = calls - under + 1
        /\ Head(answers).call \in Nat
        /\ under >= 1 /\ under <= 2 * Capacity + 1
    <3>1. /\ calls - Len(requests) - Len(serving) \in Int
          /\ Numbered(answers, calls - Len(requests) - Len(serving))
      BY DEF TypeOK, InOrder
    <3>2. Head(answers).call = calls - Len(requests) - Len(serving) - Len(answers) + 1
      BY <3>1, NumberedTail DEF TypeOK
    <3>3. Head(answers) \in Frames /\ Len(answers) >= 1
      BY DEF TypeOK
    <3>. QED
      BY <3>2, <3>3, RpcAssumption DEF TypeOK, Frames, RpcAssumption
  <2>2. Head(answers).call % SeqMod = calls % SeqMod
    BY DEF Accepts, Seq32
  <2>3. /\ Head(answers).call <= calls
        /\ calls - Head(answers).call < SeqMod
        /\ calls \in Nat /\ SeqMod \in Nat
    BY <2>1, RpcAssumption DEF TypeOK, RpcAssumption
  <2>. QED
    BY <2>1, <2>2, <2>3, SameRemainder
<1>. QED
  BY <1>1, TypeCorrect, InOrderAlways, PTL

-----------------------------------------------------------------------------
\* A session that receives is alone in that.
LEMMA OneReceiver ==
    ASSUME Held, NEW s \in Sessions, caller[s] \in {"holding", "receiving"}
    PROVE  \A t \in Sessions \ {s} : caller[t] \notin {"receiving", "swallowing"}
BY DEF Held

\* In step, what a receiving session finds is its own answer, whole.
LEMMA FindsOwn ==
    ASSUME TypeOK, InOrder, Clean, ~oversized,
           NEW s \in Sessions, caller[s] = "receiving", answers # <<>>
    PROVE  /\ Len(answers) = 1 /\ requests = <<>> /\ serving = <<>>
           /\ Head(answers).left = "all" /\ ~Head(answers).big
           /\ Accepts(s, Head(answers))
<1>1. UnderWay = 1
  BY DEF Clean, Receiving
<1>2. Len(answers) = 1 /\ Len(requests) = 0 /\ Len(serving) = 0
  <2>1. Len(answers) \in Nat /\ Len(answers) # 0
    BY DEF TypeOK
  <2>2. Len(requests) \in Nat /\ Len(serving) \in Nat
    BY DEF TypeOK
  <2>. QED
    BY <1>1, <2>1, <2>2 DEF UnderWay
<1>3. Head(answers) = answers[1] /\ 1 \in 1..Len(answers)
  BY <1>2
<1>4. Head(answers).call = calls
  BY <1>2, <1>3 DEF InOrder, Numbered, TypeOK
<1>5. Head(answers).kind = kind[s]
  BY <1>3 DEF Clean, AllOfKind
<1>. QED
  BY <1>2, <1>3, <1>4, <1>5 DEF Clean, Accepts, TypeOK

\* Nothing under way.
LEMMA NothingUnderWay ==
    ASSUME TypeOK, UnderWay = 0
    PROVE  /\ requests = <<>> /\ serving = <<>> /\ answers = <<>>
           /\ Len(requests) = 0 /\ Len(serving) = 0 /\ Len(answers) = 0
BY DEF TypeOK, UnderWay

\* Before an oversized answer the channel is in step.
THEOREM InStepAlways == Spec => []InStep
<1>1. Init => Clean
  BY DEF Init, Clean, UnderWay, Receiving, AllOfKind
<1>2. TypeOK /\ Held /\ InOrder /\ Clean /\ [Next]_vars => Clean'
  <2>. SUFFICES ASSUME TypeOK, Held, InOrder, Clean, [Next]_vars, ~oversized'
                PROVE  Clean'
    BY DEF Clean
  <2>0. ~oversized
    BY DEF Next, MonitorStep, SessionStep, Call, TakeLock, Refuse, Request, Take,
       Answer, ReceiveStep, Receive, ReceiveBig, ReceiveRest, Straddle, Swallow,
       SwallowEnds, vars
  <2>1. ASSUME NEW s \in Sessions, NEW k \in Kinds, Call(s, k) \/ TakeLock(s) \/ Refuse(s)
        PROVE  Clean'
    <3>1. /\ UNCHANGED <<poisoned, lost, requests, serving, answers>>
          /\ caller[s] # "receiving"
          /\ caller'[s] \notin {"receiving", "swallowing"}
          /\ \A t \in Sessions \ {s} : caller'[t] = caller[t] /\ kind'[t] = kind[t]
      BY <2>0, <2>1 DEF Call, TakeLock, Refuse, Returns, TypeOK
    <3>2. Receiving' <=> Receiving
      BY <3>1 DEF Receiving
    <3>3. UnderWay' = UnderWay
      BY <3>1 DEF UnderWay
    <3>. QED
      BY <2>0, <3>1, <3>2, <3>3, Zenon DEF Clean, AllOfKind
  <2>2. ASSUME NEW s \in Sessions, Request(s) PROVE Clean'
    <3>. DEFINE r == [call |-> calls + 1, kind |-> kind[s]]
    <3>1. ~Receiving
      BY <2>2, OneReceiver DEF Request, Receiving
    <3>2. requests = <<>> /\ Len(serving) = 0 /\ Len(answers) = 0
      BY <2>0, <3>1, NothingUnderWay DEF Clean
    <3>3. /\ requests' = <<r>> /\ r.kind = kind[s]
          /\ UNCHANGED <<poisoned, lost, kind, serving, answers>>
          /\ caller' = [caller EXCEPT ![s] = "receiving"]
      BY <2>2, <3>2 DEF Request
    <3>. HIDE DEF r
    <3>4. Len(requests') = 1 /\ requests'[1] = r
      BY <3>3
    <3>5. /\ Receiving' /\ UnderWay' = 1
          /\ \A t \in Sessions \ {s} : caller'[t] \notin {"receiving", "swallowing"}
          /\ caller'[s] = "receiving"
      <4>1. \A t \in Sessions \ {s} : caller'[t] = caller[t]
        BY <3>3 DEF TypeOK
      <4>2. caller'[s] = "receiving"
        BY <3>3 DEF TypeOK
      <4>. QED
        BY <2>2, <3>2, <3>3, <3>4, <4>1, <4>2, OneReceiver DEF Request, Receiving, UnderWay
    <3>6. AllOfKind(requests', kind[s]) /\ AllOfKind(serving', kind[s])
          /\ AllOfKind(answers', kind[s])
      BY <3>2, <3>3, <3>4 DEF AllOfKind
    <3>. QED
      BY <2>0, <3>2, <3>3, <3>5, <3>6 DEF Clean, AllOfKind
  <2>3. CASE Take
    <3>1. /\ requests # <<>> /\ requests' = Tail(requests)
          /\ serving = <<>> /\ serving' = <<Head(requests)>>
          /\ UNCHANGED <<poisoned, lost, caller, kind, answers>>
      BY <2>3 DEF Take
    <3>2. /\ Len(requests') = Len(requests) - 1
          /\ \A i \in 1..Len(requests') : requests'[i] = requests[i + 1]
          /\ Len(serving) = 0 /\ Len(serving') = 1
          /\ serving'[1] = requests[1] /\ 1 \in 1..Len(requests)
      BY <3>1 DEF TypeOK
    <3>3. UnderWay' = UnderWay /\ (Receiving' <=> Receiving)
      BY <3>1, <3>2 DEF UnderWay, Receiving, TypeOK
    <3>4. \A k : AllOfKind(requests, k) => AllOfKind(requests', k) /\ AllOfKind(serving', k)
      BY <3>2 DEF AllOfKind, TypeOK
    <3>. QED
      BY <2>0, <3>1, <3>3, <3>4, Zenon DEF Clean
  <2>4. ASSUME NEW pty \in BOOLEAN, NEW big \in BOOLEAN, Answer(pty, big) PROVE Clean'
    <3>. DEFINE f == [call |-> Head(serving).call, kind |-> Head(serving).kind,
                      pty |-> pty, big |-> big, left |-> "all", reads |-> 0]
    <3>1. ~big /\ f.left = "all" /\ ~f.big /\ f.kind = Head(serving).kind
      BY <2>4 DEF Answer
    <3>2. /\ answers' = Append(answers, f) /\ serving # <<>> /\ serving' = <<>>
          /\ UNCHANGED <<poisoned, lost, caller, kind, requests>>
      BY <2>4 DEF Answer
    <3>. HIDE DEF f
    <3>3. /\ Len(answers') = Len(answers) + 1
          /\ \A i \in 1..Len(answers) : answers'[i] = answers[i]
          /\ answers'[Len(answers) + 1] = f
      BY <3>2 DEF TypeOK
    <3>4. Len(serving) = 1 /\ Len(serving') = 0 /\ Head(serving) = serving[1]
      <4>1. Len(serving) = 1
        BY <3>2, AtMostOne DEF TypeOK
      <4>. QED
        BY <3>2, <4>1
    <3>5. UnderWay' = UnderWay /\ (Receiving' <=> Receiving)
      BY <3>2, <3>3, <3>4 DEF UnderWay, Receiving, TypeOK
    <3>6. \A i \in 1..Len(answers') : answers'[i].left = "all" /\ ~answers'[i].big
      BY <2>0, <3>1, <3>3 DEF Clean, TypeOK
    <3>7. \A k : AllOfKind(serving, k) /\ AllOfKind(answers, k)
                   => AllOfKind(serving', k) /\ AllOfKind(answers', k)
      BY <3>1, <3>3, <3>4 DEF AllOfKind, TypeOK
    <3>. QED
      BY <2>0, <3>2, <3>5, <3>6, <3>7, Zenon DEF Clean
  <2>5. ASSUME NEW s \in Sessions, ReceiveStep(s) PROVE Clean'
    <3>1. caller[s] = "receiving" /\ answers # <<>>
      BY <2>0, <2>5 DEF Clean, ReceiveStep, Receive, ReceiveBig, ReceiveRest, Straddle,
         Swallow, SwallowEnds, Arrived
    <3>2. /\ Len(answers) = 1 /\ requests = <<>> /\ serving = <<>>
          /\ Head(answers).left = "all" /\ ~Head(answers).big
          /\ Accepts(s, Head(answers))
      BY <2>0, <3>1, FindsOwn
    <3>3. Receive(s)
      BY <2>5, <3>1, <3>2 DEF ReceiveStep, ReceiveBig, ReceiveRest, Straddle, Swallow,
         SwallowEnds, Arrived
    <3>4. /\ ~poisoned' /\ ~lost'
          /\ answers' = Tail(answers)
          /\ caller' = [caller EXCEPT ![s] = "idle"]
          /\ UNCHANGED <<requests, serving>>
      BY <2>0, <3>2, <3>3 DEF Receive, Returns, Clean
    <3>5. Len(answers') = 0 /\ Len(requests') = 0 /\ Len(serving') = 0
      BY <3>2, <3>4 DEF TypeOK
    <3>6. \A t \in Sessions : caller'[t] \notin {"receiving", "swallowing"}
      BY <3>1, <3>4, OneReceiver DEF TypeOK
    <3>. QED
      BY <3>4, <3>5, <3>6 DEF Clean, UnderWay, Receiving, AllOfKind
  <2>6. CASE UNCHANGED vars
    <3>1. UnderWay' = UnderWay /\ (Receiving' <=> Receiving)
      BY <2>6 DEF vars, UnderWay, Receiving
    <3>2. /\ oversized' = oversized /\ poisoned' = poisoned /\ lost' = lost
          /\ caller' = caller /\ kind' = kind
          /\ requests' = requests /\ serving' = serving /\ answers' = answers
      BY <2>6 DEF vars
    <3>. QED
      BY <2>0, <3>1, <3>2, Zenon DEF Clean, AllOfKind
  <2>. QED
    BY <2>1, <2>2, <2>3, <2>4, <2>5, <2>6 DEF Next, MonitorStep, SessionStep, Kinds
<1>3. Clean => InStep
  BY DEF Clean, InStep, UnderWay, Receiving
<1>. QED
  BY <1>1, <1>2, <1>3, TypeCorrect, HeldAlways, InOrderAlways, PTL DEF Spec
=============================================================================
