-------------------------------- MODULE Rpc --------------------------------
(***************************************************************************)
(* Remote calls of the worker's sessions to the monitor: MonitorProxy      *)
(* (worker.py), the framing of ipc.py, and the monitor's loop.             *)
(*                                                                         *)
(* All sessions share one channel.  A call holds the proxy's lock from its *)
(* request to its answer, and gives its request the next sequence number.  *)
(* The receiver of a frame checks the length in its header, the sender     *)
(* does not: a command's output can exceed the limit.  The call that reads *)
(* such a header fails, leaving the payload on the channel, and the calls  *)
(* after it take the bytes of the payload for headers.  They are printable *)
(* ASCII, so that the number of descriptors they announce is never allowed *)
(* and each of these calls fails as well, until the payload is used up.    *)
(*                                                                         *)
(* A frame is what one ipc_send writes; of one that has been begun, reads  *)
(* counts how often a header can still be read from the rest of it.        *)
(***************************************************************************)
EXTENDS Integers, Sequences, FiniteSets

CONSTANTS
    Sessions,
    Nobody,     \* the lock is free
    SeqMod,     \* sequence numbers are taken modulo this (2^32)
    Capacity,   \* frames a direction of the channel holds
    MaxReads,   \* bound: headers read from the rest of one frame
    MaxCalls    \* bound: calls made

ASSUME RpcAssumption ==
    /\ Nobody \notin Sessions
    /\ SeqMod \in Nat /\ Capacity \in Nat /\ MaxReads \in Nat /\ MaxCalls \in Nat
    /\ 2 * Capacity < SeqMod

VARIABLES
    lock,       \* who holds MonitorProxy._lock
    calls,      \* requests sent so far; _seq is their number modulo SeqMod
    poisoned,   \* _poisoned
    caller,     \* where each session is in its call
    kind,       \* what it asks for
    requests,   \* rpc_sock, worker to monitor
    serving,    \* the request the monitor is working on, if any
    answers,    \* rpc_sock, monitor to worker
    lost,       \* some pty reached no session
    oversized   \* some answer was too long

vars == <<lock, calls, poisoned, caller, kind, requests, serving, answers, lost,
          oversized>>

Kinds == {"lookup", "spawn", "command"}
Requests == [call : Nat, kind : Kinds]

\* pty: a descriptor comes with it.  left: all of it is there; only the
\* payload, or less; or all but the first byte of the header.
Frames == [call : Nat, kind : Kinds, pty : BOOLEAN, big : BOOLEAN,
           left : {"all", "payload", "length"}, reads : Nat]

TypeOK ==
    /\ lock \in Sessions \cup {Nobody}
    /\ calls \in Nat
    /\ poisoned \in BOOLEAN
    /\ caller \in [Sessions -> {"idle", "waiting", "holding", "receiving", "swallowing"}]
    /\ kind \in [Sessions -> Kinds]
    /\ requests \in Seq(Requests) /\ Len(requests) <= Capacity
    /\ serving \in Seq(Requests) /\ Len(serving) <= 1
    /\ answers \in Seq(Frames) /\ Len(answers) <= Capacity
    /\ lost \in BOOLEAN
    /\ oversized \in BOOLEAN

Init ==
    /\ lock = Nobody
    /\ calls = 0
    /\ poisoned = FALSE
    /\ caller = [s \in Sessions |-> "idle"]
    /\ kind = [s \in Sessions |-> "lookup"]
    /\ requests = <<>> /\ serving = <<>> /\ answers = <<>>
    /\ lost = FALSE
    /\ oversized = FALSE

-----------------------------------------------------------------------------
(* The worker: asking.                                                     *)

NotSent == {s \in Sessions : caller[s] \in {"waiting", "holding"}}

\* lookup_uid, spawn, run_action.
Call(s, k) ==
    /\ calls + Cardinality(NotSent) < MaxCalls
    /\ caller[s] = "idle"
    /\ caller' = [caller EXCEPT ![s] = "waiting"]
    /\ kind' = [kind EXCEPT ![s] = k]
    /\ UNCHANGED <<lock, calls, poisoned, requests, serving, answers, lost, oversized>>

\* Mutant of TakeLock: no lock around the call.
TakeNoLock(s) ==
    /\ caller[s] = "waiting"
    /\ lock' = s
    /\ caller' = [caller EXCEPT ![s] = "holding"]
    /\ UNCHANGED <<calls, poisoned, kind, requests, serving, answers, lost, oversized>>

TakeLock(s) ==
    /\ caller[s] = "waiting"
    /\ lock = Nobody
    /\ lock' = s
    /\ caller' = [caller EXCEPT ![s] = "holding"]
    /\ UNCHANGED <<calls, poisoned, kind, requests, serving, answers, lost, oversized>>

\* The call is over, by an answer or an exception, and the lock released.
Returns(s) ==
    /\ caller' = [caller EXCEPT ![s] = "idle"]
    /\ lock' = Nobody

\* _call: "rpc channel poisoned".
Refuse(s) ==
    /\ caller[s] = "holding"
    /\ poisoned
    /\ Returns(s)
    /\ UNCHANGED <<calls, poisoned, kind, requests, serving, answers, lost, oversized>>

\* _call: the next sequence number, and the request.
Request(s) ==
    /\ caller[s] = "holding"
    /\ ~poisoned
    /\ Len(requests) < Capacity
    /\ calls' = calls + 1
    /\ requests' = Append(requests, [call |-> calls + 1, kind |-> kind[s]])
    /\ caller' = [caller EXCEPT ![s] = "receiving"]
    /\ UNCHANGED <<lock, poisoned, kind, serving, answers, lost, oversized>>

-----------------------------------------------------------------------------
(* The monitor, one request at a time.                                     *)

\* Mutant of Take: requests are taken up without waiting for the answers.
TakeAnother ==
    /\ requests # <<>>
    /\ serving' = Append(serving, Head(requests))
    /\ requests' = Tail(requests)
    /\ UNCHANGED <<lock, calls, poisoned, caller, kind, answers, lost, oversized>>

Take ==
    /\ serving = <<>>
    /\ requests # <<>>
    /\ serving' = <<Head(requests)>>
    /\ requests' = Tail(requests)
    /\ UNCHANGED <<lock, calls, poisoned, caller, kind, answers, lost, oversized>>

\* A spawn succeeds and hands over the pty, or not; a command's output is as
\* long as it is.
Answer(pty, big) ==
    /\ serving # <<>>
    /\ Len(answers) < Capacity
    /\ pty => Head(serving).kind = "spawn"
    /\ big => Head(serving).kind = "command"
    /\ serving' = <<>>
    /\ answers' = Append(answers, [call |-> Head(serving).call,
                                   kind |-> Head(serving).kind,
                                   pty |-> pty, big |-> big,
                                   left |-> "all", reads |-> 0])
    /\ oversized' = (oversized \/ big)
    /\ UNCHANGED <<lock, calls, poisoned, caller, kind, requests, lost>>

\* Mutant of MonitorStep: a failed spawn is logged and not answered.
MonitorMayKeepSilent ==
    \/ Take
    \/ \E pty, big \in BOOLEAN : Answer(pty, big)
    \/ /\ serving # <<>> /\ Head(serving).kind = "spawn"
       /\ serving' = <<>>
       /\ UNCHANGED <<lock, calls, poisoned, caller, kind, requests, answers, lost,
                      oversized>>

MonitorStep ==
    \/ Take
    \/ \E pty, big \in BOOLEAN : Answer(pty, big)

-----------------------------------------------------------------------------
(* The worker: receiving.                                                  *)

Seq32(call) == call % SeqMod

\* Mutant of Accepts: only the type is looked at.
AcceptsType(s, f) == f.kind = kind[s]

\* _call: the sequence number of the request, and the type expected.
Accepts(s, f) == Seq32(f.call) = Seq32(calls) /\ f.kind = kind[s]

Arrived(s, left) ==
    /\ caller[s] = "receiving"
    /\ answers # <<>>
    /\ Head(answers).left = left

\* The stream with its first frame begun.
Rest(f, left, n) == [f EXCEPT !.left = left, !.reads = n]
Begun(stream, left, n) == [stream EXCEPT ![1] = Rest(@, left, n)]

\* The reads have gone past the beginning of the first frame.  If that lacks
\* just the first byte, what is left begins with a length that may be allowed.
Misaligned(stream) ==
    {Begun(stream, "payload", n) : n \in 1..MaxReads}
    \cup IF Head(stream).big THEN {} ELSE {Begun(stream, "length", 0)}

\* A frame is received: the answer, or the channel is poisoned and what came
\* with the frame forgotten.
Receive(s) ==
    /\ Arrived(s, "all") /\ ~Head(answers).big
    /\ answers' = Tail(answers)
    /\ poisoned' = (poisoned \/ ~Accepts(s, Head(answers)))
    /\ lost' = (lost \/ (Head(answers).pty /\ ~Accepts(s, Head(answers))))
    /\ Returns(s)
    /\ UNCHANGED <<calls, kind, requests, serving, oversized>>

\* The length in the header is too long: ValueError.
ReceiveBig(s) ==
    /\ Arrived(s, "all") /\ Head(answers).big
    /\ \E n \in 1..MaxReads :
         answers' = Begun(answers, "payload", n)
    /\ Returns(s)
    /\ UNCHANGED <<calls, poisoned, kind, requests, serving, lost, oversized>>

\* A piece of payload is taken for a header: ValueError.
ReceiveRest(s) ==
    /\ Arrived(s, "payload")
    /\ answers' = IF Head(answers).reads > 1
                  THEN Begun(answers, "payload", Head(answers).reads - 1)
                  ELSE Tail(answers)
    /\ Returns(s)
    /\ UNCHANGED <<calls, poisoned, kind, requests, serving, lost, oversized>>

\* The same, where the last piece is too short for a header and the beginning
\* of the next frame completes it, descriptor and all.
Straddle(s) ==
    /\ Arrived(s, "payload")
    /\ Head(answers).reads = 1 /\ Len(answers) > 1
    /\ answers' \in Misaligned(Tail(answers))
    /\ lost' = (lost \/ answers[2].pty)
    /\ Returns(s)
    /\ UNCHANGED <<calls, poisoned, kind, requests, serving, oversized>>

\* The misread length is that of many frames: _recv_bytes swallows whatever
\* comes, with the lock held.  What it gets is no message: ValueError.
Swallow(s) ==
    /\ \/ /\ Arrived(s, "length")
          /\ caller' = [caller EXCEPT ![s] = "swallowing"]
          /\ UNCHANGED lock
       \/ /\ caller[s] = "swallowing" /\ answers # <<>> /\ ~Head(answers).big
          /\ UNCHANGED <<caller, lock>> \/ Returns(s)
    /\ answers' = Tail(answers)
    /\ lost' = (lost \/ (Head(answers).pty /\ Head(answers).left = "all"))
    /\ UNCHANGED <<calls, poisoned, kind, requests, serving, oversized>>

\* It has enough in the middle of a frame.
SwallowEnds(s) ==
    /\ caller[s] = "swallowing" /\ answers # <<>>
    /\ answers' \in Misaligned(answers)
    /\ lost' = (lost \/ Head(answers).pty)
    /\ Returns(s)
    /\ UNCHANGED <<calls, poisoned, kind, requests, serving, oversized>>

ReceiveStep(s) ==
    \/ Receive(s)
    \/ ReceiveBig(s)
    \/ ReceiveRest(s)
    \/ Straddle(s)
    \/ Swallow(s)
    \/ SwallowEnds(s)

SessionStep(s) ==
    \/ \E k \in Kinds : Call(s, k)
    \/ TakeLock(s)
    \/ Refuse(s)
    \/ Request(s)
    \/ ReceiveStep(s)

Next == MonitorStep \/ \E s \in Sessions : SessionStep(s)

Spec == Init /\ [][Next]_vars

\* Threads run, the lock goes round, and the monitor's commands end.
Fairness ==
    /\ WF_vars(MonitorStep)
    /\ \A s \in Sessions :
         /\ SF_vars(TakeLock(s))
         /\ WF_vars(Refuse(s) \/ Request(s) \/ ReceiveStep(s))

FairSpec == Spec /\ Fairness

-----------------------------------------------------------------------------
\* No call takes another call's answer for its own, wherever it is in the
\* stream and however often the sequence numbers have wrapped.
OwnAnswer ==
    \A s \in Sessions :
        /\ Arrived(s, "all") /\ ~Head(answers).big
        /\ Accepts(s, Head(answers))
        => Head(answers).call = calls

\* Only an oversized answer brings the channel out of step: before one, it
\* carries the call of whoever holds the lock and no other, no pty is lost
\* and the proxy is not poisoned.
InStep ==
    ~oversized =>
        /\ ~poisoned /\ ~lost
        /\ Len(requests) + Len(serving) + Len(answers) =
              IF \E s \in Sessions : caller[s] = "receiving" THEN 1 ELSE 0

\* Every call comes back, unless an answer was oversized.
CallsReturn ==
    \A s \in Sessions : caller[s] # "idle" ~> caller[s] = "idle" \/ oversized
=============================================================================
