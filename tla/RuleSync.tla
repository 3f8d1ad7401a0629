------------------------------ MODULE RuleSync ------------------------------
(***************************************************************************)
(* How the rules get from the files to the worker: the signal handlers of  *)
(* the monitor (monitor.py: SIGHUP reloads, SIGUSR2 reloads and enforces,  *)
(* SIGUSR1 asks for the sessions), the push channel with the errors of     *)
(* ipc.py, and the worker's push listener applying what arrives.           *)
(*                                                                         *)
(* Python runs a signal's handler between two bytecodes of whatever the    *)
(* main thread is doing, another handler included, and between two parts   *)
(* of a send that has to wait: handlers is a stack, of which only the top  *)
(* runs.  The files are what a reload finds, which is anything, or nothing *)
(* it can parse; that every key in them is a string is assumed (get_raw    *)
(* raises on others, through the handler, into the monitor's main thread). *)
(*                                                                         *)
(* The channel is a stream of bytes, modelled as a queue of messages.  Of  *)
(* a message that is not read as one only two things matter: that it is    *)
(* lost, and whether the listener is left between two messages or midway,  *)
(* blocked in recv for bytes that come with a later message, which it then *)
(* misreads in turn.  The monitor's answers and the copy of the            *)
(* configuration for the watcher are left out.                             *)
(***************************************************************************)
EXTENDS Naturals, Sequences

CONSTANTS
    Cfgs,        \* console configurations the file can hold
    Maps,        \* user maps the file can hold
    EmptyCfg,    \* the configuration {} of an empty file
    EmptyMap,    \* the user map {}
    TooLong,     \* those whose message is over the limit of ipc_recv
    Unsendable,  \* those json.dumps refuses: a date, for one
    MaxNested,   \* bound: signal handlers active at one time
    MaxPush      \* messages the channel holds before a sender has to wait

ASSUME SyncAssumption ==
    /\ Cfgs # {} /\ Maps # {}
    /\ MaxNested \in Nat /\ MaxPush \in Nat

VARIABLES
    monCfg, monMap,   \* the stores of the monitor
    wrkCfg, wrkMap,   \* the stores of the worker
    push,             \* push_sock, monitor to worker
    midway,           \* the listener waits inside ipc_recv for more bytes
    lost,             \* the kinds of message of which the last to leave push
                      \* was not read as one
    handlers,         \* the active reload handlers, the running one first
    reload            \* the signal of the last reload, or that reloads have
                      \* overlapped since one last started alone

monitorVars == <<monCfg, monMap, handlers, reload>>
workerRules == <<wrkCfg, wrkMap>>
channel == <<push, midway, lost>>
syncVars == <<monitorVars, workerRules, channel>>

Signals == {"SIGHUP", "SIGUSR2"}
Kinds == {"CONFIG_UPDATE", "ENFORCE_REQ"}

\* What is on the channel in place of messages written into one another.
Torn(kinds) == [type |-> "torn", kinds |-> kinds]

Messages ==
    [type : {"CONFIG_UPDATE"}, body : Cfgs]
    \cup [type : {"ENFORCE_REQ"}, body : Maps]
    \cup [type : {"SESSION_LIST_REQ"}]
    \cup [type : {"torn"}, kinds : SUBSET Kinds]

\* The rules that are lost with msg.
KindsIn(msg) == IF msg.type = "torn" THEN msg.kinds ELSE {msg.type} \cap Kinds

\* Where a handler is: before reading a file, holding what it is about to
\* send or part of which it has sent, before get_map, or with the rest to
\* write of a message that another handler has written into.
Handlers ==
    [sig : Signals, at : {"map", "cfg", "rest_cfg", "get_map", "rest_map"}]
    \cup [sig : Signals, at : {"send_cfg"}, body : Cfgs]
    \cup [sig : Signals, at : {"send_map"}, body : Maps]

SyncTypeOK ==
    /\ monCfg \in Cfgs /\ wrkCfg \in Cfgs
    /\ monMap \in Maps /\ wrkMap \in Maps
    /\ push \in Seq(Messages)
    /\ midway \in BOOLEAN
    /\ lost \in SUBSET Kinds
    /\ handlers \in Seq(Handlers)
    /\ reload \in Signals \cup {"none", "overlapped"}

\* The worker is forked with the rules the monitor has loaded.
SyncInit ==
    /\ monCfg \in Cfgs /\ wrkCfg = monCfg
    /\ monMap \in Maps /\ wrkMap = monMap
    /\ push = <<>> /\ midway = FALSE /\ lost = {}
    /\ handlers = <<>>
    /\ reload = "none"

-----------------------------------------------------------------------------
(* The monitor.                                                            *)

Running(at) == handlers # <<>> /\ Head(handlers).at = at

\* The running handler goes on as h.
Becomes(h) == handlers' = <<h>> \o Tail(handlers)

\* A handler that may have sent part of its message, and one that has.
Sending(h) == h.at \in {"send_cfg", "send_map"} /\ h.body \notin Unsendable
CutShort(h) == h.at \in {"rest_cfg", "rest_map"}

KindOf(h) ==
    IF h.at \in {"send_cfg", "rest_cfg"} THEN "CONFIG_UPDATE" ELSE "ENFORCE_REQ"

Rest(h) ==
    [sig |-> h.sig, at |-> IF h.at = "send_cfg" THEN "rest_cfg" ELSE "rest_map"]

\* What remains of handler h once it is through with its send: after the
\* CONFIG_UPDATE of SIGUSR2 there is get_map.
After(h) ==
    IF h.sig = "SIGUSR2" /\ KindOf(h) = "CONFIG_UPDATE"
    THEN <<[sig |-> "SIGUSR2", at |-> "get_map"]>> ELSE <<>>

\* msg is sent by a handler that interrupts those below, and of which next
\* remains.  Sends block while the channel is full, and below may be ones in
\* the middle of theirs (cut), or that were interrupted there before: then
\* the message goes into theirs, and none of them is read.
Send(msg, next, below) ==
    /\ Len(push) < MaxPush
    /\ \E cut \in SUBSET {i \in DOMAIN below : Sending(below[i])} :
         LET into == cut \cup {i \in DOMAIN below : CutShort(below[i])} IN
         /\ push' = Append(push,
                IF into = {} THEN msg
                ELSE Torn(KindsIn(msg) \cup {KindOf(below[i]) : i \in into}))
         /\ handlers' = next \o [i \in DOMAIN below |->
                IF i \in cut THEN Rest(below[i]) ELSE below[i]]

SignalArrives(sig) ==
    /\ Len(handlers) < MaxNested
    /\ handlers' = <<[sig |-> sig, at |-> "map"]>> \o handlers
    /\ reload' = IF handlers = <<>> THEN sig ELSE "overlapped"
    /\ UNCHANGED <<monCfg, monMap, workerRules, channel>>

\* reload_all: the user map; a file that does not parse changes nothing.
ReloadMap ==
    /\ Running("map")
    /\ monMap' \in Maps
    /\ Becomes([sig |-> Head(handlers).sig, at |-> "cfg"])
    /\ UNCHANGED <<monCfg, reload, workerRules, channel>>

\* Mutant of ReloadCfg: what is going to be sent was taken before the reload.
SendOldCfg ==
    /\ Running("cfg")
    /\ monCfg' \in Cfgs
    /\ Becomes([sig |-> Head(handlers).sig, at |-> "send_cfg", body |-> monCfg])
    /\ UNCHANGED <<monMap, reload, workerRules, channel>>

\* reload_all: the console config, likewise, and get_raw.
ReloadCfg ==
    /\ Running("cfg")
    /\ monCfg' \in Cfgs
    /\ Becomes([sig |-> Head(handlers).sig, at |-> "send_cfg", body |-> monCfg'])
    /\ UNCHANGED <<monMap, reload, workerRules, channel>>

\* reload_all: CONFIG_UPDATE; SIGHUP ends there.
SendCfg ==
    /\ Running("send_cfg") /\ Sending(Head(handlers))
    /\ Send([type |-> "CONFIG_UPDATE", body |-> Head(handlers).body],
            After(Head(handlers)), Tail(handlers))
    /\ UNCHANGED <<monCfg, monMap, reload, workerRules, midway, lost>>

\* handle_sigusr2: the message is built ...
GetMap ==
    /\ Running("get_map")
    /\ Becomes([sig |-> "SIGUSR2", at |-> "send_map", body |-> monMap])
    /\ UNCHANGED <<monCfg, monMap, reload, workerRules, channel>>

\* Mutant of SendMap: the request carries the other store.
SendWrongStore ==
    /\ Running("send_map") /\ Sending(Head(handlers))
    /\ Send([type |-> "ENFORCE_REQ", body |-> monCfg],
            After(Head(handlers)), Tail(handlers))
    /\ UNCHANGED <<monCfg, monMap, reload, workerRules, midway, lost>>

\* ... and sent.
SendMap ==
    /\ Running("send_map") /\ Sending(Head(handlers))
    /\ Send([type |-> "ENFORCE_REQ", body |-> Head(handlers).body],
            After(Head(handlers)), Tail(handlers))
    /\ UNCHANGED <<monCfg, monMap, reload, workerRules, midway, lost>>

\* The rest of a message that others were written into.
SendRest ==
    /\ handlers # <<>> /\ CutShort(Head(handlers))
    /\ Send(Torn({KindOf(Head(handlers))}),
            After(Head(handlers)), Tail(handlers))
    /\ UNCHANGED <<monCfg, monMap, reload, workerRules, midway, lost>>

\* json.dumps raises before anything is sent: logged, and the handler goes on.
SendFails ==
    /\ Running("send_cfg") \/ Running("send_map")
    /\ Head(handlers).body \in Unsendable
    /\ handlers' = After(Head(handlers)) \o Tail(handlers)
    /\ UNCHANGED <<monCfg, monMap, reload, workerRules, channel>>

\* SIGUSR1, whose handler does nothing but send.
AskForSessions ==
    /\ Send([type |-> "SESSION_LIST_REQ"], <<>>, handlers)
    /\ UNCHANGED <<monCfg, monMap, reload, workerRules, midway, lost>>

MonitorStep ==
    \/ \E sig \in Signals : SignalArrives(sig)
    \/ ReloadMap
    \/ ReloadCfg
    \/ SendCfg
    \/ GetMap
    \/ SendMap
    \/ SendRest
    \/ SendFails
    \/ AskForSessions

-----------------------------------------------------------------------------
(* The worker's push listener.                                             *)

\* ipc_recv takes msg for what it is.
Readable(msg) ==
    \/ msg.type = "SESSION_LIST_REQ"
    \/ msg.type \in Kinds /\ msg.body \notin TooLong

\* ipc_recv returns a message of this type.
Arrived(type) ==
    /\ ~midway
    /\ push # <<>> /\ Head(push).type = type /\ Readable(Head(push))

\* CONFIG_UPDATE: an empty configuration is not applied.
ApplyCfg ==
    /\ Arrived("CONFIG_UPDATE")
    /\ push' = Tail(push)
    /\ wrkCfg' = IF Head(push).body = EmptyCfg THEN wrkCfg ELSE Head(push).body
    /\ lost' = lost \ {"CONFIG_UPDATE"}
    /\ UNCHANGED <<monitorVars, wrkMap, midway>>

\* ENFORCE_REQ, first half: an empty map is not applied.
ApplyMap ==
    /\ Arrived("ENFORCE_REQ")
    /\ push' = Tail(push)
    /\ wrkMap' = IF Head(push).body = EmptyMap THEN wrkMap ELSE Head(push).body
    /\ lost' = lost \ {"ENFORCE_REQ"}
    /\ UNCHANGED <<monitorVars, wrkCfg, midway>>

\* SESSION_LIST_REQ changes no rules.
ReadAsk ==
    /\ Arrived("SESSION_LIST_REQ")
    /\ push' = Tail(push)
    /\ UNCHANGED <<monitorVars, workerRules, midway, lost>>

\* ipc_recv raises on a message over the limit, after its header, or on bytes
\* that are no header or no JSON; the listener logs that and reads on from
\* there, headers out of payloads, until it is at the end of the message or
\* waits for more bytes than there are.
Misread ==
    /\ push # <<>> /\ (midway \/ ~Readable(Head(push)))
    /\ push' = Tail(push)
    /\ midway' \in BOOLEAN
    /\ lost' = lost \cup KindsIn(Head(push))
    /\ UNCHANGED <<monitorVars, workerRules>>

ListenerStep == ApplyCfg \/ ApplyMap \/ ReadAsk \/ Misread

SyncNext == MonitorStep \/ ListenerStep

SyncSpec == SyncInit /\ [][SyncNext]_syncVars

-----------------------------------------------------------------------------
Settled == push = <<>> /\ handlers = <<>>

CfgArrived ==
    \/ wrkCfg = monCfg
    \/ monCfg \in {EmptyCfg} \cup Unsendable \/ "CONFIG_UPDATE" \in lost

\* SIGHUP reloads the user map too, but does not send it.
MapArrived ==
    \/ wrkMap = monMap
    \/ monMap \in {EmptyMap} \cup Unsendable \/ "ENFORCE_REQ" \in lost
    \/ reload = "SIGHUP"

\* When nothing is under way the worker has the monitor's configuration and,
\* after SIGUSR2, its user map, unless the last reload was interrupted by
\* another, or what it loaded is empty or cannot be sent, or its message was
\* not read as one: over the limit, cut by another, or behind such a one.
\* (monitor.py:51 has the worker stay in sync without exceptions.)
InSync == Settled => reload = "overlapped" \/ (CfgArrived /\ MapArrived)
=============================================================================
