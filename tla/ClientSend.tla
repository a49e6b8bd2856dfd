----------------------------- MODULE ClientSend -----------------------------
(***************************************************************************)
(* The browser client's reliable send path: WebChannelNatsClient over the  *)
(* raw NatsClient (packages/client/src/nats-client.ts).                    *)
(*                                                                         *)
(* A user message is owned by the outbound queue until it is published and *)
(* by the unacked ledger until the agent answers; the ledger is replayed   *)
(* when a new session key is established and retried while one is live.    *)
(* The tracker publishes queued / sent / accepted / failed to listeners.   *)
(*                                                                         *)
(* The client is single threaded, but its listeners are application code   *)
(* that may call send, disconnect, connect or requestApplicationRecovery   *)
(* before they return.  `stack' is the rest of the running call, as a      *)
(* sequence of tasks; a task runs without interruption, and at a "callout" *)
(* the application may call back in.                                       *)
(***************************************************************************)
EXTENDS Naturals, FiniteSets, Sequences, SequencesExt

CONSTANTS
    MaxSends,       \* bound: user messages
    MaxUnacked,     \* MAX_UNACKED
    MaxPending,     \* MAX_PENDING_INBOUND
    MaxDials,       \* bound: sockets opened
    MaxCalls,       \* bound: disconnect, connect and recovery calls
    MaxNested,      \* bound: calls made from inside a listener
    MaxResults      \* bound: result frames delivered

ASSUME BoundAssumption ==
    /\ MaxSends \in Nat /\ MaxDials \in Nat /\ MaxCalls \in Nat
    /\ MaxNested \in Nat /\ MaxResults \in Nat
    /\ MaxUnacked \in Nat \ {0} /\ MaxPending \in Nat \ {0}

VARIABLES
    \* WebChannelNatsClient
    tracker,    \* sendTracker: [Id -> "none" or a SendState]
    queue,      \* outboundQueue (its user messages)
    ledger,     \* unackedLedger, in insertion order: Seq of [id, pub]
    draining,   \* drainingOutboundQueue
    events,     \* pendingSendStateEvents
    emitting,   \* drainingSendStateEvents
    key,        \* sessionKey: 0, or the epoch that installed it
    epoch,      \* connectionEpoch
    flows,      \* onConnected continuations that still run
    pend,       \* pendingInbound
    timer,      \* a live retry timer is armed
    since,      \* ackStallSinceAt is set
    issued,     \* ackStallRecoveryIssued
    disc,       \* disconnected
    term,       \* terminalReached
    stack,      \* tasks of the running call
    \* NatsClient
    conn,       \* the socket: "off", "dialing" or "up" (its first PONG has come)
    open,       \* the socket is not closing
    connected,  \* connected
    subscribed, \* the subscriptions were sent over this socket
    redial,     \* reconnectTimer is armed
    gen,        \* connectionGeneration
    life,       \* lifecycleGeneration
    rawTerm,    \* terminal
    \* The agent's ingress
    verdict,    \* [Id -> "none", "accepted" or "overloaded"]
    \* Counters for the bounds
    sends, calls, nested, results,
    \* History
    seen,       \* [Id -> the states the last listener was told]
    first,      \* ids in the order of their first publication
    wire,       \* ids drained since the last flush
    replayed,   \* the ledger was replayed in this session
    early,      \* ids published in a session before its replay
    spent       \* this no-result interval has had its recovery

tracking == <<tracker, events, emitting>>
ownership == <<queue, ledger>>
session == <<key, pend, timer>>
stall == <<since, issued, spent>>
sock == <<conn, open, connected, subscribed>>
raw == <<sock, redial, gen, life, rawTerm>>
counters == <<sends, calls, nested, results>>
log == <<first, wire, replayed, early>>
vars == <<tracking, ownership, draining, session, epoch, flows, stall, disc, term, stack, raw,
          verdict, counters, seen, log>>

Id == 1..MaxSends
Rank == [s \in {"none", "queued", "sent", "accepted", "failed"} |->
            CASE s = "none" -> 0 [] s = "queued" -> 1 [] s = "sent" -> 2
              [] s = "accepted" -> 3 [] s = "failed" -> 4]

Init ==
    /\ tracker = [i \in Id |-> "none"]
    /\ queue = <<>> /\ ledger = <<>> /\ draining = FALSE
    /\ events = <<>> /\ emitting = FALSE
    /\ key = 0 /\ epoch = 0 /\ flows = {} /\ pend = <<>> /\ timer = FALSE
    /\ since = FALSE /\ issued = FALSE /\ disc = FALSE /\ term = FALSE
    /\ stack = <<>>
    /\ conn = "off" /\ open = FALSE /\ connected = FALSE /\ subscribed = FALSE
    /\ redial = FALSE /\ gen = 0 /\ life = 0 /\ rawTerm = FALSE
    /\ verdict = [i \in Id |-> "none"]
    /\ sends = 0 /\ calls = 0 /\ nested = 0 /\ results = 0
    /\ seen = [i \in Id |-> <<>>] /\ first = <<>> /\ wire = <<>> /\ replayed = TRUE /\ early = {} /\ spent = FALSE

\* The elements of s at the places K, in their order.
Those(s, K) == [n \in 1..Cardinality(K) |-> s[CHOOSE k \in K : Cardinality({j \in K : j <= k}) = n]]

(***************************************************************************)
(* The running call.                                                       *)
(***************************************************************************)
Task(t) == [t |-> t]
Callout == Task("callout")
Top(t) == stack # <<>> /\ Head(stack).t = t
\* The task on top is replaced by the tasks it leads to.
Run(tasks) == stack' = tasks \o Tail(stack)
\* A socket, timer or promise callback: only when no call is running.
Begin(tasks) == stack = <<>> /\ stack' = tasks
\* A call of the application, from outside or from inside a listener.
Call(tasks) ==
    \/ stack = <<>> /\ stack' = tasks /\ UNCHANGED nested
    \/ /\ Top("callout") /\ nested < MaxNested
       /\ stack' = tasks \o stack
       /\ nested' = nested + 1

\* The listener returns.
Return ==
    /\ Top("callout")
    /\ Run(<<>>)
    /\ UNCHANGED <<tracking, ownership, draining, session, epoch, flows, stall, disc, term, raw,
                   verdict, counters, seen, log>>

(***************************************************************************)
(* The send-state tracker.                                                 *)
(***************************************************************************)
FanRecursive == <<Task("fan")>>     \* variant: a nested event is delivered at once
\* emitSendState: a fan-out that is already running delivers the new event too.
Fan == IF emitting THEN <<>> ELSE <<Task("fan")>>
Emit(i, s) ==
    /\ events' = Append(events, [id |-> i, s |-> s])
    /\ emitting' = TRUE

FanOut ==
    /\ Top("fan")
    /\ IF events = <<>>
       THEN /\ emitting' = FALSE
            /\ Run(<<>>)
            /\ UNCHANGED events
       ELSE /\ events' = Tail(events)
            /\ Run(<<Callout, [t |-> "tell", event |-> Head(events)], Task("fan")>>)
            /\ UNCHANGED emitting
    /\ UNCHANGED <<tracker, ownership, draining, session, epoch, flows, stall, disc, term, raw,
                   verdict, counters, seen, log>>

\* The last listener is told, when the others have returned.
TellLast ==
    /\ Top("tell")
    /\ LET e == Head(stack).event IN
       seen' = [seen EXCEPT ![e.id] = Append(@, e.s)]
    /\ Run(<<>>)
    /\ UNCHANGED <<tracking, ownership, draining, session, epoch, flows, stall, disc, term, raw,
                   verdict, counters, log>>

\* The guards of trackerAdvance and trackerFail.
MayAdvance(i, s) == tracker[i] # "none" /\ Rank[tracker[i]] < Rank[s]

\* trackerAdvance and trackerFail, as a task of their own.
Transition(i, s) == [t |-> "transition", id |-> i, s |-> s]
Fails(is) == [k \in DOMAIN is |-> Transition(is[k], "failed")]
TrackerStep ==
    /\ Top("transition")
    /\ LET i == Head(stack).id
           s == Head(stack).s IN
       IF MayAdvance(i, s)
       THEN /\ tracker' = [tracker EXCEPT ![i] = s]
            /\ Emit(i, s)
            /\ Run(Fan)
       ELSE Run(<<>>) /\ UNCHANGED tracking
    /\ UNCHANGED <<ownership, draining, session, epoch, flows, stall, disc, term, raw, verdict,
                   counters, seen, log>>

(***************************************************************************)
(* Losing the socket.                                                      *)
(***************************************************************************)
Published(l) == \E k \in DOMAIN l : l[k].pub

RecoverySpentNever(l) == issued     \* variant: a loss does not use up the allowance
RecoverySpent(l) == issued \/ (~disc /\ ~term /\ Published(l))

\* The client's own listener for the state "false"; `l' is the ledger at that time.
SocketLost(l) ==
    /\ epoch' = epoch + 1
    /\ issued' = RecoverySpent(l)
    /\ spent' = (spent \/ (~disc /\ ~term /\ Published(l)))
    /\ key' = 0 /\ pend' = <<>> /\ timer' = FALSE

\* forceReconnect: the socket goes, listeners hear of it, and a redial is
\* scheduled unless one of them disconnected.
ForceReconnect == <<Callout, [t |-> "resched", life |-> life]>>
SocketGone == conn' = "off" /\ open' = FALSE /\ connected' = FALSE /\ subscribed' = FALSE

\* publish: a socket that is not open refuses; one that is dialing may be open.
Accepts == open
Refuses == ~open \/ conn = "dialing"

MayResched(l) == life = l /\ ~rawTerm
Resched ==
    /\ Top("resched")
    /\ redial' = (redial \/ MayResched(Head(stack).life))
    /\ Run(<<>>)
    /\ UNCHANGED <<tracking, ownership, draining, session, epoch, flows, stall, disc, term,
                   sock, gen, life, rawTerm, verdict, counters, seen, log>>

(***************************************************************************)
(* Publishing.                                                             *)
(***************************************************************************)
IdsOf(l) == [k \in DOMAIN l |-> l[k].id]
\* recordUnacked: the ledger with the message, and without what the cap evicts.
Recorded(i) == IF i \in ToSet(IdsOf(ledger)) THEN ledger ELSE Append(ledger, [id |-> i, pub |-> FALSE])
Excess(l) == IF Len(l) > MaxUnacked THEN Len(l) - MaxUnacked ELSE 0
Kept(l) == SubSeq(l, Excess(l) + 1, Len(l))
Evicted(l) == SubSeq(IdsOf(l), 1, Excess(l))
Confirmed(l, i) == [k \in DOMAIN l |-> IF l[k].id = i THEN [l[k] EXCEPT !.pub = TRUE] ELSE l[k]]

LogPublication(i) ==
    /\ first' = IF i \in ToSet(first) THEN first ELSE Append(first, i)
    /\ wire' = IF replayed THEN Append(wire, i) ELSE wire
    /\ early' = IF replayed THEN early ELSE early \union {i}
    /\ UNCHANGED replayed

\* The fence around armLiveRetryTimer: what the listeners must not have changed.
Fence(l) == [ledger |-> l, key |-> key, epoch |-> epoch]
Arm(l) == <<[t |-> "arm", fence |-> Fence(l)]>>
ArmLiveRetryTimer ==
    /\ Top("arm")
    /\ timer' = (timer \/ (Head(stack).fence = Fence(ledger) /\ key # 0 /\ ~disc /\ ~term))
    /\ Run(<<>>)
    /\ UNCHANGED <<tracking, ownership, draining, key, pend, epoch, flows, stall, disc, term, raw,
                   verdict, counters, seen, log>>

\* drainOutboundQueue: one drain at a time.
Drain ==
    /\ Top("drain")
    /\ draining' = TRUE
    /\ Run(IF draining THEN <<>> ELSE <<Task("loop")>>)
    /\ UNCHANGED <<tracking, ownership, session, epoch, flows, stall, disc, term, raw, verdict,
                   counters, seen, log>>

DrainEnds ==
    /\ Top("loop") /\ (key = 0 \/ queue = <<>>)
    /\ draining' = FALSE
    /\ Run(<<>>)
    /\ UNCHANGED <<tracking, ownership, session, epoch, flows, stall, disc, term, raw, verdict,
                   counters, seen, log>>

\* seal, when the socket takes the frame.
SealPublishes ==
    /\ Top("loop") /\ key # 0 /\ queue # <<>> /\ Accepts
    /\ LET i == Head(queue)
           rec == Recorded(i)
           advances == MayAdvance(i, "sent") IN
       /\ queue' = Tail(queue)
       /\ ledger' = Confirmed(Kept(rec), i)
       /\ since' = (since \/ ~issued)
       /\ tracker' = IF advances THEN [tracker EXCEPT ![i] = "sent"] ELSE tracker
       /\ IF advances THEN Emit(i, "sent") ELSE UNCHANGED <<events, emitting>>
       /\ Run((IF advances THEN Fan ELSE <<>>) \o Arm(ledger') \o Fails(Evicted(rec)) \o <<Task("loop")>>)
       /\ LogPublication(i)
    /\ UNCHANGED <<draining, session, epoch, flows, issued, spent, disc, term, raw, verdict,
                   counters, seen>>

\* seal, when the socket no longer does: publish forces a reconnect and the
\* message stays in the ledger, unpublished.
SealFails ==
    /\ Top("loop") /\ key # 0 /\ queue # <<>> /\ Refuses
    /\ LET rec == Recorded(Head(queue)) IN
       /\ queue' = Tail(queue)
       /\ ledger' = Kept(rec)
       /\ SocketGone /\ SocketLost(ledger')
       /\ Run(ForceReconnect \o Fails(Evicted(rec)) \o <<Task("loop")>>)
    /\ UNCHANGED <<tracking, draining, flows, since, disc, term, redial, gen, life, rawTerm, verdict,
                   counters, seen, log>>

(***************************************************************************)
(* The application's calls.                                                *)
(***************************************************************************)
\* sendUserMessage: the queue owns the message before any listener runs.
Send ==
    /\ sends < MaxSends
    /\ sends' = sends + 1
    /\ LET i == sends'
           dead == disc \/ term IN
       /\ tracker' = [tracker EXCEPT ![i] = "queued"]
       /\ Emit(i, "queued")
       /\ queue' = IF dead THEN queue ELSE Append(queue, i)
       /\ Call(Fan \o <<IF dead THEN Transition(i, "failed") ELSE Task("drain")>>)
    /\ UNCHANGED <<ledger, draining, session, epoch, flows, stall, disc, term, raw, verdict,
                   calls, results, seen, log>>

TakePendingLedger == IdsOf(ledger)      \* variant: queued sends are forgotten
\* takePendingSendIds: what a retired lifecycle has to fail.
TakePending == queue \o Those(IdsOf(ledger), {k \in DOMAIN ledger : ledger[k].id \notin ToSet(queue)})

\* takePendingSendIds, the rest: queue and ledger are detached, the interval ends.
Detach ==
    /\ queue' = <<>> /\ ledger' = <<>>
    /\ since' = FALSE /\ issued' = FALSE /\ spent' = FALSE

\* disconnect: detach, reset the session, tear the socket down, tell the state
\* listeners, and only then fail what was detached.
Disconnect ==
    /\ calls < MaxCalls /\ calls' = calls + 1
    /\ disc' = TRUE
    /\ Detach
    /\ key' = 0 /\ pend' = <<>> /\ timer' = FALSE
    /\ epoch' = epoch + 2
    /\ SocketGone /\ redial' = FALSE /\ life' = life + 1
    /\ Call(<<Callout>> \o Fails(TakePending))
    /\ UNCHANGED <<tracking, draining, flows, term, gen, rawTerm, verdict, sends, results, seen, log>>

\* connectInternal: a socket that is closing is replaced; `connected' stays.
Dial ==
    IF ~open /\ ~rawTerm
    THEN /\ gen < MaxDials /\ gen' = gen + 1
         /\ conn' = "dialing" /\ open' = TRUE /\ subscribed' = FALSE
         /\ UNCHANGED connected
    ELSE UNCHANGED <<sock, gen>>

\* connect; on a terminally retired instance it does nothing.
Connect ==
    /\ calls < MaxCalls /\ calls' = calls + 1
    /\ ~term
    /\ disc' = FALSE
    /\ Dial
    /\ Call(<<>>)
    /\ UNCHANGED <<tracking, ownership, draining, session, epoch, flows, stall, term, redial,
                   life, rawTerm, verdict, sends, results, seen, log>>

\* requestApplicationRecovery, called by the wrapper for work it holds back.
RequestApplicationRecovery ==
    /\ calls < MaxCalls /\ calls' = calls + 1
    /\ ~disc /\ ~term
    /\ SocketGone /\ SocketLost(ledger)
    /\ Call(ForceReconnect)
    /\ UNCHANGED <<tracking, ownership, draining, flows, since, disc, term, redial, gen, life,
                   rawTerm, verdict, sends, results, seen, log>>

(***************************************************************************)
(* The socket.                                                             *)
(***************************************************************************)
\* The first PONG: listeners hear "true", the client's own first (onConnected, up
\* to its first await), then the application's.
Connected ==
    /\ conn = "dialing" /\ ~connected
    /\ Begin(<<Callout>>)
    /\ IF term
       THEN /\ SocketGone /\ redial' = FALSE /\ life' = life + 1 /\ SocketLost(ledger)
            /\ UNCHANGED flows
       ELSE /\ conn' = "up" /\ connected' = TRUE /\ subscribed' = open
            /\ UNCHANGED open
            /\ epoch' = epoch + 1
            /\ flows' = flows \union {[epoch |-> epoch', gen |-> gen, pc |-> "register"]}
            /\ key' = 0 /\ pend' = <<>> /\ timer' = FALSE
            /\ UNCHANGED <<redial, life, issued, spent>>
    /\ UNCHANGED <<tracking, ownership, draining, since, disc, term, gen, rawTerm, verdict, counters,
                   seen, log>>

\* The first PONG of a socket that replaced a closing one: nobody is told.
PongWhileConnected ==
    /\ conn = "dialing" /\ connected
    /\ conn' = "up"
    /\ Begin(<<>>)
    /\ UNCHANGED <<tracking, ownership, draining, session, epoch, flows, stall, disc, term, open,
                   connected, subscribed, redial, gen, life, rawTerm, verdict, counters, seen, log>>

\* The socket of the connection stops taking writes before anyone is told.
SocketCloses ==
    /\ open /\ open' = FALSE
    /\ Begin(<<>>)
    /\ UNCHANGED <<tracking, ownership, draining, session, epoch, flows, stall, disc, term, conn,
                   connected, subscribed, redial, gen, life, rawTerm, verdict, counters, seen, log>>

\* onclose: the redial is scheduled before the listeners are told.
OnClose ==
    /\ conn # "off"
    /\ Begin(<<Callout>>)
    /\ SocketGone /\ SocketLost(ledger)
    /\ redial' = TRUE
    /\ UNCHANGED <<tracking, ownership, draining, flows, since, disc, term, gen, life, rawTerm,
                   verdict, counters, seen, log>>

\* Heartbeat or handshake deadline.
HeartbeatTimeout ==
    /\ conn # "off"
    /\ Begin(ForceReconnect)
    /\ SocketGone /\ SocketLost(ledger)
    /\ UNCHANGED <<tracking, ownership, draining, flows, since, disc, term, redial, gen, life, rawTerm,
                   verdict, counters, seen, log>>

Redial ==
    /\ redial /\ redial' = FALSE
    /\ Begin(<<>>)
    /\ Dial
    /\ UNCHANGED <<tracking, ownership, draining, session, epoch, flows, stall, disc, term,
                   life, rawTerm, verdict, counters, seen, log>>

\* The relay rejects the credentials: errors are reported before the state.
FailTerminally ==
    /\ conn # "off"
    /\ rawTerm' = TRUE /\ redial' = FALSE /\ SocketGone
    /\ term' = TRUE
    /\ Detach /\ timer' = FALSE
    /\ Begin(Fails(TakePending) \o <<Callout, Task("down")>>)
    /\ UNCHANGED <<tracking, draining, key, pend, epoch, flows, disc, gen, life, verdict, counters,
                   seen, log>>

StateFalse ==
    /\ Top("down")
    /\ SocketLost(ledger)
    /\ Run(<<Callout>>)
    /\ UNCHANGED <<tracking, ownership, draining, flows, since, disc, term, raw, verdict, counters,
                   seen, log>>

(***************************************************************************)
(* Registration (onConnected after its first await).                       *)
(***************************************************************************)
FlowMatchesLive(f) == ~disc /\ ~term    \* variant: no epoch or generation guard
\* connectionFlowMatches
FlowMatches(f) == f.epoch = epoch /\ f.gen = gen /\ ~disc /\ ~term

ToUnwrap(f) == [f EXCEPT !.pc = "unwrap"]

\* The register reply; protocol listeners run before the key is unwrapped.  The
\* reply inbox outlives its socket, so a stale flow may be answered as well.
Registered(f) ==
    /\ f.pc = "register" /\ subscribed
    /\ flows' = flows \ {f}
    /\ Begin(IF FlowMatches(f) THEN <<Callout, [t |-> "unwrap", flow |-> f]>> ELSE <<>>)
    /\ UNCHANGED <<tracking, ownership, draining, session, epoch, stall, disc, term, raw, verdict,
                   counters, seen, log>>

BeginUnwrap ==
    /\ Top("unwrap")
    /\ LET f == Head(stack).flow IN
       flows' = IF FlowMatches(f) THEN flows \union {ToUnwrap(f)} ELSE flows
    /\ Run(<<>>)
    /\ UNCHANGED <<tracking, ownership, draining, session, epoch, stall, disc, term, raw, verdict,
                   counters, seen, log>>

\* A timeout or an unavailable agent: redial.
RegisterFails(f) ==
    /\ f.pc = "register"
    /\ flows' = flows \ {f}
    /\ IF FlowMatches(f)
       THEN /\ SocketGone /\ SocketLost(ledger)
            /\ Begin(ForceReconnect)
       ELSE /\ Begin(<<>>)
            /\ UNCHANGED <<sock, session, epoch, issued, spent>>
    /\ UNCHANGED <<tracking, ownership, draining, since, disc, term, redial, gen, life, rawTerm,
                   verdict, counters, seen, log>>

\* A rejected proof, a protocol mismatch or a key that does not unwrap
\* (failConnectionEpoch): retire the instance, fail everything, then the socket.
RegisterRejected(f) ==
    /\ f.pc = "register" => subscribed
    /\ flows' = flows \ {f}
    /\ IF FlowMatches(f)
       THEN /\ term' = TRUE
            /\ Detach /\ timer' = FALSE
            /\ Begin(Fails(TakePending) \o <<[t |-> "retire", gen |-> f.gen]>>)
       ELSE Begin(<<>>) /\ UNCHANGED <<term, ownership, stall, timer>>
    /\ UNCHANGED <<tracking, draining, key, pend, epoch, disc, raw, verdict, counters, seen, log>>

RetireEpochStale ==     \* variant: the teardown is tied to the epoch that failed
    /\ Top("retire")
    /\ epoch' = epoch + 1
    /\ Run(<<Callout, [t |-> "teardown", epoch |-> epoch, gen |-> Head(stack).gen]>>)
    /\ UNCHANGED <<tracking, ownership, draining, session, flows, stall, disc, term, raw, verdict,
                   counters, seen, log>>
RetireEpoch ==
    /\ Top("retire")
    /\ epoch' = epoch + 1
    /\ Run(<<Callout, [t |-> "teardown", epoch |-> epoch', gen |-> Head(stack).gen]>>)
    /\ UNCHANGED <<tracking, ownership, draining, session, flows, stall, disc, term, raw, verdict,
                   counters, seen, log>>

Teardown ==
    /\ Top("teardown")
    /\ IF epoch = Head(stack).epoch /\ gen = Head(stack).gen
       THEN /\ SocketGone /\ redial' = FALSE /\ life' = life + 1
            /\ SocketLost(ledger)
            /\ Run(<<Callout>>)
       ELSE Run(<<>>) /\ UNCHANGED <<sock, redial, life, session, epoch, issued, spent>>
    /\ UNCHANGED <<tracking, ownership, draining, flows, since, disc, term, gen, rawTerm, verdict,
                   counters, seen, log>>

\* The key is installed; buffered frames are delivered before the queue is flushed.
Unwrapped(f) ==
    /\ f.pc = "unwrap"
    /\ flows' = flows \ {f}
    /\ IF FlowMatches(f)
       THEN /\ key' = f.epoch /\ pend' = <<>> /\ replayed' = FALSE
            /\ Begin(<<[t |-> "deliver", frames |-> pend], [t |-> "flush", flow |-> f]>>)
       ELSE Begin(<<>>) /\ UNCHANGED <<key, pend, replayed>>
    /\ UNCHANGED <<tracking, ownership, draining, timer, epoch, stall, disc, term, raw, verdict,
                   counters, seen, first, wire, early>>

ReplayLast == queue \o IdsOf(ledger)    \* variant: behind what is already queued
\* flushQueue: the ledger is replayed first, in its order.
Replay == IdsOf(ledger) \o queue

\* sessionFlowMatches, flush, sessionFlowMatches, session listeners.
Flush ==
    /\ Top("flush")
    /\ LET f == Head(stack).flow IN
       IF FlowMatches(f) /\ key = f.epoch
       THEN /\ queue' = Replay /\ ledger' = <<>> /\ wire' = <<>> /\ replayed' = TRUE
            /\ Run(<<Task("drain"), [t |-> "established", flow |-> f]>>)
       ELSE Run(<<>>) /\ UNCHANGED <<ownership, wire, replayed>>
    /\ UNCHANGED <<tracking, draining, session, epoch, flows, stall, disc, term, raw, verdict,
                   counters, seen, first, early>>

Established ==
    /\ Top("established")
    /\ LET f == Head(stack).flow IN
       Run(IF FlowMatches(f) /\ key = f.epoch THEN <<Callout>> ELSE <<>>)
    /\ UNCHANGED <<tracking, ownership, draining, session, epoch, flows, stall, disc, term, raw,
                   verdict, counters, seen, log>>

(***************************************************************************)
(* Results of the agent.  The agent answers a message it got with one of   *)
(* two outcomes, always the same one (Ingress.tla), any number of times.   *)
(***************************************************************************)
Verdicts == {"accepted", "overloaded"}
Apply(fr) == LET s == IF fr.v = "accepted" THEN "accepted" ELSE "failed" IN
             [k \in DOMAIN fr.ids |-> Transition(fr.ids[k], s)]

ArmAfterNever(l) == <<>>    \* variant: a result leaves the timer cancelled
ArmAfter(l) == IF Published(l) THEN Arm(l) ELSE <<>>

\* drainOwnedResult and the message listeners, followed by `rest'.
Deliver(fr, rest) ==
    LET owned == ToSet(fr.ids) \intersect ToSet(IdsOf(ledger)) # {}
        left == Those(ledger, {k \in DOMAIN ledger : ledger[k].id \notin ToSet(fr.ids)}) IN
    /\ ledger' = left
    /\ IF owned
       THEN /\ since' = Published(left) /\ issued' = FALSE /\ spent' = FALSE
            /\ timer' = FALSE
       ELSE UNCHANGED <<stall, timer>>
    /\ stack' = Apply(fr) \o (IF owned THEN ArmAfter(left) ELSE <<>>) \o <<Callout>> \o rest

\* A batch of what was published, in that order, and its outcome.
Frames == {[ids |-> Those(first, K), v |-> v] : K \in SUBSET DOMAIN first, v \in Verdicts}

\* A frame arrives (one without ids stands for every other kind of frame); before
\* there is a key it is buffered.
ResultArrives(fr) ==
    /\ stack = <<>> /\ subscribed /\ results < MaxResults
    /\ results' = results + 1
    /\ \A k \in DOMAIN fr.ids : verdict[fr.ids[k]] \in {"none", fr.v}
    /\ verdict' = [i \in Id |-> IF i \in ToSet(fr.ids) THEN fr.v ELSE verdict[i]]
    /\ IF key = 0
       THEN /\ pend' = IF Len(pend) < MaxPending THEN Append(pend, fr) ELSE pend
            /\ UNCHANGED <<ledger, stall, timer, stack>>
       ELSE Deliver(fr, <<>>) /\ UNCHANGED pend
    /\ UNCHANGED <<tracking, queue, draining, key, epoch, flows, disc, term, raw, sends, calls, nested,
                   seen, log>>

\* drainPendingInbound, one frame; a listener may have ended the session.
DrainPendingInbound ==
    /\ Top("deliver")
    /\ LET fs == Head(stack).frames IN
       IF fs = <<>> \/ key = 0
       THEN Run(<<>>) /\ UNCHANGED <<ledger, stall, timer>>
       ELSE Deliver(Head(fs), <<[t |-> "deliver", frames |-> Tail(fs)]>> \o Tail(stack))
    /\ UNCHANGED <<tracking, queue, draining, key, pend, epoch, flows, disc, term, raw, verdict,
                   counters, seen, log>>

(***************************************************************************)
(* The live retry timer (retryDueUnacked).                                 *)
(***************************************************************************)
\* No result for the stall timeout: one reconnect.
StallRecovery ==
    /\ timer /\ since /\ ~issued /\ ledger # <<>>
    /\ SocketGone
    /\ epoch' = epoch + 1
    /\ issued' = TRUE /\ spent' = TRUE
    /\ key' = 0 /\ pend' = <<>> /\ timer' = FALSE
    /\ Begin(ForceReconnect)
    /\ UNCHANGED <<tracking, ownership, draining, flows, since, disc, term, redial, gen, life,
                   rawTerm, verdict, counters, seen, log>>

\* Entries whose time has come are published again, with their id.
RetryDue ==
    /\ timer
    /\ \/ /\ Accepts
          /\ Begin(<<>>)
          /\ UNCHANGED <<sock, session, epoch, issued, spent>>
       \/ /\ Refuses
          /\ SocketGone /\ SocketLost(ledger)
          /\ Begin(ForceReconnect)
    /\ UNCHANGED <<tracking, ownership, draining, flows, since, disc, term, redial, gen, life,
                   rawTerm, verdict, counters, seen, log>>

Calls == Send \/ Disconnect \/ Connect \/ RequestApplicationRecovery
Tasks ==
    \/ Return \/ FanOut \/ TellLast \/ TrackerStep \/ Resched \/ ArmLiveRetryTimer
    \/ Drain \/ DrainEnds \/ SealPublishes \/ SealFails
    \/ StateFalse \/ BeginUnwrap \/ RetireEpoch \/ Teardown \/ Flush \/ Established
    \/ DrainPendingInbound
Events ==
    \/ Connected \/ PongWhileConnected \/ SocketCloses \/ OnClose \/ HeartbeatTimeout \/ Redial \/ FailTerminally
    \/ \E f \in flows : Registered(f) \/ RegisterFails(f) \/ RegisterRejected(f) \/ Unwrapped(f)
    \/ \E fr \in Frames : ResultArrives(fr)
    \/ StallRecovery \/ RetryDue

Next == Calls \/ Tasks \/ Events
Spec == Init /\ [][Next]_vars

-----------------------------------------------------------------------------
\* When no call is running, a message that is neither accepted nor failed is owned
\* by the queue or by the ledger of a live instance, and by one of them only:
\* whatever listeners did on the way, no message is stranded and none is doubled.
NothingStranded ==
    stack = <<>> =>
        /\ \A i \in Id : tracker[i] \in {"queued", "sent"} =>
               i \in ToSet(queue) \union ToSet(IdsOf(ledger))
        /\ ToSet(queue) \intersect ToSet(IdsOf(ledger)) = {}
        /\ IsInjective(queue) /\ IsInjective(IdsOf(ledger))
        /\ disc \/ term => queue = <<>> /\ ledger = <<>>

\* Even the last listener sees the states of a message in their order, each once,
\* though an earlier one may cause later ones while earlier ones are still being told.
SeenInOrder ==
    \A i \in Id : \A a, b \in DOMAIN seen[i] : a < b => Rank[seen[i][a]] < Rank[seen[i][b]]

\* And when no call is running the last one they saw is the current one.
SeenIsCurrent ==
    stack = <<>> => \A i \in Id : tracker[i] # "none" =>
        seen[i] # <<>> /\ seen[i][Len(seen[i])] = tracker[i]

\* Listeners are told every state of a message, in order.
ToldInOrder == SeenInOrder /\ SeenIsCurrent

\* Messages are first published in the order in which they were sent, but for
\* those published in a session before its ledger was replayed: a listener of a
\* buffered frame may send, and one that dials a new socket over a closing one
\* cancels the replay.
FirstInOrder ==
    \A a, b \in DOMAIN first : a < b => first[a] < first[b] \/ first[a] \in early

\* From the flush of a session on, the replay and the new messages follow each
\* other in the order in which they were sent, and none is drained twice.
SessionInOrder == \A a, b \in DOMAIN wire : a < b => wire[a] < wire[b]

\* What reaches the wire follows the order of the sends.
SentInOrder == FirstInOrder /\ SessionInOrder

\* What reaches the wire follows the order of the sends, and what the listeners
\* are told of a message follows its life, whatever they call in between.
InOrder == ToldInOrder /\ SentInOrder

\* A session key belongs to the current epoch: a registration that was overtaken
\* by a reconnect installs nothing, and no loss of the connection leaves a key.
KeyIsCurrent == stack = <<>> /\ key # 0 => connected /\ key = epoch

\* With a session on a socket that hears the agent and a published message
\* unanswered, the retry timer is armed: no listener, result or eviction leaves
\* it unarmed.  (A socket dialled while its predecessor was closing is not
\* subscribed, and the session it shows is the predecessor's.)
RetryIsArmed ==
    stack = <<>> /\ key # 0 /\ subscribed /\ Published(ledger) => timer

\* An interval without results costs at most one recovery: after a socket loss or
\* a stall recovery no second stall recovery follows until a result arrives.
OneRecovery == [][spent => (~StallRecovery)]_vars

\* A terminally retired instance has no socket and dials no more.
RetiredIsDown == stack = <<>> /\ term => conn = "off" /\ ~redial /\ ~timer /\ key = 0

\* disconnect wins over a reconnect that was under way when a listener called it.
ClosedIsDown == stack = <<>> /\ disc => conn = "off" /\ ~redial

\* An instance that was closed, by its owner or by a terminal failure, stays down.
StaysDown == RetiredIsDown /\ ClosedIsDown

\* Nothing that belongs to an earlier connection brings a session back: neither an
\* overtaken registration nor a redial that was under way.
NoStaleSession == KeyIsCurrent /\ StaysDown
=============================================================================
