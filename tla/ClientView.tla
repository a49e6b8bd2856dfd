----------------------------- MODULE ClientView -----------------------------
(***************************************************************************)
(* The browser client's view state: WebChannelNATSClient                   *)
(* (packages/client/src/nats-client-wrapper.ts) over the send tracker and  *)
(* the connection that ClientSend models.                                  *)
(*                                                                         *)
(* A message sent while the agent works is HELD and released in order when *)
(* the turn ends and a session exists; a message sent from inside close()  *)
(* after a connect() is DEFERRED to the replacement connection; the rest   *)
(* is published.  `turnActive' says whether a turn of this client is open. *)
(*                                                                         *)
(* The wrapper runs without interruption except where it tells its         *)
(* listeners, which may call send, retract, connect and close.  The loops  *)
(* that tell them (release, commit of deferred work, close, /stop) are     *)
(* therefore several steps, during which only such calls, the callbacks    *)
(* they cause and a synchronous loss of the socket may happen.  Calls nest *)
(* like the calls of one thread do: `calls' is the stack of those that are *)
(* running and only the innermost goes on.  `view' is the object's state;  *)
(* an operator on it is a method.                                          *)
(***************************************************************************)
EXTENDS Naturals, FiniteSets, Sequences, SequencesExt

CONSTANTS
    Draft,      \* ids of agent messages
    MaxSends,   \* bound: ordinary messages
    MaxControls,\* bound: abort words and /stop
    MaxUps,     \* bound: reconnections
    MaxInputs,  \* bound: connect and close calls, and frames handled
    MaxDelayed  \* bound: callbacks that a running fan-out delays

ASSUME ViewAssumption ==
    /\ IsFiniteSet(Draft)
    /\ MaxSends \in Nat /\ MaxControls \in Nat /\ MaxUps \in Nat /\ MaxInputs \in Nat
    /\ MaxDelayed \in Nat \ {0}

VARIABLES
    view,       \* the wrapper
    \* The inner client, as the wrapper sees it
    tracker,    \* the tracked state of each wire id; "dropped": failed unpublished
    events,     \* send-state callbacks not yet delivered: Seq of [w, s, why]
    dial,       \* the inner client has a socket or is dialling one
    disc,       \* disconnected
    ups, inputs,
    \* History
    ended,      \* the last own turn that a settle has ended, in publish order
    early       \* typing arrived on this connection before its session

env == <<tracker, events, dial, disc>>
bounds == <<ups, inputs>>
vars == <<view, env, bounds, ended, early>>

Id == 1..(MaxSends + MaxControls)
\* A set of numbers in ascending order, and a list without the members of a set
Ascending(S) == [n \in 1..Cardinality(S) |-> CHOOSE k \in S : Cardinality({j \in S : j <= k}) = n]
Less(s, T) == LET ks == Ascending({k \in DOMAIN s : s[k] \notin T}) IN [n \in DOMAIN ks |-> s[ks[n]]]
\* A receipt record and its bubble, of ordinary text, an abort word or /stop; `wire'
\* is 0 until a wire id is reserved, `era' counts the /stop calls begun before it.
Receipt(kind, bubble, era) ==
    [st |-> "queued", eligible |-> kind = "text", used |-> FALSE, wire |-> 0,
     bubble |-> bubble, stop |-> kind = "stop", era |-> era]
NoReceipt == [Receipt("abort", "gone", 0) EXCEPT !.st = "none"]

Init ==
    /\ view = [n |-> 0,             \* receipts made so far
               rec |-> [r \in Id |-> NoReceipt],   \* receipts, in order of creation
               wires |-> <<>>,      \* wireIdToReceiptKey: receipt of each wire id
               held |-> <<>>, defer |-> <<>>,
               detached |-> <<>>,   \* work a running close() will fail
               open |-> <<>>,       \* openTurns
               active |-> FALSE,    \* state.turnActive
               typing |-> FALSE,
               drafts |-> [d \in Draft |-> [st |-> "none", turn |-> 0]],
               watch |-> {},        \* staleDraftWatch, with its timer
               stall |-> "off",     \* the held-stall episode: off, timing or issued
               fresh |-> FALSE,     \* replacementHeldNeedsFreshEpisode
               raw |-> TRUE, session |-> TRUE, closed |-> FALSE, terminal |-> FALSE,
               ask |-> FALSE,       \* connectDeferredUntilCloseCompletes
               calls |-> <<>>,      \* running calls: "stop", "release", "close", "commit"
               lit |-> FALSE,       \* the running close() found open turns
               stops |-> 0]
    /\ tracker = [w \in Id |-> "none"] /\ events = <<>> /\ dial = TRUE /\ disc = FALSE
    /\ ups = 0 /\ inputs = 0 /\ ended = 0 /\ early = FALSE

\* The depth counters of the wrapper are above 0 (closeTransactionDepth,
\* stopCommitDepth, heldReleaseCommitDepth and the commit's own).
Running(s, call) == Contains(s.calls, call)
Begin(s, call) == [s EXCEPT !.calls = Append(@, call)]
Return(s) == [s EXCEPT !.calls = Front(@)]
Innermost(call) == view.calls # <<>> /\ Last(view.calls) = call

(***************************************************************************)
(* Receipts and open turns.                                                *)
(***************************************************************************)
Rank == [queued |-> 0, sent |-> 1, accepted |-> 2, completed |-> 3, failed |-> 3]
Final == {"completed", "failed"}
\* receiptAdvances
Advances(from, to) == from \notin Final /\ Rank[to] > Rank[from]

SignalOff(s) == [s EXCEPT !.active = @ /\ s.open # <<>>]
ClearOpenTurns(s) == SignalOff([s EXCEPT !.open = <<>>])
CloseTurns(s, ts) == SignalOff([s EXCEPT !.open = Less(@, ts)])

MayOpenAgain(s, r, st) == st \in {"sent", "accepted"}     \* variant: no one-way latch
\* openTurnFromReceipt: the first successful publication spends the latch.
MayOpen(s, r, st) == st \in {"sent", "accepted"} /\ ~s.rec[r].used
Opens(s, r) == s.rec[r].eligible /\ s.rec[r].wire # 0 /\ s.raw /\ ~s.terminal /\ ~s.closed
OpenTurn(s, r) ==
    IF Opens(s, r)
    THEN [s EXCEPT !.rec[r].used = TRUE, !.open = Append(@, s.rec[r].wire), !.active = TRUE]
    ELSE [s EXCEPT !.rec[r].used = TRUE]

\* A receipt that advances; its bubble stays away once it is gone.
Advance(p, st, bubble) ==
    [p EXCEPT !.st = st, !.used = @ \/ st \in Final, !.bubble = IF @ = "gone" THEN @ ELSE bubble]
\* receiptTransition: the guard, the latch, the turn it opens or closes, the bubble.
ReceiptTransition(s, r, st, why, bubble) ==
    IF ~Advances(s.rec[r].st, st) THEN s ELSE
    LET a == [s EXCEPT !.rec[r] = Advance(@, st, bubble)]
        b == IF MayOpen(a, r, st) THEN OpenTurn(a, r) ELSE a
    IN  IF st = "failed" /\ why = "overloaded" THEN CloseTurns(b, {b.rec[r].wire}) ELSE b
\* receiptTransition to a failure of the wrapper's own, for each of `rs'
FailEach(s, rs, bubble) ==
    [s EXCEPT !.rec = [r \in Id |-> IF r \in ToSet(rs) /\ Advances(@[r].st, "failed")
                                    THEN Advance(@[r], "failed", bubble) ELSE @[r]]]
\* failHeldEntries, failDeferredReplacementOperations
FailAll(s, rs) == FailEach(s, rs, "plain")

Consume(s, rs) ==
    [s EXCEPT !.rec = [r \in Id |-> [s.rec[r] EXCEPT !.used = @ \/ (s.rec[r].eligible /\ r \in rs)]]]
\* consumeAllTurnOpenings, at the boundary of an explicit /stop
ConsumeAllTurnOpenings(s) == Consume(s, Id)
\* consumeAdvancedTurnOpeningsAcrossDisconnect
ConsumeAdvanced(s) ==
    Consume(s, {r \in Id : s.rec[r].wire # 0 /\ tracker[s.rec[r].wire] # "queued"})

(***************************************************************************)
(* Turn activity and the held-stall episode.                               *)
(***************************************************************************)
Working(s) == {d \in Draft : s.drafts[d].st = "working"}
TurnInFlight(s) == s.typing \/ Working(s) # {}
DeferredReplacementOpen(s) == Running(s, "close") /\ s.ask /\ ~s.closed /\ ~s.terminal
HeldSessionReady(s) == s.session /\ ~DeferredReplacementOpen(s) /\ ~s.closed /\ ~s.terminal
Done == [st |-> "done", turn |-> 0]     \* the turn of a finished draft does not matter
Finish(s, ds) ==
    [s EXCEPT !.drafts = [d \in Draft |-> IF d \in ds /\ @[d].st = "working"
                                          THEN Done ELSE @[d]],
              !.watch = @ \ ds]

\* beginHeldStallEpisode
BeginEpisode(s, ready) ==
    IF s.held = <<>> THEN s
    ELSE [s EXCEPT !.stall = CASE ~ready -> "issued"
                               [] ready /\ HeldSessionReady(s) -> "timing"
                               [] OTHER -> "off"]
\* ensureHeldStallEpisode: only the first owner starts one.
EnsureEpisode(s) == IF s.stall # "off" THEN s ELSE BeginEpisode(s, HeldSessionReady(s))
EndEpisode(s) == [s EXCEPT !.stall = "off", !.fresh = FALSE]
ConsumeForRawLoss(s) == IF s.held = <<>> THEN s ELSE [s EXCEPT !.stall = "issued"]

ShouldHoldInFlight(s) ==    \* variant: no latch for what is already held
    /\ ~s.terminal
    /\ \/ DeferredReplacementOpen(s)
       \/ ~s.closed /\ (Running(s, "stop") \/ Running(s, "release") \/ TurnInFlight(s))
ShouldHoldOutsideStop(s) == \* variant: a running /stop holds nothing
    /\ ~s.terminal
    /\ \/ DeferredReplacementOpen(s)
       \/ ~s.closed /\ (Running(s, "release") \/ TurnInFlight(s) \/ s.held # <<>>)
\* shouldHold
ShouldHold(s) ==
    /\ ~s.terminal
    /\ \/ DeferredReplacementOpen(s)
       \/ ~s.closed /\ (Running(s, "stop") \/ Running(s, "release") \/ TurnInFlight(s) \/ s.held # <<>>)

\* maybeRelease: its guard; the loop is ReleaseOne.
MaybeRelease(s) ==
    IF /\ ~DeferredReplacementOpen(s) /\ ~Running(s, "stop") /\ ~Running(s, "release")
       /\ s.held # <<>> /\ ~TurnInFlight(s) /\ s.session /\ ~s.terminal
    THEN Begin(s, "release") ELSE s

(***************************************************************************)
(* Sending.                                                                *)
(***************************************************************************)
NewReceipt(s, kind, bubble) ==
    [s EXCEPT !.n = @ + 1, !.rec[s.n + 1] = Receipt(kind, bubble, s.stops)]
\* A wire id is reserved, the bubble staged, and the inner client owns the message.
GiveWire(s, r) ==
    [s EXCEPT !.wires = Append(@, r), !.rec[r] = [@ EXCEPT !.wire = Len(s.wires) + 1, !.bubble = "plain"]]

ShouldDeferReplacementOperation(s) ==
    ~s.closed /\ ~s.terminal /\ (DeferredReplacementOpen(s) \/ Running(s, "commit"))
\* publish, deferReplacementPublish
Publish(s, kind) ==
    LET n == NewReceipt(s, kind, "plain")
        r == n.n
    IN  IF ShouldDeferReplacementOperation(s)
        THEN [n EXCEPT !.defer = Append(@, r)]
        ELSE GiveWire(n, r)

\* send, its branch that holds
Hold(s) ==
    LET n == NewReceipt(s, "text", "pending") IN
    EnsureEpisode([n EXCEPT !.held = Append(@, n.n),
                            !.fresh = @ \/ DeferredReplacementOpen(s)])

\* markHeldRetracted
MarkHeldRetracted(s) ==
    IF s.held = <<>> THEN s ELSE
    FailEach(EndEpisode([s EXCEPT !.held = <<>>]), s.held, "retracted")
\* finalizeLocalTurnState
FinalizeLocalTurnState(s) == ClearOpenTurns(Finish([s EXCEPT !.typing = FALSE], Draft))

Failure(w) == [w |-> w, s |-> "failed", why |-> "other"]
\* The inner client gets a message with a new wire id: it owns it, or fails it at
\* once when it was closed or retired.
HandOver(s) ==
    LET w == Len(s.wires)
        dead == disc \/ s.terminal
    IN  /\ view' = s
        /\ IF w = Len(view.wires) THEN UNCHANGED <<tracker, events>>
           ELSE /\ tracker' = [tracker EXCEPT ![w] = IF dead THEN "dropped" ELSE "queued"]
                /\ events' = IF dead THEN Append(events, Failure(w)) ELSE events
AppStep(s) == HandOver(s) /\ UNCHANGED <<dial, disc, bounds, ended, early>>

\* No call is running: sockets, timers and frames get their turn.
Resting == view.calls = <<>> /\ events = <<>>
Ordinary == {r \in Id : view.rec[r].st # "none" /\ view.rec[r].eligible}
Control == {r \in Id : view.rec[r].st # "none" /\ ~view.rec[r].eligible}
MaySend == Cardinality(Ordinary) < MaxSends
\* A running /stop has its message still to come.
MayControl ==
    Cardinality(Control) + Cardinality({k \in DOMAIN view.calls : view.calls[k] = "stop"}) < MaxControls

\* send: ordinary text
Send == MaySend /\ AppStep(IF ShouldHold(view) THEN Hold(view) ELSE Publish(view, "text"))
\* send: an abort word goes to the control lane at once.
SendAbort == MayControl /\ AppStep(Publish(view, "abort"))
\* send: an explicit /stop, up to the listeners it tells; then, when what they
\* called has returned, its own message, and the release unless a /stop is around it.
StopBegins ==
    /\ MayControl
    /\ LET s == FinalizeLocalTurnState(MarkHeldRetracted(ConsumeAllTurnOpenings(view)))
       IN  AppStep(Begin([s EXCEPT !.stops = @ + 1], "stop"))
StopCommits ==
    /\ Innermost("stop")
    /\ AppStep(MaybeRelease(Return(Publish(view, "stop"))))
\* retract: a bubble that is held or was retracted goes away.
Retract(r) ==
    /\ view.rec[r].bubble \in {"pending", "retracted"}
    /\ LET left == [view EXCEPT !.held = Less(@, {r}), !.rec[r].bubble = "gone"]
           s == IF view.held # <<>> /\ left.held = <<>> THEN EndEpisode(left) ELSE left
       IN  AppStep(ReceiptTransition(s, r, "failed", "cancelled", "gone"))

\* maybeRelease: one turn of its loop.  Only the last entry is fenced.
ReleaseOne ==
    /\ Innermost("release")
    /\ LET last == Len(view.held) = 1
           s == IF last THEN EndEpisode(view) ELSE view
       IN  AppStep(IF view.held = <<>> \/ (last /\ ~HeldSessionReady(s))
                   THEN Return(s)
                   ELSE GiveWire([s EXCEPT !.held = Tail(@)], Head(s.held)))

(***************************************************************************)
(* Connection.                                                             *)
(***************************************************************************)
\* The onState handler.
OnState(s, connected) ==
    LET lost == ~connected \/ s.session
        a == [s EXCEPT !.raw = connected, !.session = FALSE, !.watch = {}]
        b == IF lost THEN ConsumeForRawLoss(a) ELSE a
    IN  IF s.terminal \/ connected THEN b
        ELSE ClearOpenTurns([ConsumeAdvanced(b) EXCEPT !.typing = FALSE])

\* The onSession handler.
OnSession(s) ==
    IF s.terminal \/ s.closed THEN s ELSE
    LET a == [s EXCEPT !.session = TRUE]
        b == IF a.fresh THEN BeginEpisode([a EXCEPT !.fresh = FALSE], TRUE) ELSE a
    IN  MaybeRelease([b EXCEPT !.watch = Working(b)])

\* The onError handler: the instance is retired for good.
OnError(s) ==
    LET a == [s EXCEPT !.terminal = TRUE, !.ask = FALSE, !.fresh = FALSE, !.held = <<>>, !.defer = <<>>]
        b == IF s.held = <<>> THEN a ELSE EndEpisode(a)
        c == FailAll(FailAll(b, s.held), s.defer)
    IN  ClearOpenTurns([Finish(c, Draft) EXCEPT !.typing = FALSE])

\* What the inner client still owns fails; listeners hear of it in order.
Sweep == [w \in Id |-> CASE tracker[w] = "queued" -> "dropped" [] tracker[w] = "sent" -> "failed"
                          [] OTHER -> tracker[w]]
Swept == LET pending == Ascending({w \in Id : tracker[w] \in {"queued", "sent"}})
         IN  [k \in DOMAIN pending |-> Failure(pending[k])]

Input == inputs < MaxInputs /\ inputs' = inputs + 1

RawUp ==
    /\ Resting /\ dial /\ ~view.raw /\ ~view.terminal
    /\ ups < MaxUps /\ ups' = ups + 1
    /\ view' = OnState(view, TRUE)
    /\ early' = FALSE
    /\ UNCHANGED <<env, inputs, ended>>
Session ==
    /\ Resting /\ view.raw /\ ~view.session
    /\ view' = OnSession(view)
    /\ UNCHANGED <<env, bounds, ended, early>>
\* Also in the middle of a release: the socket may close while it is written to.
RawLost ==
    /\ view.raw /\ (view.calls = <<>> \/ Innermost("release"))
    /\ view' = OnState(view, FALSE)
    /\ early' = FALSE
    /\ UNCHANGED <<env, bounds, ended>>
Terminal ==
    /\ Resting /\ dial /\ ~view.terminal
    /\ view' = OnError(view)
    /\ tracker' = Sweep /\ events' = events \o Swept
    /\ UNCHANGED <<dial, disc, bounds, ended, early>>

\* connect: from inside close() it only records the intent.
Connect ==
    /\ Input
    /\ ~view.terminal
    /\ LET s == [view EXCEPT !.closed = FALSE] IN
       IF Running(view, "close")
       THEN view' = [s EXCEPT !.ask = TRUE] /\ UNCHANGED <<dial, disc>>
       ELSE view' = s /\ dial' = TRUE /\ disc' = FALSE
    /\ UNCHANGED <<tracker, events, ups, ended, early>>

\* close, up to the inner disconnect: this lifecycle's work is detached.
Detach(s) ==
    LET a == [s EXCEPT !.closed = TRUE, !.ask = FALSE, !.watch = {},
                       !.held = <<>>, !.defer = <<>>, !.open = <<>>]
    IN  IF s.held = <<>> THEN a ELSE EndEpisode(a)
Teardown(s) == IF s.raw THEN OnState(s, FALSE) ELSE s
Inner ==
    /\ tracker' = Sweep /\ events' = events \o Swept
    /\ dial' = FALSE /\ disc' = TRUE
    /\ UNCHANGED <<ups, ended, early>>
CloseBegins ==
    /\ Input
    /\ ~Running(view, "close")
    /\ view' = [Teardown(Begin(Detach(view), "close"))
                    EXCEPT !.lit = view.open # <<>>, !.detached = view.defer \o view.held]
    /\ Inner
\* close again, from a listener of the teardown: it runs to its end inside it.
CloseNested ==
    /\ Input
    /\ Running(view, "close")
    /\ view' = FailAll(Detach(view), view.defer \o view.held)
    /\ Inner
\* close, the rest: the signal, the detached work.
CloseEnds(s) ==
    Return([FailAll([s EXCEPT !.active = @ /\ ~(s.lit /\ s.open = <<>>)], s.detached)
                EXCEPT !.detached = <<>>, !.lit = FALSE])
\* finishDeferredCloseConnect
FinishClose ==
    /\ Innermost("close")
    /\ LET s == CloseEnds(view)
           again == s.ask /\ ~s.closed /\ ~s.terminal
       IN  IF again
           THEN view' = Begin([s EXCEPT !.ask = FALSE], "commit") /\ dial' = TRUE /\ disc' = FALSE
           ELSE view' = FailAll([s EXCEPT !.ask = FALSE, !.defer = <<>>], s.defer) /\ UNCHANGED <<dial, disc>>
    /\ UNCHANGED <<tracker, events, bounds, ended, early>>
\* commitDeferredReplacementOperation, one turn of the loop
CommitOne ==
    /\ Innermost("commit")
    /\ AppStep(IF view.defer = <<>> THEN Return(view)
               ELSE LET s == [view EXCEPT !.defer = Tail(@)] IN
                    IF view.closed \/ view.terminal
                    THEN FailAll([view EXCEPT !.defer = <<>>], view.defer)
                    ELSE IF view.rec[Head(view.defer)].st \in Final THEN s
                    ELSE GiveWire(s, Head(view.defer)))

(***************************************************************************)
(* The inner client's tracker (ClientSend), and its callbacks in order.    *)
(***************************************************************************)
\* A transition is told at once, or after the fan-out that is running.
Tracks(w, s, why) ==
    /\ tracker' = [tracker EXCEPT ![w] = s]
    /\ IF Resting
       THEN view' = ReceiptTransition(view, view.wires[w], s, why, "plain") /\ UNCHANGED events
       ELSE /\ Len(events) < MaxDelayed
            /\ events' = Append(events, [w |-> w, s |-> s, why |-> why])
            /\ UNCHANGED view
    /\ UNCHANGED <<dial, disc, bounds, ended, early>>
Sent(w) ==
    /\ tracker[w] = "queued" /\ view.raw /\ ~disc /\ ~view.terminal
    /\ \A x \in 1..(w - 1) : tracker[x] # "queued"
    /\ Tracks(w, "sent", "none")
Answered(w) == tracker[w] = "sent" /\ view.raw /\ Tracks(w, "accepted", "none")
Refused(w, why) == tracker[w] = "sent" /\ Tracks(w, "failed", why)
\* The onSendState handler.
OnSendState ==
    /\ events # <<>>
    /\ LET e == Head(events)
           r == view.wires[e.w]
       IN  view' = ReceiptTransition(view, r, e.s, e.why, "plain")
    /\ events' = Tail(events)
    /\ UNCHANGED <<tracker, dial, disc, bounds, ended, early>>

(***************************************************************************)
(* Frames.  Buffered ones are handled before the session is announced.     *)
(***************************************************************************)
\* handleMessage: activity is observed first, the release is tried last.
HandleMessage(after) ==
    /\ Resting /\ view.raw /\ Input
    /\ view' = MaybeRelease(after)
    /\ UNCHANGED <<env, ups>>
Observed == IF TurnInFlight(view) /\ HeldSessionReady(view) THEN BeginEpisode(view, TRUE) ELSE view

Typing ==
    /\ HandleMessage([Observed EXCEPT !.typing = TRUE])
    /\ early' = (early \/ ~view.session)
    /\ UNCHANGED ended
\* progress: a draft of a turn, this client's or another's (0)
Progress(d, t) ==
    /\ HandleMessage([Observed EXCEPT !.drafts[d] = [st |-> "working", turn |-> t],
                                            !.typing = FALSE, !.watch = @ \ {d}])
    /\ UNCHANGED <<ended, early>>
\* reasoning and tool_activity: the turn is alive.
Activity(t) ==
    /\ HandleMessage([Observed EXCEPT !.watch = {d \in @ : view.drafts[d].turn # t}])
    /\ UNCHANGED <<ended, early>>
AgentMessage(d) ==
    /\ HandleMessage([Observed EXCEPT !.drafts[d] = Done, !.typing = FALSE, !.watch = @ \ {d}])
    /\ UNCHANGED <<ended, early>>

\* consumeTurnOpeningsThrough: the open turns a settle of t ends.
Placed(s, t) ==
    IF Contains(s.open, t) THEN ToSet(SubSeq(s.open, 1, CHOOSE k \in DOMAIN s.open : s.open[k] = t))
    ELSE {w \in ToSet(s.open) : w <= t}
Placeable(s, t) ==
    /\ t # 0 /\ s.rec[s.wires[t]].eligible
    /\ Contains(s.open, t) \/ ~s.rec[s.wires[t]].used
Settle(s, t, outcome) ==
    LET a == IF Placeable(s, t) /\ ~Contains(s.open, t)
             THEN Consume(s, {r \in Id : s.rec[r].wire \in 1..t}) ELSE s
        b == IF t # 0 /\ outcome # "none" THEN ReceiptTransition(a, s.wires[t], outcome, "turn-failed", "plain") ELSE a
        c == IF Placeable(s, t) THEN CloseTurns(b, Placed(s, t)) ELSE b
    IN  Finish([c EXCEPT !.typing = FALSE], {d \in Draft : s.drafts[d].turn = t})
TurnSettled(t, outcome) ==
    /\ HandleMessage(Settle(view, t, outcome))
    /\ ended' = IF t # 0 /\ Placeable(view, t) /\ t > ended THEN t ELSE ended
    /\ UNCHANGED early

(***************************************************************************)
(* Timers.                                                                 *)
(***************************************************************************)
\* The held-stall timer: requestApplicationRecovery drops the socket at once.
StallFires ==
    /\ Resting /\ view.stall = "timing" /\ view.held # <<>> /\ HeldSessionReady(view)
    /\ view' = OnState([view EXCEPT !.stall = "issued"], FALSE)
    /\ UNCHANGED <<env, bounds, ended, early>>
\* expireStaleDrafts
StaleExpires ==
    /\ Resting /\ view.watch # {}
    /\ view' = MaybeRelease(ClearOpenTurns([Finish(view, view.watch) EXCEPT !.watch = {}]))
    /\ UNCHANGED <<env, bounds, ended, early>>

\* Turns that a frame may name: another client's (0), or one this client published.
Turns == {0} \cup {w \in Id : tracker[w] \in {"sent", "accepted", "failed"}}
Calls == Send \/ SendAbort \/ StopBegins \/ Connect \/ CloseBegins \/ CloseNested
         \/ \E r \in Id : Retract(r)
Continues == StopCommits \/ ReleaseOne \/ FinishClose \/ CommitOne \/ OnSendState
Inbound == \/ Typing
           \/ \E t \in Turns : \/ Activity(t)
                               \/ \E o \in {"completed", "failed", "none"} : TurnSettled(t, o)
                               \/ \E d \in Draft : Progress(d, t)
           \/ \E d \in Draft : AgentMessage(d)
Network == \/ RawUp \/ Session \/ RawLost \/ Terminal \/ StallFires \/ StaleExpires
           \/ \E w \in Id : Sent(w) \/ Answered(w) \/ \E why \in {"overloaded", "other"} : Refused(w, why)
Next == Calls \/ Continues \/ Inbound \/ Network
Spec == Init /\ [][Next]_vars

-----------------------------------------------------------------------------
\* Every message that is still to be answered has an owner: it is held, deferred,
\* detached by a running close, or the inner client has it and has not told all.
Owned ==
    \A r \in Id : view.rec[r].st = "queued" =>
        LET w == view.rec[r].wire IN
        \/ Contains(view.held \o view.defer \o view.detached, r)
        \/ w # 0 /\ (tracker[w] = "queued" \/ \E k \in DOMAIN events : events[k].w = w)
\* Nothing stays held when it could be released, nor after the instance was
\* retired or closed; and while a live session holds something back, a timer is
\* running that ends a turn which died silently.  The last part excepts `early': a
\* typing frame that the socket delivered before its session existed starts no
\* episode (observeHeldTurnActivity asks for the session), and the session's own
\* handler starts one only for a replacement or for working drafts, so what is
\* held for that typing alone waits for the next frame.
HeldIsServed ==
    Resting /\ view.held # <<>> =>
        /\ ~view.terminal /\ ~view.closed
        /\ view.session => /\ TurnInFlight(view)
                           /\ view.stall = "timing" \/ view.watch # {} \/ early
\* Ordinary messages reach the inner client in the order in which they were
\* sent, and what was sent from inside a /stop or after it goes behind it, unless
\* it failed unpublished because the client was closed or retired.
InOrder ==
    \A a, b \in DOMAIN view.wires :
        LET p == view.rec[view.wires[a]]
            q == view.rec[view.wires[b]]
        IN  /\ p.eligible /\ q.eligible /\ a < b => view.wires[a] < view.wires[b]
            /\ p.stop /\ q.eligible /\ q.era >= p.era /\ tracker[b] # "dropped" => a < b
Holds == Owned /\ HeldIsServed /\ InOrder

\* The turn indicator is on exactly when a turn of this client is open, no turn
\* is open that a settle has ended or that the connection lost, and each was
\* opened by a message that was published and whose latch is spent.
TurnSignal ==
    /\ ~Running(view, "close") => view.active = (view.open # <<>>)
    /\ \A k \in DOMAIN view.open :
          LET p == view.rec[view.wires[view.open[k]]] IN
          /\ view.open[k] > ended
          /\ p.used /\ p.eligible /\ p.st # "queued"
    /\ view.open # <<>> => view.raw /\ ~view.terminal /\ ~view.closed
=============================================================================
