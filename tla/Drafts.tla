------------------------------- MODULE Drafts -------------------------------
(***************************************************************************)
(* The bubbles of one agent turn: createProgressDraftController            *)
(* (packages/plugin/src/message-adapter.ts) driven by one turn of          *)
(* handleInboundMessage (inbound.ts).                                      *)
(*                                                                         *)
(* A turn is a sequence of assistant messages.  The text of each streams   *)
(* into a LANE of its own, that turns into a bubble with its first frame;  *)
(* tool lines share one PREVIEW bubble, which the first durable frame may  *)
(* take over; a block or an uncorrelated final makes a bubble of its own.  *)
(* A lane may not show before its predecessors are resolved, since the     *)
(* widget appends an unknown bubble at the end, for good.                  *)
(*                                                                         *)
(* Callbacks run one after another (the serial queue), so each is one      *)
(* step.  `d' is the controller with the peer's screen; an operator on it  *)
(* is a function of the source.  A text is a message number and a length.  *)
(***************************************************************************)
EXTENDS Naturals, FiniteSets, Sequences, SequencesExt

CONSTANTS
    MaxMsg,     \* bound: assistant messages in the turn
    MaxLen,     \* bound: text streamed in the turn
    MaxBlocks,  \* bound: blocks in the turn
    MaxFlips    \* bound: changes of the peer's reachability

VARIABLES
    d,
    \* The agent's side
    msgs,       \* the messages so far: Seq of [len, blk]; blk: it came as a block
    blocks,     \* blocks on their way, in order: Seq of [m, st, indexed, timely]
    finals,     \* final payloads still to come
    stage       \* run, finals, then drained or failed, then over
vars == <<d, msgs, blocks, finals, stage>>

PV == 1                         \* the preview's wire id
None == [m |-> 0, n |-> 0]      \* no text
Text(m, n) == [m |-> m, n |-> n]
Full(m) == Text(m, MaxLen + 1)  \* the whole text, as blocks and finals carry it
NewLane(ix) ==
    [ix |-> ix,         \* assistantMessageIndex, 0 when it has none
     id |-> 0, txt |-> None,
     vis |-> FALSE,     \* streamedVisibleAnswerText
     rev |-> 0, tried |-> 0, bad |-> 0,     \* answerRevision; last tried; last failed
     closed |-> FALSE, res |-> "open", late |-> FALSE,
     settle |-> "none", tail |-> FALSE]     \* tail: withheld, may be an angle marker

Init ==
    /\ d = [lanes |-> <<NewLane(0)>>,
            pvRev |-> 0, pvOn |-> FALSE, pvWriter |-> TRUE, pvClaimed |-> FALSE, pvSettled |-> FALSE,
            resv |-> <<>>,      \* blockReservations: [ix, lane, pending]
            count |-> 0,        \* assistantMessageBoundaryCount
            epoch |-> TRUE,     \* lateReservationEpochOpen
            pend |-> 0,         \* pendingProgress: a lane, PVPending or 0
            sentOnce |-> FALSE, \* lastProgressSentAt # 0
            waiting |-> FALSE,  \* emptyPredecessorTimer
            routed |-> FALSE, buffered |-> <<>>,
            durable |-> FALSE, stopped |-> FALSE, next |-> 2,
            answered |-> FALSE, \* finalReplyDelivered, of the turn
            up |-> TRUE, flips |-> 0, failed |-> FALSE,
            wire |-> <<>>]      \* the peer's screen: Seq of [id, own, txt, fin, mixed, tied, alone]
    /\ msgs = <<>> /\ blocks = <<>> /\ finals = <<>> /\ stage = "run"

(***************************************************************************)
(* Frames.                                                                 *)
(***************************************************************************)
\* A loop over 1..n that changes the state
Each(step(_, _), s, n) == FoldLeft(step, s, [k \in 1..n |-> k])
PVPending == MaxMsg + MaxMsg + 2
Tools == 0
Lane(k) == k
Alone == MaxMsg + MaxMsg + 3    \* the owner of a bubble that belongs to no lane

Pending(s) == \E j \in DOMAIN s.resv : s.resv[j].pending
Bubble(s, id) == SelectInSeq(s.wire, LAMBDA b : b.id = id)
\* A bubble, with three remarks for the properties: two owners have written it; it
\* is a block that had its place reserved in time; no reservation was pending.
Show(s, id, own, txt, fin, tied) ==
    LET k == Bubble(s, id)
        b == [id |-> id, own |-> own, txt |-> txt, fin |-> fin,
              mixed |-> FALSE, tied |-> tied, alone |-> ~Pending(s)]
    IN  IF k = 0 THEN [s EXCEPT !.wire = Append(@, b)]
        ELSE [s EXCEPT !.wire[k] = [b EXCEPT !.mixed =
                s.wire[k].mixed \/ (s.wire[k].own # Tools /\ own # s.wire[k].own)
                \/ (own = Alone /\ s.wire[k].own = Alone)]]

DropPending(s, k) == IF s.pend = k THEN [s EXCEPT !.pend = 0] ELSE s
\* invalidateScaffoldWriter
NoScaffold(s) == DropPending([s EXCEPT !.pvWriter = FALSE], PVPending)
\* reserveProvisional: the first durable frame takes over the preview's bubble.
ClaimFree(s) == s.pvOn /\ ~s.durable /\ ~s.pvClaimed
\* commitReservation
Commit(s, id) ==
    NoScaffold([s EXCEPT !.pvClaimed = @ \/ id = PV, !.durable = TRUE,
                         !.next = IF id = s.next THEN @ + 1 ELSE @])
FreshId(s) == IF ClaimFree(s) THEN PV ELSE s.next

\* sendLaneFrame; a failure is recorded unless the attempt was speculative.
SendLane(s, k, fin, txt, speculative) ==
    LET id == IF s.lanes[k].id # 0 THEN s.lanes[k].id ELSE FreshId(s) IN
    IF s.up
    THEN Commit([Show(s, id, Lane(k), txt, fin, FALSE) EXCEPT
                    !.lanes[k].id = id, !.lanes[k].res = "materialized"], id)
    ELSE IF speculative THEN [s EXCEPT !.failed = TRUE]
    ELSE [s EXCEPT !.lanes[k].bad = s.lanes[k].rev, !.failed = TRUE]
\* sendIndependent
SendIndependent(s, txt, tied) ==
    IF s.up THEN Commit(Show(s, FreshId(s), Alone, txt, TRUE, tied), FreshId(s))
    ELSE [s EXCEPT !.failed = TRUE]

(***************************************************************************)
(* Lanes and the order they show in.                                       *)
(***************************************************************************)
Top(s) == Len(s.lanes)
FailedCurrent(l) == l.rev > 0 /\ l.bad = l.rev      \* laneHasFailedCurrentRevision
Suppressed(l) == l.res # "materialized" /\ FailedCurrent(l)     \* laneTerminalSuppressed
Barred(s, k) == \E j \in DOMAIN s.resv : s.resv[j].pending /\ s.resv[j].lane = k
\* laneOrderResolved
OrderResolved(s, k) ==
    LET l == s.lanes[k] IN
    /\ l.closed /\ ~Barred(s, k)
    /\ l.res \in {"materialized", "empty"} \/ FailedCurrent(l)
PredecessorsIgnored(s, k) == TRUE       \* variant: a lane shows as soon as it has text
PredecessorsResolved(s, k) == \A j \in 1..(k - 1) : OrderResolved(s, j)
\* releasableEmptyPredecessors, {} when something else is in the way
Releasable(s, k) ==
    LET open == {j \in 1..(k - 1) : ~OrderResolved(s, j)} IN
    IF Pending(s) \/ (\E j \in open : s.lanes[j].late) THEN {}
    ELSE {j \in open : s.lanes[j].closed /\ s.lanes[j].res = "unresolved" /\ s.lanes[j].txt = None}

\* settleLane: one terminal attempt
Settle(s, k, txt) ==
    IF s.lanes[k].settle # "none" THEN s
    ELSE LET a == SendLane([s EXCEPT !.lanes[k].settle = "bad"], k, TRUE, txt, FALSE)
         IN  [a EXCEPT !.lanes[k].settle = IF s.up THEN "ok" ELSE "bad"]

\* attemptProgress
AttemptLane(s, k) ==
    LET l == s.lanes[k] IN
    IF s.stopped \/ l.closed \/ l.settle # "none" \/ ~PredecessorsResolved(s, k) THEN s
    ELSE LET a == SendLane([s EXCEPT !.lanes[k].tried = l.rev], k, FALSE, l.txt, FALSE)
         IN  [a EXCEPT !.sentOnce = @ \/ s.up]
AttemptPreview(s) ==
    IF s.stopped \/ ~s.pvWriter THEN s
    ELSE IF s.up THEN [Show(s, PV, Tools, None, FALSE, FALSE) EXCEPT !.pvOn = TRUE, !.sentOnce = TRUE]
    ELSE [s EXCEPT !.failed = TRUE]
Attempt(s, f) == IF f = 0 THEN s ELSE IF f = PVPending THEN AttemptPreview(s) ELSE AttemptLane(s, f)
\* flushPendingProgress
FlushPending(s) == Attempt([s EXCEPT !.pend = 0], s.pend)
\* queueProgress: at once when the throttle is open; text outranks tool lines.
QueueProgress(s, f, open) ==
    IF s.stopped \/ (f = PVPending /\ s.pend \notin {0, PVPending}) THEN s
    ELSE IF open \/ ~s.sentOnce THEN Attempt([s EXCEPT !.pend = 0], f)
    ELSE [s EXCEPT !.pend = f]

\* scheduleEmptyPredecessorRelease: the current lane's text waits for a predecessor without any.
AwaitEmpty(s) ==
    LET z == Top(s) IN
    [s EXCEPT !.waiting = @ \/ /\ s.lanes[z].txt # None /\ s.lanes[z].settle = "none"
                               /\ ~s.stopped /\ ~PredecessorsResolved(s, z)
                               /\ Releasable(s, z) # {}]
\* releaseReadyLanes: `mode' is quiet, emit (progress of the current lane) or settle.
ReleaseReady(s, mode, open) ==
    LET one(t, k) ==
            LET l == t.lanes[k]
                owed == l.txt # None /\ l.settle = "none" /\ ~Suppressed(l)
            IN  IF ~PredecessorsResolved(t, k) THEN t
                ELSE IF l.closed \/ (k = Top(t) /\ mode = "settle" /\ l.txt # None)
                THEN IF owed THEN Settle(DropPending(t, k), k, l.txt) ELSE DropPending(t, k)
                ELSE IF k = Top(t) /\ mode = "emit" /\ l.txt # None /\ l.settle = "none"
                        /\ l.tried < l.rev /\ ~FailedCurrent(l)
                THEN QueueProgress(t, k, open) ELSE t
    IN  AwaitEmpty(Each(one, s, Top(s)))

HeldStaysHeld(s) == s       \* variant: a block does not wait for held text
\* emitHeldLaneTextBeforeIndependentDelivery: held text claims its place first.
EmitHeld(s) ==
    LET one(t, k) ==
            LET l == t.lanes[k] IN
            IF l.id # 0 \/ l.settle # "none" \/ l.txt = None \/ Suppressed(l) THEN t
            ELSE LET a == SendLane(DropPending(t, k), k, FALSE, l.txt, TRUE)
                 IN  IF t.up THEN [a EXCEPT !.lanes[k].tried = l.rev, !.sentOnce = TRUE] ELSE a
    IN  IF Pending(s) THEN s ELSE Each(one, s, Top(s))

\* resolveDeferredAngleMarkerTail: what was withheld was ordinary text after all.
ResolveTail(s) ==
    LET k == Top(s)
        l == s.lanes[k]
    IN  IF ~l.tail THEN s
        ELSE [s EXCEPT !.lanes[k] = [l EXCEPT !.tail = FALSE, !.txt = [@ EXCEPT !.n = @ + 1],
                !.rev = @ + 1, !.res = IF @ \in {"empty", "unresolved"} THEN "open" ELSE @]]

\* closeAndRotate
Rotate(s, ix) ==
    LET a == ResolveTail(s)
        k == Top(a)
        b == DropPending([a EXCEPT !.lanes[k].closed = TRUE,
                            !.lanes[k].res = IF a.lanes[k].txt = None /\ @ \notin {"materialized", "empty"}
                                             THEN "unresolved" ELSE @], k)
        \* attachIndexedReservations: an index is compared with the generation.
        attach(t, j) == IF t.epoch /\ t.resv[j].pending /\ t.resv[j].lane = 0 /\ t.resv[j].ix = k
                        THEN [t EXCEPT !.resv[j].lane = k + 1] ELSE t
    IN  ReleaseReady(Each(attach, [b EXCEPT !.lanes = Append(@, NewLane(ix))], Len(b.resv)), "quiet", FALSE)

\* retireReservation
Retire(s, j) ==
    IF ~s.resv[j].pending THEN s ELSE
    LET a == [s EXCEPT !.resv[j].pending = FALSE]
        k == s.resv[j].lane
    IN  IF k # 0 /\ ~Barred(a, k) /\ ~a.lanes[k].late /\ a.lanes[k].txt = None
           /\ a.lanes[k].res # "materialized"
        THEN [a EXCEPT !.lanes[k].res = "empty"] ELSE a
RetireReservationsOnly(s) == Each(Retire, [s EXCEPT !.epoch = FALSE], Len(s.resv))    \* variant
\* retireTentativeState
RetireAll(s) ==
    LET forget(t, k) ==
            [t EXCEPT !.lanes[k].late = FALSE,
                      !.lanes[k].res = IF t.lanes[k].closed /\ t.lanes[k].txt = None /\ @ # "materialized"
                                       THEN "empty" ELSE @]
    IN  Each(forget, Each(Retire, [s EXCEPT !.epoch = FALSE], Len(s.resv)), Top(s))

\* deliverTerminalIndependent
TerminalIndependent(s, txt) ==
    ReleaseReady(SendIndependent(EmitHeld(RetireAll(ResolveTail(s))), txt, FALSE), "quiet", FALSE)
\* settlePreviewIfAlone
SettlePreview(s) ==
    IF s.durable \/ ~s.pvOn \/ s.pvClaimed \/ s.pvSettled THEN s
    ELSE LET a == NoScaffold([s EXCEPT !.pvSettled = TRUE]) IN
         IF s.up THEN [Show(a, PV, Tools, None, TRUE, FALSE) EXCEPT !.durable = TRUE]
         ELSE [a EXCEPT !.failed = TRUE]
\* emitAuthoritativeFinalOnLane
FinalOnLane(s, k, txt) ==
    LET a == DropPending([s EXCEPT !.lanes[k].txt = txt, !.lanes[k].rev = @ + 1,
                                   !.lanes[k].tail = FALSE], k)
    IN  IF a.lanes[k].settle # "none" THEN SendLane(a, k, TRUE, txt, FALSE) ELSE Settle(a, k, txt)
\* materializedAnswerLanes
AnswerLanes(s) == SelectSeq([k \in DOMAIN s.lanes |-> k],
                            LAMBDA k : s.lanes[k].vis /\ s.lanes[k].res = "materialized")
\* flushBufferedOrdinaryFinals: one final is the current lane's, several are paired in order.
FlushFinals(s) ==
    LET targets == IF Len(s.buffered) = 1 THEN <<Top(s)>> ELSE AnswerLanes(s)
        one(t, i) == IF i > Len(targets) THEN TerminalIndependent(t, s.buffered[i])
                     ELSE FinalOnLane(t, targets[i], s.buffered[i])
    IN  Each(one, [s EXCEPT !.buffered = <<>>], Len(s.buffered))
\* terminalDrain
TerminalDrain(s, all) ==
    LET a == ReleaseReady(RetireAll(ResolveTail(s)), IF all THEN "settle" ELSE "quiet", FALSE)
    IN  IF all THEN FlushFinals(SettlePreview(a)) ELSE a

(***************************************************************************)
(* Callbacks of the turn.                                                  *)
(***************************************************************************)
Cur == Len(msgs)
Streamed == MapThenSumSet(LAMBDA m : msgs[m].len, DOMAIN msgs)
Controls(s) == d' = s

\* pushEvent
PushEvent(open) ==
    /\ stage = "run" /\ d.pvRev < 1
    /\ Controls(IF ~d.pvWriter THEN d ELSE QueueProgress([d EXCEPT !.pvRev = @ + 1], PVPending, open))
    /\ UNCHANGED <<msgs, blocks, finals, stage>>
\* handleAssistantMessageBoundary: the first one only names the lane.
Boundary ==
    /\ stage = "run" /\ Cur < MaxMsg
    /\ LET s == [d EXCEPT !.count = @ + 1] IN
       Controls(IF d.count = 0 THEN [s EXCEPT !.lanes[Top(s)].ix = 1] ELSE Rotate(s, s.count))
    /\ msgs' = Append(msgs, [len |-> 0, blk |-> FALSE])
    /\ UNCHANGED <<blocks, finals, stage>>
\* pushAnswerText: text that goes on, with or without a tail that is withheld; the
\* tail counts as text of the message.
PushAnswerText(tail, open) ==
    LET k == Top(d)
        t == Text(Cur, msgs[Cur].len + 1)
        s == [d EXCEPT !.lanes[k] = [@ EXCEPT !.txt = t, !.vis = TRUE, !.rev = @ + 1, !.tail = tail,
                            !.res = IF @ \in {"empty", "unresolved"} THEN "open" ELSE @]]
    IN  /\ stage = "run" /\ Cur > 0 /\ ~msgs[Cur].blk /\ Streamed < MaxLen
        /\ Controls(IF d.lanes[k].settle # "none" THEN d ELSE ReleaseReady(s, "emit", open))
        /\ msgs' = [msgs EXCEPT ![Cur].len = IF tail THEN @ + 2 ELSE @ + 1]
        /\ UNCHANGED <<blocks, finals, stage>>
\* pushAnswerText: text that does not continue the lane's, with no boundary before
Diverge(open) ==
    LET s == Rotate(d, 0)
        k == Top(s)
        a == [s EXCEPT !.lanes[k] = [@ EXCEPT !.txt = Text(Cur + 1, 1), !.vis = TRUE, !.rev = 1]]
    IN  /\ stage = "run" /\ Cur \in 1..(MaxMsg - 1) /\ Streamed < MaxLen /\ d.lanes[Top(d)].txt # None
        /\ d.lanes[Top(d)].settle = "none"
        /\ Controls(ReleaseReady(a, "emit", open))
        /\ msgs' = Append(msgs, [len |-> 1, blk |-> FALSE])
        /\ UNCHANGED <<blocks, finals, stage>>
\* A block of message m, the current one or an earlier one, comes: announced by
\* noteBlockReplyQueued or not, with or without an index.
BlockQueued(m, indexed, announced) ==
    LET ix == IF indexed THEN m ELSE 0
        unresolved == {k \in 1..Top(d) : d.lanes[k].res = "unresolved"}
        late == {k \in 1..Top(d) : d.lanes[k].late}
        first(S) == CHOOSE k \in S : \A j \in S : k <= j
        lane == IF indexed THEN IF ix + 1 <= Top(d) THEN ix + 1 ELSE 0
                ELSE IF late # {} THEN first(late) ELSE IF unresolved # {} THEN first(unresolved) ELSE Top(d)
        s == [d EXCEPT !.resv = Append(@, [ix |-> ix, lane |-> lane, pending |-> TRUE])]
    IN  /\ stage = "run" /\ ~msgs[m].blk
        /\ Cardinality({i \in DOMAIN msgs : msgs[i].blk}) < MaxBlocks
        /\ Controls(IF ~announced THEN d ELSE IF indexed THEN s ELSE [s EXCEPT !.lanes[lane].late = TRUE])
        /\ blocks' = Append(blocks, [m |-> m, st |-> "queued", indexed |-> indexed,
                                     timely |-> announced /\ \A k \in (m + 1)..Top(d) : d.lanes[k].id = 0])
        /\ msgs' = [msgs EXCEPT ![m].blk = TRUE]
        /\ UNCHANGED <<finals, stage>>

\* deliverAuthorizedBlock: what its own lane has streamed is not shown twice, and a
\* block without text shows nothing.
BlockIsStreamed(s, b) ==
    b.indexed /\ \E k \in 1..Top(s) : s.lanes[k].ix = b.m /\ s.lanes[k].vis /\ ~Suppressed(s.lanes[k])
DeliverBlock(bare) ==
    LET b == Head(blocks) IN
    /\ blocks # <<>> /\ b.st = "queued" /\ stage \in {"run", "finals"}
    /\ Controls(IF bare \/ BlockIsStreamed(d, b) THEN d
                ELSE SendIndependent(EmitHeld(d), Full(b.m), b.timely))
    /\ blocks' = [blocks EXCEPT ![1].st = "delivered"]
    /\ UNCHANGED <<msgs, finals, stage>>
\* noteDeliveryLifecycle: a delivered block is settled, one that is skipped or
\* cancelled was never delivered; each retires the earliest reservation with its
\* index.  An error retires nothing.
BlockLeaves(st, retires, open) ==
    LET b == Head(blocks)
        js == {j \in DOMAIN d.resv : d.resv[j].pending /\ d.resv[j].ix = b.m}
        s == IF retires /\ b.indexed /\ js # {} THEN Retire(d, CHOOSE j \in js : \A i \in js : j <= i) ELSE d
    IN  /\ blocks # <<>> /\ b.st = st /\ stage \in {"run", "finals"}
        /\ Controls(ReleaseReady(s, "emit", open))
        /\ blocks' = Tail(blocks)
        /\ UNCHANGED <<msgs, finals, stage>>
BlockSettled(open) == BlockLeaves("delivered", TRUE, open)
BlockSkipped(open) == BlockLeaves("queued", TRUE, open)
BlockErrs(open) == BlockLeaves("queued", FALSE, open)

\* The run ends.  One final when the last message has text, else one per message
\* with text; none for what came as a block, and none in a run that was aborted.
RunEnds ==
    LET streamed == SelectSeq([m \in DOMAIN msgs |-> m], LAMBDA m : msgs[m].len > 0)
    IN  /\ stage = "run" /\ Cur > 0
        /\ \/ finals' = IF msgs[Cur].len > 0 THEN <<Cur>> ELSE IF msgs[Cur].blk THEN <<>> ELSE streamed
           \/ finals' = <<>>
        /\ stage' = "finals"
        /\ UNCHANGED <<d, msgs, blocks>>
\* finalize
Finalize ==
    LET txt == Full(Head(finals))
        k == Top(d)
        s == [d EXCEPT !.answered = @ \/ d.up]
    IN  /\ stage = "finals" /\ blocks = <<>> /\ finals # <<>>
        /\ Controls(IF ~d.lanes[k].vis /\ AnswerLanes(d) # <<>>
                    THEN [d EXCEPT !.buffered = Append(@, txt), !.answered = TRUE]
                    ELSE IF d.routed THEN TerminalIndependent(s, txt)
                    ELSE FinalOnLane(TerminalDrain([s EXCEPT !.routed = TRUE, !.lanes[k].tail = FALSE], FALSE), k, txt))
        /\ finals' = Tail(finals)
        /\ UNCHANGED <<msgs, blocks, stage>>
\* drain, after the last final
Drain ==
    /\ stage = "finals" /\ blocks = <<>> /\ finals = <<>>
    /\ Controls(TerminalDrain([d EXCEPT !.pend = 0, !.waiting = FALSE], TRUE))
    /\ stage' = "drained"
    /\ UNCHANGED <<msgs, blocks, finals>>
\* The dispatch throws: an apology on its own unless a final has been delivered,
\* then the drain.
RunFails ==
    /\ stage \in {"run", "finals"}
    /\ LET s == IF d.answered THEN d ELSE TerminalIndependent(d, Full(0)) IN
       Controls(TerminalDrain([s EXCEPT !.pend = 0, !.waiting = FALSE], TRUE))
    /\ stage' = "failed" /\ blocks' = <<>> /\ finals' = <<>>
    /\ UNCHANGED msgs
\* stop, in the turn's finally
Stop ==
    /\ stage \in {"drained", "failed"}
    /\ Controls([d EXCEPT !.stopped = TRUE, !.pend = 0, !.waiting = FALSE, !.buffered = <<>>])
    /\ stage' = "over"
    /\ UNCHANGED <<msgs, blocks, finals>>

\* The throttle's timer, and the timer that gives up on an empty predecessor
ThrottleFires ==
    /\ d.pend # 0
    /\ Controls(FlushPending(d))
    /\ UNCHANGED <<msgs, blocks, finals, stage>>
EmptyFires(open) ==
    /\ d.waiting
    /\ LET z == Top(d)
           r == Releasable(d, z)
           s == [d EXCEPT !.waiting = FALSE]
           give(t, k) == IF k \in r THEN [t EXCEPT !.lanes[k].res = "empty"] ELSE t
           a == ReleaseReady(Each(give, s, z), "emit", open)
       IN  Controls(IF r = {} THEN s ELSE IF a.pend = z THEN FlushPending(a) ELSE a)
    /\ UNCHANGED <<msgs, blocks, finals, stage>>
\* The peer becomes unreachable, or reachable again.
Flip ==
    /\ d.flips < MaxFlips /\ stage # "over"
    /\ Controls([d EXCEPT !.up = ~@, !.flips = @ + 1])
    /\ UNCHANGED <<msgs, blocks, finals, stage>>

Next ==
    \/ Boundary \/ RunEnds \/ Finalize \/ Drain \/ RunFails \/ Stop \/ ThrottleFires \/ Flip
    \/ \E b \in BOOLEAN :
          \/ PushEvent(b) \/ Diverge(b) \/ DeliverBlock(b) \/ EmptyFires(b)
          \/ BlockSettled(b) \/ BlockSkipped(b) \/ BlockErrs(b)
          \/ \E tail \in BOOLEAN : PushAnswerText(tail, b)
          \/ \E m \in DOMAIN msgs, said \in BOOLEAN : BlockQueued(m, b, said)
Spec == Init /\ [][Next]_vars

-----------------------------------------------------------------------------
OfLane(b) == b.own \in 1..Len(d.lanes)
\* The reservation of another message's block was attached to the lane of m.
Misled(m) == \E j \in DOMAIN d.resv : d.resv[j].lane = m /\ d.resv[j].ix \notin {0, m}
\* A bubble belongs to one lane or to one delivery of its own, and only a bubble
\* of tool lines is ever taken over.  Lanes turn into bubbles in the order of their
\* messages.  The block of a message that did not stream, announced before the text
\* of a later message appeared, never appears below it; and when no frame was
\* refused, a delivery that found no reservation pending never appears above the
\* text of an earlier message, and an apology above none.  A block announced later
\* or not at all, one whose lane was resolved by the reservation of another index,
\* and one delivered while a reservation is pending may be out of order.
BubblesKeepTheirPlace ==
    /\ \A i \in DOMAIN d.wire : ~d.wire[i].mixed
    /\ \A i, j \in DOMAIN d.wire : i < j =>
          LET a == d.wire[i]
              b == d.wire[j]
          IN  /\ OfLane(a) /\ OfLane(b) => a.own < b.own
              /\ OfLane(a) /\ b.tied /\ msgs[b.txt.m].len = 0 /\ ~Misled(b.txt.m) => a.own <= b.txt.m
              /\ a.own = Alone /\ a.alone /\ OfLane(b) /\ ~d.failed => 0 < a.txt.m /\ a.txt.m <= b.own

Copies(m) == {i \in DOMAIN d.wire : d.wire[i].txt.m = m}
=============================================================================
