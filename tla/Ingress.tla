------------------------------- MODULE Ingress -------------------------------
(***************************************************************************)
(* The inbound path of one peer, from the arrival of a user message to the *)
(* start of its turn.  It composes                                         *)
(*   - the bounded debouncer        (bounded-inbound-debouncer.ts),        *)
(*   - the flush with its outcome arbitration   (ingress-dedupe.ts),       *)
(*   - the serialized dispatcher and its lease  (inbound-queue.ts),        *)
(*   - the overflow resolver        (inbound-overflow-resolver.ts),        *)
(*   - /stop, peer retirement and account teardown as the account runtime  *)
(*     wires them                   (nats-account-runtime.ts),             *)
(* over the outcome store (here its promise: atomic calls under a FIFO     *)
(* gate per message; OutcomeStore.tla has the detail) and the retention    *)
(* reservations (Retention.tla has their accounting).                      *)
(*                                                                         *)
(* The plugin is single threaded; a step runs from one await to the next.  *)
(* Flushes, cancellations, resolvers, frames and turns interleave freely.  *)
(***************************************************************************)
EXTENDS Naturals, FiniteSets, Sequences, SequencesExt

CONSTANTS
    Msg,            \* message ids of the peer
    IdLess,         \* frames of an older client, without an id
    MaxArrivals,    \* bound: frames delivered, replays and duplicates included
    MaxBatch,       \* bound: frames per debounce window (1: debounceMs = 0)
    MaxStops,       \* bound: explicit /stop frames
    MaxRetires,     \* bound: unregistrations of the peer
    MaxRuntimes,    \* bound: successive runtimes of the account in the process
    MaxFaults,      \* bound: store calls that answer "unknown"
    MaxPerSession,  \* maxMessagesPerSession
    MaxPerProcess   \* maxMessagesPerProcess

ASSUME IdLessAssumption == IdLess \subseteq Msg
ASSUME BoundsAssumption == MaxRuntimes \in Nat \ {0} /\ MaxStops \in Nat

VARIABLES
    ent,        \* Seq of entries: every frame a debouncer retained, by arrival
    waiting,    \* Seq of entry numbers: the open debounce window
    queued,     \* Seq of batches detached and not yet flushed
    gen,        \* keyGeneration
    inflight,   \* inflightByKey: entries detached and not settled
    ids,        \* inflightIds
    flush,      \* [1..MaxRuntimes -> the flush of that runtime]
    cancel,     \* [1..MaxStops -> the cancellation batch of that /stop]
    over,       \* [Msg -> the overflow task of the message]
    pending,    \* the dispatcher's buffer
    turn,       \* the dispatcher's running turn
    marker,     \* [Msg -> SUBSET {"accepted", "overloaded"}]: the stored outcomes
    hot,        \* [Msg -> what peek shows]
    gate,       \* [Msg -> Seq of store callers; the head owns the gate]
    receipt,    \* [Msg -> "none", or the unsettled write of the gate's owner]
    tomb,       \* CancelledInboundFallbackTombstones
    rt,         \* number of the current runtime
    live,       \* it has not been disposed
    token,      \* the peer's retention session token
    arrivals, stops, retires, faults,   \* counters for the bounds
    \* History:
    ran,        \* Seq of entries whose handler started
    admitted,   \* messages committed to the dispatcher
    killed,     \* messages /stop dropped and whose suppression still stands
    stopped,    \* messages /stop ever dropped
    acked, rejected,    \* messages for which an ACK / a rejection was published
    broken      \* what went wrong: a throw in an offer or a /stop, an id lost from the index

debouncer == <<ent, waiting, queued, gen, inflight, ids>>
dispatcher == <<pending, turn>>
store == <<marker, hot, gate, receipt>>
runtime == <<rt, live, token>>
counters == <<arrivals, stops, retires, faults>>
history == <<ran, admitted, killed, stopped, acked, rejected, broken>>
vars == <<debouncer, flush, cancel, over, dispatcher, store, tomb, runtime, counters, history>>

Runtime == 1..MaxRuntimes
StopNo == 1..MaxStops
NoFlush == [pc |-> "idle", batch |-> <<>>, i |-> 1, intact |-> TRUE,
            offers |-> <<>>, acks |-> {}, rejs |-> {}]
NoTask == [pc |-> "none", recover |-> FALSE, cancelled |-> FALSE, token |-> 0]
NoTurn == [pc |-> "idle", ents |-> <<>>]
NoCancel == [pc |-> "done", i |-> 1, rt |-> 0, ents |-> <<>>]

Init ==
    /\ ent = <<>> /\ waiting = <<>> /\ queued = <<>>
    /\ gen = 0 /\ inflight = {} /\ ids = {}
    /\ flush = [r \in Runtime |-> NoFlush]
    /\ cancel = [c \in StopNo |-> NoCancel]
    /\ over = [m \in Msg |-> NoTask]
    /\ pending = <<>> /\ turn = NoTurn
    /\ marker = [m \in Msg |-> {}]
    /\ hot = [m \in Msg |-> "none"]
    /\ gate = [m \in Msg |-> <<>>]
    /\ receipt = [m \in Msg |-> "none"]
    /\ tomb = {}
    /\ rt = 1 /\ live = TRUE /\ token = 1
    /\ arrivals = 0 /\ stops = 0 /\ retires = 0 /\ faults = 0
    /\ ran = <<>> /\ admitted = {} /\ killed = {} /\ stopped = {}
    /\ acked = {} /\ rejected = {} /\ broken = {}

(***************************************************************************)
(* Entries and their reservations.                                         *)
(***************************************************************************)
\* A reservation is charged until its release is requested and nothing holds it.
Charged(e) == ~ent[e].req \/ ent[e].holds # {}

IsActiveUncancelled(e) ==   \* variant: does not notice /stop
    live /\ ent[e].rt = rt /\ ~ent[e].retired

\* RetainedDebounceEntry.isActive
IsActive(e) ==
    /\ live /\ ent[e].rt = rt
    /\ ~ent[e].creq
    /\ ent[e].gen = gen

Change(en, es, F(_)) == [x \in DOMAIN en |-> IF x \in es THEN F(en[x]) ELSE en[x]]
RequestRelease(en, es) == Change(en, es, LAMBDA r : [r EXCEPT !.req = TRUE])
HoldFor(en, es, why) == Change(en, es, LAMBDA r : [r EXCEPT !.holds = @ \union {why}])
Unhold(en, es, why) == Change(en, es, LAMBDA r : [r EXCEPT !.holds = @ \ {why}])
Transfer(en, es, owner) == Change(en, es, LAMBDA r : [r EXCEPT !.owner = owner])

IdsOf(es) == {ent[e].m : e \in es} \ IdLess

\* Entries in the order of their arrival.
InOrder(es) == [n \in 1..Cardinality(es) |-> CHOOSE e \in es : Cardinality({x \in es : x <= e}) = n]

\* settleEntries, the part that concerns the entries.
SettleFlush(en, es) ==
    RequestRelease(en, {e \in es : ~en[e].cpend /\ en[e].owner # "pending"})
SettleCancel(en, es) ==
    Change(en, es, LAMBDA r : [r EXCEPT !.cpend = FALSE, !.crun = FALSE, !.req = TRUE,
                                        !.holds = @ \ {"cancel"}])
SettleRetire(en, es) ==
    Change(en, es, LAMBDA r : [r EXCEPT !.retired = TRUE, !.cpend = FALSE, !.req = TRUE,
                                        !.holds = IF r.crun THEN @ ELSE @ \ {"cancel"}])

\* A flush leaves the entries a cancellation owns alone.
Settled(es) == {e \in es : ~ent[e].cpend}

\* keyGeneration is deleted with the last trace of the key.
NextGen(g, w, q, i, f) ==
    IF w = <<>> /\ q = <<>> /\ i = {} /\ f.pc = "idle" THEN 0 ELSE g

(***************************************************************************)
(* The outcome store.  A call joins the gate of its message, acts when it  *)
(* is at the head, and a record keeps the gate until its receipt is        *)
(* settled.  "unknown" leaves the stored outcome as it was, except that    *)
(* replaceOpposite may have removed the opposite one before it failed.     *)
(***************************************************************************)
Enqueue(m, actor) == gate' = [gate EXCEPT ![m] = Append(@, actor)]
AtHead(m, actor) == gate[m] # <<>> /\ Head(gate[m]) = actor /\ receipt[m] = "none"
Leave(m) == gate' = [gate EXCEPT ![m] = Tail(@)]
Fault == faults < MaxFaults /\ faults' = faults + 1

\* lookup: an overloaded marker wins over a dual accepted one, which goes.
LookupOutcome(m) ==
    IF "overloaded" \in marker[m] THEN "overloaded"
    ELSE IF "accepted" \in marker[m] THEN "accepted" ELSE "none"
LookupEffect(m) ==
    /\ marker' = IF "overloaded" \in marker[m]
                 THEN [marker EXCEPT ![m] = {"overloaded"}] ELSE marker
    /\ hot' = IF marker[m] = {} THEN hot ELSE [hot EXCEPT ![m] = LookupOutcome(m)]

KnownRejected(m) == "overloaded" \in marker[m]     \* variant: only the overloaded store

\* A lookup finds an outcome in either store.
Known(m) == marker[m] # {}

\* record accepted with replaceOpposite, then commit: how a cancelled message is
\* recorded by every one of its three callers.
RecordKilled(m) ==
    /\ marker' = [marker EXCEPT ![m] = {"accepted"}]
    /\ hot' = [hot EXCEPT ![m] = "accepted"]
RecordKilledUnknown(m) ==
    /\ \/ UNCHANGED <<marker, hot>>
       \/ /\ "overloaded" \in marker[m]
          /\ marker' = [marker EXCEPT ![m] = @ \ {"overloaded"}]
          /\ hot' = [hot EXCEPT ![m] = "none"]
\* The same, rolled back because its caller was invalidated meanwhile.
RecordKilledRolledBack(m) ==
    /\ marker' = [marker EXCEPT ![m] = @ \ {"overloaded"}]
    /\ hot' = [hot EXCEPT ![m] = "none"]

\* Settling every receipt an actor holds.
HeldBy(actor) == {m \in Msg : receipt[m] # "none" /\ Head(gate[m]) = actor}
CommitWrites(ms) ==
    /\ hot' = [m \in Msg |-> IF m \in ms THEN "accepted" ELSE hot[m]]
    /\ gate' = [m \in Msg |-> IF m \in ms THEN Tail(gate[m]) ELSE gate[m]]
    /\ receipt' = [m \in Msg |-> IF m \in ms THEN "none" ELSE receipt[m]]
    /\ UNCHANGED marker
RollbackWritesLate(ms) ==       \* variant: waits for the cancellation first
    UNCHANGED store
RollbackWritesKeeping(ms) ==    \* variant: only releases the gates
    /\ gate' = [m \in Msg |-> IF m \in ms THEN Tail(gate[m]) ELSE gate[m]]
    /\ receipt' = [m \in Msg |-> IF m \in ms THEN "none" ELSE receipt[m]]
    /\ UNCHANGED <<marker, hot>>
RollbackWrites(ms) ==
    /\ marker' = [m \in Msg |-> IF m \in ms /\ receipt[m] = "fresh"
                                THEN marker[m] \ {"accepted"} ELSE marker[m]]
    /\ hot' = [m \in Msg |-> IF m \in ms /\ receipt[m] = "fresh" /\ hot[m] = "accepted"
                             THEN "none" ELSE hot[m]]
    /\ gate' = [m \in Msg |-> IF m \in ms THEN Tail(gate[m]) ELSE gate[m]]
    /\ receipt' = [m \in Msg |-> IF m \in ms THEN "none" ELSE receipt[m]]

\* A step of a flush or of a cancellation runs on to its next await (pc "item")
\* before anything else does.
AtAwait ==
    /\ \A r \in Runtime : flush[r].pc # "item"
    /\ \A c \in StopNo : cancel[c].pc # "item"

(***************************************************************************)
(* The dispatcher.                                                         *)
(***************************************************************************)
LeaseOpen == flush[rt].pc # "idle"

\* drain and startTurn: the whole buffer becomes one turn, whose entries are
\* released before the handler runs.  `en' is the entries so far, `lease' says
\* whether a lease is open.
Drain(en, p, t, lease) ==
    IF t.pc = "idle" /\ ~lease /\ p # <<>>
    THEN /\ ent' = RequestRelease(en, ToSet(p))
         /\ pending' = <<>>
         /\ turn' = [pc |-> "starting", ents |-> p]
    ELSE /\ ent' = en
         /\ pending' = p
         /\ turn' = t

\* lease.offer accepts a supplied reservation that is live and of the current
\* session; transfer would throw on one whose release is requested.
OfferFits(e) == ~ent[e].req /\ ent[e].token = token

\* clearPending: the entries it drops from the buffer and from the open lease.
Dropped == ToSet(pending) \union
           {e \in DOMAIN flush[rt].offers : flush[rt].offers[e] # "back"}
Offer(offers, e, how) == [x \in DOMAIN offers \union {e} |-> IF x = e THEN how ELSE offers[x]]
AllBack(f) == [f EXCEPT !.offers = [e \in DOMAIN @ |-> "back"]]

\* The handler starts one microtask after the turn was chosen, and settles later.
StartHandler ==
    /\ AtAwait
    /\ turn.pc = "starting"
    /\ turn' = [turn EXCEPT !.pc = "running"]
    /\ ran' = ran \o turn.ents
    /\ UNCHANGED <<debouncer, flush, cancel, over, pending, store, tomb, runtime, counters,
                   admitted, killed, stopped, acked, rejected, broken>>

HandlerSettled ==
    /\ AtAwait
    /\ turn.pc = "running"
    /\ Drain(ent, pending, NoTurn, LeaseOpen)
    /\ UNCHANGED <<waiting, queued, gen, inflight, ids, flush, cancel, over, store, tomb,
                   runtime, counters, history>>

(***************************************************************************)
(* The debouncer: push.                                                    *)
(***************************************************************************)
NewEntry(m) ==
    [m |-> m, rt |-> rt, token |-> token, gen |-> gen,
     creq |-> FALSE, cpend |-> FALSE, cwait |-> FALSE, crun |-> FALSE, retired |-> FALSE,
     owner |-> "debounce-waiting", req |-> FALSE, holds |-> {}]

SessionUse == Cardinality({e \in DOMAIN ent : Charged(e) /\ ent[e].token = token})
ProcessUse == Cardinality({e \in DOMAIN ent : Charged(e)})
Room == SessionUse < MaxPerSession /\ ProcessUse < MaxPerProcess

Arrive(m) ==
    /\ AtAwait
    /\ live /\ arrivals < MaxArrivals /\ Len(waiting) < MaxBatch
    /\ arrivals' = arrivals + 1
    /\ UNCHANGED <<stops, retires, faults, runtime>>

Claimed(m) == m \notin IdLess /\ over[m].pc # "none"
InflightId(m) == m \notin IdLess /\ m \in ids

\* overflow-inflight and duplicate-inflight: the earlier copy owns the outcome.
PushDropped(m) ==
    /\ Arrive(m)
    /\ Claimed(m) \/ InflightId(m)
    /\ UNCHANGED <<debouncer, flush, cancel, over, dispatcher, store, tomb, history>>

\* known-outcome.  The cache may also have evicted the entry: then the frame takes
\* one of the other ways in.
PushKnown(m) ==
    /\ Arrive(m)
    /\ m \notin IdLess /\ ~Claimed(m) /\ m \notin tomb
    /\ \/ hot[m] = "accepted" /\ acked' = acked \union {m} /\ UNCHANGED rejected
       \/ hot[m] = "overloaded" /\ rejected' = rejected \union {m} /\ UNCHANGED acked
    /\ UNCHANGED <<debouncer, flush, cancel, over, dispatcher, store, tomb,
                   ran, admitted, killed, stopped, broken>>

Recover(m) == m \in tomb

\* tryStart of the resolver: one task for each session
ResolverBusy == \E x \in Msg : over[x].pc # "none" /\ over[x].token = token

\* Overflow: the frame is dropped; its id goes to the resolver if that has a slot
\* for the session.
PushOverflow(m) ==
    /\ Arrive(m)
    /\ ~Claimed(m) /\ ~InflightId(m) /\ ~Room
    /\ IF m \in IdLess \/ ResolverBusy
       THEN UNCHANGED <<over, gate>>
       ELSE /\ over' = [over EXCEPT ![m] =
                 [pc |-> IF Recover(m) THEN "recover" ELSE "lookup", recover |-> Recover(m),
                  cancelled |-> FALSE, token |-> token]]
            /\ Enqueue(m, <<"over", 0>>)
    /\ UNCHANGED <<debouncer, flush, cancel, dispatcher, marker, hot, receipt, tomb, history>>

PushRetained(m) ==
    /\ Arrive(m)
    /\ ~Claimed(m) /\ ~InflightId(m) /\ Room
    /\ ent' = Append(ent, NewEntry(m))
    /\ waiting' = Append(waiting, Len(ent) + 1)
    /\ ids' = ids \union ({m} \ IdLess)
    /\ UNCHANGED <<queued, gen, inflight, flush, cancel, over, dispatcher, store, tomb, history>>

Push(m) == PushDropped(m) \/ PushKnown(m) \/ PushOverflow(m) \/ PushRetained(m)

\* The debounce timer (or microtask) fires.
DetachAndQueue ==
    /\ AtAwait
    /\ live /\ waiting # <<>>
    /\ queued' = Append(queued, [ents |-> waiting, gen |-> gen])
    /\ inflight' = inflight \union ToSet(waiting)
    /\ ent' = Transfer(ent, ToSet(waiting), "debounce-inflight")
    /\ waiting' = <<>>
    /\ UNCHANGED <<gen, ids, flush, cancel, over, dispatcher, store, tomb, runtime, counters, history>>

(***************************************************************************)
(* The flush (createIngressOnFlush), run by the one worker of the key.     *)
(***************************************************************************)
Flusher(r) == <<"flush", r>>
Current(r) == flush[r].batch[flush[r].i]

\* The worker takes the next batch; one of an older generation is only settled.
RunFlush ==
    /\ AtAwait
    /\ live /\ queued # <<>> /\ flush[rt].pc = "idle"
    /\ queued' = Tail(queued)
    /\ LET b == Head(queued)
           es == ToSet(b.ents)
           settled == Settled(es) IN
       IF b.gen = gen
       THEN /\ flush' = [flush EXCEPT ![rt] = [NoFlush EXCEPT !.pc = "item", !.batch = b.ents]]
            /\ ent' = HoldFor(ent, es, "flush")
            /\ UNCHANGED <<gen, inflight, ids>>
       ELSE /\ ent' = SettleFlush(ent, es)
            /\ inflight' = inflight \ settled
            /\ ids' = ids \ IdsOf(settled)
            /\ gen' = NextGen(gen, waiting, queued', inflight', flush[rt])
            /\ UNCHANGED flush
    /\ UNCHANGED <<waiting, cancel, over, dispatcher, store, tomb, runtime, counters, history>>

\* fifoBlocked: the suffix from position k on is released, unclassified.
Block(r, en, k) ==
    /\ ent' = RequestRelease(en, {flush[r].batch[j] : j \in k..Len(flush[r].batch)})
    /\ flush' = [flush EXCEPT ![r].pc = "item", ![r].i = Len(flush[r].batch) + 1]

NextItem(r, f) == flush' = [flush EXCEPT ![r] = [f EXCEPT !.pc = "item", !.i = @ + 1]]

\* The synchronous prefix of an iteration.
FlushItem(r) ==
    LET f == flush[r]
        e == Current(r)
        m == ent[e].m IN
    /\ f.pc = "item" /\ f.i <= Len(f.batch)
    /\ \/ /\ ~IsActive(e)
          /\ Block(r, ent, f.i)
          /\ UNCHANGED <<gate, broken>>
       \/ /\ IsActive(e) /\ m \in IdLess
          /\ IF OfferFits(e)
             THEN /\ ent' = Transfer(ent, {e}, "pending")
                  /\ NextItem(r, [f EXCEPT !.offers = Offer(@, e, "committed")])
                  /\ UNCHANGED broken
             ELSE /\ broken' = broken \union {"offer"}
                  /\ NextItem(r, f) /\ UNCHANGED ent
          /\ UNCHANGED gate
       \/ /\ IsActive(e) /\ m \notin IdLess
          /\ flush' = [flush EXCEPT ![r].pc = IF m \in tomb THEN "recover" ELSE "lookup"]
          /\ Enqueue(m, Flusher(r))
          /\ UNCHANGED <<ent, broken>>
    /\ UNCHANGED <<waiting, queued, gen, inflight, ids, cancel, over, dispatcher,
                   marker, hot, receipt, tomb, runtime, counters,
                   ran, admitted, killed, stopped, acked, rejected>>

\* A tombstoned message: record and ACK what /stop already killed.
FlushRecover(r) ==
    LET f == flush[r]
        e == Current(r)
        m == ent[e].m IN
    /\ AtAwait
    /\ f.pc = "recover" /\ AtHead(m, Flusher(r))
    /\ Leave(m)
    /\ \/ /\ IsActive(e)
          /\ RecordKilled(m)
          /\ \E sent \in BOOLEAN :
               /\ acked' = IF sent THEN acked \union {m} ELSE acked
               /\ tomb' = IF sent THEN tomb \ {m} ELSE tomb
          /\ ent' = RequestRelease(ent, {e})
          /\ NextItem(r, f)
          /\ UNCHANGED faults
       \/ /\ ~IsActive(e)
          /\ RecordKilledRolledBack(m)
          /\ Block(r, ent, f.i)
          /\ UNCHANGED <<faults, tomb, acked>>
       \/ /\ Fault
          /\ RecordKilledUnknown(m)
          /\ Block(r, ent, f.i)
          /\ UNCHANGED <<tomb, acked>>
    /\ UNCHANGED <<waiting, queued, gen, inflight, ids, cancel, over, dispatcher, receipt,
                   runtime, arrivals, stops, retires,
                   ran, admitted, killed, stopped, rejected, broken>>

\* The lookup answers; a new message is offered to the dispatcher's lease and its
\* accepted outcome goes to be recorded.
FlushLookup(r) ==
    LET f == flush[r]
        e == Current(r)
        m == ent[e].m IN
    /\ AtAwait
    /\ f.pc = "lookup" /\ AtHead(m, Flusher(r))
    /\ \/ /\ Fault
          /\ Leave(m) /\ Block(r, ent, f.i)
          /\ UNCHANGED <<marker, hot, broken>>
       \/ /\ ~IsActive(e)
          /\ LookupEffect(m)
          /\ Leave(m) /\ Block(r, ent, f.i)
          /\ UNCHANGED <<faults, broken>>
       \/ /\ IsActive(e) /\ Known(m)
          /\ LookupEffect(m)
          /\ Leave(m)
          /\ ent' = RequestRelease(ent, {e})
          /\ NextItem(r, IF LookupOutcome(m) = "accepted" THEN [f EXCEPT !.acks = @ \union {m}]
                                                          ELSE [f EXCEPT !.rejs = @ \union {m}])
          /\ UNCHANGED <<faults, broken>>
       \/ /\ IsActive(e) /\ ~Known(m) /\ OfferFits(e)
          /\ ent' = Transfer(ent, {e}, "pending")
          /\ flush' = [flush EXCEPT ![r].pc = "record", ![r].offers = Offer(@, e, "provisional")]
          /\ gate' = [gate EXCEPT ![m] = Append(Tail(@), Flusher(r))]
          /\ UNCHANGED <<marker, hot, faults, broken>>
       \/ /\ IsActive(e) /\ ~Known(m) /\ ~OfferFits(e)
          /\ broken' = broken \union {"offer"}
          /\ Leave(m) /\ Block(r, ent, f.i)
          /\ UNCHANGED <<marker, hot, faults>>
    /\ UNCHANGED <<waiting, queued, gen, inflight, ids, cancel, over, dispatcher, receipt, tomb,
                   runtime, arrivals, stops, retires,
                   ran, admitted, killed, stopped, acked, rejected>>

\* The accepted outcome is recorded; its receipt, and with it the gate, is kept
\* until the footer.  An inactive caller rolls back at once but keeps its offer.
FlushRecord(r) ==
    LET f == flush[r]
        e == Current(r)
        m == ent[e].m IN
    /\ AtAwait
    /\ f.pc = "record" /\ AtHead(m, Flusher(r))
    /\ \/ /\ Fault
          /\ Leave(m)
          /\ IF IsActive(e)
             THEN /\ flush' = [flush EXCEPT ![r].pc = "item", ![r].i = Len(f.batch) + 1,
                                            ![r].offers[e] = "back"]
                  /\ ent' = RequestRelease(ent, {f.batch[j] : j \in f.i..Len(f.batch)})
             ELSE Block(r, ent, f.i + 1)
          /\ UNCHANGED <<marker, receipt>>
       \/ /\ ~IsActive(e)
          /\ Leave(m) /\ Block(r, ent, f.i + 1)
          /\ UNCHANGED <<marker, receipt, faults>>
       \/ /\ IsActive(e)
          /\ receipt' = [receipt EXCEPT ![m] = IF "accepted" \in marker[m] THEN "stale" ELSE "fresh"]
          /\ marker' = [marker EXCEPT ![m] = @ \union {"accepted"}]
          /\ NextItem(r, [f EXCEPT !.offers[e] = "recorded", !.acks = @ \union {m}])
          /\ UNCHANGED <<ent, gate, faults>>
    /\ UNCHANGED <<waiting, queued, gen, inflight, ids, cancel, over, dispatcher, hot, tomb,
                   runtime, arrivals, stops, retires, history>>

Attach(p, q) == p \o q

\* lease.finish and the settlement of the batch by runFlush: `f' is the flush with
\* its offers decided, `en' the entries.
EndFlush(r, f, en) ==
    LET es == ToSet(f.batch)
        attach == IF live /\ r = rt
                  THEN InOrder({e \in es \intersect DOMAIN f.offers : f.offers[e] = "committed"})
                  ELSE <<>>
        en1 == IF f.intact THEN SettleFlush(en, es) ELSE en
        settled == IF f.intact THEN Settled(es) ELSE {} IN
    /\ flush' = [flush EXCEPT ![r] = NoFlush]
    /\ inflight' = inflight \ settled
    /\ ids' = ids \ IdsOf(settled)
    /\ gen' = IF live /\ r = rt THEN NextGen(gen, waiting, queued, inflight', NoFlush) ELSE gen
    /\ Drain(Unhold(en1, es, "flush"), Attach(pending, attach), turn, IF r = rt THEN FALSE ELSE LeaseOpen)
    /\ admitted' = admitted \union IdsOf(ToSet(attach))

\* The footer of a batch that is still wholly active: commit writes, commit
\* offers, publish, finish.
FlushCommit(r) ==
    LET f == flush[r] IN
    /\ f.pc = "item" /\ f.i > Len(f.batch)
    /\ live /\ r = rt /\ \A e \in ToSet(f.batch) : IsActive(e)
    /\ CommitWrites(HeldBy(Flusher(r)))
    /\ acked' = acked \union f.acks
    /\ rejected' = rejected \union f.rejs
    /\ EndFlush(r, [f EXCEPT !.offers =
            [e \in DOMAIN @ |-> IF @[e] = "recorded" THEN "committed" ELSE @[e]]], ent)
    /\ UNCHANGED <<waiting, queued, cancel, over, tomb, runtime, counters,
                   ran, killed, stopped, broken>>

\* The footer of an invalidated batch, first half: roll back the writes, which
\* frees the gates a cancellation may be waiting for.
FlushInvalidated(r) ==
    LET f == flush[r] IN
    /\ f.pc = "item" /\ f.i > Len(f.batch)
    /\ ~(live /\ r = rt) \/ \E e \in ToSet(f.batch) : ~IsActive(e)
    /\ RollbackWrites(HeldBy(Flusher(r)))
    /\ flush' = [flush EXCEPT ![r].pc = "await"]
    /\ UNCHANGED <<debouncer, cancel, over, dispatcher, tomb, runtime, counters, history>>

\* Second half, once every cancellation of the batch has settled.
FlushAbandon(r) ==
    LET f == flush[r]
        back == {e \in DOMAIN f.offers : f.offers[e] \in {"provisional", "recorded"}} IN
    /\ AtAwait
    /\ f.pc = "await"
    /\ \A e \in ToSet(f.batch) : ~ent[e].cwait
    /\ EndFlush(r, [f EXCEPT !.offers = [e \in DOMAIN @ |-> IF e \in back THEN "back" ELSE @[e]]],
                RequestRelease(ent, back))
    /\ UNCHANGED <<waiting, queued, cancel, over, store, tomb, runtime, counters,
                   ran, killed, stopped, acked, rejected, broken>>

(***************************************************************************)
(* /stop: cancelKey(notify: true), then clearPending.                      *)
(***************************************************************************)
NewlyCancelled == {e \in inflight \union ToSet(waiting) : ~ent[e].creq}

\* hold() throws for an entry whose release the running flush already requested;
\* the exception leaves cancelKey, and the control-lane handler, half way.
Throwers == {e \in NewlyCancelled : ent[e].req}

CancelMarksUnheld(en, es) ==    \* variant: the reservation is not pinned
    Change(en, es, LAMBDA r : [r EXCEPT !.creq = TRUE, !.cpend = TRUE, !.cwait = TRUE])
CancelMarks(en, es) ==
    Change(en, es, LAMBDA r : [r EXCEPT !.creq = TRUE, !.cpend = TRUE, !.cwait = TRUE,
                                        !.holds = @ \union {"cancel"}])

StopArrives ==
    /\ AtAwait
    /\ live /\ stops < MaxStops
    /\ stops' = stops + 1
    /\ UNCHANGED <<arrivals, retires, faults, runtime, over, store, tomb,
                   ran, admitted, acked, rejected>>

Stop ==
    LET es == NewlyCancelled
        en == CancelMarks(Transfer(ent, ToSet(waiting), "debounce-inflight"), es)
        drop == Dropped IN
    /\ StopArrives
    /\ Throwers = {}
    /\ ent' = RequestRelease(IF es = {} THEN ent ELSE en, drop)
    /\ waiting' = <<>>
    /\ inflight' = inflight \union ToSet(waiting)
    /\ gen' = IF es = {} THEN gen ELSE gen + 1
    /\ cancel' = IF es = {} THEN cancel
                 ELSE [cancel EXCEPT ![stops'] =
                        [pc |-> "scheduled", i |-> 1, rt |-> rt,
                         ents |-> InOrder(es)]]
    /\ flush' = [flush EXCEPT ![rt] = AllBack(@)]
    /\ pending' = <<>>
    /\ killed' = killed \union es \union drop
    /\ stopped' = stopped \union {ent[e].m : e \in es \union drop}
    /\ UNCHANGED <<queued, ids, turn, broken>>

StopThrows ==
    LET first == CHOOSE e \in Throwers : \A x \in Throwers : e <= x IN
    /\ StopArrives
    /\ Throwers # {}
    /\ ent' = Change(CancelMarks(ent, {e \in NewlyCancelled : e < first}), {first},
                     LAMBDA r : [r EXCEPT !.creq = TRUE, !.cpend = TRUE])
    /\ waiting' = <<>>
    /\ gen' = gen + 1
    /\ broken' = broken \union {"stop"}
    /\ UNCHANGED <<queued, inflight, ids, flush, cancel, dispatcher, killed, stopped>>

(***************************************************************************)
(* The cancellation callback (recordCancelledInboundItems).                *)
(***************************************************************************)
Canceller(c) == <<"cancel", c>>
CanPublishUncancelled(c) ==     \* variant: takes "cancelled" for "retired"
    \A e \in ToSet(cancel[c].ents) : ~ent[e].creq
CanPublish(c) == \A e \in ToSet(cancel[c].ents) : ~ent[e].retired

\* The scheduled callback begins; retirement may have emptied it.
CancelStart(c) ==
    /\ AtAwait
    /\ cancel[c].pc = "scheduled"
    /\ cancel' = [cancel EXCEPT ![c].pc = IF cancel[c].ents = <<>> THEN "done" ELSE "item"]
    /\ ent' = Change(ent, ToSet(cancel[c].ents), LAMBDA r : [r EXCEPT !.crun = TRUE])
    /\ UNCHANGED <<waiting, queued, gen, inflight, ids, flush, over, dispatcher, store, tomb,
                   runtime, counters, history>>

CancelItem(c) ==
    LET b == cancel[c] IN
    /\ b.pc = "item" /\ b.i <= Len(b.ents) /\ CanPublish(c)
    /\ IF ent[b.ents[b.i]].m \in IdLess
       THEN cancel' = [cancel EXCEPT ![c].i = @ + 1] /\ UNCHANGED gate
       ELSE /\ cancel' = [cancel EXCEPT ![c].pc = "record"]
            /\ Enqueue(ent[b.ents[b.i]].m, Canceller(c))
    /\ UNCHANGED <<debouncer, flush, over, dispatcher, marker, hot, receipt, tomb,
                   runtime, counters, history>>

\* Record and commit at once; a failure leaves a tombstone unless revoked.
CancelRecord(c) ==
    LET b == cancel[c]
        m == ent[b.ents[b.i]].m IN
    /\ AtAwait
    /\ b.pc = "record" /\ AtHead(m, Canceller(c))
    /\ Leave(m)
    /\ cancel' = [cancel EXCEPT ![c].pc = "item", ![c].i = @ + 1]
    /\ \/ RecordKilled(m) /\ UNCHANGED <<tomb, faults>>
       \/ /\ Fault
          /\ RecordKilledUnknown(m)
          /\ tomb' = IF CanPublish(c) THEN tomb \union {m} ELSE tomb
    /\ UNCHANGED <<debouncer, flush, over, dispatcher, receipt, runtime,
                   arrivals, stops, retires, history>>

\* The messages whose id an entry outside es still relies on.
OwnedBeside(es) == IdsOf((ToSet(waiting) \union inflight) \ es)

\* All recorded, or revoked: ACK only in the first case, then settle "cancel" in
\* the indexes of the debouncer that ran it.  Entries that were retired meanwhile
\* are settled again, and so the id of a copy that came after them is forgotten.
CancelFinish(c) ==
    LET b == cancel[c]
        es == ToSet(b.ents)
        mine == live /\ b.rt = rt IN
    /\ b.pc = "item" /\ (b.i > Len(b.ents) \/ ~CanPublish(c))
    /\ acked' = IF CanPublish(c) THEN acked \union IdsOf(es) ELSE acked
    /\ cancel' = [cancel EXCEPT ![c].pc = "done"]
    /\ ent' = Change(SettleCancel(ent, es), es, LAMBDA r : [r EXCEPT !.cwait = FALSE])
    /\ inflight' = inflight \ es
    /\ ids' = IF mine THEN ids \ IdsOf(es) ELSE ids
    /\ gen' = IF mine THEN NextGen(gen, waiting, queued, inflight', flush[rt]) ELSE gen
    /\ broken' = IF mine /\ IdsOf(es) \intersect OwnedBeside(es) # {}
                 THEN broken \union {"index"} ELSE broken
    /\ UNCHANGED <<waiting, queued, flush, over, dispatcher, store, tomb, runtime, counters,
                   ran, admitted, killed, stopped, rejected>>

(***************************************************************************)
(* Retirement of the peer, and of the whole runtime.                       *)
(***************************************************************************)
Retired(en, es) == Change(SettleRetire(en, es), es, LAMBDA r : [r EXCEPT !.cwait = FALSE])
Revoked(cs) == [c \in StopNo |-> IF cs[c].pc = "scheduled" /\ cs[c].rt = rt
                                    THEN [cs[c] EXCEPT !.ents = <<>>] ELSE cs[c]]

\* The suppression of a killed message stands only once it is recorded: teardown
\* revokes a cancellation that has not come that far.
StandingKills ==
    {e \in killed : \/ ent[e].m \in tomb
                    \/ "accepted" \in marker[ent[e].m] /\ receipt[ent[e].m] # "fresh"}

\* retirePeerIngress: cancelKey(notify: false), clearPending, invalidateSession.
Retire ==
    LET es == inflight \union ToSet(waiting) IN
    /\ AtAwait
    /\ live /\ retires < MaxRetires
    /\ retires' = retires + 1
    /\ ent' = RequestRelease(Retired(ent, es), Dropped)
    /\ waiting' = <<>>
    /\ inflight' = {}
    /\ ids' = ids \ IdsOf(es)
    /\ IF es = {}
       THEN /\ flush' = [flush EXCEPT ![rt] = AllBack(@)]
            /\ UNCHANGED <<queued, gen, cancel>>
       ELSE /\ flush' = [flush EXCEPT ![rt] = [AllBack(@) EXCEPT !.intact = ~LeaseOpen]]
            /\ queued' = <<>>
            /\ gen' = NextGen(gen + 1, <<>>, <<>>, {}, flush[rt])
            /\ cancel' = Revoked(cancel)
    /\ pending' = <<>>
    /\ over' = [m \in Msg |-> IF over[m].pc # "none" /\ over[m].token = token
                              THEN [over[m] EXCEPT !.cancelled = TRUE] ELSE over[m]]
    /\ token' = token + 1
    /\ killed' = StandingKills
    /\ UNCHANGED <<turn, store, tomb, rt, live, arrivals, stops, faults,
                   ran, admitted, stopped, acked, rejected, broken>>

\* dispose of the debouncer: everything it holds is retired, whatever is scheduled
\* is severed, and the running flush keeps only the holds it took.
DisposeDebouncer ==
    /\ waiting' = <<>> /\ queued' = <<>> /\ gen' = 0 /\ inflight' = {} /\ ids' = {}
    /\ cancel' = Revoked(cancel)

\* dispose of the dispatcher.  A turn that was chosen but has not started never
\* does; a running one no longer matters here.
DisposeDispatcher(en) ==
    /\ ent' = RequestRelease(en, Dropped)
    /\ pending' = <<>> /\ turn' = NoTurn
    /\ flush' = [flush EXCEPT ![rt] = [AllBack(@) EXCEPT !.intact = ~LeaseOpen]]

InvalidateAccount ==
    over' = [m \in Msg |-> IF over[m].pc # "none" THEN [over[m] EXCEPT !.cancelled = TRUE] ELSE over[m]]

\* dispose of the account runtime: debouncer, dispatcher, overflow tasks.
Dispose ==
    /\ AtAwait
    /\ live
    /\ live' = FALSE
    /\ DisposeDebouncer
    /\ DisposeDispatcher(Retired(ent, inflight \union ToSet(waiting)))
    /\ InvalidateAccount
    /\ killed' = StandingKills
    /\ UNCHANGED <<store, tomb, rt, token, counters, ran, admitted, stopped, acked, rejected, broken>>

\* The coordinator starts a replacement runtime in the same process.
StartRuntime ==
    /\ AtAwait
    /\ ~live /\ rt < MaxRuntimes
    /\ live' = TRUE /\ rt' = rt + 1 /\ token' = token + 1
    /\ UNCHANGED <<debouncer, flush, cancel, over, dispatcher, store, tomb, counters, history>>

(***************************************************************************)
(* The overflow resolver.                                                  *)
(***************************************************************************)
Resolver == <<"over", 0>>

\* A tombstoned message: accepted, never reclassified.
OverRecover(m) ==
    LET t == over[m] IN
    /\ AtAwait
    /\ t.pc = "recover" /\ AtHead(m, Resolver)
    /\ Leave(m)
    /\ over' = [over EXCEPT ![m] = NoTask]
    /\ \/ /\ ~t.cancelled
          /\ RecordKilled(m)
          /\ \E sent \in BOOLEAN :
               /\ acked' = IF sent THEN acked \union {m} ELSE acked
               /\ tomb' = IF sent THEN tomb \ {m} ELSE tomb
          /\ UNCHANGED faults
       \/ /\ t.cancelled
          /\ RecordKilledRolledBack(m)
          /\ UNCHANGED <<faults, tomb, acked>>
       \/ /\ Fault
          /\ RecordKilledUnknown(m)
          /\ UNCHANGED <<tomb, acked>>
    /\ UNCHANGED <<debouncer, flush, cancel, dispatcher, receipt, runtime, arrivals, stops, retires,
                   ran, admitted, killed, stopped, rejected, broken>>

OverLookup(m) ==
    LET t == over[m]
        ends == t.cancelled \/ Known(m) IN
    /\ AtAwait
    /\ t.pc = "lookup" /\ AtHead(m, Resolver)
    /\ \/ /\ Fault
          /\ Leave(m) /\ over' = [over EXCEPT ![m] = NoTask]
          /\ UNCHANGED <<marker, hot, acked, rejected>>
       \/ /\ ends
          /\ LookupEffect(m)
          /\ Leave(m) /\ over' = [over EXCEPT ![m] = NoTask]
          /\ acked' = IF ~t.cancelled /\ LookupOutcome(m) = "accepted"
                      THEN acked \union {m} ELSE acked
          /\ rejected' = IF ~t.cancelled /\ LookupOutcome(m) = "overloaded"
                         THEN rejected \union {m} ELSE rejected
          /\ UNCHANGED faults
       \/ /\ ~ends
          /\ over' = [over EXCEPT ![m].pc = "record"]
          /\ gate' = [gate EXCEPT ![m] = Append(Tail(@), Resolver)]
          /\ UNCHANGED <<marker, hot, acked, rejected, faults>>
    /\ UNCHANGED <<debouncer, flush, cancel, dispatcher, receipt, tomb, runtime, arrivals, stops,
                   retires, ran, admitted, killed, stopped, broken>>

\* Record overloaded durably, then reject; a cancelled task rolls back.
OverRecord(m) ==
    /\ AtAwait
    /\ over[m].pc = "record" /\ AtHead(m, Resolver)
    /\ Leave(m)
    /\ over' = [over EXCEPT ![m] = NoTask]
    /\ \/ /\ ~over[m].cancelled
          /\ marker' = [marker EXCEPT ![m] = @ \union {"overloaded"}]
          /\ hot' = [hot EXCEPT ![m] = "overloaded"]
          /\ rejected' = rejected \union {m}
          /\ UNCHANGED faults
       \/ over[m].cancelled /\ UNCHANGED <<marker, hot, rejected, faults>>
       \/ Fault /\ UNCHANGED <<marker, hot, rejected>>
    /\ UNCHANGED <<debouncer, flush, cancel, dispatcher, receipt, tomb, runtime, arrivals, stops,
                   retires, ran, admitted, killed, stopped, acked, broken>>

FlushStep(r) ==
    FlushItem(r) \/ FlushRecover(r) \/ FlushLookup(r) \/ FlushRecord(r)
    \/ FlushCommit(r) \/ FlushInvalidated(r) \/ FlushAbandon(r)
CancelStep(c) == CancelStart(c) \/ CancelItem(c) \/ CancelRecord(c) \/ CancelFinish(c)
OverStep(m) == OverRecover(m) \/ OverLookup(m) \/ OverRecord(m)

Next ==
    \/ \E m \in Msg : Push(m) \/ OverStep(m)
    \/ DetachAndQueue \/ RunFlush \/ StartHandler \/ HandlerSettled
    \/ \E r \in Runtime : FlushStep(r)
    \/ Stop \/ StopThrows
    \/ \E c \in StopNo : CancelStep(c)
    \/ Retire \/ Dispose \/ StartRuntime

\* Timers fire, promises settle, the worker runs; frames, /stop and teardown need
\* not come, and a handler may run for ever.
Fairness ==
    /\ WF_vars(DetachAndQueue) /\ WF_vars(RunFlush)
    /\ \A r \in Runtime : WF_vars(FlushStep(r))
    /\ \A c \in StopNo : WF_vars(CancelStep(c))
    /\ \A m \in Msg : WF_vars(OverStep(m))

Spec == Init /\ [][Next]_vars /\ Fairness

-----------------------------------------------------------------------------
\* No message is both ACKed and terminally rejected, whatever frames, replays and
\* teardown do to its copies: the client shows one of the two for good.  Only
\* /stop may ACK what was rejected, when it drops a replay of it.
ExclusiveResult == acked \intersect rejected \subseteq stopped

\* The two stored outcomes of a message exclude each other (the condition that
\* lookupUnlocked warns about as a dual marker).
NoDualMarker == \A m \in Msg : Cardinality(marker[m]) <= 1

\* Only a message that was committed to the dispatcher, or that /stop dropped, is
\* ever ACKed: an ACK drains the client's ledger, so nothing would resend it.
AckIsEarned == acked \subseteq admitted \union {m \in stopped : m \notin IdLess}

\* A rejected message never reaches the agent.  Again /stop is the exception: the
\* store may fail after it took the rejection away for the replay /stop dropped, and
\* when the peer is retired meanwhile nothing remembers that message any more.
RejectedNeverRuns == \A i \in DOMAIN ran : ent[ran[i]].m \notin rejected \ stopped

\* No cancellation has settled after its peer was retired and came back with the
\* same message: that takes the new copy's id out of the index, and the debouncer
\* no longer tells a replay of it from a new message.
IndexIntact == "index" \notin broken

\* A message has one result: what the client is told, what is stored and what runs
\* agree, as long as the index of ids in flight is intact.
OneResult ==
    IndexIntact => ExclusiveResult /\ NoDualMarker /\ RejectedNeverRuns /\ AckIsEarned

\* A message with an id starts at most one turn, however often it is replayed and
\* across peer retirement and runtime replacement.
RunsOnce ==
    \A i, j \in DOMAIN ran :
        i # j /\ ent[ran[i]].m = ent[ran[j]].m => ent[ran[i]].m \in IdLess

\* Turns consume frames in the order of their arrival.
ArrivalOrder == \A i, j \in DOMAIN ran : i < j => ran[i] < ran[j]

\* The agent sees messages in the order of arrival, whatever the client replays and
\* whatever is torn down in the middle of a flush, and each once, as long as the
\* index of ids in flight is intact.
RunsInOrder == ArrivalOrder /\ (IndexIntact => RunsOnce)

\* What /stop dropped does not start a turn, nor does a later frame with its id,
\* unless teardown revoked the cancellation before it was recorded, or the index
\* lost the id: then a replay gets past a copy that waits for its cancellation.
StoppedNeverStarts ==
    [][IndexIntact => \A i \in DOMAIN ran' \ DOMAIN ran : \A k \in killed :
          /\ ran'[i] # k
          /\ ran'[i] > k /\ ent[ran'[i]].m = ent[k].m => ent[k].m \in IdLess]_vars

\* A frame in the debounce window, in a running flush, in a pending cancellation or
\* in the dispatcher is charged to the retention budget, and so is one in a queued
\* batch that /stop has not cancelled: the budget bounds what is in memory.
QueuedEntries == UNION {ToSet(queued[b].ents) : b \in DOMAIN queued}
HeldIsCharged ==
    /\ \A e \in ToSet(waiting) \union ToSet(pending) : Charged(e)
    /\ \A e \in QueuedEntries : Charged(e) \/ ent[e].creq
    /\ \A r \in Runtime : \A e \in ToSet(flush[r].batch) : Charged(e)
    /\ \A c \in StopNo : cancel[c].pc # "done" => \A e \in ToSet(cancel[c].ents) : Charged(e)

\* cancelKey has not thrown half way through a /stop: it throws when a running flush
\* has already released one of the entries it collected, and what it had marked by
\* then keeps its charge and its index.
StopCompletes == "stop" \notin broken

\* Once nothing is going on, nothing is charged, indexed or locked any more.
Quiet ==
    /\ waiting = <<>> /\ queued = <<>> /\ pending = <<>>
    /\ \A r \in Runtime : flush[r].pc = "idle"
    /\ \A c \in StopNo : cancel[c].pc = "done"
    /\ \A m \in Msg : over[m].pc = "none"
NothingLeaks ==
    Quiet /\ StopCompletes =>
        /\ \A e \in DOMAIN ent : ~Charged(e)
        /\ ids = {} /\ inflight = {} /\ gen = 0
        /\ \A m \in Msg : gate[m] = <<>>

\* A retained frame always fits the lease: the reservation made at arrival is live
\* and of the current session when the flush offers it, so a flush never turns an
\* admitted frame into an overload.
OfferAlwaysFits == "offer" \notin broken

\* The budget is exact: charged while held, free when done, and never exceeded by
\* what it already admitted.
RetentionExact == HeldIsCharged /\ NothingLeaks /\ OfferAlwaysFits

\* A /stop that threw half way leaves entries that wait for a cancellation nobody
\* will settle, and an id the index lost lets two copies of a message into one batch,
\* that wait for each other's gate.
Sound == StopCompletes /\ IndexIntact

\* Every flush ends: it never waits for a gate it holds itself, nor for a
\* cancellation that waits for one of its gates.
FlushesEnd == \A r \in Runtime : flush[r].pc # "idle" ~> flush[r].pc = "idle" \/ ~Sound

\* Every /stop settles the entries it cancelled.
StopsSettle == \A c \in StopNo : cancel[c].pc # "done" ~> cancel[c].pc = "done" \/ ~Sound

\* Neither a flush nor a cancellation waits for ever, unless cancelKey threw half way
\* through a /stop or the index of ids in flight has lost one.
Settles == FlushesEnd /\ StopsSettle

\* A retained message is answered unless the store failed, teardown came, or /stop
\* left cancelKey half way (StopCompletes).
Answered ==
    \A m \in Msg : m \in ids ~> \/ m \in acked \union rejected
                               \/ faults > 0 \/ retires > 0 \/ ~live \/ ~StopCompletes
=============================================================================
