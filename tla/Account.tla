------------------------------ MODULE Account ------------------------------
(***************************************************************************)
(* One account of the plugin: who may hold its relay connection.           *)
(*   nats-account-coordinator.ts  NatsAccountRuntimeCoordinator and         *)
(*                                runAccountStartupLoop                     *)
(*   nats-account-runtime.ts      one attempt: dial, wiring, publication,   *)
(*                                disposal                                  *)
(*   nats-transport.ts            the sockets: dial, reconnect, bounded     *)
(*                                close, probe                              *)
(*                                                                         *)
(* The host may call startNatsAccount again (a reload, a new config)       *)
(* while an earlier call is serving or shutting down.  The coordinator      *)
(* lets one invocation own the account, keeps the others waiting, and after *)
(* a close it could not confirm quarantines the account until a later      *)
(* invocation's probe finds the socket closed.                             *)
(*                                                                         *)
(* A slot object is named after the invocation that created it, a socket   *)
(* by the number of its dial.  Logging, status patches and the aggregate   *)
(* are left out; other accounts have slots of their own.                   *)
(***************************************************************************)
EXTENDS Naturals

CONSTANTS
    Inv,            \* calls of startNatsAccount
    None,           \* no invocation
    MaxGeneration,  \* bound: config generations
    MaxAttempts,    \* bound: attempts of all invocations
    MaxDials        \* bound: sockets

ASSUME NoneAssumption == None \notin Inv
ASSUME BoundsAssumption == MaxGeneration \in Nat /\ MaxAttempts \in Nat /\ MaxDials \in Nat

Fingerprint == {"f", "g"}
Socket == 1..MaxDials
NoSocket == 0

VARIABLES
    generation, fingerprint,    \* the installed config
    cur,                        \* slots.get(accountId): the slot in the map, or None
    slot,                       \* every slot object ever made
    pc, slotOf, gen, arrival,   \* per invocation
    aborted,                    \* hostSignal.aborted
    attempts, ending,           \* attempts made; how the attempt being closed ended
    published,                  \* accountRuntimes.get(accountId): whose runtime, or None
    ws, link,                   \* the transport of the invocation: its socket, its state
    open,                       \* sockets that are physically open
    dials,
    dropped,                    \* history: sockets a redial replaced while they were open
    lastRun                     \* history: generation of the last run that began

config == <<generation, fingerprint>>
lease == <<cur, slot>>
calls == <<slotOf, gen, arrival>>
net == <<ws, link, open, dials, dropped>>
vars == <<config, lease, pc, calls, aborted, attempts, ending, published, net, lastRun>>

NoQuarantine == [on |-> FALSE, cutoff |-> 0, probing |-> FALSE, sock |-> NoSocket]
FreshSlot == [owner |-> None, waiters |-> {}, highest |-> 0, next |-> 0, quarantine |-> NoQuarantine]

Init ==
    /\ generation = 0 /\ fingerprint = "none"
    /\ cur = None /\ slot = [s \in Inv |-> FreshSlot]
    /\ pc = [i \in Inv |-> "new"] /\ slotOf = [i \in Inv |-> None]
    /\ gen = [i \in Inv |-> 0] /\ arrival = [i \in Inv |-> 0]
    /\ aborted = {} /\ attempts = 0 /\ ending = [i \in Inv |-> "none"]
    /\ published = None
    /\ ws = [i \in Inv |-> NoSocket] /\ link = [i \in Inv |-> "none"]
    /\ open = {} /\ dials = 0 /\ dropped = {} /\ lastRun = 0

(***************************************************************************)
(* The coordinator.                                                        *)
(***************************************************************************)
\* installFull: the same config keeps its generation.
InstallFull(f) ==
    /\ fingerprint' = f
    /\ generation' = IF f = fingerprint THEN generation ELSE generation + 1
    /\ generation' <= MaxGeneration
    /\ UNCHANGED <<lease, pc, calls, aborted, attempts, ending, published, net, lastRun>>

LiveWaiters(sl) == sl.waiters \ aborted

\* promote: waiters of the highest generation seen, oldest first.
EligibleAny(sl) == LiveWaiters(sl)     \* variant: no generation watermark
Eligible(sl) == {w \in LiveWaiters(sl) : gen[w] >= sl.highest}
Best(sl) ==
    {w \in Eligible(sl) : \A v \in Eligible(sl) :
        \/ gen[v] < gen[w]
        \/ gen[v] = gen[w] /\ arrival[w] <= arrival[v]}

\* cleanupSlot: an idle slot leaves the map, which holds slot c.
IdleUnowned(sl) == sl.owner = None /\ sl.waiters = {}   \* variant: a quarantine is forgotten
Idle(sl) == sl.owner = None /\ ~sl.quarantine.on /\ sl.waiters = {}
Cleanup(c, s, sl) == cur' = IF c = s /\ Idle(sl) THEN None ELSE c

\* promote and cleanupSlot on slot s; c, sl and p are what the map, the slot's record
\* and pc are so far.
Promote(c, s, sl, p) ==
    LET rest == [sl EXCEPT !.waiters = LiveWaiters(sl)] IN
    \/ /\ Eligible(sl) = {}
       /\ slot' = [slot EXCEPT ![s] = rest]
       /\ Cleanup(c, s, rest)
       /\ pc' = p
    \/ \E w \in Best(sl) :
       /\ slot' = [slot EXCEPT ![s] = [rest EXCEPT !.owner = w, !.waiters = @ \ {w}]]
       /\ cur' = c
       /\ pc' = [p EXCEPT ![w] = "granted"]

\* releaseUnstartedOwner, and the release after a run whose close was confirmed.
Release(c, s, sl, i) ==
    Promote(c, s, IF sl.owner = i THEN [sl EXCEPT !.owner = None] ELSE sl,
            [pc EXCEPT ![i] = "done"])

\* runAccount: a slot that can be owned at once.
FreeIfUnowned(sl) == sl.owner = None    \* variant: also while quarantined
Free(sl) == sl.owner = None /\ ~sl.quarantine.on

\* maybeProbe: only an invocation that arrived after the last close attempt.
MayProbeLate(q, a) == q.on /\ ~q.probing /\ a > q.cutoff + 1     \* variant: off by one
MayProbe(q, a) == q.on /\ ~q.probing /\ a > q.cutoff

\* runAccount up to its first await: own the free slot, or wait.
RunAccount(i) ==
    /\ pc[i] = "new" /\ generation > 0
    /\ LET s == IF cur = None THEN i ELSE cur
           a == slot[s].next + 1
           sl == [slot[s] EXCEPT !.next = a,
                                 !.highest = IF generation > @ THEN generation ELSE @]
           q == sl.quarantine
       IN /\ slotOf' = [slotOf EXCEPT ![i] = s]
          /\ arrival' = [arrival EXCEPT ![i] = a]
          /\ gen' = [gen EXCEPT ![i] = generation]
          /\ \/ /\ Free(sl) /\ i \notin aborted
                /\ slot' = [slot EXCEPT ![s] = [sl EXCEPT !.owner = i]]
                /\ pc' = [pc EXCEPT ![i] = "start"]
                /\ cur' = s /\ lastRun' = generation
             \/ /\ Free(sl) /\ i \in aborted
                /\ Release(s, s, [sl EXCEPT !.owner = i], i)
                /\ UNCHANGED lastRun
             \/ /\ ~Free(sl) /\ i \notin aborted
                /\ slot' = [slot EXCEPT ![s] =
                       [sl EXCEPT !.waiters = @ \union {i},
                                  !.quarantine.probing = @ \/ MayProbe(q, a)]]
                /\ pc' = [pc EXCEPT ![i] = "waiting"]
                /\ cur' = s /\ UNCHANGED lastRun
             \/ /\ ~Free(sl) /\ i \in aborted
                /\ slot' = [slot EXCEPT ![s] = sl]
                /\ pc' = [pc EXCEPT ![i] = "done"]
                /\ cur' = s /\ UNCHANGED lastRun
    /\ UNCHANGED <<config, aborted, attempts, ending, published, net>>

\* The host aborts an invocation; a waiter leaves the queue at once.
AbortUnheard(i) ==      \* variant: no listener while waiting
    /\ i \notin aborted /\ pc[i] # "done"
    /\ aborted' = aborted \union {i}
    /\ UNCHANGED <<config, lease, pc, calls, attempts, ending, published, net, lastRun>>
Abort(i) ==
    /\ i \notin aborted /\ pc[i] # "done"
    /\ aborted' = aborted \union {i}
    /\ IF pc[i] = "waiting"
       THEN LET s == slotOf[i]
                sl == [slot[s] EXCEPT !.waiters = @ \ {i}]
            IN /\ slot' = [slot EXCEPT ![s] = sl]
               /\ Cleanup(cur, s, sl)
               /\ pc' = [pc EXCEPT ![i] = "done"]
       ELSE UNCHANGED <<lease, pc>>
    /\ UNCHANGED <<config, calls, attempts, ending, published, net, lastRun>>

\* The continuation of awaitGrant: the host may have aborted since the grant.
Resume(i) ==
    /\ pc[i] = "granted"
    /\ \/ /\ i \notin aborted
          /\ pc' = [pc EXCEPT ![i] = "start"] /\ lastRun' = gen[i]
          /\ UNCHANGED lease
       \/ /\ i \in aborted
          /\ Release(cur, slotOf[i], slot[slotOf[i]], i)
          /\ UNCHANGED lastRun
    /\ UNCHANGED <<config, calls, aborted, attempts, ending, published, net>>

\* The end of run(): with a confirmed close the next waiter is promoted, otherwise
\* the slot is quarantined with the socket k, and the invocation waits again under
\* its old arrival unless its host aborted it.
RunEnds(i, confirmed, k) ==
    LET s == slotOf[i]
        sl == slot[s]
    IN \/ /\ confirmed
          /\ Release(cur, s, sl, i)
       \/ /\ ~confirmed
          /\ slot' = [slot EXCEPT ![s] =
                 [sl EXCEPT !.owner = IF @ = i THEN None ELSE @,
                            !.waiters = IF i \in aborted THEN @ ELSE @ \union {i},
                            !.quarantine = [on |-> TRUE, cutoff |-> sl.next,
                                            probing |-> FALSE, sock |-> k]]]
          /\ pc' = [pc EXCEPT ![i] = IF i \in aborted THEN "done" ELSE "waiting"]
          /\ UNCHANGED cur

\* confirmSocketClosed on socket k, of a close or of a probe: closed, or still open
\* after the graceful and the forced wait.
Closed(k) == open' = open \ {k}
Unconfirmed(k) == k \in open /\ UNCHANGED open

\* The callback of probePhysicalClose.  A socket that has closed is seen closed; a
\* quarantine without a socket handle (run threw without a report) never clears.
ProbeSettles(s) ==
    /\ slot[s].quarantine.probing
    /\ LET q == slot[s].quarantine IN
       \/ /\ q.sock # NoSocket
          /\ Closed(q.sock)
          /\ Promote(cur, s, [slot[s] EXCEPT !.quarantine = NoQuarantine], pc)
       \/ /\ Unconfirmed(q.sock) \/ (q.sock = NoSocket /\ UNCHANGED open)
          /\ slot' = [slot EXCEPT ![s].quarantine.probing = FALSE,
                                  ![s].quarantine.cutoff = slot[s].next]
          /\ UNCHANGED <<cur, pc>>
    /\ UNCHANGED <<config, calls, aborted, attempts, ending, published, ws, link, dials, dropped,
                   lastRun>>

(***************************************************************************)
(* The run of an owner: preflight, attempts, backoff.                      *)
(***************************************************************************)
\* Preflight throws: no socket, no report.
RunThrows(i) ==
    /\ pc[i] = "start"
    /\ RunEnds(i, FALSE, NoSocket)
    /\ UNCHANGED <<config, calls, aborted, attempts, ending, published, net, lastRun>>

\* Preflight found the account unusable: it stays down until the host aborts.
PreflightFails(i) ==
    /\ pc[i] = "start"
    /\ pc' = [pc EXCEPT ![i] = "parked"]
    /\ UNCHANGED <<config, lease, calls, aborted, attempts, ending, published, net, lastRun>>

\* The top of the loop.
AttemptStarts(i) ==
    /\ pc[i] \in {"start", "backoff"}
    /\ i \notin aborted /\ attempts < MaxAttempts
    /\ attempts' = attempts + 1
    /\ pc' = [pc EXCEPT ![i] = "dialing"]
    /\ UNCHANGED <<config, lease, calls, aborted, ending, published, net, lastRun>>

\* Aborted before an attempt, during the backoff or after a permanent failure;
\* everything of this invocation is closed.
LoopAborted(i) ==
    /\ pc[i] \in {"start", "backoff", "parked"} /\ i \in aborted
    /\ RunEnds(i, TRUE, NoSocket)
    /\ UNCHANGED <<config, calls, aborted, attempts, ending, published, net, lastRun>>

NewSocket(i) ==
    /\ dials < MaxDials
    /\ dials' = dials + 1
    /\ open' = open \union {dials'}
    /\ ws' = [ws EXCEPT ![i] = dials']

\* The credential source makes a transport, which dials.
Dial(i) ==
    /\ pc[i] = "dialing" /\ ws[i] = NoSocket /\ i \notin aborted
    /\ NewSocket(i)
    /\ link' = [link EXCEPT ![i] = "private"]
    /\ UNCHANGED <<config, lease, pc, calls, aborted, attempts, ending, published, dropped, lastRun>>

\* The handshake, the wiring, the readiness check and the flush of the register
\* subscription went well: publish.  All of this happens with the signal unaborted
\* and the transport connected.
Commit(i) ==
    /\ pc[i] = "dialing" /\ ws[i] \in open /\ i \notin aborted
    /\ published' = i
    /\ pc' = [pc EXCEPT ![i] = "serving"]
    /\ link' = [link EXCEPT ![i] = "up"]
    /\ UNCHANGED <<config, lease, calls, aborted, attempts, ending, ws, open, dials, dropped, lastRun>>

\* What the loop does with a failed attempt whose sockets are closed or not.
AfterAttempt(i, e, confirmed, k) ==
    \/ /\ e = "completed" \/ e = "thrown" \/ i \in aborted \/ ~confirmed
       /\ RunEnds(i, confirmed, k)
    \/ /\ e \in {"transient", "permanent"} /\ i \notin aborted /\ confirmed
       /\ pc' = [pc EXCEPT ![i] = IF e = "transient" THEN "backoff" ELSE "parked"]
       /\ UNCHANGED lease

\* The attempt fails before it made a transport: nothing to close.
FailsEarly(i) ==
    /\ pc[i] = "dialing" /\ ws[i] = NoSocket
    /\ \E e \in {"transient", "permanent"} : AfterAttempt(i, e, TRUE, NoSocket)
    /\ UNCHANGED <<config, calls, aborted, attempts, ending, published, net, lastRun>>

\* It fails later, or its publication fails and is rolled back ("thrown" when the
\* connection was fine): dispose closes the transport.
Fails(i) ==
    /\ pc[i] = "dialing" /\ ws[i] # NoSocket
    /\ \E e \in {"transient", "permanent", "thrown"} :
          ending' = [ending EXCEPT ![i] = IF i \in aborted THEN "completed" ELSE e]
    /\ pc' = [pc EXCEPT ![i] = "closing"]
    /\ link' = [link EXCEPT ![i] = "closed"]
    /\ UNCHANGED <<config, lease, calls, aborted, attempts, published, ws, open, dials, dropped,
                   lastRun>>

\* The host aborts a serving account: unpublish, then close.
StopServing(i) ==
    /\ pc[i] = "serving" /\ i \in aborted
    /\ published' = IF published = i THEN None ELSE published
    /\ ending' = [ending EXCEPT ![i] = "completed"]
    /\ pc' = [pc EXCEPT ![i] = "closing"]
    /\ link' = [link EXCEPT ![i] = "closed"]
    /\ UNCHANGED <<config, lease, calls, aborted, attempts, ws, open, dials, dropped, lastRun>>

\* closeGracefully returns: the transport's socket is closed, or the two waits
\* passed and it is not.
CloseSettles(i) ==
    /\ pc[i] = "closing"
    /\ ws' = [ws EXCEPT ![i] = NoSocket]
    /\ link' = [link EXCEPT ![i] = "none"]
    /\ ending' = [ending EXCEPT ![i] = "none"]
    /\ \/ /\ Closed(ws[i])
          /\ AfterAttempt(i, ending[i], TRUE, NoSocket)
       \/ /\ Unconfirmed(ws[i])
          /\ AfterAttempt(i, ending[i], FALSE, ws[i])
    /\ UNCHANGED <<config, calls, aborted, attempts, published, dials, dropped, lastRun>>

(***************************************************************************)
(* The transport of a serving account reconnects by itself.                *)
(***************************************************************************)
\* A socket closes; the transport notices if it is its current one.
SocketCloses(k) ==
    /\ k \in open
    /\ open' = open \ {k}
    /\ LET hit(i) == pc[i] = "serving" /\ ws[i] = k IN
       /\ ws' = [i \in Inv |-> IF hit(i) THEN NoSocket ELSE ws[i]]
       /\ link' = [i \in Inv |-> IF hit(i) THEN "down" ELSE link[i]]
    /\ UNCHANGED <<config, lease, pc, calls, aborted, attempts, ending, published, dials, dropped,
                   lastRun>>

\* The backoff timer fires: dial, whatever became of the last redial's socket.
Redial(i) ==
    /\ pc[i] = "serving" /\ link[i] = "down"
    /\ NewSocket(i)
    /\ dropped' = dropped \union (open \intersect {ws[i]})
    /\ link' = [link EXCEPT ![i] = "redialing"]
    /\ UNCHANGED <<config, lease, pc, calls, aborted, attempts, ending, published, lastRun>>

\* The first PONG: subscriptions are replayed.  Or a deadline or -ERR: the socket is
\* told to close, and the next redial is scheduled.
RedialSettles(i) ==
    /\ pc[i] = "serving" /\ link[i] = "redialing"
    /\ \E l \in {"up", "down"} : link' = [link EXCEPT ![i] = l]
    /\ UNCHANGED <<config, lease, pc, calls, aborted, attempts, ending, published, ws, open, dials,
                   dropped, lastRun>>

OwnStep(i) ==
    \/ Resume(i) \/ RunThrows(i) \/ PreflightFails(i) \/ AttemptStarts(i) \/ LoopAborted(i)
    \/ Dial(i) \/ Commit(i) \/ FailsEarly(i) \/ Fails(i) \/ StopServing(i) \/ CloseSettles(i)

Next ==
    \/ \E f \in Fingerprint : InstallFull(f)
    \/ \E i \in Inv : RunAccount(i) \/ Abort(i) \/ OwnStep(i) \/ Redial(i) \/ RedialSettles(i)
    \/ \E s \in Inv : ProbeSettles(s)
    \/ \E k \in Socket : SocketCloses(k)

\* Continuations run, and every wait of a run is bounded by a timer: handshake and
\* flush deadlines, the backoff, the two close waits.
Fairness == \A i \in Inv : WF_vars(OwnStep(i)) /\ WF_vars(ProbeSettles(i))

Spec == Init /\ [][Next]_vars /\ Fairness

-----------------------------------------------------------------------------
Owner == IF cur = None THEN None ELSE slot[cur].owner
Quarantine == IF cur = None THEN NoQuarantine ELSE slot[cur].quarantine
Waiting == {i \in Inv : pc[i] = "waiting"}
Holding == {i \in Inv : pc[i] \notin {"new", "waiting", "done"}}

Location == {"new", "waiting", "granted", "start", "dialing", "serving", "closing", "backoff",
             "parked", "done"}
QuarantineType == [on : BOOLEAN, cutoff : Nat, probing : BOOLEAN, sock : Nat]
SlotType == [owner : Inv \union {None}, waiters : SUBSET Inv, highest : Nat, next : Nat,
             quarantine : QuarantineType]

\* Type correctness.
TypeOK ==
    /\ generation \in Nat /\ fingerprint \in Fingerprint \union {"none"}
    /\ cur \in Inv \union {None}
    /\ slot \in [Inv -> SlotType]
    /\ pc \in [Inv -> Location]
    /\ slotOf \in [Inv -> Inv \union {None}] /\ gen \in [Inv -> Nat] /\ arrival \in [Inv -> Nat]
    /\ aborted \subseteq Inv /\ attempts \in Nat
    /\ ending \in [Inv -> {"none", "completed", "transient", "permanent", "thrown"}]
    /\ published \in Inv \union {None}
    /\ ws \in [Inv -> Nat]
    /\ link \in [Inv -> {"none", "private", "up", "down", "redialing", "closed"}]
    /\ open \subseteq Nat /\ dials \in Nat /\ dropped \subseteq Nat /\ lastRun \in Nat

\* The lease is exclusive: the invocations past their grant are exactly the owner of
\* the slot in the map, no slot object outside the map is in use, and a quarantined
\* slot has no owner.  A published runtime belongs to the owner.
LeaseExclusive ==
    /\ Holding = {Owner} \ {None}
    /\ \A s \in Inv \ {cur} : Idle(slot[s])
    /\ Quarantine.on => Owner = None
    /\ published # None => published = Owner /\ pc[published] = "serving"

\* One authenticated connection per account: of the sockets a run dialled, at most
\* one is physically open, whatever was aborted, promoted, quarantined or probed,
\* except for those a serving transport's own redial replaced.
OneSocket == \A a, b \in open \ dropped : a = b

\* No wake-up is lost: a waiter is in the slot of the map; if the slot is free, what
\* still waits is of an overtaken generation; and if it is quarantined and nobody
\* probes, nobody arrived since the last close attempt.
NoLostGrant ==
    /\ \A i \in Waiting : cur # None /\ i \in slot[cur].waiters
    /\ cur # None =>
        /\ slot[cur].waiters = Waiting
        /\ Owner = None /\ ~Quarantine.on => \A w \in Waiting : gen[w] < slot[cur].highest
        /\ Quarantine.on /\ ~Quarantine.probing =>
               \A w \in Waiting : arrival[w] <= Quarantine.cutoff

\* A config generation never runs after a newer one has run, quarantines and slots
\* that came and went included.
NoOldGeneration == [][lastRun' >= lastRun]_vars

\* An aborted invocation ends, wherever the abort caught it: promoted and not yet
\* resumed, dialling, serving, closing, backing off, quarantined.
AbortEnds == \A i \in Inv : (i \in aborted /\ pc[i] # "new") ~> pc[i] = "done"
=============================================================================
