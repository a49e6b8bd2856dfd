---------------------------- MODULE OriginLease ----------------------------
(***************************************************************************)
(* ApprovalOriginLeaseRegistry (packages/plugin/src/approval-origin.ts)    *)
(* and its use by the approval router (approvals.ts): which browser peer   *)
(* is asked to approve a tool call, when the request names no target.      *)
(*                                                                         *)
(* Every agent run holds a lease while it can ask.  A request is routed to *)
(* a peer only when exactly one origin can have made it.  The runs are the *)
(* environment: each belongs to one account, peer and session, starts,     *)
(* asks and ends when it likes.  Time advances, and a read of the clock    *)
(* gives the time or a value that is visibly wrong (not finite, or before  *)
(* the last one).                                                          *)
(***************************************************************************)
EXTENDS Naturals, FiniteSets

CONSTANTS
    Run,            \* runs
    OriginOf(_),    \* the origin of a run: [acct, peer, key]; accounts that
                    \* differ only in spelling share a key
    Presence,       \* runs of the control lane, which claim only presence
    MaxPoisoned,    \* maxPoisonedKeys
    MaxNow,         \* bound: the clock
    MaxEpoch        \* bound: rotations

VARIABLES
    now,
    handle,     \* Run -> none, made, active or over: the lease's handle
    made,       \* Run -> the epoch in which its handle was made
    claims,     \* claimsByKey: Run -> activatedAtMs, Unprovable, or NoClaim
    epoch, barrier, trusted,
    poisoned, global,
    asked       \* requests: [run, at]

vars == <<now, handle, made, claims, epoch, barrier, trusted, poisoned, global, asked>>

NoClaim == MaxNow + 2
Unprovable == MaxNow + 1
Key(r) == OriginOf(r).key
Origin(r) == <<OriginOf(r).acct, OriginOf(r).peer>>

Init ==
    /\ now = 1 /\ epoch = 0 /\ barrier = 0 /\ trusted = TRUE
    /\ handle = [r \in Run |-> "none"] /\ made = [r \in Run |-> 0]
    /\ claims = [r \in Run |-> NoClaim]
    /\ poisoned = {} /\ global = FALSE /\ asked = {}

Claimed(c, k) == {r \in Run : c[r] # NoClaim /\ Key(r) = k}
OverlapsOnlyProvable(c, k) ==       \* variant: presence is no evidence
    \E r, q \in Claimed(c, k) : Origin(r) # Origin(q) /\ c[r] <= MaxNow /\ c[q] <= MaxNow
\* poisonIfOverlapping: two distinct origins on one key
Overlaps(c, k) == \E r, q \in Claimed(c, k) : Origin(r) # Origin(q)

\* poisonKey: at the cap the whole epoch is poisoned; nothing is evicted.
Poison(ks, p, g) ==
    LET all == p \cup ks IN
    IF g \/ Cardinality(all) > MaxPoisoned
    THEN poisoned' = {} /\ global' = TRUE
    ELSE poisoned' = all /\ global' = FALSE

-----------------------------------------------------------------------------
Tick == now < MaxNow /\ now' = now + 1
        /\ UNCHANGED <<handle, made, claims, epoch, barrier, trusted, poisoned, global, asked>>

\* createLease
CreateLease(r) ==
    /\ handle[r] = "none"
    /\ handle' = [handle EXCEPT ![r] = "made"]
    /\ made' = [made EXCEPT ![r] = epoch]
    /\ UNCHANGED <<now, claims, epoch, barrier, trusted, poisoned, global, asked>>

\* The run claims an origin, and its handle is of this epoch.
Provable(r) == r \notin Presence /\ made[r] = epoch
\* activate: the start time counts only for an origin of this epoch, and only when
\* the clock reads well; a bad read closes the epoch.
Activate(r, good) ==
    /\ handle[r] = "made"
    /\ LET provable == Provable(r)
           c == [claims EXCEPT ![r] = IF provable /\ good THEN now ELSE Unprovable]
       IN  /\ claims' = c
           /\ trusted' = (trusted /\ (~provable \/ good))
           /\ Poison(IF Overlaps(c, Key(r)) THEN {Key(r)} ELSE {}, poisoned, global)
    /\ handle' = [handle EXCEPT ![r] = "active"]
    /\ UNCHANGED <<now, made, epoch, barrier, asked>>

\* release, at the end of the turn; only its own claim goes.
Release(r) ==
    /\ handle[r] \in {"made", "active"}
    /\ handle' = [handle EXCEPT ![r] = "over"]
    /\ claims' = [claims EXCEPT ![r] = NoClaim]
    /\ UNCHANGED <<now, made, epoch, barrier, trusted, poisoned, global, asked>>

\* establishBarrier: nothing before it can be proven, and nothing at all on a bad read
EstablishBarrier(good) ==
    /\ barrier' = IF good THEN now ELSE barrier
    /\ trusted' = good
\* rotateEpoch, at host teardown: handlers may outlive it with their claims.
RotateEpoch(good) ==
    /\ epoch < MaxEpoch
    /\ epoch' = epoch + 1
    /\ Poison({k \in {Key(r) : r \in Run} : Overlaps(claims, k)}, {}, FALSE)
    /\ EstablishBarrier(good)
    /\ UNCHANGED <<now, handle, made, claims, asked>>

\* A tool of the run asks for approval.  Requests are judged one by one, and no
\* step depends on them: following one of them follows each.
Ask(r) ==
    /\ handle[r] = "active" /\ asked = {}
    /\ asked' = asked \cup {[run |-> r, at |-> now]}
    /\ UNCHANGED <<now, handle, made, claims, epoch, barrier, trusted, poisoned, global>>

\* A read of the clock by resolve that is visibly wrong
BadRead ==
    /\ trusted' = FALSE
    /\ UNCHANGED <<now, handle, made, claims, epoch, barrier, poisoned, global, asked>>

Next == \/ Tick \/ BadRead
        \/ \E good \in BOOLEAN : RotateEpoch(good) \/ \E r \in Run : Activate(r, good)
        \/ \E r \in Run : CreateLease(r) \/ Release(r) \/ Ask(r)
Spec == Init /\ [][Next]_vars

-----------------------------------------------------------------------------
Eligible(acct, k, at) ==
    {r \in Claimed(claims, k) : OriginOf(r).acct = acct /\ claims[r] < at}
\* resolve, on a clock that reads well: the peers a request may be sent to, one or none
Resolve(acct, k, at) ==
    LET peers == {OriginOf(r).peer : r \in Eligible(acct, k, at)} IN
    IF /\ trusted /\ ~global /\ k \notin poisoned
       /\ at > barrier /\ at <= now
       /\ Cardinality(peers) = 1
    THEN peers ELSE {}
\* resolveWebchannelFallbackOriginTarget: the peer the session store last saw must agree.
Target(acct, k, at, stored) == Resolve(acct, k, at) \cap {stored}

\* A request is never shown to a peer other than the one whose run made it,
\* whatever peer the session store names: over runs that overlap on a shared
\* session, that ended before the request is routed, that lay dormant over a
\* rotation, and over clocks that misread.
OriginIsTheRun ==
    \A q \in asked : \A stored \in {OriginOf(r).peer : r \in Run} :
        Target(OriginOf(q.run).acct, Key(q.run), q.at, stored) \subseteq {OriginOf(q.run).peer}
=============================================================================
