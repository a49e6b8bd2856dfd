----------------------------- MODULE Approvals -----------------------------
(***************************************************************************)
(* Exec approvals between the agent's gateway, the plugin                  *)
(* (packages/plugin/src/approvals.ts) and the cards on a peer's devices    *)
(* (packages/client/src/nats-client-wrapper.ts).                           *)
(*                                                                         *)
(* The plugin keeps three bounded stores in insertion order: the account   *)
(* an approval was last delivered on, the approvals still pending per      *)
(* account, and a ring of outcomes.  Frames to a device arrive in order    *)
(* while it is on, and are lost when it goes away; decisions may be lost.  *)
(* A register answers with a snapshot of both stores.                      *)
(***************************************************************************)
EXTENDS Naturals, FiniteSets, Sequences, SequencesExt

CONSTANTS
    Approval,
    Device,
    AcctOf(_),      \* the account of a device
    Configured, Approver,   \* accounts that have approvers, and where this peer is one
    For(_),         \* the accounts an approval is delivered on: one, or all when
                    \* the request names none
    BindCap, PendingCap, ResolvedCap,
    MaxFrames,      \* bound: frames under way to a device
    MaxLeaves       \* bound: connections and pages lost

VARIABLES
    core,       \* the gateway's state of each approval: none, asked or a decision
    bound,      \* deliveredApprovalAccounts: Seq of [id, acct]
    pending,    \* pendingApprovals: Seq of [acct, id]
    resolved,   \* resolvedApprovals: Seq of [acct, id, dec]
    entries,    \* entries that the gateway will hand back to finalize
    inbox,      \* Device -> frames under way
    on, synced, \* Device -> subscribed; and it has handled a snapshot since
    cards,      \* Device -> Approval -> [dec, conf]
    wire,       \* decisions under way: [dev, id, dec]
    left,       \* connections lost so far
    gone        \* history: what a cap or an age has pushed out of a store

vars == <<core, bound, pending, resolved, entries, inbox, on, synced, cards, wire, left, gone>>

Verdict == {"allow", "deny"}
Absent == [dec |-> "absent", conf |-> FALSE]
Open == [dec |-> "open", conf |-> FALSE]
K(acct, id) == [acct |-> acct, id |-> id]
KeyOf(e) == K(e.acct, e.id)
Keys(s) == {KeyOf(s[k]) : k \in DOMAIN s}

Init ==
    /\ core = [i \in Approval |-> "none"]
    /\ bound = <<>> /\ pending = <<>> /\ resolved = <<>> /\ entries = {}
    /\ inbox = [d \in Device |-> <<>>]
    /\ on = [d \in Device |-> FALSE] /\ synced = [d \in Device |-> FALSE]
    /\ cards = [d \in Device |-> [i \in Approval |-> Absent]]
    /\ wire = {} /\ left = 0 /\ gone = {}

\* Delete (a store has one entry at most under any of `ks'), evict the oldest at the
\* cap, then set: a repeat moves to the newest slot.
Without(s, ks) ==
    LET at == {n \in DOMAIN s : KeyOf(s[n]) \in ks}
    IN  IF at = {} THEN s ELSE RemoveAt(s, CHOOSE n \in at : TRUE)
Newest(s, cap, e) == Append(IF Len(s) >= cap THEN Tail(s) ELSE s, e)
Pushed(s, cap) == IF Len(s) >= cap THEN {KeyOf(s[1])} ELSE {}

BoundAs(id) == {k \in Keys(bound) : k.id = id}
\* recordApprovalAccount
Bind(acct, id) ==
    bound' = Newest(Without(bound, BoundAs(id)), BindCap, K(acct, id))

\* A frame goes to every device of the account that is on.
Told(acct, frame) ==
    [d \in Device |-> IF AcctOf(d) = acct /\ on[d] THEN Append(inbox[d], frame) ELSE inbox[d]]
Room(acct) == \A d \in Device : AcctOf(d) = acct => Len(inbox[d]) < MaxFrames

-----------------------------------------------------------------------------
\* isExecApprovalsEnabled, hasConfiguredApprovers, isWebChannelExecApprovalApprover
Enabled(a) == a \in Configured
IsApprover(a) == a \in Approver
\* The gateway asks.  shouldHandle picks the accounts.
Asks(id) ==
    /\ core[id] = "none"
    /\ core' = [core EXCEPT ![id] = "asked"]
    /\ entries' = entries \cup {[acct |-> a, id |-> id, st |-> "planned"] : a \in {b \in For(id) : Enabled(b)}}
    /\ UNCHANGED <<bound, pending, resolved, inbox, on, synced, cards, wire, left, gone>>

\* deliverPending: recorded before the channel is looked up, sent or not.
DeliverPending(a, id) ==
    LET e == [acct |-> a, id |-> id, st |-> "planned"]
        kept == Without(pending, {K(a, id)})
    IN  /\ e \in entries /\ Room(a)
        /\ Bind(a, id)
        /\ pending' = Newest(kept, PendingCap, K(a, id))
        /\ gone' = gone \cup Pushed(kept, PendingCap)
        /\ inbox' = Told(a, [t |-> "request", id |-> id])
        /\ entries' = (entries \ {e}) \cup {[e EXCEPT !.st = "delivered"]}
        /\ UNCHANGED <<core, resolved, on, synced, cards, wire, left>>

FinalizedEverywhere(a, id) == {K(b, id) : b \in For(id)}     \* variant: erases every account's record
FinalizedPending(a, id) == {K(a, id)}
\* updateEntry, for a decision and for an expiry: the stores, then the frame.
UpdateEntry(a, id) ==
    LET e == [acct |-> a, id |-> id, st |-> "delivered"]
        erased == FinalizedPending(a, id)
        kept == Without(resolved, {K(a, id)})
        frame == [t |-> "resolved", id |-> id, dec |-> core[id]]
    IN  /\ e \in entries /\ core[id] \in Verdict /\ Room(a)
        /\ entries' = entries \ {e}
        /\ bound' = Without(bound, BoundAs(id))
        /\ pending' = Without(pending, erased)
        /\ resolved' = Newest(kept, ResolvedCap, [acct |-> a, id |-> id, dec |-> core[id]])
        /\ gone' = gone \cup Pushed(kept, ResolvedCap)
        /\ inbox' = Told(a, frame)
        /\ UNCHANGED <<core, on, synced, cards, wire, left>>

\* The approval runtime of an account stops: nobody finalizes its entries.
MonitorStops(a) ==
    /\ \E e \in entries : e.acct = a
    /\ gone' = gone \cup {KeyOf(e) : e \in {x \in entries : x.acct = a}}
    /\ entries' = {e \in entries : e.acct # a}
    /\ UNCHANGED <<core, bound, pending, resolved, inbox, on, synced, cards, wire, left>>

\* The gateway's expiry, which reaches the plugin as a denial
Expires(id) ==
    /\ core[id] = "asked"
    /\ core' = [core EXCEPT ![id] = "deny"]
    /\ UNCHANGED <<bound, pending, resolved, entries, inbox, on, synced, cards, wire, left, gone>>

\* handleApprovalDecision: only on the account that last showed the card, and only an
\* approver there; the gateway takes the first decision.
MayResolve(m) ==
    /\ \E k \in DOMAIN bound : bound[k] = K(AcctOf(m.dev), m.id)
    /\ IsApprover(AcctOf(m.dev))
HandleApprovalDecision(m) ==
    /\ m \in wire
    /\ wire' = wire \ {m}
    /\ core' = IF MayResolve(m) /\ core[m.id] = "asked" THEN [core EXCEPT ![m.id] = m.dec] ELSE core
    /\ UNCHANGED <<bound, pending, resolved, entries, inbox, on, synced, cards, left, gone>>
DecisionLost(m) ==
    /\ m \in wire
    /\ wire' = wire \ {m}
    /\ UNCHANGED <<core, bound, pending, resolved, entries, inbox, on, synced, cards, left, gone>>

ListPending(a, p) == {e.id : e \in {x \in ToSet(p) : x.acct = a}}
ListResolved(a, r) == {[id |-> e.id, dec |-> e.dec] : e \in {x \in ToSet(r) : x.acct = a}}
\* sendApprovalSnapshot
Snapshot(a, p, r) == [t |-> "snapshot", pend |-> ListPending(a, p), res |-> ListResolved(a, r)]
\* A device registers; listing the stores drops what has aged; both are read and the
\* snapshot is published in one turn, to every device of the peer.
Register(d, old) ==
    LET p == Without(pending, old)
        r == Without(resolved, old)
        a == AcctOf(d)
        here == [on EXCEPT ![d] = TRUE]
        snap == Snapshot(a, p, r)
    IN  /\ ~on[d] /\ Room(a)
        /\ on' = here
        /\ pending' = p /\ resolved' = r
        /\ gone' = gone \cup (old \cap (Keys(pending) \cup Keys(resolved)))
        /\ inbox' = [x \in Device |-> IF AcctOf(x) = a /\ here[x] THEN Append(inbox[x], snap)
                                      ELSE inbox[x]]
        /\ UNCHANGED <<core, bound, entries, synced, cards, wire, left>>

\* The device loses its connection, and its page when it reloads.
Leaves(d, reload) ==
    /\ on[d]
    /\ left < MaxLeaves /\ left' = left + 1
    /\ on' = [on EXCEPT ![d] = FALSE] /\ synced' = [synced EXCEPT ![d] = FALSE]
    /\ inbox' = [inbox EXCEPT ![d] = <<>>]
    /\ cards' = IF reload THEN [cards EXCEPT ![d] = [i \in Approval |-> Absent]] ELSE cards
    /\ UNCHANGED <<core, bound, pending, resolved, entries, wire, gone>>

-----------------------------------------------------------------------------
\* decide: the card shows the decision at once.
Decide(d, id, dec) ==
    /\ cards[d][id].dec = "open"
    /\ cards' = [cards EXCEPT ![d][id].dec = dec]
    /\ wire' = wire \cup {[dev |-> d, id |-> id, dec |-> dec]}
    /\ UNCHANGED <<core, bound, pending, resolved, entries, inbox, on, synced, left, gone>>

Receives(d, t) ==
    /\ inbox[d] # <<>> /\ Head(inbox[d]).t = t
    /\ inbox' = [inbox EXCEPT ![d] = Tail(@)]
    /\ UNCHANGED <<core, bound, pending, resolved, entries, on, left, gone>>
\* approval_request: a card that is decided stays decided.
OnRequest(d) ==
    /\ Receives(d, "request")
    /\ LET id == Head(inbox[d]).id IN
       cards' = [cards EXCEPT ![d][id] = IF @.dec = "absent" THEN Open ELSE @]
    /\ UNCHANGED <<synced, wire>>
\* approval_resolved
OnResolved(d) ==
    /\ Receives(d, "resolved")
    /\ LET f == Head(inbox[d]) IN
       cards' = [cards EXCEPT ![d][f.id] = IF @.dec = "absent" THEN @ ELSE [dec |-> f.dec, conf |-> TRUE]]
    /\ UNCHANGED <<synced, wire>>

\* approval_snapshot: one card against the two lists; the resolved one wins.
Reconcile(c, id, f) ==
    LET out == {r.dec : r \in {x \in f.res : x.id = id}} IN
    IF out = {} /\ id \in f.pend THEN IF c = Absent THEN Open ELSE c
    ELSE CASE c.dec = "open" -> [dec |-> IF out = {} THEN "unknown" ELSE CHOOSE x \in out : TRUE, conf |-> TRUE]
           [] c.dec \in Verdict /\ ~c.conf ->
                 [dec |-> IF out = {} THEN c.dec ELSE CHOOSE x \in out : TRUE, conf |-> TRUE]
           [] OTHER -> c
\* approval_snapshot: a decision that the server still waits for is sent again.
OnSnapshot(d) ==
    /\ Receives(d, "snapshot")
    /\ LET f == Head(inbox[d])
           again == {i \in f.pend : /\ cards[d][i].dec \in Verdict /\ ~cards[d][i].conf
                                    /\ \A r \in f.res : r.id # i}
       IN  /\ cards' = [cards EXCEPT ![d] = [i \in Approval |-> Reconcile(@[i], i, f)]]
           /\ wire' = wire \cup {[dev |-> d, id |-> i, dec |-> cards[d][i].dec] : i \in again}
    /\ synced' = [synced EXCEPT ![d] = TRUE]

\* At most one record ages per listing.
Aged == {{}} \cup {{k} : k \in Keys(pending) \cup Keys(resolved)}
Next ==
    \/ \E i \in Approval : Asks(i) \/ Expires(i)
    \/ \E e \in entries : DeliverPending(e.acct, e.id) \/ UpdateEntry(e.acct, e.id) \/ MonitorStops(e.acct)
    \/ \E m \in wire : HandleApprovalDecision(m) \/ DecisionLost(m)
    \/ \E d \in Device : \/ \E old \in Aged : Register(d, old)
                         \/ \E r \in BOOLEAN : Leaves(d, r)
                         \/ \E i \in Approval, v \in Verdict : Decide(d, i, v)
                         \/ OnRequest(d) \/ OnResolved(d) \/ OnSnapshot(d)
Spec == Init /\ [][Next]_vars

-----------------------------------------------------------------------------
\* A device that has handled a snapshot and every frame since agrees with the
\* plugin about every approval of its account that no cap or age pushed out: one
\* that is pending has a card, a card that can be clicked is pending, and a
\* confirmed outcome is the gateway's.  Lost frames, reloads, several devices and
\* finalizing the same approval on another account do not change that.
CardsAgree ==
    \A d \in Device, i \in Approval :
        LET k == K(AcctOf(d), i)
            c == cards[d][i]
        IN  on[d] /\ synced[d] /\ inbox[d] = <<>> /\ k \notin gone =>
                /\ k \in Keys(pending) => c # Absent
                /\ c = Open => k \in Keys(pending)
                /\ c.conf => c.dec = core[i]
                /\ k \in Keys(resolved) => c = Absent \/ c.conf
=============================================================================
