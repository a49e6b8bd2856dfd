----------------------------- MODULE Enrollment -----------------------------
(***************************************************************************)
(* Device-flow enrollment in the SaaS, for one account.                    *)
(*   device-flow-enrollment.ts   enroll, poll, approve, deny               *)
(*   enrollment-repository.ts    claims, fenced commits, expiry, sweep     *)
(*   agent-key-registry.ts       the account's agent keys                  *)
(*                                                                         *)
(* approve() claims the enrollment under a lease, reads the key registry,  *)
(* mints credentials and commits, awaiting the repository at every step;   *)
(* replicas do so concurrently, an operator may deny or revoke meanwhile,  *)
(* and a repository call may fail with its effect done or not done.        *)
(* Each repository call is one transaction (its contract).                 *)
(*                                                                         *)
(* Codes and ids are random and taken as unique, so that a device code and *)
(* its user code are one Flow, an approve() call, its opId, the            *)
(* credentials it mints and its commit digest are one Op.  An activation   *)
(* id is the position in the history.  An answer is "approved" (with the   *)
(* credentials), "refused" (in_progress, conflict, revoked_key, rejected)  *)
(* or "threw" (an exception or a dead process: the operator cannot know).  *)
(***************************************************************************)
EXTENDS Naturals, Sequences

CONSTANTS
    Flow,       \* enrollments
    Op,         \* calls of approve()
    Key,        \* agent public keys
    Replica,    \* processes that serve operators
    None, Legacy,   \* no value; the credentials of a row without a commit snapshot
    Expiration, Lease, Retention,   \* expirationSeconds, approvalLeaseMs, retentionMs
    MaxTime,    \* bound: the repository clock
    MaxEnroll,  \* bound: the time of the last enrollment
    MaxFaults   \* bound: failures of a mint, a repository call or a process

ASSUME TimesAssumption ==
    Expiration \in Nat /\ Lease \in Nat /\ Retention \in Nat
    /\ MaxTime \in Nat /\ MaxEnroll \in Nat /\ MaxFaults \in Nat
ASSUME NoneAssumption ==
    /\ None \notin Flow \union Op \union Key \union Replica \union {"approved", "refused", "threw"}
    /\ Legacy \notin Op \union {None}

VARIABLES
    now,        \* the repository clock
    status,     \* [Flow -> "none", an EnrollmentRecord's status, or "swept"]
    key,        \* agentPublicKey
    expires,    \* expiresAt
    claim, lease,   \* claim.opId (or None), claim.leaseUntil
    by, at,     \* committedBy with natsCreds, approvedAt
    history,    \* the registry's rows, oldest first: Seq of [key, status]
    lock,       \* userCodeLocks: [Replica -> [Flow -> Seq(Op)]]
    pc, target, home, replace,  \* per call: next await, flow, replica, replaceActivationId (0: none)
    view, expect, answer,   \* the claimed row's credentials; expect (0: null); its answer
    faults,     \* failures so far
    told        \* history: [Flow -> credentials that were handed out]

repo == <<status, key, expires, claim, lease, by, at, history>>
call == <<lock, pc, target, home, replace, view, expect, answer>>
vars == <<now, repo, call, faults, told>>

\* An account may have an agent that enrolled before, and rows written before
\* commits kept a snapshot.
Init ==
    /\ now = 0
    /\ status \in [Flow -> {"none", "approved"}]
    /\ key \in [Flow -> Key \union {None}]
    /\ \A f \in Flow : key[f] = None <=> status[f] = "none"
    /\ expires = [f \in Flow |-> 0]
    /\ claim = [f \in Flow |-> None] /\ lease = [f \in Flow |-> 0]
    /\ by = [f \in Flow |-> IF status[f] = "none" THEN None ELSE Legacy]
    /\ at = [f \in Flow |-> 0]
    /\ history = <<>> \/ \E k \in Key : history = <<[key |-> k, status |-> "active"]>>
    /\ lock = [r \in Replica |-> [f \in Flow |-> <<>>]]
    /\ pc = [p \in Op |-> "new"]
    /\ target = [p \in Op |-> None] /\ home = [p \in Op |-> None]
    /\ replace = [p \in Op |-> 0] /\ expect = [p \in Op |-> 0]
    /\ view = [p \in Op |-> None] /\ answer = [p \in Op |-> None]
    /\ faults = 0 /\ told = [f \in Flow |-> {}]

Fault == faults < MaxFaults /\ faults' = faults + 1

Tick ==
    /\ now < MaxTime
    /\ now' = now + 1
    /\ UNCHANGED <<repo, call, faults, told>>

-----------------------------------------------------------------------------
(***************************************************************************)
(* The agent-key registry.                                                 *)
(***************************************************************************)
Activation(s) == {n \in DOMAIN history : history[n].status = s}

\* getActive: the newest active row, 0 if there is none.
Active ==
    IF Activation("active") = {} THEN 0
    ELSE CHOOSE n \in Activation("active") : \A m \in Activation("active") : m <= n
ActiveKey == IF Active = 0 THEN None ELSE history[Active].key
RevokedKeys == {history[n].key : n \in Activation("revoked")}

\* registerSync refuses a tombstoned key, ...
TombstonedNever(k) == FALSE     \* variant: only the check before the mint
Tombstoned(k) == k \in RevokedKeys
\* ... returns the active row of the same key, ...
Registered(k) == ~Tombstoned(k) /\ ActiveKey = k
\* ... and compares the active row with the one the caller expects.
MatchesAny(e) == TRUE           \* variant: no compare-and-set
Matches(e) == e = Active
Ended(s) == [n \in DOMAIN history |->
                IF n = Active THEN [history[n] EXCEPT !.status = s] ELSE history[n]]
Activate(k) == history' = Append(Ended("superseded"), [key |-> k, status |-> "active"])

RevokeActive ==
    /\ Active # 0
    /\ history' = Ended("revoked")
    /\ UNCHANGED <<now, status, key, expires, claim, lease, by, at, call, faults, told>>

-----------------------------------------------------------------------------
(***************************************************************************)
(* The plugin's side: enroll and poll; deny; the sweeper.                  *)
(***************************************************************************)
Enroll(f, k) ==
    /\ status[f] = "none" /\ now <= MaxEnroll
    /\ status' = [status EXCEPT ![f] = "pending"]
    /\ key' = [key EXCEPT ![f] = k]
    /\ expires' = [expires EXCEPT ![f] = now + Expiration]
    /\ UNCHANGED <<now, claim, lease, by, at, history, call, faults, told>>

Late(f) == now > expires[f]
LeaseLive(f) == status[f] = "approving" /\ now <= lease[f]

\* status = s and no claim any more.
Becomes(f, s) ==
    /\ status' = [status EXCEPT ![f] = s]
    /\ claim' = [claim EXCEPT ![f] = None] /\ lease' = [lease EXCEPT ![f] = 0]
    /\ UNCHANGED <<key, expires, by, at, history>>

\* poll: tryExpire, then the credentials of an approved enrollment.
PollExpires(f) ==
    /\ status[f] \in {"pending", "approving"} /\ Late(f) /\ ~LeaseLive(f)
    /\ Becomes(f, "expired")
    /\ UNCHANGED <<now, call, faults, told>>
PollApproved(f) ==
    /\ status[f] = "approved"
    /\ told' = [told EXCEPT ![f] = @ \union {by[f]}]
    /\ UNCHANGED <<now, repo, call, faults>>

Deniable(f) == status[f] \in {"pending", "approving"}
Deny(f) ==
    /\ Deniable(f)
    /\ Becomes(f, IF Late(f) THEN "expired" ELSE "denied")
    /\ UNCHANGED <<now, call, faults, told>>

Base(f) == IF status[f] = "approved" /\ by[f] # Legacy THEN at[f] ELSE expires[f]
Sweep ==
    LET old == {f \in Flow : /\ status[f] \notin {"none", "swept"} /\ ~LeaseLive(f)
                             /\ now > Base(f) + Retention}
    IN  /\ old # {}
        /\ status' = [f \in Flow |-> IF f \in old THEN "swept" ELSE status[f]]
        /\ claim' = [f \in Flow |-> IF f \in old THEN None ELSE claim[f]]
        /\ by' = [f \in Flow |-> IF f \in old THEN None ELSE by[f]]
        /\ lease' = [f \in Flow |-> IF f \in old THEN 0 ELSE lease[f]]
        /\ at' = [f \in Flow |-> IF f \in old THEN 0 ELSE at[f]]
        /\ expires' = [f \in Flow |-> IF f \in old THEN 0 ELSE expires[f]]
        /\ UNCHANGED <<now, key, history, call, faults, told>>

-----------------------------------------------------------------------------
(***************************************************************************)
(* approve().                                                              *)
(***************************************************************************)
\* withUserCodeLock: queue behind the calls of this process for the same code.
Approve(p, f, r, n) ==
    /\ pc[p] = "new" /\ status[f] # "none"
    /\ lock' = [lock EXCEPT ![r][f] = Append(@, p)]
    /\ pc' = [pc EXCEPT ![p] = "locked"]
    /\ target' = [target EXCEPT ![p] = f] /\ home' = [home EXCEPT ![p] = r]
    /\ replace' = [replace EXCEPT ![p] = n]
    /\ UNCHANGED <<now, repo, view, expect, answer, faults, told>>

Await(p, l) == pc' = [pc EXCEPT ![p] = l] /\ UNCHANGED <<lock, target, home, replace, answer>>
\* The call returns or throws, and the next one in the lock's chain may run.
UnlockOnSuccess(p) ==   \* variant: a throw breaks the chain
    IF answer'[p] = "threw" THEN lock' = lock
    ELSE lock' = [lock EXCEPT ![home[p]][target[p]] = Tail(@)]
Unlock(p) == lock' = [lock EXCEPT ![home[p]][target[p]] = Tail(@)]
Answer(p, a) ==
    /\ answer' = [answer EXCEPT ![p] = a] /\ Unlock(p)
    /\ pc' = [pc EXCEPT ![p] = "done"]
    /\ home' = [home EXCEPT ![p] = None] /\ replace' = [replace EXCEPT ![p] = 0]
    /\ view' = [view EXCEPT ![p] = None] /\ expect' = [expect EXCEPT ![p] = 0]
    /\ UNCHANGED target
Tell(p, c) == told' = [told EXCEPT ![target[p]] = @ \union {c}]

Claimable(f) ==
    /\ status[f] \in {"pending", "approving"} /\ ~Late(f) /\ ~LeaseLive(f)

HasLock(p) == pc[p] = "locked" /\ Head(lock[home[p]][target[p]]) = p

\* claimApproval.
ClaimTaken(p) == LET f == target[p] IN
    /\ HasLock(p) /\ Claimable(f)
    /\ status' = [status EXCEPT ![f] = "approving"]
    /\ claim' = [claim EXCEPT ![f] = p] /\ lease' = [lease EXCEPT ![f] = now + Lease]
    /\ Await(p, "history")
    /\ UNCHANGED <<now, key, expires, by, at, history, view, expect, faults, told>>
ClaimRefused(p) == LET f == target[p] IN
    /\ HasLock(p) /\ ~Claimable(f) /\ status[f] # "approved"
    /\ \/ /\ LeaseLive(f) /\ UNCHANGED repo
       \/ /\ status[f] \in {"pending", "approving"} /\ ~LeaseLive(f)
          /\ Becomes(f, "expired")
       \/ /\ status[f] \in {"denied", "expired", "swept"} /\ UNCHANGED repo
    /\ Answer(p, "refused")
    /\ UNCHANGED <<now, faults, told>>
ClaimFindsApproved(p) ==
    /\ HasLock(p) /\ status[target[p]] = "approved"
    /\ Await(p, "reconcile")
    /\ view' = [view EXCEPT ![p] = by[target[p]]]
    /\ UNCHANGED <<now, repo, expect, faults, told>>

\* reconcileApprovedRegistration: a row without a commit snapshot is registered
\* when the registry is empty.  The answer is the row that the claim returned.
NeedsRegistration(f) == status[f] = "approved" /\ history = <<>> /\ by[f] = Legacy
Reconcile(p) == LET f == target[p] IN
    /\ pc[p] = "reconcile"
    /\ IF NeedsRegistration(f) THEN Activate(key[f]) ELSE UNCHANGED history
    /\ Answer(p, "approved") /\ Tell(p, view[p])
    /\ UNCHANGED <<now, status, key, expires, claim, lease, by, at, faults>>

\* listHistory, then getActive.
ReadHistory(p) ==
    /\ pc[p] = "history"
    /\ Await(p, IF key[target[p]] \in RevokedKeys THEN "drop" ELSE "active")
    /\ UNCHANGED <<now, repo, view, expect, faults, told>>
MayReplace(p) ==
    \/ Active = 0 /\ replace[p] = 0
    \/ Active # 0 /\ (ActiveKey = key[target[p]] \/ replace[p] = Active)
ReadActive(p) ==
    /\ pc[p] = "active"
    /\ expect' = [expect EXCEPT ![p] = IF MayReplace(p) THEN Active ELSE 0]
    /\ Await(p, IF MayReplace(p) THEN "mint" ELSE "drop")
    /\ UNCHANGED <<now, repo, view, faults, told>>

Mint(p) ==
    /\ pc[p] = "mint"
    /\ \/ Await(p, "commit") /\ UNCHANGED faults
       \/ Await(p, "failed") /\ Fault
    /\ UNCHANGED <<now, repo, view, expect, told>>

\* releaseClaim; a failure is caught and leaves the claim to its lease.
Drop(p) == LET f == target[p] IN
    /\ pc[p] \in {"drop", "failed"}
    /\ \/ status[f] = "approving" /\ claim[f] = p /\ Becomes(f, "pending") /\ UNCHANGED faults
       \/ ~(status[f] = "approving" /\ claim[f] = p) /\ UNCHANGED <<repo, faults>>
       \/ UNCHANGED repo /\ Fault
    /\ Answer(p, IF pc[p] = "drop" THEN "refused" ELSE "threw")
    /\ UNCHANGED <<now, told>>

\* commitApproval: what it does to the repository, and its outcome.
OwnsLease(p) == LeaseLive(target[p]) /\ claim[target[p]] = p
RecoveredInLease(p) == OwnsLease(p) /\ by[target[p]] = p   \* variant: the lease fence comes first
Recovered(p) == status[target[p]] = "approved" /\ by[target[p]] = p
CommitRecovers(p) == Recovered(p) /\ UNCHANGED repo
CommitLost(p) == ~Recovered(p) /\ ~OwnsLease(p) /\ UNCHANGED repo
CommitExpired(p) == OwnsLease(p) /\ Late(target[p]) /\ Becomes(target[p], "expired")
CommitRefused(p) == LET f == target[p] IN
    /\ OwnsLease(p) /\ ~Late(f) /\ ~Registered(key[f])
    /\ Tombstoned(key[f]) \/ ~Matches(expect[p])
    /\ Becomes(f, "pending")
CommitApplied(p) == LET f == target[p] IN
    /\ OwnsLease(p) /\ ~Late(f) /\ ~Tombstoned(key[f])
    /\ IF Registered(key[f]) THEN UNCHANGED history
                             ELSE Matches(expect[p]) /\ Activate(key[f])
    /\ status' = [status EXCEPT ![f] = "approved"] /\ claim' = [claim EXCEPT ![f] = None]
    /\ lease' = [lease EXCEPT ![f] = 0]
    /\ by' = [by EXCEPT ![f] = p] /\ at' = [at EXCEPT ![f] = now]
    /\ UNCHANGED <<key, expires>>
CommitApproval(p) ==
    CommitRecovers(p) \/ CommitLost(p) \/ CommitExpired(p) \/ CommitRefused(p) \/ CommitApplied(p)

\* The commit returns.
Committed(p) ==
    /\ pc[p] \in {"commit", "retry"}
    /\ CommitRecovers(p) \/ CommitApplied(p)
    /\ Answer(p, "approved") /\ Tell(p, p)
    /\ UNCHANGED <<now, faults>>
NotCommitted(p) ==
    /\ pc[p] \in {"commit", "retry"}
    /\ CommitLost(p) \/ CommitExpired(p) \/ CommitRefused(p)
    /\ Answer(p, "refused")
    /\ UNCHANGED <<now, faults, told>>
\* The commit throws, done or not done: it is tried once more, and may fail again.
CommitThrows(p) ==
    /\ pc[p] \in {"commit", "retry"}
    /\ CommitApproval(p) \/ UNCHANGED repo
    /\ \/ pc[p] = "commit" /\ Await(p, "retry") /\ Fault /\ UNCHANGED <<view, expect>>
       \/ pc[p] = "retry" /\ Answer(p, "threw") /\ UNCHANGED faults
    /\ UNCHANGED <<now, told>>

\* Any other repository call throws: approve() does, and the claim waits for its
\* lease.  A registration may have been made.
CallThrows(p) == LET f == target[p] IN
    /\ HasLock(p) \/ pc[p] \in {"reconcile", "history", "active"}
    /\ \/ UNCHANGED repo
       \/ /\ pc[p] = "reconcile" /\ NeedsRegistration(f) /\ Activate(key[f])
          /\ UNCHANGED <<status, key, expires, claim, lease, by, at>>
    /\ Fault /\ Answer(p, "threw")
    /\ UNCHANGED <<now, told>>

\* A process dies with the calls it runs; the repository is durable.
Crash(r) ==
    LET dead == {p \in Op : home[p] = r}
    IN  /\ dead # {} /\ Fault
        /\ pc' = [p \in Op |-> IF p \in dead THEN "done" ELSE pc[p]]
        /\ answer' = [p \in Op |-> IF p \in dead THEN "threw" ELSE answer[p]]
        /\ lock' = [lock EXCEPT ![r] = [f \in Flow |-> <<>>]]
        /\ home' = [p \in Op |-> IF p \in dead THEN None ELSE home[p]]
        /\ replace' = [p \in Op |-> IF p \in dead THEN 0 ELSE replace[p]]
        /\ view' = [p \in Op |-> IF p \in dead THEN None ELSE view[p]]
        /\ expect' = [p \in Op |-> IF p \in dead THEN 0 ELSE expect[p]]
        /\ UNCHANGED <<now, repo, target, told>>

OpStep(p) ==
    \/ ClaimTaken(p) \/ ClaimRefused(p) \/ ClaimFindsApproved(p) \/ Reconcile(p)
    \/ ReadHistory(p) \/ ReadActive(p) \/ Mint(p) \/ Drop(p)
    \/ Committed(p) \/ NotCommitted(p) \/ CommitThrows(p) \/ CallThrows(p)

Next ==
    \/ Tick \/ RevokeActive \/ Sweep
    \/ \E f \in Flow : \/ \E k \in Key : Enroll(f, k)
                       \/ PollExpires(f) \/ PollApproved(f) \/ Deny(f)
                       \/ \E p \in Op, r \in Replica, n \in 0..Len(history) : Approve(p, f, r, n)
    \/ \E p \in Op : OpStep(p)
    \/ \E r \in Replica : Crash(r)

Spec == Init /\ [][Next]_vars

-----------------------------------------------------------------------------
Status == {"none", "pending", "approving", "approved", "denied", "expired", "swept"}
Row == [key : Key, status : {"active", "superseded", "revoked"}]
Location == {"new", "locked", "reconcile", "history", "active", "mint", "drop", "failed",
             "commit", "retry", "done"}

\* Type correctness.
TypeOK ==
    /\ now \in Nat /\ faults \in Nat
    /\ status \in [Flow -> Status] /\ key \in [Flow -> Key \union {None}]
    /\ expires \in [Flow -> Nat] /\ lease \in [Flow -> Nat] /\ at \in [Flow -> Nat]
    /\ claim \in [Flow -> Op \union {None}] /\ by \in [Flow -> Op \union {None, Legacy}]
    /\ history \in Seq(Row)
    /\ lock \in [Replica -> [Flow -> Seq(Op)]]
    /\ pc \in [Op -> Location] /\ target \in [Op -> Flow \union {None}]
    /\ home \in [Op -> Replica \union {None}]
    /\ replace \in [Op -> Nat] /\ expect \in [Op -> Nat]
    /\ view \in [Op -> Op \union {None, Legacy}]
    /\ answer \in [Op -> {None, "approved", "refused", "threw"}]
    /\ told \in [Flow -> SUBSET (Op \union {None, Legacy})]

\* Enrollment keeps what Grant promises: decided once, approval and activation
\* together, one active key, no way back for a revoked key.
Granted == INSTANCE Grant WITH
    flow <- [f \in Flow |-> IF status[f] \in {"pending", "approving"} THEN "open" ELSE status[f]],
    asked <- key, active <- ActiveKey, revoked <- RevokedKeys
Implements == Granted!Spec

\* A plugin is never handed two identities: whatever polls, repeated approvals
\* and retried commits answer for an enrollment, the credentials are the same.
OneIdentity == \A f \in Flow : \A c, d \in told[f] : c = d

\* An operator is not told "no" by a call whose approval took effect and is still
\* kept: a commit whose answer was lost is recovered after its lease too.
TruthfulAnswer ==
    \A p \in Op : answer[p] = "refused" => by[target[p]] # p

\* What plugin and operators are told agrees with the repository.
AnswersAgree == OneIdentity /\ TruthfulAnswer

\* An active key gives way only to an approval whose operator named exactly that
\* activation, whatever happened between the look at it and the commit.
ReplacedByConsent ==
    [][\A n \in Activation("active") : history'[n].status = "superseded" =>
          \E p \in Op : replace[p] = n /\ by'[target[p]] = p /\ by[target[p]] # p]_vars

\* The lock of a process is never left behind by a call that ended, also when it
\* threw: the approvals queued behind it get their turn.
LockServed ==
    \A r \in Replica, f \in Flow : lock[r][f] # <<>> =>
        /\ pc[Head(lock[r][f])] \notin {"new", "done"}
        /\ \A i \in 2..Len(lock[r][f]) : pc[lock[r][f][i]] = "locked"
=============================================================================
