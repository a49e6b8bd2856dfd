----------------------------- MODULE Retention -----------------------------
(***************************************************************************)
(* The process-wide budget of not-yet-running inbound work                 *)
(* (packages/plugin/src/inbound-retention.ts, class                        *)
(* InboundRetentionBudget).                                                *)
(*                                                                         *)
(* A reservation is a closure over four local variables: whether it was    *)
(* released, whether a release was requested, its current owner and a      *)
(* count of holds.  The budget keeps, redundantly, running totals per      *)
(* process, per session and per owner.  The totals are updated at distant  *)
(* places (tryReserve, transfer, finalizeRelease) by different callers     *)
(* (debouncer, flush, dispatcher, /stop, retirement), and nothing in the   *)
(* code ever recomputes them: a total that drifts is wrong until the       *)
(* process restarts.                                                       *)
(***************************************************************************)
EXTENDS Integers, FiniteSets

CONSTANTS
    Reservation,            \* reservation objects the callers may ever create
    Session,                \* opaque session tokens
    Charge,                 \* charged byte sizes the estimator may return
    maxMessagesPerSession,
    maxBytesPerSession,
    maxMessagesPerProcess,
    maxBytesPerProcess,
    MaxHolds                \* bound: nested holds on one reservation

ASSUME ReservationAssumption == IsFiniteSet(Reservation)
ASSUME ChargeAssumption == Charge \subseteq Nat
\* validateLimits: every limit is a non-negative safe integer.
ASSUME LimitsAssumption ==
    /\ maxMessagesPerSession \in Nat
    /\ maxBytesPerSession \in Nat
    /\ maxMessagesPerProcess \in Nat
    /\ maxBytesPerProcess \in Nat
    /\ MaxHolds \in Nat

Owner == {"debounce-waiting", "debounce-inflight", "pending"}

Usage == [messages : Int, bytes : Int]
zeroUsage == [messages |-> 0, bytes |-> 0]
zeroBreakdown == [o \in Owner |-> zeroUsage]

VARIABLES
    status,             \* [Reservation -> "none" | "live" | "requested" | "released"]
    session,            \* the token each reservation was created with
    charged,            \* its chargedBytes
    owner,              \* its currentOwner
    holds,              \* its hold count
    sessions,           \* keys of the sessions map
    sessionUsage,
    sessionBreakdown,
    processUsage,
    processBreakdown

budgetVars == <<status, session, charged, owner, holds, sessions, sessionUsage,
                sessionBreakdown, processUsage, processBreakdown>>

BudgetInit ==
    /\ status = [r \in Reservation |-> "none"]
    /\ session \in [Reservation -> Session]
    /\ charged \in [Reservation -> Charge]
    /\ owner = [r \in Reservation |-> "debounce-waiting"]
    /\ holds = [r \in Reservation |-> 0]
    /\ sessions = {}
    /\ sessionUsage = [s \in Session |-> zeroUsage]
    /\ sessionBreakdown = [s \in Session |-> zeroBreakdown]
    /\ processUsage = zeroUsage
    /\ processBreakdown = zeroBreakdown

(***************************************************************************)
(* Arithmetic on the running totals.                                       *)
(***************************************************************************)
Plus(u, m, b) == [messages |-> u.messages + m, bytes |-> u.bytes + b]

\* adjustBreakdown: the session's and the process's bucket of one owner.
AdjustBreakdown(s, o, m, b) ==
    /\ sessionBreakdown' = [sessionBreakdown EXCEPT ![s][o] = Plus(@, m, b)]
    /\ processBreakdown' = [processBreakdown EXCEPT ![o] = Plus(@, m, b)]

\* adjust: both totals and both buckets.
Adjust(s, o, m, b) ==
    /\ sessionUsage' = [sessionUsage EXCEPT ![s] = Plus(@, m, b)]
    /\ processUsage' = Plus(processUsage, m, b)
    /\ AdjustBreakdown(s, o, m, b)

(***************************************************************************)
(* tryReserve: four tests, then the charge.  A rejection changes nothing   *)
(* (the name of the first failing test is only reported), so only the      *)
(* acceptance is an action.                                                *)
(***************************************************************************)
FitsOffByOne(s, b) ==       \* variant: tests the count before the new message
    /\ sessionUsage[s].messages <= maxMessagesPerSession
    /\ sessionUsage[s].bytes + b <= maxBytesPerSession
    /\ processUsage.messages <= maxMessagesPerProcess
    /\ processUsage.bytes + b <= maxBytesPerProcess

Fits(s, b) ==
    /\ sessionUsage[s].messages + 1 <= maxMessagesPerSession
    /\ sessionUsage[s].bytes + b <= maxBytesPerSession
    /\ processUsage.messages + 1 <= maxMessagesPerProcess
    /\ processUsage.bytes + b <= maxBytesPerProcess

\* The session and the charge of a reservation object are fixed when it is
\* created; BudgetInit picks them, so that they stay constants of the object.
TryReserve(r, o) ==
    /\ status[r] = "none"
    /\ Fits(session[r], charged[r])
    /\ status' = [status EXCEPT ![r] = "live"]
    /\ owner' = [owner EXCEPT ![r] = o]
    /\ sessions' = sessions \union {session[r]}
    /\ Adjust(session[r], o, 1, charged[r])
    /\ UNCHANGED <<session, charged, holds>>

(***************************************************************************)
(* The methods of a reservation.                                           *)
(***************************************************************************)
\* hold() throws once a release was requested; its releaser fires once.
Hold(r) ==
    /\ status[r] = "live"
    /\ holds[r] < MaxHolds
    /\ holds' = [holds EXCEPT ![r] = @ + 1]
    /\ UNCHANGED <<status, session, charged, owner, sessions, sessionUsage,
                   sessionBreakdown, processUsage, processBreakdown>>

\* finalizeRelease: uncharge from the CURRENT owner; the session entry goes
\* away with its last charge.
FinalizeRelease(r) ==
    LET s == session[r] IN
    /\ status' = [status EXCEPT ![r] = "released"]
    /\ Adjust(s, owner[r], -1, -charged[r])
    /\ sessions' = IF sessionUsage'[s] = zeroUsage
                   THEN sessions \ {s} ELSE sessions
    /\ UNCHANGED <<session, charged, owner>>

\* The releaser hold() returned: the last one performs a deferred release.
Unhold(r) ==
    /\ holds[r] > 0
    /\ holds' = [holds EXCEPT ![r] = @ - 1]
    /\ IF holds[r] = 1 /\ status[r] = "requested"
       THEN FinalizeRelease(r)
       ELSE UNCHANGED <<status, session, charged, owner, sessions, sessionUsage,
                        sessionBreakdown, processUsage, processBreakdown>>

TransferSessionOnly(r, next) ==     \* variant: the process buckets are not moved
    /\ status[r] = "live"
    /\ owner[r] # next
    /\ sessionBreakdown' = [sessionBreakdown EXCEPT
           ![session[r]][owner[r]] = Plus(@, -1, -charged[r]),
           ![session[r]][next] = Plus(@, 1, charged[r])]
    /\ owner' = [owner EXCEPT ![r] = next]
    /\ UNCHANGED <<status, session, charged, holds, sessions, sessionUsage,
                   processUsage, processBreakdown>>

\* transfer(next) moves the buckets only, and only while no release is asked.
Transfer(r, next) ==
    /\ status[r] = "live"
    /\ owner[r] # next
    /\ LET s == session[r] IN
       /\ sessionBreakdown' = [sessionBreakdown EXCEPT
              ![s][owner[r]] = Plus(@, -1, -charged[r]),
              ![s][next] = Plus(@, 1, charged[r])]
       /\ processBreakdown' = [processBreakdown EXCEPT
              ![owner[r]] = Plus(@, -1, -charged[r]),
              ![next] = Plus(@, 1, charged[r])]
    /\ owner' = [owner EXCEPT ![r] = next]
    /\ UNCHANGED <<status, session, charged, holds, sessions, sessionUsage, processUsage>>

RequestReleaseEagerly(r) ==     \* variant: a hold does not defer the release
    /\ status[r] = "live"
    /\ UNCHANGED holds
    /\ FinalizeRelease(r)

\* requestRelease() and release(): the first request wins; a held reservation
\* stays charged until its last hold ends.  They differ only on a repeated
\* call (a no-op for the first, a throw for the second), which changes nothing.
RequestRelease(r) ==
    /\ status[r] = "live"
    /\ UNCHANGED holds
    /\ IF holds[r] = 0
       THEN FinalizeRelease(r)
       ELSE /\ status' = [status EXCEPT ![r] = "requested"]
            /\ UNCHANGED <<session, charged, owner, sessions, sessionUsage,
                           sessionBreakdown, processUsage, processBreakdown>>

BudgetNext ==
    \E r \in Reservation :
        \/ \E o \in Owner : TryReserve(r, o) \/ Transfer(r, o)
        \/ Hold(r)
        \/ Unhold(r)
        \/ RequestRelease(r)

BudgetSpec == BudgetInit /\ [][BudgetNext]_budgetVars

-----------------------------------------------------------------------------
\* Reservations that still count against the budget.
Charged == {r \in Reservation : status[r] \in {"live", "requested"}}
ChargedTo(s) == {r \in Charged : session[r] = s}
OwnedBy(o) == {r \in Charged : owner[r] = o}
OwnedIn(s, o) == {r \in Charged : session[r] = s /\ owner[r] = o}

\* The sum of the charges c of the reservations R, counted byte by byte: a byte is
\* a reservation and an index into its charge.
Bytes(c, R) == Cardinality(UNION {{r} \X (1..c[r]) : r \in R})
BytesOf(R) == Bytes(charged, R)

\* Type correctness of the budget and of its reservations.
BudgetTypeOK ==
    /\ status \in [Reservation -> {"none", "live", "requested", "released"}]
    /\ session \in [Reservation -> Session]
    /\ charged \in [Reservation -> Charge]
    /\ owner \in [Reservation -> Owner]
    /\ holds \in [Reservation -> Nat]
    /\ sessions \subseteq Session
    /\ sessionUsage \in [Session -> Usage]
    /\ sessionBreakdown \in [Session -> [Owner -> Usage]]
    /\ processUsage \in Usage
    /\ processBreakdown \in [Owner -> Usage]

\* The limits of tryReserve hold of the running totals at every moment, whatever
\* the order of transfers, holds and deferred releases.
WithinLimits ==
    /\ processUsage.messages <= maxMessagesPerProcess
    /\ processUsage.bytes <= maxBytesPerProcess
    /\ \A s \in Session :
        /\ sessionUsage[s].messages <= maxMessagesPerSession
        /\ sessionUsage[s].bytes <= maxBytesPerSession

\* The running message totals are exactly the numbers of reservations not yet
\* released: per process, per session, per owner and per owner of a session.  So
\* neither a deferred release, nor a transfer before it, nor a repeated request
\* can make the totals drift, and assertUsage never throws on a message count.
MessagesConserved ==
    /\ processUsage.messages = Cardinality(Charged)
    /\ \A s \in Session : sessionUsage[s].messages = Cardinality(ChargedTo(s))
    /\ \A o \in Owner : processBreakdown[o].messages = Cardinality(OwnedBy(o))
    /\ \A s \in Session, o \in Owner :
           sessionBreakdown[s][o].messages = Cardinality(OwnedIn(s, o))

\* The same for the byte totals: each is the sum of the charges behind it.
BytesConserved ==
    /\ processUsage.bytes = BytesOf(Charged)
    /\ \A s \in Session : sessionUsage[s].bytes = BytesOf(ChargedTo(s))
    /\ \A o \in Owner : processBreakdown[o].bytes = BytesOf(OwnedBy(o))
    /\ \A s \in Session, o \in Owner :
           sessionBreakdown[s][o].bytes = BytesOf(OwnedIn(s, o))

\* The sessions map has an entry exactly for the sessions with charged work:
\* finalizeRelease and transfer never find their session missing, and a session
\* leaves no entry behind.
SessionsExact == \A s \in Session : s \in sessions <=> ChargedTo(s) # {}

\* The running totals are exact in messages, bytes and sessions.
Conserved == MessagesConserved /\ BytesConserved /\ SessionsExact

\* A reservation under a callback's hold is still charged, and one whose release
\* was requested is charged only because of a hold: raw text is never retained
\* without its charge, nor charged without being retained.
HeldIsCharged ==
    \A r \in Reservation :
        /\ holds[r] > 0 => r \in Charged
        /\ status[r] = "requested" => holds[r] > 0
=============================================================================
