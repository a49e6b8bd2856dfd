------------------------------- MODULE Grant -------------------------------
(***************************************************************************)
(* What device-flow enrollment promises, whatever replicas, retries,       *)
(* leases and crashes do: every enrollment is decided once, an approval    *)
(* and the activation of its agent key are one step, an account has at     *)
(* most one active key, and a revoked key is never activated again.        *)
(* (The contract of EnrollmentRepository and AgentKeyRegistry; one account *)
(* slot.)                                                                  *)
(***************************************************************************)
CONSTANTS Flow, Key, None

VARIABLES
    flow,       \* [Flow -> "none" | "open" | "approved" | "denied" | "expired" | "swept"]
    asked,      \* [Flow -> the agent key the plugin enrolled with, or None]
    active,     \* the account's active agent key, or None
    revoked     \* tombstones

vars == <<flow, asked, active, revoked>>

\* An earlier enrollment may have left an active key; rows of an older version are
\* approved and need not have registered theirs.
Init ==
    /\ flow \in [Flow -> {"none", "approved"}]
    /\ asked \in [Flow -> Key \union {None}]
    /\ \A f \in Flow : asked[f] = None <=> flow[f] = "none"
    /\ active \in Key \union {None} /\ revoked = {}

Open(f, k) ==
    /\ flow[f] = "none"
    /\ flow' = [flow EXCEPT ![f] = "open"] /\ asked' = [asked EXCEPT ![f] = k]
    /\ UNCHANGED <<active, revoked>>

Approve(f) ==
    /\ flow[f] = "open" /\ asked[f] \notin revoked
    /\ flow' = [flow EXCEPT ![f] = "approved"] /\ active' = asked[f]
    /\ UNCHANGED <<asked, revoked>>

Refuse(f) ==
    /\ flow[f] = "open"
    /\ \E s \in {"denied", "expired"} : flow' = [flow EXCEPT ![f] = s]
    /\ UNCHANGED <<asked, active, revoked>>

Forget(F) ==
    /\ \A f \in F : flow[f] # "none"
    /\ flow' = [f \in Flow |-> IF f \in F THEN "swept" ELSE flow[f]]
    /\ UNCHANGED <<asked, active, revoked>>

\* The key of an older row is registered when it is approved again.
Adopt(f) ==
    /\ flow[f] = "approved" /\ active = None /\ asked[f] \notin revoked
    /\ active' = asked[f]
    /\ UNCHANGED <<flow, asked, revoked>>

Revoke ==
    /\ active # None
    /\ active' = None /\ revoked' = revoked \union {active}
    /\ UNCHANGED <<flow, asked>>

Next ==
    \/ \E f \in Flow : \/ \E k \in Key : Open(f, k)
                       \/ Approve(f) \/ Refuse(f) \/ Adopt(f)
    \/ \E F \in SUBSET Flow : Forget(F)
    \/ Revoke

Spec == Init /\ [][Next]_vars
=============================================================================
