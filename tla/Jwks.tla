-------------------------------- MODULE Jwks --------------------------------
(***************************************************************************)
(* The issuer's key set as the plugin caches it (packages/plugin/src/      *)
(* jwks.ts) and the verdict a token verification draws from it (auth.ts).  *)
(*                                                                         *)
(* One refetch is shared: whoever finds no usable cache joins the fetch    *)
(* that is under way, and the last to leave cancels it.  Verifications     *)
(* have no signal; a warm-up belongs to an account lifecycle and leaves    *)
(* when that aborts.  What follows a settled fetch are microtasks, so no   *)
(* timer, call or answer happens between them: the guard Quiet.            *)
(*                                                                         *)
(* The source is a URL or a file; an inline key set is never fetched and   *)
(* is not modelled.                                                        *)
(***************************************************************************)
EXTENDS Integers

CONSTANTS
  Verifier,   \* concurrent token verifications (getKey)
  Warmer,     \* concurrent lifecycle warm-ups (warm with a signal)
  Kid,        \* key ids
  TTL,        \* ttlMs
  MaxTime     \* bound: the clock

VARIABLES
  src,        \* "url" or "file"
  published,  \* the kids the issuer publishes now
  cache,      \* the cached key set and when it was fetched, or None
  op,         \* inflightRefetch, or None
  call,       \* the callers of getKey and warm
  clock

vars == <<src, published, cache, op, call, clock>>

Caller == Verifier \cup Warmer
None == [none |-> TRUE]

\* A caller between calls.
Idle == [pc |-> "idle"]

Init ==
  /\ src \in {"url", "file"}
  /\ published \in SUBSET Kid
  /\ cache = None
  /\ op = None
  /\ call = [c \in Caller |-> Idle]
  /\ clock = 0

-----------------------------------------------------------------------------
Settled(o) == o # None /\ o.st = "settled"

\* No microtask is pending: nobody waits on a fetch that has settled.
Quiet == ~(Settled(op) /\ \E c \in Caller : call[c].pc = "load")

\* maybeLoadFromCache: the cached set while it is younger than the TTL.
FreshCache == cache # None /\ clock - cache.at < TTL

\* The refetch a caller joins: the one under way, or a new one.
Joined(o) ==
  IF o = None THEN [st |-> "fetching", subs |-> 1, doc |-> {}, why |-> "none", at |-> clock]
  ELSE [o EXCEPT !.subs = @ + 1]

\* The refetch after a subscriber left: the last one clears the slot and
\* aborts the fetch, whose promise then rejects for nobody.
Left(o) == IF o.subs = 1 THEN None ELSE [o EXCEPT !.subs = @ - 1]

Load(c, kid, since, again) ==
  call' = [call EXCEPT ![c] = [pc |-> "load", kid |-> kid, since |-> since, again |-> again]]

\* The call ended: why is "key", or the class of the error it threw.
Done(c, why, since, at) ==
  call' = [call EXCEPT ![c] = [pc |-> "done", why |-> why, since |-> since, at |-> at]]

\* getKey: a fresh cache answers; a kid it lacks drops it and refetches once.
GetKey(c, kid) ==
  /\ Quiet
  /\ call[c] = Idle
  /\ \/ /\ FreshCache
        /\ kid \in cache.doc
        /\ Done(c, "key", clock, cache.at)
        /\ UNCHANGED <<cache, op>>
     \/ /\ FreshCache
        /\ kid \notin cache.doc
        /\ cache' = None
        /\ op' = Joined(op)
        /\ Load(c, kid, clock, TRUE)
     \/ /\ ~FreshCache
        /\ op' = Joined(op)
        /\ Load(c, kid, clock, FALSE)
        /\ UNCHANGED cache
  /\ UNCHANGED <<src, published, clock>>

\* warm: the same cache and the same refetch, without a kid.
Warm(c) ==
  /\ Quiet
  /\ call[c] = Idle
  /\ \/ /\ FreshCache
        /\ Done(c, "warm", clock, cache.at)
        /\ UNCHANGED op
     \/ /\ ~FreshCache
        /\ op' = Joined(op)
        /\ Load(c, "none", clock, FALSE)
  /\ UNCHANGED <<src, published, cache, clock>>

\* Variant: the caller's own signal is handed to the shared fetch.
AbortsTheFetch(c) ==
  /\ Quiet
  /\ call[c].pc = "load"
  /\ op' = IF op.subs = 1 THEN None
           ELSE [op EXCEPT !.subs = @ - 1, !.st = "settled", !.why = "abort", !.at = clock]
  /\ Done(c, "abort", call[c].since, clock)
  /\ UNCHANGED <<src, published, cache, clock>>

\* Variant: an aborted caller rejects without giving back its subscription.
AbortKeepsSubscription(c) ==
  /\ Quiet
  /\ call[c].pc = "load"
  /\ Done(c, "abort", call[c].since, clock)
  /\ UNCHANGED <<src, published, cache, op, clock>>

\* The lifecycle of a warm-up aborts: raceAbort rejects for it alone.
Abort(c) ==
  /\ Quiet
  /\ call[c].pc = "load"
  /\ op' = Left(op)
  /\ Done(c, "abort", call[c].since, clock)
  /\ UNCHANGED <<src, published, cache, clock>>

-----------------------------------------------------------------------------
(* The fetch itself. *)

\* The issuer (or the file system) produces the document; it is under way.
Answer ==
  /\ Quiet
  /\ op # None
  /\ op.st = "fetching"
  /\ op' = [op EXCEPT !.st = "answered", !.doc = published]
  /\ UNCHANGED <<src, published, cache, call, clock>>

\* The refetch ends well: its document becomes the cache.
Settle ==
  /\ op # None
  /\ op.st = "answered"
  /\ op' = [op EXCEPT !.st = "settled", !.why = "doc", !.at = clock]
  /\ cache' = [doc |-> op.doc, at |-> clock]
  /\ UNCHANGED <<src, published, call, clock>>

\* It ends badly: the cache goes too, so that nothing stale is served.
Fails(why) ==
  /\ op' = [op EXCEPT !.st = "settled", !.why = why, !.at = clock]
  /\ cache' = None
  /\ UNCHANGED <<src, published, call, clock>>

\* fetchJwks: timeout, network failure, an HTTP status or a body that is not
\* JSON are "unavailable"; a document without keys is "malformed".
FetchFails ==
  /\ src = "url"
  /\ op # None
  /\ \/ op.st \in {"fetching", "answered"} /\ Fails("unavailable")
     \/ op.st = "answered" /\ Fails("malformed")

\* loadJwksFile: a read that fails or times out is "unavailable"; contents
\* that are not a key set (JSON or not) are "malformed".
ReadFails ==
  /\ src = "file"
  /\ op # None
  /\ \/ op.st = "fetching" /\ Fails("unavailable")
     \/ op.st = "answered" /\ Fails("malformed")

\* A subscriber runs on: it leaves the refetch, and then uses its document.
\* A kid that the first load lacks is looked for once more.
Resume(c) ==
  /\ Settled(op)
  /\ call[c].pc = "load"
  /\ LET after == Left(op)
         found == op.why = "doc" /\ (c \in Warmer \/ call[c].kid \in op.doc)
     IN \/ /\ op.why # "doc"
           /\ op' = after
           /\ Done(c, op.why, call[c].since, op.at)
           /\ UNCHANGED cache
        \/ /\ found
           /\ op' = after
           /\ Done(c, IF c \in Warmer THEN "warm" ELSE "key", call[c].since, op.at)
           /\ UNCHANGED cache
        \/ /\ op.why = "doc"
           /\ ~found
           /\ call[c].again
           /\ op' = after
           /\ Done(c, "missing", call[c].since, op.at)
           /\ UNCHANGED cache
        \/ /\ op.why = "doc"
           /\ ~found
           /\ ~call[c].again
           /\ cache' = None
           /\ op' = Joined(after)
           /\ Load(c, call[c].kid, call[c].since, TRUE)
  /\ UNCHANGED <<src, published, clock>>

-----------------------------------------------------------------------------
\* What verifyIdentity makes of a call: a key lets the token's own checks
\* decide, an unavailable source is transient, everything else refuses.
Verdict(why) ==
  CASE why = "key" -> "checked"
    [] why = "unavailable" -> "transient"
    [] OTHER -> "refused"

Return(c) ==
  /\ Quiet
  /\ call[c].pc = "done"
  /\ call' = [call EXCEPT ![c] = Idle]
  /\ UNCHANGED <<src, published, cache, op, clock>>

Rotate ==
  /\ Quiet
  /\ published' \in SUBSET Kid \ {published}
  /\ UNCHANGED <<src, cache, op, call, clock>>

Tick ==
  /\ Quiet
  /\ clock < MaxTime
  /\ clock' = clock + 1
  /\ UNCHANGED <<src, published, cache, op, call>>

Next ==
  \/ \E c \in Verifier, kid \in Kid : GetKey(c, kid)
  \/ \E c \in Warmer : Warm(c) \/ Abort(c)
  \/ Answer
  \/ Settle
  \/ FetchFails
  \/ ReadFails
  \/ \E c \in Caller : Resume(c) \/ Return(c)
  \/ Rotate
  \/ Tick

Spec == Init /\ [][Next]_vars

-----------------------------------------------------------------------------
(* Properties *)

\* Loading a key set from a shared refetch, a token is refused only for what
\* the issuer answered: an account lifecycle that aborts its own warm-up never
\* cancels the fetch under a verification that shares it, whose caller would be
\* told 401 (terminal) instead of 503.
RefusedByIssuer ==
  \A c \in Verifier :
    call[c].pc = "done" /\ Verdict(call[c].why) = "refused" =>
      call[c].why \in {"missing", "malformed"}

\* A key that verifies a token was fetched less than a TTL before the
\* verification began, or after: whatever aborts, fails or is joined late, no
\* refetch is left in the slot to answer with a set the issuer has retired.
FreshKey ==
  \A c \in Verifier :
    call[c].pc = "done" /\ call[c].why = "key" => call[c].at + TTL > call[c].since

\* Both verdicts are the issuer's: a refusal rests on an answer it gave, and an
\* acceptance on a key set it served no longer ago than the TTL allows.
IssuerDecides == RefusedByIssuer /\ FreshKey
=============================================================================
