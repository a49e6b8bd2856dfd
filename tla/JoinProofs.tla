----------------------------- MODULE JoinProofs -----------------------------
(***************************************************************************)
(* Joining a conversation, for any number of callers, tabs, peers, nonces  *)
(* and attempts: the verdicts drawn from the shared key set are the        *)
(* issuer's (Jwks), and a registration is refused only for cause, while    *)
(* the channel, the transport and the server agree on who is heard         *)
(* (Register).                                                             *)
(*                                                                         *)
(* Jwks: a refetch counts exactly the callers that load through it, so it  *)
(* is in the slot as long as one is left, and nobody can join one that has *)
(* settled.  Register: a nonce is in one place from its issue on, the      *)
(* reply that carries it or the request that proves it, so only its own    *)
(* request can spend it.                                                   *)
(***************************************************************************)
EXTENDS Join, FiniteSetTheorems, SequenceTheorems, TLAPS

Loaders == {c \in J!Caller : call[c].pc = "load"}

Refetch ==
  [st : {"fetching", "answered", "settled"}, subs : Nat, doc : SUBSET Kid,
   why : {"none", "doc", "unavailable", "malformed"}, at : Nat]

\* Types, as far as the argument goes.
JwksTypes ==
  /\ clock \in Nat
  /\ published \in SUBSET Kid
  /\ call = [c \in J!Caller |-> call[c]]
  /\ cache # J!None => cache.at \in Nat
  /\ op \in {J!None} \cup Refetch

\* The subscriptions of a refetch are its callers, and it has one as long as it
\* is in the slot.
Subscribed ==
  /\ op = J!None => Loaders = {}
  /\ op # J!None => op.subs = Cardinality(Loaders) /\ Loaders # {}

\* A fetch settles for one of the source's reasons, after all its callers began.
SettledWell ==
  /\ \A c \in Loaders : call[c].since \in Nat /\ call[c].since <= clock
  /\ J!Settled(op) => /\ op.why \in {"doc", "unavailable", "malformed"}
                    /\ \A c \in Loaders : call[c].since <= op.at

\* The verdict of a verification.
DoneWell ==
  \A c \in Verifier : call[c].pc = "done" =>
    /\ call[c].why \in {"key", "missing", "malformed", "unavailable"}
    /\ call[c].why = "key" => call[c].at + TTL > call[c].since

JwksInv == JwksTypes /\ Subscribed /\ SettledWell /\ DoneWell

\* The invariant is as strong as the property.
LEMMA JwksInvImplies == JwksInv => J!IssuerDecides
  BY DEF JwksInv, DoneWell, J!IssuerDecides, J!RefusedByIssuer, J!FreshKey, J!Verdict

\* An empty slot is not a refetch.
LEMMA NoneIsNoRefetch == J!None \notin Refetch
  BY DEF J!None, Refetch

\* What joining and leaving do to the record of a refetch.
LEMMA JoinedFacts ==
  ASSUME NEW o \in {J!None} \cup Refetch, clock \in Nat
  PROVE  /\ J!Joined(o) \in Refetch
         /\ o = J!None => J!Joined(o).subs = 1 /\ J!Joined(o).st = "fetching"
         /\ o # J!None => /\ J!Joined(o).subs = o.subs + 1 /\ J!Joined(o).st = o.st
                        /\ J!Joined(o).at = o.at /\ J!Joined(o).why = o.why
<1>1. CASE o = J!None
  BY <1>1 DEF J!Joined, Refetch
<1>2. CASE o # J!None
  BY <1>2 DEF J!Joined, Refetch
<1> QED BY <1>1, <1>2

\* The last to leave empties the slot, another is counted out.
LEMMA LeftFacts ==
  ASSUME NEW o \in Refetch, o.subs # 0
  PROVE  /\ o.subs = 1 => J!Left(o) = J!None
         /\ o.subs # 1 => /\ J!Left(o) \in Refetch
                          /\ J!Left(o).subs = o.subs - 1 /\ J!Left(o).st = o.st
                          /\ J!Left(o).at = o.at /\ J!Left(o).why = o.why
<1>1. CASE o.subs = 1
  BY <1>1 DEF J!Left
<1>2. CASE o.subs # 1
  <2>1. o.subs - 1 \in Nat
    BY <1>2 DEF Refetch
  <2> QED BY <1>2, <2>1 DEF J!Left, Refetch
<1> QED BY <1>1, <1>2

\* Nobody loads at first.
LEMMA JwksInit == ASSUME JwksConstants, J!Init PROVE JwksInv
<1>1. Loaders = {}
  BY DEF J!Init, Loaders, J!Idle
<1>2. JwksTypes
  BY DEF J!Init, JwksTypes
<1>3. Subscribed /\ SettledWell
  BY <1>1 DEF Subscribed, SettledWell, J!Settled, J!Init
<1>4. DoneWell
  BY DEF J!Init, DoneWell, J!Idle, J!Caller
<1> QED BY <1>2, <1>3, <1>4 DEF JwksInv

\* A caller that begins to load is counted in.
LEMMA JoinCounts ==
  ASSUME JwksConstants, JwksInv, NEW c \in J!Caller, ~J!Settled(op), call[c].pc # "load",
         NEW kid, NEW again, op' = J!Joined(op), J!Load(c, kid, clock, again), clock' = clock, published' = published,
         cache' # J!None => cache'.at \in Nat
  PROVE  JwksInv'
<1>1. Loaders' = Loaders \cup {c} /\ c \notin Loaders
  BY DEF Loaders, J!Load, JwksInv, JwksTypes
<1>2. IsFiniteSet(Loaders) 
  BY FS_Subset DEF Loaders, JwksConstants
<1>3. Cardinality(Loaders') = Cardinality(Loaders) + 1 /\ Cardinality(Loaders) \in Nat
  BY <1>1, <1>2, FS_AddElement, FS_CardinalityType
<1>4. op' \in Refetch /\ op'.subs = Cardinality(Loaders') /\ (op'.st = "settled" => J!Settled(op))
  <2>1. CASE op = J!None
    <3>1. Cardinality(Loaders) = 0
      BY <2>1, FS_EmptySet DEF JwksInv, Subscribed
    <3> QED BY <2>1, <3>1, <1>3 DEF J!Joined, JwksInv, JwksTypes, Refetch
  <2>2. CASE op # J!None
    BY <2>2, <1>3 DEF J!Joined, JwksInv, JwksTypes, Subscribed, J!Settled, Refetch
  <2> QED BY <2>1, <2>2
<1>5. op' # J!None
  BY <1>4, NoneIsNoRefetch
<1>6. JwksTypes'
  BY <1>5, <1>3, <1>4 DEF JwksTypes, J!Load, JwksInv
<1>7. Subscribed'
  BY <1>1, <1>4, <1>5 DEF Subscribed
<1>8. SettledWell'
  BY <1>4, <1>1 DEF SettledWell, J!Load, JwksInv, JwksTypes, J!Settled
<1>9. DoneWell'
  BY DEF DoneWell, J!Load, JwksInv, JwksTypes, J!Caller
<1> QED BY <1>6, <1>7, <1>8, <1>9 DEF JwksInv

\* What a call may end with.
FairEnd(c, why, since, at) ==
  c \in Verifier => /\ why \in {"key", "missing", "malformed", "unavailable"}
                    /\ why = "key" => at + TTL > since

\* A caller that has its result is counted out.
LEMMA LeaveCounts ==
  ASSUME JwksConstants, JwksInv, NEW c \in Loaders, NEW why, NEW since, NEW at,
         op' = J!Left(op), J!Done(c, why, since, at), FairEnd(c, why, since, at),
         clock' = clock, published' = published, cache' = cache
  PROVE  JwksInv'
<1>1. c \in J!Caller /\ Loaders' = Loaders \ {c}
  BY DEF Loaders, J!Done, JwksInv, JwksTypes
<1>2. IsFiniteSet(Loaders)
  BY FS_Subset DEF Loaders, JwksConstants
<1>3. Cardinality(Loaders') = Cardinality(Loaders) - 1 /\ Cardinality(Loaders) \in Nat \ {0}
  BY <1>1, <1>2, FS_RemoveElement, FS_CardinalityType, FS_EmptySet
<1>4. op \in Refetch /\ op.subs = Cardinality(Loaders)
  BY DEF JwksInv, JwksTypes, Subscribed
<1>5. IsFiniteSet(Loaders')
  BY <1>1, <1>2, FS_RemoveElement
<1>6. Cardinality(Loaders') = 0 <=> Loaders' = {}
  BY <1>5, FS_EmptySet
<1>7. /\ op' = J!None => Loaders' = {}
      /\ op' # J!None => /\ op' \in Refetch /\ op'.subs = Cardinality(Loaders') /\ Loaders' # {}
                       /\ op'.st = op.st /\ op'.at = op.at /\ op'.why = op.why
  <2>1. CASE op.subs = 1
    BY <2>1, <1>3, <1>4, <1>6, LeftFacts
  <2>2. CASE op.subs # 1
    BY <2>2, <1>3, <1>4, <1>6, LeftFacts, NoneIsNoRefetch
  <2> QED BY <2>1, <2>2
<1>8. JwksTypes'
  BY <1>7 DEF JwksTypes, J!Done, JwksInv
<1>9. Subscribed'
  BY <1>7 DEF Subscribed
<1>10. SettledWell'
  BY <1>7, <1>1, NoneIsNoRefetch, <1>4 DEF SettledWell, J!Done, JwksInv, JwksTypes, J!Settled
<1>11. DoneWell'
  BY <1>1 DEF DoneWell, J!Done, JwksInv, JwksTypes, J!Caller, FairEnd
<1> QED BY <1>8, <1>9, <1>10, <1>11 DEF JwksInv

\* A caller that looks once more is counted out and in.
LEMMA AgainCounts ==
  ASSUME JwksConstants, JwksInv, NEW c \in Loaders, NEW kid,
         op' = J!Joined(J!Left(op)), J!Load(c, kid, call[c].since, TRUE),
         clock' = clock, published' = published, cache' = J!None
  PROVE  JwksInv'
<1>1. c \in J!Caller /\ Loaders' = Loaders
  BY DEF Loaders, J!Load, JwksInv, JwksTypes
<1>2. IsFiniteSet(Loaders)
  BY FS_Subset DEF Loaders, JwksConstants
<1>3. Cardinality(Loaders) \in Nat \ {0}
  BY <1>1, <1>2, FS_CardinalityType, FS_EmptySet
<1>4. op \in Refetch /\ op.subs = Cardinality(Loaders)
  BY DEF JwksInv, JwksTypes, Subscribed
<1>5. /\ op' \in Refetch /\ op'.subs = op.subs
      /\ op'.st = "settled" => op.st = "settled" /\ op'.at = op.at /\ op'.why = op.why
  <2> clock \in Nat
    BY DEF JwksInv, JwksTypes
  <2>1. CASE op.subs = 1
    BY <2>1, <1>3, <1>4, LeftFacts, JoinedFacts
  <2>2. CASE op.subs # 1
    BY <2>2, <1>3, <1>4, LeftFacts, JoinedFacts, NoneIsNoRefetch
  <2> QED BY <2>1, <2>2
<1>6. op' # J!None /\ op # J!None
  BY <1>4, <1>5, NoneIsNoRefetch
<1>7. JwksTypes'
  BY <1>5 DEF JwksTypes, J!Load, JwksInv
<1>8. Subscribed'
  BY <1>5, <1>6, <1>1, <1>4 DEF Subscribed
<1>9. SettledWell'
  BY <1>5, <1>1, <1>6 DEF SettledWell, J!Load, JwksInv, JwksTypes, J!Settled
<1>10. DoneWell'
  BY DEF DoneWell, J!Load, JwksInv, JwksTypes, J!Caller
<1> QED BY <1>7, <1>8, <1>9, <1>10 DEF JwksInv

\* The fetch goes on: its callers stay, and if it settles it does so now.
LEMMA FetchGoesOn ==
  ASSUME JwksInv, op # J!None, op' \in Refetch, op'.subs = op.subs,
         op'.st = "settled" => op'.at = clock /\ op'.why # "none",
         cache' # J!None => cache'.at \in Nat,
         UNCHANGED <<published, call, clock>>
  PROVE  JwksInv'
<1>1. Loaders' = Loaders /\ op' # J!None
  BY NoneIsNoRefetch DEF Loaders
<1>2. JwksTypes' /\ Subscribed'
  BY <1>1 DEF JwksInv, JwksTypes, Subscribed
<1>3. SettledWell'
  BY <1>1 DEF JwksInv, SettledWell, J!Settled, Refetch
<1>4. DoneWell'
  BY DEF JwksInv, DoneWell
<1> QED BY <1>2, <1>3, <1>4 DEF JwksInv

\* Nobody can find a settled fetch in the slot while no microtask is pending.
LEMMA QuietIsUnsettled == ASSUME JwksInv, J!Quiet PROVE ~J!Settled(op)
  BY DEF JwksInv, Subscribed, J!Quiet, J!Settled, Loaders

\* Every step of the callers, the fetch, the issuer and the clock keeps the invariant.
LEMMA JwksStep == ASSUME JwksConstants, JwksInv, [J!Next]_(J!vars) PROVE JwksInv'
<1>1. ASSUME NEW c \in Verifier, NEW kid \in Kid, J!GetKey(c, kid) PROVE JwksInv'
  <2> c \in J!Caller /\ call[c].pc # "load" /\ ~J!Settled(op)
    BY <1>1, QuietIsUnsettled DEF J!GetKey, J!Caller, J!Idle
  <2>1. CASE J!FreshCache /\ J!Done(c, "key", clock, cache.at) /\ UNCHANGED <<cache, op>>
    <3> USE <1>1, <2>1 DEF J!GetKey
    <3>1. Loaders' = Loaders
      BY DEF Loaders, J!Done, JwksInv, JwksTypes
    <3>2. JwksTypes' /\ Subscribed'
      BY <3>1 DEF JwksInv, JwksTypes, Subscribed, J!Done
    <3>3. SettledWell'
      BY <3>1 DEF JwksInv, JwksTypes, SettledWell, J!Settled, J!Done, Loaders
    <3>4. cache.at \in Nat /\ clock \in Nat /\ cache.at + TTL > clock
      BY DEF J!FreshCache, JwksInv, JwksTypes, JwksConstants
    <3>5. DoneWell'
      BY <3>4 DEF JwksInv, JwksTypes, DoneWell, J!Done, J!Caller
    <3> QED BY <3>2, <3>3, <3>5 DEF JwksInv
  <2>2. CASE cache' = J!None /\ op' = J!Joined(op) /\ J!Load(c, kid, clock, TRUE)
    BY <1>1, <2>2, JoinCounts DEF J!GetKey
  <2>3. CASE op' = J!Joined(op) /\ J!Load(c, kid, clock, FALSE) /\ UNCHANGED cache
    <3>1. cache' # J!None => cache'.at \in Nat
      BY <2>3 DEF JwksInv, JwksTypes
    <3> QED BY <1>1, <2>3, <3>1, JoinCounts DEF J!GetKey
  <2> QED BY <1>1, <2>1, <2>2, <2>3 DEF J!GetKey
<1>2. ASSUME NEW c \in Warmer, J!Warm(c) PROVE JwksInv'
  <2> c \in J!Caller /\ call[c].pc # "load" /\ ~J!Settled(op) /\ c \notin Verifier
    BY <1>2, QuietIsUnsettled DEF J!Warm, J!Caller, J!Idle, JwksConstants
  <2>1. CASE J!Done(c, "warm", clock, cache.at) /\ UNCHANGED op
    <3> USE <1>2, <2>1 DEF J!Warm
    <3>1. Loaders' = Loaders
      BY DEF Loaders, J!Done, JwksInv, JwksTypes
    <3>2. JwksTypes' /\ Subscribed'
      BY <3>1 DEF JwksInv, JwksTypes, Subscribed, J!Done
    <3>3. SettledWell'
      BY <3>1 DEF JwksInv, JwksTypes, SettledWell, J!Settled, J!Done, Loaders
    <3>4. DoneWell'
      BY DEF JwksInv, JwksTypes, DoneWell, J!Done, J!Caller
    <3> QED BY <3>2, <3>3, <3>4 DEF JwksInv
  <2>2. CASE op' = J!Joined(op) /\ J!Load(c, "none", clock, FALSE)
    <3>1. cache' # J!None => cache'.at \in Nat
      BY <1>2 DEF JwksInv, JwksTypes, J!Warm
    <3> QED BY <1>2, <2>2, <3>1, JoinCounts DEF J!Warm
  <2> QED BY <1>2, <2>1, <2>2 DEF J!Warm
<1>3. ASSUME NEW c \in Warmer, J!Abort(c) PROVE JwksInv'
  <2>1. c \in Loaders /\ FairEnd(c, "abort", call[c].since, clock)
    BY <1>3 DEF Loaders, J!Abort, J!Caller, FairEnd, JwksConstants
  <2> QED BY <1>3, <2>1, LeaveCounts DEF J!Abort
<1>4. CASE J!Answer
  <2>1. op \in Refetch
    BY <1>4 DEF J!Answer, JwksInv, JwksTypes
  <2>2. op' \in Refetch /\ op'.subs = op.subs /\ op'.st # "settled"
    BY <2>1, <1>4 DEF J!Answer, JwksInv, JwksTypes, Refetch
  <2>3. cache' # J!None => cache'.at \in Nat
    BY <1>4 DEF J!Answer, JwksInv, JwksTypes
  <2> QED BY <2>2, <2>3, <1>4, FetchGoesOn DEF J!Answer
<1>5. CASE J!Settle
  <2>1. op \in Refetch /\ clock \in Nat
    BY <1>5 DEF J!Settle, JwksInv, JwksTypes
  <2>2. op' \in Refetch /\ op'.subs = op.subs /\ op'.at = clock /\ op'.why = "doc"
    BY <2>1, <1>5 DEF J!Settle, Refetch
  <2>3. cache'.at \in Nat
    BY <2>1, <1>5 DEF J!Settle
  <2> QED BY <2>2, <2>3, <1>5, FetchGoesOn DEF J!Settle
<1>6. ASSUME NEW why \in {"unavailable", "malformed"}, op # J!None, J!Fails(why) PROVE JwksInv'
  <2>1. op \in Refetch /\ clock \in Nat
    BY <1>6 DEF JwksInv, JwksTypes
  <2>2. op' \in Refetch /\ op'.subs = op.subs /\ op'.at = clock /\ op'.why = why
    BY <2>1, <1>6 DEF J!Fails, Refetch
  <2> QED BY <2>2, <1>6, FetchGoesOn DEF J!Fails
<1>7. CASE J!FetchFails
  BY <1>7, <1>6 DEF J!FetchFails
<1>8. CASE J!ReadFails
  BY <1>8, <1>6 DEF J!ReadFails
<1>9. ASSUME NEW c \in J!Caller, J!Resume(c) PROVE JwksInv'
  <2>1. c \in Loaders /\ op # J!None /\ op \in Refetch /\ op.why # "none"
    BY <1>9 DEF J!Resume, Loaders, J!Settled, JwksInv, JwksTypes, SettledWell
  <2>2. call[c].since \in Nat /\ call[c].since <= op.at /\ op.at \in Nat /\ TTL \in Nat \ {0}
    BY <1>9, <2>1 DEF J!Resume, JwksInv, SettledWell, Refetch, JwksConstants
  <2>3. op.at + TTL > call[c].since
    BY <2>2
  <2>4. ASSUME NEW why, op' = J!Left(op), J!Done(c, why, call[c].since, op.at), UNCHANGED cache,
               c \in Verifier => why \in {"key", "missing", "malformed", "unavailable"}
        PROVE  JwksInv'
    <3>1. FairEnd(c, why, call[c].since, op.at)
      BY <2>3, <2>4 DEF FairEnd
    <3> QED BY <3>1, <1>9, <2>1, <2>4, LeaveCounts DEF J!Resume
  <2>5. CASE op.why # "doc" /\ op' = J!Left(op) /\ J!Done(c, op.why, call[c].since, op.at) /\ UNCHANGED cache
    BY <2>5, <2>4, <2>1 DEF Refetch
  <2>6. CASE /\ op' = J!Left(op) /\ UNCHANGED cache
             /\ J!Done(c, IF c \in Warmer THEN "warm" ELSE "key", call[c].since, op.at)
    BY <2>6, <2>4 DEF JwksConstants
  <2>7. CASE op' = J!Left(op) /\ J!Done(c, "missing", call[c].since, op.at) /\ UNCHANGED cache
    BY <2>7, <2>4
  <2>8. CASE cache' = J!None /\ op' = J!Joined(J!Left(op)) /\ J!Load(c, call[c].kid, call[c].since, TRUE)
    BY <1>9, <2>8, <2>1, AgainCounts DEF J!Resume
  <2> QED BY <1>9, <2>5, <2>6, <2>7, <2>8 DEF J!Resume
<1>10. ASSUME NEW c \in J!Caller, J!Return(c) PROVE JwksInv'
  <2>1. Loaders' = Loaders
    BY <1>10 DEF J!Return, Loaders, JwksInv, JwksTypes, J!Idle
  <2>2. JwksTypes' /\ Subscribed'
    BY <2>1, <1>10 DEF J!Return, JwksInv, JwksTypes, Subscribed
  <2>3. SettledWell'
    BY <2>1, <1>10 DEF J!Return, JwksInv, JwksTypes, SettledWell, J!Settled, Loaders
  <2>4. DoneWell'
    BY <1>10 DEF J!Return, JwksInv, JwksTypes, DoneWell, J!Caller, J!Idle
  <2> QED BY <2>2, <2>3, <2>4 DEF JwksInv
<1>11. CASE J!Rotate
  <2>1. Loaders' = Loaders
    BY <1>11 DEF J!Rotate, Loaders
  <2> QED BY <2>1, <1>11 DEF J!Rotate, JwksInv, JwksTypes, Subscribed, SettledWell, DoneWell, J!Settled
<1>12. CASE J!Tick
  <2>1. Loaders' = Loaders
    BY <1>12 DEF J!Tick, Loaders
  <2> QED BY <2>1, <1>12 DEF J!Tick, JwksInv, JwksTypes, Subscribed, SettledWell, DoneWell, J!Settled
<1>13. CASE UNCHANGED J!vars
  <2>1. Loaders' = Loaders
    BY <1>13 DEF J!vars, Loaders
  <2> QED BY <2>1, <1>13 DEF J!vars, JwksInv, JwksTypes, Subscribed, SettledWell, DoneWell, J!Settled
<1> QED
  BY <1>1, <1>2, <1>3, <1>4, <1>5, <1>7, <1>8, <1>9, <1>10, <1>11, <1>12, <1>13 DEF J!Next

\* jwks.ts: whatever aborts, fails or is joined late, a verification refuses a token
\* only for what the issuer answered, and accepts a key only if it was fetched less
\* than a TTL before the verification began, or after.
THEOREM VerdictIsTheIssuers == JoinSpec => []IssuerDecides
<1> JwksConstants
  BY JwksAssumption
<1> DEFINE OfJwks == part = "jwks" => JwksInv
<1>1. JoinInit => OfJwks
  BY JwksInit DEF JoinInit
<1>2. OfJwks /\ [JoinNext]_joinVars => OfJwks'
  <2> SUFFICES ASSUME OfJwks, [JoinNext]_joinVars, part' = "jwks" PROVE JwksInv'
    OBVIOUS
  <2>1. part = "jwks" /\ [J!Next]_(J!vars)
    BY DEF JoinNext, joinVars, jwks, J!vars
  <2> QED BY <2>1, JwksStep
<1>3. OfJwks => IssuerDecides
  BY JwksInvImplies DEF IssuerDecides
<1> QED BY <1>1, <1>2, <1>3, PTL DEF JoinSpec

-----------------------------------------------------------------------------
(* The registration: who is heard. *)

Subs == {subs[i] : i \in DOMAIN subs}

\* Every peer has one subscription; the transport and the server have it too, and
\* the server has nothing else.
HeardInv ==
  /\ subs \in Seq(Peer \X Nat) /\ sidCounter \in Nat
  /\ \A i, j \in DOMAIN subs : subs[i][1] = subs[j][1] => i = j
  /\ Len(subs) <= MaxPeers
  /\ keys = Registered
  /\ link \in {"up", "down", "opening", "closed"}
  /\ link # "closed" => table = Subs \cup {Wild}
  /\ link = "closed" => table = {} /\ subs = <<>>
  /\ broker \subseteq table
  /\ link = "up" => broker = table
  /\ link \in {"down", "closed"} => broker = {}

\* The entries of peerSubscriptions.
LEMMA SubsFacts ==
  ASSUME HeardInv
  PROVE  /\ subs \in Seq(Peer \X Nat) /\ Len(subs) \in Nat /\ DOMAIN subs = 1 .. Len(subs)
         /\ \A j \in 1 .. Len(subs) : subs[j] \in Peer \X Nat
         /\ \A j, k \in 1 .. Len(subs) : subs[j][1] = subs[k][1] => j = k
<1>1. subs \in Seq(Peer \X Nat) /\ Len(subs) \in Nat /\ DOMAIN subs = 1 .. Len(subs)
  BY DEF HeardInv
<1>2. \A j \in 1 .. Len(subs) : subs[j] \in Peer \X Nat
  BY <1>1, ElementOfSeq
<1>3. \A j, k \in 1 .. Len(subs) : subs[j][1] = subs[k][1] => j = k
  BY <1>1 DEF HeardInv
<1> QED BY <1>1, <1>2, <1>3

\* As many peers as subscriptions.
LEMMA RegisteredCount == ASSUME HeardInv PROVE Cardinality(Registered) = Len(subs)
<1> DEFINE f == [i \in 1 .. Len(subs) |-> subs[i][1]]
<1>1. Len(subs) \in Nat /\ DOMAIN subs = 1 .. Len(subs)
  BY DEF HeardInv
<1>2. f \in Bijection(1 .. Len(subs), Registered)
  <2>1. f \in [1 .. Len(subs) -> Registered]
    BY <1>1 DEF Registered
  <2>2. \A i, j \in 1 .. Len(subs) : f[i] = f[j] => i = j
    BY <1>1 DEF HeardInv
  <2>3. \A p \in Registered : \E i \in 1 .. Len(subs) : f[i] = p
    BY <1>1 DEF Registered
  <2> HIDE DEF f
  <2> QED BY <2>1, <2>2, <2>3 DEF Bijection, Injection, Surjection, IsInjective
<1>3. IsFiniteSet(1 .. Len(subs)) /\ Cardinality(1 .. Len(subs)) = Len(subs)
  <2>1. 1 \in Int /\ Len(subs) \in Int /\ (IF 1 > Len(subs) THEN 0 ELSE Len(subs) - 1 + 1) = Len(subs)
    BY <1>1
  <2> QED BY <2>1, FS_Interval
<1> HIDE DEF f
<1> QED BY <1>2, <1>3, FS_Bijection DEF ExistsBijection

\* The invariant says what Tables says.
LEMMA HeardImplies == HeardInv => Tables
  BY RegisteredCount DEF HeardInv, Tables, Subs

\* What is left of a sequence without its element at i.
LEMMA RemoveAtFacts ==
  ASSUME NEW S, NEW s \in Seq(S), NEW i \in 1 .. Len(s)
  PROVE  /\ RemoveAt(s, i) \in Seq(S)
         /\ Len(RemoveAt(s, i)) = Len(s) - 1
         /\ \A j \in 1 .. Len(s) - 1 : RemoveAt(s, i)[j] = IF j < i THEN s[j] ELSE s[j + 1]
<1> DEFINE a == SubSeq(s, 1, i - 1)
           b == SubSeq(s, i + 1, Len(s))
<1>1. Len(s) \in Nat /\ i \in Nat /\ 1 <= i /\ i <= Len(s)
  OBVIOUS
<1>2. a \in Seq(S) /\ Len(a) = i - 1 /\ \A j \in 1 .. i - 1 : a[j] = s[j]
  <2>1. \A j \in 1 .. i - 1 : s[j] \in S
    BY <1>1, ElementOfSeq
  <2> QED BY <1>1, <2>1, SubSeqProperties
<1>3. b \in Seq(S) /\ Len(b) = Len(s) - i /\ \A j \in 1 .. Len(s) - i : b[j] = s[i + j]
  <2>1. \A j \in i + 1 .. Len(s) : s[j] \in S
    BY <1>1, ElementOfSeq
  <2> QED BY <1>1, <2>1, SubSeqProperties
<1> HIDE DEF a, b
<1>4. /\ a \o b \in Seq(S) /\ Len(a \o b) = Len(a) + Len(b)
      /\ \A j \in 1 .. Len(a) + Len(b) : (a \o b)[j] = IF j <= Len(a) THEN a[j] ELSE b[j - Len(a)]
  BY <1>2, <1>3, ConcatProperties
<1>5. \A j \in 1 .. Len(s) - 1 : (a \o b)[j] = IF j < i THEN s[j] ELSE s[j + 1]
  BY <1>1, <1>2, <1>3, <1>4
<1>6. a \o b = RemoveAt(s, i)
  BY DEF RemoveAt, a, b
<1> QED BY <1>1, <1>2, <1>3, <1>4, <1>5, <1>6

\* A peer that leaves is forgotten by the channel, the transport and the server.
LEMMA UnregisterHeard ==
  ASSUME HeardInv, RegisterConstants, NEW p \in Peer, UnregisterPeer(p)
  PROVE  HeardInv'
<1>1. CASE p \notin Registered /\ UNCHANGED <<subs, table, broker>>
  <2>1. Registered' = Registered /\ Subs' = Subs
    BY <1>1 DEF Registered, Subs
  <2> QED BY <2>1, <1>1 DEF UnregisterPeer, HeardInv
<1>2. ASSUME NEW i \in DOMAIN subs, subs[i][1] = p, subs' = RemoveAt(subs, i), Heard({subs[i]})
      PROVE  HeardInv'
  <2> DEFINE n == Len(subs)
  <2>1. /\ subs \in Seq(Peer \X Nat) /\ n \in Nat /\ DOMAIN subs = 1 .. n /\ i \in 1 .. n
        /\ \A j \in 1 .. n : subs[j] \in Peer \X Nat
    BY <1>2, SubsFacts
  <2>2. /\ subs' \in Seq(Peer \X Nat) /\ Len(subs') = n - 1 /\ DOMAIN subs' = 1 .. n - 1
        /\ \A j \in 1 .. n - 1 : subs'[j] = IF j < i THEN subs[j] ELSE subs[j + 1]
    <3>1. /\ subs' \in Seq(Peer \X Nat) /\ Len(subs') = n - 1
          /\ \A j \in 1 .. n - 1 : subs'[j] = IF j < i THEN subs[j] ELSE subs[j + 1]
      BY <1>2, <2>1, RemoveAtFacts
    <3> QED BY <3>1
  <2>3. \A j, k \in 1 .. n : subs[j][1] = subs[k][1] => j = k
    BY SubsFacts
  <2>4. \A j \in 1 .. n : j # i => \E k \in 1 .. n - 1 : subs'[k] = subs[j]
    <3> SUFFICES ASSUME NEW j \in 1 .. n, j # i PROVE \E k \in 1 .. n - 1 : subs'[k] = subs[j]
      OBVIOUS
    <3>1. CASE j < i
      <4>1. j \in 1 .. n - 1
        BY <3>1, <2>1
      <4> QED BY <4>1, <3>1, <2>2
    <3>2. CASE j > i
      <4>1. j - 1 \in 1 .. n - 1 /\ ~(j - 1 < i) /\ (j - 1) + 1 = j
        BY <3>2, <2>1
      <4> QED BY <4>1, <2>2
    <3> QED BY <3>1, <3>2, <2>1
  <2>5. \A k \in 1 .. n - 1 : \E j \in 1 .. n : j # i /\ subs'[k] = subs[j]
    <3> SUFFICES ASSUME NEW k \in 1 .. n - 1 PROVE \E j \in 1 .. n : j # i /\ subs'[k] = subs[j]
      OBVIOUS
    <3>1. CASE k < i
      <4>1. k \in 1 .. n /\ k # i
        BY <3>1, <2>1
      <4> QED BY <4>1, <3>1, <2>2
    <3>2. CASE ~(k < i)
      <4>1. k + 1 \in 1 .. n /\ k + 1 # i
        BY <3>2, <2>1
      <4> QED BY <4>1, <3>2, <2>2
    <3> QED BY <3>1, <3>2
  <2> HIDE DEF n
  <2>6. Registered' = Registered \ {p} /\ Subs' = Subs \ {subs[i]}
    <3>1. Registered = {subs[j][1] : j \in 1 .. n} /\ Subs = {subs[j] : j \in 1 .. n}
      BY <2>1 DEF Registered, Subs
    <3>2. Registered' = {subs'[k][1] : k \in 1 .. n - 1} /\ Subs' = {subs'[k] : k \in 1 .. n - 1}
      BY <2>2 DEF Registered, Subs
    <3>3. \A e \in Registered' : e \in Registered \ {p}
      BY <3>1, <3>2, <2>1, <2>3, <2>5, <1>2
    <3>4. \A e \in Registered \ {p} : e \in Registered'
      BY <3>1, <3>2, <2>1, <2>4, <1>2
    <3>5. \A e \in Subs' : e \in Subs \ {subs[i]}
      BY <3>1, <3>2, <2>1, <2>3, <2>5, <1>2
    <3>6. \A e \in Subs \ {subs[i]} : e \in Subs'
      BY <3>1, <3>2, <2>1, <2>4, <1>2
    <3> QED BY <3>3, <3>4, <3>5, <3>6
  <2>7. \A j, k \in DOMAIN subs' : subs'[j][1] = subs'[k][1] => j = k
    <3> SUFFICES ASSUME NEW j \in 1 .. n - 1, NEW k \in 1 .. n - 1, subs'[j][1] = subs'[k][1]
                 PROVE  j = k
      BY <2>2
    <3> DEFINE at(m) == IF m < i THEN m ELSE m + 1
    <3>1. at(j) \in 1 .. n /\ at(k) \in 1 .. n
      BY <2>1
    <3>2. subs'[j] = subs[at(j)] /\ subs'[k] = subs[at(k)]
      BY <2>2
    <3> HIDE DEF at
    <3>3. at(j) = at(k)
      BY <3>1, <3>2, <2>3
    <3> QED BY <3>3, <2>1 DEF at
  <2>8. Wild # subs[i]
    BY <2>1, <1>2 DEF RegisterConstants
  <2>9. link # "closed"
    BY <2>1 DEF HeardInv, n
  <2>10. /\ table' = Subs' \cup {Wild} /\ broker' \subseteq table' /\ (link = "up" => broker' = table')
         /\ link \in {"down", "closed"} => broker' = {}
    BY <1>2, <2>6, <2>8, <2>9 DEF Heard, Unsubscribed, HeardInv, Open
  <2>11. n - 1 <= MaxPeers /\ Len(subs') = n - 1
    BY <2>1, <2>2 DEF HeardInv, n, RegisterConstants
  <2> QED BY <1>2, <2>2, <2>6, <2>7, <2>9, <2>10, <2>11 DEF HeardInv, UnregisterPeer
<1> QED BY <1>1, <1>2 DEF UnregisterPeer

\* A peer that is admitted is heard, and those evicted for it are forgotten.
LEMMA RegisterHeard ==
  ASSUME HeardInv, RegisterConstants, NEW p \in Peer, NEW why, RegisterPeer(p, why), link # "closed"
  PROVE  HeardInv'
<1>1. CASE p \in Registered /\ keys' = keys \cup {p} /\ UNCHANGED <<subs, transport>>
  <2>1. Registered' = Registered /\ Subs' = Subs
    BY <1>1 DEF Registered, Subs
  <2> QED BY <2>1, <1>1 DEF HeardInv, transport
<1>2. CASE p \notin Registered /\ ~(p \in Registered /\ keys' = keys \cup {p} /\ UNCHANGED <<subs, transport>>)
  <2> DEFINE n == Len(subs)
             x == Excess
             gone == {subs[i] : i \in 1 .. x}
             kept == SubSeq(subs, x + 1, Len(subs))
             new == IF Open THEN {<<p, Sid>>} ELSE {}
  <2>1. /\ subs' = IF Open THEN Append(kept, <<p, Sid>>) ELSE kept
        /\ keys' = (keys \ {e[1] : e \in gone}) \cup {e[1] : e \in new}
        /\ table' = (table \ gone) \cup new
        /\ broker' = IF Open THEN (broker \ gone) \cup new ELSE broker
        /\ sidCounter' = IF Open THEN Sid ELSE sidCounter
        /\ link' = link
    BY <1>2 DEF RegisterPeer, Unsubscribed
  <2>2. /\ subs \in Seq(Peer \X Nat) /\ n \in Nat /\ DOMAIN subs = 1 .. n
        /\ \A j \in 1 .. n : subs[j] \in Peer \X Nat
    BY SubsFacts
  <2>3. x \in 0 .. n /\ n - x < MaxPeers
    BY <2>2 DEF Excess, RegisterConstants, HeardInv
  <2>4. /\ kept \in Seq(Peer \X Nat) /\ Len(kept) = n - x
        /\ \A j \in 1 .. n - x : kept[j] = subs[x + j]
    <3>1. x + 1 \in Int /\ n \in Int /\ \A j \in x + 1 .. n : subs[j] \in Peer \X Nat
      BY <2>2, <2>3
    <3> HIDE DEF x
    <3>2. /\ kept \in Seq(Peer \X Nat)
          /\ Len(kept) = IF x + 1 <= n THEN n - (x + 1) + 1 ELSE 0
          /\ \A j \in 1 .. n - (x + 1) + 1 : kept[j] = subs[x + 1 + j - 1]
      BY <3>1, SubSeqProperties
    <3>3. \A j \in 1 .. n - x : j \in 1 .. n - (x + 1) + 1 /\ x + 1 + j - 1 = x + j
      BY <2>2, <2>3
    <3>4. (IF x + 1 <= n THEN n - (x + 1) + 1 ELSE 0) = n - x
      <4> x \in Int /\ n \in Int /\ x <= n
        BY <2>2, <2>3
      <4> QED OBVIOUS
    <3> QED BY <3>2, <3>3, <3>4
  <2> HIDE DEF x, kept
  <2>5. <<p, Sid>> \in Peer \X Nat
    BY DEF Sid, HeardInv
  <2>6. \A j \in 1 .. n : subs[j][1] # p
    BY <1>2, <2>2 DEF Registered
  <2> DEFINE m == IF Open THEN n - x + 1 ELSE n - x
  <2>7. /\ subs' \in Seq(Peer \X Nat) /\ Len(subs') = m /\ DOMAIN subs' = 1 .. m /\ m \in Nat
        /\ \A j \in 1 .. n - x : subs'[j] = subs[x + j]
        /\ Open => subs'[n - x + 1] = <<p, Sid>>
    <3>1. CASE Open
      <4>1. /\ subs' \in Seq(Peer \X Nat) /\ Len(subs') = n - x + 1
            /\ \A j \in 1 .. n - x : subs'[j] = kept[j] /\ subs'[n - x + 1] = <<p, Sid>>
        BY <3>1, <2>1, <2>4, <2>5, AppendProperties
      <4>2. subs'[n - x + 1] = <<p, Sid>>
        BY <3>1, <2>1, <2>4, <2>5, AppendProperties
      <4> QED BY <4>1, <4>2, <3>1, <2>4, <2>3, <2>2
    <3>2. CASE ~Open
      BY <3>2, <2>1, <2>4, <2>3, <2>2
    <3> QED BY <3>1, <3>2
  <2>8. m <= MaxPeers
    BY <2>3, <2>2 DEF RegisterConstants
  <2>9. \A j \in 1 .. n - x : x + j \in 1 .. n
    BY <2>2, <2>3
  <2>10. \A j, k \in DOMAIN subs' : subs'[j][1] = subs'[k][1] => j = k
    <3> SUFFICES ASSUME NEW j \in 1 .. m, NEW k \in 1 .. m, subs'[j][1] = subs'[k][1] PROVE j = k
      BY <2>7
    <3>1. CASE j \in 1 .. n - x /\ k \in 1 .. n - x
      <4>1. x + j = x + k
        BY <3>1, <2>9, <2>7, <2>2 DEF HeardInv
      <4> QED BY <4>1, <2>2, <2>3
    <3>2. CASE j = n - x + 1 /\ k \in 1 .. n - x
      <4>1. Open
        BY <3>2, <2>2, <2>3
      <4>2. subs'[j][1] = p
        BY <4>1, <3>2, <2>7
      <4> QED BY <4>2, <3>2, <2>6, <2>7, <2>9
    <3>3. CASE k = n - x + 1 /\ j \in 1 .. n - x
      <4>1. Open
        BY <3>3, <2>2, <2>3
      <4>2. subs'[k][1] = p
        BY <4>1, <3>3, <2>7
      <4> QED BY <4>2, <3>3, <2>6, <2>7, <2>9
    <3>4. CASE j = n - x + 1 /\ k = n - x + 1
      BY <3>4
    <3>5. (j \in 1 .. n - x \/ j = n - x + 1) /\ (k \in 1 .. n - x \/ k = n - x + 1)
      <4> x \in Int /\ n \in Int /\ m \in {n - x, n - x + 1}
        BY <2>2, <2>3
      <4> QED OBVIOUS
    <3> QED BY <3>1, <3>2, <3>3, <3>4, <3>5
  <2>11. \A j \in 1 .. n : j \notin 1 .. x => j - x \in 1 .. n - x /\ subs'[j - x] = subs[j]
    <3> SUFFICES ASSUME NEW j \in 1 .. n, j \notin 1 .. x
                 PROVE  j - x \in 1 .. n - x /\ subs'[j - x] = subs[j]
      OBVIOUS
    <3>1. j - x \in 1 .. n - x /\ x + (j - x) = j
      BY <2>2, <2>3
    <3> QED BY <3>1, <2>7
  <2>12. \A j \in 1 .. m : \/ Open /\ subs'[j] = <<p, Sid>>
                           \/ \E k \in 1 .. n : k \notin 1 .. x /\ subs'[j] = subs[k]
    <3> SUFFICES ASSUME NEW j \in 1 .. m
                 PROVE \/ Open /\ subs'[j] = <<p, Sid>>
                       \/ \E k \in 1 .. n : k \notin 1 .. x /\ subs'[j] = subs[k]
      OBVIOUS
    <3>1. CASE j \in 1 .. n - x
      <4>1. x + j \in 1 .. n /\ x + j \notin 1 .. x
        BY <3>1, <2>2, <2>3
      <4> QED BY <4>1, <3>1, <2>7
    <3>2. CASE j \notin 1 .. n - x
      <4>1. Open /\ j = n - x + 1
        BY <3>2, <2>2, <2>3
      <4> QED BY <4>1, <2>7
    <3> QED BY <3>1, <3>2
  <2>13. Open => m \in 1 .. m /\ subs'[m] = <<p, Sid>>
    BY <2>7, <2>2, <2>3
  <2>14. \A j \in 1 .. n - x : j \in 1 .. m
    BY <2>2, <2>3
  <2>15. \A i \in 1 .. x : i \in 1 .. n
    BY <2>2, <2>3
  <2>16. \A i, j \in 1 .. n : subs[i][1] = subs[j][1] => i = j
    BY <2>2 DEF HeardInv
  <2> HIDE DEF m, n
  <2>17. /\ Registered = {subs[j][1] : j \in 1 .. n} /\ Subs = {subs[j] : j \in 1 .. n}
         /\ Registered' = {subs'[k][1] : k \in 1 .. m} /\ Subs' = {subs'[k] : k \in 1 .. m}
    BY <2>2, <2>7 DEF Registered, Subs
  <2>18. /\ Subs' = (Subs \ gone) \cup new
         /\ Registered' = (Registered \ {e[1] : e \in gone}) \cup {e[1] : e \in new}
    <3>1. \A e \in Subs' : e \in (Subs \ gone) \cup new
      <4> SUFFICES ASSUME NEW j \in 1 .. m PROVE subs'[j] \in (Subs \ gone) \cup new
        BY <2>17
      <4>1. CASE Open /\ subs'[j] = <<p, Sid>>
        BY <4>1
      <4>2. ASSUME NEW k \in 1 .. n, k \notin 1 .. x, subs'[j] = subs[k] PROVE subs'[j] \in Subs \ gone
        BY <4>2, <2>17, <2>15, <2>16
      <4> QED BY <4>1, <4>2, <2>12
    <3>2. \A e \in Subs \ gone : e \in Subs'
      BY <2>17, <2>11, <2>14
    <3>3. \A e \in new : e \in Subs'
      BY <2>17, <2>13
    <3>4. \A e \in Registered' : e \in (Registered \ {g[1] : g \in gone}) \cup {g[1] : g \in new}
      <4> SUFFICES ASSUME NEW j \in 1 .. m
                   PROVE  subs'[j][1] \in (Registered \ {g[1] : g \in gone}) \cup {g[1] : g \in new}
        BY <2>17
      <4>1. CASE Open /\ subs'[j] = <<p, Sid>>
        BY <4>1
      <4>2. ASSUME NEW k \in 1 .. n, k \notin 1 .. x, subs'[j] = subs[k]
            PROVE  subs'[j][1] \in Registered \ {g[1] : g \in gone}
        BY <4>2, <2>17, <2>15, <2>16
      <4> QED BY <4>1, <4>2, <2>12
    <3>5. \A e \in Registered \ {g[1] : g \in gone} : e \in Registered'
      BY <2>17, <2>11, <2>14
    <3>6. \A e \in new : e[1] \in Registered'
      BY <2>17, <2>13
    <3>7. Subs' = (Subs \ gone) \cup new
      BY <3>1, <3>2, <3>3
    <3>8. Registered' = (Registered \ {e[1] : e \in gone}) \cup {e[1] : e \in new}
      <4> HIDE DEF gone, new
      <4> QED BY <3>4, <3>5, <3>6
    <3> QED BY <3>7, <3>8
  <2>19. Wild \notin gone
    BY <2>2, <2>15 DEF RegisterConstants
  <2>20. /\ table' = Subs' \cup {Wild} /\ broker' \subseteq table' /\ (link = "up" => broker' = table')
         /\ link \in {"down", "closed"} => broker' = {}
    <3> HIDE DEF gone, new
    <3>1. table' = Subs' \cup {Wild}
      BY <2>1, <2>18, <2>19 DEF HeardInv
    <3>2. CASE Open
      <4>1. broker' = (broker \ gone) \cup new /\ table' = (table \ gone) \cup new
        BY <3>2, <2>1
      <4>2. link \notin {"down", "closed"}
        BY <3>2 DEF Open
      <4> QED BY <4>1, <4>2, <3>1 DEF HeardInv
    <3>3. CASE ~Open
      <4>1. link = "down"
        BY <3>3 DEF HeardInv, Open
      <4>2. broker' = {}
        BY <3>3, <2>1, <4>1 DEF HeardInv
      <4> QED BY <3>1, <4>1, <4>2
    <3> QED BY <3>1, <3>2, <3>3
  <2>21. sidCounter' \in Nat
    BY <2>1 DEF HeardInv, Sid
  <2>22. keys' = Registered'
    BY <2>1, <2>18 DEF HeardInv
  <2> HIDE DEF gone, new
  <2> QED BY <2>1, <2>7, <2>8, <2>10, <2>20, <2>21, <2>22 DEF HeardInv
<1> QED BY <1>1, <1>2 DEF RegisterPeer

-----------------------------------------------------------------------------
(* The registration: who is let in. *)

Request == [tab : Tab, seq : Nat, op : {"challenge", "register", "unregister"}, nonce : Nat, anchor : Nat]
Body == [code : {200, 401, 426, 500, 503, 507}, nonce : Nat, anchor : Nat]
TabState == [pc : {"idle", "challenge", "register", "leave", "in", "broken", "refused", "mismatch", "full", "server"},
             try : Nat, seq : Nat, anchor : Nat, nonce : Nat]

RegisterTypes ==
  /\ \A t \in Tab : opts[t].peer \in Peer
  /\ tab \in [Tab -> TabState]
  /\ inbox \in [Tab -> {None} \cup Body]
  /\ pending \in SUBSET Request
  /\ issued \in Seq(Peer)
  /\ expired \in Nat
  /\ byPeer \in [Peer -> SUBSET Nat]

Since(p, n) == {m \in DOMAIN issued : m > n /\ issued[m] = p}

\* A nonce the store may refuse for a cause of the tab's own user.
Caused(t, n) == n <= expired \/ Cardinality(Since(opts[t].peer, n)) >= MaxNonces

\* A nonce that was issued and will be accepted, or refused for such a cause.
Kept(t, n) == n \in 1 .. Len(issued) /\ (Holds(opts[t].peer, n) \/ Caused(t, n))

\* A bucket holds nonces of its peer.
BucketInv == \A p \in Peer : \A n \in byPeer[p] : n \in 1 .. Len(issued) /\ issued[n] = p

\* A request under way is of the past, or the one its tab waits on.
RequestInv ==
  \A r \in pending :
    /\ r.seq <= tab[r.tab].seq
    /\ r.seq = tab[r.tab].seq =>
         /\ tab[r.tab].pc \in {"challenge", "leave"} => r.op = "challenge"
         /\ tab[r.tab].pc = "register" =>
              r.op = "register" /\ r.nonce = tab[r.tab].nonce /\ r.anchor = tab[r.tab].anchor
    /\ Good(opts[r.tab]) /\ r.nonce # 0 => Kept(r.tab, r.nonce)
    /\ r.op = "register" => r.nonce # 0
    /\ r.nonce <= Len(issued)

\* A reply on its way is to the request its tab waits on.
InboxInv ==
  \A t \in Tab : inbox[t] # None =>
    /\ inbox[t].nonce <= Len(issued)
    /\ tab[t].pc = "register" /\ inbox[t].code = 200 => inbox[t].anchor = tab[t].anchor
    /\ Good(opts[t]) =>
         /\ tab[t].pc = "challenge" => inbox[t].code \in {200, 503}
         /\ inbox[t].nonce # 0 => Kept(t, inbox[t].nonce)
         /\ tab[t].pc = "register" /\ inbox[t].code = 401 => tab[t].nonce # 0 /\ Caused(t, tab[t].nonce)

\* A nonce is in one place: one inbox or one request.
OnePlace ==
  /\ \A t, u \in Tab : inbox[t] # None /\ inbox[u] # None /\ inbox[t].nonce = inbox[u].nonce =>
                         t = u \/ inbox[t].nonce = 0
  /\ \A r, q \in pending : r.nonce = q.nonce => r = q \/ r.nonce = 0
  /\ \A t \in Tab, r \in pending : inbox[t] # None /\ inbox[t].nonce = r.nonce => r.nonce = 0

\* A tab is locked out for cause.
LockInv ==
  \A t \in Tab : Good(opts[t]) =>
    /\ tab[t].pc # "broken"
    /\ tab[t].pc = "refused" => tab[t].nonce # 0 /\ Caused(t, tab[t].nonce)

NonceInv == BucketInv /\ RequestInv /\ InboxInv /\ OnePlace /\ LockInv
RegisterInv == RegisterTypes /\ NonceInv

\* No reply is not a reply.
LEMMA NoneIsNoBody == None \notin Body
  BY DEF None, Body

\* The challenges of a peer are finitely many, and only ever become more.
LEMMA SinceFinite ==
  ASSUME issued \in Seq(Peer), NEW p, NEW n
  PROVE  IsFiniteSet(Since(p, n)) /\ Cardinality(Since(p, n)) \in Nat
<1>1. DOMAIN issued = 1 .. Len(issued) /\ Len(issued) \in Int /\ 1 \in Int
  OBVIOUS
<1>2. IsFiniteSet(1 .. Len(issued))
  BY <1>1, FS_Interval
<1>3. Since(p, n) \subseteq 1 .. Len(issued)
  BY <1>1 DEF Since
<1> QED BY <1>2, <1>3, FS_Subset, FS_CardinalityType

\* What the plugin may do to the nonces while it handles a request: they stay what
\* they were, except for the nonce of the request.
NoncesKept(spent) ==
  /\ Len(issued) \in Nat /\ Len(issued') \in Nat /\ Len(issued) <= Len(issued')
  /\ \A t \in Tab, n \in Nat : Caused(t, n) => Caused(t, n)'
  /\ \A t \in Tab, n \in Nat : Kept(t, n) /\ n # spent => Kept(t, n)'

\* A step that leaves the store alone keeps the nonces.
LEMMA SameNonces ==
  ASSUME RegisterInv, UNCHANGED <<opts, byPeer, issued, expired>>, NEW spent
  PROVE  NoncesKept(spent) /\ BucketInv'
<1>1. BucketInv'
  BY DEF RegisterInv, NonceInv, BucketInv
<1>2. Len(issued) \in Nat
  BY DEF RegisterInv, RegisterTypes
<1> QED BY <1>1, <1>2 DEF NoncesKept, Caused, Kept, Since, Holds

\* Spending a nonce keeps the others.
LEMMA ConsumeNonce ==
  ASSUME RegisterInv, NEW p \in Peer, NEW n, Consume(p, n), UNCHANGED <<opts, issued, expired>>
  PROVE  NoncesKept(n) /\ BucketInv'
<1>1. BucketInv'
  BY DEF RegisterInv, NonceInv, BucketInv, Consume, RegisterTypes
<1>2. Len(issued) \in Nat
  BY DEF RegisterInv, RegisterTypes
<1>3. \A t \in Tab, m \in Nat : Caused(t, m)' <=> Caused(t, m)
  BY DEF Caused, Since
<1>4. \A t \in Tab, m \in Nat : Kept(t, m) /\ m # n => Kept(t, m)'
  BY <1>3 DEF Kept, Holds, Consume, RegisterInv, RegisterTypes
<1> QED BY <1>1, <1>2, <1>3, <1>4 DEF NoncesKept

\* A nonce that expires is refused for cause.
LEMMA ExpireNonces ==
  ASSUME RegisterInv, Expire
  PROVE  NoncesKept(0) /\ BucketInv'
<1>1. BucketInv' /\ expired' = expired + 1 /\ expired \in Nat /\ UNCHANGED <<opts, byPeer, issued>>
  BY DEF RegisterInv, NonceInv, BucketInv, Expire, RegisterTypes
<1>2. Len(issued) \in Nat
  BY DEF RegisterInv, RegisterTypes
<1>3. \A t \in Tab, m \in Nat : Caused(t, m) => Caused(t, m)'
  BY <1>1 DEF Caused, Since
<1>4. \A t \in Tab, m \in Nat : Kept(t, m) /\ m # 0 => Kept(t, m)'
  BY <1>1, <1>3 DEF Kept, Holds
<1> QED BY <1>1, <1>2, <1>3, <1>4 DEF NoncesKept

\* Issuing a nonce evicts only nonces that have MaxNonces younger ones.
LEMMA IssueNonce ==
  ASSUME RegisterInv, RegisterConstants, NEW p \in Peer, Issue(p), UNCHANGED opts
  PROVE  /\ NoncesKept(0) /\ BucketInv'
         /\ issued' \in Seq(Peer) /\ Len(issued') = Len(issued) + 1
         /\ \A t \in Tab, n \in Nat : opts[t].peer = p /\ n = Len(issued) + 1 => Kept(t, n)'
<1> DEFINE L == Len(issued)
<1>1. /\ issued \in Seq(Peer) /\ L \in Nat /\ DOMAIN issued = 1 .. L
      /\ issued' \in Seq(Peer) /\ Len(issued') = L + 1 /\ DOMAIN issued' = 1 .. L + 1
      /\ \A m \in 1 .. L : issued'[m] = issued[m]
      /\ issued'[L + 1] = p /\ expired' = expired /\ expired \in Nat
  BY DEF RegisterInv, RegisterTypes, Issue
<1>2. /\ byPeer'[p] = Room(Live(byPeer[p])) \cup {L + 1}
      /\ \A q \in Peer : q # p => byPeer'[q] = Live(byPeer[q])
  BY DEF Issue
<1>3. \A q \in Peer : \A m \in byPeer[q] : m \in 1 .. L /\ issued[m] = q
  BY DEF RegisterInv, NonceInv, BucketInv
<1> HIDE DEF L
<1>4. \A q \in Peer : \A m \in byPeer'[q] : (m = L + 1 /\ q = p) \/ m \in byPeer[q]
  BY <1>2 DEF Room, Live
<1>5. BucketInv'
  <2> SUFFICES ASSUME NEW q \in Peer, NEW m \in byPeer'[q] PROVE m \in 1 .. Len(issued') /\ issued'[m] = q
    BY DEF BucketInv
  <2>1. CASE m = L + 1 /\ q = p
    BY <2>1, <1>1
  <2>2. CASE m \in byPeer[q]
    BY <2>2, <1>1, <1>3
  <2> QED BY <2>1, <2>2, <1>4
<1> DEFINE After(t, n) == {m \in DOMAIN issued' : m > n /\ issued'[m] = opts[t].peer}
<1>6. ASSUME NEW t \in Tab, NEW n \in Nat
      PROVE  /\ After(t, n) = Since(opts[t].peer, n)'
             /\ IsFiniteSet(After(t, n)) /\ Cardinality(After(t, n)) \in Nat
             /\ Cardinality(Since(opts[t].peer, n)) \in Nat
             /\ Cardinality(Since(opts[t].peer, n)) <= Cardinality(After(t, n))
  <2>1. Since(opts[t].peer, n) \subseteq After(t, n)
    BY <1>1 DEF Since
  <2>2. IsFiniteSet(After(t, n))
    <3>1. IsFiniteSet(1 .. L + 1)
      <4>1. 1 \in Int /\ L + 1 \in Int
        BY <1>1
      <4> QED BY <4>1, FS_Interval
    <3>2. After(t, n) \subseteq 1 .. L + 1
      BY <1>1
    <3> QED BY <3>1, <3>2, FS_Subset
  <2>3. After(t, n) = Since(opts[t].peer, n)'
    BY DEF Since
  <2> HIDE DEF After
  <2> QED BY <2>1, <2>2, <2>3, FS_Subset, FS_CardinalityType
<1>7. ASSUME NEW t \in Tab, NEW n \in Nat, Caused(t, n) PROVE Caused(t, n)'
  <2>1. CASE n <= expired
    BY <2>1, <1>1 DEF Caused
  <2>2. CASE Cardinality(Since(opts[t].peer, n)) >= MaxNonces
    <3> HIDE DEF After
    <3>1. Cardinality(After(t, n)) >= MaxNonces
      BY <2>2, <1>6 DEF RegisterConstants
    <3>2. Cardinality(Since(opts[t].peer, n)') >= MaxNonces
      BY <3>1, <1>6
    <3> QED BY <3>2 DEF Caused
  <2> QED BY <2>1, <2>2, <1>7 DEF Caused
<1>8. ASSUME NEW t \in Tab, NEW n \in Nat, Kept(t, n) PROVE Kept(t, n)'
  <2>1. n \in 1 .. Len(issued')
    BY <1>1, <1>8 DEF Kept, L
  <2>2. CASE Caused(t, n)
    BY <2>1, <2>2, <1>7 DEF Kept
  <2>3. CASE Holds(opts[t].peer, n)
    <3> DEFINE b == Live(byPeer[p])
               younger == {m \in b : m > n}
    <3>1. opts[t].peer \in Peer
      BY DEF RegisterInv, RegisterTypes
    <3>2. CASE n <= expired
      BY <3>2, <2>1, <1>1 DEF Kept, Caused
    <3>3. CASE n > expired /\ opts[t].peer # p
      BY <3>3, <3>1, <1>2, <2>1, <2>3 DEF Kept, Holds, Live
    <3>4. CASE n > expired /\ opts[t].peer = p /\ Cardinality(younger) < MaxNonces - 1
      <4>1. n \in Room(b)
        BY <3>4, <2>3 DEF Room, Live, Holds
      <4> QED BY <4>1, <3>4, <1>2, <2>1 DEF Kept, Holds
    <3>5. CASE opts[t].peer = p /\ ~(Cardinality(younger) < MaxNonces - 1)
      <4>1. \A m \in b : m \in 1 .. L /\ issued[m] = p
        BY <1>3 DEF Live
      <4>2. younger \cup {L + 1} \subseteq After(t, n) /\ L + 1 \notin younger
        <5>1. L + 1 \in After(t, n)
          BY <3>5, <1>1, <1>8 DEF Since, Kept, L
        <5>2. \A m \in younger : m \in After(t, n) /\ m # L + 1
          BY <4>1, <3>5, <1>1 DEF Since
        <5> QED BY <5>1, <5>2
      <4>3. IsFiniteSet(younger)
        <5>1. younger \subseteq After(t, n)
          BY <4>2
        <5> QED BY <5>1, <1>6, FS_Subset
      <4> HIDE DEF younger
      <4>4. /\ Cardinality(younger) \in Nat /\ IsFiniteSet(younger \cup {L + 1})
            /\ Cardinality(younger \cup {L + 1}) = Cardinality(younger) + 1
        BY <4>2, <4>3, FS_AddElement, FS_CardinalityType
      <4>5. Cardinality(younger \cup {L + 1}) <= Cardinality(After(t, n))
        BY <4>2, <1>6, FS_Subset
      <4>6. Cardinality(After(t, n)) >= MaxNonces
        <5>1. Cardinality(After(t, n)) \in Nat /\ MaxNonces \in Nat
          BY <1>6 DEF RegisterConstants
        <5> HIDE DEF After
        <5> QED BY <4>4, <4>5, <3>5, <5>1
      <4>7. Caused(t, n)'
        <5>1. Cardinality(Since(opts[t].peer, n)') >= MaxNonces
          BY <4>6, <1>6
        <5> QED BY <5>1 DEF Caused
      <4> QED BY <4>7, <2>1 DEF Kept
    <3> QED BY <3>2, <3>3, <3>4, <3>5, <1>1
  <2> QED BY <2>2, <2>3, <1>8 DEF Kept
<1>9. ASSUME NEW t \in Tab, NEW n \in Nat, opts[t].peer = p, n = Len(issued) + 1 PROVE Kept(t, n)'
  <2>1. Holds(opts[t].peer, n)'
    BY <1>9, <1>2 DEF Holds, L
  <2>2. n \in 1 .. Len(issued')
    BY <1>1, <1>9 DEF L
  <2> QED BY <2>1, <2>2 DEF Kept
<1>10. NoncesKept(0)
  BY <1>1, <1>7, <1>8 DEF NoncesKept, L
<1> QED BY <1>1, <1>5, <1>9, <1>10 DEF L

\* A request that takes the nonce of the reply before it, or none, keeps the invariant.
LEMMA AskKeeps ==
  ASSUME RegisterInv, NEW t \in Tab, UNCHANGED <<opts, byPeer, issued, expired>>,
         NEW pc \in {"idle", "challenge", "register", "leave"}, NEW try \in Nat, NEW anchor \in Nat,
         NEW o \in {"challenge", "register", "unregister"}, NEW nonce \in Nat,
         Ask(t, pc, try, anchor, o, nonce),
         pc \in {"challenge", "leave"} => o = "challenge",
         pc = "register" => o = "register",
         o = "register" => nonce # 0,
         nonce # 0 => inbox[t] # None /\ inbox[t].nonce = nonce
  PROVE  RegisterInv'
<1> DEFINE seq == tab[t].seq + 1
           cn == IF anchor = 0 THEN seq ELSE anchor
           rq == [tab |-> t, seq |-> seq, op |-> o, nonce |-> nonce, anchor |-> cn]
<1>1. /\ tab' = [tab EXCEPT ![t] = [pc |-> pc, try |-> try, seq |-> seq, anchor |-> cn, nonce |-> nonce]]
      /\ inbox' = [inbox EXCEPT ![t] = None]
      /\ pending' \subseteq pending \cup {rq}
  BY DEF Ask
<1>2. tab[t].seq \in Nat
  BY DEF RegisterInv, RegisterTypes, TabState
<1>3. seq \in Nat /\ cn \in Nat /\ seq > tab[t].seq
  BY <1>2
<1> HIDE DEF seq, cn
<1>4. rq \in Request
  BY <1>3 DEF Request
<1>5. RegisterTypes'
  <2>1. tab' \in [Tab -> TabState]
    BY <1>1, <1>3 DEF RegisterInv, RegisterTypes, TabState
  <2>2. inbox' \in [Tab -> {None} \cup Body] /\ pending' \in SUBSET Request
    BY <1>1, <1>4 DEF RegisterInv, RegisterTypes
  <2> QED BY <2>1, <2>2 DEF RegisterInv, RegisterTypes
<1>6. /\ tab'[t] = [pc |-> pc, try |-> try, seq |-> seq, anchor |-> cn, nonce |-> nonce]
      /\ inbox'[t] = None
      /\ \A u \in Tab \ {t} : tab'[u] = tab[u] /\ inbox'[u] = inbox[u]
  BY <1>1 DEF RegisterInv, RegisterTypes
<1>7. NoncesKept(0) /\ BucketInv'
  BY SameNonces
<1>8. \A r \in pending : /\ r \in Request /\ r.tab \in Tab /\ r.seq \in Nat /\ r.nonce \in Nat
                         /\ r.seq <= tab[r.tab].seq
  BY DEF RegisterInv, RegisterTypes, NonceInv, RequestInv, Request
<1>9. Len(issued) \in Nat
  BY DEF RegisterInv, RegisterTypes
<1>10. nonce # 0 => nonce <= Len(issued) /\ (Good(opts[t]) => Kept(t, nonce))
  BY DEF RegisterInv, NonceInv, InboxInv
<1>11. RequestInv'
  <2> SUFFICES ASSUME NEW r \in pending'
      PROVE /\ r.seq <= tab'[r.tab].seq
            /\ r.seq = tab'[r.tab].seq =>
                 /\ tab'[r.tab].pc \in {"challenge", "leave"} => r.op = "challenge"
                 /\ tab'[r.tab].pc = "register" =>
                      r.op = "register" /\ r.nonce = tab'[r.tab].nonce /\ r.anchor = tab'[r.tab].anchor
            /\ Good(opts[r.tab]) /\ r.nonce # 0 => Kept(r.tab, r.nonce)'
            /\ r.op = "register" => r.nonce # 0
            /\ r.nonce <= Len(issued)
    BY DEF RequestInv, Good, VerifyJwt, Authentic, WellBound
  <2>1. CASE r = rq
    <3>1. r.tab = t /\ r.seq = seq /\ r.op = o /\ r.nonce = nonce /\ r.anchor = cn
      BY <2>1
    <3> HIDE DEF rq
    <3>2. nonce # 0 /\ Good(opts[t]) => Kept(t, nonce)'
      BY <1>7, <1>10 DEF NoncesKept
    <3> QED BY <3>1, <3>2, <1>6, <1>3, <1>9, <1>10
  <2>2. CASE r \in pending
    <3>1. (Good(opts[r.tab]) /\ r.nonce # 0 => Kept(r.tab, r.nonce)')
      BY <2>2, <1>7, <1>8 DEF NoncesKept, RegisterInv, NonceInv, RequestInv
    <3>2. (r.op = "register" => r.nonce # 0) /\ r.nonce <= Len(issued)
      BY <2>2 DEF RegisterInv, NonceInv, RequestInv
    <3>3. CASE r.tab = t
      <4>1. r.seq < tab'[r.tab].seq
        BY <3>3, <2>2, <1>8, <1>6, <1>3, <1>2
      <4> QED BY <4>1, <3>1, <3>2, <1>8, <2>2, <1>3, <1>6, <3>3
    <3>4. CASE r.tab # t
      BY <3>4, <2>2, <3>1, <3>2, <1>6, <1>8 DEF RegisterInv, NonceInv, RequestInv
    <3> QED BY <3>3, <3>4
  <2> QED BY <2>1, <2>2, <1>1
<1>12. InboxInv'
  <2> SUFFICES ASSUME NEW u \in Tab, inbox'[u] # None
      PROVE /\ inbox'[u].nonce <= Len(issued)
            /\ tab'[u].pc = "register" /\ inbox'[u].code = 200 => inbox'[u].anchor = tab'[u].anchor
            /\ Good(opts[u]) =>
                 /\ tab'[u].pc = "challenge" => inbox'[u].code \in {200, 503}
                 /\ inbox'[u].nonce # 0 => Kept(u, inbox[u].nonce)'
                 /\ tab'[u].pc = "register" /\ inbox'[u].code = 401 => tab'[u].nonce # 0 /\ Caused(u, tab[u].nonce)'
    BY DEF InboxInv, Good, VerifyJwt, Authentic, WellBound
  <2>1. u # t /\ inbox'[u] = inbox[u] /\ tab'[u] = tab[u]
    BY <1>6
  <2>2. \A n \in Nat : Caused(u, n)' <=> Caused(u, n)
    BY DEF Caused, Since
  <2>3. \A n \in Nat : Kept(u, n)' <=> Kept(u, n)
    BY <2>2 DEF Kept, Holds
  <2>4. inbox[u].nonce \in Nat /\ tab[u].nonce \in Nat
    BY <2>1 DEF RegisterInv, RegisterTypes, Body, TabState
  <2>5. (Kept(u, inbox[u].nonce)' <=> Kept(u, inbox[u].nonce)) /\ (Caused(u, tab[u].nonce)' <=> Caused(u, tab[u].nonce))
    BY <2>1, <2>2, <2>3, <2>4 DEF Kept, Caused, Since, Holds
  <2> QED BY <2>1, <2>5 DEF RegisterInv, NonceInv, InboxInv
<1>13. OnePlace'
  <2>1. \A u, w \in Tab : inbox'[u] # None /\ inbox'[w] # None /\ inbox'[u].nonce = inbox'[w].nonce =>
                         u = w \/ inbox'[u].nonce = 0
    BY <1>6 DEF RegisterInv, NonceInv, OnePlace
  <2>2. \A r \in pending : r.nonce = rq.nonce => rq.nonce = 0
    BY <1>6 DEF RegisterInv, NonceInv, OnePlace
  <2>3. \A r, q \in pending' : r.nonce = q.nonce => r = q \/ r.nonce = 0
    BY <2>2, <1>1 DEF RegisterInv, NonceInv, OnePlace
  <2>4. \A u \in Tab : inbox'[u] # None /\ inbox'[u].nonce = rq.nonce => rq.nonce = 0
    BY <1>6 DEF RegisterInv, NonceInv, OnePlace
  <2>5. \A u \in Tab, r \in pending' : inbox'[u] # None /\ inbox'[u].nonce = r.nonce => r.nonce = 0
    BY <2>4, <1>1, <1>6 DEF RegisterInv, NonceInv, OnePlace
  <2> QED BY <2>1, <2>3, <2>5 DEF OnePlace
<1>14. LockInv'
  <2>1. \A u \in Tab : tab'[u].pc \in {"broken", "refused"} => u # t /\ tab'[u] = tab[u]
    BY <1>6
  <2>2. \A u \in Tab : Good(opts[u])' <=> Good(opts[u])
    BY DEF Good, VerifyJwt, Authentic, WellBound
  <2>3. \A u \in Tab : tab'[u] = tab[u] => (Caused(u, tab[u].nonce)' <=> Caused(u, tab[u].nonce))
    BY DEF Caused, Since
  <2> QED BY <2>1, <2>2, <2>3 DEF RegisterInv, NonceInv, LockInv
<1> QED BY <1>5, <1>7, <1>11, <1>12, <1>13, <1>14 DEF RegisterInv, NonceInv

\* A registration that ends keeps the invariant, if it ends for cause.
LEMMA BecomesKeeps ==
  ASSUME RegisterInv, NEW t \in Tab, UNCHANGED <<opts, byPeer, issued, expired>>,
         NEW pc \in {"idle", "in", "broken", "refused", "mismatch", "full", "server"}, Becomes(t, pc),
         Good(opts[t]) => /\ pc # "broken"
                          /\ pc = "refused" => tab[t].nonce # 0 /\ Caused(t, tab[t].nonce)
  PROVE  RegisterInv'
<1>1. /\ pending' = pending /\ inbox' = [inbox EXCEPT ![t] = None]
      /\ tab' = [tab EXCEPT ![t] = [pc |-> pc, try |-> 0, seq |-> tab[t].seq, anchor |-> 0,
                                       nonce |-> IF pc = "refused" THEN tab[t].nonce ELSE 0]]
  BY DEF Becomes
<1>2. tab[t] \in TabState /\ tab[t].nonce \in Nat
  BY DEF RegisterInv, RegisterTypes, TabState
<1>3. /\ tab'[t] \in TabState /\ tab'[t].pc = pc /\ tab'[t].seq = tab[t].seq
      /\ pc = "refused" => tab'[t].nonce = tab[t].nonce
      /\ inbox'[t] = None
      /\ \A u \in Tab \ {t} : tab'[u] = tab[u] /\ inbox'[u] = inbox[u]
  <2> DEFINE n == IF pc = "refused" THEN tab[t].nonce ELSE 0
  <2>1. n \in Nat
    BY <1>2
  <2>2. tab'[t] = [pc |-> pc, try |-> 0, seq |-> tab[t].seq, anchor |-> 0, nonce |-> n]
    BY <1>1 DEF RegisterInv, RegisterTypes
  <2> HIDE DEF n
  <2>3. tab'[t] \in TabState /\ tab'[t].pc = pc /\ tab'[t].seq = tab[t].seq /\ tab'[t].nonce = n
    BY <2>1, <2>2, <1>2 DEF TabState
  <2>4. inbox'[t] = None /\ \A u \in Tab \ {t} : tab'[u] = tab[u] /\ inbox'[u] = inbox[u]
    BY <1>1 DEF RegisterInv, RegisterTypes
  <2> QED BY <2>3, <2>4 DEF n
<1>4. RegisterTypes'
  <2>1. tab' \in [Tab -> TabState]
    BY <1>1, <1>3 DEF RegisterInv, RegisterTypes
  <2>2. inbox' \in [Tab -> {None} \cup Body]
    BY <1>1 DEF RegisterInv, RegisterTypes
  <2> QED BY <2>1, <2>2, <1>1 DEF RegisterInv, RegisterTypes
<1>5. BucketInv'
  BY SameNonces
<1>6. \A u \in Tab, n \in Nat : (Caused(u, n)' <=> Caused(u, n)) /\ (Kept(u, n)' <=> Kept(u, n))
  BY DEF Kept, Caused, Since, Holds
<1>7. \A u \in Tab : Good(opts[u])' <=> Good(opts[u])
  BY DEF Good, VerifyJwt, Authentic, WellBound
<1>8. RequestInv'
  <2> SUFFICES ASSUME NEW r \in pending
      PROVE /\ r.seq <= tab'[r.tab].seq
            /\ r.seq = tab'[r.tab].seq =>
                 /\ tab'[r.tab].pc \in {"challenge", "leave"} => r.op = "challenge"
                 /\ tab'[r.tab].pc = "register" =>
                      r.op = "register" /\ r.nonce = tab'[r.tab].nonce /\ r.anchor = tab'[r.tab].anchor
            /\ Good(opts[r.tab]) /\ r.nonce # 0 => Kept(r.tab, r.nonce)'
            /\ r.op = "register" => r.nonce # 0
            /\ r.nonce <= Len(issued)
    BY <1>1 DEF RequestInv, Good, VerifyJwt, Authentic, WellBound
  <2>1. r.tab \in Tab /\ r.nonce \in Nat
    BY DEF RegisterInv, RegisterTypes, Request
  <2> QED BY <2>1, <1>3, <1>6 DEF RegisterInv, NonceInv, RequestInv
<1>9. InboxInv'
  <2> SUFFICES ASSUME NEW u \in Tab, inbox'[u] # None
      PROVE /\ inbox'[u].nonce <= Len(issued)
            /\ tab'[u].pc = "register" /\ inbox'[u].code = 200 => inbox'[u].anchor = tab'[u].anchor
            /\ Good(opts[u]) =>
                 /\ tab'[u].pc = "challenge" => inbox'[u].code \in {200, 503}
                 /\ inbox'[u].nonce # 0 => Kept(u, inbox[u].nonce)'
                 /\ tab'[u].pc = "register" /\ inbox'[u].code = 401 => tab'[u].nonce # 0 /\ Caused(u, tab[u].nonce)'
    BY DEF InboxInv, Good, VerifyJwt, Authentic, WellBound
  <2>1. u # t /\ inbox'[u] = inbox[u] /\ tab'[u] = tab[u]
    BY <1>3
  <2>2. (Kept(u, inbox[u].nonce)' <=> Kept(u, inbox[u].nonce)) /\ (Caused(u, tab[u].nonce)' <=> Caused(u, tab[u].nonce))
    BY <2>1 DEF Kept, Caused, Since, Holds
  <2> QED BY <2>1, <2>2 DEF RegisterInv, NonceInv, InboxInv
<1>10. OnePlace'
  BY <1>1, <1>3 DEF RegisterInv, NonceInv, OnePlace
<1>11. LockInv'
  <2> SUFFICES ASSUME NEW u \in Tab, Good(opts[u])
      PROVE  /\ tab'[u].pc # "broken"
             /\ tab'[u].pc = "refused" => tab'[u].nonce # 0 /\ Caused(u, tab[u].nonce)'
    BY <1>7 DEF LockInv
  <2>1. CASE u # t
    <3>1. tab'[u] = tab[u] /\ (Caused(u, tab[u].nonce)' <=> Caused(u, tab[u].nonce))
      BY <2>1, <1>3 DEF Caused, Since
    <3> QED BY <3>1 DEF RegisterInv, NonceInv, LockInv
  <2>2. CASE u = t
    <3>1. pc = "refused" => (Caused(u, tab[u].nonce)' <=> Caused(u, tab[u].nonce))
      BY <2>2, <1>3 DEF Caused, Since
    <3> QED BY <2>2, <3>1, <1>3
  <2> QED BY <2>1, <2>2
<1> QED BY <1>4, <1>5, <1>8, <1>9, <1>10, <1>11 DEF RegisterInv, NonceInv

\* What a reply may say to a request.
FairReply(r, body) ==
  /\ body \in Body
  /\ body.nonce # 0 => /\ body.nonce = Len(issued) + 1 /\ body.nonce <= Len(issued')
                       /\ \A n \in Nat : n = body.nonce => Kept(r.tab, n)'
  /\ r.op = "register" /\ body.code = 200 => body.anchor = r.anchor
  /\ Good(opts[r.tab]) => /\ r.op = "challenge" => body.code \in {200, 503}
                          /\ r.op = "register" /\ body.code = 401 => Caused(r.tab, r.nonce)

\* The plugin handles a request: its nonce may be spent, a nonce may be issued,
\* and the tab is answered if it still waits.
LEMMA HandleKeeps ==
  ASSUME RegisterInv, NEW r \in pending, pending' = pending \ {r}, UNCHANGED opts,
         issued' \in Seq(Peer), expired' \in Nat, byPeer' \in [Peer -> SUBSET Nat],
         NoncesKept(r.nonce), BucketInv',
         UNCHANGED client \/ \E body : Reply(r, body) /\ FairReply(r, body)
  PROVE  RegisterInv'
<1>1. /\ r \in Request /\ r.tab \in Tab /\ r.nonce \in Nat /\ tab' = tab
      /\ tab \in [Tab -> TabState] /\ inbox \in [Tab -> {None} \cup Body]
      /\ Len(issued) \in Nat /\ Len(issued') \in Nat
  BY DEF RegisterInv, RegisterTypes, Request, Reply, client
<1>2. PICK body : inbox' = inbox \/ (inbox' = [inbox EXCEPT ![r.tab] = body] /\ Awaited(r) /\ FairReply(r, body))
  BY DEF Reply, client
<1>3. RegisterTypes'
  <2>1. inbox' \in [Tab -> {None} \cup Body]
    BY <1>1, <1>2 DEF FairReply
  <2> QED BY <2>1, <1>1 DEF RegisterInv, RegisterTypes
<1>4. \A u \in Tab : inbox'[u] = inbox[u] \/ (u = r.tab /\ inbox'[u] = body /\ Awaited(r) /\ FairReply(r, body))
  BY <1>1, <1>2
<1>5. \A q \in pending \ {r} : q.nonce # 0 => q.nonce # r.nonce
  BY DEF RegisterInv, NonceInv, OnePlace
<1>6. \A u \in Tab : inbox[u] # None /\ inbox[u].nonce # 0 => inbox[u].nonce # r.nonce
  BY DEF RegisterInv, NonceInv, OnePlace
<1>7. \A u \in Tab : Good(opts[u])' <=> Good(opts[u])
  BY DEF Good, VerifyJwt, Authentic, WellBound
<1>8. RequestInv'
  <2> SUFFICES ASSUME NEW q \in pending \ {r}
      PROVE /\ q.seq <= tab[q.tab].seq
            /\ q.seq = tab[q.tab].seq =>
                 /\ tab[q.tab].pc \in {"challenge", "leave"} => q.op = "challenge"
                 /\ tab[q.tab].pc = "register" =>
                      q.op = "register" /\ q.nonce = tab[q.tab].nonce /\ q.anchor = tab[q.tab].anchor
            /\ Good(opts[q.tab]) /\ q.nonce # 0 => Kept(q.tab, q.nonce)'
            /\ q.op = "register" => q.nonce # 0
            /\ q.nonce <= Len(issued')
    BY <1>1 DEF RequestInv, Good, VerifyJwt, Authentic, WellBound
  <2>1. q.tab \in Tab /\ q.nonce \in Nat
    BY DEF RegisterInv, RegisterTypes, Request
  <2>2. Good(opts[q.tab]) /\ q.nonce # 0 => Kept(q.tab, q.nonce)'
    BY <2>1, <1>5 DEF NoncesKept, RegisterInv, NonceInv, RequestInv
  <2>3. q.nonce <= Len(issued')
    BY <2>1, <1>1 DEF NoncesKept, RegisterInv, NonceInv, RequestInv
  <2> QED BY <2>2, <2>3 DEF RegisterInv, NonceInv, RequestInv
<1>9. InboxInv'
  <2> SUFFICES ASSUME NEW u \in Tab, inbox'[u] # None, NEW m \in Nat, m = inbox'[u].nonce, NEW n \in Nat, n = tab[u].nonce
      PROVE /\ m <= Len(issued')
            /\ tab[u].pc = "register" /\ inbox'[u].code = 200 => inbox'[u].anchor = tab[u].anchor
            /\ Good(opts[u]) =>
                 /\ tab[u].pc = "challenge" => inbox'[u].code \in {200, 503}
                 /\ m # 0 => Kept(u, m)'
                 /\ tab[u].pc = "register" /\ inbox'[u].code = 401 => n # 0 /\ Caused(u, n)'
    <3>1. \A u \in Tab : inbox'[u] # None => inbox'[u].nonce \in Nat /\ tab[u].nonce \in Nat
      BY <1>3, <1>1 DEF RegisterTypes, Body, TabState
    <3>2. \A u \in Tab : inbox'[u] # None => \A n \in Nat : n = tab[u].nonce =>
             (Caused(u, tab[u].nonce)' <=> Caused(u, n)')
      BY <1>1 DEF Caused, Since
    <3>3. \A u \in Tab : inbox'[u] # None => \A m \in Nat : m = inbox'[u].nonce =>
             (Kept(u, inbox[u].nonce)' <=> Kept(u, m)')
      BY DEF Kept, Caused, Since, Holds
    <3> QED BY <3>1, <3>2, <3>3, <1>1, <1>7 DEF InboxInv
  <2>1. CASE inbox'[u] = inbox[u]
    <3>1. m <= Len(issued')
      BY <2>1, <1>1 DEF NoncesKept, RegisterInv, NonceInv, InboxInv
    <3>2. Good(opts[u]) /\ m # 0 => Kept(u, m)'
      BY <2>1, <1>6 DEF NoncesKept, RegisterInv, NonceInv, InboxInv
    <3>3. Good(opts[u]) /\ tab[u].pc = "register" /\ inbox'[u].code = 401 => n # 0 /\ Caused(u, n)'
      BY <2>1 DEF NoncesKept, RegisterInv, NonceInv, InboxInv
    <3> QED BY <2>1, <3>1, <3>2, <3>3 DEF RegisterInv, NonceInv, InboxInv
  <2>2. CASE u = r.tab /\ inbox'[u] = body /\ Awaited(r) /\ FairReply(r, body)
    <3>1. /\ tab[u].pc \in {"challenge", "leave"} => r.op = "challenge"
          /\ tab[u].pc = "register" => r.op = "register" /\ r.nonce = n /\ r.anchor = tab[u].anchor /\ n # 0
      BY <2>2 DEF Awaited, RegisterInv, NonceInv, RequestInv
    <3>2. m <= Len(issued') /\ (m # 0 => Kept(u, m)')
      BY <2>2, <1>1 DEF FairReply
    <3>3. Good(opts[u]) /\ tab[u].pc = "register" /\ inbox'[u].code = 401 => n # 0 /\ Caused(u, n)'
      BY <2>2, <3>1 DEF FairReply, NoncesKept
    <3> QED BY <2>2, <3>1, <3>2, <3>3 DEF FairReply
  <2> QED BY <2>1, <2>2, <1>4
<1>10. OnePlace'
  <2>1. \A u \in Tab : inbox[u] # None => inbox[u].nonce \in Nat /\ inbox[u].nonce <= Len(issued)
    BY <1>1 DEF RegisterInv, NonceInv, InboxInv, Body
  <2>2. \A q \in pending : q.nonce \in Nat /\ q.nonce <= Len(issued)
    BY DEF RegisterInv, RegisterTypes, NonceInv, RequestInv, Request
  <2>3. FairReply(r, body) => body.nonce = 0 \/ body.nonce > Len(issued)
    BY <1>1 DEF FairReply
  <2>4. \A u, w \in Tab : inbox'[u] # None /\ inbox'[w] # None /\ inbox'[u].nonce = inbox'[w].nonce =>
                         u = w \/ inbox'[u].nonce = 0
    BY <1>1, <1>4, <2>1, <2>3 DEF RegisterInv, NonceInv, OnePlace
  <2>5. \A q, w \in pending' : q.nonce = w.nonce => q = w \/ q.nonce = 0
    BY DEF RegisterInv, NonceInv, OnePlace
  <2>6. \A u \in Tab, q \in pending' : inbox'[u] # None /\ inbox'[u].nonce = q.nonce => q.nonce = 0
    BY <1>1, <1>4, <2>2, <2>3 DEF RegisterInv, NonceInv, OnePlace
  <2> QED BY <2>4, <2>5, <2>6 DEF OnePlace
<1>11. LockInv'
  <2> SUFFICES ASSUME NEW u \in Tab, Good(opts[u]), NEW n \in Nat, n = tab[u].nonce
      PROVE  /\ tab[u].pc # "broken"
             /\ tab[u].pc = "refused" => n # 0 /\ Caused(u, n)'
    <3>1. \A u \in Tab : tab[u].nonce \in Nat
      BY <1>1 DEF TabState
    <3>2. \A u \in Tab : Caused(u, tab[u].nonce)' <=> \E n \in Nat : n = tab[u].nonce /\ Caused(u, n)'
      BY <3>1, <1>1 DEF Caused, Since
    <3> QED BY <3>1, <3>2, <1>1, <1>7 DEF LockInv
  <2> QED BY DEF RegisterInv, NonceInv, LockInv, NoncesKept
<1> QED BY <1>3, <1>8, <1>9, <1>10, <1>11 DEF RegisterInv, NonceInv

\* A reply that is an error code is fair, unless it refuses a good token.
LEMMA CodeFair ==
  ASSUME RegisterInv, NEW r \in pending, NEW code \in {401, 426, 500, 503, 507},
         Good(opts[r.tab]) /\ r.op = "challenge" => code = 503,
         Good(opts[r.tab]) /\ r.op = "register" /\ code = 401 => Caused(r.tab, r.nonce)
  PROVE  FairReply(r, Code(code))
<1>1. Code(code) \in Body /\ Code(code).code = code /\ Code(code).nonce = 0
  BY DEF Code, Body
<1> QED BY <1>1 DEF FairReply

\* Spending a nonce, or none.
LEMMA SpentNonces ==
  ASSUME RegisterInv, NEW r \in pending, UNCHANGED <<opts, issued, expired>>,
         UNCHANGED byPeer \/ Consume(opts[r.tab].peer, r.nonce)
  PROVE  /\ NoncesKept(r.nonce) /\ BucketInv' /\ byPeer' \in [Peer -> SUBSET Nat]
         /\ issued' \in Seq(Peer) /\ expired' \in Nat
<1>1. /\ r.tab \in Tab /\ opts[r.tab].peer \in Peer /\ byPeer \in [Peer -> SUBSET Nat]
      /\ issued' \in Seq(Peer) /\ expired' \in Nat
  BY DEF RegisterInv, RegisterTypes, Request
<1>2. CASE UNCHANGED byPeer
  BY <1>1, <1>2, SameNonces
<1>3. CASE Consume(opts[r.tab].peer, r.nonce)
  <2>1. byPeer' \in [Peer -> SUBSET Nat]
    BY <1>1, <1>3 DEF Consume
  <2> QED BY <2>1, <1>1, <1>3, ConsumeNonce
<1> QED BY <1>2, <1>3

\* The handler, one case per way it ends.
LEMMA HandleStep ==
  ASSUME RegisterConstants, RegisterInv, NEW r \in pending, Handle(r)
  PROVE  RegisterInv'
<1>1. pending' = pending \ {r} /\ UNCHANGED opts
  BY DEF Handle
<1>2. /\ r.tab \in Tab /\ opts[r.tab].peer \in Peer /\ r.anchor \in Nat
      /\ r.op \in {"challenge", "register", "unregister"}
  BY DEF RegisterInv, RegisterTypes, Request
<1>3. Good(opts[r.tab]) => Sound(r) /\ opts[r.tab].cnf = "device" /\ opts[r.tab].pop = "key"
  BY DEF Good, Sound, InScope
<1>4. ASSUME UNCHANGED <<issued, expired>>, UNCHANGED byPeer \/ Consume(opts[r.tab].peer, r.nonce),
             UNCHANGED client \/ \E body : Reply(r, body) /\ FairReply(r, body)
      PROVE  RegisterInv'
  BY <1>1, <1>4, SpentNonces, HandleKeeps
<1>5. CASE Unavailable(r)
  <2>1. UNCHANGED client \/ Reply(r, Code(503))
    BY <1>5 DEF Unavailable
  <2>2. FairReply(r, Code(503))
    BY CodeFair
  <2> QED BY <1>4, <1>5, <2>1, <2>2 DEF Unavailable, plugin
<1>6. ASSUME Refuse(r), UNCHANGED byPeer \/ Consume(opts[r.tab].peer, r.nonce),
             Good(opts[r.tab]) => r.op # "challenge" /\ (r.op = "register" => Caused(r.tab, r.nonce))
      PROVE  RegisterInv'
  <2>1. UNCHANGED client \/ Reply(r, Code(401))
    BY <1>6 DEF Refuse
  <2>2. FairReply(r, Code(401))
    BY <1>6, CodeFair
  <2> QED BY <1>4, <1>6, <2>1, <2>2 DEF Refuse
<1>7. CASE Refused(r)
  BY <1>3, <1>6, <1>7 DEF Refused
<1>8. CASE Challenged(r)
  <2> DEFINE body == [code |-> 200, nonce |-> Len(issued) + 1, anchor |-> 0]
  <2>1. /\ NoncesKept(0) /\ BucketInv' /\ issued' \in Seq(Peer) /\ Len(issued') = Len(issued) + 1
        /\ \A n \in Nat : n = Len(issued) + 1 => Kept(r.tab, n)'
    BY <1>1, <1>2, <1>8, IssueNonce DEF Challenged
  <2>2. Len(issued) \in Nat /\ expired' = expired /\ expired \in Nat
    BY <1>8 DEF RegisterInv, RegisterTypes, Challenged, Issue
  <2>3. byPeer' \in [Peer -> SUBSET Nat]
    <3>1. byPeer \in [Peer -> SUBSET Nat]
      BY DEF RegisterInv, RegisterTypes
    <3>2. \A q \in Peer : Room(Live(byPeer[q])) \subseteq Nat /\ Live(byPeer[q]) \subseteq Nat
      BY <3>1 DEF Room, Live
    <3> QED BY <3>2, <2>2, <1>8 DEF Challenged, Issue
  <2>4. NoncesKept(r.nonce)
    BY <2>1 DEF NoncesKept, Kept
  <2>5. body \in Body /\ body.nonce = Len(issued) + 1 /\ body.code = 200
    BY <2>2 DEF Body
  <2>6. Reply(r, body) /\ r.op = "challenge"
    BY <1>8 DEF Challenged
  <2> HIDE DEF body
  <2>7. FairReply(r, body)
    BY <2>1, <2>2, <2>5, <2>6 DEF FairReply
  <2> QED BY <1>1, <2>1, <2>2, <2>3, <2>4, <2>6, <2>7, HandleKeeps
<1>9. CASE OldProtocol(r)
  <2>1. FairReply(r, Code(426))
    BY <1>9, CodeFair DEF OldProtocol
  <2> QED BY <1>4, <1>9, <2>1 DEF OldProtocol, plugin
<1>10. CASE Unproven(r)
  <2>1. CASE opts[r.tab].pop = "none" /\ Refuse(r) /\ UNCHANGED byPeer
    BY <2>1, <1>3, <1>6
  <2>2. CASE /\ ~Holds(opts[r.tab].peer, r.nonce) \/ r.nonce <= expired
             /\ Refuse(r) /\ Consume(opts[r.tab].peer, r.nonce)
    <3>1. Good(opts[r.tab]) /\ r.op = "register" => Caused(r.tab, r.nonce)
      BY <2>2 DEF RegisterInv, NonceInv, RequestInv, Kept, Caused
    <3> QED BY <3>1, <2>2, <1>6, <1>10 DEF Unproven
  <2> QED BY <1>10, <2>1, <2>2 DEF Unproven
<1>11. Proven(r) => UNCHANGED byPeer \/ Consume(opts[r.tab].peer, r.nonce)
  BY DEF Proven
<1>12. CASE Unregistered(r)
  BY <1>4, <1>11, <1>12 DEF Unregistered
<1>13. CASE NoDevice(r)
  BY <1>3, <1>6, <1>11, <1>13 DEF NoDevice
<1>14. CASE Admitted(r)
  <2>1. FairReply(r, Code(500)) /\ FairReply(r, Code(507))
    BY <1>14, CodeFair DEF Admitted
  <2>2. FairReply(r, Wrapped(r))
    <3>1. Wrapped(r) \in Body /\ Wrapped(r).code = 200 /\ Wrapped(r).nonce = 0 /\ Wrapped(r).anchor = r.anchor
      BY <1>2 DEF Wrapped, Body
    <3> QED BY <3>1, <1>14 DEF FairReply, Admitted
  <2>3. \E body \in {Code(500), Code(507), Wrapped(r)} : Reply(r, body)
    BY <1>14 DEF Admitted
  <2>4. \E body : Reply(r, body) /\ FairReply(r, body)
    BY <2>1, <2>2, <2>3
  <2>5. UNCHANGED <<issued, expired>> /\ Proven(r)
    BY <1>14 DEF Admitted
  <2> QED BY <1>4, <1>11, <2>4, <2>5
<1> QED BY <1>5, <1>7, <1>8, <1>9, <1>10, <1>12, <1>13, <1>14 DEF Handle

\* The tab's own steps.
LEMMA ClientStep ==
  ASSUME RegisterInv, NEW t \in Tab,
         \/ Connect(t) \/ Timeout(t) \/ ChallengeAnswered(t) \/ RegisterAnswered(t)
         \/ Leave(t) \/ LeaveAnswered(t) \/ Reload(t)
  PROVE  RegisterInv'
<1>1. UNCHANGED <<opts, byPeer, issued, expired>>
  BY DEF Connect, Timeout, ChallengeAnswered, RegisterAnswered, Leave, LeaveAnswered, Reload, Rest, plugin
<1>2. /\ tab[t].try \in Nat /\ tab[t].anchor \in Nat /\ tab[t].nonce \in Nat
      /\ inbox[t] # None => inbox[t] \in Body /\ inbox[t].nonce \in Nat
  BY DEF RegisterInv, RegisterTypes, TabState, Body
<1>3. ASSUME NEW try \in Nat, Challenge(t, try) PROVE RegisterInv'
  BY <1>1, <1>3, AskKeeps DEF Challenge
<1>4. ASSUME Becomes(t, "idle") PROVE RegisterInv'
  BY <1>1, <1>4, BecomesKeeps
<1>5. ASSUME Retry(t) PROVE RegisterInv'
  BY <1>2, <1>3, <1>4, <1>5 DEF Retry
<1>6. CASE Connect(t)
  BY <1>3, <1>6 DEF Connect
<1>7. CASE Timeout(t)
  BY <1>4, <1>5, <1>7 DEF Timeout
<1>8. CASE ChallengeAnswered(t)
  <2>1. CASE inbox[t].nonce # 0 /\ Ask(t, "register", tab[t].try, tab[t].anchor, "register", inbox[t].nonce)
    BY <1>1, <1>2, <1>8, <2>1, AskKeeps DEF ChallengeAnswered, Answered
  <2>2. CASE inbox[t].code \notin {200, 503} /\ Becomes(t, "refused")
    <3>1. ~Good(opts[t])
      BY <1>8, <2>2 DEF ChallengeAnswered, Answered, RegisterInv, NonceInv, InboxInv
    <3> QED BY <1>1, <2>2, <3>1, BecomesKeeps
  <2> QED BY <1>5, <1>8, <2>1, <2>2 DEF ChallengeAnswered
<1>9. CASE RegisterAnswered(t)
  <2>1. CASE inbox[t].code = 200 /\ Becomes(t, IF Opens(t) THEN "in" ELSE "broken")
    <3>1. Opens(t)
      BY <1>9, <2>1 DEF RegisterAnswered, Answered, RegisterInv, NonceInv, InboxInv, Opens
    <3> QED BY <1>1, <2>1, <3>1, BecomesKeeps
  <2>2. CASE inbox[t].code = 401 /\ Becomes(t, "refused")
    <3>1. Good(opts[t]) => tab[t].nonce # 0 /\ Caused(t, tab[t].nonce)
      BY <1>9, <2>2 DEF RegisterAnswered, Answered, RegisterInv, NonceInv, InboxInv
    <3> QED BY <1>1, <2>2, <3>1, BecomesKeeps
  <2>3. CASE Becomes(t, "mismatch") \/ Becomes(t, "full") \/ Becomes(t, "server")
    BY <1>1, <2>3, BecomesKeeps
  <2> QED BY <1>5, <1>9, <2>1, <2>2, <2>3 DEF RegisterAnswered
<1>10. CASE Leave(t)
  BY <1>1, <1>10, AskKeeps DEF Leave
<1>11. CASE LeaveAnswered(t)
  <2>1. CASE inbox[t].nonce # 0 /\ Ask(t, "idle", 0, 0, "unregister", inbox[t].nonce)
    BY <1>1, <1>2, <1>11, <2>1, AskKeeps DEF LeaveAnswered, Answered
  <2> QED BY <1>4, <1>11, <2>1 DEF LeaveAnswered
<1>12. CASE Reload(t)
  BY <1>4, <1>12 DEF Reload
<1> QED BY <1>6, <1>7, <1>8, <1>9, <1>10, <1>11, <1>12

\* The clock.
LEMMA ExpireStep == ASSUME RegisterInv, Expire PROVE RegisterInv'
<1>1. UNCHANGED <<opts, tab, inbox, pending, byPeer, issued>> /\ expired' = expired + 1 /\ expired \in Nat
  BY DEF Expire, client, RegisterInv, RegisterTypes
<1>2. NoncesKept(0) /\ BucketInv'
  BY ExpireNonces
<1>3. RegisterTypes'
  BY <1>1 DEF RegisterInv, RegisterTypes
<1>4. \A u \in Tab : Good(opts[u])' <=> Good(opts[u])
  BY <1>1 DEF Good, VerifyJwt, Authentic, WellBound
<1>5. \A r \in pending : r.tab \in Tab /\ r.nonce \in Nat
  BY DEF RegisterInv, RegisterTypes, Request
<1>6. \A u \in Tab : tab[u].nonce \in Nat /\ (inbox[u] # None => inbox[u].nonce \in Nat)
  BY DEF RegisterInv, RegisterTypes, TabState, Body
<1>7. \A u \in Tab : Caused(u, tab[u].nonce) => Caused(u, tab[u].nonce)'
  BY <1>1, <1>6 DEF Caused, Since
<1>8. ASSUME NEW u \in Tab, inbox[u] # None, Kept(u, inbox[u].nonce) PROVE Kept(u, inbox[u].nonce)'
  <2>1. CASE inbox[u].nonce <= expired
    BY <1>1, <1>6, <1>8, <2>1 DEF Kept, Caused
  <2>2. CASE ~(inbox[u].nonce <= expired)
    BY <1>1, <1>6, <1>8, <2>2 DEF Kept, Caused, Since, Holds
  <2> QED BY <2>1, <2>2
<1>9. \A r \in pending : r.nonce # 0 /\ Kept(r.tab, r.nonce) => Kept(r.tab, r.nonce)'
  BY <1>2, <1>5 DEF NoncesKept
<1>10. RequestInv'
  BY <1>1, <1>4, <1>5, <1>9 DEF RegisterInv, NonceInv, RequestInv
<1>11. InboxInv'
  BY <1>1, <1>4, <1>7, <1>8 DEF RegisterInv, NonceInv, InboxInv
<1>12. OnePlace' /\ LockInv'
  BY <1>1, <1>4, <1>7 DEF RegisterInv, NonceInv, OnePlace, LockInv
<1> QED BY <1>2, <1>3, <1>10, <1>11, <1>12 DEF RegisterInv, NonceInv

\* Steps of the transport leave the tabs, the requests and the nonces alone.
LEMMA OtherStep ==
  ASSUME RegisterInv, UNCHANGED <<opts, client, pending, plugin>>
  PROVE  RegisterInv'
<1>1. UNCHANGED <<opts, tab, inbox, pending, byPeer, issued, expired>>
  BY DEF client, plugin
<1>2. RegisterTypes' /\ BucketInv' /\ OnePlace'
  BY <1>1 DEF RegisterInv, RegisterTypes, NonceInv, BucketInv, OnePlace
<1>3. RequestInv'
  BY <1>1 DEF RegisterInv, NonceInv, RequestInv, Good, VerifyJwt, Authentic, WellBound, Kept, Caused, Since, Holds
<1>4. InboxInv'
  <2>1. \A t \in Tab : /\ Kept(t, inbox[t].nonce)' <=> Kept(t, inbox[t].nonce)
                       /\ Caused(t, tab[t].nonce)' <=> Caused(t, tab[t].nonce)
                       /\ Good(opts[t])' <=> Good(opts[t])
    BY <1>1 DEF Good, VerifyJwt, Authentic, WellBound, Kept, Caused, Since, Holds
  <2> QED BY <1>1, <2>1 DEF RegisterInv, NonceInv, InboxInv
<1>5. LockInv'
  BY <1>1 DEF RegisterInv, NonceInv, LockInv, Good, VerifyJwt, Authentic, WellBound, Caused, Since
<1> QED BY <1>2, <1>3, <1>4, <1>5 DEF RegisterInv, NonceInv

\* The inductive invariant of the registration.
JoinInv == HeardInv /\ RegisterInv

\* At first nobody has asked, and only the wildcard is heard.
LEMMA RegisterInitInv == ASSUME RegisterConstants, Init PROVE JoinInv
<1>1. subs = <<>> /\ DOMAIN subs = {} /\ Subs = {} /\ Registered = {}
  BY DEF Init, Subs, Registered
<1>2. HeardInv
  BY <1>1 DEF Init, HeardInv, RegisterConstants
<1>3. RegisterTypes
  <2>1. \A t \in Tab : opts[t].peer \in Peer
    BY DEF Init, RegisterConstants
  <2>2. tab \in [Tab -> TabState]
    BY DEF Init, TabState
  <2> QED BY <2>1, <2>2 DEF Init, RegisterTypes
<1>4. \A t \in Tab : tab[t].pc = "idle" /\ inbox[t] = None
  BY DEF Init
<1>5. NonceInv
  BY <1>4 DEF Init, NonceInv, BucketInv, RequestInv, InboxInv, OnePlace, LockInv
<1> QED BY <1>2, <1>3, <1>5 DEF JoinInv, RegisterInv

\* Whoever leaves the channel and the transport alone changes nothing about who is heard.
LEMMA QuietHeard == ASSUME HeardInv, UNCHANGED <<channel, transport>> PROVE HeardInv'
<1>1. UNCHANGED <<subs, keys, link, table, broker, sidCounter>>
  BY DEF channel, transport
<1> QED BY <1>1 DEF HeardInv, Subs, Registered

\* Every step of the tabs, the plugin and the transport keeps the invariant.
LEMMA RegisterStepInv == ASSUME RegisterConstants, JoinInv, [Next]_vars PROVE JoinInv'
<1> USE DEF JoinInv
<1>1. ASSUME NEW t \in Tab,
             \/ Connect(t) \/ Timeout(t) \/ ChallengeAnswered(t) \/ RegisterAnswered(t)
             \/ Leave(t) \/ LeaveAnswered(t) \/ Reload(t)
      PROVE  JoinInv'
  <2>1. UNCHANGED <<channel, transport>>
    BY <1>1 DEF Connect, Timeout, ChallengeAnswered, RegisterAnswered, Leave, LeaveAnswered, Reload, Rest
  <2> QED BY <1>1, <2>1, ClientStep, QuietHeard
<1>2. ASSUME NEW r \in pending, Handle(r) PROVE JoinInv'
  <2>1. opts[r.tab].peer \in Peer
    BY DEF RegisterInv, RegisterTypes, Request
  <2>2. CASE UNCHANGED <<channel, transport>>
    BY <2>2, <1>2, QuietHeard, HandleStep
  <2>3. CASE Unregistered(r)
    BY <2>1, <2>3, <1>2, UnregisterHeard, HandleStep DEF Unregistered
  <2>4. CASE Admitted(r)
    <3>1. CASE link # "closed" /\ \E why \in {"ok", "failed"} : RegisterPeer(opts[r.tab].peer, why)
      BY <2>1, <3>1, <1>2, RegisterHeard, HandleStep
    <3> QED BY <2>2, <2>4, <3>1 DEF Admitted
  <2> QED
    BY <2>2, <2>3, <2>4, <1>2
    DEF Handle, Unavailable, Refused, Refuse, Challenged, OldProtocol, Unproven, NoDevice
<1>3. CASE Expire
  BY <1>3, ExpireStep, QuietHeard DEF Expire
<1>4. ASSUME UNCHANGED <<opts, client, pending, plugin>>, UNCHANGED <<subs, keys, table, sidCounter>>,
             \/ link' \in {"down", "opening"} /\ broker' = {} /\ link # "closed"
             \/ link = "down" /\ link' = "opening" /\ UNCHANGED broker
             \/ link = "opening" /\ link' = "up" /\ broker' = broker \cup table
      PROVE  JoinInv'
  <2>1. Subs' = Subs /\ Registered' = Registered
    BY <1>4 DEF Subs, Registered
  <2>2. HeardInv'
    BY <2>1, <1>4 DEF HeardInv
  <2> QED BY <2>2, <1>4, OtherStep
<1>5. CASE LinkDrops
  BY <1>4, <1>5 DEF LinkDrops, channel
<1>6. CASE Dial
  BY <1>4, <1>6 DEF Dial, channel
<1>7. CASE DialFails
  BY <1>4, <1>7 DEF DialFails, channel
<1>8. CASE Established
  BY <1>4, <1>8 DEF Established, channel
<1>9. CASE Dispose
  <2>1. subs' = <<>> /\ Subs' = {} /\ Registered' = {}
    BY <1>9 DEF Dispose, Subs, Registered
  <2>2. HeardInv'
    BY <2>1, <1>9 DEF Dispose, HeardInv, RegisterConstants
  <2> QED BY <2>2, <1>9, OtherStep DEF Dispose
<1>10. CASE UNCHANGED vars
  BY <1>10, OtherStep, QuietHeard DEF vars
<1> QED BY <1>1, <1>2, <1>3, <1>5, <1>6, <1>7, <1>8, <1>9, <1>10 DEF Next

\* The invariant says what LockedOutForCause says.
LEMMA LockInvImplies == ASSUME RegisterInv PROVE LockedOutForCause
<1>1. \A t \in Tab, n \in Nat : Caused(t, n) =>
        \/ n <= expired
        \/ Cardinality({m \in DOMAIN issued : m > n /\ issued[m] = opts[t].peer}) >= MaxNonces
  BY DEF Caused, Since
<1>2. \A t \in Tab : tab[t].nonce \in Nat
  BY DEF RegisterInv, RegisterTypes, TabState
<1> QED BY <1>1, <1>2 DEF RegisterInv, NonceInv, LockInv, LockedOutForCause

\* nats-channel.ts, nats-transport.ts: across admissions, evictions, departures,
\* redials and disposal the channel's keys, its subscriptions, the transport's table
\* and (while the link is up) the server name the same peers, at most MaxPeers.
THEOREM EveryoneHeard == JoinSpec => []Tables
<1> RegisterConstants
  BY RegisterAssumption
<1>1. JoinInit => JoinInv
  BY RegisterInitInv DEF JoinInit
<1>2. JoinInv /\ [JoinNext]_joinVars => JoinInv'
  <2>1. [JoinNext]_joinVars => [Next]_vars
    BY DEF JoinNext, joinVars
  <2> QED BY <2>1, RegisterStepInv
<1>3. JoinInv => Tables
  BY HeardImplies DEF JoinInv
<1> QED BY <1>1, <1>2, <1>3, PTL DEF JoinSpec

\* pop-register.ts, pop-challenge.ts: a tab with a good token is refused only if its
\* nonce expired or its own user asked for MaxNonces challenges since, and a key it
\* is given opens, however late an earlier request is answered.
THEOREM LockedOutOnlyForCause == JoinSpec => []LockedOutForCause
<1> RegisterConstants
  BY RegisterAssumption
<1>1. JoinInit => JoinInv
  BY RegisterInitInv DEF JoinInit
<1>2. JoinInv /\ [JoinNext]_joinVars => JoinInv'
  <2>1. [JoinNext]_joinVars => [Next]_vars
    BY DEF JoinNext, joinVars
  <2> QED BY <2>1, RegisterStepInv
<1>3. JoinInv => LockedOutForCause
  BY LockInvImplies DEF JoinInv
<1> QED BY <1>1, <1>2, <1>3, PTL DEF JoinSpec
=============================================================================
