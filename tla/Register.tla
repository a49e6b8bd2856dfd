------------------------------ MODULE Register ------------------------------
(***************************************************************************)
(* How a browser tab joins a conversation: registerWithPop in the client   *)
(* (packages/client/src/pop-register.ts), the register handler of the      *)
(* account (packages/plugin/src/nats-register.ts), its store of challenges *)
(* (pop-challenge.ts), and the encrypted channel it admits the peer to     *)
(* (nats-channel.ts) over a transport that is lost and dialled again       *)
(* (nats-transport.ts).                                                    *)
(*                                                                         *)
(* Tabs of one user share a peer.  A request is answered on an inbox of    *)
(* its own; a tab gives up on a slow answer and starts over, while the     *)
(* handler, which awaits the token's verification, goes on with the old    *)
(* request whenever that returns.                                          *)
(***************************************************************************)
EXTENDS Integers, Sequences, FiniteSets, SequencesExt

CONSTANTS
  Tab,         \* browser tabs
  Peer,        \* peer ids
  Start,       \* initial settings: records of the tabs' options (opts, with a peer
               \* id and a token's claims each), the account's requirePoP and the
               \* peers whose keys are stored
  Tries,       \* retries + 1
  MaxNonces,   \* maxNoncesPerPeer
  MaxPeers,    \* the channel's peer cap
  MaxKeys,     \* capacity of the conversation-key store
  MaxIssued,   \* bound: challenges issued
  MaxSeq,      \* bound: the requests of each tab
  MaxDrops     \* bound: losses of the link, the account's disposal included

VARIABLES
  opts,     \* the options of each tab
  requirePoP,  \* accountAuth.requirePoP
  tab,      \* registerWithPop and unregisterWithPop, per tab
  inbox,    \* the reply on its way to a tab's current inbox, or None
  pending,  \* requests under way to the plugin or in its verification
  byPeer,   \* PopChallengeStore: the nonces of each peer (a nonce is its number: a smaller
            \* one is older)
  issued,   \* the peer each nonce was issued to
  expired,  \* nonces up to this one have outlived their TTL
  stored,   \* peers the key store has a conversation key for, those of the past included
  subs,     \* NatsChannel.peerSubscriptions, oldest first
  keys,     \* the peers of NatsChannel.peerSessionKeys
  link,     \* the transport: "up", "down", "opening" (socket open), "closed"
  table,    \* NatsTransport.subs: pairs of a subject and its sid
  broker,   \* the subscriptions the NATS server holds for this connection
  sidCounter,  \* NatsTransport.sidCounter: sids are never used again
  drops     \* how often the link was lost

client == <<tab, inbox>>
plugin == <<byPeer, issued, expired, stored>>
channel == <<subs, keys>>
transport == <<link, table, broker, sidCounter>>
vars == <<opts, requirePoP, client, pending, plugin, channel, transport, drops>>

None == [none |-> TRUE]

\* The register wildcard's subscription.
Wild == <<"*.register", 1>>

\* There is room for a peer and for a nonce; tabs have peer ids of the account, and
\* none of these is the wildcard.
RegisterConstants ==
  /\ MaxPeers \in Nat \ {0}
  /\ MaxNonces \in Nat \ {0}
  /\ Wild[1] \notin Peer
  /\ \A s \in Start : s.opts = [t \in Tab |-> s.opts[t]] /\ \A t \in Tab : s.opts[t].peer \in Peer
ASSUME RegisterAssumption == RegisterConstants

Init ==
  /\ \E s \in Start : opts = s.opts /\ requirePoP = s.requirePoP /\ stored = s.stored
  /\ tab = [t \in Tab |-> [pc |-> "idle", try |-> 0, seq |-> 0, anchor |-> 0, nonce |-> 0]]
  /\ inbox = [t \in Tab |-> None]
  /\ pending = {}
  /\ byPeer = [p \in Peer |-> {}]
  /\ issued = <<>>
  /\ expired = 0
  /\ subs = <<>>
  /\ keys = {}
  /\ link = "up"
  /\ table = {Wild}
  /\ broker = {Wild}
  /\ sidCounter = 1
  /\ drops = 0

-----------------------------------------------------------------------------
(* The client *)

\* request: publish with a fresh reply inbox; the server drops it when the
\* plugin is not subscribed.  The anchor (clientNonce) is minted per attempt.
Ask(t, pc, try, anchor, op, nonce) ==
  LET seq == tab[t].seq + 1
      cn == IF anchor = 0 THEN seq ELSE anchor
  IN /\ seq <= MaxSeq[t]
     /\ tab' = [tab EXCEPT ![t] =
                  [pc |-> pc, try |-> try, seq |-> seq, anchor |-> cn, nonce |-> nonce]]
     /\ inbox' = [inbox EXCEPT ![t] = None]
     /\ pending' = pending \cup
          {x \in {[tab |-> t, seq |-> seq, op |-> op, nonce |-> nonce, anchor |-> cn]} : Wild \in broker}

Becomes(t, pc) ==
  /\ tab' = [tab EXCEPT ![t] = [pc |-> pc, try |-> 0, seq |-> tab[t].seq, anchor |-> 0,
                                 nonce |-> IF pc = "refused" THEN tab[t].nonce ELSE 0]]
  /\ inbox' = [inbox EXCEPT ![t] = None]
  /\ UNCHANGED pending

Challenge(t, try) == Ask(t, "challenge", try, 0, "challenge", 0)

Rest == UNCHANGED <<opts, requirePoP, plugin, channel, transport, drops>>

\* onConnected starts a registration.
Connect(t) == tab[t].pc = "idle" /\ Challenge(t, 1) /\ Rest

\* The attempt ends without an answer to act on: start over, up to Tries;
\* after the last one the client redials.
Retry(t) == IF tab[t].try < Tries THEN Challenge(t, tab[t].try + 1) ELSE Becomes(t, "idle")

Awaiting(t) == tab[t].pc \in {"challenge", "register", "leave"}

Timeout(t) ==
  /\ Awaiting(t)
  /\ IF tab[t].pc = "leave" THEN Becomes(t, "idle") ELSE Retry(t)
  /\ Rest

Answered(t, pc) == tab[t].pc = pc /\ inbox[t] # None

\* The challenge's answer: sign the nonce for "register", or give up for good
\* on any error but 503.
ChallengeAnswered(t) ==
  /\ Answered(t, "challenge")
  /\ \/ /\ inbox[t].code = 200
        /\ IF inbox[t].nonce = 0
             THEN Retry(t)
             ELSE Ask(t, "register", tab[t].try, tab[t].anchor, "register", inbox[t].nonce)
     \/ inbox[t].code = 503 /\ Retry(t)
     \/ inbox[t].code \notin {200, 503} /\ Becomes(t, "refused")
  /\ Rest

\* unwrapConversationKey: what was wrapped opens only under the anchor this
\* attempt minted, never one read from the reply.
Opens(t) == inbox[t].anchor = tab[t].anchor

\* The register answer: a key, 503 to try again, or an end of its own class.
RegisterAnswered(t) ==
  /\ Answered(t, "register")
  /\ LET code == inbox[t].code
     IN \/ code = 200 /\ Becomes(t, IF Opens(t) THEN "in" ELSE "broken")
        \/ code = 503 /\ Retry(t)
        \/ code = 401 /\ Becomes(t, "refused")
        \/ code = 426 /\ Becomes(t, "mismatch")
        \/ code = 507 /\ Becomes(t, "full")
        \/ code = 500 /\ Becomes(t, "server")
  /\ Rest

\* unregisterWithPop: challenge, then one signed publish nobody answers.
Leave(t) == tab[t].pc = "in" /\ Ask(t, "leave", 1, 0, "challenge", 0) /\ Rest

LeaveAnswered(t) ==
  /\ Answered(t, "leave")
  /\ \/ /\ inbox[t].code = 200
        /\ inbox[t].nonce # 0
        /\ Ask(t, "idle", 0, 0, "unregister", inbox[t].nonce)
     \/ /\ inbox[t].code # 200 \/ inbox[t].nonce = 0
        /\ Becomes(t, "idle")
  /\ Rest

\* The tab's own connection is lost, and it will register again.
Reload(t) == tab[t].pc = "in" /\ Becomes(t, "idle") /\ Rest

-----------------------------------------------------------------------------
(* The challenges of an account *)

\* sweep: nonces past their TTL go, whoever they belong to.
Live(bucket) == {n \in bucket : n > expired}

\* Variant: one live challenge per peer.
OnlyNewest(bucket) == {}

\* The bucket with room for one more: the peer's own oldest are evicted.
Room(bucket) == {n \in bucket : Cardinality({m \in bucket : m > n}) < MaxNonces - 1}

Issue(p) ==
  /\ Len(issued) < MaxIssued
  /\ issued' = Append(issued, p)
  /\ byPeer' = [q \in Peer |-> IF q = p THEN Room(Live(byPeer[q])) \cup {Len(issued) + 1}
                               ELSE Live(byPeer[q])]
  /\ UNCHANGED expired

Holds(p, n) == n \in byPeer[p]

\* consume: the nonce is spent, whether or not it is still in time.
Consume(p, n) == byPeer' = [byPeer EXCEPT ![p] = @ \ {n}]

Expire ==
  /\ expired < Len(issued)
  /\ link # "closed"
  /\ expired' = expired + 1
  /\ UNCHANGED <<opts, requirePoP, client, pending, byPeer, issued, stored, channel, transport, drops>>

-----------------------------------------------------------------------------
(* The transport *)

Open == link \in {"up", "opening"}

\* Variant: the table is kept in step with the server only.
UnsubscribedOnline(t, gone) == IF Open THEN t \ gone ELSE t

\* unsubscribe: forgotten at once; the server is told if the socket is open.
Unsubscribed(t, gone) == t \ gone

Heard(gone) ==
  /\ table' = Unsubscribed(table, gone)
  /\ broker' = IF Open THEN broker \ gone ELSE broker

\* subscribe takes the socket as it is, handshake or not: assertOpen.
Sid == sidCounter + 1

LinkDrops ==
  /\ link = "up"
  /\ drops < MaxDrops
  /\ drops' = drops + 1
  /\ link' = "down"
  /\ broker' = {}
  /\ UNCHANGED <<opts, requirePoP, client, pending, plugin, channel, table, sidCounter>>

Dial ==
  /\ link = "down"
  /\ link' = "opening"
  /\ UNCHANGED <<opts, requirePoP, client, pending, plugin, channel, table, broker, drops, sidCounter>>

\* The handshake fails; a frame sent before CONNECT is one cause of it.
DialFails ==
  /\ link = "opening"
  /\ link' = "down"
  /\ broker' = {}
  /\ UNCHANGED <<opts, requirePoP, client, pending, plugin, channel, table, drops, sidCounter>>

\* reconnectOnce: every recorded subscription is sent again.
Established ==
  /\ link = "opening"
  /\ link' = "up"
  /\ broker' = broker \cup table
  /\ UNCHANGED <<opts, requirePoP, client, pending, plugin, channel, table, drops, sidCounter>>

-----------------------------------------------------------------------------
(* The channel *)

Registered == {subs[i][1] : i \in DOMAIN subs}

\* unregisterPeer: the peer's subscription ends if it has one; its key goes anyway.
UnregisterPeer(p) ==
  /\ \/ p \notin Registered /\ UNCHANGED <<subs, table, broker>>
     \/ \E i \in DOMAIN subs :
          /\ subs[i][1] = p
          /\ subs' = RemoveAt(subs, i)
          /\ Heard({subs[i]})
  /\ keys' = keys \ {p}
  /\ UNCHANGED <<link, sidCounter>>

\* How many peers are evicted to admit one more, oldest first.
Excess == IF Len(subs) < MaxPeers THEN 0 ELSE Len(subs) - MaxPeers + 1

\* registerPeer on a peer with a stored key: it ends with why = "ok", or throws.
RegisterPeer(p, why) ==
  \/ /\ p \in Registered
     /\ why = "ok"
     /\ keys' = keys \cup {p}
     /\ UNCHANGED <<subs, transport>>
  \/ /\ p \notin Registered
     /\ why = IF Open THEN "ok" ELSE "failed"
     /\ LET gone == {subs[i] : i \in 1 .. Excess}
            kept == SubSeq(subs, Excess + 1, Len(subs))
            new == IF Open THEN {<<p, Sid>>} ELSE {}
        IN /\ subs' = IF Open THEN Append(kept, <<p, Sid>>) ELSE kept
           /\ keys' = (keys \ {e[1] : e \in gone}) \cup {e[1] : e \in new}
           /\ table' = Unsubscribed(table, gone) \cup new
           /\ broker' = IF Open THEN (broker \ gone) \cup new ELSE broker
           /\ sidCounter' = IF Open THEN Sid ELSE sidCounter
     /\ UNCHANGED link

-----------------------------------------------------------------------------
(* The register handler *)

\* verifyJwt: signed by the issuer for this account, and in time.
Authentic(k) == k.signed /\ k.issuer /\ k.audience /\ ~k.expired

\* verifyJwt: a device or proof key that is there is well formed.
WellBound(k) == k.cnf # "bad" /\ k.pop # "bad"

VerifyJwt(k) == Authentic(k) /\ WellBound(k)

\* The identity is of this tenant and of the peer the subject names.
InScope(r) == opts[r.tab].tenant /\ opts[r.tab].sub = opts[r.tab].peer

Sound(r) == VerifyJwt(opts[r.tab]) /\ InScope(r)

\* The tab still waits on the inbox of this very request.
Awaited(r) == Awaiting(r.tab) /\ tab[r.tab].seq = r.seq

\* reply: published if the socket takes it; an inbox nobody waits on drops it.
Reply(r, body) ==
  /\ inbox' = IF link = "up" /\ Awaited(r) THEN [inbox EXCEPT ![r.tab] = body] ELSE inbox
  /\ UNCHANGED tab

Code(code) == [code |-> code, nonce |-> 0, anchor |-> 0]

\* wrapConversationKeyForDevice: the key, bound to the request's anchor.
Wrapped(r) == [code |-> 200, nonce |-> 0, anchor |-> r.anchor]

\* The key source is unavailable: 503, or silence for an unregister.
Unavailable(r) ==
  /\ IF r.op = "unregister" THEN UNCHANGED client ELSE Reply(r, Code(503))
  /\ UNCHANGED <<plugin, channel, transport>>

Refuse(r) ==
  /\ IF r.op = "unregister" THEN UNCHANGED client ELSE Reply(r, Code(401))
  /\ UNCHANGED <<issued, expired, stored, channel, transport>>

\* verifyIdentity returned, and the token or its scope is refused.
Refused(r) ==
  /\ ~Sound(r)
  /\ Refuse(r)
  /\ UNCHANGED byPeer

\* A challenge: any sound token gets a nonce.
Challenged(r) ==
  /\ Sound(r)
  /\ r.op = "challenge"
  /\ Issue(opts[r.tab].peer)
  /\ Reply(r, [code |-> 200, nonce |-> Len(issued) + 1, anchor |-> 0])
  /\ UNCHANGED <<stored, channel, transport>>

\* The proof of possession: none is asked of a token without a key unless the
\* account requires it; otherwise the nonce must be live, and is spent.
Unproven(r) ==
  /\ Sound(r)
  /\ r.op # "challenge"
  /\ r.op = "register" => opts[r.tab].protocol
  /\ \/ /\ opts[r.tab].pop = "none"
        /\ requirePoP
        /\ Refuse(r)
        /\ UNCHANGED byPeer
     \/ /\ opts[r.tab].pop = "key"
        /\ ~Holds(opts[r.tab].peer, r.nonce) \/ r.nonce <= expired
        /\ Refuse(r)
        /\ Consume(opts[r.tab].peer, r.nonce)

Proven(r) ==
  /\ Sound(r)
  /\ \/ /\ opts[r.tab].pop = "none"
        /\ ~requirePoP
        /\ UNCHANGED byPeer
     \/ /\ opts[r.tab].pop = "key"
        /\ Holds(opts[r.tab].peer, r.nonce)
        /\ r.nonce > expired
        /\ Consume(opts[r.tab].peer, r.nonce)

\* Another protocol version is refused before the proof is looked at.
OldProtocol(r) ==
  /\ Sound(r)
  /\ r.op = "register"
  /\ ~opts[r.tab].protocol
  /\ Reply(r, Code(426))
  /\ UNCHANGED <<plugin, channel, transport>>

Unregistered(r) ==
  /\ r.op = "unregister"
  /\ Proven(r)
  /\ UnregisterPeer(opts[r.tab].peer)
  /\ UNCHANGED <<client, issued, expired, stored>>

\* A proven token without a device key cannot be given the conversation key.
NoDevice(r) ==
  /\ r.op = "register"
  /\ opts[r.tab].protocol
  /\ opts[r.tab].cnf = "none"
  /\ Proven(r)
  /\ Refuse(r)

\* Admission: the key is loaded or made first (507 at the store's capacity, 500
\* on a failure of the disk or of the channel), then the peer is subscribed, the
\* key wrapped for the device under the request's anchor, and the reply sent.
Admitted(r) ==
  /\ r.op = "register"
  /\ opts[r.tab].protocol
  /\ opts[r.tab].cnf = "device"
  /\ Proven(r)
  /\ LET p == opts[r.tab].peer
     IN \/ /\ link = "closed"
           /\ Reply(r, Code(500))
           /\ UNCHANGED <<stored, channel, transport>>
        \/ /\ link # "closed"
           /\ p \notin stored
           /\ Cardinality(stored) >= MaxKeys
           /\ Reply(r, Code(507))
           /\ UNCHANGED <<stored, channel, transport>>
        \/ /\ link # "closed"
           /\ p \in stored \/ Cardinality(stored) < MaxKeys
           /\ stored' = stored \cup {p}
           /\ \E why \in {"ok", "failed"} :
                /\ RegisterPeer(p, why)
                /\ Reply(r, IF why = "ok" THEN Wrapped(r) ELSE Code(500))
        \/ /\ link # "closed"
           /\ p \notin stored
           /\ Reply(r, Code(500))
           /\ UNCHANGED <<stored, channel, transport>>
  /\ UNCHANGED <<issued, expired>>

Handle(r) ==
  /\ \/ Unavailable(r)
     \/ Refused(r)
     \/ Challenged(r)
     \/ OldProtocol(r)
     \/ Unproven(r)
     \/ Unregistered(r)
     \/ NoDevice(r)
     \/ Admitted(r)
  /\ pending' = pending \ {r}
  /\ UNCHANGED <<opts, requirePoP, drops>>

\* dispose: the account's channel and then its transport are closed; requests
\* under verification run on and find them so.
Dispose ==
  /\ link # "closed"
  /\ drops < MaxDrops
  /\ drops' = drops + 1
  /\ link' = "closed"
  /\ subs' = <<>>
  /\ keys' = {}
  /\ table' = {}
  /\ broker' = {}
  /\ UNCHANGED <<opts, requirePoP, client, pending, plugin, sidCounter>>

Next ==
  \/ \E t \in Tab :
       \/ Connect(t)
       \/ Timeout(t)
       \/ ChallengeAnswered(t)
       \/ RegisterAnswered(t)
       \/ Leave(t)
       \/ LeaveAnswered(t)
       \/ Reload(t)
  \/ \E r \in pending : Handle(r)
  \/ Expire
  \/ LinkDrops
  \/ Dial
  \/ DialFails
  \/ Established
  \/ Dispose

Spec == Init /\ [][Next]_vars

-----------------------------------------------------------------------------
(* Properties *)

Good(k) ==
  VerifyJwt(k) /\ k.tenant /\ k.sub = k.peer /\ k.cnf = "device" /\ k.pop = "key"

\* A tab that holds a good token (whose key the issuer publishes) is locked out
\* only for a cause of its own: its proof is refused only if the nonce outlived its TTL or its own user
\* asked for MaxNonces challenges since, and a key it is given always opens,
\* whatever was answered late to an attempt it had given up.
LockedOutForCause ==
  \A t \in Tab : Good(opts[t]) =>
    /\ tab[t].pc # "broken"
    /\ tab[t].pc = "refused" =>
         /\ tab[t].nonce # 0
         /\ \/ tab[t].nonce <= expired
            \/ Cardinality({n \in DOMAIN issued :
                              n > tab[t].nonce /\ issued[n] = opts[t].peer}) >= MaxNonces

\* The channel's session keys, its subscriptions and the transport's table name
\* the same peers, once each, and while the link is up the server holds exactly
\* that table: no peer is heard after it left or was evicted, none is deaf
\* after a redial, and a disposed account hears nobody.
Tables ==
  /\ keys = Registered
  /\ Cardinality(Registered) = Len(subs)
  /\ Len(subs) <= MaxPeers
  /\ table = {subs[i] : i \in DOMAIN subs} \cup (IF link = "closed" THEN {} ELSE {Wild})
  /\ link = "up" => broker = table
-----------------------------------------------------------------------------
=============================================================================
