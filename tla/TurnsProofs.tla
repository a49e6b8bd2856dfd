---------------------------- MODULE TurnsProofs ----------------------------
(***************************************************************************)
(* Who is asked to approve what an agent run does (OriginLease), what the  *)
(* devices of that peer show of it (Approvals), and which turn its tool    *)
(* activity reaches (Turn).                                                *)
(***************************************************************************)
EXTENDS Turns, FiniteSetTheorems, SequenceTheorems, TLAPS

(***************************************************************************)
(* OriginLease.                                                            *)
(***************************************************************************)
OriginTypes ==
    /\ now \in 1..MaxNow /\ barrier \in Nat /\ epoch \in Nat
    /\ handle \in [Run -> {"none", "made", "active", "over"}]
    /\ claims \in [Run -> Nat]
    /\ trusted \in BOOLEAN /\ global \in BOOLEAN
    /\ asked \in SUBSET [run : Run, at : Nat]
\* An active run claims; its claim is of a time that was, or proves nothing.
ClaimInv == \A r \in Run :
    /\ handle[r] = "active" => claims[r] # Origin!NoClaim
    /\ claims[r] <= now \/ claims[r] \in {Origin!Unprovable, Origin!NoClaim}

\* Nothing on the key can be resolved in this epoch.
Closed(k) == global \/ k \in poisoned
\* Two runs of one key and different origins
Rivals(r, x) == r \in Run /\ x \in Run /\ Origin!Key(r) = Origin!Key(x) /\ Origin!Origin(r) # Origin!Origin(x)
\* An overlap is never forgotten while it lasts, not by an eviction either.
OverlapInv ==
    \A r, x \in Run : Rivals(r, x) /\ claims[r] # Origin!NoClaim /\ claims[x] # Origin!NoClaim => Closed(Origin!Key(r))
\* A request is of the past; it is behind the barrier, or the clock misread, or every
\* rival that claimed before it has closed the key.
AskedInv == \A q \in asked :
    /\ q.at <= now
    /\ \/ q.at <= barrier
       \/ ~trusted
       \/ \A x \in Run : Rivals(q.run, x) /\ claims[x] # Origin!NoClaim /\ claims[x] < q.at => Closed(Origin!Key(q.run))
OriginInv == OriginTypes /\ ClaimInv /\ OverlapInv /\ AskedInv

LEMMA OverlapsIfRivals ==
    ASSUME NEW c, NEW r, NEW x, Rivals(r, x), c[r] # Origin!NoClaim, c[x] # Origin!NoClaim
    PROVE  Origin!Overlaps(c, Origin!Key(r))
BY DEF Rivals, Origin!Claimed, Origin!Overlaps

\* poisonKey keeps what was closed closed, and closes what it is given.
LEMMA PoisonCloses ==
    ASSUME NEW ks, NEW p, NEW g \in BOOLEAN, Origin!Poison(ks, p, g)
    PROVE  /\ global' \in BOOLEAN
           /\ \A k : k \in ks \cup p \/ g => Closed(k)'
BY DEF Origin!Poison, Closed

LEMMA OriginInit == ASSUME OriginConstants PROVE Origin!Init => OriginInv
<1> SUFFICES ASSUME Origin!Init PROVE OriginInv
  OBVIOUS
<1>1. OriginTypes
  <2>1. Origin!NoClaim \in Nat /\ 1 \in 1..MaxNow
    BY DEF OriginConstants, Origin!NoClaim
  <2>2. claims \in [Run -> Nat] /\ handle \in [Run -> {"none", "made", "active", "over"}]
    BY <2>1 DEF Origin!Init
  <2> QED  BY <2>1, <2>2 DEF Origin!Init, OriginTypes
<1>2. ClaimInv /\ OverlapInv /\ AskedInv
  BY DEF Origin!Init, ClaimInv, OverlapInv, AskedInv
<1> QED  BY <1>1, <1>2 DEF OriginInv

\* A step that leaves the claims and what is closed as they are
LEMMA QuietStep ==
    ASSUME OriginConstants, OriginInv, OriginTypes', now' >= now, UNCHANGED <<claims, poisoned, global, barrier>>,
           \A r \in Run : handle'[r] = "active" => handle[r] = "active", trusted' => trusted,
           \A q \in asked' : q \in asked
    PROVE  OriginInv'
<1>1. now \in Nat /\ now' \in Nat /\ \A r \in Run : claims[r] \in Nat
  BY DEF OriginInv, OriginTypes, OriginConstants
<1>2. ClaimInv'
  BY <1>1 DEF OriginInv, ClaimInv
<1>3. \A k : Closed(k)' <=> Closed(k)
  BY DEF Closed
<1>4. OverlapInv'
  BY <1>3 DEF OriginInv, OverlapInv
<1>5. AskedInv'
  <2> SUFFICES ASSUME NEW q \in asked' PROVE
        /\ q.at <= now'
        /\ \/ q.at <= barrier'
           \/ ~trusted'
           \/ \A x \in Run : Rivals(q.run, x) /\ claims[x] # Origin!NoClaim /\ claims[x] < q.at => Closed(Origin!Key(q.run))'
    BY DEF AskedInv
  <2>1. q \in asked /\ q.at \in Nat
    BY DEF OriginInv, OriginTypes
  <2> QED  BY <1>1, <1>3, <2>1 DEF OriginInv, AskedInv
<1> QED  BY <1>2, <1>4, <1>5 DEF OriginInv

LEMMA ActivateKeeps ==
    ASSUME OriginConstants, OriginInv, NEW r \in Run, NEW good \in BOOLEAN, Origin!Activate(r, good) PROVE OriginInv'
<1> DEFINE v == IF Origin!Provable(r) /\ good THEN now ELSE Origin!Unprovable
           c == [claims EXCEPT ![r] = v]
<1>1. /\ claims' = c /\ trusted' = (trusted /\ (~Origin!Provable(r) \/ good)) /\ handle' = [handle EXCEPT ![r] = "active"]
      /\ Origin!Poison(IF Origin!Overlaps(c, Origin!Key(r)) THEN {Origin!Key(r)} ELSE {}, poisoned, global)
      /\ UNCHANGED <<now, made, epoch, barrier, asked>>
  BY DEF Origin!Activate
<1>2. /\ now \in 1..MaxNow /\ now \in Nat /\ MaxNow \in Nat /\ claims \in [Run -> Nat] /\ global \in BOOLEAN
      /\ handle \in [Run -> {"none", "made", "active", "over"}] /\ trusted \in BOOLEAN
  BY DEF OriginInv, OriginTypes, OriginConstants
<1>3. v \in {now, Origin!Unprovable} /\ v \in Nat /\ v # Origin!NoClaim /\ v >= now
  BY <1>2 DEF Origin!Unprovable, Origin!NoClaim
<1> HIDE DEF v
<1>4. c \in [Run -> Nat] /\ c[r] = v /\ \A x \in Run \ {r} : c[x] = claims[x]
  BY <1>2, <1>3
<1> HIDE DEF c
<1>5. /\ global' \in BOOLEAN /\ \A k : Closed(k) => Closed(k)'
      /\ Origin!Overlaps(c, Origin!Key(r)) => Closed(Origin!Key(r))'
  <2>1. \A k : k \in (IF Origin!Overlaps(c, Origin!Key(r)) THEN {Origin!Key(r)} ELSE {}) \cup poisoned \/ global => Closed(k)'
    BY <1>1, <1>2, PoisonCloses
  <2>2. \A k : Closed(k) => Closed(k)'
    BY <2>1 DEF Closed
  <2>3. Origin!Overlaps(c, Origin!Key(r)) => Closed(Origin!Key(r))'
    BY <2>1
  <2>4. global' \in BOOLEAN
    BY <1>1, <1>2, PoisonCloses
  <2> QED  BY <2>2, <2>3, <2>4
<1>6. OriginTypes'
  BY <1>1, <1>2, <1>4, <1>5 DEF OriginInv, OriginTypes
<1>7. ClaimInv'
  <2> SUFFICES ASSUME NEW x \in Run
               PROVE  /\ handle'[x] = "active" => c[x] # Origin!NoClaim
                      /\ c[x] <= now \/ c[x] \in {Origin!Unprovable, Origin!NoClaim}
    BY <1>1 DEF ClaimInv
  <2>1. CASE x = r
    BY <1>2, <1>3, <1>4, <2>1
  <2>2. CASE x # r
    BY <1>1, <1>2, <1>4, <2>2 DEF OriginInv, ClaimInv
  <2> QED  BY <2>1, <2>2
<1>8. OverlapInv'
  <2> SUFFICES ASSUME NEW a \in Run, NEW x \in Run, Rivals(a, x), c[a] # Origin!NoClaim, c[x] # Origin!NoClaim
               PROVE  Closed(Origin!Key(a))'
    BY <1>1 DEF OverlapInv
  <2>1. CASE a # r /\ x # r
    BY <1>4, <1>5, <2>1 DEF OriginInv, OverlapInv
  <2>2. CASE a = r
    BY <1>5, <2>2, OverlapsIfRivals
  <2>3. CASE x = r
    <3>1. Rivals(x, a) /\ Origin!Key(a) = Origin!Key(x)
      BY DEF Rivals
    <3> QED  BY <1>5, <2>3, <3>1, OverlapsIfRivals
  <2> QED  BY <2>1, <2>2, <2>3
<1>9. AskedInv'
  <2> SUFFICES ASSUME NEW q \in asked PROVE
        /\ q.at <= now
        /\ \/ q.at <= barrier
           \/ ~trusted'
           \/ \A x \in Run : Rivals(q.run, x) /\ c[x] # Origin!NoClaim /\ c[x] < q.at => Closed(Origin!Key(q.run))'
    BY <1>1 DEF AskedInv
  <2>1. q.at \in Nat /\ q.at <= now
    BY DEF OriginInv, OriginTypes, AskedInv
  <2>2. ~(c[r] < q.at)
    BY <1>2, <1>3, <1>4, <2>1
  <2>3. CASE q.at <= barrier
    BY <2>1, <2>3
  <2>4. CASE ~trusted
    BY <1>1, <2>1, <2>4
  <2>5. CASE \A x \in Run : Rivals(q.run, x) /\ claims[x] # Origin!NoClaim /\ claims[x] < q.at => Closed(Origin!Key(q.run))
    BY <1>4, <1>5, <2>1, <2>2, <2>5
  <2> QED  BY <2>3, <2>4, <2>5 DEF OriginInv, AskedInv
<1> QED  BY <1>6, <1>7, <1>8, <1>9 DEF OriginInv

LEMMA ReleaseKeeps == ASSUME OriginConstants, OriginInv, NEW r \in Run, Origin!Release(r) PROVE OriginInv'
<1>1. /\ handle' = [handle EXCEPT ![r] = "over"] /\ claims' = [claims EXCEPT ![r] = Origin!NoClaim]
      /\ UNCHANGED <<now, made, epoch, barrier, trusted, poisoned, global, asked>>
  BY DEF Origin!Release
<1>2. claims \in [Run -> Nat] /\ Origin!NoClaim \in Nat /\ handle \in [Run -> {"none", "made", "active", "over"}]
  BY DEF OriginInv, OriginTypes, OriginConstants, Origin!NoClaim
<1>3. /\ claims' \in [Run -> Nat] /\ claims'[r] = Origin!NoClaim /\ \A x \in Run \ {r} : claims'[x] = claims[x]
      /\ handle'[r] = "over" /\ \A x \in Run \ {r} : handle'[x] = handle[x]
  BY <1>1, <1>2
<1>4. \A k : Closed(k)' <=> Closed(k)
  BY <1>1 DEF Closed
<1>5. OriginTypes'
  BY <1>1, <1>3, <1>2 DEF OriginInv, OriginTypes
<1>6. ClaimInv'
  BY <1>1, <1>3 DEF OriginInv, ClaimInv
<1>7. OverlapInv'
  BY <1>3, <1>4 DEF OriginInv, OverlapInv
<1>8. AskedInv'
  <2> SUFFICES ASSUME NEW q \in asked PROVE
        /\ q.at <= now
        /\ \/ q.at <= barrier
           \/ ~trusted
           \/ \A x \in Run : Rivals(q.run, x) /\ claims'[x] # Origin!NoClaim /\ claims'[x] < q.at => Closed(Origin!Key(q.run))'
    BY <1>1 DEF AskedInv
  <2> QED  BY <1>3, <1>4 DEF OriginInv, AskedInv
<1> QED  BY <1>5, <1>6, <1>7, <1>8 DEF OriginInv

LEMMA RotateEpochKeeps == ASSUME OriginConstants, OriginInv, NEW good \in BOOLEAN, Origin!RotateEpoch(good) PROVE OriginInv'
<1> DEFINE ks == {k \in {Origin!Key(r) : r \in Run} : Origin!Overlaps(claims, k)}
<1>1. /\ epoch' = epoch + 1 /\ Origin!Poison(ks, {}, FALSE) /\ barrier' = (IF good THEN now ELSE barrier) /\ trusted' = good
      /\ UNCHANGED <<now, handle, made, claims, asked>>
  BY DEF Origin!RotateEpoch, Origin!EstablishBarrier
<1>2. global' \in BOOLEAN /\ \A k : k \in ks => Closed(k)'
  BY <1>1, PoisonCloses
<1>3. now \in Nat /\ barrier \in Nat /\ epoch \in Nat
  BY DEF OriginInv, OriginTypes, OriginConstants
<1>4. OriginTypes'
  BY <1>1, <1>2, <1>3 DEF OriginInv, OriginTypes
<1>5. ClaimInv'
  BY <1>1 DEF OriginInv, ClaimInv
<1>6. OverlapInv'
  <2> SUFFICES ASSUME NEW a \in Run, NEW x \in Run, Rivals(a, x), claims[a] # Origin!NoClaim, claims[x] # Origin!NoClaim
               PROVE  Closed(Origin!Key(a))'
    BY <1>1 DEF OverlapInv
  <2>1. Origin!Overlaps(claims, Origin!Key(a))
    BY OverlapsIfRivals
  <2> QED  BY <1>2, <2>1
<1>7. AskedInv'
  <2> SUFFICES ASSUME NEW q \in asked PROVE q.at <= now /\ (q.at <= barrier' \/ ~trusted')
    BY <1>1 DEF AskedInv
  <2>1. q.at <= now
    BY DEF OriginInv, AskedInv
  <2> QED  BY <1>1, <2>1
<1> QED  BY <1>4, <1>5, <1>6, <1>7 DEF OriginInv

LEMMA AskKeeps == ASSUME OriginConstants, OriginInv, NEW r \in Run, Origin!Ask(r) PROVE OriginInv'
<1>1. /\ handle[r] = "active" /\ asked' = asked \cup {[run |-> r, at |-> now]}
      /\ UNCHANGED <<now, handle, made, claims, epoch, barrier, trusted, poisoned, global>>
  BY DEF Origin!Ask
<1>2. now \in Nat /\ claims[r] # Origin!NoClaim
  BY <1>1 DEF OriginInv, OriginTypes, OriginConstants, ClaimInv
<1>3. \A k : Closed(k)' <=> Closed(k)
  BY <1>1 DEF Closed
<1>4. OriginTypes'
  BY <1>1, <1>2 DEF OriginInv, OriginTypes
<1>5. ClaimInv' /\ OverlapInv'
  BY <1>1, <1>3 DEF OriginInv, ClaimInv, OverlapInv
<1>6. AskedInv'
  <2> SUFFICES ASSUME NEW q \in asked' PROVE
        /\ q.at <= now
        /\ \/ q.at <= barrier
           \/ ~trusted
           \/ \A x \in Run : Rivals(q.run, x) /\ claims[x] # Origin!NoClaim /\ claims[x] < q.at => Closed(Origin!Key(q.run))'
    BY <1>1 DEF AskedInv
  <2>1. CASE q \in asked
    BY <1>3, <2>1 DEF OriginInv, AskedInv
  <2>2. CASE q = [run |-> r, at |-> now]
    BY <1>2, <1>3, <2>2 DEF OriginInv, OverlapInv
  <2> QED  BY <1>1, <2>1, <2>2
<1> QED  BY <1>4, <1>5, <1>6 DEF OriginInv

LEMMA OriginNext == ASSUME OriginConstants, OriginInv, [Origin!Next]_(Origin!vars) PROVE OriginInv'
<1>1. CASE Origin!Tick
  <2>1. OriginTypes' /\ now' >= now
    BY <1>1 DEF Origin!Tick, OriginInv, OriginTypes, OriginConstants
  <2> QED  BY <1>1, <2>1, QuietStep DEF Origin!Tick
<1>2. CASE Origin!BadRead
  <2>1. OriginTypes' /\ now' >= now
    <3>1. trusted' \in BOOLEAN
      BY <1>2 DEF Origin!BadRead
    <3>2. now \in Nat /\ UNCHANGED <<now, handle, made, claims, epoch, barrier, poisoned, global, asked>>
      BY <1>2 DEF Origin!BadRead, OriginInv, OriginTypes, OriginConstants
    <3> QED  BY <3>1, <3>2 DEF OriginInv, OriginTypes
  <2> QED  BY <1>2, <2>1, QuietStep DEF Origin!BadRead
<1>3. ASSUME NEW r \in Run, Origin!CreateLease(r) PROVE OriginInv'
  <2>1. OriginTypes' /\ now' >= now
    <3>1. now \in Nat
      BY DEF OriginInv, OriginTypes, OriginConstants
    <3> QED  BY <1>3, <3>1 DEF Origin!CreateLease, OriginInv, OriginTypes
  <2>2. \A x \in Run : handle'[x] = "active" => handle[x] = "active"
    BY <1>3 DEF Origin!CreateLease, OriginInv, OriginTypes
  <2> QED  BY <1>3, <2>1, <2>2, QuietStep DEF Origin!CreateLease
<1>4. CASE UNCHANGED Origin!vars
  <2>1. OriginTypes' /\ now' >= now
    BY <1>4 DEF Origin!vars, OriginInv, OriginTypes, OriginConstants
  <2> QED  BY <1>4, <2>1, QuietStep DEF Origin!vars
<1> QED
  BY <1>1, <1>2, <1>3, <1>4, ActivateKeeps, RotateEpochKeeps, ReleaseKeeps, AskKeeps DEF Origin!Next

\* ApprovalOriginLeaseRegistry (approval-origin.ts): a request is never shown to a
\* peer other than the one whose run made it, whatever peer the session store names,
\* for every number of runs, of keys and of peers, every cap of poisoned keys, and
\* over rotations and clocks that misread.
THEOREM AskedPeerIsTheRuns == Spec => []OriginIsTheRun
<1> OriginConstants
  BY OriginAssumption
<1> DEFINE OfOrigin == part = "origin" => OriginInv
<1>1. OriginInv => Origin!OriginIsTheRun
  <2> SUFFICES ASSUME OriginInv, NEW q \in asked, NEW stored,
                      NEW z \in Origin!Target(OriginOf(q.run).acct, Origin!Key(q.run), q.at, stored)
               PROVE  z = OriginOf(q.run).peer
    BY DEF Origin!OriginIsTheRun
  <2> DEFINE a == OriginOf(q.run).acct
             k == Origin!Key(q.run)
  <2>1. /\ trusted /\ ~Closed(k) /\ q.at > barrier
        /\ z \in {OriginOf(r).peer : r \in Origin!Eligible(a, k, q.at)}
    BY DEF Origin!Target, Origin!Resolve, Closed
  <2>2. PICK r \in Origin!Eligible(a, k, q.at) : z = OriginOf(r).peer
    BY <2>1
  <2>3. r \in Run /\ q.run \in Run /\ Origin!Key(r) = k /\ OriginOf(r).acct = a /\ claims[r] # Origin!NoClaim /\ claims[r] < q.at
    BY <2>2 DEF Origin!Eligible, Origin!Claimed, OriginInv, OriginTypes
  <2>4. q.at \in Nat /\ barrier \in Nat
    BY DEF OriginInv, OriginTypes
  <2>5. ~Rivals(q.run, r)
    BY <2>1, <2>3, <2>4 DEF OriginInv, AskedInv
  <2>6. Origin!Origin(r) = Origin!Origin(q.run)
    BY <2>3, <2>5 DEF Rivals
  <2> QED  BY <2>2, <2>6 DEF Origin!Origin
<1>2. Init => OfOrigin
  BY OriginInit DEF Init
<1>3. OfOrigin /\ [Next]_vars => OfOrigin'
  <2> SUFFICES ASSUME OfOrigin, [Next]_vars, part' = "origin" PROVE OriginInv'
    OBVIOUS
  <2>1. part = "origin" /\ [Origin!Next]_(Origin!vars)
    BY DEF Next, vars, originVars, Origin!vars
  <2> QED BY <2>1, OriginNext
<1>4. OfOrigin => OriginIsTheRun
  BY <1>1 DEF OriginIsTheRun
<1> QED BY <1>2, <1>3, <1>4, PTL DEF Spec

-----------------------------------------------------------------------------
(***************************************************************************)
(* Approvals.                                                              *)
(***************************************************************************)
Account == UNION {For(i) : i \in Approval}
StoreKey == [acct : Account, id : Approval]
Outcome == [acct : Account, id : Approval, dec : Approve!Verdict]
Frame ==
    [t : {"request"}, id : Approval] \cup [t : {"resolved"}, id : Approval, dec : Approve!Verdict]
    \cup [t : {"snapshot"}, pend : SUBSET Approval, res : SUBSET [id : Approval, dec : Approve!Verdict]]
Card ==
    {Approve!Absent, Approve!Open} \cup [dec : Approve!Verdict, conf : BOOLEAN] \cup {[dec |-> "unknown", conf |-> TRUE]}
ApprovalTypes ==
    /\ core \in [Approval -> {"none", "asked"} \cup Approve!Verdict]
    /\ pending \in Seq(StoreKey) /\ resolved \in Seq(Outcome)
    /\ entries \subseteq [acct : Account, id : Approval, st : {"planned", "delivered"}]
    /\ inbox \in [Device -> Seq(Frame)] /\ on \in [Device -> BOOLEAN]
    /\ cards \in [Device -> [Approval -> Card]]
    /\ wire \subseteq [dev : Device, id : Approval, dec : Approve!Verdict]

\* A store has one entry under a key.
Unique(s) == \A m, n \in DOMAIN s : Approve!KeyOf(s[m]) = Approve!KeyOf(s[n]) => m = n
\* What the gateway will hand back agrees with the stores, unless a cap or an age
\* has interfered; and an outcome on record is the gateway's.
StoreInv ==
    /\ Unique(pending) /\ Unique(resolved)
    /\ \A n \in DOMAIN resolved : resolved[n].dec = core[resolved[n].id]
    /\ \A n \in DOMAIN pending : core[pending[n].id] # "none"
    /\ \A e \in entries : core[e.id] # "none"
    /\ \A e \in entries : Approve!KeyOf(e) \notin gone =>
          /\ Approve!KeyOf(e) \notin Approve!Keys(resolved)
          /\ Approve!KeyOf(e) \in Approve!Keys(pending) <=> e.st = "delivered"
    /\ \A k \in Approve!Keys(pending) \cap Approve!Keys(resolved) : k \in gone

\* How far an approval has come on an account: 0 not delivered, 1 pending, 2 resolved;
\* and how far a frame shows it to have come.
Phase(k, p, r) == IF k \in Approve!Keys(r) THEN 2 ELSE IF k \in Approve!Keys(p) THEN 1 ELSE 0
Concerns(f, i) == f.t = "snapshot" \/ f.id = i
Shown(f, i) ==
    IF f.t = "request" THEN 1
    ELSE IF f.t = "resolved" \/ (\E r \in f.res : r.id = i) THEN 2
    ELSE IF i \in f.pend THEN 1 ELSE 0
\* The outcome that a frame shows is `v'.
Honest(f, i, v) ==
    /\ f.t = "resolved" => f.dec = v
    /\ f.t = "snapshot" => \A r \in f.res : r.id = i => r.dec = v

\* The frames on their way to a device that is on, if `o', tell of approval `i' in its
\* order, never more than is so, which is phase `p' with outcome `v'; and either its
\* card or a frame tells the latest.
About(s, i) == {n \in DOMAIN s : Concerns(s[n], i)}
Informed(c, s, o, p, v, i) ==
    /\ ~o => s = <<>>
    /\ \A n \in About(s, i) : Shown(s[n], i) <= p /\ Honest(s[n], i, v)
    /\ \A m, n \in About(s, i) : m < n => Shown(s[m], i) <= Shown(s[n], i)
    /\ c # Approve!Absent => p # 0 /\ \A n \in About(s, i) : Shown(s[n], i) # 0
    /\ c.conf => c.dec = v
    /\ o /\ p = 1 => c # Approve!Absent \/ \E n \in About(s, i) : Shown(s[n], i) = 1
    /\ o /\ p = 2 => \/ c.conf
                     \/ \E n \in About(s, i) : Shown(s[n], i) = 2
                     \/ c = Approve!Absent /\ \A n \in About(s, i) : Shown(s[n], i) # 1
CardInv ==
    \A d \in Device, i \in Approval : Approve!K(AcctOf(d), i) \notin gone =>
        Informed(cards[d][i], inbox[d], on[d], Phase(Approve!K(AcctOf(d), i), pending, resolved), core[i], i)
ApprovalInv == ApprovalTypes /\ StoreInv /\ CardInv

-----------------------------------------------------------------------------
(***************************************************************************)
(* Stores.                                                                 *)
(***************************************************************************)
\* What is left of a sequence without its element at i.
LEMMA RemoveAtFacts ==
  ASSUME NEW S, NEW s \in Seq(S), NEW i \in 1 .. Len(s)
  PROVE  /\ Approve!RemoveAt(s, i) \in Seq(S)
         /\ Len(Approve!RemoveAt(s, i)) = Len(s) - 1
         /\ \A j \in 1 .. Len(s) - 1 : Approve!RemoveAt(s, i)[j] = IF j < i THEN s[j] ELSE s[j + 1]
<1> DEFINE a == SubSeq(s, 1, i - 1)
           b == SubSeq(s, i + 1, Len(s))
<1>1. Len(s) \in Nat /\ i \in Nat /\ 1 <= i /\ i <= Len(s)
  OBVIOUS
<1>2. a \in Seq(S) /\ Len(a) = i - 1 /\ \A j \in 1 .. i - 1 : a[j] = s[j]
  <2>1. \A j \in 1 .. i - 1 : s[j] \in S
    BY <1>1, ElementOfSeq
  <2> QED BY <1>1, <2>1, SubSeqProperties
<1>3. b \in Seq(S) /\ Len(b) = Len(s) - i /\ \A j \in 1 .. Len(s) - i : b[j] = s[i + j]
  <2>1. \A j \in i + 1 .. Len(s) : s[j] \in S
    BY <1>1, ElementOfSeq
  <2> QED BY <1>1, <2>1, SubSeqProperties
<1> HIDE DEF a, b
<1>4. /\ a \o b \in Seq(S) /\ Len(a \o b) = Len(a) + Len(b)
      /\ \A j \in 1 .. Len(a) + Len(b) : (a \o b)[j] = IF j <= Len(a) THEN a[j] ELSE b[j - Len(a)]
  BY <1>2, <1>3, ConcatProperties
<1>5. \A j \in 1 .. Len(s) - 1 : (a \o b)[j] = IF j < i THEN s[j] ELSE s[j + 1]
  BY <1>1, <1>2, <1>3, <1>4
<1>6. a \o b = Approve!RemoveAt(s, i)
  BY DEF Approve!RemoveAt, a, b
<1> QED BY <1>1, <1>2, <1>3, <1>4, <1>5, <1>6

\* A store without the entry under a key.
Stripped(w, s, ks) ==
    /\ Unique(w) /\ Approve!Keys(w) = Approve!Keys(s) \ ks
    /\ \A n \in DOMAIN w : \E m \in DOMAIN s : w[n] = s[m]
LEMMA WithoutFacts ==
    ASSUME NEW T, NEW s \in Seq(T), Unique(s), NEW k, NEW ks, ks = {k}
    PROVE  Approve!Without(s, ks) \in Seq(T) /\ Stripped(Approve!Without(s, ks), s, ks)
<1>0. PICK w : w = Approve!Without(s, ks)
  OBVIOUS
<1> DEFINE at == {n \in DOMAIN s : Approve!KeyOf(s[n]) \in {k}}
<1>1. CASE at = {}
  <2>1. w = s
    BY <1>0, <1>1 DEF Approve!Without
  <2>2. k \notin Approve!Keys(s)
    BY <1>1 DEF Approve!Keys
  <2> QED BY <1>0, <2>1, <2>2 DEF Stripped
<1>2. CASE at # {}
  <2>1. PICK x : x = CHOOSE n \in at : TRUE
    OBVIOUS
  <2>2. x \in at
    BY <1>2, <2>1
  <2>3. w = Approve!RemoveAt(s, x)
    BY <1>0, <1>2, <2>1 DEF Approve!Without
  <2>4. x \in 1 .. Len(s) /\ Len(s) \in Nat /\ DOMAIN s = 1 .. Len(s) /\ Approve!KeyOf(s[x]) = k
    BY <2>2
  <2> HIDE DEF at
  <2>5. /\ w \in Seq(T) /\ Len(w) = Len(s) - 1
        /\ \A j \in 1 .. Len(s) - 1 : w[j] = IF j < x THEN s[j] ELSE s[j + 1]
    BY <2>3, <2>4, RemoveAtFacts
  <2>6. DOMAIN w = 1 .. Len(s) - 1
    BY <2>4, <2>5
  <2> DEFINE from(n) == IF n < x THEN n ELSE n + 1
  <2>7. ASSUME NEW n \in DOMAIN w PROVE from(n) \in DOMAIN s /\ from(n) # x /\ w[n] = s[from(n)]
    <3>1. n \in 1 .. Len(s) - 1 /\ n \in Nat /\ x \in Nat /\ x <= Len(s)
      BY <2>4, <2>6
    <3>2. w[n] = IF n < x THEN s[n] ELSE s[n + 1]
      BY <2>5, <3>1
    <3>3. from(n) \in 1 .. Len(s) /\ from(n) # x
      BY <2>4, <3>1
    <3>4. w[n] = s[from(n)]
      BY <3>2
    <3> QED BY <2>4, <3>3, <3>4
  <2>8. ASSUME NEW m \in DOMAIN s, m # x PROVE \E n \in DOMAIN w : w[n] = s[m]
    <3>0. m \in Nat /\ m >= 1 /\ m <= Len(s) /\ x \in Nat /\ x >= 1 /\ x <= Len(s)
      BY <2>4
    <3>1. CASE m < x
      <4>0. m \in 1 .. Len(s) - 1
        BY <2>4, <3>0, <3>1
      <4>1. m \in DOMAIN w /\ w[m] = s[m]
        BY <2>5, <2>6, <3>1, <4>0
      <4> QED BY <4>1
    <3>2. CASE m > x
      <4>0. m - 1 \in 1 .. Len(s) - 1 /\ ~(m - 1 < x) /\ (m - 1) + 1 = m
        BY <2>4, <3>0, <3>2
      <4>1. m - 1 \in DOMAIN w /\ w[m - 1] = s[m]
        BY <2>5, <2>6, <4>0
      <4> QED BY <4>1
    <3>3. m < x \/ m > x
      BY <2>8, <3>0
    <3> QED BY <3>1, <3>2, <3>3
  <2>9. Unique(w)
    <3> SUFFICES ASSUME NEW m \in DOMAIN w, NEW n \in DOMAIN w, Approve!KeyOf(w[m]) = Approve!KeyOf(w[n]) PROVE m = n
      BY DEF Unique
    <3>1. from(m) = from(n)
      BY <2>7 DEF Unique
    <3>2. m \in Nat /\ n \in Nat
      BY <2>4, <2>6
    <3> QED BY <2>4, <3>1, <3>2
  <2>10. Approve!Keys(w) = Approve!Keys(s) \ {k}
    <3>1. ASSUME NEW n \in DOMAIN w PROVE Approve!KeyOf(w[n]) \in Approve!Keys(s) \ {k}
      <4>1. Approve!KeyOf(s[from(n)]) # Approve!KeyOf(s[x])
        BY <2>4, <2>7 DEF Unique
      <4> HIDE DEF from
      <4> QED BY <2>4, <2>7, <4>1 DEF Approve!Keys
    <3>2. ASSUME NEW q \in Approve!Keys(s), q # k PROVE q \in Approve!Keys(w)
      <4>1. PICK m \in DOMAIN s : q = Approve!KeyOf(s[m])
        BY DEF Approve!Keys
      <4>2. m # x
        BY <2>4, <3>2, <4>1
      <4>3. PICK n \in DOMAIN w : w[n] = s[m]
        BY <2>8, <4>2
      <4> QED BY <4>1, <4>3 DEF Approve!Keys
    <3> QED BY <3>1, <3>2 DEF Approve!Keys
  <2>11. \A n \in DOMAIN w : \E m \in DOMAIN s : w[n] = s[m]
    BY <2>7
  <2> QED BY <1>0, <2>5, <2>9, <2>10, <2>11 DEF Stripped
<1> QED BY <1>1, <1>2

\* A store with a new entry: the oldest one goes if the store is full.
LEMMA NewestFacts ==
    ASSUME NEW T, NEW s \in Seq(T), Unique(s), NEW e \in T, Approve!KeyOf(e) \notin Approve!Keys(s),
           NEW cap \in Nat \ {0}, NEW w, w = Approve!Newest(s, cap, e)
    PROVE  /\ w \in Seq(T) /\ Unique(w)
           /\ Approve!Keys(w) = (Approve!Keys(s) \ Approve!Pushed(s, cap)) \cup {Approve!KeyOf(e)}
           /\ \A n \in DOMAIN w : w[n] = e \/ \E m \in DOMAIN s : w[n] = s[m]
<1>0. Len(s) \in Nat /\ DOMAIN s = 1 .. Len(s)
  OBVIOUS
<1>1. PICK b : b = IF Len(s) >= cap THEN 1 ELSE 0
  OBVIOUS
<1>2. b \in {0, 1} /\ (b = 1 => s # <<>> /\ Len(s) >= 1)
  BY <1>0, <1>1
<1>3. PICK t : t = IF Len(s) >= cap THEN Tail(s) ELSE s
  OBVIOUS
<1>4. /\ t \in Seq(T) /\ Len(t) = Len(s) - b
      /\ \A n \in 1 .. Len(t) : t[n] = s[n + b]
  BY <1>0, <1>1, <1>2, <1>3
<1>5. w = Append(t, e)
  BY <1>3 DEF Approve!Newest
<1>6. /\ w \in Seq(T) /\ DOMAIN w = 1 .. Len(t) + 1 /\ Len(t) \in Nat /\ w[Len(t) + 1] = e
      /\ \A n \in 1 .. Len(t) : w[n] = s[n + b] /\ n + b \in DOMAIN s
  BY <1>0, <1>2, <1>4, <1>5
<1>7. Approve!Pushed(s, cap) = IF b = 1 THEN {Approve!KeyOf(s[1])} ELSE {}
  BY <1>1 DEF Approve!Pushed
<1>8. Unique(w)
  <2> SUFFICES ASSUME NEW m \in DOMAIN w, NEW n \in DOMAIN w, Approve!KeyOf(w[m]) = Approve!KeyOf(w[n]) PROVE m = n
    BY DEF Unique
  <2>1. \A j \in 1 .. Len(t) : Approve!KeyOf(w[j]) # Approve!KeyOf(e)
    BY <1>6 DEF Approve!Keys
  <2>2. CASE m \in 1 .. Len(t) /\ n \in 1 .. Len(t)
    <3>1. m + b = n + b
      BY <1>6, <2>2 DEF Unique
    <3> QED BY <1>2, <2>2, <3>1
  <2> QED BY <1>6, <2>1, <2>2
<1>9. Approve!Keys(w) = (Approve!Keys(s) \ Approve!Pushed(s, cap)) \cup {Approve!KeyOf(e)}
  <2>1. ASSUME NEW n \in DOMAIN w PROVE Approve!KeyOf(w[n]) \in (Approve!Keys(s) \ Approve!Pushed(s, cap)) \cup {Approve!KeyOf(e)}
    <3>1. CASE n \in 1 .. Len(t)
      <4>1. Approve!KeyOf(w[n]) \in Approve!Keys(s)
        BY <1>6, <3>1 DEF Approve!Keys
      <4>2. b = 1 => Approve!KeyOf(w[n]) # Approve!KeyOf(s[1])
        BY <1>0, <1>2, <1>6, <3>1 DEF Unique
      <4> QED BY <1>7, <4>1, <4>2
    <3>2. CASE n = Len(t) + 1
      BY <1>6, <3>2
    <3> QED BY <1>6, <3>1, <3>2
  <2>2. ASSUME NEW q \in Approve!Keys(s), q \notin Approve!Pushed(s, cap) PROVE q \in Approve!Keys(w)
    <3>1. PICK m \in DOMAIN s : q = Approve!KeyOf(s[m])
      BY DEF Approve!Keys
    <3>2. b = 1 => m # 1
      BY <1>7, <2>2, <3>1
    <3>3. m - b \in 1 .. Len(t) /\ (m - b) + b = m
      BY <1>0, <1>2, <1>4, <3>2
    <3>4. w[m - b] = s[m] /\ m - b \in DOMAIN w
      BY <1>6, <3>3
    <3> QED BY <3>1, <3>4 DEF Approve!Keys
  <2>3. Approve!KeyOf(e) \in Approve!Keys(w)
    <3>1. Len(t) + 1 \in DOMAIN w
      BY <1>6
    <3> QED BY <1>6, <3>1 DEF Approve!Keys
  <2>4. \A q \in Approve!Keys(w) : \E n \in DOMAIN w : q = Approve!KeyOf(w[n])
    BY DEF Approve!Keys
  <2> QED BY <2>1, <2>2, <2>3, <2>4
<1>10. ASSUME NEW n \in DOMAIN w PROVE w[n] = e \/ \E m \in DOMAIN s : w[n] = s[m]
  <2>1. n \in 1 .. Len(t) \/ n = Len(t) + 1
    BY <1>6
  <2> QED BY <1>6, <2>1
<1> QED BY <1>6, <1>8, <1>9, <1>10

-----------------------------------------------------------------------------
(***************************************************************************)
(* What a device knows of one approval.                                    *)
(***************************************************************************)
LEMMA ShownRange == ASSUME NEW f, NEW i PROVE Shown(f, i) \in {0, 1, 2}
BY DEF Shown

\* A frame is sent, which shows how far the approval has come, if it concerns it.
LEMMA InformedOfMore ==
    ASSUME NEW c, NEW s \in Seq(Frame), NEW p \in {0, 1, 2}, NEW q \in {0, 1, 2}, NEW v, NEW i, NEW f \in Frame,
           NEW o \in BOOLEAN, Informed(c, s, o, p, v, i), p <= q,
           Concerns(f, i) => Shown(f, i) = q /\ Honest(f, i, v), ~Concerns(f, i) => p = q /\ o
    PROVE  Informed(c, Append(s, f), TRUE, q, v, i)
<1>1. PICK w : w = Append(s, f)
  OBVIOUS
<1>2. /\ Len(s) \in Nat /\ DOMAIN s = 1 .. Len(s) /\ DOMAIN w = 1 .. Len(s) + 1 /\ w[Len(s) + 1] = f
      /\ \A n \in 1 .. Len(s) : w[n] = s[n]
  BY <1>1
<1>3. \A n \in About(w, i) : (n \in About(s, i) /\ w[n] = s[n]) \/ (n = Len(s) + 1 /\ w[n] = f /\ Concerns(f, i))
  <2> TAKE n \in About(w, i)
  <2>1. n \in DOMAIN w /\ Concerns(w[n], i)
    BY DEF About
  <2>2. n \in 1 .. Len(s) \/ n = Len(s) + 1
    BY <1>2, <2>1
  <2>3. CASE n \in 1 .. Len(s)
    <3>1. n \in DOMAIN s /\ w[n] = s[n]
      BY <1>2, <2>3
    <3> QED BY <2>1, <3>1 DEF About
  <2>4. CASE n = Len(s) + 1
    BY <1>2, <2>1, <2>4
  <2> QED BY <2>2, <2>3, <2>4
<1>4. /\ \A n \in About(s, i) : n \in About(w, i) /\ w[n] = s[n] /\ n \in Nat /\ n <= Len(s)
      /\ Concerns(f, i) => Len(s) + 1 \in About(w, i)
  BY <1>2 DEF About
<1>5. \A n \in About(s, i) : Shown(s[n], i) \in {0, 1, 2}
  BY ShownRange
<1>6. ASSUME NEW n \in About(w, i) PROVE Shown(w[n], i) <= q /\ Honest(w[n], i, v)
  <2>1. CASE n \in About(s, i) /\ w[n] = s[n]
    <3>1. Shown(s[n], i) <= p /\ Honest(s[n], i, v)
      BY <2>1 DEF Informed
    <3>2. Shown(s[n], i) \in {0, 1, 2}
      BY ShownRange
    <3>3. Shown(s[n], i) <= q
      BY <3>1, <3>2
    <3> QED BY <2>1, <3>1, <3>3
  <2>2. CASE w[n] = f /\ Concerns(f, i)
    BY <2>2
  <2> QED BY <1>3, <2>1, <2>2
<1>7. \A m, n \in About(w, i) : m < n => Shown(w[m], i) <= Shown(w[n], i)
  <2> SUFFICES ASSUME NEW m \in About(w, i), NEW n \in About(w, i), m < n PROVE Shown(w[m], i) <= Shown(w[n], i)
    OBVIOUS
  <2>1. CASE n \in About(s, i)
    <3>1. m \in About(s, i)
      BY <1>2, <1>3, <1>4, <2>1
    <3> QED BY <1>4, <2>1, <3>1 DEF Informed
  <2>2. CASE n = Len(s) + 1 /\ w[n] = f /\ Concerns(f, i)
    BY <1>6, <2>2
  <2> QED BY <1>3, <2>1, <2>2
<1>8. c # Approve!Absent => q # 0 /\ \A n \in About(w, i) : Shown(w[n], i) # 0
  BY <1>3 DEF Informed
<1>9. c.conf => c.dec = v
  BY DEF Informed
<1>10. q = 1 => c # Approve!Absent \/ \E n \in About(w, i) : Shown(w[n], i) = 1
  <2>1. CASE Concerns(f, i)
    BY <1>2, <1>4, <2>1
  <2>2. CASE ~Concerns(f, i)
    BY <1>4, <2>2 DEF Informed
  <2> QED BY <2>1, <2>2
<1>11. q = 2 => \/ c.conf
                \/ \E n \in About(w, i) : Shown(w[n], i) = 2
                \/ c = Approve!Absent /\ \A n \in About(w, i) : Shown(w[n], i) # 1
  <2>1. CASE Concerns(f, i)
    BY <1>2, <1>4, <2>1
  <2>2. CASE ~Concerns(f, i)
    <3>1. \A n \in About(w, i) : n \in About(s, i) /\ w[n] = s[n]
      BY <1>3, <2>2
    <3> QED BY <1>4, <2>2, <3>1 DEF Informed
  <2> QED BY <2>1, <2>2
<1>12. Informed(c, w, TRUE, q, v, i)
  BY <1>6, <1>7, <1>8, <1>9, <1>10, <1>11 DEF Informed
<1> QED BY <1>1, <1>12

\* A frame is read: the card becomes b.
LEMMA InformedOnRead ==
    ASSUME NEW c, NEW b, NEW s \in Seq(Frame), s # <<>>, NEW p \in {0, 1, 2}, NEW v, NEW i,
           Informed(c, s, TRUE, p, v, i),
           ~Concerns(Head(s), i) => b = c,
           Concerns(Head(s), i) =>
              /\ Shown(Head(s), i) = 0 => (c = Approve!Absent => b = Approve!Absent)
              /\ Shown(Head(s), i) = 1 => (c = Approve!Absent => b = Approve!Open) /\ (c # Approve!Absent => b = c)
              /\ Shown(Head(s), i) = 2 => (c = Approve!Absent => b = Approve!Absent)
                                          /\ (c # Approve!Absent => b # Approve!Absent /\ b.conf /\ b.dec = v)
    PROVE  Informed(b, Tail(s), TRUE, p, v, i)
<1>1. PICK w : w = Tail(s)
  OBVIOUS
<1>2. /\ Len(s) \in Nat /\ Len(s) >= 1 /\ DOMAIN s = 1 .. Len(s) /\ DOMAIN w = 1 .. Len(s) - 1 /\ Head(s) = s[1]
      /\ \A n \in 1 .. Len(s) - 1 : w[n] = s[n + 1]
  BY <1>1
<1>3. \A n \in About(w, i) : n + 1 \in About(s, i) /\ w[n] = s[n + 1] /\ n \in Nat /\ n + 1 > 1
  BY <1>2 DEF About
<1>4. /\ \A n \in About(s, i) : n = 1 \/ (n - 1 \in About(w, i) /\ w[n - 1] = s[n])
      /\ Concerns(Head(s), i) <=> 1 \in About(s, i)
  BY <1>2 DEF About
<1>5. \A n : Shown(s[n], i) \in {0, 1, 2}
  BY ShownRange
<1>6. \A n \in About(w, i) : Shown(w[n], i) <= p /\ Honest(w[n], i, v)
  BY <1>3 DEF Informed
<1>7. \A m, n \in About(w, i) : m < n => Shown(w[m], i) <= Shown(w[n], i)
  <2> SUFFICES ASSUME NEW m \in About(w, i), NEW n \in About(w, i), m < n PROVE Shown(w[m], i) <= Shown(w[n], i)
    OBVIOUS
  <2>1. m + 1 \in About(s, i) /\ n + 1 \in About(s, i) /\ m + 1 < n + 1 /\ w[m] = s[m + 1] /\ w[n] = s[n + 1]
    BY <1>3
  <2> QED BY <2>1 DEF Informed
\* What is read first shows no more than what is read later.
<1>8. 1 \in About(s, i) => \A n \in About(w, i) : Shown(s[1], i) <= Shown(w[n], i)
  BY <1>3 DEF Informed
<1>9. 1 \in About(s, i) => Shown(s[1], i) <= p
  BY DEF Informed
<1>10. Approve!Open # Approve!Absent /\ ~Approve!Open.conf /\ ~Approve!Absent.conf
  BY DEF Approve!Open, Approve!Absent
<1>11. b # Approve!Absent => p # 0 /\ \A n \in About(w, i) : Shown(w[n], i) # 0
  <2>1. CASE c # Approve!Absent
    BY <1>3, <2>1 DEF Informed
  <2>2. CASE c = Approve!Absent /\ b # Approve!Absent
    <3>1. 1 \in About(s, i) /\ Shown(s[1], i) = 1
      BY <1>2, <1>4, <1>5, <2>2
    <3> QED BY <1>8, <1>9, <3>1, ShownRange
  <2> QED BY <2>1, <2>2
<1>12. b.conf => b.dec = v
  <2>1. CASE b = c
    BY <2>1 DEF Informed
  <2>2. CASE b # c
    BY <1>2, <1>4, <1>5, <1>10, <2>2 DEF Informed
  <2> QED BY <2>1, <2>2
<1>13. p = 1 => b # Approve!Absent \/ \E n \in About(w, i) : Shown(w[n], i) = 1
  <2> SUFFICES ASSUME p = 1, b = Approve!Absent PROVE \E n \in About(w, i) : Shown(w[n], i) = 1
    OBVIOUS
  <2>1. c = Approve!Absent
    <3>1. 1 \in About(s, i) => Shown(s[1], i) # 0 \/ c = Approve!Absent
      BY DEF Informed
    <3> QED BY <1>2, <1>4, <1>5, <3>1
  <2>2. PICK n \in About(s, i) : Shown(s[n], i) = 1
    BY <2>1 DEF Informed
  <2>3. n # 1
    BY <1>2, <1>4, <1>10, <2>1, <2>2
  <2> QED BY <1>4, <2>2, <2>3
<1>14. p = 2 => \/ b.conf
                \/ \E n \in About(w, i) : Shown(w[n], i) = 2
                \/ b = Approve!Absent /\ \A n \in About(w, i) : Shown(w[n], i) # 1
  <2> SUFFICES ASSUME p = 2, ~b.conf, \A n \in About(w, i) : Shown(w[n], i) # 2
               PROVE  b = Approve!Absent /\ \A n \in About(w, i) : Shown(w[n], i) # 1
    OBVIOUS
  <2>1. CASE 1 \in About(s, i) /\ Shown(s[1], i) = 2
    <3>1. b = Approve!Absent
      BY <1>2, <1>4, <2>1
    <3>2. \A n \in About(w, i) : Shown(w[n], i) # 1
      BY <1>8, <2>1
    <3> QED BY <3>1, <3>2
  <2>2. CASE ~(1 \in About(s, i) /\ Shown(s[1], i) = 2)
    <3>1. \A n \in About(s, i) : Shown(s[n], i) # 2
      BY <1>4, <2>2
    <3>2. ~c.conf
      <4>1. CASE c = Approve!Absent
        BY <1>10, <4>1
      <4>2. CASE c # Approve!Absent
        <5>1. 1 \in About(s, i) => Shown(s[1], i) = 1
          BY <1>5, <2>2, <4>2 DEF Informed
        <5>2. b = c
          BY <1>2, <1>4, <4>2, <5>1
        <5> QED BY <5>2
      <4> QED BY <4>1, <4>2
    <3>3. c = Approve!Absent /\ \A n \in About(s, i) : Shown(s[n], i) # 1
      BY <3>1, <3>2 DEF Informed
    <3>4. b = Approve!Absent
      BY <1>2, <1>4, <1>5, <2>2, <3>3
    <3> QED BY <1>3, <3>3, <3>4
  <2> QED BY <2>1, <2>2
<1>15. Informed(b, w, TRUE, p, v, i)
  BY <1>6, <1>7, <1>11, <1>12, <1>13, <1>14 DEF Informed
<1> QED BY <1>1, <1>15

\* A device that is away learns later how far an approval has come.
LEMMA InformedAway ==
    ASSUME NEW c, NEW s, NEW p \in {0, 1, 2}, NEW q \in {0, 1, 2}, NEW v, NEW i, Informed(c, s, FALSE, p, v, i), p <= q
    PROVE  Informed(c, s, FALSE, q, v, i)
<1>1. s = <<>> /\ About(s, i) = {}
  BY DEF Informed, About
<1> QED BY <1>1 DEF Informed

\* It goes away: what was on its way is lost.
LEMMA InformedLeaving ==
    ASSUME NEW c, NEW b, NEW s, NEW o, NEW p, NEW v, NEW i, Informed(c, s, o, p, v, i), b = c \/ b = Approve!Absent
    PROVE  Informed(b, <<>>, FALSE, p, v, i)
<1>1. PICK w : w = <<>>
  OBVIOUS
<1>2. About(w, i) = {}
  BY <1>1 DEF About
<1>3. ~Approve!Absent.conf
  BY DEF Approve!Absent
<1>4. (b # Approve!Absent => p # 0) /\ (b.conf => b.dec = v)
  BY <1>3 DEF Informed
<1>5. Informed(b, w, FALSE, p, v, i)
  BY <1>1, <1>2, <1>4 DEF Informed
<1> QED BY <1>1, <1>5

\* The user decides on an open card.
LEMMA InformedDeciding ==
    ASSUME NEW s, NEW o, NEW p, NEW v, NEW i, Informed(Approve!Open, s, o, p, v, i), NEW b, b # Approve!Absent, ~b.conf
    PROVE  Informed(b, s, o, p, v, i)
<1>1. Approve!Open # Approve!Absent /\ ~Approve!Open.conf
  BY DEF Approve!Open, Approve!Absent
<1> QED BY <1>1 DEF Informed

\* No frame and no card tells of an outcome before the gateway has one.
LEMMA InformedUndecided ==
    ASSUME NEW c \in Card, NEW s \in Seq(Frame), NEW o, NEW p, NEW v \in {"none", "asked"}, NEW u, NEW i,
           Informed(c, s, o, p, v, i)
    PROVE  Informed(c, s, o, p, u, i)
<1>1. ~c.conf
  <2>1. c.conf => c.dec \in {"allow", "deny", "unknown"}
    BY DEF Card, Approve!Absent, Approve!Open, Approve!Verdict
  <2> QED BY <2>1 DEF Informed
<1>2. ASSUME NEW n \in About(s, i) PROVE Honest(s[n], i, u)
  <2>1. s[n] \in Frame /\ Honest(s[n], i, v)
    BY DEF About, Informed
  <2>2. s[n].t # "resolved"
    BY <2>1 DEF Honest, Frame, Approve!Verdict
  <2>3. ASSUME s[n].t = "snapshot", NEW r \in s[n].res, r.id = i PROVE FALSE
    <3>1. r.dec \in Approve!Verdict
      BY <2>1, <2>3 DEF Frame
    <3> QED BY <2>1, <2>3, <3>1 DEF Honest, Approve!Verdict
  <2> QED BY <2>2, <2>3 DEF Honest
<1> QED BY <1>1, <1>2 DEF Informed

LEMMA PhaseRange == ASSUME NEW k, NEW p, NEW r PROVE Phase(k, p, r) \in {0, 1, 2}
BY DEF Phase

-----------------------------------------------------------------------------
(***************************************************************************)
(* The steps of the gateway.                                               *)
(***************************************************************************)
\* Keys of entries, and what the stores hold under them.
LEMMA KeyFields ==
    ASSUME NEW a, NEW i, NEW e, e.acct = a, e.id = i
    PROVE  Approve!KeyOf(e) = Approve!K(a, i) /\ Approve!K(a, i).acct = a /\ Approve!K(a, i).id = i
BY DEF Approve!KeyOf, Approve!K

\* The elements of the stores.
LEMMA StoreElements ==
    ASSUME ApprovalTypes
    PROVE  /\ \A n \in DOMAIN pending : pending[n] \in StoreKey /\ pending[n].id \in Approval
           /\ \A n \in DOMAIN resolved :
                resolved[n] \in Outcome /\ resolved[n].id \in Approval /\ resolved[n].dec \in Approve!Verdict
<1>1. \A n \in DOMAIN pending : pending[n] \in StoreKey
  <2>1. pending \in Seq(StoreKey)
    BY DEF ApprovalTypes
  <2> QED BY <2>1, ElementOfSeq
<1>2. \A n \in DOMAIN resolved : resolved[n] \in Outcome
  <2>1. resolved \in Seq(Outcome)
    BY DEF ApprovalTypes
  <2> QED BY <2>1, ElementOfSeq
<1> QED BY <1>1, <1>2 DEF StoreKey, Outcome

LEMMA ApprovalInit ==
    ASSUME Approve!Init PROVE ApprovalInv
<1> USE DEF Approve!Init
<1>1. ApprovalTypes
  BY DEF ApprovalTypes, Card
<1>2. Approve!Keys(pending) = {} /\ Approve!Keys(resolved) = {}
  BY DEF Approve!Keys
<1>3. StoreInv
  BY <1>2 DEF StoreInv, Unique
<1>4. ASSUME NEW d \in Device, NEW i \in Approval
      PROVE  Informed(cards[d][i], inbox[d], on[d], Phase(Approve!K(AcctOf(d), i), pending, resolved), core[i], i)
  <2>1. cards[d][i] = Approve!Absent /\ inbox[d] = <<>> /\ on[d] = FALSE /\ ~Approve!Absent.conf
    BY DEF Approve!Absent
  <2>2. PICK w : w = inbox[d]
    OBVIOUS
  <2>3. About(w, i) = {}
    BY <2>1, <2>2 DEF About
  <2>4. Informed(Approve!Absent, w, FALSE, Phase(Approve!K(AcctOf(d), i), pending, resolved), core[i], i)
    BY <2>1, <2>2, <2>3 DEF Informed
  <2> QED BY <2>1, <2>2, <2>4
<1>5. CardInv
  BY <1>4 DEF CardInv
<1> QED BY <1>1, <1>3, <1>5 DEF ApprovalInv

\* The stores, the frames and the cards stay; the gateway's state of one approval,
\* which has no outcome yet, changes.
LEMMA CardsOfUndecided ==
    ASSUME ApprovalTypes, CardInv, UNCHANGED <<pending, resolved, inbox, on, cards, gone>>,
           NEW x \in Approval, core[x] \in {"none", "asked"}, NEW v, core' = [core EXCEPT ![x] = v]
    PROVE  CardInv'
<1> SUFFICES ASSUME NEW d \in Device, NEW i \in Approval, Approve!K(AcctOf(d), i) \notin gone
             PROVE  Informed(cards[d][i], inbox[d], on[d], Phase(Approve!K(AcctOf(d), i), pending, resolved), core'[i], i)
  BY DEF CardInv, Phase, Approve!Keys
<1>1. Informed(cards[d][i], inbox[d], on[d], Phase(Approve!K(AcctOf(d), i), pending, resolved), core[i], i)
  BY DEF CardInv
<1>2. CASE i = x
  <2>1. cards[d][i] \in Card /\ inbox[d] \in Seq(Frame)
    BY DEF ApprovalTypes
  <2> QED BY <1>1, <1>2, <2>1, InformedUndecided
<1>3. CASE i # x
  BY <1>1, <1>3 DEF ApprovalTypes
<1> QED BY <1>2, <1>3

LEMMA AsksKeeps ==
    ASSUME ApprovalInv, NEW x \in Approval, Approve!Asks(x) PROVE ApprovalInv'
<1> USE DEF ApprovalInv
<1>0. ApprovalTypes /\ StoreInv /\ CardInv /\ core[x] = "none"
  BY DEF Approve!Asks
<1>1. CardInv'
  BY <1>0, CardsOfUndecided DEF Approve!Asks
<1>2. core' \in [Approval -> {"none", "asked"} \cup Approve!Verdict]
  BY <1>0 DEF ApprovalTypes, Approve!Asks
<1>3. entries' \subseteq [acct : Account, id : Approval, st : {"planned", "delivered"}]
  <2>1. \A a \in For(x) : a \in Account
    BY DEF Account
  <2> QED BY <1>0, <2>1 DEF ApprovalTypes, Approve!Asks
<1>4. ApprovalTypes'
  BY <1>0, <1>2, <1>3 DEF ApprovalTypes, Approve!Asks
<1>5. \A i \in Approval : core'[i] # "none" <=> core[i] # "none" \/ i = x
  BY <1>0 DEF ApprovalTypes, Approve!Asks
<1>6. \A n \in DOMAIN resolved : resolved[n].id \in Approval /\ resolved[n].dec \in Approve!Verdict
  BY <1>0, StoreElements
<1>7. \A n \in DOMAIN resolved : resolved[n].id # x
  BY <1>0, <1>6 DEF StoreInv, Approve!Verdict
<1>8. \A n \in DOMAIN resolved : resolved[n].dec = core'[resolved[n].id]
  BY <1>0, <1>6, <1>7 DEF StoreInv, ApprovalTypes, Approve!Asks
<1>9. \A n \in DOMAIN pending : core'[pending[n].id] # "none" /\ pending[n].id # x
  <2>1. \A n \in DOMAIN pending : pending[n].id \in Approval
    BY <1>0, StoreElements
  <2> QED BY <1>0, <1>5, <2>1 DEF StoreInv
<1>10. \A e \in entries' : core'[e.id] # "none"
  BY <1>0, <1>3, <1>5 DEF StoreInv, Approve!Asks
<1>11. ASSUME NEW e \in entries', Approve!KeyOf(e) \notin gone
       PROVE  /\ Approve!KeyOf(e) \notin Approve!Keys(resolved)
              /\ Approve!KeyOf(e) \in Approve!Keys(pending) <=> e.st = "delivered"
  <2>1. CASE e \in entries
    BY <1>0, <1>11, <2>1 DEF StoreInv
  <2>2. CASE e \notin entries
    <3>1. e.id = x /\ e.st = "planned"
      BY <2>2 DEF Approve!Asks
    <3>2. Approve!KeyOf(e).id = x
      BY <3>1 DEF Approve!KeyOf, Approve!K
    <3>3. \A n \in DOMAIN resolved : Approve!KeyOf(resolved[n]).id # x
      BY <1>7 DEF Approve!KeyOf, Approve!K
    <3>4. \A n \in DOMAIN pending : Approve!KeyOf(pending[n]).id # x
      BY <1>9 DEF Approve!KeyOf, Approve!K
    <3>5. Approve!KeyOf(e) \notin Approve!Keys(resolved) /\ Approve!KeyOf(e) \notin Approve!Keys(pending)
      BY <3>2, <3>3, <3>4 DEF Approve!Keys
    <3> QED BY <3>1, <3>5
  <2> QED BY <2>1, <2>2
<1>12. UNCHANGED <<pending, resolved, gone>>
  BY DEF Approve!Asks
<1>13. Approve!Keys(pending') = Approve!Keys(pending) /\ Approve!Keys(resolved') = Approve!Keys(resolved)
  BY <1>12
<1>14. StoreInv'
  BY <1>0, <1>8, <1>9, <1>10, <1>11, <1>12, <1>13 DEF StoreInv, Unique
<1> QED BY <1>1, <1>4, <1>14

\* The gateway gets its outcome, from an expiry or a decision.
LEMMA OutcomeKeeps ==
    ASSUME ApprovalInv, UNCHANGED <<bound, pending, resolved, entries, inbox, on, synced, cards, left, gone>>,
           NEW x \in Approval, core[x] = "asked", NEW v \in Approve!Verdict, core' = [core EXCEPT ![x] = v], wire' \subseteq wire
    PROVE  ApprovalInv'
<1> USE DEF ApprovalInv
<1>0. ApprovalTypes /\ StoreInv /\ CardInv
  OBVIOUS
<1>1. CardInv'
  BY <1>0, CardsOfUndecided
<1>2. core' \in [Approval -> {"none", "asked"} \cup Approve!Verdict]
  BY <1>0 DEF ApprovalTypes
<1>4. ApprovalTypes'
  BY <1>0, <1>2 DEF ApprovalTypes
<1>5. \A i \in Approval : core'[i] # "none" <=> core[i] # "none"
  BY <1>0 DEF ApprovalTypes, Approve!Verdict
<1>6. \A n \in DOMAIN resolved : resolved[n].id \in Approval /\ resolved[n].dec \in Approve!Verdict
  BY <1>0, StoreElements
<1>7. \A n \in DOMAIN resolved : resolved[n].id # x
  BY <1>0, <1>6 DEF StoreInv, Approve!Verdict
<1>8. \A n \in DOMAIN resolved : resolved[n].dec = core'[resolved[n].id]
  BY <1>0, <1>6, <1>7 DEF StoreInv, ApprovalTypes
<1>9. \A n \in DOMAIN pending : core'[pending[n].id] # "none"
  <2>1. \A n \in DOMAIN pending : pending[n].id \in Approval
    BY <1>0, StoreElements
  <2> QED BY <1>0, <1>5, <2>1 DEF StoreInv
<1>10. \A e \in entries : core'[e.id] # "none"
  BY <1>0, <1>5 DEF StoreInv, ApprovalTypes
<1>13. Approve!Keys(pending') = Approve!Keys(pending) /\ Approve!Keys(resolved') = Approve!Keys(resolved)
  OBVIOUS
<1>14. StoreInv'
  BY <1>0, <1>8, <1>9, <1>10, <1>13 DEF StoreInv, Unique
<1> QED BY <1>1, <1>4, <1>14

\* Steps that change neither the stores nor the devices.
LEMMA QuietKeeps ==
    ASSUME ApprovalInv, UNCHANGED <<core, pending, resolved, entries, inbox, on, cards, gone>>, wire' \subseteq wire
    PROVE  ApprovalInv'
<1> USE DEF ApprovalInv
<1>1. ApprovalTypes'
  BY DEF ApprovalTypes
<1>2. StoreInv'
  BY DEF StoreInv, Unique, Approve!Keys
<1>3. CardInv'
  BY DEF CardInv, Phase, Approve!Keys
<1> QED BY <1>1, <1>2, <1>3

LEMMA GatewayKeeps ==
    ASSUME ApprovalInv, \/ \E i \in Approval : Approve!Expires(i)
                        \/ \E m \in wire : Approve!HandleApprovalDecision(m) \/ Approve!DecisionLost(m)
    PROVE  ApprovalInv'
<1>1. ASSUME NEW i \in Approval, Approve!Expires(i) PROVE ApprovalInv'
  <2>1. "deny" \in Approve!Verdict
    BY DEF Approve!Verdict
  <2> QED BY <1>1, <2>1, OutcomeKeeps DEF Approve!Expires
<1>2. ASSUME NEW m \in wire, Approve!HandleApprovalDecision(m) PROVE ApprovalInv'
  <2>1. m.id \in Approval /\ m.dec \in Approve!Verdict
    BY DEF ApprovalInv, ApprovalTypes
  <2>2. CASE Approve!MayResolve(m) /\ core[m.id] = "asked"
    <3>1. core' = [core EXCEPT ![m.id] = m.dec] /\ wire' \subseteq wire
      BY <1>2, <2>2 DEF Approve!HandleApprovalDecision
    <3> QED BY <1>2, <2>1, <2>2, <3>1, OutcomeKeeps DEF Approve!HandleApprovalDecision
  <2>3. CASE ~(Approve!MayResolve(m) /\ core[m.id] = "asked")
    BY <1>2, <2>3, QuietKeeps DEF Approve!HandleApprovalDecision
  <2> QED BY <2>2, <2>3
<1>3. ASSUME NEW m \in wire, Approve!DecisionLost(m) PROVE ApprovalInv'
  BY <1>3, QuietKeeps DEF Approve!DecisionLost
<1> QED BY <1>1, <1>2, <1>3

LEMMA MonitorStopsKeeps ==
    ASSUME ApprovalInv, NEW a, Approve!MonitorStops(a) PROVE ApprovalInv'
<1> USE DEF ApprovalInv
<1>1. ApprovalTypes'
  BY DEF ApprovalTypes, Approve!MonitorStops
<1>2. entries' \subseteq entries /\ gone \subseteq gone' /\ UNCHANGED <<core, pending, resolved, inbox, on, cards>>
  BY DEF Approve!MonitorStops
<1>3. StoreInv'
  BY <1>2 DEF StoreInv, Unique, Approve!Keys
<1>4. CardInv'
  BY <1>2 DEF CardInv, Phase, Approve!Keys
<1> QED BY <1>1, <1>3, <1>4

-----------------------------------------------------------------------------
(***************************************************************************)
(* The steps of a device.                                                  *)
(***************************************************************************)
\* The stores and the gateway stay; the card, the frames and the state of one device
\* change in a way that keeps it informed.
LEMMA DeviceKeeps ==
    ASSUME ApprovalInv, NEW d \in Device, UNCHANGED <<core, bound, pending, resolved, entries, gone>>,
           NEW c \in [Approval -> Card], NEW s \in Seq(Frame), NEW o \in BOOLEAN,
           cards' = [cards EXCEPT ![d] = c], inbox' = [inbox EXCEPT ![d] = s], on' = [on EXCEPT ![d] = o],
           wire' \subseteq [dev : Device, id : Approval, dec : Approve!Verdict],
           \A i \in Approval : Approve!K(AcctOf(d), i) \notin gone =>
              Informed(c[i], s, o, Phase(Approve!K(AcctOf(d), i), pending, resolved), core[i], i)
    PROVE  ApprovalInv'
<1> USE DEF ApprovalInv
<1>1. ApprovalTypes'
  BY DEF ApprovalTypes
<1>2. StoreInv'
  BY DEF StoreInv, Unique, Approve!Keys
<1>3. ASSUME NEW x \in Device, NEW i \in Approval, Approve!K(AcctOf(x), i) \notin gone
      PROVE  Informed(cards'[x][i], inbox'[x], on'[x], Phase(Approve!K(AcctOf(x), i), pending, resolved), core[i], i)
  <2>1. CASE x = d
    <3>1. cards'[x][i] = c[i] /\ inbox'[x] = s /\ on'[x] = o
      BY <2>1 DEF ApprovalTypes
    <3> QED BY <1>3, <2>1, <3>1
  <2>2. CASE x # d
    <3>1. cards'[x][i] = cards[x][i] /\ inbox'[x] = inbox[x] /\ on'[x] = on[x]
      BY <2>2 DEF ApprovalTypes
    <3> QED BY <1>3, <2>2, <3>1 DEF CardInv
  <2> QED BY <2>1, <2>2
<1>4. CardInv'
  BY <1>3 DEF CardInv, Phase, Approve!Keys
<1> QED BY <1>1, <1>2, <1>4

LEMMA LeavesKeeps ==
    ASSUME ApprovalInv, NEW d \in Device, NEW r \in BOOLEAN, Approve!Leaves(d, r) PROVE ApprovalInv'
<1> USE DEF ApprovalInv
<1>1. PICK c : c = IF r THEN [i \in Approval |-> Approve!Absent] ELSE cards[d]
  OBVIOUS
<1>2. c \in [Approval -> Card] /\ \A i \in Approval : c[i] = cards[d][i] \/ c[i] = Approve!Absent
  BY <1>1 DEF ApprovalTypes, Card
<1>3. cards' = [cards EXCEPT ![d] = c]
  BY <1>1 DEF ApprovalTypes, Approve!Leaves
<1>4. ASSUME NEW i \in Approval, Approve!K(AcctOf(d), i) \notin gone
      PROVE  Informed(c[i], <<>>, FALSE, Phase(Approve!K(AcctOf(d), i), pending, resolved), core[i], i)
  <2>1. Informed(cards[d][i], inbox[d], on[d], Phase(Approve!K(AcctOf(d), i), pending, resolved), core[i], i)
    BY <1>4 DEF CardInv
  <2> QED BY <1>2, <2>1, InformedLeaving
<1>5. PICK s : s = <<>>
  OBVIOUS
<1>6. s \in Seq(Frame)
  BY <1>5
<1>7. inbox' = [inbox EXCEPT ![d] = s] /\ on' = [on EXCEPT ![d] = FALSE]
  BY <1>5 DEF Approve!Leaves
<1>8. wire' \subseteq [dev : Device, id : Approval, dec : Approve!Verdict]
  BY DEF Approve!Leaves, ApprovalTypes
<1>9. ASSUME NEW i \in Approval, Approve!K(AcctOf(d), i) \notin gone
      PROVE  Informed(c[i], s, FALSE, Phase(Approve!K(AcctOf(d), i), pending, resolved), core[i], i)
  BY <1>4, <1>5, <1>9
<1>10. UNCHANGED <<core, bound, pending, resolved, entries, gone>>
  BY DEF Approve!Leaves
<1> QED BY <1>2, <1>3, <1>6, <1>7, <1>8, <1>9, <1>10, DeviceKeeps

LEMMA DecideKeeps ==
    ASSUME ApprovalInv, NEW d \in Device, NEW x \in Approval, NEW v \in Approve!Verdict, Approve!Decide(d, x, v)
    PROVE  ApprovalInv'
<1> USE DEF ApprovalInv
<1>1. cards[d][x] \in Card /\ cards[d][x].dec = "open"
  BY DEF ApprovalTypes, Approve!Decide
<1>2. cards[d][x] = Approve!Open
  <2>1. \A q \in [dec : Approve!Verdict, conf : BOOLEAN] : q.dec # "open"
    BY DEF Approve!Verdict
  <2>2. Approve!Absent.dec # "open" /\ [dec |-> "unknown", conf |-> TRUE].dec # "open"
    BY DEF Approve!Absent
  <2> QED BY <1>1, <2>1, <2>2 DEF Card
<1>3. PICK b : b = [dec |-> v, conf |-> FALSE]
  OBVIOUS
<1>4. b \in Card /\ b # Approve!Absent /\ ~b.conf
  BY <1>3 DEF Card, Approve!Absent, Approve!Verdict
<1>5. PICK c : c = [cards[d] EXCEPT ![x] = b]
  OBVIOUS
<1>6. c \in [Approval -> Card] /\ \A i \in Approval : c[i] = IF i = x THEN b ELSE cards[d][i]
  BY <1>4, <1>5 DEF ApprovalTypes
<1>7. cards' = [cards EXCEPT ![d] = c]
  <2>1. [cards[d][x] EXCEPT !.dec = v] = b
    <3> DEFINE R == [dec : Approve!Verdict \cup {"open"}, conf : BOOLEAN]
    <3>1. cards[d][x] \in R /\ ~cards[d][x].conf
      BY <1>2 DEF Approve!Open
    <3>2. PICK w : w = [cards[d][x] EXCEPT !.dec = v]
      OBVIOUS
    <3>3. w \in R /\ w.dec = v /\ w.conf = cards[d][x].conf
      BY <3>1, <3>2
    <3>4. b \in R /\ b.dec = v /\ b.conf = FALSE
      BY <1>3
    <3>5. w = b
      BY <3>1, <3>3, <3>4
    <3> QED BY <3>2, <3>5
  <2>2. cards' = [cards EXCEPT ![d][x].dec = v]
    BY DEF Approve!Decide
  <2>3. cards' = [cards EXCEPT ![d] = [cards[d] EXCEPT ![x] = [cards[d][x] EXCEPT !.dec = v]]]
    BY <2>2
  <2> QED BY <1>5, <2>1, <2>3
<1>8. wire' \subseteq [dev : Device, id : Approval, dec : Approve!Verdict]
  BY DEF Approve!Decide, ApprovalTypes
<1>9. inbox' = [inbox EXCEPT ![d] = inbox[d]] /\ on' = [on EXCEPT ![d] = on[d]]
  BY DEF Approve!Decide, ApprovalTypes
<1>10. inbox[d] \in Seq(Frame) /\ on[d] \in BOOLEAN
  BY DEF ApprovalTypes
<1>11. ASSUME NEW i \in Approval, Approve!K(AcctOf(d), i) \notin gone
       PROVE  Informed(c[i], inbox[d], on[d], Phase(Approve!K(AcctOf(d), i), pending, resolved), core[i], i)
  <2>1. Informed(cards[d][i], inbox[d], on[d], Phase(Approve!K(AcctOf(d), i), pending, resolved), core[i], i)
    BY <1>11 DEF CardInv
  <2>2. CASE i = x
    BY <1>2, <1>4, <1>6, <2>1, <2>2, InformedDeciding
  <2>3. CASE i # x
    BY <1>6, <2>1, <2>3
  <2> QED BY <2>2, <2>3
<1>12. UNCHANGED <<core, bound, pending, resolved, entries, gone>>
  BY DEF Approve!Decide
<1> QED BY <1>6, <1>7, <1>8, <1>9, <1>10, <1>11, <1>12, DeviceKeeps

\* What reading frame f makes of card c, b, when it tells of an approval with outcome v.
Read(b, c, f, i, v) ==
    /\ ~Concerns(f, i) => b = c
    /\ Concerns(f, i) =>
        /\ Shown(f, i) = 0 => (c = Approve!Absent => b = Approve!Absent)
        /\ Shown(f, i) = 1 => (c = Approve!Absent => b = Approve!Open) /\ (c # Approve!Absent => b = c)
        /\ Shown(f, i) = 2 => (c = Approve!Absent => b = Approve!Absent)
                              /\ (c # Approve!Absent => b # Approve!Absent /\ b.conf /\ b.dec = v)

\* A device reads a frame.
LEMMA ReadKeeps ==
    ASSUME ApprovalInv, NEW d \in Device, NEW t, Approve!Receives(d, t), NEW c \in [Approval -> Card],
           cards' = [cards EXCEPT ![d] = c], wire' \subseteq [dev : Device, id : Approval, dec : Approve!Verdict],
           \A i \in Approval :
              (Concerns(Head(inbox[d]), i) => Honest(Head(inbox[d]), i, core[i]))
              /\ (cards[d][i].conf => cards[d][i].dec = core[i])
              => Read(c[i], cards[d][i], Head(inbox[d]), i, core[i])
    PROVE  ApprovalInv'
<1> USE DEF ApprovalInv
<1>1. PICK s : s = inbox[d]
  OBVIOUS
<1>2. s \in Seq(Frame) /\ s # <<>> /\ on[d] \in BOOLEAN
  BY <1>1 DEF Approve!Receives, ApprovalTypes
<1>3. PICK w : w = Tail(s)
  OBVIOUS
<1>4. w \in Seq(Frame)
  BY <1>2, <1>3
<1>5. inbox' = [inbox EXCEPT ![d] = w] /\ on' = [on EXCEPT ![d] = on[d]]
  BY <1>1, <1>3 DEF Approve!Receives, ApprovalTypes
<1>6. UNCHANGED <<core, bound, pending, resolved, entries, gone>>
  BY DEF Approve!Receives
<1>7. ASSUME NEW i \in Approval, Approve!K(AcctOf(d), i) \notin gone
      PROVE  Informed(c[i], w, on[d], Phase(Approve!K(AcctOf(d), i), pending, resolved), core[i], i)
  <2>1. PICK p : p = Phase(Approve!K(AcctOf(d), i), pending, resolved)
    OBVIOUS
  <2>2. p \in {0, 1, 2}
    BY <2>1, PhaseRange
  <2>3. Informed(cards[d][i], s, on[d], p, core[i], i)
    BY <1>1, <1>7, <2>1 DEF CardInv
  <2>4. on[d] = TRUE
    BY <1>2, <2>3 DEF Informed
  <2>5. Concerns(Head(s), i) => Honest(Head(s), i, core[i])
    <3>1. 1 \in DOMAIN s /\ Head(s) = s[1]
      BY <1>2
    <3> QED BY <2>3, <3>1 DEF Informed, About
  <2>6. Read(c[i], cards[d][i], Head(s), i, core[i])
    <3>1. cards[d][i].conf => cards[d][i].dec = core[i]
      BY <2>3 DEF Informed
    <3> QED BY <1>1, <2>5, <3>1
  <2>7. PICK x, y, v : x = cards[d][i] /\ y = c[i] /\ v = core[i]
    OBVIOUS
  <2>8. Informed(x, s, TRUE, p, v, i)
    BY <2>3, <2>4, <2>7
  <2>9. Informed(y, Tail(s), TRUE, p, v, i)
    <3>1. Read(y, x, Head(s), i, v)
      BY <2>6, <2>7
    <3> QED BY <1>2, <2>2, <2>8, <3>1, InformedOnRead DEF Read
  <2> QED BY <1>3, <2>1, <2>4, <2>7, <2>9
<1> QED BY <1>2, <1>4, <1>5, <1>6, <1>7, DeviceKeeps

\* The next frame of a device.
LEMMA NextFrame ==
    ASSUME ApprovalInv, NEW d \in Device, NEW t, Approve!Receives(d, t)
    PROVE  Head(inbox[d]) \in Frame /\ Head(inbox[d]).t = t
<1>1. inbox[d] \in Seq(Frame) /\ inbox[d] # <<>>
  BY DEF ApprovalInv, ApprovalTypes, Approve!Receives
<1> QED BY <1>1 DEF Approve!Receives

LEMMA CardFacts ==
    /\ Approve!Open \in Card /\ Approve!Open # Approve!Absent /\ ~Approve!Open.conf /\ ~Approve!Absent.conf
    /\ \A c \in Card : /\ c.dec = "absent" <=> c = Approve!Absent
                       /\ c.dec = "open" <=> c = Approve!Open
                       /\ c.dec \in {"absent", "open"} \/ c.conf \/ (c.dec \in Approve!Verdict /\ c.conf = FALSE)
    /\ \A v \in Approve!Verdict \cup {"unknown"} : /\ [dec |-> v, conf |-> TRUE] \in Card
                                             /\ [dec |-> v, conf |-> TRUE] # Approve!Absent
<1>1. Approve!Open \in Card /\ Approve!Open # Approve!Absent /\ ~Approve!Open.conf /\ ~Approve!Absent.conf
  BY DEF Approve!Open, Approve!Absent, Card
<1>2. Approve!Open.dec = "open" /\ Approve!Absent.dec = "absent"
  BY DEF Approve!Open, Approve!Absent
<1>3. ASSUME NEW c \in Card
      PROVE  /\ c.dec = "absent" <=> c = Approve!Absent
             /\ c.dec = "open" <=> c = Approve!Open
             /\ c.dec \in {"absent", "open"} \/ c.conf \/ (c.dec \in Approve!Verdict /\ c.conf = FALSE)
  <2>1. CASE c \in [dec : Approve!Verdict, conf : BOOLEAN]
    <3>1. c.dec \in {"allow", "deny"} /\ c.conf \in BOOLEAN
      BY <2>1 DEF Approve!Verdict
    <3> QED BY <1>2, <2>1, <3>1
  <2>2. CASE c = [dec |-> "unknown", conf |-> TRUE]
    <3>1. c.dec = "unknown" /\ c.conf
      BY <2>2
    <3> QED BY <1>2, <3>1
  <2>3. CASE c = Approve!Absent
    BY <1>1, <1>2, <2>3
  <2>4. CASE c = Approve!Open
    BY <1>1, <1>2, <2>4
  <2> QED BY <2>1, <2>2, <2>3, <2>4 DEF Card
<1>4. ASSUME NEW v \in Approve!Verdict \cup {"unknown"}
      PROVE  [dec |-> v, conf |-> TRUE] \in Card /\ [dec |-> v, conf |-> TRUE] # Approve!Absent
  BY DEF Card, Approve!Absent
<1> QED BY <1>1, <1>3, <1>4

LEMMA OnRequestKeeps ==
    ASSUME ApprovalInv, NEW d \in Device, Approve!OnRequest(d) PROVE ApprovalInv'
<1> USE DEF ApprovalInv
<1>1. PICK f : f = Head(inbox[d])
  OBVIOUS
<1>2. Approve!Receives(d, "request") /\ f \in Frame /\ f.t = "request"
  BY <1>1, NextFrame DEF Approve!OnRequest
<1>3. f.id \in Approval
  BY <1>2 DEF Frame
<1>4. PICK b : b = IF cards[d][f.id].dec = "absent" THEN Approve!Open ELSE cards[d][f.id]
  OBVIOUS
<1>5. cards[d] \in [Approval -> Card]
  BY DEF ApprovalTypes
<1>6. b \in Card /\ (cards[d][f.id] = Approve!Absent => b = Approve!Open) /\ (cards[d][f.id] # Approve!Absent => b = cards[d][f.id])
  BY <1>3, <1>4, <1>5, CardFacts
<1>7. PICK c : c = [cards[d] EXCEPT ![f.id] = b]
  OBVIOUS
<1>8. c \in [Approval -> Card] /\ \A i \in Approval : c[i] = IF i = f.id THEN b ELSE cards[d][i]
  BY <1>5, <1>6, <1>7
<1>9. cards' = [cards EXCEPT ![d] = c]
  BY <1>1, <1>4, <1>7 DEF Approve!OnRequest
<1>10. ASSUME NEW i \in Approval PROVE Read(c[i], cards[d][i], f, i, core[i])
  <2>1. Concerns(f, i) => i = f.id /\ Shown(f, i) = 1
    BY <1>2 DEF Concerns, Shown
  <2>2. ~Concerns(f, i) => i # f.id
    BY DEF Concerns
  <2> QED BY <1>6, <1>8, <2>1, <2>2 DEF Read
<1>11. wire' \subseteq [dev : Device, id : Approval, dec : Approve!Verdict]
  BY DEF Approve!OnRequest, ApprovalTypes
<1> QED BY <1>1, <1>2, <1>8, <1>9, <1>10, <1>11, ReadKeeps

LEMMA OnResolvedKeeps ==
    ASSUME ApprovalInv, NEW d \in Device, Approve!OnResolved(d) PROVE ApprovalInv'
<1> USE DEF ApprovalInv
<1>1. PICK f : f = Head(inbox[d])
  OBVIOUS
<1>2. Approve!Receives(d, "resolved") /\ f \in Frame /\ f.t = "resolved"
  BY <1>1, NextFrame DEF Approve!OnResolved
<1>3. f.id \in Approval /\ f.dec \in Approve!Verdict
  BY <1>2 DEF Frame
<1>4. PICK b : b = IF cards[d][f.id].dec = "absent" THEN cards[d][f.id] ELSE [dec |-> f.dec, conf |-> TRUE]
  OBVIOUS
<1>5. cards[d] \in [Approval -> Card]
  BY DEF ApprovalTypes
<1>6. /\ b \in Card /\ (cards[d][f.id] = Approve!Absent => b = Approve!Absent)
      /\ cards[d][f.id] # Approve!Absent => b # Approve!Absent /\ b.conf /\ b.dec = f.dec
  <2>1. CASE cards[d][f.id] = Approve!Absent
    BY <1>3, <1>4, <1>5, <2>1, CardFacts
  <2>2. CASE cards[d][f.id] # Approve!Absent
    <3>1. b = [dec |-> f.dec, conf |-> TRUE]
      BY <1>3, <1>4, <1>5, <2>2, CardFacts
    <3>2. b \in Card /\ b # Approve!Absent
      BY <1>3, <3>1, CardFacts
    <3> QED BY <2>2, <3>1, <3>2
  <2> QED BY <2>1, <2>2
<1>7. PICK c : c = [cards[d] EXCEPT ![f.id] = b]
  OBVIOUS
<1>8. c \in [Approval -> Card] /\ \A i \in Approval : c[i] = IF i = f.id THEN b ELSE cards[d][i]
  BY <1>5, <1>6, <1>7
<1>9. cards' = [cards EXCEPT ![d] = c]
  BY <1>1, <1>4, <1>7 DEF Approve!OnResolved
<1>10. ASSUME NEW i \in Approval, Concerns(f, i) => Honest(f, i, core[i]) PROVE Read(c[i], cards[d][i], f, i, core[i])
  <2>1. Concerns(f, i) => i = f.id /\ Shown(f, i) = 2 /\ f.dec = core[i]
    BY <1>2, <1>10 DEF Concerns, Shown, Honest
  <2>2. ~Concerns(f, i) => i # f.id
    BY DEF Concerns
  <2> QED BY <1>6, <1>8, <2>1, <2>2 DEF Read
<1>11. wire' \subseteq [dev : Device, id : Approval, dec : Approve!Verdict]
  BY DEF Approve!OnResolved, ApprovalTypes
<1> QED BY <1>1, <1>2, <1>8, <1>9, <1>10, <1>11, ReadKeeps

\* A snapshot reconciles a card as reading asks.
LEMMA ReconcileFacts ==
    ASSUME NEW c \in Card, NEW i \in Approval, NEW f \in Frame, f.t = "snapshot", NEW v
    PROVE  /\ Approve!Reconcile(c, i, f) \in Card
           /\ Honest(f, i, v) /\ (c.conf => c.dec = v) => Read(Approve!Reconcile(c, i, f), c, f, i, v)
<1>1. PICK out : out = {r.dec : r \in {x \in f.res : x.id = i}}
  OBVIOUS
<1>2. f.res \subseteq [id : Approval, dec : Approve!Verdict] /\ f.pend \subseteq Approval
  BY DEF Frame
<1>3. out \subseteq Approve!Verdict
  BY <1>1, <1>2
<1>4. PICK b : b = Approve!Reconcile(c, i, f)
  OBVIOUS
<1>5. PICK y : y = CHOOSE x \in out : TRUE
  OBVIOUS
<1>6. out # {} => y \in out
  BY <1>5
<1>7. Concerns(f, i) /\ Shown(f, i) = IF out # {} THEN 2 ELSE IF i \in f.pend THEN 1 ELSE 0
  <2>1. out # {} <=> \E r \in f.res : r.id = i
    BY <1>1
  <2> QED BY <2>1 DEF Concerns, Shown
<1>8. CASE out = {} /\ i \in f.pend
  <2>1. b = IF c = Approve!Absent THEN Approve!Open ELSE c
    BY <1>1, <1>4, <1>8 DEF Approve!Reconcile
  <2>2. b \in Card
    BY <2>1, CardFacts
  <2>3. Read(b, c, f, i, v)
    BY <1>7, <1>8, <2>1 DEF Read
  <2> QED BY <1>4, <2>2, <2>3
<1>9. CASE ~(out = {} /\ i \in f.pend)
  <2>0. b = CASE c.dec = "open" -> [dec |-> IF out = {} THEN "unknown" ELSE y, conf |-> TRUE]
              [] c.dec \in Approve!Verdict /\ ~c.conf -> [dec |-> IF out = {} THEN c.dec ELSE y, conf |-> TRUE]
              [] OTHER -> c
    BY <1>1, <1>4, <1>5, <1>9 DEF Approve!Reconcile
  <2>1. CASE c.dec = "open" \/ (c.dec \in Approve!Verdict /\ ~c.conf)
    <3>1. PICK z : z = IF out # {} THEN y ELSE IF c.dec = "open" THEN "unknown" ELSE c.dec
      OBVIOUS
    <3>2. "open" \notin Approve!Verdict
      BY DEF Approve!Verdict
    <3>3. b = [dec |-> z, conf |-> TRUE]
      BY <2>0, <2>1, <3>1, <3>2
    <3>4. z \in Approve!Verdict \cup {"unknown"} /\ (out # {} => z = y)
      BY <1>3, <1>6, <2>1, <3>1
    <3>5. b \in Card /\ b # Approve!Absent /\ b.conf /\ b.dec = z
      BY <3>3, <3>4, CardFacts
    <3>6. c # Approve!Absent
      <4>1. Approve!Absent.dec = "absent"
        BY DEF Approve!Absent
      <4> QED BY <2>1, <4>1 DEF Approve!Verdict
    <3>7. Honest(f, i, v) /\ out # {} => z = v
      <4>1. Honest(f, i, v) => \A q \in out : q = v
        BY <1>1 DEF Honest
      <4> QED BY <1>6, <3>4, <4>1
    <3>8. Honest(f, i, v) => Read(b, c, f, i, v)
      BY <1>7, <1>9, <3>5, <3>6, <3>7 DEF Read
    <3> QED BY <1>4, <3>5, <3>8
  <2>2. CASE ~(c.dec = "open" \/ (c.dec \in Approve!Verdict /\ ~c.conf))
    <3>1. b = c
      BY <2>0, <2>2
    <3>2. c = Approve!Absent \/ c.conf
      BY <2>2, CardFacts
    <3>3. (c.conf => c.dec = v) => Read(b, c, f, i, v)
      BY <1>7, <1>9, <3>1, <3>2 DEF Read
    <3> QED BY <1>4, <3>1, <3>3
  <2> QED BY <2>1, <2>2
<1> QED BY <1>8, <1>9

LEMMA OnSnapshotKeeps ==
    ASSUME ApprovalInv, NEW d \in Device, Approve!OnSnapshot(d) PROVE ApprovalInv'
<1> USE DEF ApprovalInv
<1>1. PICK f : f = Head(inbox[d])
  OBVIOUS
<1>2. Approve!Receives(d, "snapshot") /\ f \in Frame /\ f.t = "snapshot"
  BY <1>1, NextFrame DEF Approve!OnSnapshot
<1>3. cards[d] \in [Approval -> Card]
  BY DEF ApprovalTypes
<1>4. PICK c : c = [i \in Approval |-> Approve!Reconcile(cards[d][i], i, f)]
  OBVIOUS
<1>5. c \in [Approval -> Card]
  BY <1>2, <1>3, <1>4, ReconcileFacts
<1>6. cards' = [cards EXCEPT ![d] = c]
  BY <1>1, <1>4 DEF Approve!OnSnapshot
<1>7. ASSUME NEW i \in Approval, Honest(f, i, core[i]), cards[d][i].conf => cards[d][i].dec = core[i]
      PROVE  Read(c[i], cards[d][i], f, i, core[i])
  BY <1>2, <1>3, <1>4, <1>7, ReconcileFacts
<1>8. \A i : Concerns(f, i)
  BY <1>2 DEF Concerns
<1>9. wire' \subseteq [dev : Device, id : Approval, dec : Approve!Verdict]
  <2>1. f.pend \subseteq Approval
    BY <1>2 DEF Frame
  <2>2. wire \subseteq [dev : Device, id : Approval, dec : Approve!Verdict]
    BY DEF ApprovalTypes
  <2>3. PICK again : /\ again \subseteq f.pend
                     /\ \A i \in again : cards[d][i].dec \in Approve!Verdict
                     /\ wire' = wire \cup {[dev |-> d, id |-> i, dec |-> cards[d][i].dec] : i \in again}
    BY <1>1 DEF Approve!OnSnapshot
  <2> QED BY <2>1, <2>2, <2>3
<1> QED BY <1>1, <1>2, <1>5, <1>6, <1>7, <1>8, <1>9, ReadKeeps

-----------------------------------------------------------------------------
(***************************************************************************)
(* The steps of the plugin.                                                *)
(***************************************************************************)
\* A request or an outcome goes to the devices of its account.
LEMMA TellingKeeps ==
    ASSUME ApprovalInv, UNCHANGED <<core, on, cards>>, gone \subseteq gone', NEW a, NEW f \in Frame, f.t # "snapshot",
           inbox' = Approve!Told(a, f), Honest(f, f.id, core[f.id]),
           \A k : k \notin gone' =>
              IF k = Approve!K(a, f.id)
              THEN Phase(k, pending, resolved) <= Phase(k, pending', resolved') /\ Shown(f, f.id) = Phase(k, pending', resolved')
              ELSE Phase(k, pending, resolved) = Phase(k, pending', resolved')
    PROVE  CardInv'
<1> USE DEF ApprovalInv
<1> SUFFICES ASSUME NEW d \in Device, NEW i \in Approval, Approve!K(AcctOf(d), i) \notin gone'
             PROVE  Informed(cards[d][i], inbox'[d], on[d], Phase(Approve!K(AcctOf(d), i), pending', resolved'), core[i], i)
  BY DEF CardInv, Phase, Approve!Keys
<1>1. PICK k, p, q : /\ k = Approve!K(AcctOf(d), i)
                     /\ p = Phase(k, pending, resolved) /\ q = Phase(k, pending', resolved')
  OBVIOUS
<1>2. p \in {0, 1, 2} /\ q \in {0, 1, 2}
  BY <1>1, PhaseRange
<1>3. PICK c, s, o, v : c = cards[d][i] /\ s = inbox[d] /\ o = on[d] /\ v = core[i]
  OBVIOUS
<1>4. s \in Seq(Frame) /\ o \in BOOLEAN
  BY <1>3 DEF ApprovalTypes
<1>5. Informed(c, s, o, p, v, i)
  BY <1>1, <1>3 DEF CardInv
<1>6. p <= q
  BY <1>1, <1>2
<1>7. inbox'[d] = IF AcctOf(d) = a /\ o THEN Append(s, f) ELSE s
  BY <1>3 DEF Approve!Told
<1>8. k = Approve!K(a, f.id) <=> AcctOf(d) = a /\ i = f.id
  BY <1>1 DEF Approve!K
<1>9. Concerns(f, i) <=> i = f.id
  BY DEF Concerns
<1>10. CASE AcctOf(d) = a /\ o
  <2>1. Concerns(f, i) => Shown(f, i) = q /\ Honest(f, i, v)
    BY <1>1, <1>3, <1>8, <1>9, <1>10
  <2>2. ~Concerns(f, i) => p = q
    BY <1>1, <1>8, <1>9
  <2>3. Informed(c, Append(s, f), TRUE, q, v, i)
    BY <1>2, <1>4, <1>5, <1>6, <1>10, <2>1, <2>2, InformedOfMore
  <2>4. o = TRUE
    BY <1>4, <1>10
  <2> QED BY <1>1, <1>3, <1>7, <1>10, <2>3, <2>4
<1>11. CASE ~o
  <2>1. o = FALSE
    BY <1>4, <1>11
  <2>2. Informed(c, s, FALSE, q, v, i)
    BY <1>2, <1>5, <1>6, <2>1, InformedAway
  <2> QED BY <1>1, <1>3, <1>7, <2>1, <2>2
<1>12. CASE AcctOf(d) # a
  <2>1. p = q
    BY <1>1, <1>8, <1>12
  <2> QED BY <1>1, <1>3, <1>5, <1>7, <1>12, <2>1
<1> QED BY <1>10, <1>11, <1>12

\* One entry of the frames' type more on every device of an account.
LEMMA ToldTypes ==
    ASSUME ApprovalTypes, NEW a, NEW f \in Frame
    PROVE  Approve!Told(a, f) \in [Device -> Seq(Frame)]
<1>1. ASSUME NEW d \in Device PROVE Append(inbox[d], f) \in Seq(Frame) /\ inbox[d] \in Seq(Frame)
  BY DEF ApprovalTypes
<1> QED BY <1>1 DEF Approve!Told

LEMMA DeliverPendingKeeps ==
    ASSUME ApprovalConstants, ApprovalInv, NEW x \in entries, Approve!DeliverPending(x.acct, x.id) PROVE ApprovalInv'
<1> USE DEF ApprovalInv
<1>1. PICK a, i, k : a = x.acct /\ i = x.id /\ k = Approve!K(a, i)
  OBVIOUS
<1>2. a \in Account /\ i \in Approval /\ k \in StoreKey /\ Approve!KeyOf(k) = k /\ k.id = i
  BY <1>1 DEF ApprovalTypes, StoreKey, Approve!KeyOf, Approve!K
<1>3. PICK e, kept, f : /\ e = [acct |-> a, id |-> i, st |-> "planned"]
                        /\ kept = Approve!Without(pending, {k}) /\ f = [t |-> "request", id |-> i]
  OBVIOUS
<1>4. /\ e \in entries /\ pending' = Approve!Newest(kept, PendingCap, k) /\ gone' = gone \cup Approve!Pushed(kept, PendingCap)
      /\ inbox' = Approve!Told(a, f) /\ entries' = (entries \ {e}) \cup {[e EXCEPT !.st = "delivered"]}
      /\ UNCHANGED <<core, resolved, on, synced, cards, wire, left>>
  BY <1>1, <1>3 DEF Approve!DeliverPending
<1>5. PICK g : g = [acct |-> a, id |-> i, st |-> "delivered"]
  OBVIOUS
<1>6. entries' = (entries \ {e}) \cup {g}
  BY <1>3, <1>4, <1>5
<1>7. Approve!KeyOf(e) = k /\ Approve!KeyOf(g) = k /\ e.st = "planned" /\ g.st = "delivered" /\ g.id = i
  BY <1>1, <1>3, <1>5 DEF Approve!KeyOf
<1>8. pending \in Seq(StoreKey) /\ Unique(pending)
  BY DEF ApprovalTypes, StoreInv
<1>9. /\ kept \in Seq(StoreKey) /\ Unique(kept) /\ Approve!Keys(kept) = Approve!Keys(pending) \ {k}
      /\ \A n \in DOMAIN kept : \E m \in DOMAIN pending : kept[n] = pending[m]
  <2>1. kept \in Seq(StoreKey) /\ Stripped(kept, pending, {k})
    BY <1>3, <1>8, WithoutFacts
  <2> QED BY <2>1 DEF Stripped
<1>10. PICK w, P : w = pending' /\ P = Approve!Pushed(kept, PendingCap)
  OBVIOUS
<1>11. /\ w \in Seq(StoreKey) /\ Unique(w) /\ Approve!Keys(w) = (Approve!Keys(kept) \ P) \cup {k}
       /\ \A n \in DOMAIN w : w[n] = k \/ \E m \in DOMAIN kept : w[n] = kept[m]
  BY <1>2, <1>4, <1>9, <1>10, NewestFacts DEF ApprovalConstants
\* A planned entry is in neither store.
<1>12. k \notin gone => k \notin Approve!Keys(pending) /\ k \notin Approve!Keys(resolved)
  BY <1>4, <1>7 DEF StoreInv
<1>13. f \in Frame /\ f.id = i /\ f.t = "request"
  BY <1>2, <1>3 DEF Frame
<1>14. ApprovalTypes'
  <2>1. inbox' \in [Device -> Seq(Frame)]
    BY <1>4, <1>13, ToldTypes
  <2>2. g \in [acct : Account, id : Approval, st : {"planned", "delivered"}]
    BY <1>2, <1>5
  <2>3. entries' \subseteq [acct : Account, id : Approval, st : {"planned", "delivered"}]
    BY <1>6, <2>2 DEF ApprovalTypes
  <2>4. pending' \in Seq(StoreKey)
    BY <1>10, <1>11
  <2> QED BY <1>4, <2>1, <2>3, <2>4 DEF ApprovalTypes
<1>15. gone \subseteq gone' /\ P \subseteq gone' /\ gone' = gone \cup P
  BY <1>4, <1>10
<1>16. Approve!Keys(pending') = (Approve!Keys(pending) \ P) \cup {k} /\ Approve!Keys(resolved') = Approve!Keys(resolved)
  BY <1>4, <1>9, <1>10, <1>11
<1>17. CardInv'
  <2>1. Honest(f, f.id, core[f.id]) /\ Shown(f, f.id) = 1
    BY <1>13 DEF Honest, Shown
  <2>2. ASSUME NEW q, q \notin gone'
        PROVE  IF q = Approve!K(a, f.id)
               THEN Phase(q, pending, resolved) <= Phase(q, pending', resolved') /\ Shown(f, f.id) = Phase(q, pending', resolved')
               ELSE Phase(q, pending, resolved) = Phase(q, pending', resolved')
    <3>1. CASE q = k
      <4>1. Phase(q, pending, resolved) = 0 /\ Phase(q, pending', resolved') = 1
        BY <1>12, <1>15, <1>16, <2>2, <3>1 DEF Phase
      <4> QED BY <1>1, <1>13, <2>1, <3>1, <4>1
    <3>2. CASE q # k
      <4>1. Phase(q, pending, resolved) = Phase(q, pending', resolved')
        BY <1>15, <1>16, <2>2, <3>2 DEF Phase
      <4> QED BY <1>1, <1>13, <3>2, <4>1
    <3> QED BY <3>1, <3>2
  <2> HIDE DEF ApprovalInv
  <2> QED BY <1>4, <1>13, <1>15, <2>1, <2>2, TellingKeeps
<1>18. StoreInv'
  <2>1. Unique(pending') /\ Unique(resolved')
    BY <1>4, <1>10, <1>11 DEF StoreInv
  <2>2. \A n \in DOMAIN resolved' : resolved'[n].dec = core'[resolved'[n].id]
    BY <1>4 DEF StoreInv
  <2>3. core[i] # "none"
    BY <1>1 DEF StoreInv
  <2>4. ASSUME NEW n \in DOMAIN w PROVE core[w[n].id] # "none"
    <3>1. CASE w[n] = k
      BY <1>2, <2>3, <3>1
    <3>2. CASE w[n] # k
      <4>1. PICK m \in DOMAIN kept : w[n] = kept[m]
        BY <1>11, <3>2
      <4>2. PICK j \in DOMAIN pending : kept[m] = pending[j]
        BY <1>9
      <4> QED BY <4>1, <4>2 DEF StoreInv
    <3> QED BY <3>1, <3>2
  <2>5. \A n \in DOMAIN pending' : core'[pending'[n].id] # "none"
    BY <1>4, <1>10, <2>4
  <2>6. \A y \in entries' : core'[y.id] # "none"
    BY <1>4, <1>6, <1>7, <2>3 DEF StoreInv
  <2>7. ASSUME NEW y \in entries', Approve!KeyOf(y) \notin gone'
        PROVE  /\ Approve!KeyOf(y) \notin Approve!Keys(resolved')
               /\ Approve!KeyOf(y) \in Approve!Keys(pending') <=> y.st = "delivered"
    <3>1. CASE y = g
      BY <1>7, <1>12, <1>15, <1>16, <2>7, <3>1
    <3>2. CASE y # g
      <4>1. /\ y \in entries /\ Approve!KeyOf(y) \notin gone /\ Approve!KeyOf(y) \notin P
        BY <1>6, <1>15, <2>7, <3>2
      <4>2. /\ Approve!KeyOf(y) \notin Approve!Keys(resolved)
            /\ Approve!KeyOf(y) \in Approve!Keys(pending) <=> y.st = "delivered"
        BY <4>1 DEF StoreInv
      <4>3. y # e
        BY <1>6, <3>2, <1>7
      <4>4. Approve!KeyOf(y) # k
        <5>1. ASSUME Approve!KeyOf(y) = k PROVE FALSE
          <6>1. y.acct = a /\ y.id = i /\ y.st = "planned"
            <7>1. Approve!KeyOf(y).acct = y.acct /\ Approve!KeyOf(y).id = y.id /\ k.acct = a /\ k.id = i
              BY <1>1 DEF Approve!KeyOf, Approve!K
            <7>2. y.st \in {"planned", "delivered"}
              BY <4>1 DEF ApprovalTypes
            <7> QED BY <1>12, <4>1, <4>2, <5>1, <7>1, <7>2
          <6>2. y \in [acct : Account, id : Approval, st : {"planned", "delivered"}] /\ e \in [acct : Account, id : Approval, st : {"planned", "delivered"}]
            BY <1>4, <4>1 DEF ApprovalTypes
          <6>3. e.acct = a /\ e.id = i /\ e.st = "planned"
            BY <1>3
          <6>4. y = e
            BY <6>1, <6>2, <6>3
          <6> QED BY <4>3, <6>4
        <5> QED BY <5>1
      <4> QED BY <1>16, <4>1, <4>2, <4>4
    <3> QED BY <3>1, <3>2
  <2>8. \A q \in Approve!Keys(pending') \cap Approve!Keys(resolved') : q \in gone'
    BY <1>12, <1>15, <1>16 DEF StoreInv
  <2> QED BY <2>1, <2>2, <2>5, <2>6, <2>7, <2>8 DEF StoreInv
<1> QED BY <1>14, <1>17, <1>18

LEMMA UpdateEntryKeeps ==
    ASSUME ApprovalConstants, ApprovalInv, NEW x \in entries, Approve!UpdateEntry(x.acct, x.id) PROVE ApprovalInv'
<1> USE DEF ApprovalInv
<1>1. PICK a, i, k, v : a = x.acct /\ i = x.id /\ k = Approve!K(a, i) /\ v = core[i]
  OBVIOUS
<1>2. a \in Account /\ i \in Approval /\ k.id = i
  BY <1>1 DEF ApprovalTypes, Approve!K
<1>3. PICK e, kept, f, out : /\ e = [acct |-> a, id |-> i, st |-> "delivered"]
                             /\ kept = Approve!Without(resolved, {k}) /\ f = [t |-> "resolved", id |-> i, dec |-> v]
                             /\ out = [acct |-> a, id |-> i, dec |-> v]
  OBVIOUS
<1>4. /\ e \in entries /\ v \in Approve!Verdict /\ pending' = Approve!Without(pending, {k})
      /\ resolved' = Approve!Newest(kept, ResolvedCap, out) /\ gone' = gone \cup Approve!Pushed(kept, ResolvedCap)
      /\ inbox' = Approve!Told(a, f) /\ entries' = entries \ {e}
      /\ UNCHANGED <<core, on, synced, cards, wire, left>>
  BY <1>1, <1>3 DEF Approve!UpdateEntry, Approve!FinalizedPending
<1>5. Approve!KeyOf(e) = k /\ e.st = "delivered" /\ Approve!KeyOf(out) = k /\ out \in Outcome /\ out.id = i /\ out.dec = v
  BY <1>1, <1>2, <1>3, <1>4 DEF Approve!KeyOf, Outcome
<1>8. pending \in Seq(StoreKey) /\ Unique(pending) /\ resolved \in Seq(Outcome) /\ Unique(resolved)
  BY DEF ApprovalTypes, StoreInv
<1>9. /\ kept \in Seq(Outcome) /\ Unique(kept) /\ Approve!Keys(kept) = Approve!Keys(resolved) \ {k}
      /\ \A n \in DOMAIN kept : \E m \in DOMAIN resolved : kept[n] = resolved[m]
  <2>1. kept \in Seq(Outcome) /\ Stripped(kept, resolved, {k})
    BY <1>3, <1>8, WithoutFacts
  <2> QED BY <2>1 DEF Stripped
<1>10. PICK u, w, P : u = pending' /\ w = resolved' /\ P = Approve!Pushed(kept, ResolvedCap)
  OBVIOUS
<1>11. /\ u \in Seq(StoreKey) /\ Unique(u) /\ Approve!Keys(u) = Approve!Keys(pending) \ {k}
       /\ \A n \in DOMAIN u : \E m \in DOMAIN pending : u[n] = pending[m]
  <2>1. u \in Seq(StoreKey) /\ Stripped(u, pending, {k})
    BY <1>4, <1>8, <1>10, WithoutFacts
  <2> QED BY <2>1 DEF Stripped
<1>12. /\ w \in Seq(Outcome) /\ Unique(w) /\ Approve!Keys(w) = (Approve!Keys(kept) \ P) \cup {k}
       /\ \A n \in DOMAIN w : w[n] = out \/ \E m \in DOMAIN kept : w[n] = kept[m]
  BY <1>4, <1>5, <1>9, <1>10, NewestFacts DEF ApprovalConstants
\* A delivered entry is pending, and has no outcome on record.
<1>13. k \notin gone => k \in Approve!Keys(pending) /\ k \notin Approve!Keys(resolved)
  BY <1>4, <1>5 DEF StoreInv
<1>14. f \in Frame /\ f.id = i /\ f.t = "resolved" /\ f.dec = v
  BY <1>2, <1>3, <1>4 DEF Frame
<1>15. gone \subseteq gone' /\ P \subseteq gone' /\ gone' = gone \cup P
  BY <1>4, <1>10
<1>16. /\ Approve!Keys(pending') = Approve!Keys(pending) \ {k}
       /\ Approve!Keys(resolved') = ((Approve!Keys(resolved) \ {k}) \ P) \cup {k}
  BY <1>9, <1>10, <1>11, <1>12
<1>17. ApprovalTypes'
  <2>1. inbox' \in [Device -> Seq(Frame)]
    BY <1>4, <1>14, ToldTypes
  <2>2. pending' \in Seq(StoreKey) /\ resolved' \in Seq(Outcome)
    BY <1>10, <1>11, <1>12
  <2> QED BY <1>4, <2>1, <2>2 DEF ApprovalTypes
<1>18. CardInv'
  <2>1. Honest(f, f.id, core[f.id]) /\ Shown(f, f.id) = 2
    BY <1>1, <1>14 DEF Honest, Shown
  <2>2. ASSUME NEW q, q \notin gone'
        PROVE  IF q = Approve!K(a, f.id)
               THEN Phase(q, pending, resolved) <= Phase(q, pending', resolved') /\ Shown(f, f.id) = Phase(q, pending', resolved')
               ELSE Phase(q, pending, resolved) = Phase(q, pending', resolved')
    <3>1. CASE q = k
      <4>1. Phase(q, pending, resolved) = 1 /\ Phase(q, pending', resolved') = 2
        BY <1>13, <1>15, <1>16, <2>2, <3>1 DEF Phase
      <4> QED BY <1>1, <1>14, <2>1, <3>1, <4>1
    <3>2. CASE q # k
      <4>1. Phase(q, pending, resolved) = Phase(q, pending', resolved')
        BY <1>15, <1>16, <2>2, <3>2 DEF Phase
      <4> QED BY <1>1, <1>14, <3>2, <4>1
    <3> QED BY <3>1, <3>2
  <2> HIDE DEF ApprovalInv
  <2> QED BY <1>4, <1>14, <1>15, <2>1, <2>2, TellingKeeps
<1>19. StoreInv'
  <2>1. Unique(pending') /\ Unique(resolved')
    BY <1>10, <1>11, <1>12
  <2>2. ASSUME NEW n \in DOMAIN w PROVE w[n].dec = core[w[n].id]
    <3>1. CASE w[n] = out
      BY <1>1, <1>5, <3>1
    <3>2. CASE w[n] # out
      <4>1. PICK m \in DOMAIN kept : w[n] = kept[m]
        BY <1>12, <3>2
      <4>2. PICK j \in DOMAIN resolved : kept[m] = resolved[j]
        BY <1>9
      <4> QED BY <4>1, <4>2 DEF StoreInv
    <3> QED BY <3>1, <3>2
  <2>3. \A n \in DOMAIN resolved' : resolved'[n].dec = core'[resolved'[n].id]
    BY <1>4, <1>10, <2>2
  <2>4. ASSUME NEW n \in DOMAIN u PROVE core[u[n].id] # "none"
    <3>1. PICK m \in DOMAIN pending : u[n] = pending[m]
      BY <1>11
    <3> QED BY <3>1 DEF StoreInv
  <2>5. \A n \in DOMAIN pending' : core'[pending'[n].id] # "none"
    BY <1>4, <1>10, <2>4
  <2>6. \A y \in entries' : core'[y.id] # "none"
    BY <1>4 DEF StoreInv
  <2>7. ASSUME NEW y \in entries', Approve!KeyOf(y) \notin gone'
        PROVE  /\ Approve!KeyOf(y) \notin Approve!Keys(resolved')
               /\ Approve!KeyOf(y) \in Approve!Keys(pending') <=> y.st = "delivered"
    <3>1. y \in entries /\ y # e /\ Approve!KeyOf(y) \notin gone /\ Approve!KeyOf(y) \notin P
      BY <1>4, <1>15, <2>7
    <3>2. /\ Approve!KeyOf(y) \notin Approve!Keys(resolved)
          /\ Approve!KeyOf(y) \in Approve!Keys(pending) <=> y.st = "delivered"
      BY <3>1 DEF StoreInv
    <3>3. Approve!KeyOf(y) # k
      <4>1. ASSUME Approve!KeyOf(y) = k PROVE FALSE
        <5>1. Approve!KeyOf(y).acct = y.acct /\ Approve!KeyOf(y).id = y.id /\ k.acct = a /\ k.id = i
          BY <1>1 DEF Approve!KeyOf, Approve!K
        <5>2. y.acct = a /\ y.id = i /\ y.st = "delivered"
          BY <1>13, <3>1, <3>2, <4>1, <5>1
        <5>3. y \in [acct : Account, id : Approval, st : {"planned", "delivered"}] /\ e \in [acct : Account, id : Approval, st : {"planned", "delivered"}]
          BY <1>4, <3>1 DEF ApprovalTypes
        <5>4. e.acct = a /\ e.id = i /\ e.st = "delivered"
          BY <1>3
        <5>5. y = e
          BY <5>2, <5>3, <5>4
        <5> QED BY <3>1, <5>5
      <4> QED BY <4>1
    <3> QED BY <1>16, <3>1, <3>2, <3>3
  <2>8. \A q \in Approve!Keys(pending') \cap Approve!Keys(resolved') : q \in gone'
    BY <1>15, <1>16 DEF StoreInv
  <2> QED BY <2>1, <2>3, <2>5, <2>6, <2>7, <2>8 DEF StoreInv
<1> QED BY <1>17, <1>18, <1>19

\* A listing strips a store of the record that has aged, if one has.
LEMMA AgedFacts ==
    ASSUME NEW T, NEW s \in Seq(T), Unique(s), NEW old \in Approve!Aged
    PROVE  Approve!Without(s, old) \in Seq(T) /\ Stripped(Approve!Without(s, old), s, old)
<1>1. CASE old = {}
  <2>1. Approve!Without(s, old) = s
    BY <1>1 DEF Approve!Without
  <2> QED BY <1>1, <2>1 DEF Stripped
<1>2. CASE old # {}
  <2>1. PICK k : old = {k}
    BY <1>2 DEF Approve!Aged
  <2> QED BY <2>1, WithoutFacts
<1> QED BY <1>1, <1>2

\* A snapshot shows how far each approval of its account has come.
LEMMA SnapshotFacts ==
    ASSUME NEW p \in Seq(StoreKey), NEW r \in Seq(Outcome), NEW a
    PROVE  /\ Approve!Snapshot(a, p, r) \in Frame /\ Approve!Snapshot(a, p, r).t = "snapshot"
           /\ \A i, v : (\A n \in DOMAIN r : r[n].id = i => r[n].dec = v) =>
                 Shown(Approve!Snapshot(a, p, r), i) = Phase(Approve!K(a, i), p, r) /\ Honest(Approve!Snapshot(a, p, r), i, v)
<1>1. PICK f : f = Approve!Snapshot(a, p, r)
  OBVIOUS
<1>2. f.t = "snapshot" /\ f.pend = Approve!ListPending(a, p) /\ f.res = Approve!ListResolved(a, r)
  BY <1>1 DEF Approve!Snapshot
<1>3. /\ \A n \in DOMAIN p : p[n] \in StoreKey /\ p[n].id \in Approval
      /\ \A n \in DOMAIN r : r[n] \in Outcome /\ r[n].id \in Approval /\ r[n].dec \in Approve!Verdict
  <2>1. \A n \in DOMAIN p : p[n] \in StoreKey
    BY ElementOfSeq
  <2>2. \A n \in DOMAIN r : r[n] \in Outcome
    BY ElementOfSeq
  <2> QED BY <2>1, <2>2 DEF StoreKey, Outcome
<1>4. \A j : j \in f.pend <=> \E n \in DOMAIN p : p[n].acct = a /\ p[n].id = j
  BY <1>2 DEF Approve!ListPending, Approve!ToSet
<1>5. \A z : z \in f.res <=> \E n \in DOMAIN r : r[n].acct = a /\ z = [id |-> r[n].id, dec |-> r[n].dec]
  BY <1>2 DEF Approve!ListResolved, Approve!ToSet
<1>6. f.pend \subseteq Approval
  BY <1>3, <1>4
<1>7. f.res \subseteq [id : Approval, dec : Approve!Verdict]
  BY <1>3, <1>5
<1>8. f \in Frame
  BY <1>1, <1>2, <1>6, <1>7 DEF Frame, Approve!Snapshot
<1>9. ASSUME NEW i, NEW v, \A n \in DOMAIN r : r[n].id = i => r[n].dec = v
      PROVE  Shown(f, i) = Phase(Approve!K(a, i), p, r) /\ Honest(f, i, v)
  <2>1. Approve!K(a, i) \in Approve!Keys(p) <=> i \in f.pend
    <3>1. \A n \in DOMAIN p : Approve!K(a, i) = Approve!KeyOf(p[n]) <=> p[n].acct = a /\ p[n].id = i
      BY DEF Approve!K, Approve!KeyOf
    <3> QED BY <1>4, <3>1 DEF Approve!Keys
  <2>2. Approve!K(a, i) \in Approve!Keys(r) <=> \E z \in f.res : z.id = i
    <3>1. \A n \in DOMAIN r : Approve!K(a, i) = Approve!KeyOf(r[n]) <=> r[n].acct = a /\ r[n].id = i
      BY DEF Approve!K, Approve!KeyOf
    <3>2. Approve!K(a, i) \in Approve!Keys(r) <=> \E n \in DOMAIN r : r[n].acct = a /\ r[n].id = i
      BY <3>1 DEF Approve!Keys
    <3>3. ASSUME NEW n \in DOMAIN r, r[n].acct = a, r[n].id = i PROVE \E z \in f.res : z.id = i
      <4>1. PICK z : z = [id |-> r[n].id, dec |-> r[n].dec]
        OBVIOUS
      <4>2. z \in f.res /\ z.id = i
        BY <1>5, <3>3, <4>1
      <4> QED BY <4>2
    <3>4. ASSUME NEW z \in f.res, z.id = i PROVE \E n \in DOMAIN r : r[n].acct = a /\ r[n].id = i
      BY <1>5, <3>4
    <3> QED BY <3>2, <3>3, <3>4
  <2>3. Shown(f, i) = Phase(Approve!K(a, i), p, r)
    BY <1>2, <2>1, <2>2 DEF Shown, Phase
  <2>4. Honest(f, i, v)
    BY <1>2, <1>5, <1>9 DEF Honest
  <2> QED BY <2>3, <2>4
<1> QED BY <1>1, <1>2, <1>8, <1>9

LEMMA RegisterKeeps ==
    ASSUME ApprovalInv, NEW d \in Device, NEW old \in Approve!Aged, Approve!Register(d, old) PROVE ApprovalInv'
<1> USE DEF ApprovalInv
<1>1. PICK a, p, r, f : /\ a = AcctOf(d) /\ p = Approve!Without(pending, old) /\ r = Approve!Without(resolved, old)
                        /\ f = Approve!Snapshot(a, p, r)
  OBVIOUS
<1>2. /\ pending' = p /\ resolved' = r /\ on' = [on EXCEPT ![d] = TRUE]
      /\ gone' = gone \cup (old \cap (Approve!Keys(pending) \cup Approve!Keys(resolved)))
      /\ inbox' = [x \in Device |-> IF AcctOf(x) = a /\ [on EXCEPT ![d] = TRUE][x] THEN Append(inbox[x], f) ELSE inbox[x]]
      /\ UNCHANGED <<core, bound, entries, synced, cards, wire, left>>
  BY <1>1 DEF Approve!Register
<1>3. old \subseteq Approve!Keys(pending) \cup Approve!Keys(resolved)
  BY DEF Approve!Aged
<1>4. gone' = gone \cup old
  BY <1>2, <1>3
<1>5. pending \in Seq(StoreKey) /\ Unique(pending) /\ resolved \in Seq(Outcome) /\ Unique(resolved)
  BY DEF ApprovalTypes, StoreInv
<1>6. /\ p \in Seq(StoreKey) /\ Unique(p) /\ Approve!Keys(p) = Approve!Keys(pending) \ old
      /\ \A n \in DOMAIN p : \E m \in DOMAIN pending : p[n] = pending[m]
  <2>1. p \in Seq(StoreKey) /\ Stripped(p, pending, old)
    BY <1>1, <1>5, AgedFacts
  <2> QED BY <2>1 DEF Stripped
<1>7. /\ r \in Seq(Outcome) /\ Unique(r) /\ Approve!Keys(r) = Approve!Keys(resolved) \ old
      /\ \A n \in DOMAIN r : \E m \in DOMAIN resolved : r[n] = resolved[m]
  <2>1. r \in Seq(Outcome) /\ Stripped(r, resolved, old)
    BY <1>1, <1>5, AgedFacts
  <2> QED BY <2>1 DEF Stripped
<1>8. ASSUME NEW n \in DOMAIN r PROVE r[n].dec = core[r[n].id]
  <2>1. PICK m \in DOMAIN resolved : r[n] = resolved[m]
    BY <1>7
  <2> QED BY <2>1 DEF StoreInv
<1>9. ASSUME NEW n \in DOMAIN p PROVE core[p[n].id] # "none"
  <2>1. PICK m \in DOMAIN pending : p[n] = pending[m]
    BY <1>6
  <2> QED BY <2>1 DEF StoreInv
<1>10. f \in Frame /\ f.t = "snapshot"
  BY <1>1, <1>6, <1>7, SnapshotFacts
<1>11. StoreInv'
  <2>1. Unique(pending') /\ Unique(resolved')
    BY <1>2, <1>6, <1>7
  <2>2. /\ \A n \in DOMAIN resolved' : resolved'[n].dec = core'[resolved'[n].id]
        /\ \A n \in DOMAIN pending' : core'[pending'[n].id] # "none"
        /\ \A e \in entries' : core'[e.id] # "none"
    BY <1>2, <1>8, <1>9 DEF StoreInv
  <2>3. Approve!Keys(pending') = Approve!Keys(pending) \ old /\ Approve!Keys(resolved') = Approve!Keys(resolved) \ old
    BY <1>2, <1>6, <1>7
  <2>4. ASSUME NEW e \in entries', Approve!KeyOf(e) \notin gone'
        PROVE  /\ Approve!KeyOf(e) \notin Approve!Keys(resolved')
               /\ Approve!KeyOf(e) \in Approve!Keys(pending') <=> e.st = "delivered"
    BY <1>2, <1>4, <2>3, <2>4 DEF StoreInv
  <2>5. \A q \in Approve!Keys(pending') \cap Approve!Keys(resolved') : q \in gone'
    BY <1>4, <2>3 DEF StoreInv
  <2> QED BY <2>1, <2>2, <2>4, <2>5 DEF StoreInv
<1>12. ApprovalTypes'
  <2>1. inbox' \in [Device -> Seq(Frame)]
    <3>1. ASSUME NEW x \in Device PROVE Append(inbox[x], f) \in Seq(Frame) /\ inbox[x] \in Seq(Frame)
      BY <1>10 DEF ApprovalTypes
    <3> QED BY <1>2, <3>1
  <2>2. pending' \in Seq(StoreKey) /\ resolved' \in Seq(Outcome)
    BY <1>2, <1>6, <1>7
  <2> QED BY <1>2, <2>1, <2>2 DEF ApprovalTypes
<1>13. ASSUME NEW x \in Device, NEW i \in Approval, Approve!K(AcctOf(x), i) \notin gone'
       PROVE  Informed(cards[x][i], inbox'[x], on'[x], Phase(Approve!K(AcctOf(x), i), p, r), core[i], i)
  <2>1. PICK q, c, s, o, v : /\ q = Phase(Approve!K(AcctOf(x), i), pending, resolved)
                             /\ c = cards[x][i] /\ s = inbox[x] /\ o = on[x] /\ v = core[i]
    OBVIOUS
  <2>2. s \in Seq(Frame) /\ o \in BOOLEAN /\ q \in {0, 1, 2}
    BY <2>1, PhaseRange DEF ApprovalTypes
  <2>3. Informed(c, s, o, q, v, i)
    BY <1>4, <1>13, <2>1 DEF CardInv
  <2>4. Phase(Approve!K(AcctOf(x), i), p, r) = q
    BY <1>4, <1>6, <1>7, <1>13, <2>1 DEF Phase
  <2>5. CASE AcctOf(x) = a /\ (x = d \/ o)
    <3>1. inbox'[x] = Append(s, f) /\ on'[x] = TRUE
      BY <1>2, <2>1, <2>2, <2>5 DEF ApprovalTypes
    <3>2. Shown(f, i) = q /\ Honest(f, i, v)
      <4>1. \A n \in DOMAIN r : r[n].id = i => r[n].dec = v
        BY <1>8, <2>1
      <4> QED BY <1>1, <1>6, <1>7, <2>4, <2>5, <4>1, SnapshotFacts
    <3>3. Concerns(f, i)
      BY <1>10 DEF Concerns
    <3>4. q <= q
      BY <2>2
    <3>5. Informed(c, Append(s, f), TRUE, q, v, i)
      BY <1>10, <2>2, <2>3, <3>2, <3>3, <3>4, InformedOfMore
    <3> QED BY <2>1, <2>4, <3>1, <3>5
  <2>6. CASE ~(AcctOf(x) = a /\ (x = d \/ o))
    <3>1. x # d
      BY <1>1, <2>6
    <3>2. inbox'[x] = s /\ on'[x] = o
      BY <1>2, <2>1, <2>6, <3>1 DEF ApprovalTypes
    <3> QED BY <2>1, <2>3, <2>4, <3>2
  <2> QED BY <2>5, <2>6
<1>14. CardInv'
  BY <1>2, <1>13 DEF CardInv, Phase, Approve!Keys
<1> QED BY <1>11, <1>12, <1>14

-----------------------------------------------------------------------------
LEMMA ApprovalNext ==
    ASSUME ApprovalConstants, ApprovalInv, [Approve!Next]_(Approve!vars) PROVE ApprovalInv'
<1>1. ASSUME NEW i \in Approval, Approve!Asks(i) PROVE ApprovalInv'
  BY <1>1, AsksKeeps
<1>2. ASSUME NEW e \in entries, Approve!DeliverPending(e.acct, e.id) PROVE ApprovalInv'
  BY <1>2, DeliverPendingKeeps
<1>3. ASSUME NEW e \in entries, Approve!UpdateEntry(e.acct, e.id) PROVE ApprovalInv'
  BY <1>3, UpdateEntryKeeps
<1>4. ASSUME NEW e \in entries, Approve!MonitorStops(e.acct) PROVE ApprovalInv'
  BY <1>4, MonitorStopsKeeps
<1>5. ASSUME \/ \E i \in Approval : Approve!Expires(i)
             \/ \E m \in wire : Approve!HandleApprovalDecision(m) \/ Approve!DecisionLost(m)
      PROVE  ApprovalInv'
  BY <1>5, GatewayKeeps
<1>6. ASSUME NEW d \in Device, NEW old \in Approve!Aged, Approve!Register(d, old) PROVE ApprovalInv'
  BY <1>6, RegisterKeeps
<1>7. ASSUME NEW d \in Device, NEW r \in BOOLEAN, Approve!Leaves(d, r) PROVE ApprovalInv'
  BY <1>7, LeavesKeeps
<1>8. ASSUME NEW d \in Device, NEW i \in Approval, NEW v \in Approve!Verdict, Approve!Decide(d, i, v) PROVE ApprovalInv'
  BY <1>8, DecideKeeps
<1>9. ASSUME NEW d \in Device, Approve!OnRequest(d) \/ Approve!OnResolved(d) \/ Approve!OnSnapshot(d) PROVE ApprovalInv'
  BY <1>9, OnRequestKeeps, OnResolvedKeeps, OnSnapshotKeeps
<1>10. CASE UNCHANGED Approve!vars
  BY <1>10, QuietKeeps DEF Approve!vars
<1> QED BY <1>1, <1>2, <1>3, <1>4, <1>5, <1>6, <1>7, <1>8, <1>9, <1>10 DEF Approve!Next

\* A device that has read all its frames.
LEMMA InformedAgrees ==
    ASSUME ApprovalInv PROVE Approve!CardsAgree
<1> SUFFICES ASSUME NEW d \in Device, NEW i \in Approval, on[d], inbox[d] = <<>>, Approve!K(AcctOf(d), i) \notin gone
             PROVE  /\ Approve!K(AcctOf(d), i) \in Approve!Keys(pending) => cards[d][i] # Approve!Absent
                    /\ cards[d][i] = Approve!Open => Approve!K(AcctOf(d), i) \in Approve!Keys(pending)
                    /\ cards[d][i].conf => cards[d][i].dec = core[i]
                    /\ Approve!K(AcctOf(d), i) \in Approve!Keys(resolved) => cards[d][i] = Approve!Absent \/ cards[d][i].conf
  BY DEF Approve!CardsAgree
<1>1. PICK k, p, c, s : k = Approve!K(AcctOf(d), i) /\ p = Phase(k, pending, resolved) /\ c = cards[d][i] /\ s = inbox[d]
  OBVIOUS
<1>2. Informed(c, s, on[d], p, core[i], i)
  BY <1>1 DEF ApprovalInv, CardInv
<1>3. About(s, i) = {}
  BY <1>1 DEF About
<1>4. /\ c # Approve!Absent => p # 0
      /\ c.conf => c.dec = core[i]
      /\ p = 1 => c # Approve!Absent
      /\ p = 2 => c.conf \/ c = Approve!Absent
  BY <1>2, <1>3 DEF Informed
<1>5. k \in gone \/ ~(k \in Approve!Keys(pending) /\ k \in Approve!Keys(resolved))
  BY DEF ApprovalInv, StoreInv
<1>6. /\ k \in Approve!Keys(pending) => p = 1
      /\ k \in Approve!Keys(resolved) => p = 2
      /\ p # 0 => k \in Approve!Keys(pending) \/ p = 2
  BY <1>1, <1>5 DEF Phase
<1>7. c = Approve!Open => c # Approve!Absent /\ ~c.conf
  BY DEF Approve!Open, Approve!Absent
<1> QED BY <1>1, <1>4, <1>6, <1>7

\* deliverPending, updateEntry and the snapshot of a register (approvals.ts) against
\* the cards of nats-client-wrapper.ts: on a device that has read what was sent to it,
\* the cards agree with the plugin about every approval that no cap or age pushed out
\* of a store, for all sets of devices, accounts and approvals and all caps, whatever
\* was lost, reloaded, decided or finalized elsewhere meanwhile.
THEOREM CardsStayInStep == Spec => []CardsAgree
<1> ApprovalConstants
  BY ApprovalAssumption
<1> DEFINE OfApproval == part = "approve" => ApprovalInv
<1>1. Init => OfApproval
  BY ApprovalInit DEF Init
<1>2. OfApproval /\ [Next]_vars => OfApproval'
  <2> SUFFICES ASSUME OfApproval, [Next]_vars, part' = "approve" PROVE ApprovalInv'
    OBVIOUS
  <2>1. part = "approve" /\ [Approve!Next]_(Approve!vars)
    BY DEF Next, vars, approveVars, Approve!vars
  <2> QED BY <2>1, ApprovalNext
<1>3. OfApproval => CardsAgree
  BY InformedAgrees DEF CardsAgree
<1> QED BY <1>1, <1>2, <1>3, PTL DEF Spec
(***************************************************************************)
(* Turn.  Places in a sequence, counted.                                   *)
(***************************************************************************)
LEMMA SameCardinality == ASSUME NEW S PROVE Activity!Cardinality(S) = Cardinality(S)
  BY Zenon DEF Activity!Cardinality, Cardinality

Place(es, e) == Activity!Cardinality({x \in es : x <= e})

LEMMA PlaceFacts ==
    ASSUME NEW n \in Nat, NEW K \in SUBSET (1 .. n)
    PROVE  /\ IsFiniteSet(K) /\ Cardinality(K) \in Nat
           /\ \A k \in K : Place(K, k) \in 1 .. Cardinality(K)
           /\ \A k, l \in K : k < l => Place(K, k) < Place(K, l)
<1>1. IsFiniteSet(K) /\ Cardinality(K) \in Nat
  <2>1. IsFiniteSet(1 .. n)
    BY FS_Interval
  <2> QED BY <2>1, FS_Subset, FS_CardinalityType
<1>2. ASSUME NEW k \in K PROVE Place(K, k) \in 1 .. Cardinality(K)
  <2>1. PICK S : S = {j \in K : j <= k}
    OBVIOUS
  <2>2. S \in SUBSET K /\ k \in S
    BY <2>1
  <2>3. IsFiniteSet(S) /\ Cardinality(S) \in Nat /\ Cardinality(S) <= Cardinality(K)
    BY <1>1, <2>2, FS_Subset, FS_CardinalityType
  <2>4. Cardinality(S) # 0
    BY <2>2, <2>3, FS_EmptySet
  <2>5. Place(K, k) = Cardinality(S)
    BY <2>1, SameCardinality DEF Place
  <2> QED BY <1>1, <2>3, <2>4, <2>5
<1>3. ASSUME NEW k \in K, NEW l \in K, k < l PROVE Place(K, k) < Place(K, l)
  <2>1. PICK S, R : S = {j \in K : j <= k} /\ R = {j \in K : j <= l}
    OBVIOUS
  <2>2. k \in Int /\ l \in Int /\ \A j \in K : j \in Int
    OBVIOUS
  <2>3. l \in R /\ l \notin S
    BY <1>3, <2>1, <2>2
  <2>4. S \in SUBSET R /\ R \in SUBSET K
    <3>1. ASSUME NEW j \in K, j <= k PROVE j <= l
      BY <1>3, <2>2, <3>1
    <3> QED BY <2>1, <3>1
  <2>5. S \in SUBSET R /\ S # R /\ IsFiniteSet(R)
    BY <1>1, <2>3, <2>4, FS_Subset
  <2>6. IsFiniteSet(S) /\ Cardinality(S) <= Cardinality(R) /\ Cardinality(S) # Cardinality(R)
    BY <2>5, FS_Subset
  <2>7. Cardinality(S) \in Nat /\ Cardinality(R) \in Nat
    BY <2>5, <2>6, FS_CardinalityType
  <2>8. Place(K, k) = Cardinality(S) /\ Place(K, l) = Cardinality(R)
    BY <2>1, SameCardinality DEF Place
  <2> QED BY <2>6, <2>7, <2>8
<1> QED BY <1>1, <1>2, <1>3

LEMMA PlaceExists ==
    ASSUME NEW n \in Nat, NEW K \in SUBSET (1 .. n), NEW m \in 1 .. Cardinality(K)
    PROVE  \E k \in K : Place(K, k) = m
<1>1. PICK c \in Nat : c = Cardinality(K)
  BY PlaceFacts
<1>2. /\ IsFiniteSet(K)
      /\ \A k \in K : Place(K, k) \in 1 .. c
      /\ \A k, l \in K : k < l => Place(K, k) < Place(K, l)
  BY <1>1, PlaceFacts
<1>3. PICK f : f = [k \in K |-> Place(K, k)]
  OBVIOUS
<1>4. f \in Injection(K, 1 .. c)
  <2>1. f \in [K -> 1 .. c]
    BY <1>2, <1>3
  <2>2. ASSUME NEW k \in K, NEW l \in K, Place(K, k) = Place(K, l) PROVE k = l
    BY <1>2, <2>2
  <2>3. \A k, l \in K : f[k] = f[l] => k = l
    BY <1>3, <2>2
  <2> QED BY <2>1, <2>3 DEF Injection, IsInjective
<1>5. IsFiniteSet(1 .. c) /\ Cardinality(1 .. c) = c
  BY FS_Interval
<1>6. f \in Surjection(K, 1 .. c)
  BY <1>1, <1>2, <1>4, <1>5, FS_Injection
<1>7. \E k \in K : f[k] = m
  BY <1>1, <1>6 DEF Surjection
<1> QED BY <1>3, <1>7

\* At(s, K) has elements of s at the places K only.
LEMMA AtFacts ==
    ASSUME NEW S, NEW s \in Seq(S), NEW K \in SUBSET DOMAIN s, NEW z, z = Activity!At(s, K)
    PROVE  z \in Seq(S) /\ \A j \in DOMAIN z : \E k \in K : z[j] = s[k]
<1>1. PICK n \in Nat : n = Len(s) /\ DOMAIN s = 1 .. n
  OBVIOUS
<1>2. PICK c \in Nat : c = Cardinality(K)
  BY <1>1, PlaceFacts
<1>3. z = [m \in 1 .. c |-> s[CHOOSE k \in K : Place(K, k) = m]]
  <2>1. Activity!Cardinality(K) = c
    BY <1>2, SameCardinality
  <2> QED BY <2>1 DEF Activity!At, Place
<1>4. ASSUME NEW m \in 1 .. c PROVE \E k \in K : z[m] = s[k]
  <2>1. \E k \in K : Place(K, k) = m
    BY <1>1, <1>2, PlaceExists
  <2>2. PICK l : l = CHOOSE k \in K : Place(K, k) = m
    OBVIOUS
  <2>3. l \in K /\ z[m] = s[l]
    BY <1>3, <2>1, <2>2
  <2> QED BY <2>3
<1>5. z \in [1 .. c -> S] /\ DOMAIN z = 1 .. c
  <2>1. ASSUME NEW m \in 1 .. c PROVE z[m] \in S
    BY <1>1, <1>4
  <2> QED BY <1>3, <2>1
<1> QED BY <1>4, <1>5

LEMMA SmallestFacts ==
    ASSUME NEW n \in Nat, NEW K \in SUBSET (1 .. n), K # {}
    PROVE  Activity!Smallest(K) \in K
<1>1. IsFiniteSet(K) /\ Cardinality(K) \in Nat /\ Cardinality(K) # 0
  BY PlaceFacts, FS_EmptySet
<1>2. PICK k \in K : Place(K, k) = 1
  BY <1>1, PlaceExists
<1>3. ASSUME NEW j \in K, ~(k <= j) PROVE FALSE
  <2>1. j < k
    BY <1>3
  <2>2. Place(K, j) < 1 /\ Place(K, j) \in 1 .. Cardinality(K)
    BY <1>2, <2>1, PlaceFacts
  <2> QED BY <1>1, <2>2
<1> QED BY <1>3 DEF Activity!Smallest

(***************************************************************************)
(* What a sink knows of the invocations whose run it still follows.        *)
(***************************************************************************)
Call == [id : Nat, run : Agent, active : BOOLEAN]
Alias == Agent \X (1..MaxId)
Following == [calls : Seq(Call), alias : [Alias -> Nat], gen : Nat, hidden : SUBSET SUBSET Alias]
TurnRecord == [stage : {"new", "run", "over"}, down : Nat, runs : SUBSET Agent,
               run : Agent \cup {"none"}, bad : BOOLEAN, out : {"none", "ok", "error"}]
SinkRecord == [run : Agent, turn : Turn]
VerdictRecord == [run : Agent, v : {"ok", "error"}]
Invocation == [st : {"new", "live", "ending", "over"}, ids : SUBSET (1..MaxId), hid : BOOLEAN, pub : SUBSET (Turn \X Nat)]
ActivityTypes ==
    /\ turn \in [Turn -> TurnRecord] /\ acts \in [Turn -> Following] /\ inv \in [Inv -> Invocation]
    /\ sinks \in Seq(SinkRecord) /\ verdicts \in Seq(VerdictRecord)
    /\ sub \in [on : BOOLEAN, down : Nat, starts : Nat]
    /\ ended \in [Agent -> {"no", "ok", "error"}]

Mine(v) == TurnOf(RunOf(v))
Root(v) == Activity!Smallest(IdsOf(v))
Tracked(r) == \E k \in DOMAIN sinks : sinks[k].run = r
\* A sink is of its run's turn, that is running in this generation.
SinkInv ==
    /\ sinks # <<>> => sub.on
    /\ \A k \in DOMAIN sinks :
          /\ sinks[k].turn = TurnOf(sinks[k].run)
          /\ \A t \in {sinks[k].turn} : turn[t].stage = "run" /\ turn[t].down = sub.down /\ sinks[k].run \in turn[t].runs
StartedInv ==
    /\ \A t \in Turn : turn[t].stage = "new" => turn[t].runs = {}
    /\ \A t \in Turn : \A r \in turn[t].runs : TurnOf(r) = t
    /\ \A v \in Inv : inv[v].st # "new" => RunOf(v) \in turn[Mine(v)].runs
VerdictInv ==
    /\ \A k \in DOMAIN verdicts : verdicts[k].v = ended[verdicts[k].run]
    /\ \A t \in Turn : turn[t].out = "error" =>
          turn[t].stage = "over" /\ (turn[t].bad \/ (turn[t].run # "none" /\ ended[turn[t].run] = "error"))
\* Calls have different public ids, and an alias is of the run of its call.
CallsAt(c, runs) ==
    /\ \A k \in DOMAIN c.calls : c.calls[k].id \in 1..(MaxId + c.gen) /\ c.calls[k].run \in runs
    /\ \A j, k \in DOMAIN c.calls : c.calls[j].id = c.calls[k].id => j = k
    /\ \A a \in Alias : c.alias[a] # 0 => c.alias[a] \in DOMAIN c.calls /\ c.calls[c.alias[a]].run = a[1]
CallsInv == \A t \in Turn : CallsAt(acts[t], turn[t].runs)
\* What was shown of an invocation: one id of its turn, that no other one has.
PubAt(v) ==
    /\ inv[v].ids \subseteq IdsOf(v)
    /\ inv[v].st = "new" => inv[v].ids = {} /\ ~inv[v].hid
    /\ inv[v].st # "new" /\ IdsOf(v) # {} => Root(v) \in inv[v].ids
    /\ inv[v].st = "new" \/ inv[v].hid => inv[v].pub = {}
    /\ \A p, q \in inv[v].pub : p = q
    /\ \A p \in inv[v].pub : p[1] = Mine(v)
    /\ turn[Mine(v)].stage = "run" => \A p \in inv[v].pub : p[2] \in Activity!Used(acts[Mine(v)])
PubInv ==
    /\ \A v \in Inv : PubAt(v)
    /\ \A v, w \in Inv : v # w => inv[v].pub \cap inv[w].pub = {}
\* An alias was named by an invocation that is shown.
NamedInv == \A t \in Turn : \A a \in Alias : acts[t].alias[a] # 0 =>
    \E w \in Inv : RunOf(w) = a[1] /\ ~inv[w].hid /\ a[2] \in inv[w].ids
\* An invocation that is not over and its call, that is active until the first
\* terminal: the ids it was named by lead to the call, and no ids but its own do.
Opened(v) == inv[v].st \in {"live", "ending"}
Sees(v) == Opened(v) /\ ~inv[v].hid /\ Tracked(RunOf(v))
OwnsIn(c, v, k) ==
    /\ k \in DOMAIN c.calls /\ (c.calls[k].active <=> inv[v].st = "live") /\ c.calls[k].run = RunOf(v)
    /\ <<Mine(v), c.calls[k].id>> \in inv[v].pub
    /\ \A i \in inv[v].ids : c.alias[<<RunOf(v), i>>] = k
    /\ \A i \in 1..MaxId : c.alias[<<RunOf(v), i>>] = k => i \in IdsOf(v)
Owns(v, k) == OwnsIn(acts[Mine(v)], v, k)
ShownInv == \A v \in Inv : Sees(v) => \E k \in DOMAIN acts[Mine(v)].calls : Owns(v, k)
ActiveInv == \A t \in Turn : \A k \in DOMAIN acts[t].calls :
    acts[t].calls[k].active /\ Tracked(acts[t].calls[k].run) => \E v \in Inv : Sees(v) /\ Mine(v) = t /\ Owns(v, k)
\* A marker is of one family of ids and has its root; no visible invocation that is
\* not over is marked, and every hidden one is.
Kin(u, a) == \E w \in Inv : RunOf(w) = RunOf(u) /\ a[1] = RunOf(u) /\ a[2] \in IdsOf(w) /\ Root(w) = Root(u)
Family(m) == \E u \in Inv : IdsOf(u) # {} /\ <<RunOf(u), Root(u)>> \in m /\ \A a \in m : Kin(u, a)
Marked(v, h) == \E m \in h : Activity!Keys(RunOf(v), inv[v].ids) \subseteq m
Unmarked(v, h) == \A m \in h : <<RunOf(v), Root(v)>> \notin m
Hides(v) == Opened(v) /\ inv[v].hid /\ Tracked(RunOf(v))
HiddenInv ==
    /\ \A t \in Turn : \A m \in acts[t].hidden : Family(m)
    /\ \A v \in Inv : Sees(v) /\ IdsOf(v) # {} => Unmarked(v, acts[Mine(v)].hidden)
    /\ \A v \in Inv : Hides(v) => inv[v].ids # {} /\ Marked(v, acts[Mine(v)].hidden)
ActivityInv ==
    /\ ActivityTypes /\ SinkInv /\ StartedInv /\ VerdictInv
    /\ CallsInv /\ PubInv /\ NamedInv /\ ShownInv /\ ActiveInv /\ HiddenInv

-----------------------------------------------------------------------------
LEMMA ElementOf == ASSUME NEW S, NEW s \in Seq(S) PROVE 0 \notin DOMAIN s /\ \A k \in DOMAIN s : s[k] \in S
  OBVIOUS

LEMMA ActivityInit == ASSUME ActivityConstants PROVE Activity!Init => ActivityInv
<1> SUFFICES ASSUME Activity!Init PROVE ActivityInv
  OBVIOUS
<1>1. /\ turn = [t \in Turn |-> [stage |-> "new", down |-> 0, runs |-> {}, run |-> "none", bad |-> FALSE, out |-> "none"]]
      /\ acts = [t \in Turn |-> Activity!EmptySink]
      /\ sinks = <<>> /\ verdicts = <<>> /\ sub = [on |-> TRUE, down |-> 0, starts |-> 0]
      /\ inv = [v \in Inv |-> [st |-> "new", ids |-> {}, hid |-> FALSE, pub |-> {}]]
      /\ ended = [r \in Agent |-> "no"]
  BY DEF Activity!Init
<1>2. /\ Activity!EmptySink \in Following /\ Activity!EmptySink.calls = <<>> /\ Activity!EmptySink.hidden = {}
      /\ \A a \in Alias : Activity!EmptySink.alias[a] = 0
  <2>1. [a \in Alias |-> 0] \in [Alias -> Nat]
    OBVIOUS
  <2> QED BY <2>1 DEF Activity!EmptySink, Following, Alias
<1>3. ActivityTypes
  BY <1>1, <1>2 DEF ActivityTypes, TurnRecord, Invocation
<1>4. SinkInv /\ StartedInv /\ VerdictInv
  BY <1>1 DEF SinkInv, StartedInv, VerdictInv, Tracked
<1>5. CallsInv /\ ActiveInv
  BY <1>1, <1>2 DEF CallsInv, CallsAt, ActiveInv
<1>6. PubInv /\ ShownInv
  BY <1>1 DEF PubInv, PubAt, ShownInv, Sees, Opened
<1>8. NamedInv
  BY <1>1, <1>2 DEF NamedInv
<1>7. HiddenInv
  BY <1>1, <1>2 DEF HiddenInv, Sees, Hides, Opened, ActivityConstants
<1> QED BY <1>3, <1>4, <1>5, <1>6, <1>7, <1>8 DEF ActivityInv

\* A step that leaves the invocations alone, may end a turn's sink, and follows only
\* runs that it followed or that begin.
LEMMA Untouched ==
    ASSUME ActivityConstants, ActivityInv, ActivityTypes', SinkInv', inv' = inv,
           \A t \in Turn : acts'[t] = acts[t] \/ (acts'[t] = Activity!EmptySink /\ turn'[t].stage # "run"),
           \A t \in Turn : \A r \in turn'[t].runs : TurnOf(r) = t,
           \A t \in Turn : turn[t].runs \subseteq turn'[t].runs /\ (turn'[t].stage = "run" => turn[t].stage # "over")
                           /\ (turn'[t].stage = "new" => turn[t].stage = "new" /\ turn'[t].runs = turn[t].runs),
           \A r \in Agent : Tracked(r)' => Tracked(r) \/ r \notin turn[TurnOf(r)].runs
    PROVE  StartedInv' /\ CallsInv' /\ PubInv' /\ NamedInv' /\ ShownInv' /\ ActiveInv' /\ HiddenInv'
<1>1. ActivityTypes /\ StartedInv /\ CallsInv /\ PubInv /\ NamedInv /\ ShownInv /\ ActiveInv /\ HiddenInv
  BY DEF ActivityInv
<1>2. /\ Activity!EmptySink.calls = <<>> /\ Activity!EmptySink.hidden = {}
      /\ \A a \in Alias : Activity!EmptySink.alias[a] = 0
  BY DEF Activity!EmptySink, Alias
<1>3. \A v \in Inv : RunOf(v) \in Agent /\ Mine(v) \in Turn
  BY DEF ActivityConstants, Mine
<1>4. \A r \in Agent : Tracked(r)' => turn'[TurnOf(r)].stage = "run" /\ r \in turn'[TurnOf(r)].runs
  BY DEF SinkInv, Tracked
<1>5. StartedInv'
  BY <1>1, <1>3 DEF StartedInv
<1>6. CallsInv'
  <2> SUFFICES ASSUME NEW t \in Turn PROVE CallsAt(acts'[t], turn'[t].runs)
    BY DEF CallsInv
  <2>1. CASE acts'[t] = acts[t]
    BY <1>1, <2>1 DEF CallsInv, CallsAt
  <2>2. CASE acts'[t] = Activity!EmptySink
    BY <1>2, <2>2 DEF CallsAt
  <2> QED BY <2>1, <2>2
<1>7. PubInv'
  <2>1. ASSUME NEW v \in Inv PROVE PubAt(v)'
    <3>1. PubAt(v)
      BY <1>1 DEF PubInv
    <3>2. ASSUME turn'[Mine(v)].stage = "run", NEW p \in inv[v].pub PROVE p[2] \in Activity!Used(acts'[Mine(v)])
      <4>1. acts'[Mine(v)] = acts[Mine(v)]
        BY <1>3, <3>2
      <4>2. turn[Mine(v)].stage \in {"new", "run"}
        BY <1>1, <1>3, <3>2 DEF ActivityTypes, TurnRecord
      <4>3. turn[Mine(v)].stage # "new"
        BY <1>1, <1>3, <3>1, <3>2 DEF StartedInv, PubAt
      <4> QED BY <3>1, <3>2, <4>1, <4>2, <4>3 DEF PubAt
    <3> QED BY <3>1, <3>2 DEF PubAt
  <2> QED BY <1>1, <2>1 DEF PubInv
<1>12. NamedInv'
  <2> SUFFICES ASSUME NEW t \in Turn, NEW a \in Alias, acts'[t].alias[a] # 0
               PROVE  \E w \in Inv : RunOf(w) = a[1] /\ ~inv[w].hid /\ a[2] \in inv[w].ids
    BY DEF NamedInv
  <2>1. acts'[t] = acts[t]
    BY <1>2
  <2> QED BY <1>1, <2>1 DEF NamedInv
<1>8. \A v \in Inv : Opened(v) /\ Tracked(RunOf(v))' => Tracked(RunOf(v)) /\ acts'[Mine(v)] = acts[Mine(v)]
  BY <1>1, <1>3, <1>4 DEF StartedInv, Mine, Opened
<1>9. ShownInv'
  <2> SUFFICES ASSUME NEW v \in Inv, Sees(v)' PROVE \E k \in DOMAIN acts'[Mine(v)].calls : Owns(v, k)'
    BY DEF ShownInv
  <2>1. Sees(v) /\ acts'[Mine(v)] = acts[Mine(v)]
    BY <1>8 DEF Sees, Opened
  <2>2. PICK k \in DOMAIN acts[Mine(v)].calls : Owns(v, k)
    BY <1>1, <2>1 DEF ShownInv
  <2>3. Owns(v, k)'
    BY <2>1, <2>2 DEF Owns, OwnsIn
  <2> QED BY <2>1, <2>3
<1>10. ActiveInv'
  <2> SUFFICES ASSUME NEW t \in Turn, NEW k \in DOMAIN acts'[t].calls, (acts[t].calls[k].active /\ Tracked(acts[t].calls[k].run))'
               PROVE  \E v \in Inv : Sees(v)' /\ Mine(v) = t /\ Owns(v, k)'
    BY DEF ActiveInv
  <2>1. acts'[t] = acts[t]
    BY <1>2
  <2>2. PICK r : r = acts[t].calls[k].run
    OBVIOUS
  <2>3. r \in turn[t].runs /\ r \in Agent
    BY <1>1, <2>1, <2>2 DEF CallsInv, CallsAt, ActivityTypes, TurnRecord
  <2>5. Tracked(r)'
    BY <2>1, <2>2 DEF Tracked
  <2>6. CASE Tracked(r)
    <3>1. PICK v \in Inv : Sees(v) /\ Mine(v) = t /\ Owns(v, k)
      BY <1>1, <2>1, <2>2, <2>6 DEF ActiveInv
    <3>2. RunOf(v) = r
      BY <2>2, <3>1 DEF Owns, OwnsIn
    <3>3. Sees(v)' /\ Owns(v, k)'
      BY <2>1, <2>5, <3>1, <3>2 DEF Sees, Opened, Owns, OwnsIn
    <3> QED BY <3>1, <3>3
  <2>7. CASE r \notin turn[TurnOf(r)].runs
    BY <1>1, <2>3, <2>7 DEF StartedInv
  <2> QED BY <2>3, <2>5, <2>6, <2>7
<1>11. HiddenInv'
  <2>1. ASSUME NEW t \in Turn, NEW m \in acts'[t].hidden PROVE Family(m)
    BY <1>1, <1>2, <2>1 DEF HiddenInv
  <2>2. ASSUME NEW v \in Inv, Sees(v)', IdsOf(v) # {} PROVE Unmarked(v, acts'[Mine(v)].hidden)
    BY <1>1, <1>8, <2>2 DEF HiddenInv, Sees, Opened
  <2>3. ASSUME NEW v \in Inv, Hides(v)' PROVE inv[v].ids # {} /\ Marked(v, acts'[Mine(v)].hidden)
    BY <1>1, <1>8, <2>3 DEF HiddenInv, Hides, Opened
  <2> QED BY <2>1, <2>2, <2>3 DEF HiddenInv, Marked
<1> QED BY <1>5, <1>6, <1>7, <1>9, <1>10, <1>11, <1>12

-----------------------------------------------------------------------------
LEMMA FindFacts ==
    ASSUME NEW s, NEW r, 0 \notin DOMAIN s
    PROVE  /\ Activity!Find(s, r) # 0 => Activity!Find(s, r) \in DOMAIN s /\ s[Activity!Find(s, r)].run = r
           /\ Activity!Find(s, r) = 0 => \A k \in DOMAIN s : s[k].run # r
  BY DEF Activity!Find

\* Track adds its entry, and what else is there was there.
LEMMA TrackFacts ==
    ASSUME ActivityConstants, NEW S, NEW s \in Seq(S), NEW e \in S, NEW z, z = Activity!Track(s, e)
    PROVE  z \in Seq(S) /\ \A j \in DOMAIN z : z[j] = e \/ \E k \in DOMAIN s : z[j] = s[k]
<1>1. DOMAIN s = 1 .. Len(s) /\ Len(s) \in Nat
  OBVIOUS
<1>2. CASE Activity!Find(s, e.run) # 0
  <2>1. PICK i : i = Activity!Find(s, e.run)
    OBVIOUS
  <2>2. i \in DOMAIN s /\ z = [s EXCEPT ![i] = e]
    BY <1>2, <2>1, FindFacts, ElementOf DEF Activity!Track
  <2>3. z \in Seq(S) /\ DOMAIN z = DOMAIN s /\ \A j \in DOMAIN s : z[j] = IF j = i THEN e ELSE s[j]
    BY <2>2
  <2> QED BY <2>3
<1>3. CASE Activity!Find(s, e.run) = 0
  <2>1. PICK y : y = IF Len(s) >= MaxTracked THEN Tail(s) ELSE s
    OBVIOUS
  <2>2. z = Append(y, e)
    BY <1>3, <2>1 DEF Activity!Track
  <2>3. y \in Seq(S) /\ \A j \in DOMAIN y : \E k \in DOMAIN s : y[j] = s[k]
    <3>1. CASE Len(s) >= MaxTracked
      <4>1. s # <<>> /\ y = Tail(s)
        BY <1>1, <2>1, <3>1 DEF ActivityConstants
      <4>2. y \in Seq(S) /\ Len(y) = Len(s) - 1 /\ \A j \in 1 .. Len(y) : y[j] = s[j + 1]
        BY <4>1
      <4>3. ASSUME NEW j \in DOMAIN y PROVE \E k \in DOMAIN s : y[j] = s[k]
        <5>1. j \in 1 .. Len(y) /\ j + 1 \in DOMAIN s
          BY <1>1, <4>2
        <5> QED BY <4>2, <5>1
      <4> QED BY <4>2, <4>3
    <3>2. CASE ~(Len(s) >= MaxTracked)
      BY <2>1, <3>2
    <3> QED BY <3>1, <3>2
  <2>4. \A j \in DOMAIN z : z[j] = e \/ (j \in DOMAIN y /\ z[j] = y[j])
    BY <2>2, <2>3
  <2> QED BY <2>2, <2>3, <2>4
<1> QED BY <1>2, <1>3

\* Subscribe, Begin and an error payload; LifecycleEvent.
LEMMA SubscribeKeeps == ASSUME ActivityConstants, ActivityInv, Activity!Subscribe PROVE ActivityInv'
<1>1. ActivityTypes /\ SinkInv /\ VerdictInv /\ StartedInv
  BY DEF ActivityInv
<1>2. /\ sub' = [sub EXCEPT !.on = TRUE, !.starts = @ + 1]
      /\ turn' = turn /\ acts' = acts /\ sinks' = sinks /\ verdicts' = verdicts /\ inv' = inv /\ ended' = ended
  BY DEF Activity!Subscribe
<1>3. ActivityTypes' /\ SinkInv' /\ VerdictInv'
  <2>1. sub' \in [on : BOOLEAN, down : Nat, starts : Nat] /\ sub'.down = sub.down /\ sub'.on
    <3>1. PICK z : z = sub
      OBVIOUS
    <3>2. z \in [on : BOOLEAN, down : Nat, starts : Nat]
      BY <1>1, <3>1 DEF ActivityTypes
    <3>3. z.down + 1 \in Nat /\ z.starts + 1 \in Nat
      BY <3>2
    <3> QED BY <1>2, <3>1, <3>2, <3>3
  <2>2. ActivityTypes'
    BY <1>1, <1>2, <2>1 DEF ActivityTypes
  <2>3. SinkInv'
    BY <1>1, <1>2, <2>1 DEF SinkInv
  <2>4. VerdictInv'
    BY <1>1, <1>2 DEF VerdictInv
  <2> QED BY <2>2, <2>3, <2>4
<1>4. \A r \in Agent : Tracked(r)' => Tracked(r)
  BY <1>2 DEF Tracked
<1>5. StartedInv' /\ CallsInv' /\ PubInv' /\ NamedInv' /\ ShownInv' /\ ActiveInv' /\ HiddenInv'
  BY <1>1, <1>2, <1>3, <1>4, Untouched DEF StartedInv
<1> QED BY <1>3, <1>5 DEF ActivityInv

LEMMA UnsubscribeKeeps == ASSUME ActivityConstants, ActivityInv, Activity!Unsubscribe PROVE ActivityInv'
<1>1. ActivityTypes /\ SinkInv /\ VerdictInv /\ StartedInv
  BY DEF ActivityInv
<1>2. /\ sub' = [sub EXCEPT !.on = FALSE, !.down = @ + 1] /\ sinks' = <<>> /\ verdicts' = <<>>
      /\ turn' = turn /\ acts' = acts /\ inv' = inv /\ ended' = ended
  BY DEF Activity!Unsubscribe
<1>3. ActivityTypes' /\ SinkInv' /\ VerdictInv'
  <2>1. sub' \in [on : BOOLEAN, down : Nat, starts : Nat]
    <3>1. PICK z : z = sub
      OBVIOUS
    <3>2. z \in [on : BOOLEAN, down : Nat, starts : Nat]
      BY <1>1, <3>1 DEF ActivityTypes
    <3>3. z.down + 1 \in Nat /\ z.starts + 1 \in Nat
      BY <3>2
    <3> QED BY <1>2, <3>1, <3>2, <3>3
  <2>2. ActivityTypes'
    BY <1>1, <1>2, <2>1 DEF ActivityTypes
  <2>3. SinkInv'
    BY <1>1, <1>2, <2>1 DEF SinkInv
  <2>4. VerdictInv'
    BY <1>1, <1>2 DEF VerdictInv
  <2> QED BY <2>2, <2>3, <2>4
<1>4. \A r \in Agent : Tracked(r)' => Tracked(r)
  BY <1>2 DEF Tracked
<1>5. StartedInv' /\ CallsInv' /\ PubInv' /\ NamedInv' /\ ShownInv' /\ ActiveInv' /\ HiddenInv'
  BY <1>1, <1>2, <1>3, <1>4, Untouched DEF StartedInv
<1> QED BY <1>3, <1>5 DEF ActivityInv

LEMMA BeginKeeps == ASSUME ActivityConstants, ActivityInv, NEW t \in Turn, Activity!Begin(t) PROVE ActivityInv'
<1>1. ActivityTypes /\ SinkInv /\ VerdictInv /\ StartedInv
  BY DEF ActivityInv
<1>2. /\ turn[t].stage = "new" /\ turn' = [turn EXCEPT ![t].stage = "run", ![t].down = sub.down]
      /\ sub' = sub /\ sinks' = sinks /\ verdicts' = verdicts /\ acts' = acts /\ inv' = inv /\ ended' = ended
  BY DEF Activity!Begin
<1>3. ActivityTypes' /\ SinkInv' /\ VerdictInv'
  <2>0. PICK z : z = [turn[t] EXCEPT !.stage = "run", !.down = sub.down]
    OBVIOUS
  <2>9. turn[t] \in TurnRecord /\ z \in TurnRecord /\ turn' = [turn EXCEPT ![t] = z]
    <3>1. turn[t] \in TurnRecord
      BY <1>1 DEF ActivityTypes
    <3>2. z \in TurnRecord
      BY <1>1, <2>0, <3>1 DEF TurnRecord, ActivityTypes
    <3> QED BY <1>1, <1>2, <2>0, <3>1, <3>2 DEF ActivityTypes, TurnRecord
  <2>1. ActivityTypes'
    BY <1>1, <1>2, <2>9 DEF ActivityTypes
  <2>2. SinkInv'
    <3>1. ASSUME NEW k \in DOMAIN sinks PROVE sinks[k].turn \in Turn \ {t}
      <4>1. sinks[k] \in SinkRecord
        BY <1>1, ElementOf DEF ActivityTypes
      <4> QED BY <1>1, <1>2, <4>1 DEF SinkInv, SinkRecord
    <3> QED BY <1>1, <1>2, <3>1 DEF SinkInv, ActivityTypes
  <2>3. VerdictInv'
    BY <1>1, <1>2 DEF VerdictInv, ActivityTypes
  <2> QED BY <2>1, <2>2, <2>3
<1>4. \A r \in Agent : Tracked(r)' => Tracked(r)
  BY <1>2 DEF Tracked
<1>5. \A x \in Turn : turn'[x].runs = turn[x].runs /\ (turn'[x].stage = "run" => turn[x].stage # "over") /\ (turn'[x].stage = "new" => turn[x].stage = "new")
  BY <1>1, <1>2 DEF ActivityTypes
<1>6. StartedInv' /\ CallsInv' /\ PubInv' /\ NamedInv' /\ ShownInv' /\ ActiveInv' /\ HiddenInv'
  BY <1>1, <1>2, <1>3, <1>4, <1>5, Untouched DEF StartedInv
<1> QED BY <1>3, <1>6 DEF ActivityInv

LEMMA ErrorPayloadKeeps == ASSUME ActivityConstants, ActivityInv, NEW t \in Turn, Activity!ErrorPayload(t) PROVE ActivityInv'
<1>1. ActivityTypes /\ SinkInv /\ VerdictInv /\ StartedInv
  BY DEF ActivityInv
<1>2. /\ turn[t].stage = "run" /\ turn' = [turn EXCEPT ![t].bad = TRUE]
      /\ sub' = sub /\ sinks' = sinks /\ verdicts' = verdicts /\ acts' = acts /\ inv' = inv /\ ended' = ended
  BY DEF Activity!ErrorPayload
<1>3. ActivityTypes' /\ SinkInv' /\ VerdictInv'
  <2>0. PICK z : z = [turn[t] EXCEPT !.bad = TRUE]
    OBVIOUS
  <2>9. turn[t] \in TurnRecord /\ z \in TurnRecord /\ turn' = [turn EXCEPT ![t] = z]
    <3>1. turn[t] \in TurnRecord
      BY <1>1 DEF ActivityTypes
    <3>2. z \in TurnRecord
      BY <1>1, <2>0, <3>1 DEF TurnRecord, ActivityTypes
    <3> QED BY <1>1, <1>2, <2>0, <3>1, <3>2 DEF ActivityTypes, TurnRecord
  <2>1. ActivityTypes'
    BY <1>1, <1>2, <2>9 DEF ActivityTypes
  <2>2. SinkInv'
    BY <1>1, <1>2 DEF SinkInv, ActivityTypes
  <2>3. VerdictInv'
    BY <1>1, <1>2 DEF VerdictInv, ActivityTypes
  <2> QED BY <2>1, <2>2, <2>3
<1>4. \A r \in Agent : Tracked(r)' => Tracked(r)
  BY <1>2 DEF Tracked
<1>5. \A x \in Turn : turn'[x].runs = turn[x].runs /\ turn'[x].stage = turn[x].stage
  BY <1>1, <1>2 DEF ActivityTypes
<1>6. StartedInv' /\ CallsInv' /\ PubInv' /\ NamedInv' /\ ShownInv' /\ ActiveInv' /\ HiddenInv'
  BY <1>1, <1>2, <1>3, <1>4, <1>5, Untouched DEF StartedInv
<1> QED BY <1>3, <1>6 DEF ActivityInv

LEMMA LifecycleEventKeeps ==
    ASSUME ActivityConstants, ActivityInv, NEW r \in Agent, NEW x \in {"ok", "error"}, Activity!LifecycleEvent(r, x)
    PROVE  ActivityInv'
<1>1. ActivityTypes /\ SinkInv /\ VerdictInv /\ StartedInv
  BY DEF ActivityInv
<1>2. /\ ended[r] = "no" /\ ended' = [ended EXCEPT ![r] = x]
      /\ verdicts' = verdicts \/ verdicts' = Activity!Track(verdicts, [run |-> r, v |-> x])
      /\ sub' = sub /\ sinks' = sinks /\ turn' = turn /\ acts' = acts /\ inv' = inv
  BY DEF Activity!LifecycleEvent
<1>3. PICK e \in VerdictRecord : e = [run |-> r, v |-> x]
  BY DEF VerdictRecord
<1>4. /\ verdicts' \in Seq(VerdictRecord)
      /\ \A j \in DOMAIN verdicts' : verdicts'[j] = e \/ \E k \in DOMAIN verdicts : verdicts'[j] = verdicts[k]
  <2>1. CASE verdicts' = verdicts
    BY <1>1, <2>1 DEF ActivityTypes
  <2>2. CASE verdicts' = Activity!Track(verdicts, e)
    <3>1. verdicts \in Seq(VerdictRecord)
      BY <1>1 DEF ActivityTypes
    <3> QED BY <2>2, <3>1, TrackFacts
  <2> QED BY <1>2, <1>3, <2>1, <2>2
<1>5. \A q \in Agent : ended[q] # "no" => q # r /\ ended'[q] = ended[q]
  BY <1>1, <1>2 DEF ActivityTypes
<1>6. ActivityTypes' /\ SinkInv'
  BY <1>1, <1>2, <1>4 DEF ActivityTypes, SinkInv
<1>7. VerdictInv'
  <2>1. ASSUME NEW j \in DOMAIN verdicts' PROVE verdicts'[j].v = ended'[verdicts'[j].run]
    <3>1. CASE verdicts'[j] = e
      BY <1>1, <1>2, <1>3, <3>1 DEF ActivityTypes
    <3>2. ASSUME NEW k \in DOMAIN verdicts, verdicts'[j] = verdicts[k] PROVE verdicts'[j].v = ended'[verdicts'[j].run]
      <4>1. verdicts[k] \in VerdictRecord /\ verdicts[k].v = ended[verdicts[k].run]
        BY <1>1, ElementOf DEF ActivityTypes, VerdictInv
      <4>2. verdicts[k].run \in Agent /\ verdicts[k].v \in {"ok", "error"}
        BY <4>1 DEF VerdictRecord
      <4> QED BY <1>5, <3>2, <4>1, <4>2
    <3> QED BY <1>4, <3>1, <3>2
  <2>2. ASSUME NEW t \in Turn, turn[t].out = "error"
        PROVE  turn[t].stage = "over" /\ (turn[t].bad \/ (turn[t].run # "none" /\ ended'[turn[t].run] = "error"))
    <3>1. turn[t].run \in Agent \cup {"none"}
      BY <1>1 DEF ActivityTypes, TurnRecord
    <3> QED BY <1>1, <1>5, <2>2, <3>1 DEF VerdictInv
  <2> QED BY <1>2, <2>1, <2>2 DEF VerdictInv
<1>8. \A q \in Agent : Tracked(q)' => Tracked(q)
  BY <1>2 DEF Tracked
<1>9. StartedInv' /\ CallsInv' /\ PubInv' /\ NamedInv' /\ ShownInv' /\ ActiveInv' /\ HiddenInv'
  BY <1>1, <1>2, <1>6, <1>8, Untouched DEF StartedInv
<1> QED BY <1>6, <1>7, <1>9 DEF ActivityInv

LEMMA RunStartKeeps == ASSUME ActivityConstants, ActivityInv, NEW r \in Agent, Activity!RunStart(r) PROVE ActivityInv'
<1>1. ActivityTypes /\ SinkInv /\ VerdictInv /\ StartedInv
  BY DEF ActivityInv
<1>2. PICK t \in Turn : t = TurnOf(r)
  BY DEF ActivityConstants
<1>3. /\ turn[t].stage = "run" /\ r \notin turn[t].runs
      /\ turn' = [turn EXCEPT ![t].runs = @ \cup {r}, ![t].run = r]
      /\ sinks' = IF Activity!MayRegister(t) THEN Activity!Track(sinks, [run |-> r, turn |-> t]) ELSE sinks
      /\ sub' = sub /\ verdicts' = verdicts /\ acts' = acts /\ inv' = inv /\ ended' = ended
  BY <1>2 DEF Activity!RunStart
<1>4. PICK e \in SinkRecord : e = [run |-> r, turn |-> t]
  BY DEF SinkRecord
<1>5. /\ sinks' \in Seq(SinkRecord)
      /\ sinks' = sinks \/ Activity!MayRegister(t)
      /\ \A j \in DOMAIN sinks' : (sinks'[j] = e /\ Activity!MayRegister(t)) \/ \E k \in DOMAIN sinks : sinks'[j] = sinks[k]
  <2>0. sinks \in Seq(SinkRecord)
    BY <1>1 DEF ActivityTypes
  <2>1. CASE ~Activity!MayRegister(t)
    BY <1>3, <2>0, <2>1
  <2>2. CASE Activity!MayRegister(t)
    BY <1>3, <1>4, <2>0, <2>2, TrackFacts
  <2> QED BY <2>1, <2>2
<1>6. /\ \A x \in Turn : x # t => turn'[x] = turn[x]
      /\ turn'[t].stage = "run" /\ turn'[t].runs = turn[t].runs \cup {r} /\ turn'[t].down = turn[t].down /\ turn'[t].out = turn[t].out /\ turn'[t].bad = turn[t].bad
  BY <1>1, <1>3 DEF ActivityTypes
<1>7. ActivityTypes'
  <2>1. PICK z : z = [turn[t] EXCEPT !.runs = @ \cup {r}, !.run = r]
    OBVIOUS
  <2>2. turn[t] \in TurnRecord
    BY <1>1 DEF ActivityTypes
  <2>3. z \in TurnRecord
    BY <2>1, <2>2 DEF TurnRecord
  <2>4. turn' = [turn EXCEPT ![t] = z]
    BY <1>1, <1>3, <2>1, <2>2 DEF ActivityTypes, TurnRecord
  <2> QED BY <1>1, <1>3, <1>5, <2>3, <2>4 DEF ActivityTypes
<1>8. SinkInv'
  <2>1. Activity!MayRegister(t) => sub.on /\ turn[t].down = sub.down
    BY DEF Activity!MayRegister
  <2>2. sinks' # <<>> => sub'.on
    BY <1>1, <1>3, <1>5, <2>1 DEF SinkInv
  <2>3. ASSUME NEW j \in DOMAIN sinks'
        PROVE  /\ sinks'[j].turn = TurnOf(sinks'[j].run)
               /\ \A x \in {sinks'[j].turn} : turn'[x].stage = "run" /\ turn'[x].down = sub.down /\ sinks'[j].run \in turn'[x].runs
    <3>1. CASE sinks'[j] = e /\ Activity!MayRegister(t)
      BY <1>2, <1>4, <1>6, <2>1, <3>1
    <3>2. ASSUME NEW k \in DOMAIN sinks, sinks'[j] = sinks[k]
          PROVE  /\ sinks'[j].turn = TurnOf(sinks'[j].run)
                 /\ \A x \in {sinks'[j].turn} : turn'[x].stage = "run" /\ turn'[x].down = sub.down /\ sinks'[j].run \in turn'[x].runs
      <4>1. sinks[k].turn \in Turn
        <5>1. sinks[k] \in SinkRecord
          BY <1>1, ElementOf DEF ActivityTypes
        <5> QED BY <5>1 DEF SinkRecord
      <4> QED BY <1>1, <1>6, <3>2, <4>1 DEF SinkInv
    <3> QED BY <1>5, <3>1, <3>2
  <2> QED BY <1>3, <2>2, <2>3 DEF SinkInv
<1>9. VerdictInv'
  BY <1>1, <1>3, <1>6 DEF VerdictInv
<1>10. \A q \in Agent : Tracked(q)' => Tracked(q) \/ q \notin turn[TurnOf(q)].runs
  <2> SUFFICES ASSUME NEW q \in Agent, NEW j \in DOMAIN sinks', sinks'[j].run = q PROVE Tracked(q) \/ q \notin turn[TurnOf(q)].runs
    BY DEF Tracked
  <2>1. CASE sinks'[j] = e
    BY <1>2, <1>3, <1>4, <2>1
  <2>2. CASE \E k \in DOMAIN sinks : sinks'[j] = sinks[k]
    BY <2>2 DEF Tracked
  <2> QED BY <1>5, <2>1, <2>2
<1>11. \A x \in Turn : \A q \in turn'[x].runs : TurnOf(q) = x
  BY <1>1, <1>2, <1>6 DEF StartedInv
<1>12. \A x \in Turn : turn[x].runs \subseteq turn'[x].runs /\ (turn'[x].stage = "run" => turn[x].stage # "over")
                       /\ (turn'[x].stage = "new" => turn[x].stage = "new" /\ turn'[x].runs = turn[x].runs)
  BY <1>3, <1>6
<1>13. StartedInv' /\ CallsInv' /\ PubInv' /\ NamedInv' /\ ShownInv' /\ ActiveInv' /\ HiddenInv'
  BY <1>3, <1>7, <1>8, <1>10, <1>11, <1>12, Untouched
<1> QED BY <1>7, <1>8, <1>9, <1>13 DEF ActivityInv

LEMMA FinishKeeps ==
    ASSUME ActivityConstants, ActivityInv, NEW t \in Turn, NEW b \in BOOLEAN, Activity!Finish(t, b) PROVE ActivityInv'
<1>1. ActivityTypes /\ SinkInv /\ VerdictInv /\ StartedInv
  BY DEF ActivityInv
<1>2. PICK o : o = Activity!Outcome(t, b)
  OBVIOUS
<1>3. PICK K \in SUBSET DOMAIN sinks : K = {k \in DOMAIN sinks : ~(sinks[k].run \in turn[t].runs /\ sinks[k].turn = t)}
  OBVIOUS
<1>4. PICK L \in SUBSET DOMAIN verdicts : L = {k \in DOMAIN verdicts : verdicts[k].run \notin turn[t].runs}
  OBVIOUS
<1>5. /\ turn[t].stage = "run"
      /\ turn' = [turn EXCEPT ![t].stage = "over", ![t].bad = @ \/ b, ![t].out = o]
      /\ sinks' = Activity!At(sinks, K) /\ verdicts' = Activity!At(verdicts, L)
      /\ acts' = [acts EXCEPT ![t] = Activity!EmptySink]
      /\ sub' = sub /\ inv' = inv /\ ended' = ended
  BY <1>2, <1>3, <1>4 DEF Activity!Finish, Activity!Without
<1>6. /\ sinks' \in Seq(SinkRecord) /\ \A j \in DOMAIN sinks' : \E k \in K : sinks'[j] = sinks[k]
      /\ verdicts' \in Seq(VerdictRecord) /\ \A j \in DOMAIN verdicts' : \E k \in L : verdicts'[j] = verdicts[k]
  <2>1. sinks \in Seq(SinkRecord) /\ verdicts \in Seq(VerdictRecord)
    BY <1>1 DEF ActivityTypes
  <2> QED BY <1>5, <2>1, AtFacts
<1>7. o \in {"ok", "error"}
  BY <1>2 DEF Activity!Outcome
<1>8. Activity!EmptySink \in Following
  <2>1. [a \in Alias |-> 0] \in [Alias -> Nat]
    OBVIOUS
  <2> QED BY <2>1 DEF Activity!EmptySink, Following, Alias
<1>9. /\ \A x \in Turn : x # t => turn'[x] = turn[x] /\ acts'[x] = acts[x]
      /\ turn'[t].stage = "over" /\ turn'[t].runs = turn[t].runs /\ turn'[t].run = turn[t].run /\ turn'[t].out = o /\ turn'[t].bad = (turn[t].bad \/ b)
      /\ acts'[t] = Activity!EmptySink
  BY <1>1, <1>5 DEF ActivityTypes
<1>10. ActivityTypes'
  <2>1. turn' \in [Turn -> TurnRecord]
    <3>1. PICK z : z = [turn[t] EXCEPT !.stage = "over", !.bad = @ \/ b, !.out = o]
      OBVIOUS
    <3>2. turn[t] \in TurnRecord
      BY <1>1 DEF ActivityTypes
    <3>3. z \in TurnRecord
      BY <1>7, <3>1, <3>2 DEF TurnRecord
    <3>4. turn' = [turn EXCEPT ![t] = z]
      BY <1>1, <1>5, <3>1, <3>2 DEF ActivityTypes, TurnRecord
    <3> QED BY <1>1, <3>3, <3>4 DEF ActivityTypes
  <2> QED BY <1>1, <1>5, <1>6, <1>8, <2>1 DEF ActivityTypes
<1>11. SinkInv'
  <2>1. sinks' # <<>> => sub.on
    <3>1. sinks = <<>> => sinks' = <<>>
      BY <1>6
    <3> QED BY <1>1, <3>1 DEF SinkInv
  <2>2. ASSUME NEW j \in DOMAIN sinks'
        PROVE  /\ sinks'[j].turn = TurnOf(sinks'[j].run)
               /\ \A x \in {sinks'[j].turn} : turn'[x].stage = "run" /\ turn'[x].down = sub.down /\ sinks'[j].run \in turn'[x].runs
    <3>1. PICK k \in K : sinks'[j] = sinks[k]
      BY <1>6
    <3>2. k \in DOMAIN sinks /\ sinks[k].turn \in Turn
      <4>1. sinks[k] \in SinkRecord
        BY <1>1, ElementOf DEF ActivityTypes
      <4> QED BY <4>1 DEF SinkRecord
    <3>3. sinks[k].turn # t
      BY <1>1, <1>3, <3>2 DEF SinkInv
    <3> QED BY <1>1, <1>9, <3>1, <3>2, <3>3 DEF SinkInv
  <2> QED BY <1>5, <2>1, <2>2 DEF SinkInv
<1>12. VerdictInv'
  <2>1. ASSUME NEW j \in DOMAIN verdicts' PROVE verdicts'[j].v = ended'[verdicts'[j].run]
    BY <1>1, <1>5, <1>6 DEF VerdictInv
  <2>2. ASSUME o = "error" PROVE (turn[t].bad \/ b) \/ (turn[t].run # "none" /\ ended[turn[t].run] = "error")
    <3> SUFFICES ASSUME ~turn[t].bad, ~b PROVE turn[t].run # "none" /\ ended[turn[t].run] = "error"
      OBVIOUS
    <3>1. Activity!Verdict(t) = "error"
      BY <1>2, <2>2 DEF Activity!Outcome
    <3>2. PICK k : k = Activity!Find(verdicts, turn[t].run)
      OBVIOUS
    <3>3. k # 0 /\ verdicts[k].v = "error"
      BY <3>1, <3>2 DEF Activity!Verdict
    <3>4. 0 \notin DOMAIN verdicts
      BY <1>1 DEF ActivityTypes
    <3>5. k \in DOMAIN verdicts /\ verdicts[k].run = turn[t].run
      BY <3>2, <3>3, <3>4, FindFacts
    <3>6. verdicts[k].run \in Agent
      <4>1. verdicts[k] \in VerdictRecord
        BY <1>1, <3>5, ElementOf DEF ActivityTypes
      <4> QED BY <4>1 DEF VerdictRecord
    <3> QED BY <1>1, <3>3, <3>5, <3>6 DEF VerdictInv, ActivityConstants
  <2>3. ASSUME NEW x \in Turn, turn'[x].out = "error"
        PROVE  turn'[x].stage = "over" /\ (turn'[x].bad \/ (turn'[x].run # "none" /\ ended'[turn'[x].run] = "error"))
    <3>1. CASE x = t
      BY <1>5, <1>9, <2>2, <2>3, <3>1
    <3>2. CASE x # t
      BY <1>1, <1>5, <1>9, <2>3, <3>2 DEF VerdictInv
    <3> QED BY <3>1, <3>2
  <2> QED BY <2>1, <2>3 DEF VerdictInv
<1>13. \A q \in Agent : Tracked(q)' => Tracked(q)
  BY <1>6 DEF Tracked
<1>14. StartedInv' /\ CallsInv' /\ PubInv' /\ NamedInv' /\ ShownInv' /\ ActiveInv' /\ HiddenInv'
  <2>1. \A x \in Turn : turn'[x].runs = turn[x].runs /\ (turn'[x].stage = "run" => turn[x].stage # "over") /\ (turn'[x].stage = "new" => turn[x].stage = "new")
    BY <1>5, <1>9
  <2>2. \A x \in Turn : acts'[x] = acts[x] \/ (acts'[x] = Activity!EmptySink /\ turn'[x].stage # "run")
    BY <1>9
  <2> QED BY <1>1, <1>5, <1>10, <1>11, <1>13, <2>1, <2>2, Untouched DEF StartedInv
<1> QED BY <1>10, <1>11, <1>12, <1>14 DEF ActivityInv

-----------------------------------------------------------------------------
(***************************************************************************)
(* The correlation of one event.                                           *)
(***************************************************************************)
LEMMA OnlyFacts ==
    /\ \A k : Activity!Only({k}) = k
    /\ Activity!Only({}) = 0
    /\ \A S : Activity!Only(S) # 0 => Activity!Only(S) \in S
<1>1. \A k : Activity!Cardinality({k}) = 1
  BY SameCardinality, FS_Singleton
<1>2. Activity!Cardinality({}) = 0
  BY SameCardinality, FS_EmptySet
<1>3. ASSUME NEW S, Activity!Only(S) # 0 PROVE Activity!Only(S) \in S
  <2>1. Activity!Cardinality(S) = 1 /\ Activity!Only(S) = CHOOSE x \in S : TRUE
    BY <1>3 DEF Activity!Only
  <2>2. S # {}
    BY <1>2, <2>1
  <2> QED BY <2>1, <2>2
<1> QED BY <1>1, <1>2, <1>3 DEF Activity!Only

\* An alias leads to what Aliased returns, and to the only active call where there is one.
LeadsTo(k, c, r, ids) == \E i \in ids : c.alias[<<r, i>>] = k
LeadsOnlyTo(k, c, r, ids) ==
    /\ k # 0 /\ c.calls[k].active /\ LeadsTo(k, c, r, ids)
    /\ \A i \in ids : c.alias[<<r, i>>] # 0 /\ c.calls[c.alias[<<r, i>>]].active => c.alias[<<r, i>>] = k
\* Every alias that is bound leads to the one call, active or not.
LeadsAllTo(k, c, r, ids) == k # 0 /\ LeadsTo(k, c, r, ids) /\ \A i \in ids : c.alias[<<r, i>>] \in {0, k}
LEMMA AliasedFacts ==
    ASSUME NEW c, NEW r, NEW ids, NEW y, y = Activity!Aliased(c, r, ids)
    PROVE  (y = 0 \/ LeadsTo(y, c, r, ids)) /\ \A k : LeadsOnlyTo(k, c, r, ids) \/ LeadsAllTo(k, c, r, ids) => y = k
<1>1. PICK m, l : m = {c.alias[<<r, i>>] : i \in ids} \ {0} /\ l = {k \in m : c.calls[k].active}
  OBVIOUS
<1>2. y = IF Activity!Cardinality(l) = 1 THEN Activity!Only(l) ELSE Activity!Only(m)
  BY <1>1 DEF Activity!Aliased
<1>3. y = 0 \/ y \in m
  BY <1>1, <1>2, OnlyFacts
<1>4. ASSUME NEW k, LeadsOnlyTo(k, c, r, ids) PROVE y = k
  <2>1. l = {k}
    BY <1>1, <1>4 DEF LeadsTo, LeadsOnlyTo
  <2>2. Activity!Cardinality(l) = 1
    BY <2>1, SameCardinality, FS_Singleton
  <2> QED BY <1>2, <2>1, <2>2, OnlyFacts
<1>5. y = 0 \/ LeadsTo(y, c, r, ids)
  BY <1>1, <1>3 DEF LeadsTo
<1>6. ASSUME NEW k, LeadsAllTo(k, c, r, ids) PROVE y = k
  <2>1. m = {k}
    BY <1>1, <1>6 DEF LeadsTo, LeadsAllTo
  <2>2. l = {} \/ l = {k}
    BY <1>1, <2>1
  <2>3. l = {} => Activity!Cardinality(l) # 1
    BY SameCardinality, FS_EmptySet
  <2> QED BY <1>2, <2>1, <2>2, <2>3, OnlyFacts
<1> QED BY <1>4, <1>5, <1>6

LEMMA FollowingRecord ==
    ASSUME NEW s \in Seq(Call), NEW f \in [Alias -> Nat], NEW g \in Nat, NEW h \in SUBSET SUBSET Alias
    PROVE  [calls |-> s, alias |-> f, gen |-> g, hidden |-> h] \in Following
  BY Zenon DEF Following

Bound(z, c, k, r, ids, replace) ==
    /\ z \in Following /\ z.calls = c.calls /\ z.gen = c.gen /\ z.hidden = c.hidden
    /\ \A a \in Alias : z.alias[a] = IF a[1] = r /\ a[2] \in ids
                                        /\ (replace \/ c.alias[a] = 0 \/ (c.calls[k].active /\ ~c.calls[c.alias[a]].active))
                                     THEN k ELSE c.alias[a]
LEMMA Binding ==
    ASSUME NEW c \in Following, NEW k \in DOMAIN c.calls, NEW r, NEW ids, NEW replace \in BOOLEAN
    PROVE  Bound(Activity!Bind(c, k, r, ids, replace), c, k, r, ids, replace)
<1>0. PICK z : z = Activity!Bind(c, k, r, ids, replace)
  OBVIOUS
<1>1. PICK f : f = [a \in Alias |-> IF a[1] = r /\ a[2] \in ids
                                               /\ (replace \/ c.alias[a] = 0 \/ (c.calls[k].active /\ ~c.calls[c.alias[a]].active))
                                            THEN k ELSE c.alias[a]]
  OBVIOUS
<1>2. c.alias \in [Alias -> Nat] /\ c.calls \in Seq(Call) /\ c.gen \in Nat /\ c.hidden \in SUBSET SUBSET Alias
      /\ c = [calls |-> c.calls, alias |-> c.alias, gen |-> c.gen, hidden |-> c.hidden]
  BY DEF Following
<1>3. z = [c EXCEPT !.alias = f]
  BY <1>0, <1>1, <1>2 DEF Activity!Bind
<1>4. k \in Nat
  BY <1>2
<1>5. f \in [Alias -> Nat]
  BY <1>1, <1>2, <1>4
<1>6. z = [calls |-> c.calls, alias |-> f, gen |-> c.gen, hidden |-> c.hidden]
  BY <1>2, <1>3
<1>7. z.calls = c.calls /\ z.gen = c.gen /\ z.hidden = c.hidden /\ z.alias = f
  BY <1>6
<1>8. z \in Following
  BY <1>2, <1>5, <1>6, FollowingRecord
<1> QED BY <1>0, <1>1, <1>7, <1>8 DEF Bound

Created(z, c, r, b, id) ==
    /\ z \in Following /\ z.calls = Append(c.calls, [id |-> id, run |-> r, active |-> b])
    /\ z.alias = c.alias /\ z.hidden = c.hidden /\ z.gen >= c.gen
    /\ id \in 1..(MaxId + z.gen) /\ id \notin Activity!Used(c)
LEMMA Creating ==
    ASSUME ActivityConstants, NEW c \in Following, NEW runs, CallsAt(c, runs), NEW r \in Agent, NEW ids \in SUBSET (1..MaxId), NEW b \in BOOLEAN
    PROVE  \E id \in Nat : Created(Activity!CreateCall(c, r, ids, b), c, r, b, id)
<1>0. PICK z : z = Activity!CreateCall(c, r, ids, b)
  OBVIOUS
<1>1. c.alias \in [Alias -> Nat] /\ c.calls \in Seq(Call) /\ c.gen \in Nat /\ c.hidden \in SUBSET SUBSET Alias
      /\ c = [calls |-> c.calls, alias |-> c.alias, gen |-> c.gen, hidden |-> c.hidden]
  BY DEF Following
<1>2. MaxId \in Nat
  BY DEF ActivityConstants
<1>3. PICK own : own = (ids # {} /\ Activity!Smallest(ids) \notin Activity!Used(c))
  OBVIOUS
<1>4. PICK id : id = IF own THEN Activity!Smallest(ids) ELSE MaxId + c.gen + 1
  OBVIOUS
<1>5. PICK g : g = IF own THEN c.gen ELSE c.gen + 1
  OBVIOUS
<1>6. z = [c EXCEPT !.calls = Append(@, [id |-> id, run |-> r, active |-> b]), !.gen = g]
  BY <1>0, <1>1, <1>3, <1>4, <1>5 DEF Activity!CreateCall, Activity!NextGeneratedId
<1>7. own \in BOOLEAN
  BY <1>3
<1>8. /\ id \in Nat /\ g \in Nat /\ g >= c.gen /\ id \in 1..(MaxId + g) /\ id \notin Activity!Used(c)
  <2>1. CASE own
    <3>1. Activity!Smallest(ids) \in ids /\ id = Activity!Smallest(ids) /\ g = c.gen
      BY <1>2, <1>3, <1>4, <1>5, <2>1, SmallestFacts
    <3>2. id \in 1..MaxId
      BY <3>1
    <3>3. id \notin Activity!Used(c)
      BY <1>3, <2>1, <3>1
    <3>4. PICK q \in Nat : q = c.gen
      BY <1>1
    <3> QED BY <1>2, <3>1, <3>2, <3>3, <3>4
  <2>2. CASE ~own
    <3>1. id = MaxId + c.gen + 1 /\ g = c.gen + 1
      BY <1>4, <1>5, <2>2
    <3>2. \A k \in DOMAIN c.calls : c.calls[k].id \in 1..(MaxId + c.gen)
      BY DEF CallsAt
    <3>3. id \notin Activity!Used(c)
      BY <1>1, <1>2, <3>1, <3>2 DEF Activity!Used
    <3> QED BY <1>1, <1>2, <3>1, <3>3
  <2> QED BY <1>7, <2>1, <2>2
<1>9. PICK s : s = Append(c.calls, [id |-> id, run |-> r, active |-> b])
  OBVIOUS
<1>10. s \in Seq(Call)
  BY <1>1, <1>8, <1>9 DEF Call
<1>11. z = [calls |-> s, alias |-> c.alias, gen |-> g, hidden |-> c.hidden]
  BY <1>1, <1>6, <1>9
<1>12. z \in Following
  BY <1>1, <1>8, <1>10, <1>11, FollowingRecord
<1>13. z.calls = s /\ z.alias = c.alias /\ z.gen = g /\ z.hidden = c.hidden
  BY <1>11
<1>14. Created(z, c, r, b, id)
  BY <1>8, <1>9, <1>12, <1>13 DEF Created
<1> QED BY <1>0, <1>8, <1>14

\* A start that finds no active call makes a call of its own.
Started(z, c, r, ids, n) ==
    /\ z.c \in Following /\ z.c.calls = Append(c.calls, [id |-> z.id, run |-> r, active |-> TRUE])
    /\ z.c.hidden = c.hidden /\ z.c.gen >= c.gen /\ z.id \in Nat
    /\ z.id \in 1..(MaxId + z.c.gen) /\ z.id \notin Activity!Used(c)
    /\ \A a \in Alias : z.c.alias[a] = IF a[1] = r /\ a[2] \in ids THEN n ELSE c.alias[a]
LEMMA CorrelateStarts ==
    ASSUME ActivityConstants, NEW c \in Following, NEW runs, CallsAt(c, runs), NEW r \in Agent, NEW ids \in SUBSET (1..MaxId),
           Activity!StartTarget(c, r, ids) = 0,
           NEW z, z = Activity!Correlate(c, "start", r, ids), NEW n, n = Len(c.calls) + 1
    PROVE  Started(z, c, r, ids, n)
<1>11. PICK b \in BOOLEAN : b = TRUE
  OBVIOUS
<1>1. PICK c1 : c1 = Activity!CreateCall(c, r, ids, b)
  OBVIOUS
<1>2. PICK id \in Nat : /\ c1 \in Following /\ c1.calls = Append(c.calls, [id |-> id, run |-> r, active |-> b])
                        /\ c1.alias = c.alias /\ c1.hidden = c.hidden /\ c1.gen >= c.gen
                        /\ id \in 1..(MaxId + c1.gen) /\ id \notin Activity!Used(c)
  <2>1. PICK id \in Nat : Created(c1, c, r, b, id)
    BY <1>1, Creating
  <2> QED BY <2>1 DEF Created
<1>3. c.calls \in Seq(Call) /\ [id |-> id, run |-> r, active |-> b] \in Call
  BY DEF Following, Call
<1>4. /\ n \in DOMAIN c1.calls /\ n = Len(c1.calls) /\ c1.calls[n] = [id |-> id, run |-> r, active |-> b]
  BY <1>2, <1>3
<1>5. [c1 EXCEPT !.calls[n].active = b] = c1
  <2>1. c1 = [calls |-> c1.calls, alias |-> c1.alias, gen |-> c1.gen, hidden |-> c1.hidden] /\ c1.calls \in Seq(Call)
    BY <1>2 DEF Following
  <2>2. PICK s : s = c1.calls
    OBVIOUS
  <2>3. [s EXCEPT ![n] = [s[n] EXCEPT !.active = b]] = s
    <3>1. [s[n] EXCEPT !.active = b] = s[n]
      <4>1. PICK e : e = [id |-> id, run |-> r, active |-> b]
        OBVIOUS
      <4>2. [e EXCEPT !.active = b] = e
        BY <4>1
      <4> QED BY <1>4, <2>2, <4>1, <4>2
    <3> QED BY <1>4, <2>1, <2>2, <3>1
  <2> QED BY <2>1, <2>2, <2>3
<1>0. PICK p \in BOOLEAN : p = (ids # {})
  OBVIOUS
<1>6. z = [c |-> Activity!Bind(c1, n, r, ids, p), id |-> c1.calls[n].id]
  BY <1>0, <1>11, <1>1, <1>4, <1>5 DEF Activity!Correlate, Activity!Starts
<1>7. PICK y : y = Activity!Bind(c1, n, r, ids, p)
  OBVIOUS
<1>8. Bound(y, c1, n, r, ids, p)
  BY <1>2, <1>4, <1>7, Binding
<1>9. z.c = y /\ z.id = id
  BY <1>4, <1>6, <1>7
<1>10. \A a \in Alias : y.alias[a] = IF a[1] = r /\ a[2] \in ids THEN n ELSE c.alias[a]
  BY <1>0, <1>2, <1>8 DEF Bound
<1> QED BY <1>11, <1>2, <1>8, <1>9, <1>10 DEF Bound, Started

\* An event that finds its call goes on with it.
GoneOn(z, c, k, r, ids, phase) ==
    /\ z.c \in Following /\ z.c.hidden = c.hidden /\ z.c.gen = c.gen /\ z.id = c.calls[k].id
    /\ DOMAIN z.c.calls = DOMAIN c.calls
    /\ \A j \in DOMAIN c.calls : z.c.calls[j].id = c.calls[j].id /\ z.c.calls[j].run = c.calls[j].run
                                  /\ z.c.calls[j].active = (IF j = k THEN phase # "end" ELSE c.calls[j].active)
    /\ \A a \in Alias : z.c.alias[a] = c.alias[a] \/ (a[1] = r /\ a[2] \in ids /\ z.c.alias[a] = k)
    /\ \A a \in Alias : a[1] = r /\ a[2] \in ids =>
          z.c.alias[a] = k \/ (c.alias[a] # 0 /\ (phase = "end" \/ c.calls[c.alias[a]].active))
\* The call that the event finds
Target(c, r, ids, phase) ==
    IF phase \in Activity!Starts THEN Activity!StartTarget(c, r, ids)
    ELSE IF Activity!Aliased(c, r, ids) # 0 THEN Activity!Aliased(c, r, ids) ELSE Activity!SoleActive(c, r)
LEMMA CorrelateGoesOn ==
    ASSUME NEW c \in Following, NEW r, NEW ids, NEW phase \in {"start", "derived", "update", "end"}, NEW k \in DOMAIN c.calls,
           k = Target(c, r, ids, phase),
           NEW z, z = Activity!Correlate(c, phase, r, ids)
    PROVE  GoneOn(z, c, k, r, ids, phase)
<1>1. c.calls \in Seq(Call) /\ k \in Nat /\ k # 0 /\ c.alias \in [Alias -> Nat] /\ c.gen \in Nat /\ c.hidden \in SUBSET SUBSET Alias
      /\ c = [calls |-> c.calls, alias |-> c.alias, gen |-> c.gen, hidden |-> c.hidden]
  BY DEF Following
<1>2. PICK l : l = [c.calls[k] EXCEPT !.active = phase # "end"]
  OBVIOUS
<1>3. PICK s : s = [c.calls EXCEPT ![k] = l]
  OBVIOUS
<1>4. c.calls[k] \in Call
  BY <1>1, ElementOf
<1>5. l \in Call /\ l.id = c.calls[k].id /\ l.run = c.calls[k].run /\ l.active = (phase # "end")
  BY <1>2, <1>4 DEF Call
<1>6. s \in Seq(Call) /\ DOMAIN s = DOMAIN c.calls /\ s[k] = l /\ \A j \in DOMAIN c.calls : j # k => s[j] = c.calls[j]
  BY <1>1, <1>3, <1>5
<1>7. PICK c2 : c2 = [c EXCEPT !.calls[k].active = phase # "end"]
  OBVIOUS
<1>8. c2 = [calls |-> s, alias |-> c.alias, gen |-> c.gen, hidden |-> c.hidden]
  BY <1>1, <1>2, <1>3, <1>7
<1>9. c2 \in Following
  BY <1>1, <1>6, <1>8 DEF Following
<1>0. PICK p \in BOOLEAN : p = FALSE
  OBVIOUS
<1>10. z = [c |-> Activity!Bind(c2, k, r, ids, p), id |-> c2.calls[k].id]
  BY <1>0, <1>1, <1>7 DEF Activity!Correlate, Target
<1>11. PICK y : y = Activity!Bind(c2, k, r, ids, p)
  OBVIOUS
<1>12. k \in DOMAIN c2.calls
  BY <1>6, <1>8
<1>13. Bound(y, c2, k, r, ids, p)
  BY <1>9, <1>11, <1>12, Binding
<1>14. /\ z.c = y /\ z.id = c.calls[k].id
  BY <1>5, <1>6, <1>8, <1>10, <1>11
<1>15. ASSUME NEW a \in Alias, a[1] = r, a[2] \in ids, y.alias[a] # k
       PROVE  c.alias[a] # 0 /\ (phase = "end" \/ c.calls[c.alias[a]].active)
  <2>1. c2.alias = c.alias /\ c2.calls = s /\ (phase = "end" \/ s[k].active)
    BY <1>5, <1>6, <1>8, <1>15
  <2>2. y.alias[a] = c.alias[a] /\ c.alias[a] # 0 /\ (phase = "end" \/ s[c.alias[a]].active)
    BY <1>0, <1>13, <1>15, <2>1 DEF Bound
  <2>3. c.alias[a] # k
    BY <1>15, <2>2
  <2> QED BY <1>3, <1>6, <2>2, <2>3
<1>16. \A j \in DOMAIN c.calls : s[j].id = c.calls[j].id /\ s[j].run = c.calls[j].run /\ s[j].active = (IF j = k THEN phase # "end" ELSE c.calls[j].active)
  BY <1>5, <1>6
<1>17. \A a \in Alias : y.alias[a] = c.alias[a] \/ (a[1] = r /\ a[2] \in ids /\ y.alias[a] = k)
  BY <1>8, <1>13 DEF Bound
<1> QED BY <1>6, <1>8, <1>13, <1>14, <1>15, <1>16, <1>17 DEF Bound, GoneOn

-----------------------------------------------------------------------------
(***************************************************************************)
(* One event of an invocation.                                             *)
(***************************************************************************)
\* What an event does to its invocation
Noted(v, phase, ids, b, new) ==
    /\ inv' = [inv EXCEPT ![v] = [st |-> IF phase = "end" THEN "ending" ELSE "live", ids |-> @.ids \cup ids,
                                  hid |-> IF @.st = "new" THEN b ELSE @.hid, pub |-> @.pub \cup new]]
    /\ turn' = turn /\ sinks' = sinks /\ verdicts' = verdicts /\ sub' = sub /\ ended' = ended

Put(t, s) == acts' = [acts EXCEPT ![t] = s]
Hiding(c, h) == [c EXCEPT !.hidden = h]

LEMMA EventForms ==
    ASSUME ActivityConstants, ActivityInv, NEW v \in Inv, NEW phase, NEW ids, NEW b, Activity!ToolEvent(v, phase, ids, b)
    PROVE  /\ Activity!HostMay(v, phase, ids, b)
           /\ \/ ~Tracked(RunOf(v)) /\ acts' = acts /\ Noted(v, phase, ids, b, {})
              \/ /\ Tracked(RunOf(v))
                 /\ \E e : /\ e = Activity!Sink(acts[Mine(v)], v, phase, ids, b)
                           /\ acts' = [acts EXCEPT ![Mine(v)] = e.c]
                           /\ Noted(v, phase, ids, b, {<<Mine(v), i>> : i \in e.pub})
<1>1. ActivityTypes /\ SinkInv
  BY DEF ActivityInv
<1>2. PICK k : k = IF sub.on THEN Activity!Find(sinks, RunOf(v)) ELSE 0
  OBVIOUS
<1>3. 0 \notin DOMAIN sinks
  BY <1>1, ElementOf DEF ActivityTypes
<1>4. CASE k = 0
  <2>1. ~Tracked(RunOf(v))
    <3>1. CASE sub.on
      BY <1>2, <1>3, <1>4, <3>1, FindFacts DEF Tracked
    <3>2. CASE ~sub.on
      BY <1>1, <3>2 DEF SinkInv, Tracked
    <3> QED BY <3>1, <3>2
  <2>2. /\ Activity!HostMay(v, phase, ids, b) /\ acts' = acts
        /\ inv' = [inv EXCEPT ![v] = [st |-> IF phase = "end" THEN "ending" ELSE "live", ids |-> @.ids \cup ids,
                                  hid |-> IF @.st = "new" THEN b ELSE @.hid, pub |-> @.pub]]
        /\ turn' = turn /\ sinks' = sinks /\ verdicts' = verdicts /\ sub' = sub /\ ended' = ended
    BY <1>2, <1>4 DEF Activity!ToolEvent
  <2>3. inv[v].pub \cup {} = inv[v].pub
    OBVIOUS
  <2> QED BY <2>1, <2>2, <2>3 DEF Noted
<1>5. CASE k # 0
  <2>1. k \in DOMAIN sinks /\ sinks[k].run = RunOf(v)
    BY <1>2, <1>3, <1>5, FindFacts
  <2>2. Tracked(RunOf(v)) /\ sinks[k].turn = Mine(v)
    BY <1>1, <2>1 DEF Tracked, SinkInv, Mine
  <2>3. PICK e : e = Activity!Sink(acts[Mine(v)], v, phase, ids, b)
    OBVIOUS
  <2>4. /\ Activity!HostMay(v, phase, ids, b) /\ acts' = [acts EXCEPT ![Mine(v)] = e.c]
        /\ inv' = [inv EXCEPT ![v] = [st |-> IF phase = "end" THEN "ending" ELSE "live", ids |-> @.ids \cup ids,
                                  hid |-> IF @.st = "new" THEN b ELSE @.hid, pub |-> @.pub \cup {<<Mine(v), i>> : i \in e.pub}]]
        /\ turn' = turn /\ sinks' = sinks /\ verdicts' = verdicts /\ sub' = sub /\ ended' = ended
    BY <1>2, <1>5, <2>2, <2>3 DEF Activity!ToolEvent
  <2> QED BY <2>2, <2>3, <2>4 DEF Noted
<1> QED BY <1>4, <1>5

\* The invocation after its event, and all others
After(v, phase, ids, b, new) ==
    /\ inv' \in [Inv -> Invocation]
    /\ \A w \in Inv : w # v => inv'[w] = inv[w]
    /\ inv'[v].st = (IF phase = "end" THEN "ending" ELSE "live") /\ inv'[v].ids = inv[v].ids \cup ids
    /\ inv'[v].hid = (IF inv[v].st = "new" THEN b ELSE inv[v].hid) /\ inv'[v].pub = inv[v].pub \cup new
    /\ \A r : Tracked(r)' = Tracked(r)
LEMMA NotedFacts ==
    ASSUME ActivityTypes, NEW v \in Inv, NEW phase \in {"start", "derived", "update", "end"}, NEW ids \in SUBSET (1..MaxId), NEW b \in BOOLEAN,
           NEW new \in SUBSET (Turn \X Nat), Noted(v, phase, ids, b, new)
    PROVE  After(v, phase, ids, b, new)
<1>1. inv \in [Inv -> Invocation]
  BY DEF ActivityTypes
<1>2. PICK x : x = [st |-> IF phase = "end" THEN "ending" ELSE "live", ids |-> inv[v].ids \cup ids,
                    hid |-> IF inv[v].st = "new" THEN b ELSE inv[v].hid, pub |-> inv[v].pub \cup new]
  OBVIOUS
<1>3. inv' = [inv EXCEPT ![v] = x]
  BY <1>2 DEF Noted
<1>4. inv[v].ids \in SUBSET (1..MaxId) /\ inv[v].hid \in BOOLEAN /\ inv[v].pub \in SUBSET (Turn \X Nat)
  BY <1>1 DEF Invocation
<1>5. x \in Invocation
  <2>1. PICK st, i, h, p : st = (IF phase = "end" THEN "ending" ELSE "live") /\ i = inv[v].ids \cup ids /\ h = (IF inv[v].st = "new" THEN b ELSE inv[v].hid) /\ p = inv[v].pub \cup new
    OBVIOUS
  <2>2. st \in {"new", "live", "ending", "over"} /\ i \in SUBSET (1..MaxId) /\ h \in BOOLEAN /\ p \in SUBSET (Turn \X Nat)
    BY <1>4, <2>1
  <2>3. x = [st |-> st, ids |-> i, hid |-> h, pub |-> p]
    BY <1>2, <2>1
  <2> QED BY <2>2, <2>3 DEF Invocation
<1>6. inv'[v] = x /\ \A w \in Inv : w # v => inv'[w] = inv[w]
  BY <1>1, <1>3
<1>7. \A r : Tracked(r)' = Tracked(r)
  BY DEF Noted, Tracked
<1>8. x.st = (IF phase = "end" THEN "ending" ELSE "live") /\ x.ids = inv[v].ids \cup ids
      /\ x.hid = (IF inv[v].st = "new" THEN b ELSE inv[v].hid) /\ x.pub = inv[v].pub \cup new
  BY <1>2
<1>9. inv' \in [Inv -> Invocation]
  BY <1>1, <1>3, <1>5
<1> QED BY <1>6, <1>7, <1>8, <1>9 DEF After

\* The host's side of it
LEMMA HostFacts ==
    ASSUME ActivityConstants, ActivityInv, NEW v \in Inv, NEW phase \in {"start", "derived", "update", "end"}, NEW ids, NEW b \in BOOLEAN,
           Activity!HostMay(v, phase, ids, b)
    PROVE  /\ RunOf(v) \in Agent /\ Mine(v) \in Turn
           /\ turn[Mine(v)].stage = "run" /\ RunOf(v) \in turn[Mine(v)].runs
           /\ ids \in SUBSET IdsOf(v) /\ ids \in SUBSET (1..MaxId) /\ (ids = {} <=> IdsOf(v) = {})
           /\ \A w \in Inv : Opened(w) /\ w # v /\ RunOf(w) = RunOf(v) => IdsOf(w) \cap IdsOf(v) = {}
           /\ \A w \in Inv : inv[w].st = "live" /\ w # v /\ RunOf(w) = RunOf(v) => ids # {}
           /\ inv[v].st = "new" => phase = "start" /\ (ids # {} => Root(v) \in ids)
           /\ inv[v].st # "new" =>
                 /\ Opened(v) /\ (b => inv[v].hid) /\ (inv[v].hid /\ phase = "start" => b)
                 /\ (inv[v].hid \/ phase \in {"start", "derived"} \/ inv[v].st # "live") /\ ids # {} => ids \cap inv[v].ids # {}
                 /\ phase \in {"start", "derived"} \/ inv[v].st # "live" => ids # {}
                 /\ inv[v].st # "live" => phase = "end"
           /\ b => ids # {}
<1>1. RunOf(v) \in Agent /\ Mine(v) \in Turn /\ IdsOf(v) \in SUBSET (1..MaxId)
  BY DEF ActivityConstants, Mine
<1>2. /\ turn[Mine(v)].stage = "run" /\ RunOf(v) \in turn[Mine(v)].runs
      /\ ids \subseteq IdsOf(v) /\ (ids = {}) = (IdsOf(v) = {})
      /\ \A w \in Inv : w # v /\ RunOf(w) = RunOf(v) => (Opened(w) => IdsOf(w) \cap IdsOf(v) = {})
      /\ inv[v].st = "new" => phase = "start" /\ (IdsOf(v) # {} => Root(v) \in ids)
      /\ inv[v].st # "new" =>
            /\ Opened(v) /\ (inv[v].st = "ending" => phase = "end" /\ ids # {})
            /\ phase \in {"start", "derived"} => ids \cap inv[v].ids # {}
            /\ (b => inv[v].hid) /\ (phase = "start" /\ inv[v].hid => b)
            /\ ids = {} \/ ids \cap inv[v].ids # {} \/ (~inv[v].hid /\ inv[v].st = "live")
      /\ b => ids # {}
      /\ IdsOf(v) = {} => \A w \in Inv \ {v} : RunOf(w) = RunOf(v) => inv[w].st # "live"
  BY DEF Activity!HostMay, Activity!Live, Activity!Open, Opened, Activity!Starts, Activity!Lonely, Mine, Root
<1> QED BY <1>1, <1>2 DEF Opened

\* What does not depend on the sink
LEMMA EventFrame ==
    ASSUME ActivityConstants, ActivityInv, NEW v \in Inv, NEW phase \in {"start", "derived", "update", "end"}, NEW ids, NEW b \in BOOLEAN,
           Activity!HostMay(v, phase, ids, b), NEW new \in SUBSET (Turn \X Nat), Noted(v, phase, ids, b, new), acts' \in [Turn -> Following]
    PROVE  /\ ActivityTypes' /\ SinkInv' /\ StartedInv' /\ VerdictInv'
           /\ inv'[v].ids \subseteq IdsOf(v) /\ inv'[v].st # "new" /\ (IdsOf(v) # {} => Root(v) \in inv'[v].ids)
<1>1. ActivityTypes /\ SinkInv /\ StartedInv /\ VerdictInv /\ PubAt(v)
  BY DEF ActivityInv, PubInv
<1>2. /\ RunOf(v) \in turn[Mine(v)].runs /\ ids \in SUBSET IdsOf(v) /\ ids \in SUBSET (1..MaxId) /\ (ids = {} <=> IdsOf(v) = {})
      /\ inv[v].st = "new" => (ids # {} => Root(v) \in ids)
  BY HostFacts
<1>3. /\ inv' \in [Inv -> Invocation]
      /\ \A w \in Inv : w # v => inv'[w] = inv[w]
      /\ inv'[v].st = (IF phase = "end" THEN "ending" ELSE "live") /\ inv'[v].ids = inv[v].ids \cup ids
  <2>1. After(v, phase, ids, b, new)
    BY <1>1, <1>2, NotedFacts
  <2> QED BY <2>1 DEF After
<1>4. turn' = turn /\ sinks' = sinks /\ verdicts' = verdicts /\ sub' = sub /\ ended' = ended
  BY DEF Noted
<1>5. ActivityTypes'
  BY <1>1, <1>3, <1>4 DEF ActivityTypes
<1>6. SinkInv' /\ VerdictInv'
  BY <1>1, <1>4 DEF SinkInv, VerdictInv
<1>7. StartedInv'
  BY <1>1, <1>2, <1>3, <1>4 DEF StartedInv
<1>8. inv'[v].ids \subseteq IdsOf(v) /\ inv'[v].st # "new" /\ (IdsOf(v) # {} => Root(v) \in inv'[v].ids)
  BY <1>1, <1>2, <1>3 DEF PubAt
<1> QED BY <1>5, <1>6, <1>7, <1>8

\* A marker that has an id of v is of the family of v.
LEMMA KinOf ==
    ASSUME ActivityConstants, NEW v \in Inv, NEW m, Family(m), NEW i \in IdsOf(v), <<RunOf(v), i>> \in m
    PROVE  <<RunOf(v), Root(v)>> \in m /\ \A a \in m : Kin(v, a)
<1>1. PICK u \in Inv : <<RunOf(u), Root(u)>> \in m /\ \A a \in m : Kin(u, a)
  BY DEF Family
<1>2. PICK w \in Inv : RunOf(w) = RunOf(u) /\ RunOf(v) = RunOf(u) /\ i \in IdsOf(w) /\ Root(w) = Root(u)
  BY <1>1 DEF Kin
<1>3. Root(v) = Root(w)
  BY <1>2 DEF ActivityConstants, Root
<1>4. RunOf(v) = RunOf(u) /\ Root(v) = Root(u)
  BY <1>2, <1>3
<1> QED BY <1>1, <1>4 DEF Kin

\* The run of the invocation is not followed any more: no sink hears the event.
LEMMA UnheardKeeps ==
    ASSUME ActivityConstants, ActivityInv, NEW v \in Inv, NEW phase \in {"start", "derived", "update", "end"}, NEW ids, NEW b \in BOOLEAN,
           Activity!HostMay(v, phase, ids, b), ~Tracked(RunOf(v)), acts' = acts, Noted(v, phase, ids, b, {})
    PROVE  ActivityInv'
<1>1. ActivityTypes /\ CallsInv /\ PubInv /\ NamedInv /\ ShownInv /\ ActiveInv /\ HiddenInv
  BY DEF ActivityInv
<1>2. /\ ids \in SUBSET (1..MaxId)
  BY HostFacts
<1>3. After(v, phase, ids, b, {})
  BY <1>1, <1>2, NotedFacts
<1>4. /\ ActivityTypes' /\ SinkInv' /\ StartedInv' /\ VerdictInv'
      /\ inv'[v].ids \subseteq IdsOf(v) /\ inv'[v].st # "new" /\ (IdsOf(v) # {} => Root(v) \in inv'[v].ids)
  BY <1>1, EventFrame DEF ActivityTypes
<1>5. turn' = turn
  BY DEF Noted
<1>6. CallsInv'
  BY <1>1, <1>5 DEF CallsInv
<1>7. PubInv'
  <2>1. inv'[v].pub = inv[v].pub /\ (inv'[v].hid => inv[v].pub = {}) /\ PubAt(v)
    BY <1>1, <1>3 DEF After, PubInv, PubAt
  <2>2. PubAt(v)'
    BY <1>4, <1>5, <2>1 DEF PubAt
  <2>3. \A w \in Inv : w # v => PubAt(w)'
    BY <1>1, <1>3, <1>5 DEF After, PubInv, PubAt
  <2>4. \A w \in Inv : inv'[w].pub = inv[w].pub
    BY <1>3, <2>1 DEF After
  <2> QED BY <1>1, <2>2, <2>3, <2>4 DEF PubInv
<1>8. \A w \in Inv : (Sees(w)' => w # v /\ Sees(w) /\ inv'[w] = inv[w]) /\ (Sees(w) => w # v /\ Sees(w)' /\ inv'[w] = inv[w])
                     /\ (Hides(w)' => w # v /\ Hides(w) /\ inv'[w] = inv[w])
  BY <1>3 DEF After, Sees, Hides, Opened
<1>9. \A w \in Inv : \A k : inv'[w] = inv[w] /\ Owns(w, k) => Owns(w, k)'
  BY DEF Owns, OwnsIn
<1>10. ShownInv'
  BY <1>1, <1>8, <1>9 DEF ShownInv
<1>11. ActiveInv'
  <2> SUFFICES ASSUME NEW t \in Turn, NEW k \in DOMAIN acts[t].calls, acts[t].calls[k].active, Tracked(acts[t].calls[k].run)'
               PROVE  \E w \in Inv : Sees(w)' /\ Mine(w) = t /\ Owns(w, k)'
    BY DEF ActiveInv, Tracked
  <2>1. Tracked(acts[t].calls[k].run)
    BY DEF Noted, Tracked
  <2>2. PICK w \in Inv : Sees(w) /\ Mine(w) = t /\ Owns(w, k)
    BY <1>1, <2>1 DEF ActiveInv
  <2> QED BY <1>8, <1>9, <2>2
<1>12. HiddenInv'
  BY <1>1, <1>8 DEF HiddenInv, Marked
<1>13. NamedInv'
  <2>1. \A w \in Inv : inv[w].ids # {} => inv[w].ids \subseteq inv'[w].ids /\ (~inv[w].hid => ~inv'[w].hid)
    BY <1>1, <1>3 DEF After, PubInv, PubAt
  <2> QED BY <1>1, <2>1 DEF NamedInv
<1> QED BY <1>13, <1>4, <1>6, <1>7, <1>10, <1>11, <1>12 DEF ActivityInv

-----------------------------------------------------------------------------
(***************************************************************************)
(* An event that is kept back.                                             *)
(***************************************************************************)
LEMMA HideFacts ==
    ASSUME NEW h, NEW keys, keys # {}, NEW z, z = Activity!Hide(h, keys)
    PROVE  \E x : /\ x \in z /\ keys \subseteq x
                  /\ \A m \in h : m \cap keys # {} => m \subseteq x
                  /\ \A a \in x : a \in keys \/ \E m \in h : m \cap keys # {} /\ a \in m
                  /\ \A m \in h : m \cap keys = {} => m \in z
                  /\ \A m \in z : m = x \/ m \in h
<1>1. PICK x : x = keys \cup UNION Activity!Matching(h, keys)
  OBVIOUS
<1>2. z = (h \ Activity!Matching(h, keys)) \cup {x}
  BY <1>1 DEF Activity!Hide
<1>3. Activity!Matching(h, keys) = {m \in h : m \cap keys # {}}
  BY DEF Activity!Matching
<1> QED BY <1>1, <1>2, <1>3

LEMMA KeptBackKeeps ==
    ASSUME ActivityConstants, ActivityInv, NEW v \in Inv, NEW phase \in {"start", "derived", "update", "end"}, NEW ids, NEW b \in BOOLEAN,
           Activity!HostMay(v, phase, ids, b), Tracked(RunOf(v)), ids # {}, IF inv[v].st = "new" THEN b ELSE inv[v].hid,
           NEW z, z = Activity!Hide(acts[Mine(v)].hidden, Activity!Keys(RunOf(v), ids)),
           Put(Mine(v), Hiding(acts[Mine(v)], z)), Noted(v, phase, ids, b, {})
    PROVE  ActivityInv'
<1>1. ActivityTypes /\ CallsInv /\ PubInv /\ NamedInv /\ ShownInv /\ ActiveInv /\ HiddenInv
  BY DEF ActivityInv
<1>2. /\ RunOf(v) \in Agent /\ Mine(v) \in Turn
      /\ ids \in SUBSET IdsOf(v) /\ ids \in SUBSET (1..MaxId)
      /\ \A w \in Inv : Opened(w) /\ w # v /\ RunOf(w) = RunOf(v) => IdsOf(w) \cap IdsOf(v) = {}
      /\ inv[v].st = "new" => Root(v) \in ids
      /\ inv[v].st # "new" => Opened(v) /\ (inv[v].hid => ids \cap inv[v].ids # {})
  BY HostFacts
<1>3. After(v, phase, ids, b, {})
  BY <1>1, <1>2, NotedFacts
<1>4. PICK keys : keys = Activity!Keys(RunOf(v), ids)
  OBVIOUS
<1>5. keys # {} /\ keys \in SUBSET Alias /\ \A a : a \in keys <=> \E i \in ids : a = <<RunOf(v), i>>
  <2>1. \A a : a \in keys <=> \E i \in ids : a = <<RunOf(v), i>>
    BY <1>4 DEF Activity!Keys
  <2>2. \A i \in ids : <<RunOf(v), i>> \in keys /\ <<RunOf(v), i>> \in Alias
    BY <1>2, <2>1 DEF Alias
  <2> QED BY <2>1, <2>2
<1>6. PICK t : t = Mine(v)
  OBVIOUS
<1>7. PICK h : h = acts[t].hidden
  OBVIOUS
<1>8. PICK x : /\ x \in z /\ keys \subseteq x
               /\ \A m \in h : m \cap keys # {} => m \subseteq x
               /\ \A a \in x : a \in keys \/ \E m \in h : m \cap keys # {} /\ a \in m
               /\ \A m \in h : m \cap keys = {} => m \in z
               /\ \A m \in z : m = x \/ m \in h
  BY <1>4, <1>5, <1>6, <1>7, HideFacts
<1>9. acts[t] \in Following /\ acts[t] = [calls |-> acts[t].calls, alias |-> acts[t].alias, gen |-> acts[t].gen, hidden |-> h]
      /\ acts[t].calls \in Seq(Call) /\ acts[t].alias \in [Alias -> Nat] /\ acts[t].gen \in Nat /\ h \in SUBSET SUBSET Alias
  BY <1>1, <1>2, <1>6, <1>7 DEF ActivityTypes, Following
<1>10. z \in SUBSET SUBSET Alias
  BY <1>5, <1>8, <1>9
<1>11. PICK c : c = [calls |-> acts[t].calls, alias |-> acts[t].alias, gen |-> acts[t].gen, hidden |-> z]
  OBVIOUS
<1>12. c \in Following
  BY <1>9, <1>10, <1>11, FollowingRecord
<1>13. /\ acts' = [acts EXCEPT ![t] = c]
       /\ \A y \in Turn : acts'[y].calls = acts[y].calls /\ acts'[y].alias = acts[y].alias /\ acts'[y].gen = acts[y].gen
       /\ \A y \in Turn : y # t => acts'[y].hidden = acts[y].hidden
       /\ acts'[t].hidden = z
  <2>0. PICK q : q = acts[t]
    OBVIOUS
  <2>3. [q EXCEPT !.hidden = z] = c
    BY <1>9, <1>11, <2>0
  <2>1. acts' = [acts EXCEPT ![t] = c]
    BY <1>6, <2>0, <2>3 DEF Put, Hiding
  <2>2. acts'[t] = c /\ \A y \in Turn : y # t => acts'[y] = acts[y]
    BY <1>1, <1>2, <1>6, <2>1 DEF ActivityTypes
  <2>4. c.calls = acts[t].calls /\ c.alias = acts[t].alias /\ c.gen = acts[t].gen /\ c.hidden = z
    BY <1>11
  <2> QED BY <2>1, <2>2, <2>4
<1>14. acts' \in [Turn -> Following]
  BY <1>1, <1>12, <1>13 DEF ActivityTypes
<1>15. /\ ActivityTypes' /\ SinkInv' /\ StartedInv' /\ VerdictInv'
       /\ inv'[v].ids \subseteq IdsOf(v) /\ inv'[v].st # "new" /\ (IdsOf(v) # {} => Root(v) \in inv'[v].ids)
  <2>1. {} \in SUBSET (Turn \X Nat)
    OBVIOUS
  <2> QED BY <1>14, <2>1, EventFrame
<1>16. turn' = turn
  BY DEF Noted
<1>17. CallsInv'
  BY <1>1, <1>13, <1>16 DEF CallsInv, CallsAt
<1>18. inv'[v].hid /\ inv'[v].pub = inv[v].pub /\ inv[v].pub = {} /\ inv'[v].ids = inv[v].ids \cup ids /\ (inv[v].st = "new" => inv[v].ids = {}) /\ ~Sees(v)
  <2>1. PubAt(v)
    BY <1>1 DEF PubInv
  <2> QED BY <1>2, <1>3, <2>1 DEF After, PubAt, Sees, Opened
<1>19. \A w \in Inv : Mine(w) \in Turn
  BY DEF ActivityConstants, Mine
<1>20. PubInv'
  <2>1. \A y \in Turn : Activity!Used(acts'[y]) = Activity!Used(acts[y])
    BY <1>13 DEF Activity!Used
  <2>2. PubAt(v)'
    BY <1>15, <1>18 DEF PubAt
  <2>3. ASSUME NEW w \in Inv, w # v PROVE PubAt(w)'
    <3>1. inv'[w] = inv[w] /\ Mine(w) \in Turn
      BY <1>3, <1>19, <2>3 DEF After
    <3> QED BY <1>1, <1>16, <2>1, <3>1 DEF PubInv, PubAt
  <2>4. \A w \in Inv : inv'[w].pub = inv[w].pub
    BY <1>3, <1>18 DEF After
  <2> QED BY <1>1, <2>2, <2>3, <2>4 DEF PubInv
<1>21. \A w \in Inv : (Sees(w)' <=> Sees(w)) /\ (Sees(w) => w # v) /\ (w # v => (Hides(w)' => Hides(w)) /\ inv'[w] = inv[w])
  BY <1>3, <1>18 DEF After, Sees, Hides, Opened
<1>22. \A w \in Inv : \A k : w # v /\ Owns(w, k) => Owns(w, k)'
  BY <1>13, <1>19, <1>21 DEF Owns, OwnsIn
<1>23. ShownInv'
  BY <1>1, <1>13, <1>19, <1>21, <1>22 DEF ShownInv
<1>24. ActiveInv'
  <2> SUFFICES ASSUME NEW y \in Turn, NEW k \in DOMAIN acts'[y].calls, (acts[y].calls[k].active /\ Tracked(acts[y].calls[k].run))'
               PROVE  \E w \in Inv : Sees(w)' /\ Mine(w) = y /\ Owns(w, k)'
    BY DEF ActiveInv
  <2>1. k \in DOMAIN acts[y].calls /\ acts[y].calls[k].active /\ Tracked(acts[y].calls[k].run)
    BY <1>13 DEF Noted, Tracked
  <2>2. PICK w \in Inv : Sees(w) /\ Mine(w) = y /\ Owns(w, k)
    BY <1>1, <2>1 DEF ActiveInv
  <2> QED BY <1>21, <1>22, <2>2
<1>25. inv[v].st # "new" => \E m \in h : m \cap keys # {} /\ Activity!Keys(RunOf(v), inv[v].ids) \subseteq m /\ <<RunOf(v), Root(v)>> \in m
  <2> SUFFICES ASSUME inv[v].st # "new" PROVE \E m \in h : m \cap keys # {} /\ Activity!Keys(RunOf(v), inv[v].ids) \subseteq m /\ <<RunOf(v), Root(v)>> \in m
    OBVIOUS
  <2>1. Hides(v)
    BY <1>2, <1>18 DEF Hides, After
  <2>2. PICK m \in h : Activity!Keys(RunOf(v), inv[v].ids) \subseteq m
    BY <1>1, <1>6, <1>7, <2>1 DEF HiddenInv, Marked
  <2>3. PICK i : i \in ids /\ i \in inv[v].ids
    BY <1>2
  <2>4. <<RunOf(v), i>> \in m /\ <<RunOf(v), i>> \in keys
    BY <1>5, <2>2, <2>3 DEF Activity!Keys
  <2>5. Root(v) \in inv[v].ids
    BY <1>1, <1>2 DEF PubInv, PubAt
  <2>6. <<RunOf(v), Root(v)>> \in m
    BY <2>2, <2>5 DEF Activity!Keys
  <2> QED BY <2>2, <2>4, <2>6
<1>26. Family(x)
  <2>1. <<RunOf(v), Root(v)>> \in x
    <3>1. CASE inv[v].st = "new"
      BY <1>2, <1>5, <1>8, <3>1
    <3>2. CASE inv[v].st # "new"
      BY <1>8, <1>25, <3>2
    <3> QED BY <3>1, <3>2
  <2>2. ASSUME NEW a \in x PROVE Kin(v, a)
    <3>1. CASE a \in keys
      BY <1>2, <1>5, <3>1 DEF Kin
    <3>2. ASSUME NEW m \in h, m \cap keys # {}, a \in m PROVE Kin(v, a)
      <4>1. PICK i \in ids : <<RunOf(v), i>> \in m
        BY <1>5, <3>2
      <4>2. Family(m) /\ i \in IdsOf(v)
        BY <1>1, <1>2, <1>6, <1>7 DEF HiddenInv
      <4> QED BY <3>2, <4>1, <4>2, KinOf
    <3> QED BY <1>8, <3>1, <3>2
  <2>3. IdsOf(v) # {}
    BY <1>2
  <2> QED BY <2>1, <2>2, <2>3 DEF Family
<1>27. HiddenInv'
  <2>1. ASSUME NEW y \in Turn, NEW m \in acts'[y].hidden PROVE Family(m)
    <3>1. CASE y # t
      BY <1>1, <1>13, <2>1, <3>1 DEF HiddenInv
    <3>2. CASE y = t
      BY <1>1, <1>2, <1>6, <1>7, <1>8, <1>13, <1>26, <2>1, <3>2 DEF HiddenInv
    <3> QED BY <3>1, <3>2
  <2>2. ASSUME NEW w \in Inv, Sees(w), IdsOf(w) # {} PROVE Unmarked(w, acts'[Mine(w)].hidden)
    <3>1. Unmarked(w, acts[Mine(w)].hidden) /\ w # v /\ Mine(w) \in Turn
      BY <1>1, <1>19, <1>21, <2>2 DEF HiddenInv
    <3>2. <<RunOf(w), Root(w)>> \notin keys
      <4>1. Opened(w) /\ Root(w) \in IdsOf(w)
        BY <1>1, <2>2 DEF Sees, Opened, PubInv, PubAt
      <4> QED BY <1>2, <1>5, <3>1, <4>1
    <3>3. CASE Mine(w) # t
      BY <1>13, <3>1, <3>3
    <3>4. CASE Mine(w) = t
      <4>1. \A m \in h : <<RunOf(w), Root(w)>> \notin m
        BY <1>7, <3>1, <3>4 DEF Unmarked
      <4>2. <<RunOf(w), Root(w)>> \notin x
        BY <1>8, <3>2, <4>1
      <4> QED BY <1>8, <1>13, <3>4, <4>1, <4>2 DEF Unmarked
    <3> QED BY <3>3, <3>4
  <2>3. ASSUME NEW w \in Inv, Hides(w)' PROVE inv'[w].ids # {} /\ \E m \in acts'[Mine(w)].hidden : Activity!Keys(RunOf(w), inv'[w].ids) \subseteq m
    <3>1. CASE w = v
      <4>1. Activity!Keys(RunOf(v), inv'[v].ids) \subseteq x
        <5>1. ASSUME NEW i \in ids PROVE <<RunOf(v), i>> \in x
          BY <1>5, <1>8
        <5>2. ASSUME NEW i \in inv[v].ids PROVE <<RunOf(v), i>> \in x
          <6>1. inv[v].st # "new"
            BY <1>18, <5>2
          <6>2. PICK m \in h : m \cap keys # {} /\ Activity!Keys(RunOf(v), inv[v].ids) \subseteq m
            BY <1>25, <6>1
          <6>3. <<RunOf(v), i>> \in m
            BY <5>2, <6>2 DEF Activity!Keys
          <6> QED BY <1>8, <6>2, <6>3
        <5> QED BY <1>18, <5>1, <5>2 DEF Activity!Keys
      <4> QED BY <1>6, <1>8, <1>13, <1>18, <3>1, <4>1
    <3>2. CASE w # v
      <4>1. Hides(w) /\ inv'[w] = inv[w] /\ Mine(w) \in Turn
        BY <1>19, <1>21, <2>3, <3>2
      <4>2. PICK m \in acts[Mine(w)].hidden : Activity!Keys(RunOf(w), inv[w].ids) \subseteq m
        BY <1>1, <4>1 DEF HiddenInv, Marked
      <4>3. inv[w].ids # {}
        BY <1>1, <4>1 DEF HiddenInv
      <4>4. CASE Mine(w) # t
        BY <1>13, <4>1, <4>2, <4>3, <4>4
      <4>5. CASE Mine(w) = t
        <5>1. m \in h
          BY <1>7, <4>2, <4>5
        <5>2. (m \subseteq x /\ x \in z) \/ m \in z
          BY <1>8, <5>1
        <5> QED BY <1>13, <4>1, <4>2, <4>3, <4>5, <5>2
      <4> QED BY <4>4, <4>5
    <3> QED BY <3>1, <3>2
  <2> QED BY <1>21, <2>1, <2>2, <2>3 DEF HiddenInv, Marked, Unmarked
<1>28. NamedInv'
  <2>1. \A w \in Inv : inv[w].ids # {} /\ ~inv[w].hid => w # v
    BY <1>18
  <2> QED BY <1>1, <1>13, <1>21, <2>1 DEF NamedInv
<1> QED BY <1>28, <1>15, <1>17, <1>20, <1>23, <1>24, <1>27 DEF ActivityInv

-----------------------------------------------------------------------------
(***************************************************************************)
(* An event that is shown.                                                 *)
(***************************************************************************)
LEMMA StartKeeps ==
    ASSUME ActivityConstants, ActivityInv, NEW v \in Inv, NEW phase, phase = "start", inv[v].st = "new", NEW ids, NEW b \in BOOLEAN, ~b,
           Activity!HostMay(v, phase, ids, b), Tracked(RunOf(v)),
           NEW d, d = Hiding(acts[Mine(v)], Activity!Retired(acts[Mine(v)].hidden, Activity!Keys(RunOf(v), ids))),
           NEW z, z = Activity!Correlate(d, "start", RunOf(v), ids),
           Put(Mine(v), z.c), Noted(v, phase, ids, b, {<<Mine(v), z.id>>})
    PROVE  ActivityInv'
<1>1. ActivityTypes /\ CallsInv /\ PubInv /\ NamedInv /\ ShownInv /\ ActiveInv /\ HiddenInv
  BY DEF ActivityInv
<1>2. /\ RunOf(v) \in Agent /\ Mine(v) \in Turn /\ turn[Mine(v)].stage = "run" /\ RunOf(v) \in turn[Mine(v)].runs
      /\ ids \in SUBSET IdsOf(v) /\ ids \in SUBSET (1..MaxId) /\ (ids = {} <=> IdsOf(v) = {})
      /\ \A w \in Inv : Opened(w) /\ w # v /\ RunOf(w) = RunOf(v) => IdsOf(w) \cap IdsOf(v) = {}
      /\ inv[v].st = "new" /\ (ids # {} => Root(v) \in ids)
  BY HostFacts
<1>3. PICK t, r : t = Mine(v) /\ r = RunOf(v)
  OBVIOUS
<1>4. PICK keys, h, c : keys = Activity!Keys(r, ids) /\ h = acts[t].hidden /\ c = acts[t]
  OBVIOUS
<1>5. \A a : a \in keys <=> \E i \in ids : a = <<r, i>>
  BY <1>4 DEF Activity!Keys
<1>6. c \in Following /\ c = [calls |-> c.calls, alias |-> c.alias, gen |-> c.gen, hidden |-> c.hidden] /\ h = c.hidden
      /\ c.calls \in Seq(Call) /\ c.alias \in [Alias -> Nat] /\ c.gen \in Nat /\ h \in SUBSET SUBSET Alias
  BY <1>1, <1>2, <1>3, <1>4 DEF ActivityTypes, Following
<1>7. PICK g : g = Activity!Retired(h, keys)
  OBVIOUS
<1>8. g \subseteq h /\ \A m \in h : m \in g <=> m \cap keys = {}
  BY <1>7 DEF Activity!Retired, Activity!Matching
<1>9. d = [calls |-> c.calls, alias |-> c.alias, gen |-> c.gen, hidden |-> g]
  <2>1. d = [c EXCEPT !.hidden = g]
    BY <1>3, <1>4, <1>6, <1>7 DEF Hiding
  <2> QED BY <1>6, <2>1
<1>10. d \in Following /\ d.calls = c.calls /\ d.alias = c.alias /\ d.gen = c.gen /\ d.hidden = g
  <2>1. g \in SUBSET SUBSET Alias
    BY <1>6, <1>8
  <2>2. d \in Following
    BY <1>6, <1>9, <2>1, FollowingRecord
  <2> QED BY <1>9, <2>2
<1>11. CallsAt(c, turn[t].runs) /\ CallsAt(d, turn[t].runs)
  BY <1>1, <1>2, <1>3, <1>4, <1>10 DEF CallsInv, CallsAt
<1>12. Activity!StartTarget(d, r, ids) = 0
  <2> SUFFICES ASSUME Activity!StartTarget(d, r, ids) # 0 PROVE FALSE
    OBVIOUS
  <2>1. PICK k : k = Activity!Aliased(d, r, ids)
    OBVIOUS
  <2>2. k # 0 /\ d.calls[k].active
    BY <2>1 DEF Activity!StartTarget
  <2>3. PICK i \in ids : d.alias[<<r, i>>] = k
    <3>1. k = 0 \/ LeadsTo(k, d, r, ids)
      BY <2>1, AliasedFacts
    <3> QED BY <2>2, <3>1 DEF LeadsTo
  <2>4. <<r, i>> \in Alias /\ i \in 1..MaxId
    BY <1>2, <1>3 DEF Alias
  <2>5. k \in DOMAIN c.calls /\ c.calls[k].run = r /\ c.calls[k].active /\ c.alias[<<r, i>>] = k
    BY <1>10, <1>11, <2>2, <2>3, <2>4 DEF CallsAt
  <2>6. PICK w \in Inv : Sees(w) /\ Mine(w) = t /\ Owns(w, k)
    BY <1>1, <1>2, <1>3, <1>4, <2>5 DEF ActiveInv
  <2>7. RunOf(w) = r /\ i \in IdsOf(w) /\ Opened(w) /\ w # v
    BY <1>4, <2>4, <2>5, <2>6 DEF Owns, OwnsIn, Sees, Opened
  <2> QED BY <1>2, <1>3, <2>3, <2>7
<1>13. PICK n : n = Len(d.calls) + 1
  OBVIOUS
<1>14. PICK s, id : s = z.c /\ id = z.id
  OBVIOUS
<1>15. /\ s \in Following /\ s.calls = Append(c.calls, [id |-> id, run |-> r, active |-> TRUE])
       /\ s.hidden = g /\ s.gen >= c.gen /\ id \in Nat
       /\ id \in 1..(MaxId + s.gen) /\ id \notin Activity!Used(c)
       /\ \A a \in Alias : s.alias[a] = IF a[1] = r /\ a[2] \in ids THEN n ELSE c.alias[a]
  <2>1. /\ z.c \in Following /\ z.c.calls = Append(d.calls, [id |-> z.id, run |-> r, active |-> TRUE])
        /\ z.c.hidden = d.hidden /\ z.c.gen >= d.gen /\ z.id \in Nat
        /\ z.id \in 1..(MaxId + z.c.gen) /\ z.id \notin Activity!Used(d)
        /\ \A a \in Alias : z.c.alias[a] = IF a[1] = r /\ a[2] \in ids THEN n ELSE d.alias[a]
    <3>1. z = Activity!Correlate(d, "start", r, ids)
      BY <1>3
    <3>2. Started(z, d, r, ids, n)
      BY <1>2, <1>3, <1>10, <1>11, <1>12, <1>13, <3>1, CorrelateStarts
    <3> QED BY <3>2 DEF Started
  <2>2. Activity!Used(d) = Activity!Used(c)
    BY <1>10 DEF Activity!Used
  <2> QED BY <1>10, <1>14, <2>1, <2>2
<1>16. PICK l \in Call : l.id = id /\ l.run = r /\ l.active /\ s.calls = Append(c.calls, l)
  <2>1. PICK yes \in BOOLEAN : yes = TRUE
    OBVIOUS
  <2>2. PICK l : l = [id |-> id, run |-> r, active |-> yes]
    OBVIOUS
  <2>3. l \in Call
    BY <1>2, <1>3, <1>15, <2>2 DEF Call
  <2>4. s.calls = Append(c.calls, l)
    BY <1>15, <2>1, <2>2
  <2>5. l.id = id /\ l.run = r /\ l.active
    BY <2>1, <2>2
  <2> QED BY <2>3, <2>4, <2>5
<1>17. /\ n \in Nat /\ n # 0 /\ n \notin DOMAIN c.calls /\ DOMAIN s.calls = DOMAIN c.calls \cup {n} /\ s.calls[n] = l
       /\ \A k \in DOMAIN c.calls : s.calls[k] = c.calls[k]
  <2>1. n = Len(c.calls) + 1
    BY <1>10, <1>13
  <2> QED BY <1>6, <1>16, <2>1
<1>18. /\ acts'[t] = s /\ \A y \in Turn : y # t => acts'[y] = acts[y]
       /\ acts' \in [Turn -> Following]
  BY <1>1, <1>2, <1>3, <1>14, <1>15 DEF ActivityTypes, Put
<1>19. <<t, id>> \in Turn \X Nat /\ {<<t, id>>} \in SUBSET (Turn \X Nat)
  BY <1>2, <1>3, <1>15
<1>20. Noted(v, phase, ids, b, {<<t, id>>}) /\ phase \in {"start", "derived", "update", "end"}
  BY <1>3, <1>14
<1>21. After(v, phase, ids, b, {<<t, id>>})
  BY <1>1, <1>2, <1>19, <1>20, NotedFacts
<1>22. /\ ActivityTypes' /\ SinkInv' /\ StartedInv' /\ VerdictInv'
       /\ inv'[v].ids \subseteq IdsOf(v) /\ inv'[v].st # "new" /\ (IdsOf(v) # {} => Root(v) \in inv'[v].ids)
  BY <1>18, <1>19, <1>20, EventFrame
<1>23. turn' = turn /\ \A x : Tracked(x)' = Tracked(x)
  BY <1>20, <1>21 DEF Noted, After
<1>24. inv'[v].st = "live" /\ inv'[v].ids = ids /\ ~inv'[v].hid /\ inv'[v].pub = {<<t, id>>} /\ ~Sees(v)
  <2>1. inv[v].ids = {} /\ inv[v].pub = {}
    BY <1>1, <1>2 DEF PubInv, PubAt
  <2> QED BY <1>2, <1>21, <2>1 DEF After, Sees, Opened
<1>25. \A w \in Inv : Mine(w) \in Turn /\ RunOf(w) \in Agent /\ IdsOf(w) \subseteq 1..MaxId
  BY DEF ActivityConstants, Mine
<1>26. \A w \in Inv : w # v => inv'[w] = inv[w] /\ (Sees(w)' <=> Sees(w)) /\ (Hides(w)' <=> Hides(w))
  BY <1>21 DEF After, Sees, Hides, Opened
<1>27. CallsInv'
  <2>1. CallsAt(s, turn[t].runs)
    <3>1. ASSUME NEW k \in DOMAIN s.calls PROVE s.calls[k].id \in 1..(MaxId + s.gen) /\ s.calls[k].run \in turn[t].runs
      <4>1. CASE k = n
        BY <1>2, <1>3, <1>15, <1>16, <1>17, <4>1
      <4>2. CASE k \in DOMAIN c.calls
        <5>1. c.calls[k].id \in 1..(MaxId + c.gen) /\ c.calls[k].run \in turn[t].runs
          BY <1>11, <4>2 DEF CallsAt
        <5>2. MaxId \in Nat /\ s.gen \in Nat /\ c.gen \in Nat /\ s.gen >= c.gen
          BY <1>6, <1>15 DEF ActivityConstants, Following
        <5>3. PICK a \in Nat, y \in Nat : a = s.gen /\ y = c.gen
          BY <5>2
        <5> QED BY <1>17, <4>2, <5>1, <5>2, <5>3
      <4> QED BY <1>17, <4>1, <4>2
    <3>2. ASSUME NEW j \in DOMAIN s.calls, NEW k \in DOMAIN s.calls, s.calls[j].id = s.calls[k].id PROVE j = k
      <4>1. \A y \in DOMAIN c.calls : c.calls[y].id # id
        BY <1>15 DEF Activity!Used
      <4> QED BY <1>11, <1>16, <1>17, <3>2, <4>1 DEF CallsAt
    <3>3. ASSUME NEW a \in Alias, s.alias[a] # 0 PROVE s.alias[a] \in DOMAIN s.calls /\ s.calls[s.alias[a]].run = a[1]
      <4>1. CASE a[1] = r /\ a[2] \in ids
        BY <1>15, <1>16, <1>17, <4>1
      <4>2. CASE ~(a[1] = r /\ a[2] \in ids)
        <5>1. s.alias[a] = c.alias[a]
          BY <1>15, <4>2
        <5>2. c.alias[a] \in DOMAIN c.calls /\ c.calls[c.alias[a]].run = a[1]
          BY <1>11, <3>3, <5>1 DEF CallsAt
        <5> QED BY <1>17, <5>1, <5>2
      <4> QED BY <4>1, <4>2
    <3> QED BY <3>1, <3>2, <3>3 DEF CallsAt
  <2> QED BY <1>1, <1>18, <1>23, <2>1 DEF CallsInv
<1>28. Activity!Used(s) = Activity!Used(c) \cup {id}
  BY <1>16, <1>17 DEF Activity!Used
<1>29. PubInv'
  <2>1. PubAt(v)'
    <3>1. \A p \in {<<t, id>>} : p[1] = Mine(v) /\ p[2] \in Activity!Used(acts'[Mine(v)])
      BY <1>3, <1>18, <1>28
    <3> QED BY <1>22, <1>24, <3>1 DEF PubAt
  <2>2. ASSUME NEW w \in Inv, w # v PROVE PubAt(w)'
    <3>1. \A y \in Turn : Activity!Used(acts[y]) \subseteq Activity!Used(acts'[y])
      BY <1>4, <1>18, <1>28
    <3> QED BY <1>1, <1>23, <1>25, <1>26, <2>2, <3>1 DEF PubInv, PubAt
  <2>3. ASSUME NEW w \in Inv, w # v, <<t, id>> \in inv[w].pub PROVE FALSE
    <3>1. PICK p : p = <<t, id>>
      OBVIOUS
    <3>2. p \in inv[w].pub /\ p[1] = t /\ p[2] = id
      BY <2>3, <3>1
    <3>3. Mine(w) = t
      BY <1>1, <3>2 DEF PubInv, PubAt
    <3>4. id \in Activity!Used(c)
      BY <1>1, <1>2, <1>3, <1>4, <3>2, <3>3 DEF PubInv, PubAt
    <3> QED BY <1>15, <3>4
  <2>4. \A w, y \in Inv : w # y => inv'[w].pub \cap inv'[y].pub = {}
    BY <1>1, <1>24, <1>26, <2>3 DEF PubInv
  <2> QED BY <2>1, <2>2, <2>4 DEF PubInv
\* What other invocations own, they keep.
<1>30. ASSUME NEW w \in Inv, w # v, Opened(w), NEW k, Owns(w, k) PROVE Owns(w, k)'
  <2>1. CASE Mine(w) # t
    BY <1>18, <1>25, <1>26, <1>30, <2>1 DEF Owns, OwnsIn
  <2>2. CASE Mine(w) = t
    <3>1. OwnsIn(c, w, k)
      BY <1>4, <1>30, <2>2 DEF Owns
    <3>2. k \in DOMAIN s.calls /\ s.calls[k] = c.calls[k] /\ k # n /\ k \in DOMAIN c.calls
      BY <1>17, <3>1 DEF OwnsIn
    <3>3. ASSUME NEW i \in inv[w].ids PROVE s.alias[<<RunOf(w), i>>] = k
      <4>1. i \in IdsOf(w) /\ <<RunOf(w), i>> \in Alias
        <5>1. i \in IdsOf(w)
          BY <1>1, <3>3 DEF PubInv, PubAt
        <5> QED BY <1>25, <5>1 DEF Alias
      <4>2. ~(RunOf(w) = r /\ i \in ids)
        BY <1>2, <1>3, <1>30, <4>1
      <4>3. s.alias[<<RunOf(w), i>>] = c.alias[<<RunOf(w), i>>]
        BY <1>15, <4>1, <4>2
      <4> QED BY <3>1, <3>3, <4>3 DEF OwnsIn
    <3>4. ASSUME NEW i \in 1..MaxId, s.alias[<<RunOf(w), i>>] = k PROVE i \in IdsOf(w)
      <4>1. <<RunOf(w), i>> \in Alias
        BY <1>25 DEF Alias
      <4>2. c.alias[<<RunOf(w), i>>] = k
        BY <1>15, <3>2, <3>4, <4>1
      <4> QED BY <3>1, <4>2 DEF OwnsIn
    <3>5. OwnsIn(s, w, k)'
      BY <1>26, <1>30, <3>1, <3>2, <3>3, <3>4 DEF OwnsIn
    <3> QED BY <1>18, <2>2, <3>5 DEF Owns
  <2> QED BY <2>1, <2>2
<1>31. Owns(v, n)' /\ n \in DOMAIN acts'[t].calls
  <2>1. ASSUME NEW i \in ids PROVE s.alias[<<r, i>>] = n
    <3>1. <<r, i>> \in Alias
      BY <1>2, <1>3 DEF Alias
    <3> QED BY <1>15, <3>1
  <2>2. ASSUME NEW i \in 1..MaxId, s.alias[<<r, i>>] = n PROVE i \in IdsOf(v)
    <3>1. <<r, i>> \in Alias
      BY <1>2, <1>3 DEF Alias
    <3>2. c.alias[<<r, i>>] # n
      BY <1>11, <1>17, <3>1 DEF CallsAt
    <3> QED BY <1>2, <1>15, <2>2, <3>1, <3>2
  <2>3. OwnsIn(s, v, n)'
    BY <1>3, <1>16, <1>17, <1>24, <2>1, <2>2 DEF OwnsIn
  <2> QED BY <1>3, <1>17, <1>18, <2>3 DEF Owns
<1>32. ShownInv'
  <2> SUFFICES ASSUME NEW w \in Inv, Sees(w)' PROVE \E k \in DOMAIN acts'[Mine(w)].calls : Owns(w, k)'
    BY DEF ShownInv
  <2>1. CASE w = v
    BY <1>3, <1>31, <2>1
  <2>2. CASE w # v
    <3>1. PICK k \in DOMAIN acts[Mine(w)].calls : Owns(w, k)
      BY <1>1, <1>26, <2>2 DEF ShownInv
    <3>2. Owns(w, k)'
      BY <1>26, <1>30, <2>2, <3>1 DEF Sees
    <3> QED BY <3>2 DEF Owns, OwnsIn
  <2> QED BY <2>1, <2>2
<1>33. ActiveInv'
  <2> SUFFICES ASSUME NEW y \in Turn, NEW k \in DOMAIN acts'[y].calls, (acts[y].calls[k].active /\ Tracked(acts[y].calls[k].run))'
               PROVE  \E w \in Inv : Sees(w)' /\ Mine(w) = y /\ Owns(w, k)'
    BY DEF ActiveInv
  <2>1. CASE y = t /\ k = n
    BY <1>3, <1>23, <1>24, <1>31, <2>1 DEF Sees, Opened
  <2>2. CASE ~(y = t /\ k = n)
    <3>1. k \in DOMAIN acts[y].calls /\ acts'[y].calls[k] = acts[y].calls[k]
      BY <1>4, <1>17, <1>18, <2>2
    <3>2. PICK x : x = acts[y].calls[k].run
      OBVIOUS
    <3>3. Tracked(x)'
      BY <3>1, <3>2 DEF Tracked
    <3>4. acts[y].calls[k].active /\ Tracked(acts[y].calls[k].run)
      BY <1>23, <3>1, <3>2, <3>3
    <3>5. PICK w \in Inv : Sees(w) /\ Mine(w) = y /\ Owns(w, k)
      BY <1>1, <3>1, <3>4 DEF ActiveInv
    <3>6. w # v /\ Opened(w)
      BY <1>24, <3>5 DEF Sees
    <3> QED BY <1>26, <1>30, <3>5, <3>6
  <2> QED BY <2>1, <2>2
<1>34. HiddenInv'
  <2>1. ASSUME NEW y \in Turn, NEW m \in acts'[y].hidden PROVE m \in acts[y].hidden
    BY <1>4, <1>8, <1>15, <1>18, <2>1
  <2>2. ASSUME NEW w \in Inv, Sees(w)', IdsOf(w) # {} PROVE Unmarked(w, acts'[Mine(w)].hidden)
    <3>1. CASE w = v
      <4>1. <<r, Root(v)>> \in keys
        BY <1>2, <1>5, <2>2, <3>1
      <4>2. \A m \in g : <<r, Root(v)>> \notin m
        BY <1>8, <4>1
      <4> QED BY <1>3, <1>15, <1>18, <3>1, <4>2 DEF Unmarked
    <3>2. CASE w # v
      <4>1. Unmarked(w, acts[Mine(w)].hidden)
        BY <1>1, <1>26, <2>2, <3>2 DEF HiddenInv
      <4> QED BY <1>25, <2>1, <4>1 DEF Unmarked
    <3> QED BY <3>1, <3>2
  <2>3. ASSUME NEW w \in Inv, Hides(w)' PROVE inv'[w].ids # {} /\ \E m \in acts'[Mine(w)].hidden : Activity!Keys(RunOf(w), inv'[w].ids) \subseteq m
    <3>1. w # v
      BY <1>24, <2>3 DEF Hides, Opened
    <3>2. Hides(w) /\ inv'[w] = inv[w]
      BY <1>26, <2>3, <3>1
    <3>3. inv[w].ids # {} /\ Opened(w)
      BY <1>1, <3>2 DEF HiddenInv, Hides
    <3>4. PICK m \in acts[Mine(w)].hidden : Activity!Keys(RunOf(w), inv[w].ids) \subseteq m
      BY <1>1, <3>2 DEF HiddenInv, Marked
    <3>5. CASE Mine(w) # t
      BY <1>18, <1>25, <3>2, <3>3, <3>4, <3>5
    <3>6. CASE Mine(w) = t
      <4>1. ASSUME NEW i \in ids, <<r, i>> \in m PROVE FALSE
        <5>1. Family(m) /\ i \in IdsOf(v)
          BY <1>1, <1>2, <1>25, <3>4 DEF HiddenInv
        <5>2. \A a \in m : Kin(v, a)
          BY <1>3, <4>1, <5>1, KinOf
        <5>3. PICK j : j \in inv[w].ids
          BY <3>3
        <5>4. <<RunOf(w), j>> \in m /\ j \in IdsOf(w)
          BY <1>1, <3>4, <5>3 DEF Activity!Keys, PubInv, PubAt
        <5>5. PICK y \in Inv : RunOf(y) = r /\ RunOf(w) = r /\ j \in IdsOf(y) /\ Root(y) = Root(v)
          BY <1>3, <5>2, <5>4 DEF Kin
        <5>6. Root(w) = Root(y)
          BY <5>4, <5>5 DEF ActivityConstants, Root
        <5>7. Root(w) \in IdsOf(w)
          BY <1>1, <3>3, <5>4 DEF PubInv, PubAt, Opened
        <5>8. Root(v) \in IdsOf(v)
          BY <1>2, <4>1
        <5> QED BY <1>2, <1>3, <3>1, <3>3, <5>5, <5>6, <5>7, <5>8
      <4>2. m \in g
        BY <1>4, <1>5, <1>8, <3>4, <3>6, <4>1
      <4> QED BY <1>15, <1>18, <3>2, <3>3, <3>4, <3>6, <4>2
    <3> QED BY <3>5, <3>6
  <2>4. ASSUME NEW y \in Turn, NEW m \in acts'[y].hidden PROVE Family(m)
    BY <1>1, <2>1, <2>4 DEF HiddenInv
  <2> QED BY <2>2, <2>3, <2>4 DEF HiddenInv, Marked, Unmarked
<1>35. NamedInv'
  <2> SUFFICES ASSUME NEW y \in Turn, NEW a \in Alias, acts'[y].alias[a] # 0
               PROVE  \E w \in Inv : RunOf(w) = a[1] /\ ~inv'[w].hid /\ a[2] \in inv'[w].ids
    BY DEF NamedInv
  <2>1. CASE y = t /\ a[1] = r /\ a[2] \in ids
    BY <1>3, <1>24, <2>1
  <2>2. CASE ~(y = t /\ a[1] = r /\ a[2] \in ids)
    <3>1. acts[y].alias[a] # 0
      BY <1>4, <1>15, <1>18, <2>2
    <3>2. PICK w \in Inv : RunOf(w) = a[1] /\ ~inv[w].hid /\ a[2] \in inv[w].ids
      BY <1>1, <3>1 DEF NamedInv
    <3>3. w # v
      BY <1>1, <1>2, <3>2 DEF PubInv, PubAt
    <3> QED BY <1>26, <3>2, <3>3
  <2> QED BY <2>1, <2>2
<1> QED BY <1>35, <1>22, <1>27, <1>29, <1>32, <1>33, <1>34 DEF ActivityInv

LEMMA GoesOnKeeps ==
    ASSUME ActivityConstants, ActivityInv, NEW v \in Inv, NEW phase \in {"start", "derived", "update", "end"}, NEW ids, NEW b \in BOOLEAN, ~b,
           Activity!HostMay(v, phase, ids, b), Tracked(RunOf(v)), ~inv[v].hid, inv[v].st # "new",
           NEW z, z = Activity!Correlate(acts[Mine(v)], phase, RunOf(v), ids),
           Put(Mine(v), z.c), Noted(v, phase, ids, b, {<<Mine(v), z.id>>})
    PROVE  ActivityInv'
<1>1. ActivityTypes /\ CallsInv /\ PubInv /\ NamedInv /\ ShownInv /\ ActiveInv /\ HiddenInv
  BY DEF ActivityInv
<1>2. /\ RunOf(v) \in Agent /\ Mine(v) \in Turn
      /\ ids \in SUBSET IdsOf(v) /\ ids \in SUBSET (1..MaxId)
      /\ \A w \in Inv : Opened(w) /\ w # v /\ RunOf(w) = RunOf(v) => IdsOf(w) \cap IdsOf(v) = {}
      /\ \A w \in Inv : inv[w].st = "live" /\ w # v /\ RunOf(w) = RunOf(v) => ids # {}
      /\ Opened(v) /\ (phase \in {"start", "derived"} => ids \cap inv[v].ids # {})
      /\ inv[v].st # "live" => phase = "end" /\ ids # {} /\ ids \cap inv[v].ids # {}
  BY HostFacts
<1>31. /\ phase = "end" => \A i \in ids \ inv[v].ids : ~Activity!Taken(v, i)
       /\ ids = {} \/ ids \cap inv[v].ids # {} \/ (inv[v].st = "live" /\ Activity!Lonely(v) /\ \A i \in ids : ~Activity!Taken(v, i))
  BY DEF Activity!HostMay, Activity!Live
<1>3. PICK t, r : t = Mine(v) /\ r = RunOf(v)
  OBVIOUS
<1>4. PICK c : c = acts[t]
  OBVIOUS
<1>5. c \in Following /\ c.calls \in Seq(Call) /\ CallsAt(c, turn[t].runs)
  BY <1>1, <1>2, <1>3, <1>4 DEF ActivityTypes, Following, CallsInv
<1>6. Sees(v)
  BY <1>2 DEF Sees
<1>7. PICK k \in DOMAIN c.calls : Owns(v, k)
  BY <1>1, <1>3, <1>4, <1>6 DEF ShownInv
<1>8. /\ (c.calls[k].active <=> inv[v].st = "live") /\ c.calls[k].run = r /\ <<t, c.calls[k].id>> \in inv[v].pub
      /\ \A i \in inv[v].ids : c.alias[<<r, i>>] = k
      /\ \A i \in 1..MaxId : c.alias[<<r, i>>] = k => i \in IdsOf(v)
  BY <1>3, <1>4, <1>7 DEF Owns, OwnsIn
\* A live invocation owns each active call of the run, and v owns no other than k.
<1>9. ASSUME NEW j \in DOMAIN c.calls, c.calls[j].active, c.calls[j].run = r
      PROVE  \E w \in Inv : inv[w].st = "live" /\ RunOf(w) = r /\ Owns(w, j) /\ Mine(w) = t /\ (w = v => j = k)
  <2>1. PICK w \in Inv : Sees(w) /\ Mine(w) = t /\ Owns(w, j)
    BY <1>1, <1>2, <1>3, <1>4, <1>9 DEF ActiveInv
  <2>2. RunOf(w) = r /\ inv[w].st = "live" /\ <<t, c.calls[j].id>> \in inv[w].pub
    BY <1>4, <1>9, <2>1 DEF Owns, OwnsIn
  <2>3. ASSUME w = v PROVE j = k
    <3>1. <<t, c.calls[j].id>> = <<t, c.calls[k].id>>
      BY <1>1, <1>8, <2>2, <2>3 DEF PubInv, PubAt
    <3> QED BY <1>5, <1>9, <3>1 DEF CallsAt
  <2> QED BY <2>1, <2>2, <2>3
<1>10. ASSUME NEW i \in ids, c.alias[<<r, i>>] # 0, c.calls[c.alias[<<r, i>>]].active PROVE c.alias[<<r, i>>] = k
  <2>1. PICK j : j = c.alias[<<r, i>>]
    OBVIOUS
  <2>2. <<r, i>> \in Alias /\ i \in 1..MaxId
    BY <1>2, <1>3 DEF Alias
  <2>3. j \in DOMAIN c.calls /\ c.calls[j].run = r
    BY <1>5, <1>10, <2>1, <2>2 DEF CallsAt
  <2>4. PICK w \in Inv : inv[w].st = "live" /\ RunOf(w) = r /\ Owns(w, j) /\ Mine(w) = t /\ (w = v => j = k)
    BY <1>9, <1>10, <2>1, <2>3
  <2>5. i \in IdsOf(w)
    BY <1>4, <2>1, <2>2, <2>4 DEF Owns, OwnsIn
  <2> QED BY <1>2, <1>3, <2>1, <2>4, <2>5 DEF Opened
\* An id that no other invocation was shown by leads to k or nowhere.
<1>32. ASSUME NEW i \in ids, ~Activity!Taken(v, i) PROVE c.alias[<<r, i>>] # 0 => i \in inv[v].ids
  <2>1. <<r, i>> \in Alias
    BY <1>2, <1>3 DEF Alias
  <2>2. ASSUME c.alias[<<r, i>>] # 0 PROVE i \in inv[v].ids
    <3>1. PICK w \in Inv : RunOf(w) = r /\ ~inv[w].hid /\ i \in inv[w].ids
      BY <1>1, <1>2, <1>3, <1>4, <2>1, <2>2 DEF NamedInv
    <3> QED BY <1>3, <1>32, <3>1 DEF Activity!Taken
  <2> QED BY <2>2
<1>11. k = Target(c, r, ids, phase)
  <2>1. PICK y : y = Activity!Aliased(c, r, ids)
    OBVIOUS
  <2>2. (y = 0 \/ LeadsTo(y, c, r, ids)) /\ (LeadsOnlyTo(k, c, r, ids) \/ LeadsAllTo(k, c, r, ids) => y = k)
    BY <2>1, AliasedFacts
  <2>3. k # 0
    BY <1>5, ElementOf
  <2>4. CASE ids \cap inv[v].ids # {}
    <3>1. LeadsTo(k, c, r, ids)
      BY <1>8, <2>4 DEF LeadsTo
    <3>2. CASE inv[v].st = "live"
      <4>1. LeadsOnlyTo(k, c, r, ids)
        BY <1>8, <1>10, <2>3, <3>1, <3>2 DEF LeadsOnlyTo
      <4> QED BY <1>8, <2>1, <2>2, <2>3, <3>2, <4>1 DEF Target, Activity!StartTarget
    <3>3. CASE inv[v].st # "live"
      <4>1. phase = "end"
        BY <1>2, <3>3
      <4>2. LeadsAllTo(k, c, r, ids)
        BY <1>8, <1>31, <1>32, <2>3, <3>1, <4>1 DEF LeadsAllTo
      <4> QED BY <2>1, <2>2, <2>3, <4>1, <4>2 DEF Target, Activity!Starts
    <3> QED BY <3>2, <3>3
  <2>5. CASE ids \cap inv[v].ids = {}
    <3>0. /\ phase \notin {"start", "derived"} /\ inv[v].st = "live"
          /\ \A w \in Inv : inv[w].st = "live" /\ RunOf(w) = r => w = v
      <4>1. inv[v].st = "live" /\ phase \notin {"start", "derived"}
        BY <1>2, <2>5
      <4>2. ids = {} \/ Activity!Lonely(v)
        BY <1>31, <2>5
      <4> QED BY <1>2, <1>3, <4>1, <4>2 DEF Activity!Lonely, Activity!Live
    <3>1. y = 0
      BY <1>31, <1>32, <2>2, <2>5 DEF LeadsTo
    <3>2. PICK S : S = {j \in DOMAIN c.calls : c.calls[j].active /\ c.calls[j].run = r}
      OBVIOUS
    <3>3. ASSUME NEW j \in S PROVE j = k
      <4>1. PICK w \in Inv : inv[w].st = "live" /\ RunOf(w) = r /\ (w = v => j = k)
        BY <1>9, <3>2, <3>3
      <4> QED BY <3>0, <4>1
    <3>4. S = {k}
      BY <1>8, <3>0, <3>2, <3>3
    <3>5. Activity!SoleActive(c, r) = k
      BY <3>2, <3>4, OnlyFacts DEF Activity!SoleActive
    <3> QED BY <2>1, <3>0, <3>1, <3>5 DEF Target, Activity!Starts
  <2> QED BY <2>4, <2>5
<1>12. GoneOn(z, c, k, r, ids, phase)
  BY <1>3, <1>4, <1>5, <1>11, CorrelateGoesOn
<1>13. PICK s, id : s = z.c /\ id = z.id
  OBVIOUS
<1>14. /\ s \in Following /\ s.hidden = c.hidden /\ s.gen = c.gen /\ id = c.calls[k].id /\ DOMAIN s.calls = DOMAIN c.calls
       /\ \A j \in DOMAIN c.calls : s.calls[j].id = c.calls[j].id /\ s.calls[j].run = c.calls[j].run
                                    /\ s.calls[j].active = (IF j = k THEN phase # "end" ELSE c.calls[j].active)
       /\ \A a \in Alias : s.alias[a] = c.alias[a] \/ (a[1] = r /\ a[2] \in ids /\ s.alias[a] = k)
       /\ \A a \in Alias : a[1] = r /\ a[2] \in ids =>
             s.alias[a] = k \/ (c.alias[a] # 0 /\ (phase = "end" \/ c.calls[c.alias[a]].active))
  BY <1>12, <1>13 DEF GoneOn
<1>15. /\ acts'[t] = s /\ \A y \in Turn : y # t => acts'[y] = acts[y]
       /\ acts' \in [Turn -> Following]
  BY <1>1, <1>2, <1>3, <1>13, <1>14 DEF ActivityTypes, Put
<1>16. <<t, id>> \in inv[v].pub /\ {<<t, id>>} \in SUBSET (Turn \X Nat)
  <2>1. c.calls[k] \in Call
    BY <1>5, ElementOf
  <2>2. id \in Nat
    BY <1>14, <2>1 DEF Call
  <2>3. <<t, id>> \in Turn \X Nat
    BY <1>2, <1>3, <2>2
  <2> QED BY <1>8, <1>14, <2>3
<1>17. Noted(v, phase, ids, b, {<<t, id>>}) /\ phase \in {"start", "derived", "update", "end"}
  BY <1>3, <1>13
<1>18. After(v, phase, ids, b, {<<t, id>>})
  BY <1>1, <1>2, <1>16, <1>17, NotedFacts
<1>19. /\ ActivityTypes' /\ SinkInv' /\ StartedInv' /\ VerdictInv'
       /\ inv'[v].ids \subseteq IdsOf(v) /\ inv'[v].st # "new" /\ (IdsOf(v) # {} => Root(v) \in inv'[v].ids)
  BY <1>15, <1>16, <1>17, EventFrame
<1>20. turn' = turn /\ \A x : Tracked(x)' = Tracked(x)
  BY <1>17, <1>18 DEF Noted, After
<1>21. /\ inv'[v].ids = inv[v].ids \cup ids /\ ~inv'[v].hid /\ inv'[v].pub = inv[v].pub
       /\ inv'[v].st = (IF phase = "end" THEN "ending" ELSE "live")
  <2>1. inv[v].pub \cup {<<t, id>>} = inv[v].pub
    BY <1>16
  <2> QED BY <1>18, <2>1 DEF After
<1>22. \A w \in Inv : Mine(w) \in Turn /\ RunOf(w) \in Agent /\ IdsOf(w) \subseteq 1..MaxId
  BY DEF ActivityConstants, Mine
<1>23. \A w \in Inv : w # v => inv'[w] = inv[w] /\ (Sees(w)' <=> Sees(w)) /\ (Hides(w)' <=> Hides(w))
  BY <1>18 DEF After, Sees, Hides, Opened
<1>24. CallsInv'
  <2>1. CallsAt(s, turn[t].runs)
    <3>1. \A j \in DOMAIN s.calls : s.calls[j].id \in 1..(MaxId + s.gen) /\ s.calls[j].run \in turn[t].runs
      BY <1>5, <1>14 DEF CallsAt
    <3>2. \A i, j \in DOMAIN s.calls : s.calls[i].id = s.calls[j].id => i = j
      BY <1>5, <1>14 DEF CallsAt
    <3>3. ASSUME NEW a \in Alias, s.alias[a] # 0 PROVE s.alias[a] \in DOMAIN s.calls /\ s.calls[s.alias[a]].run = a[1]
      <4>1. CASE s.alias[a] = c.alias[a]
        BY <1>5, <1>14, <3>3, <4>1 DEF CallsAt
      <4>2. CASE a[1] = r /\ s.alias[a] = k
        BY <1>8, <1>14, <4>2
      <4> QED BY <1>14, <4>1, <4>2
    <3> QED BY <3>1, <3>2, <3>3 DEF CallsAt
  <2> QED BY <1>1, <1>15, <1>20, <2>1 DEF CallsInv
<1>25. PubInv'
  <2>1. Activity!Used(s) = Activity!Used(c)
    BY <1>14 DEF Activity!Used
  <2>2. \A y \in Turn : Activity!Used(acts'[y]) = Activity!Used(acts[y])
    BY <1>4, <1>15, <2>1
  <2>3. \A w \in Inv : inv'[w].pub = inv[w].pub
    BY <1>21, <1>23
  <2>4. PubAt(v)'
    BY <1>1, <1>19, <1>20, <1>21, <1>22, <2>2 DEF PubInv, PubAt
  <2>5. ASSUME NEW w \in Inv, w # v PROVE PubAt(w)'
    BY <1>1, <1>20, <1>22, <1>23, <2>2, <2>5 DEF PubInv, PubAt
  <2> QED BY <1>1, <2>3, <2>4, <2>5 DEF PubInv
\* What other invocations own, they keep.
<1>26. ASSUME NEW w \in Inv, w # v, Opened(w), NEW j, Owns(w, j) PROVE Owns(w, j)'
  <2>1. CASE Mine(w) # t
    BY <1>15, <1>22, <1>23, <1>26, <2>1 DEF Owns, OwnsIn
  <2>2. CASE Mine(w) = t
    <3>1. OwnsIn(c, w, j)
      BY <1>4, <1>26, <2>2 DEF Owns
    <3>2. j \in DOMAIN c.calls /\ j # k
      BY <1>1, <1>8, <1>26, <2>2, <3>1 DEF OwnsIn, PubInv
    <3>3. ASSUME NEW i \in inv[w].ids PROVE s.alias[<<RunOf(w), i>>] = j
      <4>1. i \in IdsOf(w)
        BY <1>1, <3>3 DEF PubInv, PubAt
      <4>2. <<RunOf(w), i>> \in Alias
        BY <1>22, <4>1 DEF Alias
      <4>3. ~(RunOf(w) = r /\ i \in ids)
        BY <1>2, <1>3, <1>26, <4>1
      <4>4. s.alias[<<RunOf(w), i>>] = c.alias[<<RunOf(w), i>>]
        BY <1>14, <4>2, <4>3
      <4> QED BY <3>1, <3>3, <4>4 DEF OwnsIn
    <3>4. ASSUME NEW i \in 1..MaxId, s.alias[<<RunOf(w), i>>] = j PROVE i \in IdsOf(w)
      <4>1. <<RunOf(w), i>> \in Alias
        BY <1>22 DEF Alias
      <4>2. c.alias[<<RunOf(w), i>>] = j
        BY <1>14, <3>2, <3>4, <4>1
      <4> QED BY <3>1, <4>2 DEF OwnsIn
    <3>5. OwnsIn(s, w, j)'
      BY <1>14, <1>23, <1>26, <3>1, <3>2, <3>3, <3>4 DEF OwnsIn
    <3> QED BY <1>15, <2>2, <3>5 DEF Owns
  <2> QED BY <2>1, <2>2
<1>27. Owns(v, k)'
  <2>1. ASSUME NEW i \in inv[v].ids \cup ids PROVE s.alias[<<r, i>>] = k
    <3>1. <<r, i>> \in Alias
      <4>1. i \in IdsOf(v)
        BY <1>1, <1>2, <2>1 DEF PubInv, PubAt
      <4> QED BY <1>2, <1>3, <1>22, <4>1 DEF Alias
    <3>2. CASE i \in inv[v].ids
      BY <1>8, <1>14, <3>1, <3>2
    <3>3. CASE i \in ids
      <4>1. CASE phase # "end"
        BY <1>10, <1>14, <3>1, <3>3, <4>1
      <4>2. CASE phase = "end"
        <5>1. c.alias[<<r, i>>] # 0 => i \in inv[v].ids
          BY <1>31, <1>32, <3>3, <4>2
        <5> QED BY <1>8, <1>14, <3>1, <3>3, <5>1
      <4> QED BY <4>1, <4>2
    <3> QED BY <2>1, <3>2, <3>3
  <2>2. ASSUME NEW i \in 1..MaxId, s.alias[<<r, i>>] = k PROVE i \in IdsOf(v)
    <3>1. <<r, i>> \in Alias
      BY <1>2, <1>3 DEF Alias
    <3> QED BY <1>2, <1>8, <1>14, <2>2, <3>1
  <2>3. OwnsIn(s, v, k)'
    BY <1>3, <1>8, <1>14, <1>21, <2>1, <2>2 DEF OwnsIn
  <2> QED BY <1>3, <1>15, <2>3 DEF Owns
<1>28. ShownInv'
  <2> SUFFICES ASSUME NEW w \in Inv, Sees(w)' PROVE \E j \in DOMAIN acts'[Mine(w)].calls : Owns(w, j)'
    BY DEF ShownInv
  <2>1. CASE w = v
    BY <1>27, <2>1 DEF Owns, OwnsIn
  <2>2. CASE w # v
    <3>1. PICK j \in DOMAIN acts[Mine(w)].calls : Owns(w, j)
      BY <1>1, <1>23, <2>2 DEF ShownInv
    <3>2. Owns(w, j)'
      BY <1>23, <1>26, <2>2, <3>1 DEF Sees
    <3> QED BY <3>2 DEF Owns, OwnsIn
  <2> QED BY <2>1, <2>2
<1>29. ActiveInv'
  <2> SUFFICES ASSUME NEW y \in Turn, NEW j \in DOMAIN acts'[y].calls, (acts[y].calls[j].active /\ Tracked(acts[y].calls[j].run))'
               PROVE  \E w \in Inv : Sees(w)' /\ Mine(w) = y /\ Owns(w, j)'
    BY DEF ActiveInv
  <2>1. CASE y = t /\ j = k
    <3>2. Sees(v)'
      BY <1>3, <1>20, <1>21 DEF Sees, Opened
    <3> QED BY <1>3, <1>27, <2>1, <3>2
  <2>2. CASE ~(y = t /\ j = k)
    <3>1. j \in DOMAIN acts[y].calls /\ acts'[y].calls[j].run = acts[y].calls[j].run /\ acts'[y].calls[j].active = acts[y].calls[j].active
      <4>1. CASE y # t
        BY <1>15, <4>1
      <4>2. CASE y = t
        <5>1. j \in DOMAIN s.calls /\ j # k /\ acts'[y] = s /\ acts[y] = c
          BY <1>4, <1>15, <2>2, <4>2
        <5> QED BY <1>14, <5>1
      <4> QED BY <4>1, <4>2
    <3>2. PICK x : x = acts[y].calls[j].run
      OBVIOUS
    <3>3. Tracked(x)'
      BY <3>1, <3>2 DEF Tracked
    <3>4. acts[y].calls[j].active /\ Tracked(acts[y].calls[j].run)
      BY <1>20, <3>1, <3>2, <3>3
    <3>5. PICK w \in Inv : Sees(w) /\ Mine(w) = y /\ Owns(w, j)
      BY <1>1, <3>1, <3>4 DEF ActiveInv
    <3>6. w # v
      <4> SUFFICES ASSUME w = v PROVE FALSE
        OBVIOUS
      <4>1. y = t /\ <<t, c.calls[j].id>> \in inv[v].pub /\ j \in DOMAIN c.calls
        BY <1>3, <1>4, <3>5 DEF Owns, OwnsIn
      <4>2. <<t, c.calls[j].id>> = <<t, c.calls[k].id>>
        BY <1>1, <1>8, <4>1 DEF PubInv, PubAt
      <4> QED BY <1>5, <2>2, <4>1, <4>2 DEF CallsAt
    <3>7. Opened(w)
      BY <3>5 DEF Sees
    <3> QED BY <1>23, <1>26, <3>5, <3>6, <3>7
  <2> QED BY <2>1, <2>2
<1>30. HiddenInv'
  <2>1. \A y \in Turn : acts'[y].hidden = acts[y].hidden
    BY <1>4, <1>14, <1>15
  <2>2. \A w \in Inv : (Sees(w)' => Sees(w)) /\ (Hides(w)' => Hides(w) /\ inv'[w] = inv[w])
    BY <1>6, <1>21, <1>23 DEF Hides
  <2> QED BY <1>1, <1>22, <2>1, <2>2 DEF HiddenInv, Marked
<1>33. NamedInv'
  <2> SUFFICES ASSUME NEW y \in Turn, NEW a \in Alias, acts'[y].alias[a] # 0
               PROVE  \E w \in Inv : RunOf(w) = a[1] /\ ~inv'[w].hid /\ a[2] \in inv'[w].ids
    BY DEF NamedInv
  <2>1. CASE y = t /\ a[1] = r /\ a[2] \in ids
    BY <1>3, <1>21, <2>1
  <2>2. CASE ~(y = t /\ a[1] = r /\ a[2] \in ids)
    <3>1. acts[y].alias[a] # 0
      BY <1>4, <1>14, <1>15, <2>2
    <3>2. PICK w \in Inv : RunOf(w) = a[1] /\ ~inv[w].hid /\ a[2] \in inv[w].ids
      BY <1>1, <3>1 DEF NamedInv
    <3> QED BY <1>21, <1>23, <3>2
  <2> QED BY <2>1, <2>2
<1> QED BY <1>33, <1>19, <1>24, <1>25, <1>28, <1>29, <1>30 DEF ActivityInv

-----------------------------------------------------------------------------
(***************************************************************************)
(* Every step.                                                             *)
(***************************************************************************)
\* createAgentToolActivitySink keeps an event back, or shows it.
Handled(e, c, v, phase, ids, b, keys) ==
    /\ b => e = [c |-> Hiding(c, Activity!Hide(c.hidden, keys)), pub |-> {}]
    /\ ~b /\ phase # "start" =>
          IF Activity!Matching(c.hidden, keys) # {} THEN e = [c |-> Hiding(c, Activity!Hide(c.hidden, keys)), pub |-> {}]
          ELSE \A z : z = Activity!Correlate(c, phase, RunOf(v), ids) => e = [c |-> z.c, pub |-> {z.id}]
    /\ ~b /\ phase = "start" =>
          \A d, z : d = Hiding(c, Activity!Retired(c.hidden, keys)) /\ z = Activity!Correlate(d, "start", RunOf(v), ids) =>
             e = [c |-> z.c, pub |-> {z.id}]
LEMMA SinkForms ==
    ASSUME NEW c \in Following, NEW v, NEW phase, NEW ids, NEW b \in BOOLEAN, NEW keys, keys = Activity!Keys(RunOf(v), ids),
           NEW e, e = Activity!Sink(c, v, phase, ids, b)
    PROVE  Handled(e, c, v, phase, ids, b, keys)
<1>1. CASE b
  BY <1>1 DEF Activity!Sink, Hiding, Handled
<1>2. CASE ~b /\ phase # "start"
  BY <1>2 DEF Activity!Sink, Hiding, Handled
<1>3. CASE ~b /\ phase = "start"
  <2> SUFFICES ASSUME NEW d, NEW z, d = Hiding(c, Activity!Retired(c.hidden, keys)), z = Activity!Correlate(d, "start", RunOf(v), ids)
               PROVE  e = [c |-> z.c, pub |-> {z.id}]
    BY <1>3 DEF Handled
  <2>1. d.hidden = Activity!Retired(c.hidden, keys)
    BY DEF Following, Hiding
  <2>2. Activity!Matching(d.hidden, keys) = {}
    BY <2>1 DEF Activity!Retired, Activity!Matching
  <2> QED BY <1>3, <2>2 DEF Activity!Sink, Hiding
<1> QED BY <1>1, <1>2, <1>3

LEMMA ToolEventKeeps ==
    ASSUME ActivityConstants, ActivityInv, NEW v \in Inv, NEW phase \in {"start", "derived", "update", "end"}, NEW ids, NEW b \in BOOLEAN,
           Activity!ToolEvent(v, phase, ids, b)
    PROVE  ActivityInv'
<1>1. ActivityTypes /\ PubInv /\ HiddenInv
  BY DEF ActivityInv
<1>2. Activity!HostMay(v, phase, ids, b)
  BY EventForms
<1>3. /\ RunOf(v) \in Agent /\ Mine(v) \in Turn /\ ids \in SUBSET IdsOf(v) /\ (ids = {} <=> IdsOf(v) = {})
      /\ inv[v].st = "new" => phase = "start"
      /\ inv[v].st # "new" => Opened(v) /\ (b => inv[v].hid) /\ (inv[v].hid /\ phase = "start" => b) /\ (inv[v].hid /\ ids # {} => ids \cap inv[v].ids # {})
      /\ b => ids # {}
  BY <1>2, HostFacts
<1>4. CASE ~Tracked(RunOf(v)) /\ acts' = acts /\ Noted(v, phase, ids, b, {})
  BY <1>2, <1>4, UnheardKeeps
<1>5. ASSUME Tracked(RunOf(v)), NEW e, e = Activity!Sink(acts[Mine(v)], v, phase, ids, b), acts' = [acts EXCEPT ![Mine(v)] = e.c],
             Noted(v, phase, ids, b, {<<Mine(v), i>> : i \in e.pub})
      PROVE  ActivityInv'
  <2>1. PICK t, c : t = Mine(v) /\ c = acts[t]
    OBVIOUS
  <2>2. PICK keys : keys = Activity!Keys(RunOf(v), ids)
    OBVIOUS
  <2>3. c \in Following
    BY <1>1, <1>3, <2>1 DEF ActivityTypes
  <2>4. /\ b => e = [c |-> Hiding(c, Activity!Hide(c.hidden, keys)), pub |-> {}]
        /\ ~b /\ phase # "start" =>
              IF Activity!Matching(c.hidden, keys) # {} THEN e = [c |-> Hiding(c, Activity!Hide(c.hidden, keys)), pub |-> {}]
              ELSE \A z : z = Activity!Correlate(c, phase, RunOf(v), ids) => e = [c |-> z.c, pub |-> {z.id}]
        /\ ~b /\ phase = "start" => \A d, z : d = Hiding(c, Activity!Retired(c.hidden, keys)) /\ z = Activity!Correlate(d, "start", RunOf(v), ids) =>
              e = [c |-> z.c, pub |-> {z.id}]
    <3>1. Handled(e, c, v, phase, ids, b, keys)
      BY <1>5, <2>1, <2>2, <2>3, SinkForms
    <3> QED BY <3>1 DEF Handled
  <2>5. ASSUME e = [c |-> Hiding(c, Activity!Hide(c.hidden, keys)), pub |-> {}], ids # {}, IF inv[v].st = "new" THEN b ELSE inv[v].hid
        PROVE  ActivityInv'
    <3>1. PICK z : z = Activity!Hide(acts[Mine(v)].hidden, Activity!Keys(RunOf(v), ids))
      OBVIOUS
    <3>2. Put(Mine(v), Hiding(acts[Mine(v)], z))
      BY <1>5, <2>1, <2>2, <2>5, <3>1 DEF Put
    <3>3. {<<Mine(v), i>> : i \in e.pub} = {}
      BY <2>5
    <3>4. Noted(v, phase, ids, b, {})
      BY <1>5, <3>3
    <3> QED BY <1>2, <1>5, <2>5, <3>1, <3>2, <3>4, KeptBackKeeps
  <2>6. ASSUME NEW z, e = [c |-> z.c, pub |-> {z.id}]
        PROVE  Put(Mine(v), z.c) /\ Noted(v, phase, ids, b, {<<Mine(v), z.id>>})
    <3>1. {<<Mine(v), i>> : i \in e.pub} = {<<Mine(v), z.id>>}
      BY <2>6
    <3>2. e.c = z.c
      BY <2>6
    <3> QED BY <1>5, <3>1, <3>2 DEF Put
  <2>7. CASE b
    <3>1. IF inv[v].st = "new" THEN b ELSE inv[v].hid
      BY <1>3, <2>7
    <3> QED BY <1>3, <2>4, <2>5, <2>7, <3>1
  <2>8. CASE ~b /\ inv[v].st = "new"
    <3>1. PICK d : d = Hiding(c, Activity!Retired(c.hidden, keys))
      OBVIOUS
    <3>2. PICK z : z = Activity!Correlate(d, "start", RunOf(v), ids)
      OBVIOUS
    <3>3. e = [c |-> z.c, pub |-> {z.id}]
      BY <1>3, <2>4, <2>8, <3>1, <3>2
    <3>4. Put(Mine(v), z.c) /\ Noted(v, phase, ids, b, {<<Mine(v), z.id>>})
      BY <2>6, <3>3
    <3>5. d = Hiding(acts[Mine(v)], Activity!Retired(acts[Mine(v)].hidden, Activity!Keys(RunOf(v), ids)))
      BY <2>1, <2>2, <3>1
    <3> QED BY <1>2, <1>3, <1>5, <2>8, <3>2, <3>4, <3>5, StartKeeps
  <2>9. CASE ~b /\ inv[v].st # "new" /\ inv[v].hid
    <3>1. Hides(v)
      BY <1>3, <1>5, <2>9 DEF Hides
    <3>2. PICK m \in c.hidden : Activity!Keys(RunOf(v), inv[v].ids) \subseteq m
      BY <1>1, <2>1, <3>1 DEF HiddenInv, Marked
    <3>3. inv[v].ids # {} /\ inv[v].ids \subseteq IdsOf(v)
      BY <1>1, <3>1 DEF HiddenInv, PubInv, PubAt
    <3>4. PICK i : i \in ids /\ i \in inv[v].ids
      BY <1>3, <2>9, <3>3
    <3>5. <<RunOf(v), i>> \in m /\ <<RunOf(v), i>> \in keys
      BY <2>2, <3>2, <3>4 DEF Activity!Keys
    <3>6. Activity!Matching(c.hidden, keys) # {}
      BY <3>2, <3>5 DEF Activity!Matching
    <3>7. ids # {} /\ IF inv[v].st = "new" THEN b ELSE inv[v].hid
      BY <2>9, <3>4
    <3> QED BY <1>3, <2>4, <2>5, <2>9, <3>6, <3>7
  <2>10. CASE ~b /\ inv[v].st # "new" /\ ~inv[v].hid
    <3>1. Sees(v)
      BY <1>3, <1>5, <2>10 DEF Sees
    <3>2. Activity!Matching(c.hidden, keys) = {}
      <4> SUFFICES ASSUME NEW m \in c.hidden, m \cap keys # {} PROVE FALSE
        BY DEF Activity!Matching
      <4>1. PICK i \in ids : <<RunOf(v), i>> \in m
        BY <2>2 DEF Activity!Keys
      <4>2. Family(m) /\ i \in IdsOf(v)
        BY <1>1, <1>3, <2>1, <4>1 DEF HiddenInv
      <4>3. <<RunOf(v), Root(v)>> \in m
        BY <4>1, <4>2, KinOf
      <4> QED BY <1>1, <2>1, <3>1, <4>2, <4>3 DEF HiddenInv, Unmarked
    <3>3. PICK z : z = Activity!Correlate(acts[Mine(v)], phase, RunOf(v), ids)
      OBVIOUS
    <3>4. e = [c |-> z.c, pub |-> {z.id}]
      <4>1. CASE phase # "start"
        BY <2>1, <2>4, <2>10, <3>2, <3>3, <4>1
      <4>2. CASE phase = "start"
        <5>1. Activity!Retired(c.hidden, keys) = c.hidden
          BY <3>2 DEF Activity!Retired
        <5>2. c = [calls |-> c.calls, alias |-> c.alias, gen |-> c.gen, hidden |-> c.hidden]
          BY <2>3 DEF Following
        <5>3. [c EXCEPT !.hidden = c.hidden] = c
          BY <5>2
        <5>4. c = Hiding(c, Activity!Retired(c.hidden, keys))
          BY <5>1, <5>3 DEF Hiding
        <5> QED BY <2>1, <2>4, <2>10, <3>3, <4>2, <5>4
      <4> QED BY <4>1, <4>2
    <3>5. Put(Mine(v), z.c) /\ Noted(v, phase, ids, b, {<<Mine(v), z.id>>})
      BY <2>6, <3>4
    <3> QED BY <1>2, <1>5, <2>10, <3>3, <3>5, GoesOnKeeps
  <2> QED BY <2>7, <2>8, <2>9, <2>10
<1> QED BY <1>4, <1>5, EventForms

\* The host is through with an invocation.
LEMMA LastEventKeeps == ASSUME ActivityConstants, ActivityInv, NEW v \in Inv, Activity!LastEvent(v) PROVE ActivityInv'
<1>1. /\ ActivityTypes /\ SinkInv /\ StartedInv /\ VerdictInv
      /\ CallsInv /\ PubInv /\ NamedInv /\ ShownInv /\ ActiveInv /\ HiddenInv
  BY DEF ActivityInv
<1>2. /\ inv[v].st = "ending" /\ inv' = [inv EXCEPT ![v].st = "over"]
      /\ turn' = turn /\ acts' = acts /\ sinks' = sinks /\ verdicts' = verdicts /\ sub' = sub /\ ended' = ended
  BY DEF Activity!LastEvent
<1>3. inv[v] \in Invocation
  BY <1>1 DEF ActivityTypes
<1>4. PICK x : x = [inv[v] EXCEPT !.st = "over"]
  OBVIOUS
<1>5. x \in Invocation /\ x.st = "over" /\ x.ids = inv[v].ids /\ x.hid = inv[v].hid /\ x.pub = inv[v].pub
  BY <1>3, <1>4 DEF Invocation
<1>6. inv' = [inv EXCEPT ![v] = x]
  BY <1>2, <1>4
<1>7. /\ inv' \in [Inv -> Invocation] /\ inv'[v] = x
      /\ \A w \in Inv : w # v => inv'[w] = inv[w]
  BY <1>1, <1>5, <1>6 DEF ActivityTypes
<1>8. \A w \in Inv : inv'[w].ids = inv[w].ids /\ inv'[w].hid = inv[w].hid /\ inv'[w].pub = inv[w].pub
                     /\ (inv'[w].st = "new" <=> inv[w].st = "new")
  BY <1>2, <1>5, <1>7
<1>9. \A w \in Inv : (Sees(w)' => w # v /\ Sees(w)) /\ (Hides(w)' => w # v /\ Hides(w)) /\ (Sees(w) /\ w # v => Sees(w)')
  BY <1>2, <1>5, <1>7 DEF Sees, Hides, Opened, Tracked
<1>10. ActivityTypes' /\ SinkInv' /\ VerdictInv' /\ CallsInv'
  BY <1>1, <1>2, <1>7 DEF ActivityTypes, SinkInv, VerdictInv, CallsInv
<1>11. StartedInv' /\ NamedInv'
  BY <1>1, <1>2, <1>8 DEF StartedInv, NamedInv
<1>12. PubInv'
  BY <1>1, <1>2, <1>8 DEF PubInv, PubAt
<1>13. \A w \in Inv : \A k : w # v /\ Owns(w, k) => Owns(w, k)'
  BY <1>2, <1>7 DEF Owns, OwnsIn
<1>14. ShownInv'
  BY <1>1, <1>2, <1>9, <1>13 DEF ShownInv
<1>15. ActiveInv'
  <2> SUFFICES ASSUME NEW t \in Turn, NEW k \in DOMAIN acts[t].calls, acts[t].calls[k].active, Tracked(acts[t].calls[k].run)
               PROVE  \E w \in Inv : Sees(w)' /\ Mine(w) = t /\ Owns(w, k)'
    BY <1>2 DEF ActiveInv, Tracked
  <2>1. PICK w \in Inv : Sees(w) /\ Mine(w) = t /\ Owns(w, k)
    BY <1>1 DEF ActiveInv
  <2>2. w # v
    BY <1>2, <2>1 DEF Owns, OwnsIn
  <2> QED BY <1>9, <1>13, <2>1, <2>2
<1>16. HiddenInv'
  <2>2. ASSUME NEW w \in Inv, Hides(w)' PROVE inv'[w].ids # {} /\ \E m \in acts[Mine(w)].hidden : Activity!Keys(RunOf(w), inv'[w].ids) \subseteq m
    BY <1>1, <1>8, <1>9, <2>2 DEF HiddenInv, Marked
  <2> QED BY <1>1, <1>2, <1>9, <2>2 DEF HiddenInv, Marked
<1> QED BY <1>10, <1>11, <1>12, <1>14, <1>15, <1>16 DEF ActivityInv

LEMMA ActivityNext == ASSUME ActivityConstants, ActivityInv, [Activity!Next]_(Activity!vars) PROVE ActivityInv'
<1>1. CASE Activity!Subscribe
  BY <1>1, SubscribeKeeps
<1>2. CASE Activity!Unsubscribe
  BY <1>2, UnsubscribeKeeps
<1>3. ASSUME NEW t \in Turn, Activity!Begin(t) PROVE ActivityInv'
  BY <1>3, BeginKeeps
<1>4. ASSUME NEW t \in Turn, Activity!ErrorPayload(t) PROVE ActivityInv'
  BY <1>4, ErrorPayloadKeeps
<1>5. ASSUME NEW t \in Turn, NEW b \in BOOLEAN, Activity!Finish(t, b) PROVE ActivityInv'
  BY <1>5, FinishKeeps
<1>6. ASSUME NEW r \in Agent, Activity!RunStart(r) PROVE ActivityInv'
  BY <1>6, RunStartKeeps
<1>7. ASSUME NEW r \in Agent, NEW v \in {"ok", "error"}, Activity!LifecycleEvent(r, v) PROVE ActivityInv'
  BY <1>7, LifecycleEventKeeps
<1>8. ASSUME NEW v \in Inv, NEW phase \in {"start", "derived", "update", "end"}, NEW ids \in SUBSET (1..MaxId), NEW b \in BOOLEAN,
             Activity!ToolEvent(v, phase, ids, b)
      PROVE  ActivityInv'
  BY <1>8, ToolEventKeeps
<1>10. ASSUME NEW v \in Inv, Activity!LastEvent(v) PROVE ActivityInv'
  BY <1>10, LastEventKeeps
<1>9. CASE Activity!vars' = Activity!vars
  <2>1. turn' = turn /\ acts' = acts /\ sinks' = sinks /\ verdicts' = verdicts /\ sub' = sub /\ inv' = inv /\ ended' = ended
    BY <1>9 DEF Activity!vars
  <2>2. ActivityTypes' /\ SinkInv' /\ VerdictInv' /\ \A r : Tracked(r)' = Tracked(r)
    BY <2>1 DEF ActivityInv, ActivityTypes, SinkInv, VerdictInv, Tracked
  <2>3. \A t \in Turn : \A r \in turn'[t].runs : TurnOf(r) = t
    BY <2>1 DEF ActivityInv, StartedInv
  <2>4. \A t \in Turn : turn'[t].stage = "run" => turn[t].stage # "over"
    BY <2>1
  <2>5. StartedInv' /\ CallsInv' /\ PubInv' /\ NamedInv' /\ ShownInv' /\ ActiveInv' /\ HiddenInv'
    BY <2>1, <2>2, <2>3, <2>4, Untouched
  <2> QED BY <2>2, <2>5 DEF ActivityInv
<1> QED BY <1>1, <1>2, <1>3, <1>4, <1>5, <1>6, <1>7, <1>8, <1>9, <1>10 DEF Activity!Next, Activity!Starts

LEMMA ActivityOfItsTurn == ActivityInv => Activity!ActivityIsItsTurns
<1> SUFFICES ASSUME ActivityInv PROVE Activity!ActivityIsItsTurns
  OBVIOUS
<1>1. SinkInv /\ VerdictInv /\ PubInv
  BY DEF ActivityInv
<1>2. \A k \in DOMAIN sinks : turn[sinks[k].turn].stage = "run" /\ turn[sinks[k].turn].down = sub.down /\ sinks[k].run \in turn[sinks[k].turn].runs
  BY <1>1 DEF SinkInv
<1>3. ASSUME NEW v \in Inv PROVE Activity!Cardinality(inv[v].pub) <= (IF inv[v].hid THEN 0 ELSE 1)
  <2>1. PubAt(v)
    BY <1>1 DEF PubInv
  <2>2. CASE inv[v].pub = {}
    <3>1. Activity!Cardinality(inv[v].pub) = 0
      BY <2>2, SameCardinality, FS_EmptySet
    <3> QED BY <3>1
  <2>3. CASE inv[v].pub # {}
    <3>1. PICK p : inv[v].pub = {p}
      BY <2>1, <2>3 DEF PubAt
    <3>2. Activity!Cardinality(inv[v].pub) = 1
      BY <3>1, SameCardinality, FS_Singleton
    <3>3. ~inv[v].hid
      BY <2>1, <2>3 DEF PubAt
    <3> QED BY <3>2, <3>3
  <2> QED BY <2>2, <2>3
<1>4. \A v \in Inv : (\A p \in inv[v].pub : p[1] = TurnOf(RunOf(v))) /\ (\A w \in Inv \ {v} : inv[v].pub \cap inv[w].pub = {})
  BY <1>1 DEF PubInv, PubAt, Mine
<1>5. \A t \in Turn : turn[t].out = "error" => turn[t].bad \/ (turn[t].run # "none" /\ ended[turn[t].run] = "error")
  BY <1>1 DEF VerdictInv
<1> QED BY <1>2, <1>3, <1>4, <1>5 DEF Activity!ActivityIsItsTurns

\* createToolActivityCorrelation and createHiddenToolActivityTracker, one of each in
\* every turn's sink, under the one listener of startAgentLifecycleSubscription: what
\* the host tells of a tool reaches the turn that ran it and no other, under one public
\* id for all its events and a different one for every invocation, never if the host
\* hid it, and a turn fails only by its own last run or its own payload, for all sets of
\* turns, runs and invocations, however their events interleave and name them, and
\* whatever runs MAX_TRACKED_RUNS or a restart of the subscription drops meanwhile.
\* The host sends what HostMay says: a canonical start first, flagged if the
\* invocation is hidden, then companion starts, updates and several terminals in any
\* order, with ids that are used again only after the last event.
THEOREM ActivityReachesItsTurn == Spec => []ActivityIsItsTurns
<1> ActivityConstants
  BY ActivityAssumption
<1> DEFINE OfActivity == part = "activity" => ActivityInv
<1>1. Init => OfActivity
  BY ActivityInit DEF Init
<1>2. OfActivity /\ [Next]_vars => OfActivity'
  <2> SUFFICES ASSUME OfActivity, [Next]_vars, part' = "activity" PROVE ActivityInv'
    OBVIOUS
  <2>1. part = "activity" /\ [Activity!Next]_(Activity!vars)
    BY DEF Next, vars, activityVars, Activity!vars
  <2> QED BY <2>1, ActivityNext
<1>3. OfActivity => ActivityIsItsTurns
  BY ActivityOfItsTurn DEF ActivityIsItsTurns
<1> QED BY <1>1, <1>2, <1>3, PTL DEF Spec
=============================================================================
