--------------------------- MODULE AccountProofs ---------------------------
(***************************************************************************)
(* The lease of an account is exclusive and a run never opens a second     *)
(* connection, for any number of invocations, generations, attempts and    *)
(* sockets.                                                                *)
(*                                                                         *)
(* LeaseExclusive is not inductive: an invocation keeps a reference to a   *)
(* slot object across its awaits, so that the slot it will release is the  *)
(* one in the map has to be carried along, together with the agreement of  *)
(* the queue with the invocations that wait and the fact that a waiter     *)
(* whose host aborted has left the queue.                                  *)
(*                                                                         *)
(* The coordinator loses no wake-up and never runs an older configuration  *)
(* after a newer one.  For that, the generations and arrivals a slot was   *)
(* granted by are related to the last run and to everyone still waiting.   *)
(***************************************************************************)
EXTENDS Account, TLAPS

HoldingAt == Location \ {"new", "waiting", "done"}

\* A quarantined slot has no owner, and only a quarantine is probed.
Quarantines ==
    \A s \in Inv : /\ slot[s].quarantine.on => slot[s].owner = None
                   /\ slot[s].quarantine.probing => slot[s].quarantine.on

OutsideIdle == \A s \in Inv : s # cur => Idle(slot[s])

Owners == \A i \in Inv : pc[i] \in HoldingAt <=> cur # None /\ slot[cur].owner = i

Queue == \A i \in Inv : pc[i] = "waiting" <=> cur # None /\ i \in slot[cur].waiters

\* The slot object an invocation holds across an await is the one in the map.
OwnSlot == \A i \in Inv : pc[i] \notin {"new", "done"} => slotOf[i] = cur

LiveQueue == \A i \in aborted : pc[i] # "waiting"

LeaseInv == Quarantines /\ OutsideIdle /\ Owners /\ Queue /\ OwnSlot /\ LiveQueue

PublishedServes == published # None => pc[published] = "serving"

\* Every open socket that no redial replaced is the transport's or the quarantine's.
Accounted ==
    \A k \in open \ dropped :
        \/ \E i \in Inv : pc[i] \in {"dialing", "serving", "closing"} /\ ws[i] = k
        \/ \E s \in Inv : slot[s].quarantine.on /\ slot[s].quarantine.sock = k

Dialled == \A k \in open : k # NoSocket

IInv == TypeOK /\ LeaseInv /\ PublishedServes /\ Accounted /\ Dialled

-----------------------------------------------------------------------------
(* Types. *)

\* FreshSlot and NoQuarantine have their types.
LEMMA ConstantTypes == FreshSlot \in SlotType /\ NoQuarantine \in QuarantineType
BY DEF FreshSlot, NoQuarantine, SlotType, QuarantineType, NoSocket

\* promote keeps the types of the map, the slots and the locations.
LEMMA PromoteType ==
    ASSUME slot \in [Inv -> SlotType],
           NEW c \in Inv \union {None}, NEW s \in Inv, NEW sl \in SlotType,
           NEW p \in [Inv -> Location], Promote(c, s, sl, p)
    PROVE  /\ cur' \in Inv \union {None}
           /\ slot' \in [Inv -> SlotType]
           /\ pc' \in [Inv -> Location]
<1> DEFINE rest == [sl EXCEPT !.waiters = LiveWaiters(sl)]
<1>1. rest \in SlotType
  BY DEF SlotType, LiveWaiters
<1>2. CASE Eligible(sl) = {} /\ slot' = [slot EXCEPT ![s] = rest] /\ Cleanup(c, s, rest) /\ pc' = p
  BY <1>1, <1>2 DEF Cleanup
<1>3. ASSUME NEW w \in Best(sl),
             slot' = [slot EXCEPT ![s] = [rest EXCEPT !.owner = w, !.waiters = @ \ {w}]],
             cur' = c, pc' = [p EXCEPT ![w] = "granted"]
      PROVE  /\ cur' \in Inv \union {None}
             /\ slot' \in [Inv -> SlotType]
             /\ pc' \in [Inv -> Location]
  <2>1. w \in Inv
    BY DEF Best, Eligible, LiveWaiters, SlotType
  <2>2. [rest EXCEPT !.owner = w, !.waiters = @ \ {w}] \in SlotType
    BY <1>1, <2>1 DEF SlotType
  <2>3. slot' \in [Inv -> SlotType]
    BY <2>2, <1>3
  <2>4. pc' \in [Inv -> Location]
    BY <2>1, <1>3 DEF Location
  <2> QED BY <2>3, <2>4, <1>3
<1> QED BY <1>2, <1>3 DEF Promote

LEMMA ReleaseType ==
    ASSUME slot \in [Inv -> SlotType], pc \in [Inv -> Location],
           NEW c \in Inv \union {None}, NEW s \in Inv, NEW sl \in SlotType,
           NEW i \in Inv, Release(c, s, sl, i)
    PROVE  /\ cur' \in Inv \union {None}
           /\ slot' \in [Inv -> SlotType]
           /\ pc' \in [Inv -> Location]
<1>1. (IF sl.owner = i THEN [sl EXCEPT !.owner = None] ELSE sl) \in SlotType
  BY DEF SlotType
<1>2. [pc EXCEPT ![i] = "done"] \in [Inv -> Location]
  BY DEF Location
<1> QED BY <1>1, <1>2, PromoteType DEF Release

\* The end of a run keeps them too.
LEMMA RunEndsType ==
    ASSUME slot \in [Inv -> SlotType], pc \in [Inv -> Location], cur \in Inv \union {None},
           NEW i \in Inv, slotOf[i] \in Inv, NEW confirmed \in BOOLEAN, NEW k \in Nat,
           RunEnds(i, confirmed, k)
    PROVE  /\ cur' \in Inv \union {None}
           /\ slot' \in [Inv -> SlotType]
           /\ pc' \in [Inv -> Location]
<1> DEFINE s == slotOf[i]
           sl == slot[s]
           out == [sl EXCEPT !.owner = IF @ = i THEN None ELSE @,
                             !.waiters = IF i \in aborted THEN @ ELSE @ \union {i},
                             !.quarantine = [on |-> TRUE, cutoff |-> sl.next,
                                             probing |-> FALSE, sock |-> k]]
<1>1. CASE confirmed /\ Release(cur, s, sl, i)
  BY <1>1, ReleaseType
<1>2. CASE /\ slot' = [slot EXCEPT ![s] = out]
           /\ pc' = [pc EXCEPT ![i] = IF i \in aborted THEN "done" ELSE "waiting"]
           /\ UNCHANGED cur
  <2>0. sl \in SlotType /\ sl.next \in Nat /\ sl.waiters \subseteq Inv
    BY DEF SlotType
  <2>q. [on |-> TRUE, cutoff |-> sl.next, probing |-> FALSE, sock |-> k] \in QuarantineType
    BY <2>0 DEF QuarantineType
  <2>1. out \in SlotType
    <3> DEFINE o == IF sl.owner = i THEN None ELSE sl.owner
               w == IF i \in aborted THEN sl.waiters ELSE sl.waiters \union {i}
               q == [on |-> TRUE, cutoff |-> sl.next, probing |-> FALSE, sock |-> k]
    <3>1. o \in Inv \union {None} /\ w \subseteq Inv
      BY <2>0 DEF SlotType
    <3>2. q \in QuarantineType
      BY <2>q
    <3>3. out = [sl EXCEPT !.owner = o, !.waiters = w, !.quarantine = q]
      OBVIOUS
    <3> HIDE DEF o, w, q, out
    <3> QED BY <2>0, <3>1, <3>2, <3>3 DEF SlotType
  <2>2. slot' \in [Inv -> SlotType]
    BY <2>1, <1>2
  <2>3. pc' \in [Inv -> Location]
    BY <1>2 DEF Location
  <2> QED BY <2>2, <2>3, <1>2
<1> QED BY <1>1, <1>2 DEF RunEnds

\* The slot of a holding or waiting invocation is the one in the map.
LEMMA SlotInMap ==
    ASSUME TypeOK, LeaseInv, NEW i \in Inv, pc[i] \notin {"new", "done"}
    PROVE  cur \in Inv /\ slotOf[i] = cur /\ slotOf[i] \in Inv
<1>1. cur # None
  BY DEF LeaseInv, Owners, Queue, HoldingAt, TypeOK
<1> QED BY <1>1 DEF LeaseInv, OwnSlot, TypeOK

\* Every step keeps the types.
LEMMA TypeStep == ASSUME TypeOK, LeaseInv, [Next]_vars PROVE TypeOK'
<1> USE DEF config, lease, calls, net, NoSocket
<1>1. ASSUME NEW f \in Fingerprint, InstallFull(f) PROVE TypeOK'
  BY <1>1 DEF InstallFull, TypeOK
<1>2. ASSUME NEW i \in Inv, RunAccount(i) PROVE TypeOK'
  <2> DEFINE s == IF cur = None THEN i ELSE cur
             a == slot[s].next + 1
             sl == [slot[s] EXCEPT !.next = a,
                                   !.highest = IF generation > @ THEN generation ELSE @]
             q == sl.quarantine
             wait == [sl EXCEPT !.waiters = @ \union {i},
                                !.quarantine.probing = @ \/ MayProbe(q, a)]
  <2>1. s \in Inv /\ slot[s] \in SlotType /\ generation \in Nat
    BY DEF TypeOK
  <2>2. a \in Nat
    BY <2>1 DEF SlotType
  <2>3. sl \in SlotType
    BY <2>1, <2>2 DEF SlotType
  <2>4. slotOf' \in [Inv -> Inv \union {None}] /\ arrival' \in [Inv -> Nat] /\ gen' \in [Inv -> Nat]
    BY <1>2, <2>1, <2>2 DEF RunAccount, TypeOK
  <2>5. [sl EXCEPT !.owner = i] \in SlotType
    BY <2>3 DEF SlotType
  <2>6. wait \in SlotType
    <3> DEFINE p == q.probing \/ MayProbe(q, a)
    <3>1. q \in QuarantineType /\ p \in BOOLEAN
      BY <2>3 DEF SlotType, QuarantineType, MayProbe
    <3>2. [q EXCEPT !.probing = p] \in QuarantineType
      <4> HIDE DEF p, q
      <4> QED BY <3>1 DEF QuarantineType
    <3>3. wait = [sl EXCEPT !.waiters = sl.waiters \union {i}, !.quarantine = [q EXCEPT !.probing = p]]
      <4> HIDE DEF sl, a
      <4> QED BY <2>3 DEF SlotType
    <3> HIDE DEF wait, q, p, sl
    <3> QED BY <2>3, <3>2, <3>3 DEF SlotType
  <2>7. /\ cur' \in Inv \union {None}
        /\ slot' \in [Inv -> SlotType]
        /\ pc' \in [Inv -> Location]
    <3>1. CASE slot' = [slot EXCEPT ![s] = [sl EXCEPT !.owner = i]]
               /\ pc' = [pc EXCEPT ![i] = "start"] /\ cur' = s
      <4> HIDE DEF s, sl
      <4> QED BY <3>1, <2>1, <2>5 DEF TypeOK, Location
    <3>2. CASE Release(s, s, [sl EXCEPT !.owner = i], i)
      <4> HIDE DEF s, sl
      <4>1. slot \in [Inv -> SlotType] /\ pc \in [Inv -> Location]
        BY DEF TypeOK
      <4> QED BY <3>2, <4>1, <2>1, <2>5, ReleaseType
    <3>3. CASE slot' = [slot EXCEPT ![s] = wait] /\ pc' = [pc EXCEPT ![i] = "waiting"] /\ cur' = s
      <4> HIDE DEF s, wait
      <4> QED BY <3>3, <2>1, <2>6 DEF TypeOK, Location
    <3>4. CASE slot' = [slot EXCEPT ![s] = sl] /\ pc' = [pc EXCEPT ![i] = "done"] /\ cur' = s
      <4> HIDE DEF s, sl
      <4> QED BY <3>4, <2>1, <2>3 DEF TypeOK, Location
    <3> QED BY <1>2, <3>1, <3>2, <3>3, <3>4 DEF RunAccount
  <2>8. lastRun' \in Nat
    BY <1>2 DEF RunAccount, TypeOK
  <2> HIDE DEF s, a, sl, q, wait
  <2> QED BY <1>2, <2>4, <2>7, <2>8 DEF RunAccount, TypeOK
<1>3. ASSUME NEW i \in Inv, Abort(i) PROVE TypeOK'
  <2>1. CASE pc[i] = "waiting"
    <3>1. slotOf[i] \in Inv
      BY <2>1, SlotInMap
    <3> DEFINE sl == [slot[slotOf[i]] EXCEPT !.waiters = @ \ {i}]
    <3>2. sl \in SlotType
      BY <3>1 DEF TypeOK, SlotType
    <3>3. slot' = [slot EXCEPT ![slotOf[i]] = sl] /\ cur' \in {cur, None}
          /\ pc' = [pc EXCEPT ![i] = "done"]
      BY <1>3, <2>1 DEF Abort, Cleanup
    <3> HIDE DEF sl
    <3>4. slot' \in [Inv -> SlotType] /\ pc' \in [Inv -> Location] /\ cur' \in Inv \union {None}
      BY <3>1, <3>2, <3>3 DEF TypeOK, Location
    <3> QED BY <1>3, <3>4 DEF Abort, TypeOK
  <2> QED BY <1>3, <2>1 DEF Abort, TypeOK
<1>4. ASSUME NEW s \in Inv, ProbeSettles(s) PROVE TypeOK'
  <2> DEFINE q == slot[s].quarantine
  <2>0. slot[s] \in SlotType /\ slot \in [Inv -> SlotType] /\ pc \in [Inv -> Location]
        /\ cur \in Inv \union {None} /\ q \in QuarantineType /\ slot[s].next \in Nat
    BY DEF TypeOK, SlotType
  <2>1. CASE Closed(q.sock) /\ Promote(cur, s, [slot[s] EXCEPT !.quarantine = NoQuarantine], pc)
    <3>1. [slot[s] EXCEPT !.quarantine = NoQuarantine] \in SlotType
      BY <2>0, ConstantTypes DEF SlotType
    <3>2. cur' \in Inv \union {None} /\ slot' \in [Inv -> SlotType] /\ pc' \in [Inv -> Location]
      BY <2>1, <2>0, <3>1, PromoteType
    <3> QED BY <1>4, <2>1, <3>2 DEF ProbeSettles, Closed, TypeOK
  <2>2. CASE /\ slot' = [slot EXCEPT ![s].quarantine.probing = FALSE,
                                     ![s].quarantine.cutoff = slot[s].next]
             /\ UNCHANGED <<cur, pc, open>>
    <3> DEFINE r == [q EXCEPT !.probing = FALSE, !.cutoff = slot[s].next]
    <3>1. r \in QuarantineType
      <4> HIDE DEF q
      <4> QED BY <2>0 DEF QuarantineType
    <3>2. slot' = [slot EXCEPT ![s] = [slot[s] EXCEPT !.quarantine = r]]
      BY <2>0, <2>2 DEF SlotType, QuarantineType
    <3> HIDE DEF r, q
    <3>3. slot' \in [Inv -> SlotType]
      BY <2>0, <3>1, <3>2 DEF SlotType
    <3> QED BY <1>4, <2>2, <3>3 DEF ProbeSettles, TypeOK
  <2> QED BY <1>4, <2>1, <2>2 DEF ProbeSettles, Unconfirmed
<1>5. ASSUME NEW i \in Inv, NEW b \in BOOLEAN, NEW k \in Nat, RunEnds(i, b, k),
             pc[i] \notin {"new", "done"},
             UNCHANGED <<config, calls, aborted, attempts, published, dials, dropped, lastRun>>,
             ending' \in [Inv -> {"none", "completed", "transient", "permanent", "thrown"}],
             ws' \in [Inv -> Nat], open' \subseteq Nat,
             link' \in [Inv -> {"none", "private", "up", "down", "redialing", "closed"}]
      PROVE  TypeOK'
  <2>1. slotOf[i] \in Inv
    BY <1>5, SlotInMap
  <2>2. cur' \in Inv \union {None} /\ slot' \in [Inv -> SlotType] /\ pc' \in [Inv -> Location]
    BY <1>5, <2>1, RunEndsType DEF TypeOK
  <2> QED BY <1>5, <2>2 DEF TypeOK
<1>6. ASSUME NEW i \in Inv, Resume(i) PROVE TypeOK'
  <2>1. slotOf[i] \in Inv
    BY <1>6, SlotInMap DEF Resume
  <2>2. cur' \in Inv \union {None} /\ slot' \in [Inv -> SlotType] /\ pc' \in [Inv -> Location]
    <3>1. slot \in [Inv -> SlotType] /\ pc \in [Inv -> Location] /\ cur \in Inv \union {None}
      BY DEF TypeOK
    <3>2. CASE Release(cur, slotOf[i], slot[slotOf[i]], i)
      BY <3>2, <3>1, <2>1, ReleaseType
    <3>3. CASE pc' = [pc EXCEPT ![i] = "start"] /\ UNCHANGED lease
      BY <3>3, <3>1 DEF Location
    <3> QED BY <1>6, <3>2, <3>3 DEF Resume
  <2> QED BY <1>6, <2>2 DEF Resume, TypeOK
<1>7. ASSUME NEW i \in Inv, RunThrows(i) \/ LoopAborted(i) PROVE TypeOK'
  BY <1>7, <1>5 DEF RunThrows, LoopAborted, TypeOK
<1>8. ASSUME NEW i \in Inv, PreflightFails(i) \/ AttemptStarts(i) PROVE TypeOK'
  <2>1. CASE PreflightFails(i)
    BY <2>1 DEF PreflightFails, TypeOK, Location
  <2>2. CASE AttemptStarts(i)
    <3>1. attempts' \in Nat
      BY <2>2 DEF AttemptStarts, TypeOK
    <3>2. pc' \in [Inv -> Location]
      BY <2>2 DEF AttemptStarts, TypeOK, Location
    <3> QED BY <2>2, <3>1, <3>2 DEF AttemptStarts, TypeOK
  <2> QED BY <1>8, <2>1, <2>2
<1>9. ASSUME NEW i \in Inv, Dial(i) \/ Redial(i) PROVE TypeOK'
  <2>1. dials' \in Nat /\ open' \subseteq Nat /\ ws' \in [Inv -> Nat]
    <3>1. dials' = dials + 1 /\ open' = open \union {dials'} /\ ws' = [ws EXCEPT ![i] = dials']
      BY <1>9 DEF Dial, Redial, NewSocket
    <3>2. dials' \in Nat
      BY <3>1 DEF TypeOK
    <3> QED BY <3>1, <3>2 DEF TypeOK
  <2>2. CASE Dial(i)
    BY <2>1, <2>2 DEF Dial, TypeOK
  <2>3. CASE Redial(i)
    BY <2>1, <2>3 DEF Redial, TypeOK
  <2> QED BY <1>9, <2>2, <2>3
<1>10. ASSUME NEW i \in Inv, Commit(i) \/ Fails(i) \/ StopServing(i) PROVE TypeOK'
  <2>1. CASE Commit(i)
    BY <2>1 DEF Commit, TypeOK, Location
  <2>2. CASE Fails(i)
    BY <2>2 DEF Fails, TypeOK, Location
  <2>3. CASE StopServing(i)
    BY <2>3 DEF StopServing, TypeOK, Location
  <2> QED BY <1>10, <2>1, <2>2, <2>3
<1>11. ASSUME NEW i \in Inv, FailsEarly(i) PROVE TypeOK'
  <2>1. CASE RunEnds(i, TRUE, NoSocket)
    BY <1>11, <2>1, <1>5 DEF FailsEarly, TypeOK
  <2>2. CASE pc' \in {[pc EXCEPT ![i] = "backoff"], [pc EXCEPT ![i] = "parked"]} /\ UNCHANGED lease
    BY <1>11, <2>2 DEF FailsEarly, TypeOK, Location
  <2> QED BY <1>11, <2>1, <2>2 DEF FailsEarly, AfterAttempt
<1>12. ASSUME NEW i \in Inv, CloseSettles(i) PROVE TypeOK'
  <2>0. /\ ending' \in [Inv -> {"none", "completed", "transient", "permanent", "thrown"}]
        /\ ws' \in [Inv -> Nat] /\ open' \subseteq Nat /\ ws[i] \in Nat
        /\ link' \in [Inv -> {"none", "private", "up", "down", "redialing", "closed"}]
        /\ pc[i] \notin {"new", "done"}
        /\ UNCHANGED <<config, calls, aborted, attempts, published, dials, dropped, lastRun>>
    BY <1>12 DEF CloseSettles, TypeOK, Closed, Unconfirmed
  <2>1. CASE RunEnds(i, TRUE, NoSocket)
    BY <2>0, <2>1, <1>5
  <2>2. CASE RunEnds(i, FALSE, ws[i])
    BY <2>0, <2>2, <1>5
  <2>3. CASE pc' \in {[pc EXCEPT ![i] = "backoff"], [pc EXCEPT ![i] = "parked"]} /\ UNCHANGED lease
    BY <2>0, <2>3 DEF TypeOK, Location
  <2> QED BY <1>12, <2>1, <2>2, <2>3 DEF CloseSettles, AfterAttempt
<1>13. ASSUME NEW k \in Socket, SocketCloses(k) PROVE TypeOK'
  BY <1>13 DEF SocketCloses, TypeOK
<1>14. ASSUME NEW i \in Inv, RedialSettles(i) PROVE TypeOK'
  BY <1>14 DEF RedialSettles, TypeOK
<1>15. CASE UNCHANGED vars
  BY <1>15 DEF vars, TypeOK
<1> QED
  BY <1>1, <1>2, <1>3, <1>4, <1>6, <1>7, <1>8, <1>9, <1>10, <1>11, <1>12, <1>13, <1>14, <1>15
     DEF Next, OwnStep

-----------------------------------------------------------------------------
(* The lease. *)

\* The lease invariant holds again when one slot, the one in the map or a new one,
\* agrees with the locations of the invocations.
LEMMA NewLease ==
    ASSUME TypeOK, LeaseInv, NEW s \in Inv, s = cur \/ cur = None, NEW n \in SlotType,
           slot' = [slot EXCEPT ![s] = n], cur' = s \/ (cur' = None /\ Idle(n)),
           n.quarantine.on => n.owner = None, n.quarantine.probing => n.quarantine.on,
           pc' \in [Inv -> Location],
           \A i \in Inv : pc'[i] \in HoldingAt <=> n.owner = i,
           \A i \in Inv : pc'[i] = "waiting" <=> i \in n.waiters,
           \A i \in Inv : pc'[i] \notin {"new", "done"} => slotOf'[i] = s,
           \A i \in aborted' : pc'[i] # "waiting"
    PROVE  LeaseInv'
<1>1. slot'[s] = n /\ \A t \in Inv \ {s} : slot'[t] = slot[t]
  BY DEF TypeOK
<1>2. Quarantines'
  BY <1>1 DEF LeaseInv, Quarantines
<1>3. OutsideIdle'
  <2> SUFFICES ASSUME NEW t \in Inv, t # cur' PROVE Idle(slot'[t])
    BY DEF OutsideIdle, Idle
  <2>1. CASE t = s
    BY <1>1, <2>1
  <2>2. CASE t # s
    <3>1. t # cur /\ slot'[t] = slot[t]
      BY <1>1, <2>2, NoneAssumption
    <3> QED BY <3>1 DEF LeaseInv, OutsideIdle
  <2> QED BY <2>1, <2>2
<1>4. Owners'
  BY <1>1, NoneAssumption DEF Owners, Idle
<1>5. Queue'
  BY <1>1, NoneAssumption DEF Queue, Idle
<1>6. OwnSlot'
  <2> SUFFICES ASSUME NEW i \in Inv, pc'[i] \notin {"new", "done"} PROVE cur' = s
    BY DEF OwnSlot
  <2>1. pc'[i] \in HoldingAt \/ pc'[i] = "waiting"
    BY DEF HoldingAt
  <2> QED BY <2>1, NoneAssumption DEF Idle
<1> QED BY <1>2, <1>3, <1>4, <1>5, <1>6 DEF LeaseInv, LiveQueue

\* A holder that moves on keeps its lease.
LEMMA Stay ==
    ASSUME TypeOK, LeaseInv, NEW i \in Inv, pc[i] \in HoldingAt, NEW l \in HoldingAt,
           pc' = [pc EXCEPT ![i] = l], UNCHANGED <<lease, slotOf, aborted>>
    PROVE  LeaseInv'
<1>1. Quarantines' /\ OutsideIdle'
  BY DEF LeaseInv, Quarantines, OutsideIdle, Idle, lease
<1>2. \A j \in Inv : /\ pc'[j] \in HoldingAt <=> pc[j] \in HoldingAt
                     /\ pc'[j] = "waiting" <=> pc[j] = "waiting"
                     /\ pc'[j] \in {"new", "done"} <=> pc[j] \in {"new", "done"}
  <2>1. pc'[i] = l /\ \A j \in Inv \ {i} : pc'[j] = pc[j]
    BY DEF TypeOK
  <2> QED BY <2>1 DEF HoldingAt
<1>3. Owners' /\ Queue' /\ OwnSlot'
  <2>1. cur' = cur /\ slot' = slot /\ slotOf' = slotOf
    BY DEF lease
  <2>2. Owners'
    BY <1>2, <2>1 DEF LeaseInv, Owners
  <2>3. Queue'
    BY <1>2, <2>1 DEF LeaseInv, Queue
  <2>4. OwnSlot'
    BY <1>2, <2>1 DEF LeaseInv, OwnSlot
  <2> QED BY <2>2, <2>3, <2>4
<1>4. LiveQueue'
  BY <1>2 DEF LeaseInv, LiveQueue, TypeOK
<1> QED BY <1>1, <1>3, <1>4 DEF LeaseInv

\* promote on a slot without owner and quarantine: a waiter or nobody gets the lease.
LEMMA PromoteLease ==
    ASSUME TypeOK, LeaseInv, NEW s \in Inv, s = cur \/ cur = None, NEW sl \in SlotType,
           NEW p \in [Inv -> Location], Promote(s, s, sl, p),
           sl.owner = None, ~sl.quarantine.on, ~sl.quarantine.probing,
           \A i \in Inv : p[i] \notin HoldingAt,
           \A i \in Inv : p[i] = "waiting" <=> i \in sl.waiters,
           \A i \in Inv : p[i] \notin {"new", "done"} => slotOf'[i] = s,
           \A i \in aborted : p[i] # "waiting", aborted' = aborted
    PROVE  LeaseInv'
<1>0. sl.waiters \subseteq Inv
  BY DEF SlotType
<1>1. LiveWaiters(sl) = sl.waiters
  BY <1>0 DEF LiveWaiters
<1>2. [sl EXCEPT !.waiters = LiveWaiters(sl)] = sl
  BY <1>1 DEF SlotType
<1>3. CASE slot' = [slot EXCEPT ![s] = sl] /\ Cleanup(s, s, sl) /\ pc' = p
  <2>1. cur' = s \/ (cur' = None /\ Idle(sl))
    BY <1>3 DEF Cleanup
  <2>2. \A i \in Inv : pc'[i] \in HoldingAt <=> sl.owner = i
    BY <1>3, NoneAssumption
  <2> QED BY <1>3, <2>1, <2>2, NewLease
<1>4. ASSUME NEW w \in Best(sl),
             slot' = [slot EXCEPT ![s] = [sl EXCEPT !.owner = w, !.waiters = @ \ {w}]],
             cur' = s, pc' = [p EXCEPT ![w] = "granted"]
      PROVE  LeaseInv'
  <2> DEFINE n == [sl EXCEPT !.owner = w, !.waiters = @ \ {w}]
  <2>1. w \in sl.waiters
    BY DEF Best, Eligible, LiveWaiters
  <2>2. n \in SlotType /\ n.owner = w /\ n.waiters = sl.waiters \ {w} /\ n.quarantine = sl.quarantine
    BY <1>0, <2>1 DEF SlotType
  <2>3. w \in Inv /\ pc'[w] = "granted" /\ \A i \in Inv \ {w} : pc'[i] = p[i]
    BY <1>0, <1>4, <2>1
  <2>4. \A i \in Inv : pc'[i] \in HoldingAt <=> n.owner = i
    BY <2>2, <2>3 DEF HoldingAt, Location
  <2>5. \A i \in Inv : pc'[i] = "waiting" <=> i \in n.waiters
    BY <2>2, <2>3
  <2>6. \A i \in Inv : pc'[i] \notin {"new", "done"} => slotOf'[i] = s
    BY <2>1, <2>3
  <2>7. \A i \in aborted' : pc'[i] # "waiting"
    BY <2>3, TypeOK DEF TypeOK
  <2>8. pc' \in [Inv -> Location]
    BY <1>4, <2>3 DEF Location
  <2>9. slot' = [slot EXCEPT ![s] = n]
    BY <1>4
  <2> HIDE DEF n
  <2> QED BY <1>4, <2>2, <2>4, <2>5, <2>6, <2>7, <2>8, <2>9, NewLease
<1> QED BY <1>2, <1>3, <1>4 DEF Promote

\* releaseUnstartedOwner and the release after a run: the holder gives up the lease.
LEMMA ReleaseLease ==
    ASSUME TypeOK, LeaseInv, NEW i \in Inv, pc[i] \in HoldingAt,
           Release(cur, slotOf[i], slot[slotOf[i]], i), UNCHANGED <<slotOf, aborted>>
    PROVE  LeaseInv'
<1>1. cur \in Inv /\ slotOf[i] = cur
  BY SlotInMap DEF HoldingAt
<1> DEFINE sl == [slot[cur] EXCEPT !.owner = None]
           p == [pc EXCEPT ![i] = "done"]
<1>2. slot[cur] \in SlotType /\ slot[cur].owner = i
  BY <1>1 DEF LeaseInv, Owners, TypeOK
<1>3. /\ sl \in SlotType /\ sl.owner = None /\ sl.quarantine = slot[cur].quarantine
      /\ sl.waiters = slot[cur].waiters
  BY <1>2 DEF SlotType
<1>4. Promote(cur, cur, sl, p)
  BY <1>1, <1>2 DEF Release
<1>5. ~sl.quarantine.on /\ ~sl.quarantine.probing
  BY <1>1, <1>2, <1>3, NoneAssumption DEF LeaseInv, Quarantines
<1>6. p \in [Inv -> Location] /\ p[i] = "done" /\ \A j \in Inv \ {i} : p[j] = pc[j]
  BY DEF TypeOK, Location
<1>7. \A j \in Inv : p[j] \notin HoldingAt
  BY <1>2, <1>6 DEF LeaseInv, Owners, HoldingAt
<1>8. \A j \in Inv : p[j] = "waiting" <=> j \in sl.waiters
  BY <1>1, <1>3, <1>6, NoneAssumption DEF LeaseInv, Queue, HoldingAt
<1>9. \A j \in Inv : p[j] \notin {"new", "done"} => slotOf'[j] = cur
  BY <1>6 DEF LeaseInv, OwnSlot
<1>10. \A j \in aborted : p[j] # "waiting"
  BY <1>6 DEF LeaseInv, LiveQueue, TypeOK
<1> HIDE DEF sl, p
<1> QED BY <1>1, <1>3, <1>4, <1>5, <1>6, <1>7, <1>8, <1>9, <1>10, PromoteLease

\* The end of a run, confirmed or quarantined.
LEMMA RunEndsLease ==
    ASSUME TypeOK, LeaseInv, NEW i \in Inv, pc[i] \in HoldingAt, NEW b \in BOOLEAN, NEW k \in Nat,
           RunEnds(i, b, k), UNCHANGED <<slotOf, aborted>>
    PROVE  LeaseInv'
<1>1. cur \in Inv /\ slotOf[i] = cur
  BY SlotInMap DEF HoldingAt
<1>2. CASE Release(cur, slotOf[i], slot[slotOf[i]], i)
  BY <1>2, ReleaseLease
<1>3. CASE ~b
  <2> DEFINE sl == slot[cur]
             w == IF i \in aborted THEN sl.waiters ELSE sl.waiters \union {i}
             q == [on |-> TRUE, cutoff |-> sl.next, probing |-> FALSE, sock |-> k]
             n == [sl EXCEPT !.owner = None, !.waiters = w, !.quarantine = q]
             l == IF i \in aborted THEN "done" ELSE "waiting"
  <2>1. sl \in SlotType /\ sl.owner = i /\ sl.waiters \subseteq Inv /\ sl.next \in Nat
    BY <1>1 DEF LeaseInv, Owners, TypeOK, SlotType
  <2>2. slot' = [slot EXCEPT ![cur] = n] /\ pc' = [pc EXCEPT ![i] = l] /\ cur' = cur
    BY <1>1, <1>3, <2>1 DEF RunEnds
  <2>3. q \in QuarantineType /\ w \subseteq Inv /\ q.probing = FALSE
    BY <2>1 DEF QuarantineType
  <2>4. n \in SlotType /\ n.owner = None /\ n.waiters = w /\ n.quarantine = q
    <3> HIDE DEF w, q
    <3> QED BY <2>1, <2>3 DEF SlotType
  <2>5. pc' \in [Inv -> Location] /\ pc'[i] = l /\ \A j \in Inv \ {i} : pc'[j] = pc[j]
    BY <2>2 DEF TypeOK, Location
  <2>6. \A j \in Inv : pc'[j] \in HoldingAt <=> n.owner = j
    BY <2>1, <2>4, <2>5, NoneAssumption DEF LeaseInv, Owners, HoldingAt
  <2>7. \A j \in Inv : pc'[j] = "waiting" <=> j \in n.waiters
    <3>1. \A j \in Inv : pc[j] = "waiting" <=> j \in sl.waiters
      BY <1>1, NoneAssumption DEF LeaseInv, Queue
    <3>2. i \notin sl.waiters
      BY <3>1 DEF HoldingAt
    <3> HIDE DEF sl, n
    <3> QED BY <2>4, <2>5, <3>1, <3>2
  <2>8. \A j \in Inv : pc'[j] \notin {"new", "done"} => slotOf'[j] = cur
    BY <1>1, <2>5 DEF LeaseInv, OwnSlot
  <2>9. \A j \in aborted' : pc'[j] # "waiting"
    BY <2>5 DEF LeaseInv, LiveQueue, TypeOK
  <2> HIDE DEF n, q, w, l
  <2> QED BY <1>1, <2>2, <2>3, <2>4, <2>5, <2>6, <2>7, <2>8, <2>9, NewLease
<1> QED BY <1>2, <1>3 DEF RunEnds

\* Every step keeps the lease invariant.
LEMMA LeaseStep == ASSUME TypeOK, LeaseInv, [Next]_vars PROVE LeaseInv'
<1> USE DEF config, lease, calls, net
<1>a. pc \in [Inv -> Location] /\ slot \in [Inv -> SlotType] /\ cur \in Inv \union {None}
  BY DEF TypeOK
<1>1. ASSUME UNCHANGED <<cur, slot, pc, slotOf, aborted>> PROVE LeaseInv'
  BY <1>1 DEF LeaseInv, Quarantines, OutsideIdle, Owners, Queue, OwnSlot, LiveQueue, Idle
<1>2. ASSUME NEW i \in Inv, RunAccount(i) PROVE LeaseInv'
  <2> DEFINE s == IF cur = None THEN i ELSE cur
             a == slot[s].next + 1
             sl == [slot[s] EXCEPT !.next = a,
                                   !.highest = IF generation > @ THEN generation ELSE @]
             q == sl.quarantine
             wait == [sl EXCEPT !.waiters = @ \union {i},
                                !.quarantine.probing = @ \/ MayProbe(q, a)]
  <2>1. s \in Inv /\ slot[s] \in SlotType /\ (s = cur \/ cur = None) /\ a \in Nat
    BY <1>a DEF SlotType
  <2>2. /\ sl \in SlotType /\ sl.owner = slot[s].owner /\ sl.waiters = slot[s].waiters
        /\ sl.quarantine = slot[s].quarantine /\ sl.waiters \subseteq Inv
    BY <2>1 DEF SlotType, TypeOK
  <2>3. \A j \in Inv : pc[j] \in HoldingAt <=> sl.owner = j
    BY <2>1, <2>2, NoneAssumption DEF LeaseInv, Owners, OutsideIdle, Idle
  <2>4. \A j \in Inv : pc[j] = "waiting" <=> j \in sl.waiters
    BY <2>1, <2>2, NoneAssumption DEF LeaseInv, Queue, OutsideIdle, Idle
  <2>5. (sl.quarantine.on => sl.owner = None) /\ (sl.quarantine.probing => sl.quarantine.on)
    BY <2>1, <2>2 DEF LeaseInv, Quarantines
  <2>6. pc[i] = "new" /\ slotOf' = [slotOf EXCEPT ![i] = s] /\ aborted' = aborted
    BY <1>2 DEF RunAccount
  <2>7. \A j \in Inv : pc[j] \notin {"new", "done"} => slotOf'[j] = s
    <3>1. slotOf'[i] = s /\ \A j \in Inv \ {i} : slotOf'[j] = slotOf[j]
      BY <2>6 DEF TypeOK
    <3>2. cur = None => \A j \in Inv : pc[j] \in {"new", "done"}
      BY NoneAssumption, <1>a DEF LeaseInv, Owners, Queue, HoldingAt
    <3> QED BY <2>1, <3>1, <3>2 DEF LeaseInv, OwnSlot
  <2>8. slotOf'[i] = s
    BY <2>6 DEF TypeOK
  <2>9. \A j \in aborted : pc[j] # "waiting"
    BY DEF LeaseInv, LiveQueue
  <2>10. i \notin sl.waiters /\ sl.owner # i
    BY <2>3, <2>4, <2>6 DEF HoldingAt
  <2>11. CASE /\ Free(sl) /\ slot' = [slot EXCEPT ![s] = [sl EXCEPT !.owner = i]]
              /\ pc' = [pc EXCEPT ![i] = "start"] /\ cur' = s
    <3> DEFINE n == [sl EXCEPT !.owner = i]
    <3> HIDE DEF s, sl
    <3>1. n \in SlotType /\ n.owner = i /\ n.waiters = sl.waiters /\ n.quarantine = sl.quarantine
      BY <2>2 DEF SlotType
    <3>2. pc' \in [Inv -> Location] /\ pc'[i] = "start" /\ \A j \in Inv \ {i} : pc'[j] = pc[j]
      BY <1>a, <2>11 DEF Location
    <3>3. sl.owner = None /\ ~sl.quarantine.on
      BY <2>11 DEF Free
    <3>4. \A j \in Inv : pc'[j] \in HoldingAt <=> n.owner = j
      BY <2>3, <3>1, <3>2, <3>3, NoneAssumption DEF HoldingAt, Location
    <3>5. \A j \in Inv : pc'[j] = "waiting" <=> j \in n.waiters
      BY <2>4, <2>10, <3>1, <3>2
    <3>6. \A j \in Inv : pc'[j] \notin {"new", "done"} => slotOf'[j] = s
      BY <2>7, <2>8, <3>2
    <3>7. \A j \in aborted' : pc'[j] # "waiting"
      BY <2>6, <2>9, <3>2 DEF TypeOK
    <3>8. slot' = [slot EXCEPT ![s] = n] /\ cur' = s
      BY <2>11
    <3> HIDE DEF n
    <3> QED BY <2>1, <2>5, <3>1, <3>2, <3>3, <3>4, <3>5, <3>6, <3>7, <3>8, NewLease
  <2>12. CASE Free(sl) /\ Release(s, s, [sl EXCEPT !.owner = i], i)
    <3> DEFINE n == [[sl EXCEPT !.owner = i] EXCEPT !.owner = None]
               p == [pc EXCEPT ![i] = "done"]
    <3> HIDE DEF s, sl
    <3>1. [sl EXCEPT !.owner = i].owner = i
      BY <2>2 DEF SlotType
    <3>2. Promote(s, s, n, p)
      BY <2>12, <3>1 DEF Release
    <3>3. n \in SlotType /\ n.owner = None /\ n.waiters = sl.waiters /\ n.quarantine = sl.quarantine
      BY <2>2 DEF SlotType
    <3>4. p \in [Inv -> Location] /\ p[i] = "done" /\ \A j \in Inv \ {i} : p[j] = pc[j]
      BY <1>a DEF Location
    <3>5. sl.owner = None /\ ~sl.quarantine.on
      BY <2>12 DEF Free
    <3>6. \A j \in Inv : p[j] \notin HoldingAt
      BY <2>3, <3>4, <3>5, NoneAssumption DEF HoldingAt
    <3>7. \A j \in Inv : p[j] = "waiting" <=> j \in n.waiters
      BY <2>4, <2>10, <3>3, <3>4
    <3>8. \A j \in Inv : p[j] \notin {"new", "done"} => slotOf'[j] = s
      BY <2>7, <3>4
    <3>9. \A j \in aborted : p[j] # "waiting"
      BY <2>9, <3>4 DEF TypeOK
    <3> HIDE DEF n, p
    <3> QED BY <2>1, <2>5, <2>6, <3>2, <3>3, <3>4, <3>5, <3>6, <3>7, <3>8, <3>9, PromoteLease
  <2>13. CASE /\ i \notin aborted /\ slot' = [slot EXCEPT ![s] = wait]
              /\ pc' = [pc EXCEPT ![i] = "waiting"] /\ cur' = s
    <3> DEFINE b == q.probing \/ MayProbe(q, a)
    <3>1. q \in QuarantineType /\ b \in BOOLEAN /\ (b => q.on)
      BY <2>2, <2>5 DEF SlotType, QuarantineType, MayProbe
    <3>2. /\ [q EXCEPT !.probing = b] \in QuarantineType
          /\ [q EXCEPT !.probing = b].probing = b
          /\ [q EXCEPT !.probing = b].on = q.on
      <4> HIDE DEF b, q
      <4> QED BY <3>1 DEF QuarantineType
    <3>3. wait = [sl EXCEPT !.waiters = sl.waiters \union {i}, !.quarantine = [q EXCEPT !.probing = b]]
      <4> HIDE DEF sl, a
      <4> QED BY <2>2 DEF SlotType
    <3>4. /\ wait \in SlotType /\ wait.owner = sl.owner /\ wait.waiters = sl.waiters \union {i}
          /\ wait.quarantine.on = sl.quarantine.on /\ (wait.quarantine.probing => wait.quarantine.on)
      <4> HIDE DEF wait, b, sl
      <4> QED BY <2>2, <3>1, <3>2, <3>3 DEF SlotType
    <3> HIDE DEF wait, b, sl, s
    <3>5. pc' \in [Inv -> Location] /\ pc'[i] = "waiting" /\ \A j \in Inv \ {i} : pc'[j] = pc[j]
      BY <1>a, <2>13 DEF Location
    <3>6. \A j \in Inv : pc'[j] \in HoldingAt <=> wait.owner = j
      BY <2>3, <2>10, <3>4, <3>5 DEF HoldingAt
    <3>7. \A j \in Inv : pc'[j] = "waiting" <=> j \in wait.waiters
      BY <2>4, <3>4, <3>5
    <3>8. \A j \in Inv : pc'[j] \notin {"new", "done"} => slotOf'[j] = s
      BY <2>7, <2>8, <3>5
    <3>9. \A j \in aborted' : pc'[j] # "waiting"
      BY <2>6, <2>9, <2>13, <3>5 DEF TypeOK
    <3>10. wait.quarantine.on => wait.owner = None
      BY <2>5, <3>4
    <3>11. slot' = [slot EXCEPT ![s] = wait] /\ cur' = s
      BY <2>13
    <3> HIDE DEF a, q
    <3> QED BY <2>1, <3>4, <3>5, <3>6, <3>7, <3>8, <3>9, <3>10, <3>11, NewLease
  <2>14. CASE slot' = [slot EXCEPT ![s] = sl] /\ pc' = [pc EXCEPT ![i] = "done"] /\ cur' = s
    <3> HIDE DEF s, sl
    <3>1. pc' \in [Inv -> Location] /\ pc'[i] = "done" /\ \A j \in Inv \ {i} : pc'[j] = pc[j]
      BY <1>a, <2>14 DEF Location
    <3>2. \A j \in Inv : pc'[j] \in HoldingAt <=> sl.owner = j
      BY <2>3, <2>10, <3>1 DEF HoldingAt
    <3>3. \A j \in Inv : pc'[j] = "waiting" <=> j \in sl.waiters
      BY <2>4, <2>10, <3>1
    <3>4. \A j \in Inv : pc'[j] \notin {"new", "done"} => slotOf'[j] = s
      BY <2>7, <3>1
    <3>5. \A j \in aborted' : pc'[j] # "waiting"
      BY <2>6, <2>9, <3>1 DEF TypeOK
    <3> QED BY <2>1, <2>2, <2>5, <2>14, <3>1, <3>2, <3>3, <3>4, <3>5, NewLease
  <2> QED BY <1>2, <2>11, <2>12, <2>13, <2>14 DEF RunAccount
<1>3. ASSUME NEW i \in Inv, Abort(i) PROVE LeaseInv'
  <2>0. aborted' = aborted \union {i} /\ slotOf' = slotOf
    BY <1>3 DEF Abort
  <2>1. CASE pc[i] = "waiting"
    <3>1. cur \in Inv /\ slotOf[i] = cur
      BY <2>1, SlotInMap
    <3> DEFINE n == [slot[cur] EXCEPT !.waiters = @ \ {i}]
    <3>2. /\ n \in SlotType /\ n.owner = slot[cur].owner /\ n.waiters = slot[cur].waiters \ {i}
          /\ n.quarantine = slot[cur].quarantine
      BY <1>a, <3>1 DEF SlotType
    <3>3. slot' = [slot EXCEPT ![cur] = n] /\ Cleanup(cur, cur, n) /\ pc' = [pc EXCEPT ![i] = "done"]
      BY <1>3, <2>1, <3>1 DEF Abort
    <3> HIDE DEF n
    <3>4. cur' = cur \/ (cur' = None /\ Idle(n))
      BY <3>3 DEF Cleanup
    <3>5. pc' \in [Inv -> Location] /\ pc'[i] = "done" /\ \A j \in Inv \ {i} : pc'[j] = pc[j]
      BY <1>a, <3>3 DEF Location
    <3>6. \A j \in Inv : pc'[j] \in HoldingAt <=> n.owner = j
      BY <2>1, <3>1, <3>2, <3>5, NoneAssumption DEF LeaseInv, Owners, HoldingAt
    <3>7. \A j \in Inv : pc'[j] = "waiting" <=> j \in n.waiters
      BY <3>1, <3>2, <3>5, NoneAssumption DEF LeaseInv, Queue
    <3>8. \A j \in Inv : pc'[j] \notin {"new", "done"} => slotOf'[j] = cur
      BY <2>0, <3>5 DEF LeaseInv, OwnSlot
    <3>9. \A j \in aborted' : pc'[j] # "waiting"
      BY <2>0, <3>5 DEF LeaseInv, LiveQueue, TypeOK
    <3>10. (n.quarantine.on => n.owner = None) /\ (n.quarantine.probing => n.quarantine.on)
      BY <3>1, <3>2 DEF LeaseInv, Quarantines
    <3> QED BY <3>1, <3>2, <3>3, <3>4, <3>5, <3>6, <3>7, <3>8, <3>9, <3>10, NewLease
  <2>2. CASE pc[i] # "waiting" /\ UNCHANGED <<cur, slot, pc>>
    BY <2>0, <2>2 DEF LeaseInv, Quarantines, OutsideIdle, Owners, Queue, OwnSlot, LiveQueue, Idle
  <2> QED BY <1>3, <2>1, <2>2 DEF Abort
<1>4. ASSUME NEW s \in Inv, ProbeSettles(s) PROVE LeaseInv'
  <2> DEFINE q == slot[s].quarantine
  <2>0. q.probing /\ q.on /\ s = cur /\ slot[s].owner = None /\ slot[s] \in SlotType
        /\ slotOf' = slotOf /\ aborted' = aborted /\ q \in QuarantineType /\ slot[s].next \in Nat
    BY <1>4, <1>a DEF ProbeSettles, LeaseInv, Quarantines, OutsideIdle, Idle, SlotType
  <2>1. \A j \in Inv : pc[j] \notin HoldingAt
    BY <2>0, NoneAssumption DEF LeaseInv, Owners
  <2>2. \A j \in Inv : pc[j] = "waiting" <=> j \in slot[s].waiters
    BY <2>0, NoneAssumption DEF LeaseInv, Queue
  <2>3. \A j \in Inv : pc[j] \notin {"new", "done"} => slotOf'[j] = s
    BY <2>0 DEF LeaseInv, OwnSlot
  <2>4. \A j \in aborted : pc[j] # "waiting"
    BY DEF LeaseInv, LiveQueue
  <2>5. CASE Promote(cur, s, [slot[s] EXCEPT !.quarantine = NoQuarantine], pc)
    <3> DEFINE sl == [slot[s] EXCEPT !.quarantine = NoQuarantine]
    <3>1. /\ sl \in SlotType /\ sl.owner = None /\ sl.waiters = slot[s].waiters
          /\ ~sl.quarantine.on /\ ~sl.quarantine.probing
      BY <2>0, ConstantTypes DEF SlotType, NoQuarantine
    <3>2. Promote(s, s, sl, pc)
      BY <2>0, <2>5
    <3> HIDE DEF sl
    <3> QED BY <1>a, <2>0, <2>1, <2>2, <2>3, <2>4, <3>1, <3>2, PromoteLease
  <2>6. CASE /\ slot' = [slot EXCEPT ![s].quarantine.probing = FALSE,
                                     ![s].quarantine.cutoff = slot[s].next]
             /\ UNCHANGED <<cur, pc>>
    <3> DEFINE r == [q EXCEPT !.probing = FALSE, !.cutoff = slot[s].next]
               n == [slot[s] EXCEPT !.quarantine = r]
    <3>1. r \in QuarantineType /\ r.probing = FALSE
      <4> HIDE DEF q
      <4> QED BY <2>0 DEF QuarantineType
    <3>2. slot' = [slot EXCEPT ![s] = n]
      BY <1>a, <2>0, <2>6 DEF SlotType, QuarantineType
    <3>3. n \in SlotType /\ n.owner = None /\ n.waiters = slot[s].waiters /\ n.quarantine = r
      <4> HIDE DEF r, q
      <4> QED BY <2>0, <3>1 DEF SlotType
    <3> HIDE DEF r, q, n
    <3>4. \A j \in Inv : pc'[j] \in HoldingAt <=> n.owner = j
      BY <2>1, <2>6, <3>3, NoneAssumption
    <3>5. (n.quarantine.on => n.owner = None) /\ (n.quarantine.probing => n.quarantine.on)
      BY <3>1, <3>3
    <3>6. \A j \in aborted' : pc'[j] # "waiting"
      BY <2>0, <2>4, <2>6
    <3>7. /\ pc' \in [Inv -> Location] /\ cur' = s
          /\ \A j \in Inv : pc'[j] = "waiting" <=> j \in n.waiters
          /\ \A j \in Inv : pc'[j] \notin {"new", "done"} => slotOf'[j] = s
      BY <1>a, <2>0, <2>2, <2>3, <2>6, <3>3
    <3> QED BY <2>0, <3>2, <3>3, <3>4, <3>5, <3>6, <3>7, NewLease
  <2> QED BY <1>4, <2>5, <2>6 DEF ProbeSettles
<1>6. ASSUME NEW i \in Inv, Resume(i) PROVE LeaseInv'
  <2>1. pc[i] \in HoldingAt /\ "start" \in HoldingAt /\ UNCHANGED <<slotOf, aborted>>
    BY <1>6 DEF Resume, HoldingAt, Location
  <2>2. CASE Release(cur, slotOf[i], slot[slotOf[i]], i)
    BY <2>1, <2>2, ReleaseLease
  <2>3. CASE pc' = [pc EXCEPT ![i] = "start"] /\ UNCHANGED lease
    BY <2>1, <2>3, Stay
  <2> QED BY <1>6, <2>2, <2>3 DEF Resume
<1>7. ASSUME NEW i \in Inv, RunThrows(i) \/ LoopAborted(i) PROVE LeaseInv'
  <2>1. pc[i] \in HoldingAt /\ UNCHANGED <<slotOf, aborted>>
        /\ (RunEnds(i, FALSE, NoSocket) \/ RunEnds(i, TRUE, NoSocket))
    BY <1>7 DEF RunThrows, LoopAborted, HoldingAt, Location
  <2> QED BY <2>1, RunEndsLease DEF NoSocket
<1>8. ASSUME NEW i \in Inv, \/ PreflightFails(i) \/ AttemptStarts(i) \/ Commit(i) \/ Fails(i)
                            \/ StopServing(i)
      PROVE  LeaseInv'
  <2>1. pc[i] \in HoldingAt /\ UNCHANGED <<lease, slotOf, aborted>>
    BY <1>8 DEF PreflightFails, AttemptStarts, Commit, Fails, StopServing, HoldingAt, Location
  <2>2. PICK l \in HoldingAt : pc' = [pc EXCEPT ![i] = l]
    BY <1>8 DEF PreflightFails, AttemptStarts, Commit, Fails, StopServing, HoldingAt, Location
  <2> QED BY <2>1, <2>2, Stay
<1>9. ASSUME NEW i \in Inv, NEW e, NEW b \in BOOLEAN, NEW k \in Nat, AfterAttempt(i, e, b, k),
             pc[i] \in HoldingAt, UNCHANGED <<slotOf, aborted>>
      PROVE  LeaseInv'
  <2>1. CASE RunEnds(i, b, k)
    BY <1>9, <2>1, RunEndsLease
  <2>2. CASE pc' = [pc EXCEPT ![i] = IF e = "transient" THEN "backoff" ELSE "parked"]
             /\ UNCHANGED lease
    <3> DEFINE l == IF e = "transient" THEN "backoff" ELSE "parked"
    <3>1. l \in HoldingAt /\ pc' = [pc EXCEPT ![i] = l]
      BY <2>2 DEF HoldingAt, Location
    <3> HIDE DEF l
    <3> QED BY <1>9, <2>2, <3>1, Stay
  <2> QED BY <1>9, <2>1, <2>2 DEF AfterAttempt
<1>10. ASSUME NEW i \in Inv, FailsEarly(i) PROVE LeaseInv'
  <2>1. pc[i] \in HoldingAt /\ UNCHANGED <<slotOf, aborted>>
    BY <1>10 DEF FailsEarly, HoldingAt, Location
  <2>2. PICK e \in {"transient", "permanent"} : AfterAttempt(i, e, TRUE, NoSocket)
    BY <1>10 DEF FailsEarly
  <2> QED BY <2>1, <2>2, <1>9 DEF NoSocket
<1>11. ASSUME NEW i \in Inv, CloseSettles(i) PROVE LeaseInv'
  <2>1. pc[i] \in HoldingAt /\ UNCHANGED <<slotOf, aborted>> /\ ws[i] \in Nat
    BY <1>11 DEF CloseSettles, HoldingAt, Location, TypeOK
  <2>2. AfterAttempt(i, ending[i], TRUE, NoSocket) \/ AfterAttempt(i, ending[i], FALSE, ws[i])
    BY <1>11 DEF CloseSettles
  <2> QED BY <2>1, <2>2, <1>9 DEF NoSocket
<1>12. ASSUME NEW i \in Inv, Dial(i) \/ Redial(i) \/ RedialSettles(i) PROVE LeaseInv'
  BY <1>12, <1>1 DEF Dial, Redial, RedialSettles
<1>13. ASSUME NEW k \in Socket, SocketCloses(k) PROVE LeaseInv'
  BY <1>13, <1>1 DEF SocketCloses
<1>14. ASSUME NEW f \in Fingerprint, InstallFull(f) PROVE LeaseInv'
  BY <1>14, <1>1 DEF InstallFull
<1>15. CASE UNCHANGED vars
  BY <1>15, <1>1 DEF vars
<1> QED
  BY <1>2, <1>3, <1>4, <1>6, <1>7, <1>8, <1>10, <1>11, <1>12, <1>13, <1>14, <1>15
     DEF Next, OwnStep

-----------------------------------------------------------------------------
(* The published runtime and the sockets. *)

Attached == {"dialing", "serving", "closing"}

\* While there is a holder, every socket counted is its transport's.
LEMMA HolderSocket ==
    ASSUME TypeOK, LeaseInv, Accounted, NEW i \in Inv, pc[i] \in HoldingAt, NEW k \in open \ dropped
    PROVE  pc[i] \in Attached /\ ws[i] = k
<1>1. cur \in Inv /\ slot[cur].owner = i
  BY DEF LeaseInv, Owners, TypeOK
<1>2. \A s \in Inv : ~slot[s].quarantine.on
  BY <1>1, NoneAssumption DEF LeaseInv, Quarantines, OutsideIdle, Idle
<1>3. PICK j \in Inv : pc[j] \in Attached /\ ws[j] = k
  BY <1>2 DEF Accounted, Attached
<1>4. pc[j] \in HoldingAt
  BY <1>3 DEF Attached, HoldingAt, Location
<1>5. j = i
  BY <1>1, <1>4 DEF LeaseInv, Owners
<1> QED BY <1>3, <1>5

\* Without a holder, it is the quarantine's.
LEMMA QuarantinedSocket ==
    ASSUME TypeOK, LeaseInv, Accounted, \A i \in Inv : pc[i] \notin HoldingAt,
           NEW k \in open \ dropped
    PROVE  cur \in Inv /\ slot[cur].quarantine.on /\ slot[cur].quarantine.sock = k
<1>1. \A i \in Inv : pc[i] \notin Attached
  BY DEF Attached, HoldingAt, Location
<1>2. PICK s \in Inv : slot[s].quarantine.on /\ slot[s].quarantine.sock = k
  BY <1>1 DEF Accounted, Attached
<1>3. s = cur
  BY <1>2 DEF LeaseInv, OutsideIdle, Idle
<1> QED BY <1>2, <1>3

\* An invocation that is published is the only holder.
LEMMA PublishedHolds ==
    ASSUME TypeOK, LeaseInv, PublishedServes, published # None, NEW i \in Inv, pc[i] \in HoldingAt
    PROVE  i = published /\ pc[i] = "serving"
<1>1. published \in Inv /\ pc[published] = "serving"
  BY DEF PublishedServes, TypeOK
<1>2. pc[published] \in HoldingAt
  BY <1>1 DEF HoldingAt, Location
<1> QED BY <1>1, <1>2 DEF LeaseInv, Owners

\* runAccount and abort of one that is not holding: nothing is granted while the
\* slot has an owner or a quarantine.
LEMMA ArrivalKeeps ==
    ASSUME TypeOK, LeaseInv, NEW i \in Inv, RunAccount(i)
    PROVE  \/ \A j \in Inv : pc[j] \notin HoldingAt /\ ~slot[j].quarantine.on
           \/ /\ \A j \in Inv \ {i} : pc'[j] = pc[j]
              /\ pc[i] = "new"
              /\ \A s \in Inv : slot'[s].quarantine.on = slot[s].quarantine.on
                                /\ slot'[s].quarantine.sock = slot[s].quarantine.sock
<1> DEFINE s == IF cur = None THEN i ELSE cur
           a == slot[s].next + 1
           sl == [slot[s] EXCEPT !.next = a,
                                 !.highest = IF generation > @ THEN generation ELSE @]
           q == sl.quarantine
           wait == [sl EXCEPT !.waiters = @ \union {i},
                              !.quarantine.probing = @ \/ MayProbe(q, a)]
<1>1. s \in Inv /\ slot[s] \in SlotType /\ (s = cur \/ cur = None) /\ pc[i] = "new"
  BY DEF TypeOK, RunAccount
<1>2. /\ sl.owner = slot[s].owner /\ sl.quarantine = slot[s].quarantine
      /\ wait.quarantine.on = slot[s].quarantine.on
      /\ wait.quarantine.sock = slot[s].quarantine.sock
  BY <1>1 DEF SlotType, QuarantineType
<1>3. CASE Free(sl)
  <2>1. slot[s].owner = None /\ ~slot[s].quarantine.on
    BY <1>2, <1>3 DEF Free
  <2>2. \A j \in Inv : pc[j] \notin HoldingAt
    BY <1>1, <2>1, NoneAssumption DEF LeaseInv, Owners
  <2>3. \A j \in Inv : ~slot[j].quarantine.on
    BY <1>1, <2>1, NoneAssumption DEF LeaseInv, OutsideIdle, Idle
  <2> QED BY <2>2, <2>3
<1>4. CASE ~Free(sl)
  <2>0. \/ slot' = [slot EXCEPT ![s] = wait] /\ pc' = [pc EXCEPT ![i] = "waiting"]
        \/ slot' = [slot EXCEPT ![s] = sl] /\ pc' = [pc EXCEPT ![i] = "done"]
    BY <1>4 DEF RunAccount
  <2>1. PICK n \in {wait, sl}, l \in {"waiting", "done"} :
            slot' = [slot EXCEPT ![s] = n] /\ pc' = [pc EXCEPT ![i] = l]
    <3> HIDE DEF s, sl, wait
    <3> QED BY <2>0
  <2>2. /\ n.quarantine.on = slot[s].quarantine.on
        /\ n.quarantine.sock = slot[s].quarantine.sock
    BY <1>2, <2>1
  <2> HIDE DEF s, sl, wait
  <2>3. slot'[s] = n /\ \A t \in Inv \ {s} : slot'[t] = slot[t]
    BY <1>1, <2>1 DEF TypeOK
  <2>4. \A j \in Inv \ {i} : pc'[j] = pc[j]
    BY <2>1 DEF TypeOK
  <2> QED BY <1>1, <2>2, <2>3, <2>4
<1> QED BY <1>3, <1>4

\* Every step keeps the sockets accounted for and the publication with its holder.
LEMMA SocketStep ==
    ASSUME TypeOK, LeaseInv, PublishedServes, Accounted, Dialled, [Next]_vars
    PROVE  PublishedServes' /\ Accounted' /\ Dialled'
<1> USE DEF config, lease, calls, net, NoSocket
<1>a. pc \in [Inv -> Location] /\ ws \in [Inv -> Nat] /\ slot \in [Inv -> SlotType]
  BY DEF TypeOK
<1>b. ASSUME open' \ dropped' = {}, published = None, open' \subseteq open, published' = published
      PROVE  PublishedServes' /\ Accounted' /\ Dialled'
  BY <1>b DEF PublishedServes, Accounted, Dialled
<1>c. ASSUME \A j \in Inv : pc[j] = pc'[j] \/ (pc[j] \notin Attached), UNCHANGED <<published, net>>,
             \A t \in Inv : slot'[t].quarantine.on = slot[t].quarantine.on
                            /\ slot'[t].quarantine.sock = slot[t].quarantine.sock
      PROVE  PublishedServes' /\ Accounted' /\ Dialled'
  <2>1. PublishedServes'
    BY <1>c DEF PublishedServes, Attached, TypeOK
  <2>2. Accounted'
    <3> SUFFICES ASSUME NEW k \in open' \ dropped'
                 PROVE  \/ \E i \in Inv : pc'[i] \in Attached /\ ws'[i] = k
                        \/ \E t \in Inv : slot'[t].quarantine.on /\ slot'[t].quarantine.sock = k
      BY DEF Accounted, Attached
    <3>1. CASE \E i \in Inv : pc[i] \in Attached /\ ws[i] = k
      BY <3>1, <1>c
    <3>2. CASE \E t \in Inv : slot[t].quarantine.on /\ slot[t].quarantine.sock = k
      BY <3>2, <1>c
    <3> QED BY <3>1, <3>2, <1>c DEF Accounted, Attached
  <2> QED BY <2>1, <2>2, <1>c DEF Dialled
<1>1. ASSUME NEW i \in Inv, RunAccount(i) PROVE PublishedServes' /\ Accounted' /\ Dialled'
  <2>0. UNCHANGED <<published, net>>
    BY <1>1 DEF RunAccount
  <2>1. CASE \A j \in Inv : pc[j] \notin HoldingAt /\ ~slot[j].quarantine.on
    <3>1. open \ dropped = {}
      BY <2>1, QuarantinedSocket
    <3>2. published = None
      BY <2>1 DEF PublishedServes, TypeOK, HoldingAt, Location
    <3> QED BY <2>0, <3>1, <3>2, <1>b
  <2>2. CASE /\ \A j \in Inv \ {i} : pc'[j] = pc[j]
             /\ pc[i] = "new"
             /\ \A t \in Inv : slot'[t].quarantine.on = slot[t].quarantine.on
                               /\ slot'[t].quarantine.sock = slot[t].quarantine.sock
    BY <2>0, <2>2, <1>c DEF Attached
  <2> QED BY <1>1, <2>1, <2>2, ArrivalKeeps
<1>2. ASSUME NEW i \in Inv, Abort(i) PROVE PublishedServes' /\ Accounted' /\ Dialled'
  <2>0. UNCHANGED <<published, net>>
    BY <1>2 DEF Abort
  <2>1. CASE pc[i] = "waiting"
    <3>1. slotOf[i] \in Inv
      BY <2>1, SlotInMap
    <3>2. \A t \in Inv : slot'[t].quarantine = slot[t].quarantine
      BY <1>2, <2>1, <3>1, <1>a DEF Abort, SlotType
    <3>3. \A j \in Inv \ {i} : pc'[j] = pc[j]
      BY <1>2, <2>1, <1>a DEF Abort
    <3> QED BY <2>0, <2>1, <3>2, <3>3, <1>c DEF Attached
  <2>2. CASE UNCHANGED <<lease, pc>>
    BY <2>0, <2>2, <1>c
  <2> QED BY <1>2, <2>1, <2>2 DEF Abort
<1>3. ASSUME NEW s \in Inv, ProbeSettles(s) PROVE PublishedServes' /\ Accounted' /\ Dialled'
  <2>0. /\ slot[s].quarantine.probing /\ slot[s].quarantine.on /\ s = cur /\ slot[s].owner = None
        /\ UNCHANGED <<published, ws, dropped>>
    BY <1>3 DEF ProbeSettles, LeaseInv, Quarantines, OutsideIdle, Idle
  <2>1. \A j \in Inv : pc[j] \notin HoldingAt
    BY <2>0, NoneAssumption DEF LeaseInv, Owners
  <2>2. published = None
    BY <2>1 DEF PublishedServes, TypeOK, HoldingAt, Location
  <2>3. \A k \in open \ dropped : slot[s].quarantine.sock = k
    BY <2>0, <2>1, QuarantinedSocket
  <2>4. CASE Closed(slot[s].quarantine.sock)
    BY <2>0, <2>2, <2>3, <2>4, <1>b DEF Closed
  <2>5. CASE /\ slot' = [slot EXCEPT ![s].quarantine.probing = FALSE,
                                     ![s].quarantine.cutoff = slot[s].next]
             /\ UNCHANGED <<cur, pc, open>>
    <3>1. \A t \in Inv : slot'[t].quarantine.on = slot[t].quarantine.on
                         /\ slot'[t].quarantine.sock = slot[t].quarantine.sock
      BY <2>5, <1>a DEF SlotType, QuarantineType
    <3>2. UNCHANGED <<published, net>>
      BY <1>3, <2>5 DEF ProbeSettles
    <3> QED BY <2>5, <3>1, <3>2, <1>c
  <2> QED BY <1>3, <2>4, <2>5 DEF ProbeSettles, Unconfirmed
<1>4. ASSUME NEW i \in Inv, pc[i] \in HoldingAt \ Attached, UNCHANGED <<published, net>>
      PROVE  PublishedServes' /\ Accounted' /\ Dialled'
  <2>1. open \ dropped = {}
    BY <1>4, HolderSocket
  <2>2. published = None
    BY <1>4, PublishedHolds DEF Attached
  <2> QED BY <1>4, <2>1, <2>2, <1>b
<1>5. ASSUME NEW i \in Inv,
             Resume(i) \/ RunThrows(i) \/ PreflightFails(i) \/ AttemptStarts(i) \/ LoopAborted(i)
      PROVE  PublishedServes' /\ Accounted' /\ Dialled'
  <2>1. pc[i] \in HoldingAt \ Attached
    BY <1>5 DEF Resume, RunThrows, PreflightFails, AttemptStarts, LoopAborted, HoldingAt, Location,
                Attached
  <2>2. UNCHANGED <<published, net>>
    BY <1>5 DEF Resume, RunThrows, PreflightFails, AttemptStarts, LoopAborted
  <2> QED BY <2>1, <2>2, <1>4
<1>6. ASSUME NEW i \in Inv, Commit(i) \/ Fails(i) \/ StopServing(i)
      PROVE  PublishedServes' /\ Accounted' /\ Dialled'
  <2>0. /\ pc[i] \in Attached /\ pc[i] \in HoldingAt /\ UNCHANGED <<slot, ws, open, dials, dropped>>
        /\ pc' \in {[pc EXCEPT ![i] = "serving"], [pc EXCEPT ![i] = "closing"]}
    BY <1>6 DEF Commit, Fails, StopServing, Attached, HoldingAt, Location
  <2>1. pc'[i] \in Attached /\ \A j \in Inv \ {i} : pc'[j] = pc[j]
    BY <1>a, <2>0 DEF Attached
  <2>2. Accounted'
    BY <2>0, <2>1, HolderSocket DEF Accounted, Attached
  <2>3. Dialled'
    BY <2>0 DEF Dialled
  <2>4. PublishedServes'
    <3>1. CASE Commit(i)
      BY <3>1, <1>a DEF Commit, PublishedServes
    <3>2. CASE Fails(i)
      <4>1. published = None
        BY <3>2, <2>0, PublishedHolds DEF Fails
      <4> QED BY <3>2, <4>1 DEF Fails, PublishedServes
    <3>3. CASE StopServing(i)
      <4>1. published' = None
        BY <3>3, <2>0, PublishedHolds DEF StopServing
      <4> QED BY <4>1 DEF PublishedServes
    <3> QED BY <1>6, <3>1, <3>2, <3>3
  <2> QED BY <2>2, <2>3, <2>4
<1>7. ASSUME NEW i \in Inv, FailsEarly(i) PROVE PublishedServes' /\ Accounted' /\ Dialled'
  <2>1. pc[i] = "dialing" /\ ws[i] = 0 /\ UNCHANGED <<published, net>>
    BY <1>7 DEF FailsEarly
  <2>2. pc[i] \in HoldingAt
    BY <2>1 DEF HoldingAt, Location
  <2>3. open \ dropped = {}
    BY <2>1, <2>2, HolderSocket DEF Dialled
  <2>4. published = None
    BY <2>1, <2>2, PublishedHolds
  <2> QED BY <2>1, <2>3, <2>4, <1>b
<1>8. ASSUME NEW i \in Inv, CloseSettles(i) PROVE PublishedServes' /\ Accounted' /\ Dialled'
  <2>1. pc[i] = "closing" /\ UNCHANGED <<published, dials, dropped>>
    BY <1>8 DEF CloseSettles
  <2>2. pc[i] \in HoldingAt
    BY <2>1 DEF HoldingAt, Location
  <2>3. \A k \in open \ dropped : k = ws[i]
    BY <2>2, HolderSocket
  <2>4. published = None
    BY <2>1, <2>2, PublishedHolds
  <2>5. CASE Closed(ws[i])
    BY <2>1, <2>3, <2>4, <2>5, <1>b DEF Closed
  <2>6. CASE AfterAttempt(i, ending[i], FALSE, ws[i]) /\ UNCHANGED open
    <3>1. RunEnds(i, FALSE, ws[i])
      BY <2>6 DEF AfterAttempt
    <3>2. cur \in Inv /\ slotOf[i] = cur
      BY <2>1, SlotInMap
    <3>3. slot'[cur].quarantine = [on |-> TRUE, cutoff |-> slot[cur].next, probing |-> FALSE,
                                   sock |-> ws[i]]
      <4> DEFINE q == [on |-> TRUE, cutoff |-> slot[cur].next, probing |-> FALSE, sock |-> ws[i]]
                 n == [slot[cur] EXCEPT !.owner = IF @ = i THEN None ELSE @,
                                        !.waiters = IF i \in aborted THEN @ ELSE @ \union {i},
                                        !.quarantine = q]
      <4>1. slot' = [slot EXCEPT ![cur] = n]
        BY <3>1, <3>2 DEF RunEnds
      <4>2. slot'[cur] = n
        <5> HIDE DEF n
        <5> QED BY <1>a, <3>2, <4>1
      <4>3. n.quarantine = q
        <5> HIDE DEF q
        <5> QED BY <1>a, <3>2 DEF SlotType
      <4> QED BY <4>2, <4>3
    <3>4. Accounted'
      BY <2>1, <2>3, <2>6, <3>2, <3>3 DEF Accounted
    <3> QED BY <2>1, <2>4, <2>6, <3>4 DEF PublishedServes, Dialled
  <2> QED BY <1>8, <2>5, <2>6 DEF CloseSettles, Unconfirmed
<1>9. ASSUME NEW i \in Inv, Dial(i) \/ Redial(i) PROVE PublishedServes' /\ Accounted' /\ Dialled'
  <2>1. /\ pc[i] \in Attached /\ pc[i] \in HoldingAt /\ UNCHANGED <<pc, slot, published>>
        /\ open' = open \union {dials'} /\ ws' = [ws EXCEPT ![i] = dials'] /\ dials' = dials + 1
    BY <1>9 DEF Dial, Redial, NewSocket, Attached, HoldingAt, Location
  <2>2. ws'[i] = dials' /\ dials' # 0
    BY <1>a, <2>1 DEF TypeOK
  <2>3. \A k \in open : k \in dropped'
    <3>1. CASE Dial(i)
      <4>1. ws[i] = 0 /\ dropped' = dropped
        BY <3>1 DEF Dial
      <4> QED BY <2>1, <4>1, HolderSocket DEF Dialled
    <3>2. CASE Redial(i)
      <4>1. dropped' = dropped \union (open \intersect {ws[i]})
        BY <3>2 DEF Redial
      <4> QED BY <2>1, <4>1, HolderSocket
    <3> QED BY <1>9, <3>1, <3>2
  <2>4. Accounted'
    BY <2>1, <2>2, <2>3 DEF Accounted, Attached
  <2>5. Dialled'
    BY <2>1, <2>2 DEF Dialled
  <2>6. PublishedServes'
    BY <2>1 DEF PublishedServes
  <2> QED BY <2>4, <2>5, <2>6
<1>10. ASSUME NEW k \in Socket, SocketCloses(k) PROVE PublishedServes' /\ Accounted' /\ Dialled'
  <2>1. UNCHANGED <<pc, slot, published, dropped>> /\ open' = open \ {k}
    BY <1>10 DEF SocketCloses
  <2>2. \A i \in Inv : ws[i] # k => ws'[i] = ws[i]
    BY <1>10 DEF SocketCloses
  <2>3. Accounted'
    <3> SUFFICES ASSUME NEW m \in open' \ dropped'
                 PROVE  \/ \E i \in Inv : pc'[i] \in Attached /\ ws'[i] = m
                        \/ \E t \in Inv : slot'[t].quarantine.on /\ slot'[t].quarantine.sock = m
      BY DEF Accounted, Attached
    <3>1. m \in open \ dropped /\ m # k
      BY <2>1
    <3>2. CASE \E i \in Inv : pc[i] \in Attached /\ ws[i] = m
      BY <2>1, <2>2, <3>1, <3>2
    <3>3. CASE \E t \in Inv : slot[t].quarantine.on /\ slot[t].quarantine.sock = m
      BY <2>1, <3>3
    <3> QED BY <3>1, <3>2, <3>3 DEF Accounted, Attached
  <2> QED BY <2>1, <2>3 DEF PublishedServes, Dialled
<1>11. ASSUME NEW i \in Inv, RedialSettles(i) PROVE PublishedServes' /\ Accounted' /\ Dialled'
  BY <1>11 DEF RedialSettles, PublishedServes, Accounted, Dialled
<1>12. ASSUME NEW f \in Fingerprint, InstallFull(f) PROVE PublishedServes' /\ Accounted' /\ Dialled'
  BY <1>12 DEF InstallFull, PublishedServes, Accounted, Dialled
<1>13. CASE UNCHANGED vars
  BY <1>13 DEF vars, PublishedServes, Accounted, Dialled
<1> QED
  BY <1>1, <1>2, <1>3, <1>5, <1>6, <1>7, <1>8, <1>9, <1>10, <1>11, <1>12, <1>13 DEF Next, OwnStep

-----------------------------------------------------------------------------
(* The theorems. *)

LEMMA InitIInv == Init => IInv
<1> SUFFICES ASSUME Init PROVE IInv
  OBVIOUS
<1>1. slot \in [Inv -> SlotType] /\ \A s \in Inv : slot[s] = FreshSlot
  BY ConstantTypes DEF Init
<1>2. pc = [i \in Inv |-> "new"] /\ cur = None /\ aborted = {} /\ published = None /\ open = {}
  BY DEF Init
<1>3. TypeOK
  BY <1>1 DEF Init, TypeOK, Location, NoSocket
<1>4. \A s \in Inv : Idle(slot[s]) /\ ~slot[s].quarantine.probing
  <2>1. /\ FreshSlot.owner = None /\ FreshSlot.waiters = {} /\ FreshSlot.quarantine = NoQuarantine
        /\ NoQuarantine.on = FALSE /\ NoQuarantine.probing = FALSE
    BY DEF FreshSlot, NoQuarantine
  <2> QED BY <1>1, <2>1 DEF Idle
<1>5. LeaseInv
  BY <1>2, <1>4 DEF LeaseInv, Quarantines, OutsideIdle, Owners, Queue, OwnSlot, LiveQueue,
                    HoldingAt, Idle
<1> QED BY <1>2, <1>3, <1>5 DEF IInv, PublishedServes, Accounted, Dialled

\* The inductive invariant holds throughout.
THEOREM Inductive == Spec => []IInv
<1>1. Init => IInv
  BY InitIInv
<1>2. IInv /\ [Next]_vars => IInv'
  BY TypeStep, LeaseStep, SocketStep DEF IInv
<1> QED BY <1>1, <1>2, PTL DEF Spec

\* Type correctness of the coordinator, the startup loop and the transport's sockets.
THEOREM TypeCorrect == Spec => []TypeOK
<1>1. IInv => TypeOK
  BY DEF IInv
<1> QED BY <1>1, Inductive, PTL

\* At most one invocation holds an account, it owns the slot in the map, and a
\* published runtime is its runtime.
THEOREM LeaseHolds == Spec => []LeaseExclusive
<1>1. ASSUME IInv PROVE LeaseExclusive
  <2>1. TypeOK /\ LeaseInv /\ PublishedServes
    BY <1>1 DEF IInv
  <2>2. \A i \in Inv : i \in Holding <=> pc[i] \in HoldingAt
    BY <2>1 DEF TypeOK, Holding, HoldingAt
  <2>3. Holding = {Owner} \ {None}
    <3>1. CASE cur = None
      BY <2>1, <2>2, <3>1 DEF LeaseInv, Owners, Owner, Holding
    <3>2. CASE cur # None
      <4>1. slot[cur].owner \in Inv \union {None}
        BY <2>1, <3>2 DEF TypeOK, SlotType
      <4>2. Holding = {i \in Inv : slot[cur].owner = i}
        BY <2>1, <2>2, <3>2 DEF LeaseInv, Owners, Holding
      <4> QED BY <3>2, <4>1, <4>2, NoneAssumption DEF Owner
    <3> QED BY <3>1, <3>2
  <2>4. \A s \in Inv \ {cur} : Idle(slot[s])
    BY <2>1 DEF LeaseInv, OutsideIdle
  <2>5. Quarantine.on => Owner = None
    BY <2>1 DEF LeaseInv, Quarantines, Quarantine, Owner, NoQuarantine, TypeOK
  <2>6. published # None => published = Owner /\ pc[published] = "serving"
    BY <2>1, <2>2, <2>3 DEF PublishedServes, TypeOK, HoldingAt, Location
  <2> QED BY <2>3, <2>4, <2>5, <2>6 DEF LeaseExclusive
<1> QED BY <1>1, Inductive, PTL

\* The sockets the runs of an account dialled are never open two at a time.
THEOREM OneSocketHolds == Spec => []OneSocket
<1>1. ASSUME IInv PROVE OneSocket
  <2>1. TypeOK /\ LeaseInv /\ Accounted
    BY <1>1 DEF IInv
  <2>2. CASE \E i \in Inv : pc[i] \in HoldingAt
    BY <2>1, <2>2, HolderSocket DEF OneSocket
  <2>3. CASE \A i \in Inv : pc[i] \notin HoldingAt
    BY <2>1, <2>3, QuarantinedSocket DEF OneSocket
  <2> QED BY <2>2, <2>3
<1> QED BY <1>1, Inductive, PTL

-----------------------------------------------------------------------------
(* Generations and arrivals: no wake-up is lost, and no old config runs. *)

\* What a slot promises its queue, given the last run that began, and everyone's
\* generation, arrival and location.  `highest' is above the last run and above
\* everyone in the slot; a free slot leaves only overtaken waiters behind; a
\* quarantine nobody probes has only waiters from before its last close attempt,
\* and the next arrival will be after it.
Promises(sl, last, g, a, p) ==
    /\ last <= sl.highest
    /\ sl.quarantine.on => sl.quarantine.cutoff <= sl.next
    /\ Free(sl) => \A w \in sl.waiters : g[w] < sl.highest
    /\ sl.quarantine.on /\ ~sl.quarantine.probing =>
           \A w \in sl.waiters : a[w] <= sl.quarantine.cutoff
    /\ \A i \in Inv : p[i] \notin {"new", "done"} => g[i] <= sl.highest /\ a[i] <= sl.next

KeepsPromises == cur # None => Promises(slot[cur], lastRun, gen, arrival, pc)

\* A granted invocation is not older than the last run: nothing else can begin
\* between its grant and its resumption.
GrantedIsRecent == \A i \in Inv : pc[i] = "granted" => lastRun <= gen[i]

Installed == lastRun <= generation /\ \A i \in Inv : gen[i] <= generation

GrantInv == KeepsPromises /\ GrantedIsRecent /\ Installed

\* A step that leaves the slots, the generations and the history alone.
LEMMA GrantFrame ==
    ASSUME TypeOK, GrantInv, UNCHANGED <<cur, slot, gen, arrival, lastRun>>,
           generation' \in Nat, generation <= generation',
           \A j \in Inv : pc'[j] = pc[j] \/ (pc[j] \in HoldingAt /\ pc'[j] # "granted")
    PROVE  GrantInv'
<1>1. KeepsPromises'
  <2>1. \A j \in Inv : pc'[j] \notin {"new", "done"} => pc[j] \notin {"new", "done"}
    BY DEF HoldingAt
  <2> QED BY <2>1 DEF GrantInv, KeepsPromises, Promises
<1>2. GrantedIsRecent'
  BY DEF GrantInv, GrantedIsRecent
<1>3. Installed'
  BY DEF GrantInv, Installed, TypeOK
<1> QED BY <1>1, <1>2, <1>3 DEF GrantInv

\* promote: it serves the newest generation, oldest arrival first, or leaves behind
\* only waiters below the watermark.
LEMMA PromoteGrant ==
    ASSUME TypeOK, NEW s \in Inv, NEW sl \in SlotType, NEW p \in [Inv -> Location],
           Promote(s, s, sl, p), sl.owner = None, ~sl.quarantine.on,
           lastRun' = lastRun, lastRun <= sl.highest,
           gen' \in [Inv -> Nat], arrival' \in [Inv -> Nat],
           \A w \in sl.waiters : gen'[w] = gen[w] /\ p[w] = "waiting",
           \A j \in Inv : p[j] # "granted",
           \A j \in Inv : p[j] \notin {"new", "done"} =>
               gen'[j] <= sl.highest /\ arrival'[j] <= sl.next
    PROVE  KeepsPromises' /\ GrantedIsRecent'
<1> DEFINE rest == [sl EXCEPT !.waiters = LiveWaiters(sl)]
<1>0. /\ sl.waiters \subseteq Inv /\ sl.highest \in Nat /\ lastRun \in Nat
      /\ gen \in [Inv -> Nat] /\ slot \in [Inv -> SlotType]
  BY DEF SlotType, TypeOK
<1>1. /\ rest \in SlotType /\ rest.owner = sl.owner /\ rest.waiters = LiveWaiters(sl)
      /\ rest.highest = sl.highest /\ rest.next = sl.next /\ rest.quarantine = sl.quarantine
  BY DEF SlotType, LiveWaiters
<1>2. LiveWaiters(sl) \subseteq sl.waiters
  BY DEF LiveWaiters
<1>3. CASE Eligible(sl) = {} /\ slot' = [slot EXCEPT ![s] = rest] /\ Cleanup(s, s, rest) /\ pc' = p
  <2> HIDE DEF rest
  <2>1. cur' \in {s, None} /\ slot'[s] = rest
    BY <1>0, <1>3 DEF Cleanup
  <2>2. \A w \in LiveWaiters(sl) : gen'[w] < sl.highest
    <3>1. \A w \in LiveWaiters(sl) : ~(gen[w] >= sl.highest) /\ gen[w] \in Nat /\ gen'[w] = gen[w]
      BY <1>0, <1>2, <1>3 DEF Eligible
    <3> QED BY <1>0, <3>1
  <2>3. Promises(rest, lastRun', gen', arrival', pc')
    BY <1>1, <1>3, <2>2 DEF Promises
  <2> QED BY <1>3, <2>1, <2>3 DEF KeepsPromises, GrantedIsRecent
<1>4. ASSUME NEW w \in Best(sl),
             slot' = [slot EXCEPT ![s] = [rest EXCEPT !.owner = w, !.waiters = @ \ {w}]],
             cur' = s, pc' = [p EXCEPT ![w] = "granted"]
      PROVE  KeepsPromises' /\ GrantedIsRecent'
  <2> DEFINE n == [rest EXCEPT !.owner = w, !.waiters = @ \ {w}]
  <2> HIDE DEF rest
  <2>1. w \in sl.waiters /\ w \in Inv /\ gen[w] \in Nat /\ gen[w] >= sl.highest
    BY <1>0 DEF Best, Eligible, LiveWaiters
  <2>2. /\ n.owner = w /\ n.highest = sl.highest /\ n.next = sl.next
        /\ n.quarantine = sl.quarantine
    BY <1>1 DEF SlotType
  <2>3. slot'[s] = n /\ pc'[w] = "granted" /\ \A j \in Inv \ {w} : pc'[j] = p[j]
    BY <1>0, <1>4, <2>1
  <2> HIDE DEF n
  <2>4. ~Free(n)
    BY <2>1, <2>2, NoneAssumption DEF Free
  <2>5. \A j \in Inv : pc'[j] \notin {"new", "done"} => p[j] \notin {"new", "done"}
    BY <2>1, <2>3
  <2>6. Promises(n, lastRun', gen', arrival', pc')
    BY <2>2, <2>4, <2>5 DEF Promises
  <2>7. lastRun <= gen[w]
    BY <1>0, <2>1
  <2>8. GrantedIsRecent'
    BY <2>1, <2>3, <2>7 DEF GrantedIsRecent
  <2> QED BY <1>4, <2>3, <2>6, <2>8 DEF KeepsPromises
<1> QED BY <1>3, <1>4 DEF Promote

\* The end of a run: the lease passes on, or the slot is quarantined with everyone
\* who is in it, this invocation included, before the cutoff.
LEMMA RunEndsGrant ==
    ASSUME TypeOK, LeaseInv, GrantInv, NEW i \in Inv, pc[i] \in HoldingAt,
           NEW b \in BOOLEAN, NEW k \in Nat, RunEnds(i, b, k),
           UNCHANGED <<gen, arrival, lastRun>>
    PROVE  KeepsPromises' /\ GrantedIsRecent'
<1>1. cur \in Inv /\ slotOf[i] = cur /\ cur # None
  BY SlotInMap, NoneAssumption DEF HoldingAt
<1> DEFINE sl == slot[cur]
<1>2. /\ sl \in SlotType /\ sl.owner = i /\ sl.waiters \subseteq Inv /\ sl.next \in Nat
      /\ gen \in [Inv -> Nat] /\ arrival \in [Inv -> Nat] /\ pc \in [Inv -> Location]
  BY <1>1 DEF LeaseInv, Owners, TypeOK, SlotType
<1>3. Promises(sl, lastRun, gen, arrival, pc)
  BY <1>1 DEF GrantInv, KeepsPromises
<1>4. \A j \in Inv : (pc[j] = "waiting" <=> j \in sl.waiters) /\ (pc[j] \in HoldingAt <=> j = i)
  BY <1>1, <1>2 DEF LeaseInv, Queue, Owners
<1>5. \A j \in Inv : j # i => pc[j] # "granted"
  BY <1>4 DEF HoldingAt, Location
<1>6. CASE Release(cur, slotOf[i], slot[slotOf[i]], i)
  <2> DEFINE n == [sl EXCEPT !.owner = None]
             p == [pc EXCEPT ![i] = "done"]
  <2>1. /\ n \in SlotType /\ n.owner = None /\ n.quarantine = sl.quarantine
        /\ n.waiters = sl.waiters /\ n.highest = sl.highest /\ n.next = sl.next
    BY <1>2 DEF SlotType
  <2>2. Promote(cur, cur, n, p)
    BY <1>1, <1>2, <1>6 DEF Release
  <2>3. ~n.quarantine.on
    BY <1>1, <1>2, <2>1, NoneAssumption DEF LeaseInv, Quarantines
  <2>4. p \in [Inv -> Location] /\ p[i] = "done" /\ \A j \in Inv \ {i} : p[j] = pc[j]
    BY <1>2 DEF Location
  <2>5. \A w \in n.waiters : gen'[w] = gen[w] /\ p[w] = "waiting"
    BY <1>2, <1>4, <2>1, <2>4 DEF HoldingAt
  <2>6. \A j \in Inv : p[j] \notin {"new", "done"} => gen'[j] <= n.highest /\ arrival'[j] <= n.next
    BY <1>3, <2>1, <2>4 DEF Promises
  <2>7. lastRun <= n.highest /\ \A j \in Inv : p[j] # "granted"
    BY <1>3, <1>5, <2>1, <2>4 DEF Promises
  <2> HIDE DEF sl, n, p
  <2> QED BY <1>1, <1>2, <2>1, <2>2, <2>3, <2>4, <2>5, <2>6, <2>7, PromoteGrant
<1>7. CASE ~b
  <2> DEFINE w == IF i \in aborted THEN sl.waiters ELSE sl.waiters \union {i}
             q == [on |-> TRUE, cutoff |-> sl.next, probing |-> FALSE, sock |-> k]
             n == [sl EXCEPT !.owner = None, !.waiters = w, !.quarantine = q]
             l == IF i \in aborted THEN "done" ELSE "waiting"
  <2>1. slot' = [slot EXCEPT ![cur] = n] /\ pc' = [pc EXCEPT ![i] = l] /\ cur' = cur
    BY <1>1, <1>2, <1>7 DEF RunEnds
  <2>2. w \subseteq sl.waiters \union {i} /\ q.on /\ q.cutoff = sl.next /\ ~q.probing
    OBVIOUS
  <2>3. n.waiters = w /\ n.quarantine = q /\ n.highest = sl.highest /\ n.next = sl.next
    <3> HIDE DEF w, q
    <3> QED BY <1>2 DEF SlotType
  <2>4. slot'[cur] = n /\ pc'[i] = l /\ \A j \in Inv \ {i} : pc'[j] = pc[j]
    <3> HIDE DEF n
    <3> QED BY <1>1, <1>2, <2>1 DEF TypeOK
  <2>5. l # "granted"
    OBVIOUS
  <2> HIDE DEF w, q, n, l, sl
  <2>6. \A j \in Inv : pc'[j] \notin {"new", "done"} => pc[j] \notin {"new", "done"}
    BY <2>4 DEF HoldingAt
  <2>7. \A j \in sl.waiters \union {i} : j \in Inv /\ arrival[j] <= sl.next
    <3>1. \A j \in sl.waiters \union {i} : j \in Inv /\ pc[j] \notin {"new", "done"}
      BY <1>2, <1>4 DEF HoldingAt
    <3> QED BY <1>3, <3>1 DEF Promises
  <2>8. n.quarantine.cutoff <= n.next /\ ~Free(n)
    BY <1>2, <2>2, <2>3 DEF Free
  <2>9. \A j \in n.waiters : arrival'[j] <= n.quarantine.cutoff
    BY <2>2, <2>3, <2>7
  <2>10. Promises(n, lastRun', gen', arrival', pc')
    BY <1>3, <2>3, <2>6, <2>8, <2>9 DEF Promises
  <2>11. GrantedIsRecent'
    BY <1>5, <2>4, <2>5 DEF GrantedIsRecent
  <2> QED BY <2>1, <2>4, <2>10, <2>11 DEF KeepsPromises
<1> QED BY <1>6, <1>7 DEF RunEnds

\* runAccount: the newcomer raises the watermark to its generation and comes after
\* every close attempt made so far.
LEMMA ArrivalGrant ==
    ASSUME TypeOK, LeaseInv, GrantInv, NEW i \in Inv, RunAccount(i)
    PROVE  GrantInv'
<1> DEFINE s == IF cur = None THEN i ELSE cur
           a == slot[s].next + 1
           sl == [slot[s] EXCEPT !.next = a,
                                 !.highest = IF generation > @ THEN generation ELSE @]
           q == sl.quarantine
           wait == [sl EXCEPT !.waiters = @ \union {i},
                              !.quarantine.probing = @ \/ MayProbe(q, a)]
<1>a. /\ pc \in [Inv -> Location] /\ slot \in [Inv -> SlotType] /\ cur \in Inv \union {None}
      /\ gen \in [Inv -> Nat] /\ arrival \in [Inv -> Nat] /\ generation \in Nat /\ lastRun \in Nat
  BY DEF TypeOK
<1>1. /\ s \in Inv /\ slot[s] \in SlotType /\ (s = cur \/ cur = None) /\ slot[s].next \in Nat
      /\ a \in Nat /\ slot[s].next < a /\ s # None
  BY <1>a, NoneAssumption DEF SlotType
<1>2. /\ sl \in SlotType /\ sl.owner = slot[s].owner /\ sl.waiters = slot[s].waiters
      /\ sl.quarantine = slot[s].quarantine /\ sl.waiters \subseteq Inv /\ sl.next = a
      /\ sl.highest \in Nat /\ generation <= sl.highest
  <2> DEFINE h == IF generation > slot[s].highest THEN generation ELSE slot[s].highest
  <2>1. h \in Nat /\ generation <= h
    BY <1>a, <1>1 DEF SlotType
  <2>2. sl = [slot[s] EXCEPT !.next = a, !.highest = h]
    BY <1>1 DEF SlotType
  <2>3. slot[s].waiters \subseteq Inv
    BY <1>1 DEF SlotType
  <2> HIDE DEF h, a, s, sl
  <2> QED BY <1>1, <2>1, <2>2, <2>3 DEF SlotType
<1>3. /\ pc[i] = "new" /\ gen' = [gen EXCEPT ![i] = generation]
      /\ arrival' = [arrival EXCEPT ![i] = a] /\ generation' = generation
  BY <1>a DEF RunAccount, config
<1>4. /\ gen' \in [Inv -> Nat] /\ arrival' \in [Inv -> Nat]
      /\ gen'[i] = generation /\ arrival'[i] = a
      /\ \A j \in Inv \ {i} : gen'[j] = gen[j] /\ arrival'[j] = arrival[j]
  <2> HIDE DEF a, sl, s
  <2> QED BY <1>a, <1>1, <1>3
<1>5. \A j \in Inv : pc[j] \in HoldingAt <=> sl.owner = j
  BY <1>1, <1>2, NoneAssumption DEF LeaseInv, Owners, OutsideIdle, Idle
<1>6. \A j \in Inv : pc[j] = "waiting" <=> j \in sl.waiters
  BY <1>1, <1>2, NoneAssumption DEF LeaseInv, Queue, OutsideIdle, Idle
<1>7. cur = None => (\A j \in Inv : pc[j] \in {"new", "done"}) /\ ~sl.quarantine.on
  BY <1>a, <1>1, <1>2, NoneAssumption DEF LeaseInv, Owners, Queue, HoldingAt, OutsideIdle, Idle
<1>8. cur # None => Promises(slot[s], lastRun, gen, arrival, pc)
  BY <1>1 DEF GrantInv, KeepsPromises
<1>9. /\ sl.quarantine \in QuarantineType /\ sl.quarantine.cutoff \in Nat
      /\ sl.quarantine.on => sl.quarantine.cutoff <= slot[s].next
      /\ sl.quarantine.on /\ ~sl.quarantine.probing =>
             \A w \in sl.waiters : arrival[w] <= sl.quarantine.cutoff
  <2> HIDE DEF s, sl, a, q
  <2>1. sl.quarantine \in QuarantineType /\ sl.quarantine.cutoff \in Nat
    BY <1>2 DEF SlotType, QuarantineType
  <2> QED BY <1>2, <1>7, <1>8, <2>1 DEF Promises
<1>10. /\ lastRun <= sl.highest /\ lastRun <= generation
       /\ \A j \in Inv : pc[j] \notin {"new", "done"} => gen'[j] <= sl.highest /\ arrival'[j] <= sl.next
  <2> HIDE DEF s, sl, a, q
  <2>1. lastRun <= generation /\ \A j \in Inv : gen[j] <= generation
    BY DEF GrantInv, Installed
  <2>2. lastRun <= sl.highest /\ \A j \in Inv : gen[j] <= sl.highest
    BY <1>a, <1>2, <2>1
  <2>3. ASSUME NEW j \in Inv, pc[j] \notin {"new", "done"} PROVE arrival[j] <= a /\ j # i
    <3>1. arrival[j] <= slot[s].next /\ arrival[j] \in Nat
      BY <1>a, <1>7, <1>8, <2>3 DEF Promises
    <3> QED BY <1>1, <1>3, <2>3, <3>1
  <2> QED BY <1>2, <1>4, <2>1, <2>2, <2>3
<1>11. gen'[i] <= sl.highest /\ arrival'[i] <= sl.next
  <2> HIDE DEF s, sl, a, q
  <2> QED BY <1>1, <1>2, <1>4
<1>12. i \notin sl.waiters /\ sl.owner # i
  BY <1>3, <1>5, <1>6 DEF HoldingAt
<1>13. Installed'
  <2>1. lastRun' \in {lastRun, generation}
    BY DEF RunAccount
  <2> QED BY <1>a, <1>3, <1>4, <1>10, <2>1 DEF GrantInv, Installed
<1>14. CASE /\ Free(sl) /\ slot' = [slot EXCEPT ![s] = [sl EXCEPT !.owner = i]]
            /\ pc' = [pc EXCEPT ![i] = "start"] /\ cur' = s /\ lastRun' = generation
  <2> DEFINE n == [sl EXCEPT !.owner = i]
  <2> HIDE DEF s, sl, a, q
  <2>1. /\ n.owner = i /\ n.quarantine = sl.quarantine /\ n.highest = sl.highest
        /\ n.next = sl.next
    BY <1>2 DEF SlotType
  <2>2. slot'[s] = n /\ pc'[i] = "start" /\ \A j \in Inv \ {i} : pc'[j] = pc[j]
    BY <1>a, <1>1, <1>14
  <2> HIDE DEF n
  <2>3. ~n.quarantine.on /\ ~Free(n)
    BY <1>14, <2>1, NoneAssumption DEF Free
  <2>4. Promises(n, lastRun', gen', arrival', pc')
    BY <1>2, <1>10, <1>11, <1>14, <2>1, <2>2, <2>3 DEF Promises
  <2>5. GrantedIsRecent'
    <3>1. \A j \in Inv : pc[j] # "granted"
      BY <1>5, <1>14, NoneAssumption DEF Free, HoldingAt, Location
    <3> QED BY <2>2, <3>1 DEF GrantedIsRecent
  <2> QED BY <1>13, <1>14, <2>2, <2>4, <2>5 DEF GrantInv, KeepsPromises
<1>15. CASE Free(sl) /\ Release(s, s, [sl EXCEPT !.owner = i], i) /\ lastRun' = lastRun
  <2> DEFINE n == [[sl EXCEPT !.owner = i] EXCEPT !.owner = None]
             p == [pc EXCEPT ![i] = "done"]
  <2> HIDE DEF s, sl, a, q
  <2>1. [sl EXCEPT !.owner = i].owner = i
    BY <1>2 DEF SlotType
  <2>2. Promote(s, s, n, p)
    BY <1>15, <2>1 DEF Release
  <2>3. /\ n \in SlotType /\ n.owner = None /\ n.waiters = sl.waiters
        /\ n.quarantine = sl.quarantine /\ n.highest = sl.highest /\ n.next = sl.next
    BY <1>2 DEF SlotType
  <2>4. p \in [Inv -> Location] /\ p[i] = "done" /\ \A j \in Inv \ {i} : p[j] = pc[j]
    BY <1>a DEF Location
  <2>5. sl.owner = None /\ ~sl.quarantine.on
    BY <1>15 DEF Free
  <2>6. \A j \in Inv : p[j] # "granted"
    BY <1>5, <2>4, <2>5, NoneAssumption DEF HoldingAt, Location
  <2>7. \A w \in n.waiters : gen'[w] = gen[w] /\ p[w] = "waiting"
    BY <1>2, <1>4, <1>6, <1>12, <2>3, <2>4
  <2>8. \A j \in Inv : p[j] \notin {"new", "done"} => gen'[j] <= n.highest /\ arrival'[j] <= n.next
    BY <1>10, <2>3, <2>4
  <2> HIDE DEF n, p
  <2>9. KeepsPromises' /\ GrantedIsRecent'
    BY <1>1, <1>4, <1>10, <1>15, <2>2, <2>3, <2>4, <2>5, <2>6, <2>7, <2>8, PromoteGrant
  <2> QED BY <1>13, <2>9 DEF GrantInv
<1>16. CASE /\ ~Free(sl) /\ slot' = [slot EXCEPT ![s] = wait]
            /\ pc' = [pc EXCEPT ![i] = "waiting"] /\ cur' = s /\ lastRun' = lastRun
  <2> DEFINE b == q.probing \/ MayProbe(q, a)
  <2>1. wait = [sl EXCEPT !.waiters = sl.waiters \union {i}, !.quarantine = [q EXCEPT !.probing = b]]
    <3> HIDE DEF sl, a
    <3> QED BY <1>2 DEF SlotType
  <2>2. q.on => b
    <3>1. q.on => q.cutoff < a
      <4> HIDE DEF s, sl, a
      <4> QED BY <1>1, <1>9
    <3> QED BY <1>1, <1>9, <3>1 DEF MayProbe
  <2>3. [q EXCEPT !.probing = b].probing = b /\ [q EXCEPT !.probing = b].on = q.on
        /\ [q EXCEPT !.probing = b].cutoff = q.cutoff
    <3> HIDE DEF b, sl
    <3> QED BY <1>9 DEF QuarantineType
  <2>4. /\ wait.owner = sl.owner /\ wait.highest = sl.highest /\ wait.next = sl.next
        /\ wait.quarantine = [q EXCEPT !.probing = b]
    <3> HIDE DEF wait, b, sl
    <3> QED BY <1>2, <2>1 DEF SlotType
  <2>5. slot'[s] = wait /\ pc'[i] = "waiting" /\ \A j \in Inv \ {i} : pc'[j] = pc[j]
    <3> HIDE DEF s, sl, a, wait
    <3> QED BY <1>a, <1>1, <1>16
  <2>6. q.on => q.cutoff <= a
    <3> HIDE DEF s, sl, a
    <3> QED BY <1>1, <1>9
  <2>7. /\ wait.quarantine.on => wait.quarantine.cutoff <= wait.next
        /\ wait.quarantine.on => wait.quarantine.probing
        /\ ~Free(wait)
    <3>1. q.on = sl.quarantine.on
      OBVIOUS
    <3> HIDE DEF wait, b, s, sl, a, q
    <3> QED BY <1>2, <1>16, <2>2, <2>3, <2>4, <2>6, <3>1 DEF Free
  <2> HIDE DEF wait, b, s, sl, a, q
  <2>8. Promises(wait, lastRun', gen', arrival', pc')
    BY <1>10, <1>11, <1>16, <2>4, <2>5, <2>7 DEF Promises
  <2>9. GrantedIsRecent'
    BY <1>4, <1>16, <2>5 DEF GrantInv, GrantedIsRecent
  <2> QED BY <1>13, <1>16, <2>5, <2>8, <2>9 DEF GrantInv, KeepsPromises
<1>17. CASE /\ ~Free(sl) /\ slot' = [slot EXCEPT ![s] = sl]
            /\ pc' = [pc EXCEPT ![i] = "done"] /\ cur' = s /\ lastRun' = lastRun
  <2> HIDE DEF s, sl, a, q
  <2>1. slot'[s] = sl /\ pc'[i] = "done" /\ \A j \in Inv \ {i} : pc'[j] = pc[j]
    BY <1>a, <1>1, <1>17
  <2>2. \A w \in sl.waiters : w \in Inv /\ arrival'[w] = arrival[w]
    BY <1>2, <1>4, <1>12
  <2>3. sl.quarantine.on => sl.quarantine.cutoff <= sl.next
    BY <1>1, <1>2, <1>9
  <2>4. Promises(sl, lastRun', gen', arrival', pc')
    BY <1>9, <1>10, <1>17, <2>1, <2>2, <2>3 DEF Promises
  <2>5. GrantedIsRecent'
    BY <1>4, <1>17, <2>1 DEF GrantInv, GrantedIsRecent
  <2> QED BY <1>13, <1>17, <2>1, <2>4, <2>5 DEF GrantInv, KeepsPromises
<1> QED BY <1>14, <1>15, <1>16, <1>17 DEF RunAccount

\* The inductive step of GrantInv.
LEMMA GrantStep ==
    ASSUME TypeOK, LeaseInv, GrantInv, [Next]_vars
    PROVE  GrantInv'
<1> USE DEF config, lease, calls, net
<1>a. /\ pc \in [Inv -> Location] /\ slot \in [Inv -> SlotType] /\ cur \in Inv \union {None}
      /\ gen \in [Inv -> Nat] /\ arrival \in [Inv -> Nat] /\ generation \in Nat /\ lastRun \in Nat
  BY DEF TypeOK
<1>b. UNCHANGED <<config, gen, lastRun>> => Installed'
  BY DEF GrantInv, Installed
<1>c. generation <= generation
  BY <1>a
<1>1. ASSUME NEW i \in Inv, pc[i] \in HoldingAt, NEW l \in Location \ {"granted"},
             pc' = [pc EXCEPT ![i] = l], UNCHANGED <<config, lease, gen, arrival, lastRun>>
      PROVE  GrantInv'
  <2>1. pc'[i] = l /\ \A j \in Inv \ {i} : pc'[j] = pc[j]
    BY <1>a, <1>1
  <2>2. \A j \in Inv : pc'[j] = pc[j] \/ (pc[j] \in HoldingAt /\ pc'[j] # "granted")
    BY <1>1, <2>1
  <2> QED BY <1>a, <1>c, <1>1, <2>2, GrantFrame
<1>2. ASSUME UNCHANGED <<config, lease, pc, gen, arrival, lastRun>> PROVE GrantInv'
  BY <1>a, <1>c, <1>2, GrantFrame
<1>3. ASSUME NEW f \in Fingerprint, InstallFull(f) PROVE GrantInv'
  <2>1. generation' \in Nat /\ generation <= generation'
    BY <1>a, <1>3 DEF InstallFull
  <2> QED BY <1>3, <2>1, GrantFrame DEF InstallFull
<1>4. ASSUME NEW i \in Inv, Abort(i) PROVE GrantInv'
  <2>0. UNCHANGED <<config, gen, arrival, lastRun>>
    BY <1>4 DEF Abort
  <2>1. CASE pc[i] = "waiting"
    <3>1. cur \in Inv /\ slotOf[i] = cur /\ cur # None
      BY <2>1, SlotInMap, NoneAssumption
    <3> DEFINE n == [slot[cur] EXCEPT !.waiters = @ \ {i}]
    <3>2. /\ n.owner = slot[cur].owner /\ n.waiters \subseteq slot[cur].waiters
          /\ n.quarantine = slot[cur].quarantine /\ n.highest = slot[cur].highest
          /\ n.next = slot[cur].next
      BY <1>a, <3>1 DEF SlotType
    <3>3. /\ slot' = [slot EXCEPT ![cur] = n] /\ cur' \in {cur, None}
          /\ pc' = [pc EXCEPT ![i] = "done"]
      BY <1>4, <2>1, <3>1 DEF Abort, Cleanup
    <3> HIDE DEF n
    <3>4. slot'[cur] = n /\ pc'[i] = "done" /\ \A j \in Inv \ {i} : pc'[j] = pc[j]
      BY <1>a, <3>1, <3>3
    <3>5. Promises(slot[cur], lastRun, gen, arrival, pc)
      BY <3>1 DEF GrantInv, KeepsPromises
    <3>6. Free(n) => Free(slot[cur])
      BY <3>2 DEF Free
    <3>7. Promises(n, lastRun', gen', arrival', pc')
      BY <2>0, <3>2, <3>4, <3>5, <3>6 DEF Promises
    <3>8. GrantedIsRecent'
      BY <2>0, <3>4 DEF GrantInv, GrantedIsRecent
    <3> QED BY <1>b, <2>0, <3>3, <3>4, <3>7, <3>8 DEF GrantInv, KeepsPromises
  <2>2. CASE UNCHANGED <<lease, pc>>
    BY <1>2, <2>0, <2>2
  <2> QED BY <1>4, <2>1, <2>2 DEF Abort
<1>5. ASSUME NEW s \in Inv, ProbeSettles(s) PROVE GrantInv'
  <2> DEFINE q == slot[s].quarantine
  <2>0. /\ q.probing /\ q.on /\ s = cur /\ slot[s].owner = None /\ slot[s] \in SlotType
        /\ q \in QuarantineType /\ slot[s].next \in Nat /\ cur # None
        /\ slot[s].waiters \subseteq Inv /\ UNCHANGED <<config, gen, arrival, lastRun>>
    BY <1>5, <1>a, NoneAssumption
    DEF ProbeSettles, LeaseInv, Quarantines, OutsideIdle, Idle, SlotType
  <2>1. \A j \in Inv : pc[j] # "granted"
    BY <2>0, NoneAssumption DEF LeaseInv, Owners, HoldingAt, Location
  <2>2. \A j \in Inv : pc[j] = "waiting" <=> j \in slot[s].waiters
    BY <2>0 DEF LeaseInv, Queue
  <2>3. Promises(slot[s], lastRun, gen, arrival, pc)
    BY <2>0 DEF GrantInv, KeepsPromises
  <2>4. CASE Promote(cur, s, [slot[s] EXCEPT !.quarantine = NoQuarantine], pc)
    <3> DEFINE sl == [slot[s] EXCEPT !.quarantine = NoQuarantine]
    <3>1. /\ sl \in SlotType /\ sl.owner = None /\ sl.waiters = slot[s].waiters
          /\ ~sl.quarantine.on /\ sl.highest = slot[s].highest /\ sl.next = slot[s].next
      BY <2>0, ConstantTypes DEF SlotType, NoQuarantine
    <3>2. Promote(s, s, sl, pc)
      BY <2>0, <2>4
    <3> HIDE DEF sl, q
    <3>3. \A w \in sl.waiters : gen'[w] = gen[w] /\ pc[w] = "waiting"
      BY <2>0, <2>2, <3>1
    <3>4. /\ lastRun <= sl.highest
          /\ \A j \in Inv : pc[j] \notin {"new", "done"} =>
                 gen'[j] <= sl.highest /\ arrival'[j] <= sl.next
      BY <2>0, <2>3, <3>1 DEF Promises
    <3>5. gen' \in [Inv -> Nat] /\ arrival' \in [Inv -> Nat] /\ lastRun' = lastRun
      BY <1>a, <2>0
    <3>6. KeepsPromises' /\ GrantedIsRecent'
      BY <1>a, <2>1, <3>1, <3>2, <3>3, <3>4, <3>5, PromoteGrant
    <3> QED BY <1>b, <2>0, <3>6 DEF GrantInv
  <2>5. CASE /\ slot' = [slot EXCEPT ![s].quarantine.probing = FALSE,
                                     ![s].quarantine.cutoff = slot[s].next]
             /\ UNCHANGED <<cur, pc>>
    <3> DEFINE r == [q EXCEPT !.probing = FALSE, !.cutoff = slot[s].next]
               n == [slot[s] EXCEPT !.quarantine = r]
    <3>1. r.on /\ r.cutoff = slot[s].next
      <4> HIDE DEF q
      <4> QED BY <2>0 DEF QuarantineType
    <3>2. slot' = [slot EXCEPT ![s] = n]
      BY <1>a, <2>0, <2>5 DEF SlotType, QuarantineType
    <3>3. /\ n.waiters = slot[s].waiters /\ n.quarantine = r /\ n.highest = slot[s].highest
          /\ n.next = slot[s].next
      <4> HIDE DEF r, q
      <4> QED BY <2>0 DEF SlotType
    <3> HIDE DEF r, q, n
    <3>4. slot'[s] = n
      BY <1>a, <3>2
    <3>5. \A w \in n.waiters : arrival[w] <= slot[s].next
      BY <2>0, <2>2, <2>3, <3>3 DEF Promises
    <3>6. n.quarantine.cutoff <= n.next /\ ~Free(n)
      BY <2>0, <3>1, <3>3 DEF Free
    <3>7. Promises(n, lastRun', gen', arrival', pc')
      BY <2>0, <2>3, <2>5, <3>1, <3>3, <3>5, <3>6 DEF Promises
    <3>8. GrantedIsRecent'
      BY <2>0, <2>5 DEF GrantInv, GrantedIsRecent
    <3> QED BY <1>b, <2>0, <2>5, <3>4, <3>7, <3>8 DEF GrantInv, KeepsPromises
  <2> QED BY <1>5, <2>4, <2>5 DEF ProbeSettles
<1>6. ASSUME NEW i \in Inv, pc[i] \in HoldingAt, NEW b \in BOOLEAN, NEW k \in Nat,
             RunEnds(i, b, k), UNCHANGED <<config, gen, arrival, lastRun>>
      PROVE  GrantInv'
  BY <1>b, <1>6, RunEndsGrant DEF GrantInv
<1>7. ASSUME NEW i \in Inv, Resume(i) PROVE GrantInv'
  <2>1. pc[i] = "granted" /\ pc[i] \in HoldingAt /\ UNCHANGED <<config, gen, arrival>>
    BY <1>7 DEF Resume, HoldingAt, Location
  <2>2. CASE i \in aborted
    <3>1. Release(cur, slotOf[i], slot[slotOf[i]], i) /\ lastRun' = lastRun
      BY <1>7, <2>2 DEF Resume
    <3>2. RunEnds(i, TRUE, 0)
      BY <3>1 DEF RunEnds
    <3> QED BY <1>6, <2>1, <3>1, <3>2
  <2>3. CASE i \notin aborted
    <3>1. pc' = [pc EXCEPT ![i] = "start"] /\ lastRun' = gen[i] /\ UNCHANGED lease
      BY <1>7, <2>3 DEF Resume
    <3>2. pc'[i] = "start" /\ \A j \in Inv \ {i} : pc'[j] = pc[j]
      BY <1>a, <3>1
    <3>3. cur # None /\ Promises(slot[cur], lastRun, gen, arrival, pc)
      BY <2>1, SlotInMap, NoneAssumption DEF GrantInv, KeepsPromises
    <3>4. gen[i] <= slot[cur].highest
      BY <2>1, <3>3 DEF Promises
    <3>5. Promises(slot[cur], gen[i], gen, arrival, pc')
      BY <2>1, <3>2, <3>3, <3>4 DEF Promises
    <3>6. \A j \in Inv \ {i} : pc[j] # "granted"
      BY <2>1 DEF LeaseInv, Owners, HoldingAt, Location
    <3>7. GrantedIsRecent' /\ Installed'
      BY <2>1, <3>1, <3>2, <3>6 DEF GrantInv, GrantedIsRecent, Installed
    <3> QED BY <2>1, <3>1, <3>5, <3>7 DEF GrantInv, KeepsPromises
  <2> QED BY <2>2, <2>3
<1>8. ASSUME NEW i \in Inv, RunThrows(i) \/ LoopAborted(i) PROVE GrantInv'
  <2>1. /\ pc[i] \in HoldingAt /\ UNCHANGED <<config, gen, arrival, lastRun>>
        /\ RunEnds(i, FALSE, NoSocket) \/ RunEnds(i, TRUE, NoSocket)
    BY <1>8 DEF RunThrows, LoopAborted, HoldingAt, Location
  <2> QED BY <1>6, <2>1 DEF NoSocket
<1>9. ASSUME NEW i \in Inv, \/ PreflightFails(i) \/ AttemptStarts(i) \/ Commit(i) \/ Fails(i)
                            \/ StopServing(i)
      PROVE  GrantInv'
  <2>1. pc[i] \in HoldingAt /\ UNCHANGED <<config, lease, gen, arrival, lastRun>>
    BY <1>9 DEF PreflightFails, AttemptStarts, Commit, Fails, StopServing, HoldingAt, Location
  <2>2. PICK l \in Location \ {"granted"} : pc' = [pc EXCEPT ![i] = l]
    BY <1>9 DEF PreflightFails, AttemptStarts, Commit, Fails, StopServing, Location
  <2> QED BY <1>1, <2>1, <2>2
<1>10. ASSUME NEW i \in Inv, NEW e, NEW b \in BOOLEAN, NEW k \in Nat, AfterAttempt(i, e, b, k),
              pc[i] \in HoldingAt, UNCHANGED <<config, gen, arrival, lastRun>>
       PROVE  GrantInv'
  <2>1. CASE RunEnds(i, b, k)
    BY <1>6, <1>10, <2>1
  <2>2. CASE pc' = [pc EXCEPT ![i] = IF e = "transient" THEN "backoff" ELSE "parked"]
             /\ UNCHANGED lease
    <3> DEFINE l == IF e = "transient" THEN "backoff" ELSE "parked"
    <3>1. l \in Location \ {"granted"} /\ pc' = [pc EXCEPT ![i] = l]
      BY <2>2 DEF Location
    <3> HIDE DEF l
    <3> QED BY <1>1, <1>10, <2>2, <3>1
  <2> QED BY <1>10, <2>1, <2>2 DEF AfterAttempt
<1>11. ASSUME NEW i \in Inv, FailsEarly(i) PROVE GrantInv'
  <2>1. pc[i] \in HoldingAt /\ UNCHANGED <<config, gen, arrival, lastRun>>
    BY <1>11 DEF FailsEarly, HoldingAt, Location
  <2>2. PICK e \in {"transient", "permanent"} : AfterAttempt(i, e, TRUE, NoSocket)
    BY <1>11 DEF FailsEarly
  <2> QED BY <1>10, <2>1, <2>2 DEF NoSocket
<1>12. ASSUME NEW i \in Inv, CloseSettles(i) PROVE GrantInv'
  <2>1. pc[i] \in HoldingAt /\ UNCHANGED <<config, gen, arrival, lastRun>> /\ ws[i] \in Nat
    BY <1>12 DEF CloseSettles, HoldingAt, Location, TypeOK
  <2>2. AfterAttempt(i, ending[i], TRUE, NoSocket) \/ AfterAttempt(i, ending[i], FALSE, ws[i])
    BY <1>12 DEF CloseSettles
  <2> QED BY <1>10, <2>1, <2>2 DEF NoSocket
<1>13. ASSUME NEW i \in Inv, Dial(i) \/ Redial(i) \/ RedialSettles(i) PROVE GrantInv'
  BY <1>2, <1>13 DEF Dial, Redial, RedialSettles
<1>14. ASSUME NEW k \in Socket, SocketCloses(k) PROVE GrantInv'
  BY <1>2, <1>14 DEF SocketCloses
<1>15. CASE UNCHANGED vars
  BY <1>2, <1>15 DEF vars
<1> QED
  BY <1>3, <1>4, <1>5, <1>7, <1>8, <1>9, <1>11, <1>12, <1>13, <1>14, <1>15, ArrivalGrant
     DEF Next, OwnStep

LEMMA InitGrant == Init => GrantInv
BY DEF Init, GrantInv, KeepsPromises, GrantedIsRecent, Installed

\* The watermark and the arrivals are consistent throughout.
THEOREM Granting == Spec => []GrantInv
<1>1. IInv /\ GrantInv /\ [Next]_vars => GrantInv'
  BY GrantStep DEF IInv
<1> QED BY <1>1, InitGrant, Inductive, PTL DEF Spec

\* No wake-up is lost: whoever waits is in the queue of the slot in the map, and it
\* waits because the slot is owned, because a newer config overtook it, or because
\* the account is quarantined and it arrived before the last close attempt.
THEOREM NoGrantIsLost == Spec => []NoLostGrant
<1>1. ASSUME IInv, GrantInv PROVE NoLostGrant
  <2>0. TypeOK /\ LeaseInv
    BY <1>1 DEF IInv
  <2>1. \A i \in Waiting : cur # None /\ i \in slot[cur].waiters
    BY <2>0 DEF LeaseInv, Queue, Waiting
  <2>2. ASSUME cur # None
        PROVE  /\ slot[cur].waiters = Waiting
               /\ Owner = None /\ ~Quarantine.on => \A w \in Waiting : gen[w] < slot[cur].highest
               /\ Quarantine.on /\ ~Quarantine.probing =>
                      \A w \in Waiting : arrival[w] <= Quarantine.cutoff
    <3>1. slot[cur].waiters \subseteq Inv
      BY <2>0, <2>2 DEF TypeOK, SlotType
    <3>2. slot[cur].waiters = Waiting
      BY <2>0, <2>2, <3>1 DEF LeaseInv, Queue, Waiting
    <3>3. Promises(slot[cur], lastRun, gen, arrival, pc)
      BY <1>1, <2>2 DEF GrantInv, KeepsPromises
    <3> QED BY <2>2, <3>2, <3>3 DEF Promises, Free, Owner, Quarantine
  <2> QED BY <2>1, <2>2 DEF NoLostGrant
<1> QED BY <1>1, Inductive, Granting, PTL

\* Configs run in the order of their generations: once a generation has run, no
\* older one does, although slots come and go and a grant is taken up later.
THEOREM GenerationsInOrder == Spec => NoOldGeneration
<1>1. ASSUME IInv, GrantInv, [Next]_vars PROVE [lastRun' >= lastRun]_vars
  <2>0. TypeOK /\ TypeOK'
    BY <1>1, TypeStep DEF IInv
  <2>1. lastRun \in Nat
    BY <2>0 DEF TypeOK
  <2>2. CASE lastRun' = lastRun
    BY <2>1, <2>2
  <2>3. ASSUME NEW i \in Inv, RunAccount(i), lastRun' = generation PROVE lastRun' >= lastRun
    BY <1>1, <2>0, <2>3 DEF GrantInv, Installed, TypeOK
  <2>4. ASSUME NEW i \in Inv, Resume(i), lastRun' = gen[i] PROVE lastRun' >= lastRun
    BY <1>1, <2>0, <2>4 DEF GrantInv, GrantedIsRecent, Resume, TypeOK
  <2>5. CASE UNCHANGED vars
    BY <2>5
  <2>6. CASE Next
    <3>1. \/ lastRun' = lastRun
          \/ \E i \in Inv : RunAccount(i) /\ lastRun' = generation
          \/ \E i \in Inv : Resume(i) /\ lastRun' = gen[i]
      BY <2>6 DEF Next, OwnStep, InstallFull, RunAccount, Abort, Redial, RedialSettles, ProbeSettles,
                  SocketCloses, Resume, RunThrows, PreflightFails, AttemptStarts, LoopAborted, Dial,
                  Commit, FailsEarly, Fails, StopServing, CloseSettles
    <3> QED BY <2>2, <2>3, <2>4, <3>1
  <2> QED BY <1>1, <2>5, <2>6
<1> QED BY <1>1, Inductive, Granting, PTL DEF Spec, NoOldGeneration

=============================================================================
