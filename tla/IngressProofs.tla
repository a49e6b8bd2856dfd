---------------------------- MODULE IngressProofs ----------------------------
(***************************************************************************)
(* Theorems about the inbound path of a peer, for any number of messages,  *)
(* frames, stops, retirements, runtimes and store faults.                  *)
(***************************************************************************)
EXTENDS Ingress, SequenceTheorems, FunctionTheorems, FiniteSetTheorems, TLAPS

(***************************************************************************)
(* Types.                                                                  *)
(***************************************************************************)
Owner == {"debounce-waiting", "debounce-inflight", "pending"}
Holder == {"flush", "cancel"}
Entry == [m : Msg, rt : Nat, token : Nat, gen : Nat,
          creq : BOOLEAN, cpend : BOOLEAN, cwait : BOOLEAN, crun : BOOLEAN, retired : BOOLEAN,
          owner : Owner, req : BOOLEAN,
          holds : SUBSET Holder]
FlushPc == {"idle", "item", "recover", "lookup", "record", "await"}
OfferState == {"provisional", "recorded", "committed", "back"}
Actor == {"flush", "cancel", "over"} \X Nat
Batchwise == [pc : {"done", "scheduled", "item", "record"}, i : Nat \ {0}, rt : Nat, ents : Seq(Nat)]

\* The entries are numbered from 1 to Len(ent), and everything else holds such numbers.
Types ==
    /\ ent \in Seq(Entry)
    /\ waiting \in Seq(Nat) /\ pending \in Seq(Nat) /\ ran \in Seq(Nat)
    /\ queued \in Seq([ents : Seq(Nat), gen : Nat])
    /\ gen \in Nat /\ inflight \subseteq DOMAIN ent /\ ids \subseteq Msg \ IdLess
    /\ rt \in Runtime /\ live \in BOOLEAN /\ token \in Nat /\ stops \in Nat
IsFlush(f) == f = [pc |-> f.pc, batch |-> f.batch, i |-> f.i, intact |-> f.intact,
                   offers |-> f.offers, acks |-> f.acks, rejs |-> f.rejs]
FlushFields(f) ==
    /\ IsFlush(f)
    /\ f.pc \in FlushPc /\ f.batch \in Seq(Nat)
    /\ f.i \in Nat \ {0} /\ f.intact \in BOOLEAN
    /\ f.pc \in {"recover", "lookup", "record"} => f.i <= Len(f.batch)
    /\ DOMAIN f.offers \subseteq ToSet(f.batch)
    /\ \A e \in DOMAIN f.offers : f.offers[e] \in OfferState
FlushTypes ==
    /\ flush = [r \in Runtime |-> flush[r]]
    /\ \A r \in Runtime : FlushFields(flush[r]) /\ (flush[r].pc = "idle" \/ r > rt => flush[r] = NoFlush)
CancelTypes ==
    /\ cancel \in [StopNo -> Batchwise]
    /\ \A c \in StopNo :
          /\ c > stops => cancel[c].pc = "done"
          /\ cancel[c].pc = "record" => cancel[c].i <= Len(cancel[c].ents)
          /\ ToSet(cancel[c].ents) \subseteq DOMAIN ent
TurnTypes ==
    /\ turn = [pc |-> turn.pc, ents |-> turn.ents]
    /\ turn.pc \in {"idle", "starting", "running"} /\ turn.ents \in Seq(Nat)

(***************************************************************************)
(* The order of arrival: the pipeline is a sequence of entry numbers that  *)
(* rises from what ran to what waits.                                      *)
(***************************************************************************)
Rising(s) == \A i, j \in DOMAIN s : i < j => s[i] < s[j]
Below(S, T) == \A x \in S, y \in T : x < y
Begun == ToSet(ran)
Starting == IF turn.pc = "starting" THEN ToSet(turn.ents) ELSE {}
Buffer == ToSet(pending)
Batch(r) == ToSet(flush[r].batch)
BatchAt(b) == ToSet(queued[b].ents)
Window == ToSet(waiting)
Given == Begun \union Starting \union Buffer
RisingInv ==
    /\ Rising(ran) /\ Rising(turn.ents) /\ Rising(pending) /\ Rising(waiting)
    /\ \A r \in Runtime : Rising(flush[r].batch)
    /\ \A b \in DOMAIN queued : Rising(queued[b].ents)
OrderInv ==
    /\ Below(Begun, Starting) /\ Below(Begun \union Starting, Buffer)
    /\ Below(Given, Batch(rt))
    /\ \A b \in DOMAIN queued : Below(Given \union Batch(rt), BatchAt(b)) /\ Below(BatchAt(b), Window)
    /\ \A b, c \in DOMAIN queued : b < c => Below(BatchAt(b), BatchAt(c))
    /\ Below(Given \union Batch(rt), Window)
    /\ Given \union Window \subseteq DOMAIN ent
    /\ \A b \in DOMAIN queued : BatchAt(b) \subseteq DOMAIN ent
    /\ \A r \in Runtime : Batch(r) \subseteq DOMAIN ent

(***************************************************************************)
(* Where an entry is, and in which state it is there.                      *)
(***************************************************************************)
\* The window, and batches of the current generation, hold only what is active.
WaitingInv ==
    \A e \in Window :
        /\ live /\ ent[e].rt = rt /\ ent[e].token = token /\ ent[e].gen = gen /\ e \notin inflight
        /\ ~ent[e].creq /\ ~ent[e].req /\ ~ent[e].cpend /\ ~ent[e].crun /\ ent[e].holds = {} /\ ~ent[e].retired
        /\ ent[e].owner # "pending"
QueuedAt(b, e) ==
    /\ ent[e].gen = queued[b].gen
    /\ live /\ ent[e].rt = rt /\ ent[e].gen <= gen /\ ent[e].owner # "pending"
    /\ e \in inflight \/ (ent[e].creq /\ ent[e].req)
    /\ ~ent[e].creq => ~ent[e].req
    /\ ent[e].gen = gen => ~ent[e].creq /\ ent[e].token = token
QueuedInv == \A b \in DOMAIN queued : \A e \in BatchAt(b) : QueuedAt(b, e)
\* What a flush holds; `Rest' is the part of its batch that is still to come.
Rest(r) == {flush[r].batch[j] : j \in {k \in DOMAIN flush[r].batch : k >= flush[r].i}}
Offered(r, e) == e \in DOMAIN flush[r].offers /\ flush[r].offers[e] # "back"
Unoffered(r, e) == e \notin DOMAIN flush[r].offers
FlushAt(r) ==
    /\ r <= rt
    /\ flush[r].intact => live /\ r = rt
    /\ \A e \in Batch(r) :
          /\ ent[e].rt = r /\ "flush" \in ent[e].holds
          /\ live /\ r = rt => ent[e].gen <= gen
          /\ flush[r].intact => e \in inflight \/ (ent[e].creq /\ ent[e].req)
          /\ ~flush[r].intact => ent[e].req /\ e \notin inflight
          /\ IsActive(e) => flush[r].intact /\ ent[e].token = token
          /\ ent[e].owner = "pending" => ~Unoffered(r, e)
          /\ ~Unoffered(r, e) /\ ~Offered(r, e) => ent[e].req
          /\ Offered(r, e) => live /\ r = rt /\ ~ent[e].req /\ ent[e].owner = "pending"
    /\ \A e \in Rest(r) :
          /\ IsActive(e) => ~ent[e].req
          /\ Unoffered(r, e) \/ (flush[r].pc = "record" /\ e = Current(r))
FlushInv == \A r \in Runtime : flush[r].pc # "idle" => FlushAt(r)
\* What is in flight, and what a cancellation has marked.
Marked(c) == ToSet(cancel[c].ents)
IdsInv == StopCompletes => \A m \in ids : \E e \in inflight \union Window : ent[e].m = m
InflightInv ==
    /\ inflight # {} => live
    /\ \A e \in inflight :
          /\ ent[e].rt = rt /\ ~ent[e].retired
          /\ ent[e].cpend <=> ent[e].creq
          /\ ent[e].cpend \/ (\E b \in DOMAIN queued : e \in BatchAt(b)) \/ e \in Batch(rt)
    /\ \A e \in DOMAIN ent : ent[e].cpend => ent[e].creq
    /\ \A e \in DOMAIN ent : ent[e].crun =>
          \E c \in StopNo : cancel[c].pc \in {"item", "record"} /\ e \in Marked(c)
CancelAt(c, e) ==
    /\ ent[e].creq /\ "cancel" \in ent[e].holds
    /\ cancel[c].pc # "scheduled" => ent[e].crun
    /\ cancel[c].pc = "scheduled" => ~ent[e].retired
    /\ ~ent[e].retired => e \in inflight /\ cancel[c].rt = rt
    /\ ent[e].retired => ent[e].req /\ ~ent[e].cpend
    /\ e \notin Buffer
    /\ ent[e].rt = cancel[c].rt
    /\ ~Offered(rt, e)
CancelInv ==
    /\ \A c \in StopNo : cancel[c].pc # "done" => \A e \in Marked(c) : CancelAt(c, e)
    /\ \A c, d \in StopNo : c # d /\ cancel[c].pc # "done" /\ cancel[d].pc # "done" =>
          \A e \in Marked(c) : e \notin Marked(d)
PendingInv == \A e \in Buffer : ~ent[e].req /\ live /\ ent[e].rt = rt

\* The flushes, cancellations and retained frames, and the order they are in.
PipeInv == Types /\ FlushTypes /\ CancelTypes /\ TurnTypes /\ RisingInv /\ OrderInv /\ WaitingInv
           /\ QueuedInv /\ FlushInv /\ IdsInv /\ InflightInv /\ CancelInv /\ PendingInv /\ OfferAlwaysFits


-----------------------------------------------------------------------------
(***************************************************************************)
(* The operators on entries.  What identifies an entry never changes.      *)
(***************************************************************************)
Born(a, b) ==
    /\ b \in Seq(Entry) /\ DOMAIN b = DOMAIN a /\ Len(b) = Len(a)
    /\ \A x \in DOMAIN a : b[x].m = a[x].m /\ b[x].rt = a[x].rt /\ b[x].token = a[x].token /\ b[x].gen = a[x].gen

LEMMA Released ==
    ASSUME NEW en \in Seq(Entry), NEW es, NEW z, z = RequestRelease(en, es)
    PROVE  /\ Born(en, z)
           /\ \A x \in DOMAIN en : x \notin es => z[x] = en[x]
           /\ \A x \in DOMAIN en :
                 /\ z[x].creq = en[x].creq /\ z[x].cpend = en[x].cpend /\ z[x].crun = en[x].crun
                 /\ z[x].retired = en[x].retired /\ z[x].owner = en[x].owner /\ z[x].holds = en[x].holds
           /\ \A x \in DOMAIN en : x \in es => z[x].req
<1>1. PICK n \in Nat : en \in [1..n -> Entry]
  BY SeqDef
<1>2. z = [x \in 1..n |-> IF x \in es THEN [en[x] EXCEPT !.req = TRUE] ELSE en[x]]
  BY <1>1 DEF RequestRelease, Change
<1>3. \A x \in 1..n : en[x] \in Entry
  BY <1>1
<1>4. \A x \in 1..n : [en[x] EXCEPT !.req = TRUE] \in Entry
  BY Zenon, <1>3 DEF Entry, Owner, Holder
<1>5. z \in [1..n -> Entry]
  BY <1>2, <1>3, <1>4
<1>6. z \in Seq(Entry) /\ DOMAIN z = DOMAIN en /\ DOMAIN en = 1..n /\ Len(z) = Len(en)
  BY <1>1, <1>5, SeqDef
<1>7. \A x \in 1..n : z[x] = IF x \in es THEN [en[x] EXCEPT !.req = TRUE] ELSE en[x]
  BY <1>2
<1>8. \A x \in 1..n : z[x].m = en[x].m /\ z[x].rt = en[x].rt /\ z[x].token = en[x].token /\ z[x].gen = en[x].gen
  <2>1. \A x \in 1..n : z[x].m = en[x].m
    BY <1>3, <1>7 DEF Entry
  <2>2. \A x \in 1..n : z[x].rt = en[x].rt
    BY <1>3, <1>7 DEF Entry
  <2>3. \A x \in 1..n : z[x].token = en[x].token
    BY <1>3, <1>7 DEF Entry
  <2>4. \A x \in 1..n : z[x].gen = en[x].gen
    BY <1>3, <1>7 DEF Entry
  <2> QED BY <2>1, <2>2, <2>3, <2>4
<1>9. \A x \in 1..n : z[x].creq = en[x].creq
  BY <1>3, <1>7 DEF Entry, Holder
<1>10. \A x \in 1..n : z[x].cpend = en[x].cpend
  BY <1>3, <1>7 DEF Entry, Holder
<1>11. \A x \in 1..n : z[x].crun = en[x].crun
  BY <1>3, <1>7 DEF Entry, Holder
<1>12. \A x \in 1..n : z[x].retired = en[x].retired
  BY <1>3, <1>7 DEF Entry, Holder
<1>13. \A x \in 1..n : z[x].owner = en[x].owner
  BY <1>3, <1>7 DEF Entry, Holder
<1>14. \A x \in 1..n : z[x].holds = en[x].holds
  BY <1>3, <1>7 DEF Entry, Holder
<1>15. \A x \in 1..n : x \in es => z[x].req
  BY <1>3, <1>7 DEF Entry, Holder
<1> QED BY <1>6, <1>7, <1>8, <1>9, <1>10, <1>11, <1>12, <1>13, <1>14, <1>15 DEF Born

LEMMA HeldForFlush ==
    ASSUME NEW en \in Seq(Entry), NEW es, NEW z, z = HoldFor(en, es, "flush")
    PROVE  /\ Born(en, z)
           /\ \A x \in DOMAIN en : x \notin es => z[x] = en[x]
           /\ \A x \in DOMAIN en :
                 /\ z[x].creq = en[x].creq /\ z[x].cpend = en[x].cpend /\ z[x].crun = en[x].crun
                 /\ z[x].retired = en[x].retired /\ z[x].owner = en[x].owner /\ z[x].req = en[x].req
           /\ \A x \in DOMAIN en : x \in es => z[x].holds = en[x].holds \union {"flush"}
<1>1. PICK n \in Nat : en \in [1..n -> Entry]
  BY SeqDef
<1>2. z = [x \in 1..n |-> IF x \in es THEN [en[x] EXCEPT !.holds = @ \union {"flush"}] ELSE en[x]]
  BY <1>1 DEF HoldFor, Change
<1>3. \A x \in 1..n : en[x] \in Entry
  BY <1>1
<1>4. \A x \in 1..n : [en[x] EXCEPT !.holds = @ \union {"flush"}] \in Entry
  BY Zenon, <1>3 DEF Entry, Owner, Holder
<1>5. z \in [1..n -> Entry]
  BY <1>2, <1>3, <1>4
<1>6. z \in Seq(Entry) /\ DOMAIN z = DOMAIN en /\ DOMAIN en = 1..n /\ Len(z) = Len(en)
  BY <1>1, <1>5, SeqDef
<1>7. \A x \in 1..n : z[x] = IF x \in es THEN [en[x] EXCEPT !.holds = @ \union {"flush"}] ELSE en[x]
  BY <1>2
<1>8. \A x \in 1..n : z[x].m = en[x].m /\ z[x].rt = en[x].rt /\ z[x].token = en[x].token /\ z[x].gen = en[x].gen
  <2>1. \A x \in 1..n : z[x].m = en[x].m
    BY <1>3, <1>7 DEF Entry
  <2>2. \A x \in 1..n : z[x].rt = en[x].rt
    BY <1>3, <1>7 DEF Entry
  <2>3. \A x \in 1..n : z[x].token = en[x].token
    BY <1>3, <1>7 DEF Entry
  <2>4. \A x \in 1..n : z[x].gen = en[x].gen
    BY <1>3, <1>7 DEF Entry
  <2> QED BY <2>1, <2>2, <2>3, <2>4
<1>9. \A x \in 1..n : z[x].creq = en[x].creq
  BY <1>3, <1>7 DEF Entry, Holder
<1>10. \A x \in 1..n : z[x].cpend = en[x].cpend
  BY <1>3, <1>7 DEF Entry, Holder
<1>11. \A x \in 1..n : z[x].crun = en[x].crun
  BY <1>3, <1>7 DEF Entry, Holder
<1>12. \A x \in 1..n : z[x].retired = en[x].retired
  BY <1>3, <1>7 DEF Entry, Holder
<1>13. \A x \in 1..n : z[x].owner = en[x].owner
  BY <1>3, <1>7 DEF Entry, Holder
<1>14. \A x \in 1..n : z[x].req = en[x].req
  BY <1>3, <1>7 DEF Entry, Holder
<1>15. \A x \in 1..n : x \in es => z[x].holds = en[x].holds \union {"flush"}
  BY <1>3, <1>7 DEF Entry, Holder
<1> QED BY <1>6, <1>7, <1>8, <1>9, <1>10, <1>11, <1>12, <1>13, <1>14, <1>15 DEF Born

LEMMA UnheldByFlush ==
    ASSUME NEW en \in Seq(Entry), NEW es, NEW z, z = Unhold(en, es, "flush")
    PROVE  /\ Born(en, z)
           /\ \A x \in DOMAIN en : x \notin es => z[x] = en[x]
           /\ \A x \in DOMAIN en :
                 /\ z[x].creq = en[x].creq /\ z[x].cpend = en[x].cpend /\ z[x].crun = en[x].crun
                 /\ z[x].retired = en[x].retired /\ z[x].owner = en[x].owner /\ z[x].req = en[x].req
           /\ \A x \in DOMAIN en : x \in es => z[x].holds = en[x].holds \ {"flush"}
<1>1. PICK n \in Nat : en \in [1..n -> Entry]
  BY SeqDef
<1>2. z = [x \in 1..n |-> IF x \in es THEN [en[x] EXCEPT !.holds = @ \ {"flush"}] ELSE en[x]]
  BY <1>1 DEF Unhold, Change
<1>3. \A x \in 1..n : en[x] \in Entry
  BY <1>1
<1>4. \A x \in 1..n : [en[x] EXCEPT !.holds = @ \ {"flush"}] \in Entry
  BY Zenon, <1>3 DEF Entry, Owner, Holder
<1>5. z \in [1..n -> Entry]
  BY <1>2, <1>3, <1>4
<1>6. z \in Seq(Entry) /\ DOMAIN z = DOMAIN en /\ DOMAIN en = 1..n /\ Len(z) = Len(en)
  BY <1>1, <1>5, SeqDef
<1>7. \A x \in 1..n : z[x] = IF x \in es THEN [en[x] EXCEPT !.holds = @ \ {"flush"}] ELSE en[x]
  BY <1>2
<1>8. \A x \in 1..n : z[x].m = en[x].m /\ z[x].rt = en[x].rt /\ z[x].token = en[x].token /\ z[x].gen = en[x].gen
  <2>1. \A x \in 1..n : z[x].m = en[x].m
    BY <1>3, <1>7 DEF Entry
  <2>2. \A x \in 1..n : z[x].rt = en[x].rt
    BY <1>3, <1>7 DEF Entry
  <2>3. \A x \in 1..n : z[x].token = en[x].token
    BY <1>3, <1>7 DEF Entry
  <2>4. \A x \in 1..n : z[x].gen = en[x].gen
    BY <1>3, <1>7 DEF Entry
  <2> QED BY <2>1, <2>2, <2>3, <2>4
<1>9. \A x \in 1..n : z[x].creq = en[x].creq
  BY <1>3, <1>7 DEF Entry, Holder
<1>10. \A x \in 1..n : z[x].cpend = en[x].cpend
  BY <1>3, <1>7 DEF Entry, Holder
<1>11. \A x \in 1..n : z[x].crun = en[x].crun
  BY <1>3, <1>7 DEF Entry, Holder
<1>12. \A x \in 1..n : z[x].retired = en[x].retired
  BY <1>3, <1>7 DEF Entry, Holder
<1>13. \A x \in 1..n : z[x].owner = en[x].owner
  BY <1>3, <1>7 DEF Entry, Holder
<1>14. \A x \in 1..n : z[x].req = en[x].req
  BY <1>3, <1>7 DEF Entry, Holder
<1>15. \A x \in 1..n : x \in es => z[x].holds = en[x].holds \ {"flush"}
  BY <1>3, <1>7 DEF Entry, Holder
<1> QED BY <1>6, <1>7, <1>8, <1>9, <1>10, <1>11, <1>12, <1>13, <1>14, <1>15 DEF Born

LEMMA Transferred ==
    ASSUME NEW en \in Seq(Entry), NEW es, NEW o \in Owner, NEW z, z = Transfer(en, es, o)
    PROVE  /\ Born(en, z)
           /\ \A x \in DOMAIN en : x \notin es => z[x] = en[x]
           /\ \A x \in DOMAIN en :
                 /\ z[x].creq = en[x].creq /\ z[x].cpend = en[x].cpend /\ z[x].crun = en[x].crun
                 /\ z[x].retired = en[x].retired /\ z[x].req = en[x].req /\ z[x].holds = en[x].holds
           /\ \A x \in DOMAIN en : x \in es => z[x].owner = o
<1>1. PICK n \in Nat : en \in [1..n -> Entry]
  BY SeqDef
<1>2. z = [x \in 1..n |-> IF x \in es THEN [en[x] EXCEPT !.owner = o] ELSE en[x]]
  BY <1>1 DEF Transfer, Change
<1>3. \A x \in 1..n : en[x] \in Entry
  BY <1>1
<1>4. \A x \in 1..n : [en[x] EXCEPT !.owner = o] \in Entry
  BY Zenon, <1>3 DEF Entry, Owner, Holder
<1>5. z \in [1..n -> Entry]
  BY <1>2, <1>3, <1>4
<1>6. z \in Seq(Entry) /\ DOMAIN z = DOMAIN en /\ DOMAIN en = 1..n /\ Len(z) = Len(en)
  BY <1>1, <1>5, SeqDef
<1>7. \A x \in 1..n : z[x] = IF x \in es THEN [en[x] EXCEPT !.owner = o] ELSE en[x]
  BY <1>2
<1>8. \A x \in 1..n : z[x].m = en[x].m /\ z[x].rt = en[x].rt /\ z[x].token = en[x].token /\ z[x].gen = en[x].gen
  <2>1. \A x \in 1..n : z[x].m = en[x].m
    BY <1>3, <1>7 DEF Entry
  <2>2. \A x \in 1..n : z[x].rt = en[x].rt
    BY <1>3, <1>7 DEF Entry
  <2>3. \A x \in 1..n : z[x].token = en[x].token
    BY <1>3, <1>7 DEF Entry
  <2>4. \A x \in 1..n : z[x].gen = en[x].gen
    BY <1>3, <1>7 DEF Entry
  <2> QED BY <2>1, <2>2, <2>3, <2>4
<1>9. \A x \in 1..n : z[x].creq = en[x].creq
  BY <1>3, <1>7 DEF Entry, Holder
<1>10. \A x \in 1..n : z[x].cpend = en[x].cpend
  BY <1>3, <1>7 DEF Entry, Holder
<1>11. \A x \in 1..n : z[x].crun = en[x].crun
  BY <1>3, <1>7 DEF Entry, Holder
<1>12. \A x \in 1..n : z[x].retired = en[x].retired
  BY <1>3, <1>7 DEF Entry, Holder
<1>13. \A x \in 1..n : z[x].req = en[x].req
  BY <1>3, <1>7 DEF Entry, Holder
<1>14. \A x \in 1..n : z[x].holds = en[x].holds
  BY <1>3, <1>7 DEF Entry, Holder
<1>15. \A x \in 1..n : x \in es => z[x].owner = o
  BY <1>3, <1>7 DEF Entry, Holder
<1> QED BY <1>6, <1>7, <1>8, <1>9, <1>10, <1>11, <1>12, <1>13, <1>14, <1>15 DEF Born

LEMMA CancelSettled ==
    ASSUME NEW en \in Seq(Entry), NEW es, NEW z, z = SettleCancel(en, es)
    PROVE  /\ Born(en, z)
           /\ \A x \in DOMAIN en : x \notin es => z[x] = en[x]
           /\ \A x \in DOMAIN en :
                 /\ z[x].creq = en[x].creq /\ z[x].retired = en[x].retired /\ z[x].owner = en[x].owner
           /\ \A x \in DOMAIN en : x \in es => ~z[x].cpend /\ ~z[x].crun /\ z[x].req /\ z[x].holds = en[x].holds \ {"cancel"}
<1>1. PICK n \in Nat : en \in [1..n -> Entry]
  BY SeqDef
<1>2. z = [x \in 1..n |-> IF x \in es THEN [en[x] EXCEPT !.cpend = FALSE, !.crun = FALSE, !.req = TRUE, !.holds = @ \ {"cancel"}] ELSE en[x]]
  BY Zenon, <1>1 DEF SettleCancel, Change
<1>3. \A x \in 1..n : en[x] \in Entry
  BY <1>1
<1>4. \A x \in 1..n : [en[x] EXCEPT !.cpend = FALSE, !.crun = FALSE, !.req = TRUE, !.holds = @ \ {"cancel"}] \in Entry
  BY Zenon, <1>3 DEF Entry, Owner, Holder
<1>5. z \in [1..n -> Entry]
  BY Zenon, <1>2, <1>3, <1>4
<1>6. z \in Seq(Entry) /\ DOMAIN z = DOMAIN en /\ DOMAIN en = 1..n /\ Len(z) = Len(en)
  BY <1>1, <1>5, SeqDef
<1>7. \A x \in 1..n : z[x] = IF x \in es THEN [en[x] EXCEPT !.cpend = FALSE, !.crun = FALSE, !.req = TRUE, !.holds = @ \ {"cancel"}] ELSE en[x]
  BY Zenon, <1>2
<1>8. \A x \in 1..n : z[x].m = en[x].m /\ z[x].rt = en[x].rt /\ z[x].token = en[x].token /\ z[x].gen = en[x].gen
  <2>1. \A x \in 1..n : z[x].m = en[x].m
    BY Zenon, <1>3, <1>7 DEF Entry
  <2>2. \A x \in 1..n : z[x].rt = en[x].rt
    BY Zenon, <1>3, <1>7 DEF Entry
  <2>3. \A x \in 1..n : z[x].token = en[x].token
    BY Zenon, <1>3, <1>7 DEF Entry
  <2>4. \A x \in 1..n : z[x].gen = en[x].gen
    BY Zenon, <1>3, <1>7 DEF Entry
  <2> QED BY <2>1, <2>2, <2>3, <2>4
<1>9. \A x \in 1..n : z[x].creq = en[x].creq
  BY Zenon, <1>3, <1>7 DEF Entry, Holder
<1>10. \A x \in 1..n : z[x].retired = en[x].retired
  BY Zenon, <1>3, <1>7 DEF Entry, Holder
<1>11. \A x \in 1..n : z[x].owner = en[x].owner
  BY Zenon, <1>3, <1>7 DEF Entry, Holder
<1>12. \A x \in 1..n : x \in es => ~z[x].cpend
  BY Zenon, <1>3, <1>7 DEF Entry, Holder
<1>13. \A x \in 1..n : x \in es => ~z[x].crun
  BY Zenon, <1>3, <1>7 DEF Entry, Holder
<1>14. \A x \in 1..n : x \in es => z[x].req
  BY Zenon, <1>3, <1>7 DEF Entry, Holder
<1>15. \A x \in 1..n : x \in es => z[x].holds = en[x].holds \ {"cancel"}
  BY Zenon, <1>3, <1>7 DEF Entry, Holder
<1> QED BY Zenon, <1>6, <1>7, <1>8, <1>9, <1>10, <1>11, <1>12, <1>13, <1>14, <1>15 DEF Born

LEMMA RetireSettled ==
    ASSUME NEW en \in Seq(Entry), NEW es, NEW z, z = SettleRetire(en, es)
    PROVE  /\ Born(en, z)
           /\ \A x \in DOMAIN en : x \notin es => z[x] = en[x]
           /\ \A x \in DOMAIN en :
                 /\ z[x].creq = en[x].creq /\ z[x].crun = en[x].crun /\ z[x].owner = en[x].owner
           /\ \A x \in DOMAIN en : x \in es => ~z[x].cpend /\ z[x].retired /\ z[x].req
           /\ \A x \in DOMAIN en : x \in es /\ en[x].crun => z[x].holds = en[x].holds
           /\ \A x \in DOMAIN en : x \in es /\ ~en[x].crun => z[x].holds = en[x].holds \ {"cancel"}
<1>1. PICK n \in Nat : en \in [1..n -> Entry]
  BY SeqDef
<1>2. z = [x \in 1..n |-> IF x \in es THEN [en[x] EXCEPT !.retired = TRUE, !.cpend = FALSE, !.req = TRUE, !.holds = IF en[x].crun THEN @ ELSE @ \ {"cancel"}] ELSE en[x]]
  BY Zenon, <1>1 DEF SettleRetire, Change
<1>3. \A x \in 1..n : en[x] \in Entry
  BY <1>1
<1>4. \A x \in 1..n : [en[x] EXCEPT !.retired = TRUE, !.cpend = FALSE, !.req = TRUE, !.holds = IF en[x].crun THEN @ ELSE @ \ {"cancel"}] \in Entry
  BY Zenon, <1>3 DEF Entry, Owner, Holder
<1>5. z \in [1..n -> Entry]
  BY Zenon, <1>2, <1>3, <1>4
<1>6. z \in Seq(Entry) /\ DOMAIN z = DOMAIN en /\ DOMAIN en = 1..n /\ Len(z) = Len(en)
  BY <1>1, <1>5, SeqDef
<1>7. \A x \in 1..n : z[x] = IF x \in es THEN [en[x] EXCEPT !.retired = TRUE, !.cpend = FALSE, !.req = TRUE, !.holds = IF en[x].crun THEN @ ELSE @ \ {"cancel"}] ELSE en[x]
  BY Zenon, <1>2
<1>8. \A x \in 1..n : z[x].m = en[x].m /\ z[x].rt = en[x].rt /\ z[x].token = en[x].token /\ z[x].gen = en[x].gen
  <2>1. \A x \in 1..n : z[x].m = en[x].m
    BY Zenon, <1>3, <1>7 DEF Entry
  <2>2. \A x \in 1..n : z[x].rt = en[x].rt
    BY Zenon, <1>3, <1>7 DEF Entry
  <2>3. \A x \in 1..n : z[x].token = en[x].token
    BY Zenon, <1>3, <1>7 DEF Entry
  <2>4. \A x \in 1..n : z[x].gen = en[x].gen
    BY Zenon, <1>3, <1>7 DEF Entry
  <2> QED BY <2>1, <2>2, <2>3, <2>4
<1>9. \A x \in 1..n : z[x].creq = en[x].creq
  BY Zenon, <1>3, <1>7 DEF Entry, Holder
<1>10. \A x \in 1..n : z[x].crun = en[x].crun
  BY Zenon, <1>3, <1>7 DEF Entry, Holder
<1>11. \A x \in 1..n : z[x].owner = en[x].owner
  BY Zenon, <1>3, <1>7 DEF Entry, Holder
<1>12. \A x \in 1..n : x \in es => ~z[x].cpend
  BY Zenon, <1>3, <1>7 DEF Entry, Holder
<1>13. \A x \in 1..n : x \in es => z[x].retired
  BY Zenon, <1>3, <1>7 DEF Entry, Holder
<1>14. \A x \in 1..n : x \in es => z[x].req
  BY Zenon, <1>3, <1>7 DEF Entry, Holder
<1>15. \A x \in 1..n : x \in es => z[x].holds = IF en[x].crun THEN en[x].holds ELSE en[x].holds \ {"cancel"}
  BY Zenon, <1>3, <1>7 DEF Entry, Holder
<1>16. /\ \A x \in 1..n : x \in es /\ en[x].crun => z[x].holds = en[x].holds
       /\ \A x \in 1..n : x \in es /\ ~en[x].crun => z[x].holds = en[x].holds \ {"cancel"}
  BY <1>15
<1>17. \A x \in 1..n : x \notin es => z[x] = en[x]
  BY Zenon, <1>7
<1> QED BY <1>6, <1>8, <1>9, <1>10, <1>11, <1>12, <1>13, <1>14, <1>16, <1>17 DEF Born

LEMMA CancelMarked ==
    ASSUME NEW en \in Seq(Entry), NEW es, NEW z, z = CancelMarks(en, es)
    PROVE  /\ Born(en, z)
           /\ \A x \in DOMAIN en : x \notin es => z[x] = en[x]
           /\ \A x \in DOMAIN en :
                 /\ z[x].crun = en[x].crun /\ z[x].retired = en[x].retired /\ z[x].owner = en[x].owner
                 /\ z[x].req = en[x].req
           /\ \A x \in DOMAIN en : x \in es => z[x].creq /\ z[x].cpend /\ z[x].holds = en[x].holds \union {"cancel"}
<1>1. PICK n \in Nat : en \in [1..n -> Entry]
  BY SeqDef
<1>2. z = [x \in 1..n |-> IF x \in es THEN [en[x] EXCEPT !.creq = TRUE, !.cpend = TRUE, !.cwait = TRUE, !.holds = @ \union {"cancel"}] ELSE en[x]]
  BY Zenon, <1>1 DEF CancelMarks, Change
<1>3. \A x \in 1..n : en[x] \in Entry
  BY <1>1
<1>4. \A x \in 1..n : [en[x] EXCEPT !.creq = TRUE, !.cpend = TRUE, !.cwait = TRUE, !.holds = @ \union {"cancel"}] \in Entry
  BY Zenon, <1>3 DEF Entry, Owner, Holder
<1>5. z \in [1..n -> Entry]
  BY Zenon, <1>2, <1>3, <1>4
<1>6. z \in Seq(Entry) /\ DOMAIN z = DOMAIN en /\ DOMAIN en = 1..n /\ Len(z) = Len(en)
  BY <1>1, <1>5, SeqDef
<1>7. \A x \in 1..n : z[x] = IF x \in es THEN [en[x] EXCEPT !.creq = TRUE, !.cpend = TRUE, !.cwait = TRUE, !.holds = @ \union {"cancel"}] ELSE en[x]
  BY Zenon, <1>2
<1>8. \A x \in 1..n : z[x].m = en[x].m /\ z[x].rt = en[x].rt /\ z[x].token = en[x].token /\ z[x].gen = en[x].gen
  <2>1. \A x \in 1..n : z[x].m = en[x].m
    BY Zenon, <1>3, <1>7 DEF Entry
  <2>2. \A x \in 1..n : z[x].rt = en[x].rt
    BY Zenon, <1>3, <1>7 DEF Entry
  <2>3. \A x \in 1..n : z[x].token = en[x].token
    BY Zenon, <1>3, <1>7 DEF Entry
  <2>4. \A x \in 1..n : z[x].gen = en[x].gen
    BY Zenon, <1>3, <1>7 DEF Entry
  <2> QED BY <2>1, <2>2, <2>3, <2>4
<1>9. \A x \in 1..n : z[x].crun = en[x].crun
  BY Zenon, <1>3, <1>7 DEF Entry, Holder
<1>10. \A x \in 1..n : z[x].retired = en[x].retired
  BY Zenon, <1>3, <1>7 DEF Entry, Holder
<1>11. \A x \in 1..n : z[x].owner = en[x].owner
  BY Zenon, <1>3, <1>7 DEF Entry, Holder
<1>12. \A x \in 1..n : z[x].req = en[x].req
  BY Zenon, <1>3, <1>7 DEF Entry, Holder
<1>13. \A x \in 1..n : x \in es => z[x].creq
  BY Zenon, <1>3, <1>7 DEF Entry, Holder
<1>14. \A x \in 1..n : x \in es => z[x].cpend
  BY Zenon, <1>3, <1>7 DEF Entry, Holder
<1>15. \A x \in 1..n : x \in es => z[x].holds = en[x].holds \union {"cancel"}
  BY Zenon, <1>3, <1>7 DEF Entry, Holder
<1> QED BY Zenon, <1>6, <1>7, <1>8, <1>9, <1>10, <1>11, <1>12, <1>13, <1>14, <1>15 DEF Born

LEMMA WaitOver ==
    ASSUME NEW en \in Seq(Entry), NEW es, NEW z, z = Change(en, es, LAMBDA y : [y EXCEPT !.cwait = FALSE])
    PROVE  /\ Born(en, z)
           /\ \A x \in DOMAIN en : x \notin es => z[x] = en[x]
           /\ \A x \in DOMAIN en :
                 /\ z[x].creq = en[x].creq /\ z[x].cpend = en[x].cpend /\ z[x].crun = en[x].crun
                 /\ z[x].retired = en[x].retired /\ z[x].owner = en[x].owner /\ z[x].req = en[x].req
                 /\ z[x].holds = en[x].holds
<1>1. PICK n \in Nat : en \in [1..n -> Entry]
  BY SeqDef
<1>2. z = [x \in 1..n |-> IF x \in es THEN [en[x] EXCEPT !.cwait = FALSE] ELSE en[x]]
  BY <1>1 DEF Change
<1>3. \A x \in 1..n : en[x] \in Entry
  BY <1>1
<1>4. \A x \in 1..n : [en[x] EXCEPT !.cwait = FALSE] \in Entry
  BY Zenon, <1>3 DEF Entry, Owner, Holder
<1>5. z \in [1..n -> Entry]
  BY <1>2, <1>3, <1>4
<1>6. z \in Seq(Entry) /\ DOMAIN z = DOMAIN en /\ DOMAIN en = 1..n /\ Len(z) = Len(en)
  BY <1>1, <1>5, SeqDef
<1>7. \A x \in 1..n : z[x] = IF x \in es THEN [en[x] EXCEPT !.cwait = FALSE] ELSE en[x]
  BY <1>2
<1>8. \A x \in 1..n : z[x].m = en[x].m /\ z[x].rt = en[x].rt /\ z[x].token = en[x].token /\ z[x].gen = en[x].gen
  <2>1. \A x \in 1..n : z[x].m = en[x].m
    BY <1>3, <1>7 DEF Entry
  <2>2. \A x \in 1..n : z[x].rt = en[x].rt
    BY <1>3, <1>7 DEF Entry
  <2>3. \A x \in 1..n : z[x].token = en[x].token
    BY <1>3, <1>7 DEF Entry
  <2>4. \A x \in 1..n : z[x].gen = en[x].gen
    BY <1>3, <1>7 DEF Entry
  <2> QED BY <2>1, <2>2, <2>3, <2>4
<1>9. \A x \in 1..n : z[x].creq = en[x].creq
  BY <1>3, <1>7 DEF Entry, Holder
<1>10. \A x \in 1..n : z[x].cpend = en[x].cpend
  BY <1>3, <1>7 DEF Entry, Holder
<1>11. \A x \in 1..n : z[x].crun = en[x].crun
  BY <1>3, <1>7 DEF Entry, Holder
<1>12. \A x \in 1..n : z[x].retired = en[x].retired
  BY <1>3, <1>7 DEF Entry, Holder
<1>13. \A x \in 1..n : z[x].owner = en[x].owner
  BY <1>3, <1>7 DEF Entry, Holder
<1>14. \A x \in 1..n : z[x].req = en[x].req
  BY <1>3, <1>7 DEF Entry, Holder
<1>15. \A x \in 1..n : z[x].holds = en[x].holds
  BY <1>3, <1>7 DEF Entry, Holder
<1> QED BY <1>6, <1>7, <1>8, <1>9, <1>10, <1>11, <1>12, <1>13, <1>14, <1>15 DEF Born

LEMMA RunBegun ==
    ASSUME NEW en \in Seq(Entry), NEW es, NEW z, z = Change(en, es, LAMBDA y : [y EXCEPT !.crun = TRUE])
    PROVE  /\ Born(en, z)
           /\ \A x \in DOMAIN en : x \notin es => z[x] = en[x]
           /\ \A x \in DOMAIN en :
                 /\ z[x].creq = en[x].creq /\ z[x].cpend = en[x].cpend /\ z[x].retired = en[x].retired
                 /\ z[x].owner = en[x].owner /\ z[x].req = en[x].req /\ z[x].holds = en[x].holds
           /\ \A x \in DOMAIN en : x \in es => z[x].crun
<1>1. PICK n \in Nat : en \in [1..n -> Entry]
  BY SeqDef
<1>2. z = [x \in 1..n |-> IF x \in es THEN [en[x] EXCEPT !.crun = TRUE] ELSE en[x]]
  BY <1>1 DEF Change
<1>3. \A x \in 1..n : en[x] \in Entry
  BY <1>1
<1>4. \A x \in 1..n : [en[x] EXCEPT !.crun = TRUE] \in Entry
  BY Zenon, <1>3 DEF Entry, Owner, Holder
<1>5. z \in [1..n -> Entry]
  BY <1>2, <1>3, <1>4
<1>6. z \in Seq(Entry) /\ DOMAIN z = DOMAIN en /\ DOMAIN en = 1..n /\ Len(z) = Len(en)
  BY <1>1, <1>5, SeqDef
<1>7. \A x \in 1..n : z[x] = IF x \in es THEN [en[x] EXCEPT !.crun = TRUE] ELSE en[x]
  BY <1>2
<1>8. \A x \in 1..n : z[x].m = en[x].m /\ z[x].rt = en[x].rt /\ z[x].token = en[x].token /\ z[x].gen = en[x].gen
  <2>1. \A x \in 1..n : z[x].m = en[x].m
    BY <1>3, <1>7 DEF Entry
  <2>2. \A x \in 1..n : z[x].rt = en[x].rt
    BY <1>3, <1>7 DEF Entry
  <2>3. \A x \in 1..n : z[x].token = en[x].token
    BY <1>3, <1>7 DEF Entry
  <2>4. \A x \in 1..n : z[x].gen = en[x].gen
    BY <1>3, <1>7 DEF Entry
  <2> QED BY <2>1, <2>2, <2>3, <2>4
<1>9. \A x \in 1..n : z[x].creq = en[x].creq
  BY <1>3, <1>7 DEF Entry, Holder
<1>10. \A x \in 1..n : z[x].cpend = en[x].cpend
  BY <1>3, <1>7 DEF Entry, Holder
<1>11. \A x \in 1..n : z[x].retired = en[x].retired
  BY <1>3, <1>7 DEF Entry, Holder
<1>12. \A x \in 1..n : z[x].owner = en[x].owner
  BY <1>3, <1>7 DEF Entry, Holder
<1>13. \A x \in 1..n : z[x].req = en[x].req
  BY <1>3, <1>7 DEF Entry, Holder
<1>14. \A x \in 1..n : z[x].holds = en[x].holds
  BY <1>3, <1>7 DEF Entry, Holder
<1>15. \A x \in 1..n : x \in es => z[x].crun
  BY <1>3, <1>7 DEF Entry, Holder
<1> QED BY <1>6, <1>7, <1>8, <1>9, <1>10, <1>11, <1>12, <1>13, <1>14, <1>15 DEF Born

LEMMA HalfMarked ==
    ASSUME NEW en \in Seq(Entry), NEW es, NEW z, z = Change(en, es, LAMBDA y : [y EXCEPT !.creq = TRUE, !.cpend = TRUE])
    PROVE  /\ Born(en, z)
           /\ \A x \in DOMAIN en : x \notin es => z[x] = en[x]
           /\ \A x \in DOMAIN en :
                 /\ z[x].crun = en[x].crun /\ z[x].retired = en[x].retired /\ z[x].owner = en[x].owner
                 /\ z[x].req = en[x].req /\ z[x].holds = en[x].holds
           /\ \A x \in DOMAIN en : x \in es => z[x].creq /\ z[x].cpend
<1>1. PICK n \in Nat : en \in [1..n -> Entry]
  BY SeqDef
<1>2. z = [x \in 1..n |-> IF x \in es THEN [en[x] EXCEPT !.creq = TRUE, !.cpend = TRUE] ELSE en[x]]
  BY Zenon, <1>1 DEF Change
<1>3. \A x \in 1..n : en[x] \in Entry
  BY <1>1
<1>4. \A x \in 1..n : [en[x] EXCEPT !.creq = TRUE, !.cpend = TRUE] \in Entry
  BY Zenon, <1>3 DEF Entry, Owner, Holder
<1>5. z \in [1..n -> Entry]
  BY Zenon, <1>2, <1>3, <1>4
<1>6. z \in Seq(Entry) /\ DOMAIN z = DOMAIN en /\ DOMAIN en = 1..n /\ Len(z) = Len(en)
  BY <1>1, <1>5, SeqDef
<1>7. \A x \in 1..n : z[x] = IF x \in es THEN [en[x] EXCEPT !.creq = TRUE, !.cpend = TRUE] ELSE en[x]
  BY Zenon, <1>2
<1>8. \A x \in 1..n : z[x].m = en[x].m /\ z[x].rt = en[x].rt /\ z[x].token = en[x].token /\ z[x].gen = en[x].gen
  <2>1. \A x \in 1..n : z[x].m = en[x].m
    BY Zenon, <1>3, <1>7 DEF Entry
  <2>2. \A x \in 1..n : z[x].rt = en[x].rt
    BY Zenon, <1>3, <1>7 DEF Entry
  <2>3. \A x \in 1..n : z[x].token = en[x].token
    BY Zenon, <1>3, <1>7 DEF Entry
  <2>4. \A x \in 1..n : z[x].gen = en[x].gen
    BY Zenon, <1>3, <1>7 DEF Entry
  <2> QED BY <2>1, <2>2, <2>3, <2>4
<1>9. \A x \in 1..n : z[x].crun = en[x].crun
  BY Zenon, <1>3, <1>7 DEF Entry, Holder
<1>10. \A x \in 1..n : z[x].retired = en[x].retired
  BY Zenon, <1>3, <1>7 DEF Entry, Holder
<1>11. \A x \in 1..n : z[x].owner = en[x].owner
  BY Zenon, <1>3, <1>7 DEF Entry, Holder
<1>12. \A x \in 1..n : z[x].req = en[x].req
  BY Zenon, <1>3, <1>7 DEF Entry, Holder
<1>13. \A x \in 1..n : z[x].holds = en[x].holds
  BY Zenon, <1>3, <1>7 DEF Entry, Holder
<1>14. \A x \in 1..n : x \in es => z[x].creq
  BY Zenon, <1>3, <1>7 DEF Entry, Holder
<1>15. \A x \in 1..n : x \in es => z[x].cpend
  BY Zenon, <1>3, <1>7 DEF Entry, Holder
<1> QED BY Zenon, <1>6, <1>7, <1>8, <1>9, <1>10, <1>11, <1>12, <1>13, <1>14, <1>15 DEF Born
-----------------------------------------------------------------------------
(***************************************************************************)
(* Sequences of entry numbers, and the sets of their elements.             *)
(***************************************************************************)
LEMMA EmptySet == ToSet(<<>>) = {} /\ Rising(<<>>)
  BY DEF ToSet, Rising

LEMMA SetOf ==
    ASSUME NEW S, NEW s \in Seq(S)
    PROVE  /\ Len(s) \in Nat /\ DOMAIN s = 1 .. Len(s)
           /\ ToSet(s) \subseteq S
           /\ \A i \in DOMAIN s : s[i] \in ToSet(s)
           /\ \A x \in ToSet(s) : \E i \in DOMAIN s : s[i] = x
           /\ s = <<>> <=> ToSet(s) = {}
<1>1. Len(s) \in Nat /\ DOMAIN s = 1 .. Len(s)
  OBVIOUS
<1>2. \A i \in DOMAIN s : s[i] \in ToSet(s) /\ s[i] \in S
  BY DEF ToSet
<1>3. \A x \in ToSet(s) : \E i \in DOMAIN s : s[i] = x
  BY DEF ToSet
<1>4. s = <<>> <=> ToSet(s) = {}
  <2>1. ASSUME s # <<>> PROVE 1 \in DOMAIN s
    BY <2>1
  <2>2. s = <<>> => ToSet(s) = {}
    BY EmptySet
  <2> QED BY <1>2, <2>1, <2>2
<1> QED BY <1>1, <1>2, <1>3, <1>4

LEMMA ConcatSet ==
    ASSUME NEW S, NEW s \in Seq(S), NEW u \in Seq(S)
    PROVE  s \o u \in Seq(S) /\ ToSet(s \o u) = ToSet(s) \union ToSet(u)
<1>2. PICK m \in Nat, n \in Nat : m = Len(s) /\ n = Len(u)
  OBVIOUS
<1>3. /\ s \o u \in Seq(S) /\ Len(s \o u) = m + n
      /\ \A i \in 1 .. m + n : (s \o u)[i] = IF i <= m THEN s[i] ELSE u[i - m]
  BY <1>2
<1>4. DOMAIN s = 1 .. m /\ DOMAIN u = 1 .. n /\ DOMAIN (s \o u) = 1 .. m + n
  BY <1>2, <1>3
<1>5. ToSet(s \o u) \subseteq ToSet(s) \union ToSet(u)
  BY <1>3, <1>4 DEF ToSet
<1>6. ToSet(s) \subseteq ToSet(s \o u)
  <2> SUFFICES ASSUME NEW i \in 1 .. m PROVE s[i] \in ToSet(s \o u)
    BY <1>4 DEF ToSet
  <2>1. i \in 1 .. m + n /\ (s \o u)[i] = s[i]
    BY <1>3
  <2> QED BY <1>4, <2>1 DEF ToSet
<1>7. ToSet(u) \subseteq ToSet(s \o u)
  <2> SUFFICES ASSUME NEW i \in 1 .. n PROVE u[i] \in ToSet(s \o u)
    BY <1>4 DEF ToSet
  <2>1. i + m \in 1 .. m + n /\ ~(i + m <= m) /\ (i + m) - m = i
    BY <1>2
  <2>2. (s \o u)[i + m] = u[i]
    BY <1>3, <2>1
  <2> QED BY <1>4, <2>1, <2>2 DEF ToSet
<1> QED BY <1>3, <1>5, <1>6, <1>7

LEMMA ConcatRising ==
    ASSUME NEW s \in Seq(Nat), NEW u \in Seq(Nat), Rising(s), Rising(u), Below(ToSet(s), ToSet(u))
    PROVE  Rising(s \o u)
<1>2. PICK m \in Nat, n \in Nat : m = Len(s) /\ n = Len(u)
  OBVIOUS
<1>3. /\ DOMAIN (s \o u) = 1 .. m + n /\ DOMAIN s = 1 .. m /\ DOMAIN u = 1 .. n
      /\ \A i \in 1 .. m + n : (s \o u)[i] = IF i <= m THEN s[i] ELSE u[i - m]
  BY <1>2
<1>4. SUFFICES ASSUME NEW i \in 1 .. m + n, NEW j \in 1 .. m + n, i < j
               PROVE  (s \o u)[i] < (s \o u)[j]
  BY <1>3 DEF Rising
<1>5. CASE j <= m
  <2>1. i \in 1 .. m /\ j \in 1 .. m /\ i <= m
    BY <1>4, <1>5
  <2>2. s[i] < s[j]
    BY <1>3, <1>4, <2>1 DEF Rising
  <2>3. (s \o u)[i] = s[i] /\ (s \o u)[j] = s[j]
    BY <1>3, <1>5, <2>1
  <2> QED BY <2>2, <2>3
<1>6. CASE i > m
  <2>1. i - m \in 1 .. n /\ j - m \in 1 .. n /\ i - m < j - m
    BY <1>4, <1>6
  <2>2. u[i - m] < u[j - m]
    BY <1>3, <2>1 DEF Rising
  <2> QED BY <1>3, <1>4, <1>6, <2>2
<1>7. CASE i <= m /\ j > m
  <2>1. i \in 1 .. m /\ j - m \in 1 .. n
    BY <1>7
  <2>2. s[i] \in ToSet(s) /\ u[j - m] \in ToSet(u)
    BY <1>3, <2>1 DEF ToSet
  <2>3. s[i] < u[j - m]
    BY <2>2 DEF Below
  <2>4. (s \o u)[i] = s[i] /\ (s \o u)[j] = u[j - m]
    BY <1>3, <1>7
  <2> QED BY <2>3, <2>4
<1>8. j <= m \/ i > m \/ (i <= m /\ j > m)
  BY <1>4
<1> QED BY <1>5, <1>6, <1>7, <1>8

LEMMA AppendSet ==
    ASSUME NEW S, NEW s \in Seq(S), NEW x \in S
    PROVE  Append(s, x) \in Seq(S) /\ ToSet(Append(s, x)) = ToSet(s) \union {x}
<1>1. Append(s, x) = s \o <<x>>
  BY AppendIsConcat
<1>2. <<x>> \in Seq(S)
  OBVIOUS
<1>3. ToSet(<<x>>) = {x}
  BY DEF ToSet
<1>4. PICK u \in Seq(S) : u = <<x>>
  BY <1>2
<1>5. s \o u \in Seq(S) /\ ToSet(s \o u) = ToSet(s) \union ToSet(u)
  BY ConcatSet
<1> QED BY <1>1, <1>3, <1>4, <1>5

LEMMA AppendRising ==
    ASSUME NEW s \in Seq(Nat), NEW x \in Nat, Rising(s), \A y \in ToSet(s) : y < x
    PROVE  Rising(Append(s, x))
<1>1. Append(s, x) = s \o <<x>>
  BY AppendIsConcat
<1>2. <<x>> \in Seq(Nat) /\ ToSet(<<x>>) = {x} /\ Rising(<<x>>)
  BY DEF ToSet, Rising
<1>3. Below(ToSet(s), ToSet(<<x>>))
  BY <1>2 DEF Below
<1> QED BY <1>1, <1>2, <1>3, ConcatRising

LEMMA TailFacts ==
    ASSUME NEW S, NEW s \in Seq(S), s # <<>>
    PROVE  /\ Tail(s) \in Seq(S) /\ Head(s) = s[1] /\ 1 \in DOMAIN s /\ Head(s) \in S
           /\ \A i \in DOMAIN Tail(s) : i \in Nat /\ i + 1 \in DOMAIN s /\ Tail(s)[i] = s[i + 1]
           /\ \A j \in DOMAIN s : j # 1 => j - 1 \in DOMAIN Tail(s) /\ Tail(s)[j - 1] = s[j]
<1>1. PICK n \in Nat : n = Len(s)
  OBVIOUS
<1>2. n >= 1 /\ DOMAIN s = 1 .. n /\ Head(s) = s[1]
  BY <1>1
<1>3. /\ Tail(s) \in Seq(S) /\ DOMAIN Tail(s) = 1 .. n - 1
      /\ \A i \in 1 .. n - 1 : Tail(s)[i] = s[i + 1]
  BY <1>1, <1>2
<1>4. \A i \in 1 .. n - 1 : i + 1 \in 1 .. n
  BY <1>2
<1>5. \A j \in 1 .. n : j # 1 => j - 1 \in 1 .. n - 1 /\ (j - 1) + 1 = j
  BY <1>2
<1> QED BY <1>2, <1>3, <1>4, <1>5

(***************************************************************************)
(* InOrder(es) is the rising sequence of es.                               *)
(***************************************************************************)
Place(es, e) == Cardinality({x \in es : x <= e})

LEMMA PlaceFacts ==
    ASSUME NEW n \in Nat, NEW K \in SUBSET (1 .. n)
    PROVE  /\ IsFiniteSet(K) /\ Cardinality(K) \in Nat
           /\ \A k \in K : Place(K, k) \in 1 .. Cardinality(K)
           /\ \A k, l \in K : k < l => Place(K, k) < Place(K, l)
<1>0. IsFiniteSet(1 .. n)
  BY FS_Interval
<1>1. IsFiniteSet(K) /\ Cardinality(K) \in Nat
  BY <1>0, FS_Subset, FS_CardinalityType
<1>2. ASSUME NEW k \in K PROVE Place(K, k) \in 1 .. Cardinality(K)
  <2>1. PICK S : S = {j \in K : j <= k}
    OBVIOUS
  <2>2. S \in SUBSET K /\ k \in S
    BY <2>1
  <2>3. IsFiniteSet(S) /\ Cardinality(S) \in Nat /\ Cardinality(S) <= Cardinality(K)
    BY <1>1, <2>2, FS_Subset, FS_CardinalityType
  <2>4. Cardinality(S) # 0
    BY <2>2, <2>3, FS_EmptySet
  <2> QED BY <1>1, <2>1, <2>3, <2>4 DEF Place
<1>3. ASSUME NEW k \in K, NEW l \in K, k < l PROVE Place(K, k) < Place(K, l)
  <2>1. PICK S, R : S = {j \in K : j <= k} /\ R = {j \in K : j <= l}
    OBVIOUS
  <2>0. k \in Int /\ l \in Int /\ \A j \in K : j \in Int
    OBVIOUS
  <2>5. l \in R /\ l \notin S
    BY <1>3, <2>0, <2>1
  <2>6. S \in SUBSET R /\ R \in SUBSET K
    <3>1. ASSUME NEW j \in K, j <= k PROVE j <= l
      BY <1>3, <2>0, <3>1
    <3> QED BY <2>1, <3>1
  <2>2. S \in SUBSET R /\ S # R /\ R \in SUBSET K
    BY <2>5, <2>6
  <2>3. IsFiniteSet(R)
    BY <1>1, <2>2, FS_Subset
  <2>4. Cardinality(S) \in Nat /\ Cardinality(R) \in Nat /\ Cardinality(S) <= Cardinality(R) /\ Cardinality(S) # Cardinality(R)
    <3>1. IsFiniteSet(S) /\ Cardinality(S) <= Cardinality(R) /\ Cardinality(S) # Cardinality(R)
      BY <2>2, <2>3, FS_Subset
    <3> QED BY <2>3, <3>1, FS_CardinalityType
  <2> QED BY <2>1, <2>4 DEF Place
<1> QED BY <1>1, <1>2, <1>3

LEMMA InOrderFacts ==
    ASSUME NEW n \in Nat, NEW K \in SUBSET (1 .. n)
    PROVE  InOrder(K) \in Seq(Nat) /\ Rising(InOrder(K)) /\ ToSet(InOrder(K)) = K
<1>1. PICK c \in Nat : c = Cardinality(K)
  BY PlaceFacts
<1>2. /\ IsFiniteSet(K)
      /\ \A k \in K : Place(K, k) \in 1 .. c
      /\ \A k, l \in K : k < l => Place(K, k) < Place(K, l)
  BY <1>1, PlaceFacts
<1>3. ASSUME NEW k \in K, NEW l \in K, Place(K, k) = Place(K, l) PROVE k = l
  BY <1>2, <1>3
<1>4. PICK f : f = [k \in K |-> Place(K, k)]
  OBVIOUS
<1>5. f \in Injection(K, 1 .. c)
  <2>1. f \in [K -> 1 .. c]
    BY <1>2, <1>4
  <2>2. \A k, l \in K : f[k] = f[l] => k = l
    BY <1>3, <1>4
  <2> QED BY <2>1, <2>2 DEF Injection, IsInjective
<1>6. IsFiniteSet(1 .. c) /\ Cardinality(1 .. c) = c
  BY FS_Interval
<1>7. f \in Surjection(K, 1 .. c)
  BY <1>1, <1>5, <1>6, FS_Injection
<1>8. ASSUME NEW m \in 1 .. c PROVE \E k \in K : Place(K, k) = m
  <2>1. \E k \in K : f[k] = m
    BY <1>7 DEF Surjection
  <2> QED BY <1>4, <2>1
<1>9. PICK t : t = InOrder(K)
  OBVIOUS
<1>10. t = [m \in 1 .. c |-> CHOOSE e \in K : Place(K, e) = m]
  BY <1>1, <1>9 DEF InOrder, Place
<1>11. ASSUME NEW m \in 1 .. c PROVE t[m] \in K /\ Place(K, t[m]) = m
  BY <1>8, <1>10
<1>12. t \in Seq(Nat) /\ DOMAIN t = 1 .. c
  <2>0. \A k \in K : k \in Nat
    OBVIOUS
  <2>1. t \in [1 .. c -> Nat]
    BY <1>10, <1>11, <2>0
  <2> QED BY <2>1
<1>13. Rising(t)
  <2> SUFFICES ASSUME NEW i \in 1 .. c, NEW j \in 1 .. c, i < j PROVE t[i] < t[j]
    BY <1>12 DEF Rising
  <2>1. t[i] \in K /\ t[j] \in K /\ Place(K, t[i]) = i /\ Place(K, t[j]) = j
    BY <1>11
  <2>2. t[i] \in Nat /\ t[j] \in Nat
    BY <1>12
  <2>3. CASE t[j] < t[i]
    <3>1. Place(K, t[j]) < Place(K, t[i])
      BY <1>2, <2>1, <2>3
    <3> QED BY <2>1, <3>1
  <2>4. CASE t[j] = t[i]
    BY <2>1, <2>4
  <2> QED BY <2>2, <2>3, <2>4
<1>14. ASSUME NEW k \in K PROVE k \in ToSet(t)
  <2>1. PICK m \in 1 .. c : m = Place(K, k)
    BY <1>2
  <2>2. t[m] = k
    BY <1>3, <1>11, <2>1
  <2> QED BY <1>12, <2>1, <2>2 DEF ToSet
<1>15. ToSet(t) = K
  BY <1>11, <1>12, <1>14 DEF ToSet
<1> QED BY <1>9, <1>12, <1>13, <1>15

-----------------------------------------------------------------------------
(***************************************************************************)
(* Steps that only concern the store leave the pipeline alone.             *)
(***************************************************************************)
piped == <<debouncer, flush, cancel, dispatcher, runtime, ran, stops, broken>>

LEMMA PipeFrame == PipeInv /\ UNCHANGED piped => PipeInv'
<1> SUFFICES ASSUME PipeInv, UNCHANGED piped PROVE PipeInv'
  OBVIOUS
<1>1. UNCHANGED <<ent, waiting, queued, gen, inflight, ids, flush, cancel, pending, turn, rt, live, token, ran, stops, broken>>
  BY DEF piped, debouncer, dispatcher, runtime
<1>2. /\ UNCHANGED <<Begun, Starting, Buffer, Window, Given>>
      /\ \A r : Batch(r)' = Batch(r) /\ Rest(r)' = Rest(r) /\ Current(r)' = Current(r)
      /\ \A b : BatchAt(b)' = BatchAt(b)
      /\ \A c : Marked(c)' = Marked(c)
      /\ \A r, e : (Offered(r, e)' <=> Offered(r, e)) /\ (Unoffered(r, e)' <=> Unoffered(r, e))
      /\ \A e : IsActive(e)' <=> IsActive(e)
  BY <1>1 DEF Begun, Starting, Buffer, Window, Given, Batch, Rest, BatchAt, Marked, Offered, Unoffered, Current, IsActive
<1>3. Types' /\ FlushTypes' /\ CancelTypes' /\ TurnTypes' /\ RisingInv' /\ OfferAlwaysFits'
  BY <1>1 DEF PipeInv, Types, FlushTypes, FlushFields, CancelTypes, TurnTypes, RisingInv, OfferAlwaysFits
<1>4. OrderInv' /\ WaitingInv' /\ QueuedInv' /\ PendingInv'
  BY Zenon, <1>1, <1>2 DEF PipeInv, OrderInv, WaitingInv, QueuedInv, QueuedAt, PendingInv
<1>5. FlushInv'
  BY <1>1, <1>2 DEF PipeInv, FlushInv, FlushAt
<1>6. IdsInv' /\ InflightInv' /\ CancelInv'
  BY <1>1, <1>2 DEF PipeInv, IdsInv, StopCompletes, InflightInv, CancelInv, CancelAt
<1> QED BY <1>3, <1>4, <1>5, <1>6 DEF PipeInv

LEMMA RestFacts ==
    ASSUME FlushTypes, NEW r \in Runtime
    PROVE  /\ Rest(r) \subseteq Batch(r)
           /\ flush[r].i <= Len(flush[r].batch) => Current(r) \in Rest(r)
<1>1. flush[r].batch \in Seq(Nat) /\ flush[r].i \in Nat \ {0}
  BY DEF FlushTypes, FlushFields
<1>2. DOMAIN flush[r].batch = 1 .. Len(flush[r].batch) /\ Len(flush[r].batch) \in Nat
  BY <1>1
<1>3. Rest(r) \subseteq Batch(r)
  BY <1>1 DEF Rest, Batch, ToSet
<1>4. flush[r].i <= Len(flush[r].batch) => Current(r) \in Rest(r)
  BY <1>1, <1>2 DEF Rest, Current
<1> QED BY <1>3, <1>4

LEMMA PushRetainedPipe == ASSUME PipeInv, NEW m \in Msg, PushRetained(m) PROVE PipeInv'
<1>1. /\ Types /\ FlushTypes /\ CancelTypes /\ TurnTypes /\ RisingInv /\ OrderInv /\ WaitingInv
      /\ QueuedInv /\ FlushInv /\ IdsInv /\ InflightInv /\ CancelInv /\ PendingInv /\ OfferAlwaysFits
  BY DEF PipeInv
<1>2. /\ live /\ ent' = Append(ent, NewEntry(m)) /\ waiting' = Append(waiting, Len(ent) + 1)
      /\ ids' = ids \union ({m} \ IdLess)
      /\ UNCHANGED <<queued, gen, inflight, flush, cancel, pending, turn, rt, live, token, ran, stops, broken>>
  BY DEF PushRetained, Arrive, runtime, dispatcher, history
<1>3. PICK n : n = Len(ent) + 1
  OBVIOUS
<1>4. NewEntry(m) \in Entry
  BY <1>1 DEF NewEntry, Types, Entry, Owner, Holder, Runtime
<1>5. /\ n \in Nat /\ n \notin DOMAIN ent /\ \A x \in DOMAIN ent : x < n
      /\ ent' \in Seq(Entry) /\ DOMAIN ent' = DOMAIN ent \union {n}
      /\ ent'[n] = NewEntry(m) /\ \A x \in DOMAIN ent : ent'[x] = ent[x]
  <2>1. /\ n \in Nat /\ n \notin DOMAIN ent /\ \A x \in DOMAIN ent : x < n
    BY <1>1, <1>3 DEF Types
  <2>2. ent' \in Seq(Entry) /\ DOMAIN ent' = DOMAIN ent \union {n}
    BY <1>1, <1>2, <1>3, <1>4 DEF Types
  <2>3. ent'[n] = NewEntry(m) /\ \A x \in DOMAIN ent : ent'[x] = ent[x]
    BY <1>1, <1>2, <1>3, <1>4 DEF Types
  <2> QED BY <2>1, <2>2, <2>3
<1>6. /\ ent'[n].m = m /\ ent'[n].rt = rt /\ ent'[n].token = token /\ ent'[n].gen = gen
      /\ ~ent'[n].creq /\ ~ent'[n].req /\ ~ent'[n].cpend /\ ~ent'[n].crun /\ ent'[n].holds = {} /\ ~ent'[n].retired
      /\ ent'[n].owner # "pending"
  BY <1>5 DEF NewEntry
<1>7. waiting' \in Seq(Nat) /\ Window' = Window \union {n} /\ Rising(waiting)'
  <2>1. \A y \in Window : y < n
    BY <1>1, <1>5 DEF OrderInv
  <2>2. waiting \in Seq(Nat) /\ Rising(waiting) /\ \A y \in ToSet(waiting) : y < n
    BY <1>1, <2>1 DEF Types, RisingInv, Window
  <2>3. Append(waiting, n) \in Seq(Nat) /\ ToSet(Append(waiting, n)) = ToSet(waiting) \union {n}
    BY <1>5, <2>2, AppendSet
  <2>4. Rising(Append(waiting, n))
    BY <1>5, <2>2, AppendRising
  <2> QED BY <1>2, <1>3, <2>3, <2>4 DEF Window, Rising
<1>8. /\ UNCHANGED <<Begun, Starting, Buffer, Given>>
      /\ \A r : Batch(r)' = Batch(r) /\ Rest(r)' = Rest(r) /\ Current(r)' = Current(r)
      /\ \A b : BatchAt(b)' = BatchAt(b)
      /\ \A c : Marked(c)' = Marked(c)
      /\ \A r, e : (Offered(r, e)' <=> Offered(r, e)) /\ (Unoffered(r, e)' <=> Unoffered(r, e))
  BY <1>2 DEF Begun, Starting, Buffer, Given, Batch, Rest, BatchAt, Marked, Offered, Unoffered, Current
<1>9. \A e \in DOMAIN ent : IsActive(e)' <=> IsActive(e)
  BY <1>2, <1>5 DEF IsActive
<1>10. Types'
  BY <1>1, <1>2, <1>5, <1>7 DEF Types
<1>11. FlushTypes' /\ CancelTypes' /\ TurnTypes' /\ RisingInv' /\ OfferAlwaysFits'
  BY <1>1, <1>2, <1>5, <1>7 DEF FlushTypes, FlushFields, CancelTypes, TurnTypes, RisingInv, OfferAlwaysFits
<1>12. OrderInv'
  BY <1>1, <1>2, <1>5, <1>7, <1>8 DEF OrderInv, Below, Types
<1>13. WaitingInv'
  BY <1>1, <1>2, <1>5, <1>6, <1>7 DEF WaitingInv, OrderInv, Types
<1>14. QueuedInv' /\ PendingInv'
  BY <1>1, <1>2, <1>5, <1>8 DEF QueuedInv, QueuedAt, OrderInv, PendingInv, Given
<1>15. FlushInv'
  BY <1>1, <1>2, <1>5, <1>8, <1>9, RestFacts DEF FlushInv, FlushAt, OrderInv
<1>16. IdsInv'
  <2> SUFFICES ASSUME StopCompletes', NEW x \in ids' PROVE \E e \in (inflight \union Window)' : ent'[e].m = x
    BY DEF IdsInv
  <2>1. CASE x \in ids
    <3>1. PICK e \in inflight \union Window : ent[e].m = x
      BY <1>1, <1>2, <2>1 DEF IdsInv, StopCompletes
    <3>2. ent'[e] = ent[e] /\ e \in (inflight \union Window)'
      BY <1>1, <1>2, <1>5, <1>7 DEF Types, OrderInv
    <3> QED BY <3>1, <3>2
  <2>2. CASE x = m
    BY <1>6, <1>7, <2>2
  <2> QED BY <1>2, <2>1, <2>2
<1>18. InflightInv'
  BY <1>1, <1>2, <1>5, <1>6, <1>7, <1>8 DEF InflightInv, OrderInv, Types
<1>17. CancelInv'
  BY <1>1, <1>2, <1>5, <1>8 DEF CancelInv, CancelAt, CancelTypes, Marked
<1> QED BY <1>10, <1>11, <1>12, <1>13, <1>14, <1>15, <1>16, <1>17, <1>18 DEF PipeInv

LEMMA Located ==
    ASSUME PipeInv
    PROVE  /\ rt \in Runtime /\ rt \in Nat /\ \A r \in Runtime : r \in Nat
           /\ inflight \subseteq DOMAIN ent /\ Window \subseteq DOMAIN ent /\ Begun \subseteq DOMAIN ent
           /\ Starting \subseteq DOMAIN ent /\ Buffer \subseteq DOMAIN ent
           /\ \A b \in DOMAIN queued : BatchAt(b) \subseteq DOMAIN ent
           /\ \A r \in Runtime : Batch(r) \subseteq DOMAIN ent /\ Rest(r) \subseteq DOMAIN ent
           /\ \A c \in StopNo : Marked(c) \subseteq DOMAIN ent
           /\ \A x \in DOMAIN ent : x \in Nat
<1>1. rt \in Runtime /\ rt \in Nat /\ \A r \in Runtime : r \in Nat
  BY DEF PipeInv, Types, Runtime
<1>2. inflight \subseteq DOMAIN ent /\ \A x \in DOMAIN ent : x \in Nat
  BY DEF PipeInv, Types
<1>3. /\ Window \subseteq DOMAIN ent /\ Begun \subseteq DOMAIN ent
      /\ Starting \subseteq DOMAIN ent /\ Buffer \subseteq DOMAIN ent
      /\ \A b \in DOMAIN queued : BatchAt(b) \subseteq DOMAIN ent
      /\ \A r \in Runtime : Batch(r) \subseteq DOMAIN ent
  BY DEF PipeInv, OrderInv, Given
<1>4. \A r \in Runtime : Rest(r) \subseteq Batch(r)
  BY RestFacts DEF PipeInv
<1>5. \A c \in StopNo : Marked(c) \subseteq DOMAIN ent
  BY DEF PipeInv, CancelTypes, Marked
<1> QED BY <1>1, <1>2, <1>3, <1>4, <1>5

LEMMA FlushViews ==
    ASSUME flush' = flush
    PROVE  /\ \A r : Batch(r)' = Batch(r) /\ Rest(r)' = Rest(r) /\ Current(r)' = Current(r)
           /\ \A r, e : (Offered(r, e)' <=> Offered(r, e)) /\ (Unoffered(r, e)' <=> Unoffered(r, e))
  BY DEF Batch, Rest, Current, Offered, Unoffered

LEMMA CancelViews == ASSUME cancel' = cancel PROVE \A c : Marked(c)' = Marked(c)
  BY DEF Marked

LEMMA QueueViews == ASSUME queued' = queued PROVE \A b : BatchAt(b)' = BatchAt(b)
  BY DEF BatchAt

LEMMA GivenViews ==
    ASSUME UNCHANGED <<ran, pending, turn>>
    PROVE  UNCHANGED <<Begun, Starting, Buffer, Given>>
  BY DEF Begun, Starting, Buffer, Given

LEMMA StartHandlerPipe == ASSUME PipeInv, StartHandler PROVE PipeInv'
<1>1. /\ Types /\ FlushTypes /\ CancelTypes /\ TurnTypes /\ RisingInv /\ OrderInv /\ WaitingInv
      /\ QueuedInv /\ FlushInv /\ IdsInv /\ InflightInv /\ CancelInv /\ PendingInv /\ OfferAlwaysFits
  BY DEF PipeInv
<1>2. /\ turn.pc = "starting" /\ turn' = [turn EXCEPT !.pc = "running"] /\ ran' = ran \o turn.ents
      /\ UNCHANGED <<ent, waiting, queued, gen, inflight, ids, flush, cancel, pending, rt, live, token, stops, broken>>
  BY DEF StartHandler, debouncer, runtime, counters
<1>3. turn'.pc = "running" /\ turn'.ents = turn.ents /\ turn' = [pc |-> turn'.pc, ents |-> turn'.ents]
  BY <1>1, <1>2 DEF TurnTypes
<1>4. ran' \in Seq(Nat) /\ Begun' = Begun \union Starting
  BY <1>1, <1>2, ConcatSet DEF Types, TurnTypes, Begun, Starting
<1>5. Rising(ran)'
  <2>1. Below(ToSet(ran), ToSet(turn.ents))
    BY <1>1, <1>2 DEF OrderInv, Begun, Starting
  <2>2. Rising(ran \o turn.ents)
    BY <1>1, <2>1, ConcatRising DEF Types, TurnTypes, RisingInv
  <2> QED BY <1>2, <2>2 DEF Rising
<1>6. Starting' = {} /\ Buffer' = Buffer /\ Given' = Given /\ Window' = Window
  BY <1>2, <1>3, <1>4 DEF Starting, Buffer, Given, Window
<1>7. /\ Types' /\ FlushTypes' /\ CancelTypes' /\ TurnTypes' /\ OfferAlwaysFits'
  BY <1>1, <1>2, <1>3, <1>4 DEF Types, FlushTypes, FlushFields, CancelTypes, TurnTypes, OfferAlwaysFits
<1>8. RisingInv'
  BY <1>1, <1>2, <1>3, <1>5 DEF RisingInv, Rising
<1>9. OrderInv'
  BY <1>1, <1>2, <1>4, <1>6, FlushViews, QueueViews DEF OrderInv, Below
<1>10. WaitingInv' /\ QueuedInv' /\ PendingInv' /\ IdsInv'
  BY <1>1, <1>2, <1>6, QueueViews DEF WaitingInv, QueuedInv, QueuedAt, PendingInv, IdsInv, StopCompletes
<1>11. FlushInv'
  BY <1>1, <1>2, FlushViews DEF FlushInv, FlushAt, IsActive
<1>12. InflightInv' /\ CancelInv'
  BY <1>1, <1>2, <1>6, FlushViews, QueueViews, CancelViews DEF InflightInv, CancelInv, CancelAt
<1> QED BY <1>7, <1>8, <1>9, <1>10, <1>11, <1>12 DEF PipeInv

LEMMA StartRuntimePipe == ASSUME PipeInv, StartRuntime PROVE PipeInv'
<1>1. /\ Types /\ FlushTypes /\ CancelTypes /\ TurnTypes /\ RisingInv /\ OrderInv /\ WaitingInv
      /\ QueuedInv /\ FlushInv /\ IdsInv /\ InflightInv /\ CancelInv /\ PendingInv /\ OfferAlwaysFits
  BY DEF PipeInv
<1>2. /\ ~live /\ rt < MaxRuntimes /\ live' = TRUE /\ rt' = rt + 1 /\ token' = token + 1
      /\ UNCHANGED <<ent, waiting, queued, gen, inflight, ids, flush, cancel, pending, turn, ran, stops, broken>>
  BY DEF StartRuntime, debouncer, dispatcher, counters, history
<1>3. Window = {} /\ Buffer = {} /\ inflight = {} /\ \A b \in DOMAIN queued : BatchAt(b) = {}
  BY <1>1, <1>2 DEF WaitingInv, PendingInv, InflightInv, QueuedInv, QueuedAt
<1>4. rt \in Nat /\ rt' \in Runtime /\ \A r \in Runtime : r \in Nat
  BY <1>1, <1>2, BoundsAssumption DEF Types, Runtime
<1>5. flush[rt'] = NoFlush /\ Batch(rt') = {} /\ \A e : ~Offered(rt', e)
  <2>1. flush[rt'] = NoFlush
    BY <1>1, <1>2, <1>4 DEF FlushTypes
  <2>2. Batch(rt') = {}
    BY <2>1, EmptySet DEF Batch, NoFlush
  <2>3. \A e : ~Offered(rt', e)
    BY <2>1 DEF Offered, NoFlush
  <2> QED BY <2>1, <2>2, <2>3
<1>6. Window' = Window
  BY <1>2 DEF Window
<1>7. Types' /\ CancelTypes' /\ TurnTypes' /\ RisingInv' /\ OfferAlwaysFits'
  BY <1>1, <1>2, <1>4 DEF Types, CancelTypes, TurnTypes, RisingInv, Rising, OfferAlwaysFits
<1>8. FlushTypes'
  BY <1>1, <1>2, <1>4 DEF FlushTypes, FlushFields
<1>9. OrderInv'
  <2>1. Batch(rt)' = {}
    BY <1>2, <1>5 DEF Batch
  <2>2. UNCHANGED <<Begun, Starting, Buffer, Given>>
    BY <1>2, GivenViews
  <2> QED BY <1>1, <1>2, <1>3, <1>6, <2>1, <2>2, FlushViews, QueueViews DEF OrderInv, Below
<1>10. WaitingInv' /\ QueuedInv' /\ PendingInv' /\ IdsInv'
  BY <1>1, <1>2, <1>3, <1>6, QueueViews, GivenViews DEF WaitingInv, QueuedInv, QueuedAt, PendingInv, IdsInv, StopCompletes
<1>11. FlushInv'
  <2> SUFFICES ASSUME NEW r \in Runtime, flush'[r].pc # "idle" PROVE FlushAt(r)'
    BY DEF FlushInv
  <2>0. flush[r].pc # "idle" /\ FlushAt(r)
    BY <1>1, <1>2 DEF FlushInv
  <2>1. r <= rt /\ r # rt' /\ r <= rt' /\ ~flush[r].intact
    BY <1>2, <1>4, <2>0 DEF FlushAt
  <2>2. \A e \in Batch(r) : ent[e].rt = r /\ ~IsActive(e)' /\ ~Offered(r, e)
    BY <1>2, <2>0, <2>1 DEF FlushAt, IsActive
  <2>3. Rest(r) \subseteq Batch(r)
    BY <1>1, RestFacts
  <2> QED BY <1>2, <2>0, <2>1, <2>2, <2>3, FlushViews DEF FlushAt
<1>12. InflightInv'
  BY <1>1, <1>2, <1>3, CancelViews DEF InflightInv
<1>13. CancelInv'
  <2>1. \A e : ~Offered(rt, e)'
    BY <1>2, <1>5 DEF Offered
  <2> QED BY <1>1, <1>2, <1>3, <2>1, CancelViews, GivenViews DEF CancelInv, CancelAt
<1> QED BY <1>7, <1>8, <1>9, <1>10, <1>11, <1>12, <1>13 DEF PipeInv

LEMMA DetachAndQueuePipe == ASSUME PipeInv, DetachAndQueue PROVE PipeInv'
<1>1. /\ Types /\ FlushTypes /\ CancelTypes /\ TurnTypes /\ RisingInv /\ OrderInv /\ WaitingInv
      /\ QueuedInv /\ FlushInv /\ IdsInv /\ InflightInv /\ CancelInv /\ PendingInv /\ OfferAlwaysFits
  BY DEF PipeInv
<1>2. /\ live /\ inflight' = inflight \union Window
      /\ UNCHANGED <<gen, ids, flush, cancel, pending, turn, rt, live, token, ran, stops, broken>>
  BY DEF DetachAndQueue, dispatcher, runtime, counters, history, Window
<1>3. Born(ent, ent') /\ DOMAIN ent' = DOMAIN ent
  <2>1. ent \in Seq(Entry) /\ "debounce-inflight" \in Owner
    BY <1>1 DEF Types, Owner
  <2>2. ent' = Transfer(ent, Window, "debounce-inflight")
    BY DEF DetachAndQueue, Window
  <2> QED BY <2>1, <2>2, Transferred DEF Born
<1>4. \A x \in DOMAIN ent :
            /\ ent'[x].m = ent[x].m /\ ent'[x].rt = ent[x].rt /\ ent'[x].token = ent[x].token /\ ent'[x].gen = ent[x].gen
            /\ ent'[x].creq = ent[x].creq /\ ent'[x].cpend = ent[x].cpend /\ ent'[x].crun = ent[x].crun
            /\ ent'[x].retired = ent[x].retired /\ ent'[x].req = ent[x].req /\ ent'[x].holds = ent[x].holds
            /\ x \notin Window => ent'[x] = ent[x]
            /\ x \in Window => ent'[x].owner = "debounce-inflight"
  <2>1. ent \in Seq(Entry) /\ "debounce-inflight" \in Owner
    BY <1>1 DEF Types, Owner
  <2>2. ent' = Transfer(ent, Window, "debounce-inflight")
    BY DEF DetachAndQueue, Window
  <2> QED BY <2>1, <2>2, Transferred DEF Born
<1>5. waiting' = <<>> /\ Window' = {}
  BY EmptySet DEF DetachAndQueue, Window
<1>6. PICK n \in Nat : n = Len(queued) + 1
  BY <1>1 DEF Types
<1>7. /\ queued' \in Seq([ents : Seq(Nat), gen : Nat])
      /\ n \notin DOMAIN queued /\ DOMAIN queued' = DOMAIN queued \union {n}
      /\ \A b \in DOMAIN queued : b < n /\ b \in Nat /\ queued'[b] = queued[b]
      /\ queued'[n].ents = waiting /\ queued'[n].gen = gen
  <2>1. [ents |-> waiting, gen |-> gen] \in [ents : Seq(Nat), gen : Nat]
    BY <1>1 DEF Types
  <2>2. /\ queued' \in Seq([ents : Seq(Nat), gen : Nat]) /\ Len(queued') = n
        /\ \A b \in DOMAIN queued : queued'[b] = queued[b]
        /\ queued'[n] = [ents |-> waiting, gen |-> gen]
    BY <1>1, <1>6, <2>1 DEF Types, DetachAndQueue
  <2>3. DOMAIN queued = 1 .. Len(queued) /\ DOMAIN queued' = 1 .. n /\ Len(queued) \in Nat
    BY <1>1, <2>2 DEF Types
  <2>4. n \notin DOMAIN queued /\ DOMAIN queued' = DOMAIN queued \union {n} /\ \A b \in DOMAIN queued : b < n /\ b \in Nat
    BY <1>6, <2>3
  <2> QED BY <2>2, <2>4
<1>8. BatchAt(n)' = Window /\ \A b \in DOMAIN queued : BatchAt(b)' = BatchAt(b)
  BY <1>7 DEF BatchAt, Window
<1>9. Types'
  BY <1>1, <1>2, <1>3, <1>5, <1>7, Located DEF Types, Born
<1>10. FlushTypes' /\ CancelTypes' /\ TurnTypes' /\ OfferAlwaysFits'
  BY <1>1, <1>2, <1>3 DEF FlushTypes, FlushFields, CancelTypes, TurnTypes, OfferAlwaysFits
<1>11. RisingInv'
  BY <1>1, <1>2, <1>5, <1>7, EmptySet DEF RisingInv, Rising
<1>12. OrderInv'
  <2>1. \A b \in DOMAIN queued : Below(Given \union Batch(rt), BatchAt(b)) /\ Below(BatchAt(b), Window)
    BY <1>1 DEF OrderInv
  <2>2. Below(Given \union Batch(rt), Window)
    BY <1>1 DEF OrderInv
  <2>3. \A b, c \in DOMAIN queued : b < c => Below(BatchAt(b), BatchAt(c))
    BY <1>1 DEF OrderInv
  <2>4. \A b, c \in DOMAIN queued' : b < c => Below(BatchAt(b)', BatchAt(c)')
    BY <1>7, <1>8, <2>1, <2>3
  <2>5. \A b \in DOMAIN queued' : Below(Given \union Batch(rt), BatchAt(b)') /\ Below(BatchAt(b)', {})
    BY <1>7, <1>8, <2>1, <2>2 DEF Below
  <2>6. Begun' = Begun /\ Starting' = Starting /\ Buffer' = Buffer /\ Given' = Given /\ \A r : Batch(r)' = Batch(r)
    BY <1>2, GivenViews, FlushViews
  <2>7. Below(Given \union Batch(rt), {})
    BY DEF Below
  <2>8. \A b \in DOMAIN queued' : BatchAt(b)' \subseteq DOMAIN ent
    BY <1>7, <1>8, Located
  <2>9. Batch(rt)' = Batch(rt)
    BY <1>2 DEF Batch
  <2> QED BY <1>1, <1>2, <1>3, <1>5, <2>4, <2>5, <2>6, <2>7, <2>8, <2>9 DEF OrderInv
<1>13. WaitingInv' /\ PendingInv'
  BY <1>1, <1>2, <1>4, <1>5, GivenViews, Located DEF WaitingInv, PendingInv
<1>14. QueuedInv'
  <2> SUFFICES ASSUME NEW b \in DOMAIN queued', NEW e \in BatchAt(b)'
               PROVE  QueuedAt(b, e)'
    BY DEF QueuedInv
  <2>1. CASE b = n
    <3>1. e \in Window /\ e \in DOMAIN ent /\ queued'[b].gen = gen /\ gen \in Nat
      BY <1>1, <1>7, <1>8, <2>1, Located DEF Types
    <3> QED BY <1>1, <1>2, <1>4, <3>1 DEF WaitingInv, QueuedAt
  <2>2. CASE b \in DOMAIN queued
    <3>1. e \in BatchAt(b) /\ e \in DOMAIN ent /\ queued'[b] = queued[b]
      BY <1>7, <1>8, <2>2, Located
    <3> QED BY <1>1, <1>2, <1>4, <2>2, <3>1 DEF QueuedInv, QueuedAt
  <2> QED BY <1>7, <2>1, <2>2
<1>15. FlushInv'
  <2> SUFFICES ASSUME NEW r \in Runtime, flush'[r].pc # "idle" PROVE FlushAt(r)'
    BY DEF FlushInv
  <2>1. flush[r].pc # "idle" /\ FlushAt(r)
    BY <1>1, <1>2 DEF FlushInv
  <2>2. \A e \in Batch(r) : e \in DOMAIN ent /\ e \notin Window
    BY <1>1, <2>1, Located DEF FlushAt, WaitingInv
  <2>3. \A e \in DOMAIN ent : IsActive(e)' <=> IsActive(e)
    BY <1>2, <1>4 DEF IsActive
  <2>4. Rest(r) \subseteq Batch(r)
    BY <1>1, RestFacts
  <2> QED BY <1>2, <1>4, <2>1, <2>2, <2>3, <2>4, FlushViews DEF FlushAt
<1>16. IdsInv'
  BY <1>1, <1>2, <1>4, <1>5, Located DEF IdsInv, StopCompletes
<1>17. InflightInv'
  <2>1. \A e \in DOMAIN ent : ent'[e].cpend => ent'[e].creq
    BY <1>1, <1>4 DEF InflightInv
  <2>2. \A e \in DOMAIN ent : ent'[e].crun => \E c \in StopNo : cancel'[c].pc \in {"item", "record"} /\ e \in Marked(c)'
    BY <1>1, <1>2, <1>4, CancelViews DEF InflightInv
  <2>3. ASSUME NEW e \in inflight
        PROVE  ent'[e].cpend \/ (\E b \in DOMAIN queued' : e \in BatchAt(b)') \/ e \in Batch(rt)'
    <3>1. ent'[e].cpend = ent[e].cpend /\ Batch(rt)' = Batch(rt)
      BY <1>2, <1>4, Located DEF Batch
    <3>2. ent[e].cpend \/ (\E b \in DOMAIN queued : e \in BatchAt(b)) \/ e \in Batch(rt)
      BY <1>1 DEF InflightInv
    <3> QED BY <1>7, <1>8, <3>1, <3>2
  <2>4. \A e \in Window : n \in DOMAIN queued' /\ e \in BatchAt(n)'
    BY <1>7, <1>8
  <2>5. \A e \in inflight' : ent'[e].rt = rt /\ ~ent'[e].retired /\ (ent'[e].cpend <=> ent'[e].creq)
    BY <1>1, <1>2, <1>4, Located DEF InflightInv, WaitingInv
  <2> QED BY <1>2, <1>3, <2>1, <2>2, <2>3, <2>4, <2>5 DEF InflightInv
<1>18. CancelInv'
  <2>1. \A e : Offered(rt, e)' <=> Offered(rt, e)
    BY <1>2 DEF Offered
  <2> QED BY <1>1, <1>2, <1>4, <2>1, CancelViews, GivenViews, Located DEF CancelInv, CancelAt
<1> QED BY <1>9, <1>10, <1>11, <1>12, <1>13, <1>14, <1>15, <1>16, <1>17, <1>18 DEF PipeInv

(***************************************************************************)
(* The steps of a cancellation.                                            *)
(***************************************************************************)
\* A cancellation goes on to its next item or its next call.
LEMMA CancelProgress ==
    ASSUME PipeInv, NEW c \in StopNo, cancel[c].pc \in {"item", "record"},
           cancel' \in [StopNo -> Batchwise], \A d \in StopNo : d # c => cancel'[d] = cancel[d],
           cancel'[c].pc \in {"item", "record"}, cancel'[c].rt = cancel[c].rt, cancel'[c].ents = cancel[c].ents,
           cancel'[c].pc = "record" => cancel'[c].i <= Len(cancel[c].ents),
           UNCHANGED <<debouncer, flush, dispatcher, runtime, ran, stops, broken>>
    PROVE  PipeInv'
<1>1. /\ Types /\ FlushTypes /\ CancelTypes /\ TurnTypes /\ RisingInv /\ OrderInv /\ WaitingInv
      /\ QueuedInv /\ FlushInv /\ IdsInv /\ InflightInv /\ CancelInv /\ PendingInv /\ OfferAlwaysFits
  BY DEF PipeInv
<1>2. UNCHANGED <<ent, waiting, queued, gen, inflight, ids, flush, pending, turn, rt, live, token, ran, stops, broken>>
  BY DEF debouncer, dispatcher, runtime
<1>3. \A d \in StopNo : Marked(d)' = Marked(d)
  BY DEF Marked
<1>4. CancelTypes'
  BY <1>1, <1>2 DEF CancelTypes
<1>5. CancelInv'
  <2>1. \A d \in StopNo : cancel'[d].pc # "done" => cancel[d].pc # "done"
    OBVIOUS
  <2>2. \A e : Offered(rt, e)' <=> Offered(rt, e)
    BY <1>2 DEF Offered
  <2>3. ASSUME NEW d \in StopNo, cancel'[d].pc # "done", NEW e \in Marked(d)' PROVE CancelAt(d, e)'
    <3>1. cancel[d].pc # "done" /\ e \in Marked(d)
      BY <1>3, <2>1, <2>3
    <3>2. CancelAt(d, e)
      BY <1>1, <3>1 DEF CancelInv
    <3>3. cancel'[d].rt = cancel[d].rt /\ (cancel'[d].pc = "scheduled" <=> cancel[d].pc = "scheduled")
      OBVIOUS
    <3> QED BY <1>2, <2>2, <3>2, <3>3, GivenViews DEF CancelAt
  <2> QED BY <1>1, <1>3, <2>1, <2>3 DEF CancelInv
<1>6. InflightInv'
  <2>1. \A d \in StopNo : cancel[d].pc \in {"item", "record"} => cancel'[d].pc \in {"item", "record"}
    OBVIOUS
  <2>2. Batch(rt)' = Batch(rt)
    BY <1>2 DEF Batch
  <2> QED BY <1>1, <1>2, <1>3, <2>1, <2>2, QueueViews DEF InflightInv
<1>7. Window' = Window
  BY <1>2 DEF Window
<1>8. Types' /\ FlushTypes' /\ TurnTypes' /\ RisingInv' /\ OfferAlwaysFits'
  BY <1>1, <1>2 DEF Types, FlushTypes, FlushFields, TurnTypes, RisingInv, OfferAlwaysFits
<1>9. OrderInv'
  <2>1. Batch(rt)' = Batch(rt)
    BY <1>2 DEF Batch
  <2> QED BY <1>1, <1>2, <1>7, <2>1, FlushViews, QueueViews, GivenViews DEF OrderInv
<1>10. WaitingInv' /\ QueuedInv' /\ PendingInv' /\ IdsInv'
  BY <1>1, <1>2, <1>7, QueueViews, GivenViews DEF WaitingInv, QueuedInv, QueuedAt, PendingInv, IdsInv, StopCompletes
<1>11. FlushInv'
  BY <1>1, <1>2, FlushViews DEF FlushInv, FlushAt, IsActive
<1> QED BY <1>4, <1>5, <1>6, <1>8, <1>9, <1>10, <1>11 DEF PipeInv

LEMMA CancelItemPipe == ASSUME PipeInv, NEW c \in StopNo, CancelItem(c) PROVE PipeInv'
<1>1. cancel \in [StopNo -> Batchwise] /\ cancel[c].pc = "item" /\ cancel[c].i <= Len(cancel[c].ents)
  BY DEF PipeInv, CancelTypes, CancelItem
<1>2. cancel[c] \in Batchwise
  BY <1>1
<1>3. CASE cancel' = [cancel EXCEPT ![c].i = @ + 1]
  <2>1. [cancel[c] EXCEPT !.i = @ + 1] \in Batchwise
    BY <1>2 DEF Batchwise
  <2>2. /\ cancel' \in [StopNo -> Batchwise] /\ cancel'[c] = [cancel[c] EXCEPT !.i = @ + 1]
        /\ \A d \in StopNo : d # c => cancel'[d] = cancel[d]
    BY <1>1, <1>3, <2>1
  <2>3. cancel'[c].pc = "item" /\ cancel'[c].rt = cancel[c].rt /\ cancel'[c].ents = cancel[c].ents
    BY <1>1, <1>2, <2>2 DEF Batchwise
  <2> QED BY <1>1, <2>2, <2>3, CancelProgress DEF CancelItem, counters, history
<1>4. CASE cancel' = [cancel EXCEPT ![c].pc = "record"]
  <2>1. [cancel[c] EXCEPT !.pc = "record"] \in Batchwise
    BY <1>2 DEF Batchwise
  <2>2. /\ cancel' \in [StopNo -> Batchwise] /\ cancel'[c] = [cancel[c] EXCEPT !.pc = "record"]
        /\ \A d \in StopNo : d # c => cancel'[d] = cancel[d]
    BY <1>1, <1>4, <2>1
  <2>3. /\ cancel'[c].pc = "record" /\ cancel'[c].rt = cancel[c].rt /\ cancel'[c].ents = cancel[c].ents
        /\ cancel'[c].i = cancel[c].i
    BY <1>1, <1>2, <2>2 DEF Batchwise
  <2> QED BY <1>1, <2>2, <2>3, CancelProgress DEF CancelItem, counters, history
<1> QED BY <1>3, <1>4 DEF CancelItem

LEMMA CancelRecordPipe == ASSUME PipeInv, NEW c \in StopNo, CancelRecord(c) PROVE PipeInv'
<1>1. cancel \in [StopNo -> Batchwise] /\ cancel[c].pc = "record"
  BY DEF PipeInv, CancelTypes, CancelRecord
<1>2. cancel[c] \in Batchwise
  BY <1>1
<1>3. cancel' = [cancel EXCEPT ![c].pc = "item", ![c].i = @ + 1]
  BY DEF CancelRecord
<1>4. [cancel[c] EXCEPT !.pc = "item", !.i = @ + 1] \in Batchwise
  <2>1. cancel[c].i + 1 \in Nat \ {0}
    BY <1>2 DEF Batchwise
  <2> QED BY <1>2, <2>1 DEF Batchwise
<1>5. /\ cancel' \in [StopNo -> Batchwise] /\ cancel'[c] = [cancel[c] EXCEPT !.pc = "item", !.i = @ + 1]
      /\ \A d \in StopNo : d # c => cancel'[d] = cancel[d]
  BY <1>1, <1>3, <1>4
<1>6. cancel'[c].pc = "item" /\ cancel'[c].rt = cancel[c].rt /\ cancel'[c].ents = cancel[c].ents
  BY <1>1, <1>2, <1>5 DEF Batchwise
<1> QED BY <1>1, <1>5, <1>6, CancelProgress DEF CancelRecord, history

LEMMA CancelStartPipe == ASSUME PipeInv, NEW c \in StopNo, CancelStart(c) PROVE PipeInv'
<1>1. /\ Types /\ FlushTypes /\ CancelTypes /\ TurnTypes /\ RisingInv /\ OrderInv /\ WaitingInv
      /\ QueuedInv /\ FlushInv /\ IdsInv /\ InflightInv /\ CancelInv /\ PendingInv /\ OfferAlwaysFits
  BY DEF PipeInv
<1>2. /\ UNCHANGED <<waiting, queued, gen, inflight, ids, flush, pending, turn, rt, live, token, ran, stops, broken>>
      /\ cancel[c].pc = "scheduled"
  BY DEF CancelStart, dispatcher, runtime, counters, history
<1>3. /\ cancel' \in [StopNo -> Batchwise]
      /\ cancel'[c].pc = (IF cancel[c].ents = <<>> THEN "done" ELSE "item")
      /\ cancel'[c].rt = cancel[c].rt /\ cancel'[c].ents = cancel[c].ents
      /\ \A d \in StopNo : d # c => cancel'[d] = cancel[d]
  <2>1. PICK p \in {"done", "item"} : p = (IF cancel[c].ents = <<>> THEN "done" ELSE "item")
    OBVIOUS
  <2>2. cancel' = [cancel EXCEPT ![c].pc = p]
    BY <2>1 DEF CancelStart
  <2>3. cancel \in [StopNo -> Batchwise] /\ cancel[c] \in Batchwise
    BY <1>1 DEF CancelTypes
  <2>4. [cancel[c] EXCEPT !.pc = p] \in Batchwise
    BY <2>3 DEF Batchwise
  <2>5. /\ cancel' \in [StopNo -> Batchwise] /\ cancel'[c] = [cancel[c] EXCEPT !.pc = p]
        /\ \A d \in StopNo : d # c => cancel'[d] = cancel[d]
    BY <2>2, <2>3, <2>4
  <2>6. cancel'[c].pc = p /\ cancel'[c].rt = cancel[c].rt /\ cancel'[c].ents = cancel[c].ents
    BY <2>3, <2>5 DEF Batchwise
  <2> QED BY <2>1, <2>5, <2>6
<1>4. \A d \in StopNo : Marked(d)' = Marked(d)
  BY <1>3 DEF Marked
<1>5. ent \in Seq(Entry) /\ ent' = Change(ent, Marked(c), LAMBDA y : [y EXCEPT !.crun = TRUE])
  BY <1>1 DEF CancelStart, Types, Marked
<1>6. Born(ent, ent') /\ DOMAIN ent' = DOMAIN ent
  BY <1>5, RunBegun DEF Born
<1>7. \A x \in DOMAIN ent :
            /\ ent'[x].m = ent[x].m /\ ent'[x].rt = ent[x].rt /\ ent'[x].token = ent[x].token /\ ent'[x].gen = ent[x].gen
            /\ ent'[x].creq = ent[x].creq /\ ent'[x].cpend = ent[x].cpend
            /\ ent'[x].retired = ent[x].retired /\ ent'[x].req = ent[x].req /\ ent'[x].holds = ent[x].holds
            /\ ent'[x].owner = ent[x].owner
            /\ x \in Marked(c) => ent'[x].crun
            /\ x \notin Marked(c) => ent'[x] = ent[x]
  BY <1>5, RunBegun DEF Born
<1>8. Marked(c) = {} <=> cancel[c].ents = <<>>
  <2>1. cancel[c].ents \in Seq(Nat)
    BY <1>1 DEF CancelTypes, Batchwise
  <2> QED BY <2>1, SetOf DEF Marked
<1>9. Window' = Window
  BY <1>2 DEF Window
<1>10. Types'
  BY <1>1, <1>2, <1>6 DEF Types, Born
<1>11. FlushTypes' /\ TurnTypes' /\ RisingInv' /\ OfferAlwaysFits'
  BY <1>1, <1>2 DEF FlushTypes, FlushFields, TurnTypes, RisingInv, OfferAlwaysFits
<1>12. CancelTypes'
  <2>1. \A d \in StopNo : d > stops => cancel'[d].pc = "done"
    BY <1>1, <1>2, <1>3 DEF CancelTypes
  <2>2. \A d \in StopNo : cancel'[d].pc = "record" => cancel'[d].i <= Len(cancel'[d].ents)
    BY <1>1, <1>3 DEF CancelTypes
  <2> QED BY <1>1, <1>2, <1>3, <1>6, <2>1, <2>2 DEF CancelTypes
<1>13. OrderInv'
  <2>1. Batch(rt)' = Batch(rt)
    BY <1>2 DEF Batch
  <2> QED BY <1>1, <1>2, <1>6, <1>9, <2>1, FlushViews, QueueViews, GivenViews DEF OrderInv
<1>14. \A e \in Marked(c) : ent[e].creq
  BY <1>1, <1>2 DEF CancelInv, CancelAt
<1>15. WaitingInv' /\ PendingInv' /\ IdsInv'
  <2>1. \A e \in Window : e \notin Marked(c)
    BY <1>1, <1>14 DEF WaitingInv
  <2>2. WaitingInv'
    BY <1>1, <1>2, <1>7, <1>9, <2>1, Located DEF WaitingInv
  <2>3. PendingInv'
    BY <1>1, <1>2, <1>7, GivenViews, Located DEF PendingInv
  <2>4. IdsInv'
    BY <1>1, <1>2, <1>7, <1>9, Located DEF IdsInv, StopCompletes
  <2> QED BY <2>2, <2>3, <2>4
<1>16. QueuedInv'
  BY <1>1, <1>2, <1>7, QueueViews, Located DEF QueuedInv, QueuedAt
<1>17. FlushInv'
  <2>1. \A e \in DOMAIN ent : IsActive(e)' <=> IsActive(e)
    BY <1>2, <1>7 DEF IsActive
  <2> QED BY <1>1, <1>2, <1>7, <2>1, FlushViews, Located DEF FlushInv, FlushAt
<1>18. InflightInv'
  <2>1. Batch(rt)' = Batch(rt)
    BY <1>2 DEF Batch
  <2>2. ASSUME NEW e \in DOMAIN ent, ent'[e].crun
        PROVE  \E d \in StopNo : cancel'[d].pc \in {"item", "record"} /\ e \in Marked(d)'
    <3>1. CASE e \in Marked(c)
      BY <1>3, <1>4, <1>8, <3>1
    <3>2. CASE e \notin Marked(c)
      <4>1. PICK d \in StopNo : cancel[d].pc \in {"item", "record"} /\ e \in Marked(d)
        BY <1>1, <1>7, <2>2, <3>2 DEF InflightInv
      <4> QED BY <1>3, <1>4, <3>2, <4>1
    <3> QED BY <3>1, <3>2
  <2>3. \A e \in DOMAIN ent : ent'[e].cpend => ent'[e].creq
    BY <1>1, <1>7 DEF InflightInv
  <2>4. \A e \in inflight' :
          /\ ent'[e].rt = rt' /\ ~ent'[e].retired
          /\ ent'[e].cpend <=> ent'[e].creq
          /\ ent'[e].cpend \/ (\E b \in DOMAIN queued' : e \in BatchAt(b)') \/ e \in Batch(rt)'
    BY <1>1, <1>2, <1>7, <2>1, QueueViews, Located DEF InflightInv
  <2>5. inflight' # {} => live'
    BY <1>1, <1>2 DEF InflightInv
  <2> QED BY <1>6, <2>2, <2>3, <2>4, <2>5 DEF InflightInv
<1>19. CancelInv'
  <2>1. \A d \in StopNo : cancel'[d].pc # "done" => cancel[d].pc # "done"
    BY <1>2, <1>3
  <2>2. \A e : Offered(rt, e)' <=> Offered(rt, e)
    BY <1>2 DEF Offered
  <2>3. ASSUME NEW d \in StopNo, cancel'[d].pc # "done", NEW e \in Marked(d)' PROVE CancelAt(d, e)'
    <3>1. cancel[d].pc # "done" /\ e \in Marked(d) /\ e \in DOMAIN ent
      BY <1>4, <2>1, <2>3, Located
    <3>2. CancelAt(d, e)
      BY <1>1, <3>1 DEF CancelInv
    <3>3. cancel'[d].rt = cancel[d].rt /\ (d # c => cancel'[d].pc = cancel[d].pc) /\ (d = c => cancel'[d].pc # "scheduled")
      BY <1>3
    <3> QED BY <1>2, <1>7, <2>2, <3>1, <3>2, <3>3, GivenViews DEF CancelAt
  <2> QED BY <1>1, <1>4, <2>1, <2>3 DEF CancelInv
<1> QED BY <1>10, <1>11, <1>12, <1>13, <1>15, <1>16, <1>17, <1>18, <1>19 DEF PipeInv

\* The id of a message stays as long as something in hand has it.
LEMMA IdsKept ==
    ASSUME NEW es, IdsInv, Types, StopCompletes, NEW x \in ids \ IdsOf(es)
    PROVE  \E e \in (inflight \union Window) \ es : ent[e].m = x
<1>1. PICK e \in inflight \union Window : ent[e].m = x
  BY DEF IdsInv
<1>2. x \notin IdLess
  BY DEF Types
<1>3. e \notin es
  BY <1>1, <1>2 DEF IdsOf
<1> QED BY <1>1, <1>3

LEMMA CancelFinishPipe == ASSUME PipeInv, NEW c \in StopNo, CancelFinish(c) PROVE PipeInv'
<1>1. /\ Types /\ FlushTypes /\ CancelTypes /\ TurnTypes /\ RisingInv /\ OrderInv /\ WaitingInv
      /\ QueuedInv /\ FlushInv /\ IdsInv /\ InflightInv /\ CancelInv /\ PendingInv /\ OfferAlwaysFits
  BY DEF PipeInv
<1>2. /\ UNCHANGED <<waiting, queued, flush, pending, turn, rt, live, token, ran, stops>>
      /\ cancel[c].pc = "item"
      /\ broken' \subseteq broken \union {"index"} /\ broken \subseteq broken'
  BY DEF CancelFinish, dispatcher, runtime, counters, history
<1> DEFINE es == Marked(c)
<1>3. /\ inflight' = inflight \ es
      /\ ids' = IF live /\ cancel[c].rt = rt THEN ids \ IdsOf(es) ELSE ids
      /\ gen' = IF live /\ cancel[c].rt = rt THEN NextGen(gen, waiting, queued, inflight', flush[rt]) ELSE gen
  BY DEF CancelFinish, Marked
<1>4. gen' \in Nat /\ (gen' = gen \/ (gen' = 0 /\ waiting = <<>> /\ queued = <<>> /\ flush[rt].pc = "idle"))
  BY <1>1, <1>3 DEF NextGen, Types
<1>5. /\ cancel' \in [StopNo -> Batchwise]
      /\ cancel'[c].pc = "done" /\ cancel'[c].ents = cancel[c].ents
      /\ \A d \in StopNo : d # c => cancel'[d] = cancel[d]
  <2>2. cancel' = [cancel EXCEPT ![c].pc = "done"]
    BY DEF CancelFinish
  <2>3. cancel \in [StopNo -> Batchwise] /\ cancel[c] \in Batchwise
    BY <1>1 DEF CancelTypes
  <2>4. [cancel[c] EXCEPT !.pc = "done"] \in Batchwise
    BY <2>3 DEF Batchwise
  <2>5. /\ cancel' \in [StopNo -> Batchwise] /\ cancel'[c] = [cancel[c] EXCEPT !.pc = "done"]
        /\ \A d \in StopNo : d # c => cancel'[d] = cancel[d]
    BY <2>2, <2>3, <2>4
  <2>6. cancel'[c].pc = "done" /\ cancel'[c].ents = cancel[c].ents
    BY <2>3, <2>5 DEF Batchwise
  <2> QED BY <2>5, <2>6
<1>6. \A d \in StopNo : Marked(d)' = Marked(d)
  BY <1>5 DEF Marked
<1>7. PICK en : en = SettleCancel(ent, es)
  OBVIOUS
<1>8. ent \in Seq(Entry) /\ ent' = Change(en, es, LAMBDA y : [y EXCEPT !.cwait = FALSE])
  BY <1>1, <1>7 DEF CancelFinish, Types, Marked
<1>9. Born(ent, en) /\ Born(en, ent') /\ en \in Seq(Entry) /\ DOMAIN en = DOMAIN ent
  BY <1>7, <1>8, CancelSettled, WaitOver DEF Born
<1>10. Born(ent, ent') /\ DOMAIN ent' = DOMAIN ent
  BY <1>9 DEF Born
<1>11. \A x \in DOMAIN ent :
            /\ ent'[x].m = ent[x].m /\ ent'[x].rt = ent[x].rt /\ ent'[x].token = ent[x].token /\ ent'[x].gen = ent[x].gen
            /\ ent'[x].creq = ent[x].creq /\ ent'[x].retired = ent[x].retired /\ ent'[x].owner = ent[x].owner
            /\ x \in es => ~ent'[x].cpend /\ ~ent'[x].crun /\ ent'[x].req /\ ent'[x].holds = ent[x].holds \ {"cancel"}
            /\ x \notin es => ent'[x] = ent[x]
  <2>1. \A x \in DOMAIN ent :
            /\ en[x].creq = ent[x].creq /\ en[x].retired = ent[x].retired /\ en[x].owner = ent[x].owner
            /\ x \in es => ~en[x].cpend /\ ~en[x].crun /\ en[x].req /\ en[x].holds = ent[x].holds \ {"cancel"}
            /\ x \notin es => en[x] = ent[x]
    BY <1>7, <1>8, CancelSettled
  <2>2. \A x \in DOMAIN en :
            /\ ent'[x].creq = en[x].creq /\ ent'[x].cpend = en[x].cpend /\ ent'[x].crun = en[x].crun
            /\ ent'[x].retired = en[x].retired /\ ent'[x].req = en[x].req /\ ent'[x].holds = en[x].holds
            /\ ent'[x].owner = en[x].owner
            /\ x \notin es => ent'[x] = en[x]
    BY <1>8, <1>9, WaitOver
  <2> QED BY <1>9, <1>10, <2>1, <2>2 DEF Born
<1>12. \A e \in es : e \in DOMAIN ent /\ CancelAt(c, e) /\ ent[e].creq
  BY <1>1, <1>2, Located DEF CancelInv, CancelAt
<1>13. Window' = Window
  BY <1>2 DEF Window
<1>14. \A e \in DOMAIN ent : IsActive(e)' => IsActive(e) \/ (gen' = 0 /\ waiting = <<>> /\ queued = <<>> /\ flush[rt].pc = "idle" /\ ent[e].rt = rt)
  BY <1>2, <1>4, <1>11 DEF IsActive
<1> HIDE DEF es
<1>15. Types'
  <2>1. ids' \subseteq ids /\ inflight' \subseteq inflight
    BY <1>3
  <2> QED BY <1>1, <1>2, <1>4, <1>10, <2>1, Located DEF Types, Born
<1>16. FlushTypes' /\ TurnTypes' /\ RisingInv' /\ OfferAlwaysFits'
  BY <1>1, <1>2 DEF FlushTypes, FlushFields, TurnTypes, RisingInv, OfferAlwaysFits
<1>17. CancelTypes'
  <2>1. \A d \in StopNo : d > stops => cancel'[d].pc = "done"
    BY <1>1, <1>2, <1>5 DEF CancelTypes
  <2>2. \A d \in StopNo : cancel'[d].pc = "record" => cancel'[d].i <= Len(cancel'[d].ents)
    BY <1>1, <1>5 DEF CancelTypes
  <2>3. \A d \in StopNo : cancel'[d].ents = cancel[d].ents
    BY <1>5
  <2> QED BY <1>1, <1>2, <1>5, <1>10, <2>1, <2>2, <2>3 DEF CancelTypes
<1>18. OrderInv'
  <2>1. Batch(rt)' = Batch(rt)
    BY <1>2 DEF Batch
  <2> QED BY <1>1, <1>2, <1>10, <1>13, <2>1, FlushViews, QueueViews, GivenViews DEF OrderInv
<1>19. WaitingInv' /\ PendingInv'
  <2>1. Window # {} => gen' = gen
    BY <1>4, EmptySet DEF Window
  <2>2. \A e \in Window : e \notin es
    BY <1>1, <1>12 DEF WaitingInv
  <2>3. \A e \in Buffer : e \notin es
    BY <1>12 DEF CancelAt
  <2>4. Buffer' = Buffer
    BY <1>2, GivenViews
  <2>5. WaitingInv'
    BY <1>1, <1>2, <1>3, <1>11, <1>13, <2>1, <2>2, Located DEF WaitingInv
  <2> QED BY <1>1, <1>2, <1>11, <2>3, <2>4, <2>5, Located DEF PendingInv
<1>20. QueuedInv'
  <2> SUFFICES ASSUME NEW b \in DOMAIN queued', NEW e \in BatchAt(b)'
               PROVE  QueuedAt(b, e)'
    BY DEF QueuedInv
  <2>1. b \in DOMAIN queued /\ e \in BatchAt(b) /\ e \in DOMAIN ent /\ queued # <<>> /\ queued'[b] = queued[b]
    BY <1>2, QueueViews, Located
  <2>2. QueuedAt(b, e) /\ gen' = gen
    BY <1>1, <1>4, <2>1 DEF QueuedInv
  <2> QED BY <1>2, <1>3, <1>11, <1>12, <2>1, <2>2 DEF QueuedAt
<1>21. FlushInv'
  <2> SUFFICES ASSUME NEW r \in Runtime, flush'[r].pc # "idle" PROVE FlushAt(r)'
    BY DEF FlushInv
  <2>1. flush[r].pc # "idle" /\ FlushAt(r)
    BY <1>1, <1>2 DEF FlushInv
  <2>2. \A e \in Batch(r) : e \in DOMAIN ent /\ ent[e].rt = r
    BY <2>1, Located DEF FlushAt
  <2>3. \A e \in Batch(r) : IsActive(e)' => IsActive(e)
    BY <1>14, <2>1, <2>2
  <2>4. Rest(r) \subseteq Batch(r)
    BY <1>1, RestFacts
  <2>5. \A e \in Batch(r) : Offered(r, e) => e \notin es
    BY <1>12, <2>1 DEF CancelAt, FlushAt
  <2>6. \A e \in es : ~IsActive(e)
    BY <1>12 DEF IsActive
  <2>7. live /\ r = rt => gen' = gen
    BY <1>4, <2>1
  <2> QED BY <1>2, <1>3, <1>11, <1>12, <2>1, <2>2, <2>3, <2>4, <2>5, <2>6, <2>7, FlushViews DEF FlushAt
<1>22. IdsInv'
  <2> SUFFICES ASSUME StopCompletes', NEW x \in ids' PROVE \E e \in (inflight \union Window)' : ent'[e].m = x
    BY DEF IdsInv
  <2>1. StopCompletes
    BY <1>2 DEF StopCompletes
  <2>2. \A e \in Window : e \notin es
    BY <1>1, <1>12 DEF WaitingInv
  <2>3. PICK e \in (inflight \union Window) \ es : ent[e].m = x
    <3>1. CASE live /\ cancel[c].rt = rt
      BY <1>1, <1>3, <2>1, <3>1, IdsKept
    <3>2. CASE ~(live /\ cancel[c].rt = rt)
      <4>1. PICK e \in inflight \union Window : ent[e].m = x
        BY <1>1, <1>3, <2>1, <3>2 DEF IdsInv
      <4>2. e \notin es
        BY <1>1, <1>12, <3>2 DEF InflightInv, WaitingInv, CancelAt
      <4> QED BY <4>1, <4>2
    <3> QED BY <3>1, <3>2
  <2> QED BY <1>3, <1>11, <1>13, <2>3, Located
<1>23. InflightInv'
  <2>1. Batch(rt)' = Batch(rt)
    BY <1>2 DEF Batch
  <2>2. ASSUME NEW e \in DOMAIN ent, ent'[e].crun
        PROVE  \E d \in StopNo : cancel'[d].pc \in {"item", "record"} /\ e \in Marked(d)'
    <3>1. PICK d \in StopNo : cancel[d].pc \in {"item", "record"} /\ e \in Marked(d)
      BY <1>1, <1>11, <2>2 DEF InflightInv
    <3>2. d # c
      BY <1>11, <2>2, <3>1 DEF es
    <3> QED BY <1>5, <1>6, <3>1, <3>2
  <2>3. \A e \in DOMAIN ent : ent'[e].cpend => ent'[e].creq
    BY <1>1, <1>11 DEF InflightInv
  <2>4. \A e \in inflight' :
          /\ ent'[e].rt = rt' /\ ~ent'[e].retired
          /\ ent'[e].cpend <=> ent'[e].creq
          /\ ent'[e].cpend \/ (\E b \in DOMAIN queued' : e \in BatchAt(b)') \/ e \in Batch(rt)'
    BY <1>1, <1>2, <1>3, <1>11, <2>1, QueueViews, Located DEF InflightInv
  <2>5. inflight' # {} => live'
    BY <1>1, <1>2, <1>3 DEF InflightInv
  <2> QED BY <1>10, <2>2, <2>3, <2>4, <2>5 DEF InflightInv
<1>24. CancelInv'
  <2>1. \A d \in StopNo : cancel'[d].pc # "done" => cancel[d].pc # "done" /\ d # c
    BY <1>5
  <2>2. \A e : Offered(rt, e)' <=> Offered(rt, e)
    BY <1>2 DEF Offered
  <2>3. ASSUME NEW d \in StopNo, cancel'[d].pc # "done", NEW e \in Marked(d)' PROVE CancelAt(d, e)'
    <3>1. cancel[d].pc # "done" /\ d # c /\ e \in Marked(d) /\ e \in DOMAIN ent /\ cancel'[d] = cancel[d]
      BY <1>5, <1>6, <2>1, <2>3, Located
    <3>2. CancelAt(d, e) /\ e \notin es
      BY <1>1, <1>2, <3>1 DEF CancelInv, es
    <3> QED BY <1>2, <1>3, <1>11, <2>2, <3>1, <3>2, GivenViews DEF CancelAt
  <2> QED BY <1>1, <1>6, <2>1, <2>3 DEF CancelInv
<1> QED BY <1>15, <1>16, <1>17, <1>18, <1>19, <1>20, <1>21, <1>22, <1>23, <1>24 DEF PipeInv

(***************************************************************************)
(* The steps of a flush, up to its footer.  A step releases some of what   *)
(* is still to come, or gives the current entry to the dispatcher's lease. *)
(***************************************************************************)
\* The flush of r is now g, the others are as before.
FlushIs(r, g) ==
    /\ flush' = [q \in Runtime |-> flush'[q]] /\ flush'[r] = g
    /\ \A q \in Runtime : q # r => flush'[q] = flush[q]

LEMMA FlushPut ==
    ASSUME FlushTypes, NEW r \in Runtime, NEW g, flush' = [flush EXCEPT ![r] = g]
    PROVE  FlushIs(r, g)
<1>1. flush = [q \in Runtime |-> flush[q]]
  BY DEF FlushTypes
<1>2. flush' = [q \in Runtime |-> IF q = r THEN g ELSE flush[q]]
  BY <1>1
<1> QED BY Zenon, <1>2 DEF FlushIs

LEMMA FlushForms ==
    ASSUME FlushTypes, NEW r \in Runtime
    PROVE  /\ \A p : flush' = [flush EXCEPT ![r].pc = p] => FlushIs(r, [flush[r] EXCEPT !.pc = p])
           /\ \A p, j : flush' = [flush EXCEPT ![r].pc = p, ![r].i = j] => FlushIs(r, [flush[r] EXCEPT !.pc = p, !.i = j])
           /\ \A p, o : flush' = [flush EXCEPT ![r].pc = p, ![r].offers = o] => FlushIs(r, [flush[r] EXCEPT !.pc = p, !.offers = o])
           /\ \A p, j, e, o : flush' = [flush EXCEPT ![r].pc = p, ![r].i = j, ![r].offers[e] = o]
                 => FlushIs(r, [flush[r] EXCEPT !.pc = p, !.i = j, !.offers[e] = o])
<1>1. flush = [q \in Runtime |-> flush[q]]
  BY DEF FlushTypes
<1>2. ASSUME NEW p, flush' = [flush EXCEPT ![r].pc = p] PROVE FlushIs(r, [flush[r] EXCEPT !.pc = p])
  BY <1>2, FlushPut
<1>3. ASSUME NEW p, NEW j, flush' = [flush EXCEPT ![r].pc = p, ![r].i = j]
      PROVE FlushIs(r, [flush[r] EXCEPT !.pc = p, !.i = j])
  <2>1. flush' = [flush EXCEPT ![r] = [flush[r] EXCEPT !.pc = p, !.i = j]]
    BY <1>1, <1>3
  <2> QED BY <2>1, FlushPut
<1>4. ASSUME NEW p, NEW o, flush' = [flush EXCEPT ![r].pc = p, ![r].offers = o]
      PROVE FlushIs(r, [flush[r] EXCEPT !.pc = p, !.offers = o])
  <2>1. flush' = [flush EXCEPT ![r] = [flush[r] EXCEPT !.pc = p, !.offers = o]]
    BY <1>1, <1>4
  <2> QED BY <2>1, FlushPut
<1>5. ASSUME NEW p, NEW j, NEW e, NEW o, flush' = [flush EXCEPT ![r].pc = p, ![r].i = j, ![r].offers[e] = o]
      PROVE FlushIs(r, [flush[r] EXCEPT !.pc = p, !.i = j, !.offers[e] = o])
  <2>1. flush' = [flush EXCEPT ![r] = [flush[r] EXCEPT !.pc = p, !.i = j, !.offers[e] = o]]
    BY <1>1, <1>5
  <2> QED BY <2>1, FlushPut
<1> QED BY Zenon, <1>2, <1>3, <1>4, <1>5

LEMMA RestMoves ==
    ASSUME FlushTypes, RisingInv, NEW r \in Runtime,
           flush'[r].batch = flush[r].batch, flush'[r].i \in Nat
    PROVE  /\ flush'[r].i = flush[r].i => Rest(r)' = Rest(r) /\ Current(r)' = Current(r)
           /\ flush'[r].i = flush[r].i + 1 /\ flush[r].i <= Len(flush[r].batch) => Rest(r)' = Rest(r) \ {Current(r)}
           /\ flush'[r].i = Len(flush[r].batch) + 1 => Rest(r)' = {}
           /\ {flush[r].batch[j] : j \in flush[r].i .. Len(flush[r].batch)} = Rest(r)
           /\ flush[r].i <= Len(flush[r].batch) =>
                 {flush[r].batch[j] : j \in flush[r].i + 1 .. Len(flush[r].batch)} = Rest(r) \ {Current(r)}
<1>1. flush[r].batch \in Seq(Nat) /\ flush[r].i \in Nat \ {0} /\ Rising(flush[r].batch)
  BY DEF FlushTypes, FlushFields, RisingInv
<1>2. PICK s \in Seq(Nat), n \in Nat, k \in Nat \ {0} : s = flush[r].batch /\ n = Len(s) /\ k = flush[r].i
  <2>1. Len(flush[r].batch) \in Nat
    BY <1>1
  <2> QED BY <1>1, <2>1
<1>3. s \in Seq(Nat) /\ DOMAIN s = 1 .. n /\ \A i \in 1 .. n : s[i] \in Nat
  BY <1>1, <1>2
<1>4. \A i, j \in 1 .. n : i < j => s[i] < s[j]
  BY <1>1, <1>2, <1>3 DEF Rising
<1>5. \A i, j \in 1 .. n : s[i] = s[j] => i = j
  BY <1>3, <1>4
<1>6. Rest(r) = {s[j] : j \in {i \in 1 .. n : i >= k}}
  BY <1>2, <1>3 DEF Rest
<1>7. Rest(r)' = {s[j] : j \in {i \in 1 .. n : i >= flush'[r].i}}
  BY <1>2, <1>3 DEF Rest
<1>8. flush'[r].i = k => Rest(r)' = Rest(r) /\ Current(r)' = Current(r)
  BY <1>2, <1>6, <1>7 DEF Current
<1>9. Current(r) = s[k]
  BY <1>2 DEF Current
<1>10. k <= n => {s[j] : j \in {i \in 1 .. n : i >= k + 1}} = Rest(r) \ {Current(r)}
  BY <1>5, <1>6, <1>9
<1>11. flush'[r].i = n + 1 => Rest(r)' = {}
  BY <1>7
<1>12. {i \in 1 .. n : i >= k} = k .. n /\ {i \in 1 .. n : i >= k + 1} = k + 1 .. n
  OBVIOUS
<1>13. {s[j] : j \in k .. n} = Rest(r)
  BY <1>6, <1>12
<1>14. k <= n => {s[j] : j \in k + 1 .. n} = Rest(r) \ {Current(r)}
  BY <1>10, <1>12
<1>15. flush'[r].i = k + 1 /\ k <= n => Rest(r)' = Rest(r) \ {Current(r)}
  BY <1>7, <1>10
<1> QED BY <1>2, <1>8, <1>11, <1>13, <1>14, <1>15

\* What a step of the flush of r does to the entries: S is released, T transferred.
Moves(r, S, T) ==
    /\ Born(ent, ent') /\ DOMAIN ent' = DOMAIN ent
    /\ S \subseteq Rest(r) /\ T \subseteq Rest(r)
    /\ \A x \in DOMAIN ent :
          /\ ent'[x].m = ent[x].m /\ ent'[x].rt = ent[x].rt /\ ent'[x].token = ent[x].token /\ ent'[x].gen = ent[x].gen
          /\ ent'[x].creq = ent[x].creq /\ ent'[x].cpend = ent[x].cpend /\ ent'[x].crun = ent[x].crun
          /\ ent'[x].retired = ent[x].retired /\ ent'[x].holds = ent[x].holds
          /\ x \in S => ent'[x].req
          /\ x \notin S => ent'[x].req = ent[x].req
          /\ x \in T => ent'[x].owner = "pending"
          /\ x \notin T => ent'[x].owner = ent[x].owner
          /\ x \notin S \union T => ent'[x] = ent[x]
\* What it does to the flush itself.
Keeps(r, S, T) ==
    /\ FlushIs(r, flush'[r]) /\ FlushFields(flush'[r])
    /\ flush'[r].pc # "idle" /\ flush'[r].batch = flush[r].batch /\ flush'[r].intact = flush[r].intact
    /\ \A e \in Batch(r) :
          /\ Unoffered(r, e)' <=> Unoffered(r, e) /\ e \notin T
          /\ Offered(r, e)' => e \notin S /\ (Offered(r, e) \/ (e \in T /\ IsActive(e)))
          /\ ~Unoffered(r, e)' /\ ~Offered(r, e)' => e \in S \/ (~Unoffered(r, e) /\ ~Offered(r, e))
    /\ Rest(r)' \subseteq Rest(r) \ S
    /\ \A e \in Rest(r)' : Unoffered(r, e)' \/ (flush'[r].pc = "record" /\ e = Current(r)')

LEMMA FlushProgress ==
    ASSUME PipeInv, NEW r \in Runtime, flush[r].pc # "idle", NEW S, NEW T, Moves(r, S, T), Keeps(r, S, T),
           UNCHANGED <<waiting, queued, gen, inflight, ids, cancel, pending, turn, rt, live, token, ran, stops, broken>>
    PROVE  PipeInv'
<1>1. /\ Types /\ FlushTypes /\ CancelTypes /\ TurnTypes /\ RisingInv /\ OrderInv /\ WaitingInv
      /\ QueuedInv /\ FlushInv /\ IdsInv /\ InflightInv /\ CancelInv /\ PendingInv /\ OfferAlwaysFits
  BY DEF PipeInv
<1>2. UNCHANGED <<waiting, queued, gen, inflight, ids, cancel, pending, turn, rt, live, token, ran, stops, broken>>
  OBVIOUS
<1>3. /\ FlushAt(r) /\ r <= rt /\ S \subseteq Batch(r) /\ T \subseteq Batch(r) /\ Rest(r) \subseteq Batch(r)
      /\ Batch(r) \subseteq DOMAIN ent
  BY <1>1, RestFacts, Located DEF FlushInv, FlushAt, Moves
<1>4. \A x \in DOMAIN ent :
          /\ ent'[x].m = ent[x].m /\ ent'[x].rt = ent[x].rt /\ ent'[x].token = ent[x].token /\ ent'[x].gen = ent[x].gen
          /\ ent'[x].creq = ent[x].creq /\ ent'[x].cpend = ent[x].cpend /\ ent'[x].crun = ent[x].crun
          /\ ent'[x].retired = ent[x].retired /\ ent'[x].holds = ent[x].holds
          /\ ent[x].req => ent'[x].req
          /\ x \notin Batch(r) => ent'[x] = ent[x]
  BY <1>3 DEF Moves
<1>5. \A q \in Runtime : Batch(q)' = Batch(q)
  BY DEF Keeps, FlushIs, Batch
<1>6. Batch(rt)' = Batch(rt)
  BY <1>2, <1>5, Located DEF Batch
<1>7. Window' = Window
  BY <1>2 DEF Window
<1>8. /\ \A e \in Window : e \notin Batch(r)
      /\ \A e \in Buffer : e \notin Batch(r)
      /\ \A b \in DOMAIN queued : \A e \in BatchAt(b) : e \notin Batch(r)
      /\ \A q \in Runtime : q # r /\ flush[q].pc # "idle" => \A e \in Batch(q) : e \notin Batch(r)
  <2>1. \A e \in Batch(r) : ent[e].rt = r /\ ent[e].holds # {}
    BY <1>3 DEF FlushAt
  <2>2. \A e \in Window : e \notin Batch(r)
    BY <1>1, <2>1 DEF WaitingInv
  <2>3. \A e \in Buffer : e \notin Batch(r)
    <3>1. CASE r = rt
      BY <1>1, <3>1, Located DEF OrderInv, Below, Given
    <3>2. CASE r # rt
      BY <1>1, <2>1, <3>2 DEF PendingInv
    <3> QED BY <3>1, <3>2
  <2>4. \A b \in DOMAIN queued : \A e \in BatchAt(b) : e \notin Batch(r)
    <3>1. CASE r = rt
      <4>1. \A b \in DOMAIN queued : Below(Given \union Batch(rt), BatchAt(b))
        BY <1>1 DEF OrderInv
      <4> QED BY <3>1, <4>1, Located DEF Below
    <3>2. CASE r # rt
      BY <1>1, <2>1, <3>2 DEF QueuedInv, QueuedAt
    <3> QED BY <3>1, <3>2
  <2>5. \A q \in Runtime : q # r /\ flush[q].pc # "idle" => \A e \in Batch(q) : e \notin Batch(r)
    BY <1>1, <2>1 DEF FlushInv, FlushAt
  <2> QED BY <2>2, <2>3, <2>4, <2>5
<1>9. \A e \in DOMAIN ent : IsActive(e)' <=> IsActive(e)
  BY <1>2, <1>4 DEF IsActive
<1>10. Types'
  BY <1>1, <1>2 DEF Types, Moves, Born
<1>11. FlushTypes'
  <2>1. \A q \in Runtime : FlushFields(flush[q])' /\ (flush'[q].pc = "idle" \/ q > rt' => flush'[q] = NoFlush)
    <3>1. ASSUME NEW q \in Runtime, q # r PROVE FlushFields(flush[q])' /\ (flush'[q].pc = "idle" \/ q > rt' => flush'[q] = NoFlush)
      BY <1>1, <1>2, <3>1 DEF FlushTypes, FlushFields, Keeps, FlushIs
    <3>2. FlushFields(flush[r])' /\ ~(flush'[r].pc = "idle" \/ r > rt')
      BY <1>2, <1>3, Located DEF Keeps, FlushFields
    <3> QED BY <3>1, <3>2
  <2> QED BY <2>1 DEF FlushTypes, Keeps, FlushIs
<1>12. CancelTypes' /\ TurnTypes' /\ OfferAlwaysFits'
  BY <1>1, <1>2 DEF CancelTypes, TurnTypes, OfferAlwaysFits, Moves
<1>13. RisingInv'
  BY <1>1, <1>2 DEF RisingInv, Keeps, FlushIs, Rising
<1>14. OrderInv'
  <2>1. DOMAIN ent' = DOMAIN ent
    BY DEF Moves
  <2>2. UNCHANGED <<Begun, Starting, Buffer, Given>> /\ \A b : BatchAt(b)' = BatchAt(b)
    BY <1>2, QueueViews, GivenViews
  <2> QED BY <1>1, <1>2, <1>5, <1>6, <1>7, <2>1, <2>2 DEF OrderInv
<1>15. WaitingInv' /\ PendingInv'
  BY <1>1, <1>2, <1>4, <1>7, <1>8, GivenViews, Located DEF WaitingInv, PendingInv
<1>16. QueuedInv'
  BY <1>1, <1>2, <1>4, <1>8, QueueViews, Located DEF QueuedInv, QueuedAt
<1>17. FlushAt(r)'
  <2>1. Batch(r)' = Batch(r) /\ flush'[r].intact = flush[r].intact /\ Rest(r)' \subseteq Rest(r) \ S
    BY <1>5 DEF Keeps
  <2>2. ASSUME NEW e \in Batch(r)
        PROVE  (/\ ent[e].rt = r /\ "flush" \in ent[e].holds
                /\ live /\ r = rt => ent[e].gen <= gen
                /\ flush[r].intact => e \in inflight \/ (ent[e].creq /\ ent[e].req)
                /\ ~flush[r].intact => ent[e].req /\ e \notin inflight
                /\ IsActive(e) => flush[r].intact /\ ent[e].token = token)'
    BY <1>2, <1>3, <1>4, <1>9, <2>1 DEF FlushAt
  <2>3. ASSUME NEW e \in Batch(r), Offered(r, e)' PROVE live /\ r = rt /\ ~ent'[e].req /\ ent'[e].owner = "pending"
    <3>1. e \notin S /\ (Offered(r, e) \/ (e \in T /\ IsActive(e))) /\ e \in DOMAIN ent
      BY <1>3, <2>3 DEF Keeps
    <3>2. CASE Offered(r, e)
      <4>1. live /\ r = rt /\ ~ent[e].req /\ ent[e].owner = "pending"
        BY <1>3, <3>2 DEF FlushAt
      <4> QED BY <3>1, <4>1 DEF Moves
    <3>3. CASE e \in T /\ IsActive(e)
      <4>1. live /\ r = rt /\ ~ent[e].req
        BY <1>3, <3>3 DEF FlushAt, IsActive, Moves
      <4> QED BY <3>1, <3>3, <4>1 DEF Moves
    <3> QED BY <3>1, <3>2, <3>3
  <2>4. ASSUME NEW e \in Batch(r), ent'[e].owner = "pending" PROVE ~Unoffered(r, e)'
    BY <1>3, <2>4 DEF Keeps, Moves, FlushAt
  <2>5. ASSUME NEW e \in Batch(r), ~Unoffered(r, e)', ~Offered(r, e)' PROVE ent'[e].req
    <3>1. e \in S \/ (~Unoffered(r, e) /\ ~Offered(r, e))
      BY <2>5 DEF Keeps
    <3>2. CASE e \in S
      BY <1>3, <3>2 DEF Moves
    <3>3. CASE ~Unoffered(r, e) /\ ~Offered(r, e)
      BY <1>3, <1>4, <3>3 DEF FlushAt
    <3> QED BY <3>1, <3>2, <3>3
  <2>6. \A e \in Rest(r)' :
          /\ IsActive(e)' => ~ent'[e].req
          /\ Unoffered(r, e)' \/ (flush'[r].pc = "record" /\ e = Current(r)')
    <3>1. ASSUME NEW e \in Rest(r)', IsActive(e)' PROVE ~ent'[e].req
      <4>1. e \in Rest(r) /\ e \notin S /\ e \in DOMAIN ent
        BY <1>3, <2>1
      <4>2. ~ent[e].req
        BY <1>3, <1>9, <3>1, <4>1 DEF FlushAt
      <4> QED BY <4>1, <4>2 DEF Moves
    <3> QED BY <3>1 DEF Keeps
  <2>7. r <= rt' /\ (flush'[r].intact => live' /\ r = rt')
    BY <1>2, <1>3, <2>1 DEF FlushAt
  <2> QED BY <1>2, <2>1, <2>2, <2>3, <2>4, <2>5, <2>6, <2>7 DEF FlushAt
<1>18. FlushInv'
  <2> SUFFICES ASSUME NEW q \in Runtime, flush'[q].pc # "idle", q # r PROVE FlushAt(q)'
    BY <1>17 DEF FlushInv
  <2>1. flush'[q] = flush[q] /\ flush[q].pc # "idle" /\ FlushAt(q)
    BY <1>1 DEF FlushInv, Keeps, FlushIs
  <2>2. /\ Batch(q)' = Batch(q) /\ Rest(q)' = Rest(q) /\ Current(q)' = Current(q)
        /\ \A e : (Offered(q, e)' <=> Offered(q, e)) /\ (Unoffered(q, e)' <=> Unoffered(q, e))
    BY <2>1 DEF Batch, Rest, Current, Offered, Unoffered
  <2>3. \A e \in Batch(q) : ent'[e] = ent[e] /\ (IsActive(e)' <=> IsActive(e))
    BY <1>4, <1>8, <1>9, <2>1, Located
  <2>4. Rest(q) \subseteq Batch(q)
    BY <1>1, RestFacts
  <2> QED BY <1>2, <2>1, <2>2, <2>3, <2>4 DEF FlushAt
<1>19. IdsInv'
  BY <1>1, <1>2, <1>4, <1>7, Located DEF IdsInv, StopCompletes
<1>20. InflightInv'
  BY <1>1, <1>2, <1>4, <1>6, QueueViews, CancelViews, Located DEF InflightInv, Moves
<1>21. CancelInv'
  <2>1. ASSUME NEW c \in StopNo, cancel'[c].pc # "done", NEW e \in Marked(c)' PROVE CancelAt(c, e)'
    <3>1. cancel[c].pc # "done" /\ e \in Marked(c) /\ e \in DOMAIN ent /\ CancelAt(c, e)
      BY <1>1, <1>2, <2>1, CancelViews, Located DEF CancelInv
    <3>2. ~Offered(rt, e)'
      <4>1. CASE r = rt
        <5>1. ~Offered(r, e) /\ ~IsActive(e)
          BY <3>1, <4>1 DEF CancelAt, IsActive
        <5>2. CASE e \in Batch(r)
          BY <1>2, <4>1, <5>1, <5>2 DEF Keeps, Offered
        <5>3. CASE e \notin Batch(r)
          <6>1. DOMAIN flush'[r].offers \subseteq Batch(r)
            BY DEF Keeps, FlushFields, Batch
          <6> QED BY <1>2, <4>1, <5>3, <6>1 DEF Offered
        <5> QED BY <5>2, <5>3
      <4>2. CASE r # rt
        BY <1>2, <3>1, <4>2, Located DEF CancelAt, Offered, Keeps, FlushIs
      <4> QED BY <4>1, <4>2
    <3> QED BY <1>2, <1>4, <3>1, <3>2, GivenViews DEF CancelAt
  <2> QED BY <1>1, <1>2, <2>1, CancelViews DEF CancelInv
<1> QED BY <1>10, <1>11, <1>12, <1>13, <1>14, <1>15, <1>16, <1>18, <1>19, <1>20, <1>21 DEF PipeInv

\* What the entries are after a release or a transfer.
LEMMA ReleaseMoves ==
    ASSUME Types, NEW r, NEW S, S \subseteq Rest(r), ent' = RequestRelease(ent, S)
    PROVE  Moves(r, S, {})
<1>1. ent \in Seq(Entry)
  BY DEF Types
<1>2. /\ Born(ent, ent')
      /\ \A x \in DOMAIN ent : x \notin S => ent'[x] = ent[x]
      /\ \A x \in DOMAIN ent :
            /\ ent'[x].creq = ent[x].creq /\ ent'[x].cpend = ent[x].cpend /\ ent'[x].crun = ent[x].crun
            /\ ent'[x].retired = ent[x].retired /\ ent'[x].owner = ent[x].owner /\ ent'[x].holds = ent[x].holds
      /\ \A x \in DOMAIN ent : x \in S => ent'[x].req
  BY <1>1, Released
<1> QED BY <1>2 DEF Moves, Born

LEMMA TransferMoves ==
    ASSUME Types, NEW r, NEW e \in Rest(r), ent' = Transfer(ent, {e}, "pending")
    PROVE  Moves(r, {}, {e})
<1>1. ent \in Seq(Entry) /\ "pending" \in Owner
  BY DEF Types, Owner
<1>2. /\ Born(ent, ent')
      /\ \A x \in DOMAIN ent : x \notin {e} => ent'[x] = ent[x]
      /\ \A x \in DOMAIN ent :
            /\ ent'[x].creq = ent[x].creq /\ ent'[x].cpend = ent[x].cpend /\ ent'[x].crun = ent[x].crun
            /\ ent'[x].retired = ent[x].retired /\ ent'[x].req = ent[x].req /\ ent'[x].holds = ent[x].holds
      /\ \A x \in DOMAIN ent : x \in {e} => ent'[x].owner = "pending"
  BY <1>1, Transferred
<1> QED BY <1>2 DEF Moves, Born

LEMMA NoMoves == ASSUME Types, NEW r, ent' = ent PROVE Moves(r, {}, {})
  BY DEF Types, Moves, Born

\* The suffix of a batch is released from its current item on, or from the next.
LEMMA FlushBlocked ==
    ASSUME PipeInv, NEW r \in Runtime, flush[r].pc # "idle", flush[r].i <= Len(flush[r].batch),
           NEW k, (k = flush[r].i /\ flush[r].pc # "record") \/ k = flush[r].i + 1, Block(r, ent, k)
    PROVE  \E S : Moves(r, S, {}) /\ Keeps(r, S, {})
<1>1. Types /\ FlushTypes /\ RisingInv /\ FlushInv /\ FlushFields(flush[r]) /\ FlushAt(r)
  BY DEF PipeInv, FlushTypes, FlushInv
<1>2. PICK S : S = {flush[r].batch[j] : j \in k .. Len(flush[r].batch)}
  OBVIOUS
<1>3. ent' = RequestRelease(ent, S)
  BY <1>2 DEF Block
<1>4. PICK n \in Nat : n = Len(flush[r].batch)
  BY <1>1 DEF FlushFields
<1>5. FlushIs(r, [flush[r] EXCEPT !.pc = "item", !.i = n + 1])
  BY Zenon, <1>1, <1>4, FlushForms DEF Block
<1>6. flush'[r] = [flush[r] EXCEPT !.pc = "item", !.i = n + 1]
  BY <1>5 DEF FlushIs
<1>7. /\ IsFlush(flush'[r]) /\ flush'[r].pc = "item" /\ flush'[r].batch = flush[r].batch /\ flush'[r].i = n + 1
      /\ flush'[r].intact = flush[r].intact /\ flush'[r].offers = flush[r].offers
  BY <1>1, <1>6 DEF FlushFields, IsFlush
<1>8. /\ Rest(r)' = {} /\ (k = flush[r].i => S = Rest(r)) /\ (k = flush[r].i + 1 => S = Rest(r) \ {Current(r)})
  BY <1>1, <1>2, <1>4, <1>7, RestMoves
<1>9. S \subseteq Rest(r) /\ \A e \in S : Unoffered(r, e)
  BY <1>1, <1>8 DEF FlushAt
<1>10. \A e : (Offered(r, e)' <=> Offered(r, e)) /\ (Unoffered(r, e)' <=> Unoffered(r, e))
  BY <1>7 DEF Offered, Unoffered
<1>11. \A e \in S : ~Offered(r, e)
  BY <1>9 DEF Offered, Unoffered
<1>12. FlushFields(flush'[r])
  BY <1>1, <1>7 DEF FlushFields, FlushPc
<1>13. FlushIs(r, flush'[r])
  BY <1>5 DEF FlushIs
<1>14. Keeps(r, S, {})
  BY <1>7, <1>8, <1>10, <1>11, <1>12, <1>13 DEF Keeps
<1>15. Moves(r, S, {})
  BY <1>1, <1>3, <1>9, ReleaseMoves
<1> QED BY <1>14, <1>15

\* The current entry is released, and the flush goes on to the next.
LEMMA FlushReleased ==
    ASSUME PipeInv, NEW r \in Runtime, flush[r].pc \in {"recover", "lookup"},
           NEW f, IsFlush(f), f.batch = flush[r].batch, f.i = flush[r].i, f.intact = flush[r].intact, f.offers = flush[r].offers,
           NextItem(r, f), ent' = RequestRelease(ent, {Current(r)})
    PROVE  \E S : Moves(r, S, {}) /\ Keeps(r, S, {})
<1>1. Types /\ FlushTypes /\ RisingInv /\ FlushInv /\ FlushFields(flush[r]) /\ FlushAt(r)
  BY DEF PipeInv, FlushTypes, FlushInv
<1>2. PICK S : S = {Current(r)}
  OBVIOUS
<1>3. flush[r].i \in Nat \ {0} /\ flush[r].i <= Len(flush[r].batch) /\ Len(flush[r].batch) \in Nat
  BY <1>1 DEF FlushFields
<1>4. FlushIs(r, [f EXCEPT !.pc = "item", !.i = @ + 1])
  BY <1>1, FlushPut DEF NextItem
<1>5. flush'[r] = [f EXCEPT !.pc = "item", !.i = flush[r].i + 1]
  BY <1>4 DEF FlushIs
<1>6. /\ IsFlush(flush'[r]) /\ flush'[r].pc = "item" /\ flush'[r].batch = flush[r].batch /\ flush'[r].i = flush[r].i + 1
      /\ flush'[r].intact = flush[r].intact /\ flush'[r].offers = flush[r].offers
  BY <1>5 DEF IsFlush
<1>7. /\ Rest(r)' = Rest(r) \ S
  BY <1>1, <1>2, <1>3, <1>6, RestMoves
<1>8. S \subseteq Rest(r)
  BY <1>1, <1>2, <1>3, RestFacts
<1>9. \A e \in Rest(r) : Unoffered(r, e)
  BY <1>1 DEF FlushAt
<1>10. \A e : (Offered(r, e)' <=> Offered(r, e)) /\ (Unoffered(r, e)' <=> Unoffered(r, e))
  BY <1>6 DEF Offered, Unoffered
<1>11. \A e \in S : ~Offered(r, e)
  BY <1>8, <1>9 DEF Offered, Unoffered
<1>12. FlushFields(flush'[r])
  BY <1>1, <1>3, <1>6 DEF FlushFields, FlushPc
<1>13. FlushIs(r, flush'[r])
  BY <1>4 DEF FlushIs
<1>14. Keeps(r, S, {})
  BY <1>6, <1>7, <1>9, <1>10, <1>11, <1>12, <1>13 DEF Keeps
<1>15. Moves(r, S, {})
  BY <1>1, <1>2, <1>8, ReleaseMoves
<1> QED BY <1>14, <1>15

\* The current entry is offered to the dispatcher's lease.
LEMMA FlushOffered ==
    ASSUME PipeInv, NEW r \in Runtime, flush[r].pc # "idle", flush[r].pc # "record", flush[r].i <= Len(flush[r].batch),
           IsActive(Current(r)), ent' = Transfer(ent, {Current(r)}, "pending"),
           FlushIs(r, flush'[r]), IsFlush(flush'[r]), flush'[r].batch = flush[r].batch, flush'[r].intact = flush[r].intact,
           NEW h \in OfferState \ {"back"}, flush'[r].offers = Offer(flush[r].offers, Current(r), h),
           \/ flush'[r].pc = "item" /\ flush'[r].i = flush[r].i + 1
           \/ flush'[r].pc = "record" /\ flush'[r].i = flush[r].i
    PROVE  \E T : Moves(r, {}, T) /\ Keeps(r, {}, T)
<1>1. Types /\ FlushTypes /\ RisingInv /\ FlushInv /\ FlushFields(flush[r]) /\ FlushAt(r)
  BY DEF PipeInv, FlushTypes, FlushInv
<1>2. PICK e : e = Current(r)
  OBVIOUS
<1>3. flush[r].i \in Nat \ {0} /\ Len(flush[r].batch) \in Nat
  BY <1>1 DEF FlushFields
<1>4. e \in Rest(r) /\ e \in Batch(r)
  BY <1>1, <1>2, RestFacts
<1>5. \A x \in Rest(r) : Unoffered(r, x)
  BY <1>1 DEF FlushAt
<1>6. /\ DOMAIN flush'[r].offers = DOMAIN flush[r].offers \union {e} /\ flush'[r].offers[e] = h
      /\ \A x \in DOMAIN flush[r].offers : x # e => flush'[r].offers[x] = flush[r].offers[x]
  BY <1>2 DEF Offer
<1>7. \A x : Unoffered(r, x)' <=> Unoffered(r, x) /\ x # e
  BY <1>6 DEF Unoffered
<1>8. Offered(r, e)' /\ \A x : x # e => (Offered(r, x)' <=> Offered(r, x))
  BY <1>6 DEF Offered, OfferState
<1>9. FlushFields(flush'[r])
  <2>1. \A x \in DOMAIN flush'[r].offers : flush'[r].offers[x] \in OfferState
    BY <1>1, <1>6 DEF FlushFields
  <2>2. DOMAIN flush'[r].offers \subseteq ToSet(flush'[r].batch)
    BY <1>1, <1>4, <1>6 DEF FlushFields, Batch
  <2>3. flush'[r].i \in Nat \ {0} /\ (flush'[r].pc \in {"recover", "lookup", "record"} => flush'[r].i <= Len(flush'[r].batch))
    BY <1>3
  <2>4. flush'[r].pc \in FlushPc /\ flush'[r].batch \in Seq(Nat) /\ flush'[r].intact \in BOOLEAN
    BY <1>1 DEF FlushFields, FlushPc
  <2> QED BY <2>1, <2>2, <2>3, <2>4 DEF FlushFields
<1>10. /\ Rest(r)' \subseteq Rest(r)
       /\ \A x \in Rest(r)' : x # e \/ (flush'[r].pc = "record" /\ x = Current(r)')
  <2>1. CASE flush'[r].pc = "item" /\ flush'[r].i = flush[r].i + 1
    <3>1. Rest(r)' = Rest(r) \ {e}
      BY <1>1, <1>2, <1>3, <2>1, RestMoves
    <3> QED BY <3>1
  <2>2. CASE flush'[r].pc = "record" /\ flush'[r].i = flush[r].i
    <3>1. Rest(r)' = Rest(r) /\ Current(r)' = e
      BY <1>1, <1>2, <1>3, <2>2, RestMoves
    <3> QED BY <2>2, <3>1
  <2> QED BY <2>1, <2>2
<1>11. flush'[r].pc # "idle"
  OBVIOUS
<1>12. Keeps(r, {}, {e})
  BY <1>2, <1>5, <1>7, <1>8, <1>9, <1>10, <1>11 DEF Keeps
<1>13. Moves(r, {}, {e})
  BY <1>1, <1>2, <1>4, TransferMoves
<1> QED BY <1>12, <1>13

\* Everything but the entries and the flushes, as far as the pipeline goes.
around == <<waiting, queued, gen, inflight, ids, cancel, pending, turn, rt, live, token, ran, stops, broken>>
FlushStepped(r) ==
    flush[r].pc # "idle" /\ (\E S, T : Moves(r, S, T) /\ Keeps(r, S, T)) /\ UNCHANGED around

\* The flush goes on without a change to the entries.
LEMMA FlushUnmoved ==
    ASSUME PipeInv, NEW r \in Runtime, flush[r].pc # "idle", flush[r].pc # "record", ent' = ent,
           NEW p \in FlushPc \ {"idle"}, p \in {"recover", "lookup", "record"} => flush[r].i <= Len(flush[r].batch),
           flush' = [flush EXCEPT ![r].pc = p]
    PROVE  Moves(r, {}, {}) /\ Keeps(r, {}, {})
<1>1. Types /\ FlushTypes /\ RisingInv /\ FlushInv /\ FlushFields(flush[r]) /\ FlushAt(r)
  BY DEF PipeInv, FlushTypes, FlushInv
<1>2. FlushIs(r, [flush[r] EXCEPT !.pc = p])
  BY Zenon, <1>1, FlushForms
<1>3. flush'[r] = [flush[r] EXCEPT !.pc = p]
  BY <1>2 DEF FlushIs
<1>4. /\ IsFlush(flush'[r]) /\ flush'[r].pc = p /\ flush'[r].batch = flush[r].batch /\ flush'[r].i = flush[r].i
      /\ flush'[r].intact = flush[r].intact /\ flush'[r].offers = flush[r].offers
  BY <1>1, <1>3 DEF FlushFields, IsFlush
<1>5. FlushFields(flush'[r])
  BY <1>1, <1>4 DEF FlushFields
<1>6. Rest(r)' = Rest(r)
  BY <1>1, <1>4, RestMoves DEF FlushFields
<1>7. \A e \in Rest(r) : Unoffered(r, e)
  BY <1>1 DEF FlushAt
<1>8. \A e : (Offered(r, e)' <=> Offered(r, e)) /\ (Unoffered(r, e)' <=> Unoffered(r, e))
  BY <1>4 DEF Offered, Unoffered
<1>9. FlushIs(r, flush'[r])
  BY <1>2 DEF FlushIs
<1> QED BY <1>1, <1>4, <1>5, <1>6, <1>7, <1>8, <1>9, NoMoves DEF Keeps

\* A retained frame that is still active fits the lease.
LEMMA ActiveFits ==
    ASSUME PipeInv, NEW r \in Runtime, flush[r].pc # "idle", flush[r].i <= Len(flush[r].batch), IsActive(Current(r))
    PROVE  OfferFits(Current(r))
<1>1. FlushTypes /\ FlushAt(r)
  BY DEF PipeInv, FlushInv
<1>2. Current(r) \in Rest(r) /\ Current(r) \in Batch(r)
  BY <1>1, RestFacts
<1> QED BY <1>1, <1>2 DEF FlushAt, OfferFits

LEMMA FlushItemSteps == ASSUME PipeInv, NEW r \in Runtime, FlushItem(r) PROVE FlushStepped(r)
<1>1. flush[r].pc = "item" /\ flush[r].i <= Len(flush[r].batch)
  BY DEF FlushItem
<1>2. UNCHANGED <<waiting, queued, gen, inflight, ids, cancel, pending, turn, rt, live, token, ran, stops>>
  BY DEF FlushItem, dispatcher, runtime, counters
<1>3. FlushTypes /\ FlushFields(flush[r])
  BY DEF PipeInv, FlushTypes
<1>4. CASE Block(r, ent, flush[r].i) /\ UNCHANGED broken
  BY <1>1, <1>2, <1>4, FlushBlocked DEF FlushStepped, around
<1>5. CASE /\ IsActive(Current(r)) /\ OfferFits(Current(r))
           /\ ent' = Transfer(ent, {Current(r)}, "pending")
           /\ NextItem(r, [flush[r] EXCEPT !.offers = Offer(@, Current(r), "committed")])
           /\ UNCHANGED broken
  <2>1. PICK g : g = [[flush[r] EXCEPT !.offers = Offer(@, Current(r), "committed")] EXCEPT !.pc = "item", !.i = @ + 1]
    OBVIOUS
  <2>2. FlushIs(r, g)
    BY <1>3, <1>5, <2>1, FlushPut DEF NextItem
  <2>3. flush'[r] = g /\ FlushIs(r, flush'[r])
    BY <2>2 DEF FlushIs
  <2>4. /\ IsFlush(g) /\ g.pc = "item" /\ g.batch = flush[r].batch /\ g.i = flush[r].i + 1 /\ g.intact = flush[r].intact
        /\ g.offers = Offer(flush[r].offers, Current(r), "committed")
    BY <1>3, <2>1 DEF FlushFields, IsFlush
  <2>5. "committed" \in OfferState \ {"back"}
    BY DEF OfferState
  <2>6. \E T : Moves(r, {}, T) /\ Keeps(r, {}, T)
    BY <1>1, <1>5, <2>3, <2>4, <2>5, FlushOffered
  <2> QED BY <1>1, <1>2, <1>5, <2>6 DEF FlushStepped, around
<1>6. CASE IsActive(Current(r)) /\ ~OfferFits(Current(r))
  BY <1>1, <1>6, ActiveFits
<1>7. CASE /\ flush' = [flush EXCEPT ![r].pc = IF ent[Current(r)].m \in tomb THEN "recover" ELSE "lookup"]
           /\ UNCHANGED <<ent, broken>>
  <2>1. PICK p \in {"recover", "lookup"} : p = (IF ent[Current(r)].m \in tomb THEN "recover" ELSE "lookup")
    OBVIOUS
  <2>2. flush' = [flush EXCEPT ![r].pc = p] /\ p \in FlushPc \ {"idle"}
    BY <1>7, <2>1 DEF FlushPc
  <2>3. Moves(r, {}, {}) /\ Keeps(r, {}, {})
    BY <1>1, <1>7, <2>2, FlushUnmoved
  <2> QED BY <1>1, <1>2, <1>7, <2>3 DEF FlushStepped, around
<1> QED BY <1>4, <1>5, <1>6, <1>7 DEF FlushItem

LEMMA FlushRecoverSteps == ASSUME PipeInv, NEW r \in Runtime, FlushRecover(r) PROVE FlushStepped(r)
<1>1. flush[r].pc = "recover"
  BY DEF FlushRecover
<1>2. UNCHANGED around
  BY DEF FlushRecover, dispatcher, runtime, around
<1>3. FlushTypes /\ FlushFields(flush[r]) /\ flush[r].i <= Len(flush[r].batch)
  BY <1>1 DEF PipeInv, FlushTypes, FlushFields
<1>4. CASE Block(r, ent, flush[r].i)
  BY <1>1, <1>2, <1>3, <1>4, FlushBlocked DEF FlushStepped
<1>5. CASE ent' = RequestRelease(ent, {Current(r)}) /\ NextItem(r, flush[r])
  <2>1. IsFlush(flush[r])
    BY <1>3 DEF FlushFields
  <2>2. \E S : Moves(r, S, {}) /\ Keeps(r, S, {})
    BY <1>1, <1>5, <2>1, FlushReleased
  <2> QED BY <1>1, <1>2, <2>2 DEF FlushStepped
<1> QED BY <1>4, <1>5 DEF FlushRecover

LEMMA FlushLookupSteps == ASSUME PipeInv, NEW r \in Runtime, FlushLookup(r) PROVE FlushStepped(r)
<1>1. flush[r].pc = "lookup"
  BY DEF FlushLookup
<1>2. UNCHANGED <<waiting, queued, gen, inflight, ids, cancel, pending, turn, rt, live, token, ran, stops>>
  BY DEF FlushLookup, dispatcher, runtime
<1>3. FlushTypes /\ FlushFields(flush[r]) /\ IsFlush(flush[r]) /\ flush[r].i <= Len(flush[r].batch)
  BY <1>1 DEF PipeInv, FlushTypes, FlushFields
<1>4. CASE Block(r, ent, flush[r].i) /\ UNCHANGED broken
  BY <1>1, <1>2, <1>3, <1>4, FlushBlocked DEF FlushStepped, around
<1>5. CASE /\ ent' = RequestRelease(ent, {Current(r)}) /\ UNCHANGED broken
           /\ NextItem(r, IF LookupOutcome(ent[Current(r)].m) = "accepted"
                          THEN [flush[r] EXCEPT !.acks = @ \union {ent[Current(r)].m}]
                          ELSE [flush[r] EXCEPT !.rejs = @ \union {ent[Current(r)].m}])
  <2>1. PICK f : f = IF LookupOutcome(ent[Current(r)].m) = "accepted"
                     THEN [flush[r] EXCEPT !.acks = @ \union {ent[Current(r)].m}]
                     ELSE [flush[r] EXCEPT !.rejs = @ \union {ent[Current(r)].m}]
    OBVIOUS
  <2>2. IsFlush(f) /\ f.batch = flush[r].batch /\ f.i = flush[r].i /\ f.intact = flush[r].intact /\ f.offers = flush[r].offers
    <3>1. CASE LookupOutcome(ent[Current(r)].m) = "accepted"
      BY <1>3, <2>1, <3>1 DEF IsFlush
    <3>2. CASE LookupOutcome(ent[Current(r)].m) # "accepted"
      BY <1>3, <2>1, <3>2 DEF IsFlush
    <3> QED BY <3>1, <3>2
  <2>3. NextItem(r, f)
    BY <1>5, <2>1
  <2>4. \E S : Moves(r, S, {}) /\ Keeps(r, S, {})
    BY <1>1, <1>5, <2>2, <2>3, FlushReleased
  <2> QED BY <1>1, <1>2, <1>5, <2>4 DEF FlushStepped, around
<1>6. CASE /\ IsActive(Current(r)) /\ OfferFits(Current(r)) /\ UNCHANGED broken
           /\ ent' = Transfer(ent, {Current(r)}, "pending")
           /\ flush' = [flush EXCEPT ![r].pc = "record", ![r].offers = Offer(@, Current(r), "provisional")]
  <2>1. PICK o : o = Offer(flush[r].offers, Current(r), "provisional")
    OBVIOUS
  <2>2. flush' = [flush EXCEPT ![r].pc = "record", ![r].offers = o]
    <3>1. flush = [q \in Runtime |-> flush[q]]
      BY <1>3 DEF FlushTypes
    <3> QED BY <1>3, <1>6, <2>1, <3>1 DEF IsFlush
  <2>3. FlushIs(r, [flush[r] EXCEPT !.pc = "record", !.offers = o])
    BY Zenon, <1>3, <2>2, FlushForms
  <2>4. flush'[r] = [flush[r] EXCEPT !.pc = "record", !.offers = o] /\ FlushIs(r, flush'[r])
    BY <2>3 DEF FlushIs
  <2>5. /\ IsFlush(flush'[r]) /\ flush'[r].pc = "record" /\ flush'[r].batch = flush[r].batch /\ flush'[r].i = flush[r].i
        /\ flush'[r].intact = flush[r].intact /\ flush'[r].offers = o
    BY <1>3, <2>4 DEF IsFlush
  <2>6. "provisional" \in OfferState \ {"back"}
    BY DEF OfferState
  <2>7. \E T : Moves(r, {}, T) /\ Keeps(r, {}, T)
    BY <1>1, <1>3, <1>6, <2>1, <2>4, <2>5, <2>6, FlushOffered
  <2> QED BY <1>1, <1>2, <1>6, <2>7 DEF FlushStepped, around
<1>7. CASE IsActive(Current(r)) /\ ~OfferFits(Current(r))
  BY <1>1, <1>3, <1>7, ActiveFits
<1> QED BY <1>4, <1>5, <1>6, <1>7 DEF FlushLookup

LEMMA FlushRecordSteps == ASSUME PipeInv, NEW r \in Runtime, FlushRecord(r) PROVE FlushStepped(r)
<1>1. flush[r].pc = "record"
  BY DEF FlushRecord
<1>2. UNCHANGED around
  BY DEF FlushRecord, dispatcher, runtime, history, around
<1>3. /\ Types /\ RisingInv /\ FlushTypes /\ FlushAt(r)
      /\ FlushFields(flush[r]) /\ IsFlush(flush[r]) /\ flush[r].i <= Len(flush[r].batch)
      /\ Len(flush[r].batch) \in Nat /\ flush[r].i \in Nat \ {0}
  BY <1>1 DEF PipeInv, FlushTypes, FlushFields, FlushInv
<1>4. PICK e : e = Current(r)
  OBVIOUS
<1>5. e \in Rest(r) /\ e \in Batch(r)
  BY <1>3, <1>4, RestFacts
<1>6. \A x \in Rest(r) : x # e => Unoffered(r, x)
  BY <1>3, <1>4 DEF FlushAt
<1>7. CASE Block(r, ent, flush[r].i + 1)
  BY <1>1, <1>2, <1>3, <1>7, FlushBlocked DEF FlushStepped
<1>8. CASE /\ flush' = [flush EXCEPT ![r].pc = "item", ![r].i = Len(flush[r].batch) + 1, ![r].offers[e] = "back"]
           /\ ent' = RequestRelease(ent, {flush[r].batch[j] : j \in flush[r].i .. Len(flush[r].batch)})
  <2>1. FlushIs(r, [flush[r] EXCEPT !.pc = "item", !.i = Len(flush[r].batch) + 1, !.offers[e] = "back"])
    BY Zenon, <1>3, <1>8, FlushForms
  <2>2. flush'[r] = [flush[r] EXCEPT !.pc = "item", !.i = Len(flush[r].batch) + 1, !.offers[e] = "back"] /\ FlushIs(r, flush'[r])
    BY <2>1 DEF FlushIs
  <2>3. /\ IsFlush(flush'[r]) /\ flush'[r].pc = "item" /\ flush'[r].batch = flush[r].batch
        /\ flush'[r].i = Len(flush[r].batch) + 1
        /\ flush'[r].intact = flush[r].intact /\ flush'[r].offers = [flush[r].offers EXCEPT ![e] = "back"]
    BY <1>3, <2>2 DEF IsFlush
  <2>4. Rest(r)' = {} /\ {flush[r].batch[j] : j \in flush[r].i .. Len(flush[r].batch)} = Rest(r)
    BY <1>3, <2>3, RestMoves
  <2>5. Moves(r, Rest(r), {})
    BY <1>3, <1>8, <2>4, ReleaseMoves
  <2>6. /\ DOMAIN flush'[r].offers = DOMAIN flush[r].offers
        /\ \A x \in DOMAIN flush[r].offers : flush'[r].offers[x] = IF x = e THEN "back" ELSE flush[r].offers[x]
    BY <2>3
  <2>7. /\ \A x : Unoffered(r, x)' <=> Unoffered(r, x)
        /\ \A x : Offered(r, x)' => Offered(r, x) /\ x # e
        /\ \A x : Offered(r, x) /\ x # e => Offered(r, x)'
    BY <2>6 DEF Unoffered, Offered
  <2>8. FlushFields(flush'[r])
    <3>1. \A x \in DOMAIN flush'[r].offers : flush'[r].offers[x] \in OfferState
      BY <1>3, <2>6 DEF FlushFields, OfferState
    <3>2. DOMAIN flush'[r].offers \subseteq ToSet(flush'[r].batch)
      BY <1>3, <2>3, <2>6 DEF FlushFields
    <3> QED BY <1>3, <2>3, <3>1, <3>2 DEF FlushFields, FlushPc
  <2>9. \A x \in Rest(r) : ~Offered(r, x)'
    BY <1>6, <2>7 DEF Offered, Unoffered
  <2>10. Keeps(r, Rest(r), {})
    BY <1>5, <2>2, <2>3, <2>4, <2>7, <2>8, <2>9 DEF Keeps
  <2> QED BY <1>1, <1>2, <2>5, <2>10 DEF FlushStepped
<1>9. CASE /\ IsActive(e) /\ ent' = ent
           /\ NextItem(r, [flush[r] EXCEPT !.offers[e] = "recorded", !.acks = @ \union {ent[e].m}])
  <2>1. PICK g : g = [[flush[r] EXCEPT !.offers[e] = "recorded", !.acks = @ \union {ent[e].m}] EXCEPT !.pc = "item", !.i = @ + 1]
    OBVIOUS
  <2>2. FlushIs(r, g)
    BY <1>3, <1>9, <2>1, FlushPut DEF NextItem
  <2>3. flush'[r] = g /\ FlushIs(r, flush'[r])
    BY <2>2 DEF FlushIs
  <2>4. /\ IsFlush(g) /\ g.pc = "item" /\ g.batch = flush[r].batch /\ g.i = flush[r].i + 1 /\ g.intact = flush[r].intact
        /\ g.offers = [flush[r].offers EXCEPT ![e] = "recorded"]
    BY <1>3, <2>1 DEF IsFlush
  <2>5. Rest(r)' = Rest(r) \ {e}
    BY <1>3, <1>4, <2>3, <2>4, RestMoves
  <2>6. Moves(r, {}, {})
    BY <1>3, <1>9, NoMoves
  <2>7. /\ DOMAIN flush'[r].offers = DOMAIN flush[r].offers
        /\ \A x \in DOMAIN flush[r].offers : flush'[r].offers[x] = IF x = e THEN "recorded" ELSE flush[r].offers[x]
    BY <2>3, <2>4
  <2>8. /\ \A x : Unoffered(r, x)' <=> Unoffered(r, x)
        /\ \A x : x # e => (Offered(r, x)' <=> Offered(r, x))
    BY <2>7 DEF Unoffered, Offered
  <2>9. Unoffered(r, e) \/ Offered(r, e)
    BY <1>3, <1>5, <1>9 DEF FlushAt
  <2>10. Offered(r, e)' <=> Offered(r, e)
    BY <2>7, <2>9 DEF Unoffered, Offered
  <2>11. FlushFields(flush'[r])
    <3>1. \A x \in DOMAIN flush'[r].offers : flush'[r].offers[x] \in OfferState
      BY <1>3, <2>7 DEF FlushFields, OfferState
    <3>2. DOMAIN flush'[r].offers \subseteq ToSet(flush'[r].batch)
      BY <1>3, <2>3, <2>4, <2>7 DEF FlushFields
    <3> QED BY <1>3, <2>3, <2>4, <3>1, <3>2 DEF FlushFields, FlushPc
  <2>12. Keeps(r, {}, {})
    BY <1>6, <2>3, <2>4, <2>5, <2>8, <2>10, <2>11 DEF Keeps
  <2> QED BY <1>1, <1>2, <2>6, <2>12 DEF FlushStepped
<1> QED BY <1>4, <1>7, <1>8, <1>9 DEF FlushRecord

LEMMA FlushInvalidatedSteps == ASSUME PipeInv, NEW r \in Runtime, FlushInvalidated(r) PROVE FlushStepped(r)
<1>1. flush[r].pc = "item" /\ flush' = [flush EXCEPT ![r].pc = "await"] /\ ent' = ent
  BY DEF FlushInvalidated, debouncer
<1>2. UNCHANGED around
  BY DEF FlushInvalidated, dispatcher, runtime, history, debouncer, counters, around
<1>3. "await" \in FlushPc \ {"idle"}
  BY DEF FlushPc
<1>4. Moves(r, {}, {}) /\ Keeps(r, {}, {})
  BY <1>1, <1>3, FlushUnmoved
<1> QED BY <1>1, <1>2, <1>4 DEF FlushStepped

LEMMA FlushSteppedPipe == ASSUME PipeInv, NEW r \in Runtime, FlushStepped(r) PROVE PipeInv'
  BY FlushProgress DEF FlushStepped, around

(***************************************************************************)
(* The dispatcher starts a turn with all of its buffer.                    *)
(***************************************************************************)
TurnOf(t) == IF t.pc = "starting" THEN ToSet(t.ents) ELSE {}

LEMMA DrainFacts ==
    ASSUME NEW en \in Seq(Entry), NEW p \in Seq(Nat), NEW t, NEW lease, Drain(en, p, t, lease),
           t = [pc |-> t.pc, ents |-> t.ents], t.pc \in {"idle", "starting", "running"}, t.ents \in Seq(Nat),
           Rising(p), Rising(t.ents)
    PROVE  /\ Born(en, ent') /\ DOMAIN ent' = DOMAIN en
           /\ \A x \in DOMAIN en :
                 /\ ent'[x].creq = en[x].creq /\ ent'[x].cpend = en[x].cpend /\ ent'[x].crun = en[x].crun
                 /\ ent'[x].retired = en[x].retired /\ ent'[x].owner = en[x].owner /\ ent'[x].holds = en[x].holds
                 /\ x \notin ToSet(p) => ent'[x] = en[x]
                 /\ x \in Buffer' => ent'[x] = en[x]
                 /\ en[x].req => ent'[x].req
                 /\ x \in ToSet(p) => x \in Buffer' \/ ent'[x].req
           /\ TurnTypes' /\ pending' \in Seq(Nat) /\ Rising(pending)' /\ Rising(turn.ents)'
           /\ Starting' \union Buffer' = TurnOf(t) \union ToSet(p)
           /\ Buffer' \subseteq ToSet(p)
           /\ (Starting' = TurnOf(t) /\ Buffer' = ToSet(p)) \/ (TurnOf(t) = {} /\ Starting' = ToSet(p) /\ Buffer' = {})
<1>1. CASE t.pc = "idle" /\ ~lease /\ p # <<>>
  <2>1. ent' = RequestRelease(en, ToSet(p)) /\ pending' = <<>> /\ turn' = [pc |-> "starting", ents |-> p]
    BY <1>1 DEF Drain
  <2>2. Buffer' = {}
    BY <2>1, EmptySet DEF Buffer
  <2>3. turn'.pc = "starting" /\ turn'.ents = p /\ TurnTypes'
    BY <2>1 DEF TurnTypes
  <2>4. Starting' = ToSet(p) /\ TurnOf(t) = {}
    BY <1>1, <2>3 DEF Starting, TurnOf
  <2>5. pending' \in Seq(Nat) /\ Rising(pending)' /\ Rising(turn.ents)'
    BY <2>1, <2>3, EmptySet DEF Rising
  <2>6. Born(en, ent') /\ DOMAIN ent' = DOMAIN en
    BY <2>1, Released DEF Born
  <2>7. \A x \in DOMAIN en :
                 /\ ent'[x].creq = en[x].creq /\ ent'[x].cpend = en[x].cpend /\ ent'[x].crun = en[x].crun
                 /\ ent'[x].retired = en[x].retired /\ ent'[x].owner = en[x].owner /\ ent'[x].holds = en[x].holds
                 /\ x \notin ToSet(p) => ent'[x] = en[x]
                 /\ x \in ToSet(p) => ent'[x].req
    BY <2>1, Released
  <2> QED BY <2>2, <2>3, <2>4, <2>5, <2>6, <2>7
<1>2. CASE ~(t.pc = "idle" /\ ~lease /\ p # <<>>)
  <2>1. ent' = en /\ pending' = p /\ turn' = t
    BY <1>2 DEF Drain
  <2>2. Buffer' = ToSet(p) /\ Starting' = TurnOf(t) /\ TurnTypes'
    BY <2>1 DEF Buffer, Starting, TurnOf, TurnTypes
  <2>3. Rising(pending)' /\ Rising(turn.ents)'
    BY <2>1 DEF Rising
  <2>4. Born(en, ent') /\ DOMAIN ent' = DOMAIN en
    BY <2>1 DEF Born
  <2>5. \A x \in DOMAIN en : ent'[x] = en[x]
    BY <2>1
  <2>6. pending' \in Seq(Nat)
    BY <2>1
  <2>7. \A x \in DOMAIN en :
                 /\ ent'[x].creq = en[x].creq /\ ent'[x].cpend = en[x].cpend /\ ent'[x].crun = en[x].crun
                 /\ ent'[x].retired = en[x].retired /\ ent'[x].owner = en[x].owner /\ ent'[x].holds = en[x].holds
                 /\ x \notin ToSet(p) => ent'[x] = en[x]
                 /\ x \in Buffer' => ent'[x] = en[x]
                 /\ en[x].req => ent'[x].req
                 /\ x \in ToSet(p) => x \in Buffer'
    BY <2>2, <2>5
  <2>8. Starting' \union Buffer' = TurnOf(t) \union ToSet(p) /\ Buffer' \subseteq ToSet(p)
    BY <2>2
  <2> QED BY <2>2, <2>3, <2>4, <2>6, <2>7, <2>8
<1> QED BY <1>1, <1>2

LEMMA HandlerSettledPipe == ASSUME PipeInv, HandlerSettled PROVE PipeInv'
<1>1. /\ Types /\ FlushTypes /\ CancelTypes /\ TurnTypes /\ RisingInv /\ OrderInv /\ WaitingInv
      /\ QueuedInv /\ FlushInv /\ IdsInv /\ InflightInv /\ CancelInv /\ PendingInv /\ OfferAlwaysFits
  BY DEF PipeInv
<1>2. /\ UNCHANGED <<waiting, queued, gen, inflight, ids, flush, cancel, rt, live, token, ran, stops, broken>>
      /\ turn.pc = "running" /\ Drain(ent, pending, NoTurn, LeaseOpen)
  BY DEF HandlerSettled, runtime, counters, history
<1>3. ent \in Seq(Entry) /\ pending \in Seq(Nat) /\ Rising(pending)
  BY <1>1 DEF Types, RisingInv
<1>4. /\ NoTurn = [pc |-> NoTurn.pc, ents |-> NoTurn.ents] /\ NoTurn.pc = "idle" /\ NoTurn.ents = <<>>
      /\ NoTurn.ents \in Seq(Nat) /\ Rising(NoTurn.ents) /\ TurnOf(NoTurn) = {}
  BY EmptySet DEF NoTurn, Rising, TurnOf
<1>5. /\ Born(ent, ent') /\ DOMAIN ent' = DOMAIN ent
      /\ \A x \in DOMAIN ent :
            /\ ent'[x].creq = ent[x].creq /\ ent'[x].cpend = ent[x].cpend /\ ent'[x].crun = ent[x].crun
            /\ ent'[x].retired = ent[x].retired /\ ent'[x].owner = ent[x].owner /\ ent'[x].holds = ent[x].holds
            /\ x \notin Buffer => ent'[x] = ent[x]
            /\ x \in Buffer' => ent'[x] = ent[x]
            /\ ent[x].req => ent'[x].req
      /\ TurnTypes' /\ pending' \in Seq(Nat) /\ Rising(pending)' /\ Rising(turn.ents)'
      /\ Buffer' \subseteq Buffer
      /\ (Starting' = {} /\ Buffer' = Buffer) \/ (Starting' = Buffer /\ Buffer' = {})
  <2>1. ToSet(pending) = Buffer
    BY DEF Buffer
  <2>2. PICK lease \in BOOLEAN : lease <=> LeaseOpen
    BY DEF LeaseOpen
  <2>3. PICK t : t = NoTurn
    OBVIOUS
  <2>4. Drain(ent, pending, t, lease)
    BY <1>2, <2>2, <2>3 DEF Drain
  <2>5. /\ t = [pc |-> t.pc, ents |-> t.ents] /\ t.pc \in {"idle", "starting", "running"}
        /\ t.ents \in Seq(Nat) /\ Rising(t.ents) /\ TurnOf(t) = {}
    BY <1>4, <2>3
  <2>6. PICK p \in Seq(Nat) : p = pending /\ Rising(p) /\ Drain(ent, p, t, lease) /\ ToSet(p) = Buffer
    BY <1>3, <2>1, <2>4
  <2>7. /\ Born(ent, ent') /\ DOMAIN ent' = DOMAIN ent
        /\ \A x \in DOMAIN ent :
            /\ ent'[x].creq = ent[x].creq /\ ent'[x].cpend = ent[x].cpend /\ ent'[x].crun = ent[x].crun
            /\ ent'[x].retired = ent[x].retired /\ ent'[x].owner = ent[x].owner /\ ent'[x].holds = ent[x].holds
            /\ x \notin ToSet(p) => ent'[x] = ent[x]
            /\ x \in Buffer' => ent'[x] = ent[x]
            /\ ent[x].req => ent'[x].req
    BY <1>3, <2>5, <2>6, DrainFacts
  <2>8. /\ TurnTypes' /\ pending' \in Seq(Nat) /\ Rising(pending)' /\ Rising(turn.ents)'
        /\ Buffer' \subseteq ToSet(p)
        /\ (Starting' = TurnOf(t) /\ Buffer' = ToSet(p)) \/ (TurnOf(t) = {} /\ Starting' = ToSet(p) /\ Buffer' = {})
    BY <1>3, <2>5, <2>6, DrainFacts
  <2> QED BY <2>5, <2>6, <2>7, <2>8
<1>6. \A x \in DOMAIN ent :
            /\ ent'[x].m = ent[x].m /\ ent'[x].rt = ent[x].rt /\ ent'[x].token = ent[x].token /\ ent'[x].gen = ent[x].gen
  BY <1>5 DEF Born
<1>7. Starting = {} /\ Begun' = Begun /\ Given' = Given /\ Window' = Window
  BY <1>2, <1>5 DEF Starting, Begun, Given, Window
<1>8. Types'
  BY <1>1, <1>2, <1>5, Located DEF Types, Born
<1>9. FlushTypes' /\ CancelTypes' /\ TurnTypes' /\ OfferAlwaysFits'
  BY <1>1, <1>2, <1>5 DEF FlushTypes, FlushFields, CancelTypes, OfferAlwaysFits
<1>10. RisingInv'
  BY <1>1, <1>2, <1>5 DEF RisingInv, Rising
<1>11. OrderInv'
  <2>1. Batch(rt)' = Batch(rt)
    BY <1>2 DEF Batch
  <2>2. Below(Begun', Starting') /\ Below(Begun' \union Starting', Buffer')
    BY <1>1, <1>5, <1>7 DEF OrderInv, Below
  <2> QED BY Zenon, <1>1, <1>2, <1>5, <1>7, <2>1, <2>2, FlushViews, QueueViews DEF OrderInv
<1>12. /\ \A e \in Window : e \notin Buffer
       /\ \A e \in Batch(rt) : e \notin Buffer
       /\ \A b \in DOMAIN queued : \A e \in BatchAt(b) : e \notin Buffer
  <2>1. /\ Below(Given, Window) /\ Below(Given, Batch(rt)) /\ \A b \in DOMAIN queued : Below(Given, BatchAt(b))
    BY <1>1 DEF OrderInv, Below
  <2>2. Buffer \subseteq Given
    BY DEF Given
  <2>3. \A e \in Buffer : e \in Nat
    BY Located
  <2> QED BY <2>1, <2>2, <2>3 DEF Below
<1>13. WaitingInv' /\ PendingInv' /\ IdsInv'
  <2>1. WaitingInv'
    BY <1>1, <1>2, <1>5, <1>7, <1>12, Located DEF WaitingInv
  <2>2. PendingInv'
    BY <1>1, <1>2, <1>5, Located DEF PendingInv
  <2>3. IdsInv'
    BY <1>1, <1>2, <1>6, <1>7, Located DEF IdsInv, StopCompletes
  <2> QED BY <2>1, <2>2, <2>3
<1>14. QueuedInv'
  <2> SUFFICES ASSUME NEW b \in DOMAIN queued', NEW e \in BatchAt(b)' PROVE QueuedAt(b, e)'
    BY DEF QueuedInv
  <2>1. b \in DOMAIN queued /\ e \in BatchAt(b) /\ e \in DOMAIN ent /\ queued'[b] = queued[b] /\ ent'[e] = ent[e]
    BY <1>2, <1>5, <1>12, QueueViews, Located
  <2>2. QueuedAt(b, e)
    BY <1>1, <2>1 DEF QueuedInv
  <2> QED BY <1>2, <2>1, <2>2 DEF QueuedAt
<1>15. FlushInv'
  <2> SUFFICES ASSUME NEW r \in Runtime, flush'[r].pc # "idle" PROVE FlushAt(r)'
    BY DEF FlushInv
  <2>1. flush[r].pc # "idle" /\ FlushAt(r)
    BY <1>1, <1>2 DEF FlushInv
  <2>2. Rest(r) \subseteq Batch(r) /\ \A e \in Batch(r) : e \in DOMAIN ent
    BY <1>1, RestFacts, Located
  <2>3. \A e \in DOMAIN ent : IsActive(e)' <=> IsActive(e)
    BY <1>2, <1>5, <1>6 DEF IsActive
  <2>4. \A e \in Batch(r) : Offered(r, e) \/ IsActive(e) => ent'[e] = ent[e]
    BY <1>5, <1>12, <2>1, <2>2 DEF FlushAt, IsActive
  <2> QED BY <1>2, <1>5, <1>6, <2>1, <2>2, <2>3, <2>4, FlushViews DEF FlushAt
<1>16. InflightInv'
  <2>1. Batch(rt)' = Batch(rt)
    BY <1>2 DEF Batch
  <2>2. \A e \in DOMAIN ent : (ent'[e].cpend => ent'[e].creq) /\
            (ent'[e].crun => \E d \in StopNo : cancel'[d].pc \in {"item", "record"} /\ e \in Marked(d)')
    BY <1>1, <1>2, <1>5, CancelViews DEF InflightInv
  <2>3. \A e \in inflight' :
          /\ ent'[e].rt = rt' /\ ~ent'[e].retired
          /\ ent'[e].cpend <=> ent'[e].creq
          /\ ent'[e].cpend \/ (\E b \in DOMAIN queued' : e \in BatchAt(b)') \/ e \in Batch(rt)'
    BY <1>1, <1>2, <1>5, <1>6, <2>1, QueueViews, Located DEF InflightInv
  <2> QED BY <1>1, <1>2, <1>5, <2>2, <2>3 DEF InflightInv
<1>17. CancelInv'
  <2>1. \A e : Offered(rt, e)' <=> Offered(rt, e)
    BY <1>2 DEF Offered
  <2> QED BY <1>1, <1>2, <1>5, <1>6, <2>1, CancelViews, Located DEF CancelInv, CancelAt
<1> QED BY <1>8, <1>9, <1>10, <1>11, <1>13, <1>14, <1>15, <1>16, <1>17 DEF PipeInv

(***************************************************************************)
(* The worker takes a batch.                                               *)
(***************************************************************************)
LEMMA QueueTaken ==
    ASSUME PipeInv, queued # <<>>, queued' = Tail(queued)
    PROVE  /\ queued' \in Seq([ents : Seq(Nat), gen : Nat])
           /\ 1 \in DOMAIN queued /\ Head(queued) = queued[1]
           /\ queued[1].ents \in Seq(Nat) /\ queued[1].gen \in Nat /\ Rising(queued[1].ents)
           /\ \A b \in DOMAIN queued' : b \in Nat /\ b + 1 \in DOMAIN queued /\ 1 < b + 1
                                        /\ queued'[b] = queued[b + 1] /\ BatchAt(b)' = BatchAt(b + 1)
           /\ \A b \in DOMAIN queued : b # 1 => b - 1 \in DOMAIN queued' /\ BatchAt(b - 1)' = BatchAt(b)
           /\ \A b \in DOMAIN queued' : \A e \in BatchAt(b)' : e \notin BatchAt(1)
<1>1. queued \in Seq([ents : Seq(Nat), gen : Nat]) /\ RisingInv /\ OrderInv
  BY DEF PipeInv, Types
<1>2. /\ queued' \in Seq([ents : Seq(Nat), gen : Nat])
      /\ 1 \in DOMAIN queued /\ Head(queued) = queued[1] /\ queued[1] \in [ents : Seq(Nat), gen : Nat]
      /\ \A b \in DOMAIN queued' : b \in Nat /\ b + 1 \in DOMAIN queued /\ queued'[b] = queued[b + 1]
      /\ \A b \in DOMAIN queued : b # 1 => b - 1 \in DOMAIN queued' /\ queued'[b - 1] = queued[b]
  <2>1. PICK S : S = [ents : Seq(Nat), gen : Nat]
    OBVIOUS
  <2>2. queued \in Seq(S)
    BY <1>1, <2>1
  <2>3. /\ Tail(queued) \in Seq(S) /\ Head(queued) = queued[1] /\ 1 \in DOMAIN queued /\ Head(queued) \in S
        /\ \A i \in DOMAIN Tail(queued) : i \in Nat /\ i + 1 \in DOMAIN queued /\ Tail(queued)[i] = queued[i + 1]
        /\ \A j \in DOMAIN queued : j # 1 => j - 1 \in DOMAIN Tail(queued) /\ Tail(queued)[j - 1] = queued[j]
    BY <2>2, TailFacts
  <2> QED BY <2>1, <2>3
<1>3. \A b \in DOMAIN queued' : 1 < b + 1
  <2>1. DOMAIN queued' = 1 .. Len(queued') /\ Len(queued') \in Nat
    BY <1>2
  <2> QED BY <2>1
<1>4. \A b \in DOMAIN queued' : BatchAt(b)' = BatchAt(b + 1)
  BY <1>2 DEF BatchAt
<1>5. \A b \in DOMAIN queued : b # 1 => BatchAt(b - 1)' = BatchAt(b)
  BY <1>2 DEF BatchAt
<1>6. Rising(queued[1].ents)
  BY <1>1, <1>2 DEF RisingInv
<1>7. ASSUME NEW b \in DOMAIN queued', NEW e \in BatchAt(b)' PROVE e \notin BatchAt(1)
  <2>1. e \in BatchAt(b + 1) /\ b + 1 \in DOMAIN queued /\ 1 < b + 1
    BY <1>2, <1>3, <1>4, <1>7
  <2>2. Below(BatchAt(1), BatchAt(b + 1))
    BY <1>1, <1>2, <2>1 DEF OrderInv
  <2>3. e \in Nat
    BY <2>1, Located
  <2> QED BY <2>1, <2>2, <2>3 DEF Below
<1> QED BY <1>2, <1>3, <1>4, <1>5, <1>6, <1>7

LEMMA RunFlushPipe == ASSUME PipeInv, RunFlush, Head(queued).gen = gen PROVE PipeInv'
<1>1. /\ Types /\ FlushTypes /\ CancelTypes /\ TurnTypes /\ RisingInv /\ OrderInv /\ WaitingInv
      /\ QueuedInv /\ FlushInv /\ IdsInv /\ InflightInv /\ CancelInv /\ PendingInv /\ OfferAlwaysFits
  BY DEF PipeInv
<1>2. /\ UNCHANGED <<waiting, gen, inflight, ids, cancel, pending, turn, rt, live, token, ran, stops, broken>>
      /\ live /\ queued # <<>> /\ queued' = Tail(queued) /\ flush[rt].pc = "idle"
      /\ flush' = [flush EXCEPT ![rt] = [NoFlush EXCEPT !.pc = "item", !.batch = Head(queued).ents]]
      /\ ent' = HoldFor(ent, ToSet(Head(queued).ents), "flush")
  BY DEF RunFlush, dispatcher, runtime, counters, history
<1>3. /\ queued' \in Seq([ents : Seq(Nat), gen : Nat])
      /\ 1 \in DOMAIN queued /\ Head(queued) = queued[1]
      /\ queued[1].ents \in Seq(Nat) /\ Rising(queued[1].ents)
      /\ \A b \in DOMAIN queued' : b \in Nat /\ b + 1 \in DOMAIN queued /\ 1 < b + 1
                                        /\ queued'[b] = queued[b + 1] /\ BatchAt(b)' = BatchAt(b + 1)
      /\ \A b \in DOMAIN queued : b # 1 => b - 1 \in DOMAIN queued' /\ BatchAt(b - 1)' = BatchAt(b)
      /\ \A b \in DOMAIN queued' : \A e \in BatchAt(b)' : e \notin BatchAt(1)
  BY <1>2, QueueTaken
<1> DEFINE es == BatchAt(1)
<1>4. queued[1].gen = gen /\ ent' = HoldFor(ent, es, "flush") /\ ent \in Seq(Entry)
  BY <1>1, <1>2, <1>3 DEF BatchAt, Types
<1>5. Born(ent, ent') /\ DOMAIN ent' = DOMAIN ent
  BY <1>4, HeldForFlush DEF Born
<1>6. \A x \in DOMAIN ent :
            /\ ent'[x].m = ent[x].m /\ ent'[x].rt = ent[x].rt /\ ent'[x].token = ent[x].token /\ ent'[x].gen = ent[x].gen
            /\ ent'[x].creq = ent[x].creq /\ ent'[x].cpend = ent[x].cpend /\ ent'[x].crun = ent[x].crun
            /\ ent'[x].retired = ent[x].retired /\ ent'[x].req = ent[x].req /\ ent'[x].owner = ent[x].owner
            /\ x \notin es => ent'[x] = ent[x]
            /\ x \in es => ent'[x].holds = ent[x].holds \union {"flush"}
  BY <1>4, HeldForFlush DEF Born
<1> HIDE DEF es
<1>7. /\ flush' = [r \in Runtime |-> flush'[r]]
      /\ \A r \in Runtime : r # rt => flush'[r] = flush[r]
      /\ flush'[rt] = [NoFlush EXCEPT !.pc = "item", !.batch = queued[1].ents]
  BY <1>1, <1>2, <1>3, Located DEF FlushTypes
<1>8. /\ IsFlush(flush'[rt]) /\ flush'[rt].pc = "item" /\ flush'[rt].batch = queued[1].ents /\ flush'[rt].i = 1
      /\ flush'[rt].intact = TRUE /\ flush'[rt].offers = <<>>
  BY <1>7 DEF NoFlush, IsFlush
<1>9. /\ Batch(rt)' = es /\ Rest(rt)' \subseteq es /\ Batch(rt) = {}
      /\ \A e : ~Offered(rt, e)' /\ Unoffered(rt, e)'
      /\ \A r : r = rt => Batch(r)' = es /\ Rest(r)' \subseteq es /\ \A e : ~Offered(r, e)' /\ Unoffered(r, e)'
  <2>1. flush[rt] = NoFlush
    BY <1>1, <1>2, Located DEF FlushTypes
  <2>2. Batch(rt) = {}
    BY <2>1, EmptySet DEF Batch, NoFlush
  <2>3. Batch(rt)' = es
    BY <1>2, <1>8 DEF Batch, BatchAt, es
  <2>4. Rest(rt)' \subseteq Batch(rt)'
    BY <1>2, <1>3, <1>8 DEF Rest, Batch, ToSet
  <2>5. DOMAIN flush'[rt].offers = {}
    BY <1>8
  <2>6. \A e : ~Offered(rt, e)' /\ Unoffered(rt, e)'
    BY <1>2, <2>5 DEF Offered, Unoffered
  <2>7. \A r : r = rt => Batch(r)' = Batch(rt)' /\ Rest(r)' = Rest(rt)' /\ \A e : ~Offered(r, e)' /\ Unoffered(r, e)'
    BY <1>2, <2>5 DEF Offered, Unoffered, Batch, Rest
  <2> QED BY <2>2, <2>3, <2>4, <2>6, <2>7
<1>10. \A r \in Runtime : r # rt =>
          /\ Batch(r)' = Batch(r) /\ Rest(r)' = Rest(r) /\ Current(r)' = Current(r)
          /\ \A e : (Offered(r, e)' <=> Offered(r, e)) /\ (Unoffered(r, e)' <=> Unoffered(r, e))
  BY <1>7 DEF Batch, Rest, Current, Offered, Unoffered
<1>11. \A e \in es : e \in DOMAIN ent /\ QueuedAt(1, e)
  BY <1>1, <1>3, Located DEF QueuedInv, es
<1>12. Window' = Window /\ UNCHANGED <<Begun, Starting, Buffer, Given>>
  BY <1>2, GivenViews DEF Window
<1>13. \A e \in DOMAIN ent : IsActive(e)' <=> IsActive(e)
  BY <1>2, <1>6 DEF IsActive
<1>14. Types'
  BY <1>1, <1>2, <1>3, <1>5, Located DEF Types, Born
<1>15. FlushTypes'
  <2>1. FlushFields(flush'[rt])
    <3>1. DOMAIN flush'[rt].offers = {}
      BY <1>8
    <3>2. /\ flush'[rt].pc \in FlushPc /\ flush'[rt].batch \in Seq(Nat)
          /\ flush'[rt].i \in Nat \ {0}
      BY <1>3, <1>8 DEF FlushPc
    <3>4. flush'[rt].intact \in BOOLEAN
      BY <1>7 DEF NoFlush
    <3>3. ~(flush'[rt].pc \in {"recover", "lookup", "record"})
      BY <1>8
    <3> QED BY <1>8, <3>1, <3>2, <3>3, <3>4 DEF FlushFields
  <2> QED BY <1>1, <1>2, <1>7, <1>8, <2>1, Located DEF FlushTypes
<1>16. CancelTypes' /\ TurnTypes' /\ OfferAlwaysFits'
  BY <1>1, <1>2, <1>5 DEF CancelTypes, TurnTypes, OfferAlwaysFits
<1>17. RisingInv'
  <2>1. \A r \in Runtime : Rising(flush'[r].batch)
    BY <1>1, <1>3, <1>7, <1>8 DEF RisingInv
  <2>2. \A b \in DOMAIN queued' : Rising(queued'[b].ents)
    BY <1>1, <1>3 DEF RisingInv
  <2> QED BY <1>1, <1>2, <2>1, <2>2 DEF RisingInv, Rising
<1>18. OrderInv'
  <2>1. Below(Given, es) /\ Below(es, Window)
    BY <1>1, <1>3 DEF OrderInv, es, Below
  <2>2. \A b \in DOMAIN queued' : Below(Given \union es, BatchAt(b)') /\ Below(BatchAt(b)', Window)
    BY <1>1, <1>3 DEF OrderInv, es, Below
  <2>3. \A b, c \in DOMAIN queued' : b < c => Below(BatchAt(b)', BatchAt(c)')
    <3> SUFFICES ASSUME NEW b \in DOMAIN queued', NEW c \in DOMAIN queued', b < c PROVE Below(BatchAt(b)', BatchAt(c)')
      OBVIOUS
    <3>1. b + 1 \in DOMAIN queued /\ c + 1 \in DOMAIN queued /\ b + 1 < c + 1
      BY <1>3
    <3>2. Below(BatchAt(b + 1), BatchAt(c + 1))
      BY <1>1, <3>1 DEF OrderInv
    <3> QED BY <1>3, <3>2
  <2>4. \A b \in DOMAIN queued' : BatchAt(b)' \subseteq DOMAIN ent
    BY <1>3, Located
  <2>5. \A r \in Runtime : Batch(r)' \subseteq DOMAIN ent
    BY <1>9, <1>10, <1>11, Located
  <2>6. Below(Given \union es, Window)
    BY <1>1, <2>1 DEF OrderInv, Below
  <2> QED BY <1>1, <1>2, <1>5, <1>9, <1>12, <2>1, <2>2, <2>3, <2>4, <2>5, <2>6 DEF OrderInv
<1>19. WaitingInv' /\ PendingInv' /\ IdsInv'
  <2>1. \A e \in Window : e \notin es
    <3>1. Below(es, Window)
      BY <1>1, <1>3 DEF OrderInv, es
    <3> QED BY <3>1, Located DEF Below
  <2>2. WaitingInv'
    BY <1>1, <1>2, <1>6, <1>12, <2>1, Located DEF WaitingInv
  <2>3. PendingInv'
    BY <1>1, <1>2, <1>6, <1>12, Located DEF PendingInv
  <2>4. IdsInv'
    BY <1>1, <1>2, <1>6, <1>12, Located DEF IdsInv, StopCompletes
  <2> QED BY <2>2, <2>3, <2>4
<1>20. QueuedInv'
  <2> SUFFICES ASSUME NEW b \in DOMAIN queued', NEW e \in BatchAt(b)' PROVE QueuedAt(b, e)'
    BY DEF QueuedInv
  <2>1. b + 1 \in DOMAIN queued /\ e \in BatchAt(b + 1) /\ queued'[b] = queued[b + 1]
    BY <1>3
  <2>2. e \in DOMAIN ent /\ QueuedAt(b + 1, e)
    BY <1>1, <2>1, Located DEF QueuedInv
  <2> QED BY <1>2, <1>6, <2>1, <2>2 DEF QueuedAt
<1>21. FlushInv'
  <2> SUFFICES ASSUME NEW r \in Runtime, flush'[r].pc # "idle" PROVE FlushAt(r)'
    BY DEF FlushInv
  <2>1. CASE r = rt
    <3>1. \A e \in es : /\ e \in DOMAIN ent /\ ent'[e].rt = rt /\ "flush" \in ent'[e].holds
                        /\ ent'[e].gen = gen /\ ~ent'[e].creq /\ ~ent'[e].req /\ ent'[e].token = token
                        /\ ent'[e].owner # "pending" /\ e \in inflight
      BY <1>4, <1>6, <1>11 DEF QueuedAt
    <3>2. gen \in Nat
      BY <1>1 DEF Types
    <3>3. /\ Batch(r)' = es /\ Rest(r)' \subseteq es /\ flush'[r].intact
          /\ \A e : ~Offered(r, e)' /\ Unoffered(r, e)'
      BY <1>8, <1>9, <2>1
    <3> QED BY <1>2, <2>1, <3>1, <3>2, <3>3, Located DEF FlushAt
  <2>2. CASE r # rt
    <3>1. flush[r].pc # "idle" /\ FlushAt(r) /\ flush'[r] = flush[r]
      BY <1>1, <1>7, <2>2 DEF FlushInv
    <3>2. \A e \in Batch(r) : e \in DOMAIN ent /\ ent'[e] = ent[e]
      BY <1>6, <1>11, <2>2, <3>1, Located DEF FlushAt, QueuedAt
    <3>3. Rest(r) \subseteq Batch(r)
      BY <1>1, RestFacts
    <3> QED BY <1>2, <1>10, <1>13, <2>2, <3>1, <3>2, <3>3 DEF FlushAt
  <2> QED BY <2>1, <2>2
<1>22. InflightInv'
  <2>1. ASSUME NEW e \in inflight
        PROVE  ent'[e].cpend \/ (\E b \in DOMAIN queued' : e \in BatchAt(b)') \/ e \in Batch(rt)'
    <3>1. ent'[e].cpend = ent[e].cpend
      BY <1>6, Located
    <3>2. ent[e].cpend \/ (\E b \in DOMAIN queued : e \in BatchAt(b))
      BY <1>1, <1>9 DEF InflightInv
    <3>3. ASSUME NEW b \in DOMAIN queued, e \in BatchAt(b), b # 1 PROVE \E d \in DOMAIN queued' : e \in BatchAt(d)'
      BY <1>3, <3>3
    <3> QED BY <1>9, <3>1, <3>2, <3>3 DEF es
  <2>2. \A e \in DOMAIN ent : (ent'[e].cpend => ent'[e].creq) /\
            (ent'[e].crun => \E d \in StopNo : cancel'[d].pc \in {"item", "record"} /\ e \in Marked(d)')
    BY <1>1, <1>2, <1>6, CancelViews DEF InflightInv
  <2>3. \A e \in inflight' : ent'[e].rt = rt' /\ ~ent'[e].retired /\ (ent'[e].cpend <=> ent'[e].creq)
    BY <1>1, <1>2, <1>6, Located DEF InflightInv
  <2> QED BY <1>1, <1>2, <1>5, <2>1, <2>2, <2>3 DEF InflightInv
<1>23. CancelInv'
  <2>1. \A d \in StopNo : \A e \in Marked(d) : e \in DOMAIN ent
    BY Located
  <2>2. ASSUME NEW d \in StopNo, cancel[d].pc # "done", NEW e \in Marked(d) PROVE CancelAt(d, e)'
    <3>1. CancelAt(d, e) /\ e \in DOMAIN ent
      BY <1>1, <2>1, <2>2 DEF CancelInv
    <3>2. "cancel" \in ent'[e].holds
      BY <1>6, <3>1 DEF CancelAt
    <3> QED BY <1>2, <1>6, <1>9, <1>12, <3>1, <3>2 DEF CancelAt
  <2> QED BY <1>1, <1>2, <2>2, CancelViews DEF CancelInv
<1> QED BY <1>14, <1>15, <1>16, <1>17, <1>18, <1>19, <1>20, <1>21, <1>22, <1>23 DEF PipeInv

LEMMA RunStalePipe == ASSUME PipeInv, RunFlush, Head(queued).gen # gen PROVE PipeInv'
<1>1. /\ Types /\ FlushTypes /\ CancelTypes /\ TurnTypes /\ RisingInv /\ OrderInv /\ WaitingInv
      /\ QueuedInv /\ FlushInv /\ IdsInv /\ InflightInv /\ CancelInv /\ PendingInv /\ OfferAlwaysFits
  BY DEF PipeInv
<1>2. /\ UNCHANGED <<waiting, flush, cancel, pending, turn, rt, live, token, ran, stops, broken>>
      /\ live /\ queued # <<>> /\ queued' = Tail(queued) /\ flush[rt].pc = "idle"
      /\ ent' = SettleFlush(ent, ToSet(Head(queued).ents))
      /\ inflight' = inflight \ Settled(ToSet(Head(queued).ents))
      /\ ids' = ids \ IdsOf(Settled(ToSet(Head(queued).ents)))
      /\ gen' = NextGen(gen, waiting, queued', inflight', flush[rt])
  BY DEF RunFlush, dispatcher, runtime, counters, history
<1>3. /\ queued' \in Seq([ents : Seq(Nat), gen : Nat])
      /\ 1 \in DOMAIN queued /\ Head(queued) = queued[1]
      /\ \A b \in DOMAIN queued' : b \in Nat /\ b + 1 \in DOMAIN queued /\ 1 < b + 1
                                        /\ queued'[b] = queued[b + 1] /\ BatchAt(b)' = BatchAt(b + 1)
      /\ \A b \in DOMAIN queued : b # 1 => b - 1 \in DOMAIN queued' /\ BatchAt(b - 1)' = BatchAt(b)
      /\ \A b \in DOMAIN queued' : \A e \in BatchAt(b)' : e \notin BatchAt(1)
  BY <1>2, QueueTaken
<1>4. \A e \in BatchAt(1) : e \in DOMAIN ent /\ QueuedAt(1, e)
  BY <1>1, <1>3, Located DEF QueuedInv
<1> DEFINE es == Settled(BatchAt(1))
<1>5. es \subseteq BatchAt(1) /\ es \subseteq DOMAIN ent /\ \A e \in es : ~ent[e].cpend /\ ent[e].rt = rt
  BY <1>4 DEF Settled, QueuedAt
<1>6. /\ inflight' = inflight \ es /\ ids' = ids \ IdsOf(es) /\ ent \in Seq(Entry) /\ ent' = RequestRelease(ent, es)
  <2>1. {e \in BatchAt(1) : ~ent[e].cpend /\ ent[e].owner # "pending"} = es
    BY <1>4 DEF Settled, QueuedAt
  <2>2. BatchAt(1) = ToSet(Head(queued).ents)
    BY <1>3 DEF BatchAt
  <2> QED BY <1>1, <1>2, <2>1, <2>2 DEF SettleFlush, Types
<1>7. Born(ent, ent') /\ DOMAIN ent' = DOMAIN ent
  BY <1>6, Released DEF Born
<1>8. \A x \in DOMAIN ent :
            /\ ent'[x].m = ent[x].m /\ ent'[x].rt = ent[x].rt /\ ent'[x].token = ent[x].token /\ ent'[x].gen = ent[x].gen
            /\ ent'[x].creq = ent[x].creq /\ ent'[x].cpend = ent[x].cpend /\ ent'[x].crun = ent[x].crun
            /\ ent'[x].retired = ent[x].retired /\ ent'[x].holds = ent[x].holds /\ ent'[x].owner = ent[x].owner
            /\ x \notin es => ent'[x] = ent[x]
            /\ x \in es => ent'[x].req
  BY <1>6, Released DEF Born
<1>9. \A e \in inflight : e \in es => e \notin inflight'
  BY <1>6
<1>10. \A e \in BatchAt(1) : e \notin es => ent[e].cpend
  BY <1>4 DEF Settled
<1> HIDE DEF es
<1>11. gen' \in Nat /\ (gen' = gen \/ (gen' = 0 /\ waiting = <<>> /\ queued' = <<>>))
  BY <1>1, <1>2 DEF NextGen, Types
<1>12. Window' = Window /\ UNCHANGED <<Begun, Starting, Buffer, Given>> /\ Batch(rt)' = Batch(rt)
  BY <1>2, GivenViews DEF Window, Batch
<1>13. /\ \A e \in Window : e \notin es
       /\ \A e \in Buffer : e \notin es
       /\ \A b \in DOMAIN queued' : \A e \in BatchAt(b)' : e \notin es
  <2>1. Below(BatchAt(1), Window) /\ Below(Given, BatchAt(1))
    BY <1>1, <1>3 DEF OrderInv, Below
  <2>2. \A e \in Buffer : e \in Given /\ e \in Nat
    BY Located DEF Given
  <2>3. \A e \in Window : e \in Nat
    BY Located
  <2> QED BY <1>3, <1>5, <2>1, <2>2, <2>3 DEF Below
<1>14. Types'
  BY <1>1, <1>2, <1>3, <1>6, <1>7, <1>11, Located DEF Types, Born
<1>15. FlushTypes' /\ CancelTypes' /\ TurnTypes' /\ OfferAlwaysFits'
  BY <1>1, <1>2, <1>7 DEF FlushTypes, FlushFields, CancelTypes, TurnTypes, OfferAlwaysFits
<1>17. RisingInv'
  <2>2. \A b \in DOMAIN queued' : Rising(queued'[b].ents)
    BY <1>1, <1>3 DEF RisingInv
  <2> QED BY <1>1, <1>2, <2>2 DEF RisingInv, Rising
<1>18. OrderInv'
  <2>2. \A b \in DOMAIN queued' : Below(Given \union Batch(rt), BatchAt(b)') /\ Below(BatchAt(b)', Window)
    BY Zenon, <1>1, <1>3 DEF OrderInv
  <2>3. \A b, c \in DOMAIN queued' : b < c => Below(BatchAt(b)', BatchAt(c)')
    <3> SUFFICES ASSUME NEW b \in DOMAIN queued', NEW c \in DOMAIN queued', b < c PROVE Below(BatchAt(b)', BatchAt(c)')
      OBVIOUS
    <3>1. b + 1 \in DOMAIN queued /\ c + 1 \in DOMAIN queued /\ b + 1 < c + 1
      BY <1>3
    <3>2. Below(BatchAt(b + 1), BatchAt(c + 1))
      BY <1>1, <3>1 DEF OrderInv
    <3> QED BY <1>3, <3>2
  <2>4. \A b \in DOMAIN queued' : BatchAt(b)' \subseteq DOMAIN ent
    BY <1>3, Located
  <2> QED BY <1>1, <1>2, <1>7, <1>12, <2>2, <2>3, <2>4, FlushViews DEF OrderInv
<1>19. WaitingInv' /\ PendingInv'
  <2>1. Window # {} => gen' = gen
    BY <1>11, EmptySet DEF Window
  <2>2. WaitingInv'
    BY <1>1, <1>2, <1>6, <1>8, <1>12, <1>13, <2>1, Located DEF WaitingInv
  <2>3. PendingInv'
    BY <1>1, <1>2, <1>8, <1>12, <1>13, Located DEF PendingInv
  <2> QED BY <2>2, <2>3
<1>20. IdsInv'
  <2> SUFFICES ASSUME StopCompletes', NEW x \in ids' PROVE \E e \in (inflight \union Window)' : ent'[e].m = x
    BY DEF IdsInv
  <2>1. StopCompletes
    BY <1>2 DEF StopCompletes
  <2>2. PICK e \in (inflight \union Window) \ es : ent[e].m = x
    BY <1>1, <1>6, <2>1, IdsKept
  <2> QED BY <1>6, <1>8, <1>12, <2>2, Located
<1>21. QueuedInv'
  <2> SUFFICES ASSUME NEW b \in DOMAIN queued', NEW e \in BatchAt(b)' PROVE QueuedAt(b, e)'
    BY DEF QueuedInv
  <2>1. b + 1 \in DOMAIN queued /\ e \in BatchAt(b + 1) /\ queued'[b] = queued[b + 1] /\ e \notin es /\ queued' # <<>>
    BY <1>3, <1>13
  <2>2. e \in DOMAIN ent /\ QueuedAt(b + 1, e) /\ gen' = gen
    BY <1>1, <1>11, <2>1, Located DEF QueuedInv
  <2> QED BY <1>2, <1>6, <1>8, <2>1, <2>2 DEF QueuedAt
<1>22. FlushInv'
  <2> SUFFICES ASSUME NEW r \in Runtime, flush'[r].pc # "idle" PROVE FlushAt(r)'
    BY DEF FlushInv
  <2>1. flush[r].pc # "idle" /\ FlushAt(r) /\ r # rt
    BY <1>1, <1>2 DEF FlushInv
  <2>2. \A e \in Batch(r) : e \in DOMAIN ent /\ ent[e].rt = r /\ e \notin es /\ ent'[e] = ent[e]
    BY <1>5, <1>8, <2>1, Located DEF FlushAt
  <2>3. Rest(r) \subseteq Batch(r)
    BY <1>1, RestFacts
  <2>4. \A e \in Batch(r) : ~IsActive(e) /\ ~IsActive(e)'
    BY <1>2, <2>1, <2>2 DEF IsActive
  <2> QED BY <1>2, <1>6, <2>1, <2>2, <2>3, <2>4, FlushViews DEF FlushAt
<1>23. InflightInv'
  <2>1. ASSUME NEW e \in inflight'
        PROVE  ent'[e].cpend \/ (\E b \in DOMAIN queued' : e \in BatchAt(b)') \/ e \in Batch(rt)'
    <3>1. e \in inflight /\ e \notin es /\ ent'[e].cpend = ent[e].cpend
      BY <1>6, <1>8, Located
    <3>2. ent[e].cpend \/ (\E b \in DOMAIN queued : e \in BatchAt(b)) \/ e \in Batch(rt)
      BY <1>1, <3>1 DEF InflightInv
    <3>3. ASSUME NEW b \in DOMAIN queued, e \in BatchAt(b), b # 1 PROVE \E d \in DOMAIN queued' : e \in BatchAt(d)'
      BY <1>3, <3>3
    <3> QED BY <1>10, <1>12, <3>1, <3>2, <3>3
  <2>2. \A e \in DOMAIN ent : (ent'[e].cpend => ent'[e].creq) /\
            (ent'[e].crun => \E d \in StopNo : cancel'[d].pc \in {"item", "record"} /\ e \in Marked(d)')
    BY <1>1, <1>2, <1>8, CancelViews DEF InflightInv
  <2>3. \A e \in inflight' : ent'[e].rt = rt' /\ ~ent'[e].retired /\ (ent'[e].cpend <=> ent'[e].creq)
    BY <1>1, <1>2, <1>6, <1>8, Located DEF InflightInv
  <2> QED BY <1>1, <1>2, <1>6, <1>7, <2>1, <2>2, <2>3 DEF InflightInv
<1>24. CancelInv'
  <2>2. ASSUME NEW d \in StopNo, cancel[d].pc # "done", NEW e \in Marked(d) PROVE CancelAt(d, e)'
    <3>1. CancelAt(d, e) /\ e \in DOMAIN ent
      BY <1>1, <2>2, Located DEF CancelInv
    <3>2. ~ent[e].retired => e \in inflight /\ e \notin es
      BY <1>1, <1>5, <3>1 DEF CancelAt, InflightInv
    <3>3. ent[e].req => ent'[e].req
      BY <1>8, <3>1
    <3>4. Offered(rt, e)' <=> Offered(rt, e)
      BY <1>2 DEF Offered
    <3> QED BY <1>2, <1>6, <1>8, <1>12, <3>1, <3>2, <3>3, <3>4 DEF CancelAt
  <2> QED BY <1>1, <1>2, <2>2, CancelViews DEF CancelInv
<1> QED BY <1>14, <1>15, <1>17, <1>18, <1>19, <1>20, <1>21, <1>22, <1>23, <1>24 DEF PipeInv

(***************************************************************************)
(* The end of a flush: what was committed goes to the dispatcher, the rest *)
(* of the batch is settled.  `en' is the entries, of which those in `back' *)
(* have just been released; `f' is the flush with its offers decided.      *)
(***************************************************************************)
Committed(f) == {e \in ToSet(f.batch) \intersect DOMAIN f.offers : f.offers[e] = "committed"}
Returned(en, back) ==
    /\ Born(ent, en)
    /\ \A x \in DOMAIN ent :
          /\ en[x].creq = ent[x].creq /\ en[x].cpend = ent[x].cpend /\ en[x].crun = ent[x].crun
          /\ en[x].retired = ent[x].retired /\ en[x].owner = ent[x].owner /\ en[x].holds = ent[x].holds
          /\ x \notin back => en[x] = ent[x]
          /\ x \in back => en[x].req
          /\ ent[x].req => en[x].req

Ended(z, B, back, f) ==
    /\ Born(ent, z) /\ z \in Seq(Entry) /\ DOMAIN z = DOMAIN ent
    /\ \A x \in DOMAIN ent :
          /\ z[x].m = ent[x].m /\ z[x].rt = ent[x].rt /\ z[x].token = ent[x].token /\ z[x].gen = ent[x].gen
          /\ z[x].creq = ent[x].creq /\ z[x].cpend = ent[x].cpend /\ z[x].crun = ent[x].crun
          /\ z[x].retired = ent[x].retired /\ z[x].owner = ent[x].owner
          /\ x \notin B => z[x] = ent[x]
          /\ x \in B => z[x].holds = ent[x].holds \ {"flush"}
          /\ ent[x].req => z[x].req
          /\ x \notin back /\ ent[x].owner = "pending" /\ ~ent[x].req => ~z[x].req
          /\ x \in B /\ f.intact /\ ~ent[x].cpend /\ ent[x].owner # "pending" => z[x].req
          /\ x \in back => z[x].req

LEMMA EndedEntries ==
    ASSUME Types, NEW B, NEW back, back \subseteq B, NEW en, Returned(en, back), NEW f,
           NEW en1, f.intact => en1 = SettleFlush(en, B), ~f.intact => en1 = en
    PROVE  Ended(Unhold(en1, B, "flush"), B, back, f)
<1>0. PICK z : z = Unhold(en1, B, "flush")
  OBVIOUS
<1>1. en \in Seq(Entry) /\ DOMAIN en = DOMAIN ent
  BY DEF Returned, Born
<1>2. PICK rel : rel = IF f.intact THEN {e \in B : ~en[e].cpend /\ en[e].owner # "pending"} ELSE {}
  OBVIOUS
<1>4. /\ Born(en, en1)
      /\ \A x \in DOMAIN en :
            /\ en1[x].creq = en[x].creq /\ en1[x].cpend = en[x].cpend /\ en1[x].crun = en[x].crun
            /\ en1[x].retired = en[x].retired /\ en1[x].owner = en[x].owner /\ en1[x].holds = en[x].holds
            /\ x \notin rel => en1[x] = en[x]
            /\ x \in rel => en1[x].req
  <2>1. CASE f.intact
    <3>1. en1 = RequestRelease(en, rel)
      BY <1>2, <2>1 DEF SettleFlush
    <3> QED BY <1>1, <3>1, Released
  <2>2. CASE ~f.intact
    <3>1. en1 = en /\ rel = {}
      BY <1>2, <2>2
    <3>2. Born(en, en1)
      BY <1>1, <3>1 DEF Born
    <3> QED BY <3>1, <3>2
  <2> QED BY <2>1, <2>2
<1>5. en1 \in Seq(Entry) /\ DOMAIN en1 = DOMAIN ent
  BY <1>1, <1>4 DEF Born
<1>7. /\ Born(en1, z)
      /\ \A x \in DOMAIN en1 :
            /\ z[x].creq = en1[x].creq /\ z[x].cpend = en1[x].cpend /\ z[x].crun = en1[x].crun
            /\ z[x].retired = en1[x].retired /\ z[x].owner = en1[x].owner /\ z[x].req = en1[x].req
            /\ x \notin B => z[x] = en1[x]
            /\ x \in B => z[x].holds = en1[x].holds \ {"flush"}
  BY <1>0, <1>5, UnheldByFlush
<1>8. Born(ent, en)
  BY DEF Returned
<1>9. Born(ent, z) /\ z \in Seq(Entry) /\ DOMAIN z = DOMAIN ent
  BY <1>4, <1>7, <1>8 DEF Born
<1>10. \A x \in DOMAIN ent :
                 /\ en[x].creq = ent[x].creq /\ en[x].cpend = ent[x].cpend /\ en[x].crun = ent[x].crun
                 /\ en[x].retired = ent[x].retired /\ en[x].owner = ent[x].owner /\ en[x].holds = ent[x].holds
                 /\ x \notin back => en[x] = ent[x]
                 /\ x \in back => en[x].req
                 /\ ent[x].req => en[x].req
  BY DEF Returned
<1>11. rel \subseteq B
  BY <1>2
<1>12. \A x \in DOMAIN ent :
                 /\ z[x].m = ent[x].m /\ z[x].rt = ent[x].rt /\ z[x].token = ent[x].token /\ z[x].gen = ent[x].gen
  BY <1>9 DEF Born
<1>13. \A x \in DOMAIN ent :
                 /\ z[x].creq = ent[x].creq /\ z[x].cpend = ent[x].cpend /\ z[x].crun = ent[x].crun
                 /\ z[x].retired = ent[x].retired /\ z[x].owner = ent[x].owner
                 /\ x \notin B => z[x] = ent[x]
                 /\ x \in B => z[x].holds = ent[x].holds \ {"flush"}
  BY <1>1, <1>4, <1>5, <1>7, <1>10, <1>11
<1>14. \A x \in DOMAIN ent : ent[x].req => z[x].req
  BY <1>1, <1>4, <1>5, <1>7, <1>10
<1>15. \A x \in DOMAIN ent : x \notin back /\ ent[x].owner = "pending" /\ ~ent[x].req => ~z[x].req
  BY <1>1, <1>2, <1>4, <1>5, <1>7, <1>10
<1>16. \A x \in DOMAIN ent : x \in B /\ f.intact /\ ~ent[x].cpend /\ ent[x].owner # "pending" => z[x].req
  BY <1>1, <1>2, <1>4, <1>5, <1>7, <1>10
<1>17. \A x \in DOMAIN ent : x \in back => z[x].req
  BY <1>1, <1>4, <1>5, <1>7, <1>10
<1> QED BY <1>0, <1>9, <1>12, <1>13, <1>14, <1>15, <1>16, <1>17 DEF Ended

LEMMA NoFlushFields == FlushFields(NoFlush) /\ NoFlush.pc = "idle" /\ NoFlush.batch = <<>> /\ NoFlush.offers = <<>> /\ NoFlush.i = 1
<1>1. IsFlush(NoFlush) /\ NoFlush.pc = "idle" /\ NoFlush.batch = <<>> /\ NoFlush.offers = <<>> /\ NoFlush.i = 1
  BY DEF NoFlush, IsFlush
<1>2. NoFlush.intact \in BOOLEAN
  BY DEF NoFlush
<1>3. DOMAIN NoFlush.offers = {}
  BY <1>1
<1>4. NoFlush.pc \in FlushPc /\ NoFlush.batch \in Seq(Nat) /\ NoFlush.i \in Nat \ {0}
  BY <1>1 DEF FlushPc
<1>5. ~(NoFlush.pc \in {"recover", "lookup", "record"})
  BY <1>1
<1> QED BY <1>1, <1>2, <1>3, <1>4, <1>5 DEF FlushFields

\* What lasts of an entry, whatever happens to it.
Lasting ==
    \A x \in DOMAIN ent :
        /\ x \in DOMAIN ent'
        /\ ent'[x].m = ent[x].m /\ ent'[x].rt = ent[x].rt /\ ent'[x].token = ent[x].token /\ ent'[x].gen = ent[x].gen
        /\ ent[x].creq => ent'[x].creq
        /\ ent[x].req => ent'[x].req
        /\ ent[x].retired => ent'[x].retired
\* What the end of a flush does; C is what it committed.
Attached(r, C) == IF live /\ r = rt THEN C ELSE {}
SettledBy(r) == IF flush[r].intact THEN Settled(Batch(r)) ELSE {}
Closed(r, C, back) ==
    /\ FlushIs(r, NoFlush) /\ Lasting /\ DOMAIN ent' = DOMAIN ent
    /\ \A x \in DOMAIN ent :
          /\ ent'[x].creq = ent[x].creq /\ ent'[x].cpend = ent[x].cpend /\ ent'[x].crun = ent[x].crun
          /\ ent'[x].retired = ent[x].retired /\ ent'[x].owner = ent[x].owner
          /\ x \notin Batch(r) \union Buffer => ent'[x] = ent[x]
          /\ x \in Batch(r) => ent'[x].holds = ent[x].holds \ {"flush"}
          /\ x \notin Batch(r) => ent'[x].holds = ent[x].holds
          /\ x \in back => ent'[x].req
          /\ x \in Batch(r) /\ flush[r].intact /\ ~ent[x].cpend /\ ent[x].owner # "pending" => ent'[x].req
          /\ x \in Buffer \union Attached(r, C) => x \in Buffer' \/ ent'[x].req
    /\ Starting' \union Buffer' = Starting \union Buffer \union Attached(r, C)
    /\ inflight' = inflight \ SettledBy(r) /\ ids' = ids \ IdsOf(SettledBy(r))
    /\ gen' = IF live /\ r = rt THEN NextGen(gen, waiting, queued, inflight', NoFlush) ELSE gen

LEMMA EndFlushPipe ==
    ASSUME PipeInv, NEW r \in Runtime, flush[r].pc # "idle",
           NEW f, f.batch = flush[r].batch, f.intact = flush[r].intact,
           \A e \in Committed(f) : Offered(r, e),
           NEW en, NEW back \in SUBSET Batch(r), Returned(en, back), \A e \in back : e \notin Committed(f),
           EndFlush(r, f, en),
           UNCHANGED <<waiting, queued, cancel, runtime, ran, stops, broken>>
    PROVE  PipeInv' /\ Closed(r, Committed(f), back)
<1>1. /\ Types /\ FlushTypes /\ CancelTypes /\ TurnTypes /\ RisingInv /\ OrderInv /\ WaitingInv
      /\ QueuedInv /\ FlushInv /\ IdsInv /\ InflightInv /\ CancelInv /\ PendingInv /\ OfferAlwaysFits
      /\ FlushAt(r)
  BY DEF PipeInv, FlushInv
<1>2. UNCHANGED <<waiting, queued, cancel, rt, live, token, ran, stops, broken>>
  BY DEF runtime
<1>3. flush[r].intact \in BOOLEAN /\ flush[r].batch \in Seq(Nat)
  BY <1>1 DEF FlushTypes, FlushFields
<1>4. PICK B : B = Batch(r)
  OBVIOUS
<1>5. PICK A : A = IF live /\ r = rt THEN Committed(f) ELSE {}
  OBVIOUS
<1>6. PICK es : es = IF flush[r].intact THEN Settled(B) ELSE {}
  OBVIOUS
<1>71. PICK en1 : en1 = IF f.intact THEN SettleFlush(en, B) ELSE en
  OBVIOUS
<1>72. PICK z : z = Unhold(en1, B, "flush")
  OBVIOUS
<1>17. /\ Born(ent, z) /\ z \in Seq(Entry) /\ DOMAIN z = DOMAIN ent
       /\ \A x \in DOMAIN ent :
                 /\ z[x].m = ent[x].m /\ z[x].rt = ent[x].rt /\ z[x].token = ent[x].token /\ z[x].gen = ent[x].gen
                 /\ z[x].creq = ent[x].creq /\ z[x].cpend = ent[x].cpend /\ z[x].crun = ent[x].crun
                 /\ z[x].retired = ent[x].retired /\ z[x].owner = ent[x].owner
                 /\ x \notin B => z[x] = ent[x]
                 /\ x \in B => z[x].holds = ent[x].holds \ {"flush"}
                 /\ ent[x].req => z[x].req
                 /\ x \notin back /\ ent[x].owner = "pending" /\ ~ent[x].req => ~z[x].req
                 /\ x \in B /\ f.intact /\ ~ent[x].cpend /\ ent[x].owner # "pending" => z[x].req
                 /\ x \in back => z[x].req
  <2>2. back \subseteq B
    BY <1>4
  <2>3. f.intact => en1 = SettleFlush(en, B)
    BY <1>71
  <2>4. ~f.intact => en1 = en
    BY <1>71
  <2>5. Types /\ Returned(en, back)
    BY <1>1
  <2>6. Ended(Unhold(en1, B, "flush"), B, back, f)
    BY <2>2, <2>3, <2>4, <2>5, EndedEntries
  <2> QED BY <1>72, <2>6 DEF Ended
<1>8. PICK attach : attach = IF live /\ r = rt THEN InOrder(Committed(f)) ELSE <<>>
  OBVIOUS
<1>9. PICK lease \in BOOLEAN : lease <=> IF r = rt THEN FALSE ELSE LeaseOpen
  BY DEF LeaseOpen
<1>10. /\ flush' = [flush EXCEPT ![r] = NoFlush]
       /\ inflight' = inflight \ es /\ ids' = ids \ IdsOf(es)
       /\ gen' = IF live /\ r = rt THEN NextGen(gen, waiting, queued, inflight', NoFlush) ELSE gen
       /\ Drain(z, pending \o attach, turn, lease)
  <2>1. ToSet(f.batch) = B
    BY <1>4 DEF Batch
  <2>2. /\ flush' = [flush EXCEPT ![r] = NoFlush]
        /\ inflight' = inflight \ es /\ ids' = ids \ IdsOf(es)
        /\ gen' = IF live /\ r = rt THEN NextGen(gen, waiting, queued, inflight', NoFlush) ELSE gen
    BY <1>6, <2>1 DEF EndFlush
  <2>3. Drain(z, pending \o attach, turn, IF r = rt THEN FALSE ELSE LeaseOpen)
    BY <1>71, <1>72, <1>8, <2>1 DEF EndFlush, Attach, Committed
  <2>4. Drain(z, pending \o attach, turn, lease)
    BY <1>9, <2>3 DEF Drain
  <2> QED BY <2>2, <2>4
<1>11. B \subseteq DOMAIN ent /\ A \subseteq B /\ \A e \in A : Offered(r, e) /\ e \notin back
  BY <1>4, <1>5, Located DEF Committed, Batch
<1>12. \A e \in A : live /\ r = rt /\ ~ent[e].req /\ ent[e].owner = "pending"
  BY <1>1, <1>4, <1>11 DEF FlushAt
<1>13. attach \in Seq(Nat) /\ Rising(attach) /\ ToSet(attach) = A
  <2>1. CASE live /\ r = rt
    <3>1. PICK n \in Nat : DOMAIN ent = 1 .. n
      BY <1>1 DEF Types
    <3>2. A \in SUBSET (1 .. n)
      BY <1>11, <3>1
    <3> QED BY <1>5, <1>8, <2>1, <3>2, InOrderFacts
  <2>2. CASE ~(live /\ r = rt)
    BY <1>5, <1>8, <2>2, EmptySet
  <2> QED BY <2>1, <2>2
<1>14. PICK p : p = pending \o attach
  OBVIOUS
<1>15. Below(Given, A) /\ Below(Buffer, A)
  <2>1. A # {} => Below(Given, Batch(rt)) /\ A \subseteq Batch(rt)
    BY <1>1, <1>4, <1>11, <1>12 DEF OrderInv
  <2> QED BY <2>1 DEF Below, Given
<1>16. p \in Seq(Nat) /\ Rising(p) /\ ToSet(p) = Buffer \union A
  <2>1. pending \in Seq(Nat) /\ Rising(pending) /\ Below(ToSet(pending), ToSet(attach))
    BY <1>1, <1>13, <1>15 DEF Types, RisingInv, Buffer
  <2>2. Rising(pending \o attach)
    BY <1>13, <2>1, ConcatRising
  <2>3. pending \o attach \in Seq(Nat) /\ ToSet(pending \o attach) = ToSet(pending) \union ToSet(attach)
    BY <1>13, <2>1, ConcatSet
  <2> QED BY <1>13, <1>14, <2>2, <2>3 DEF Buffer
<1>18. turn = [pc |-> turn.pc, ents |-> turn.ents] /\ turn.pc \in {"idle", "starting", "running"} /\ turn.ents \in Seq(Nat) /\ Rising(turn.ents)
  BY <1>1 DEF TurnTypes, RisingInv
<1>19. PICK t : t = turn
  OBVIOUS
<1>20. /\ t = [pc |-> t.pc, ents |-> t.ents] /\ t.pc \in {"idle", "starting", "running"} /\ t.ents \in Seq(Nat) /\ Rising(t.ents)
       /\ Drain(z, p, t, lease) /\ TurnOf(t) = Starting
  BY <1>10, <1>14, <1>18, <1>19 DEF TurnOf, Starting
<1>21. /\ Born(z, ent') /\ DOMAIN ent' = DOMAIN z
       /\ \A x \in DOMAIN z :
                 /\ ent'[x].creq = z[x].creq /\ ent'[x].cpend = z[x].cpend /\ ent'[x].crun = z[x].crun
                 /\ ent'[x].retired = z[x].retired /\ ent'[x].owner = z[x].owner /\ ent'[x].holds = z[x].holds
                 /\ x \notin ToSet(p) => ent'[x] = z[x]
                 /\ x \in Buffer' => ent'[x] = z[x]
                 /\ z[x].req => ent'[x].req
                 /\ x \in ToSet(p) => x \in Buffer' \/ ent'[x].req
  BY <1>16, <1>17, <1>20, DrainFacts
<1>22. /\ TurnTypes' /\ pending' \in Seq(Nat) /\ Rising(pending)' /\ Rising(turn.ents)'
       /\ Starting' \union Buffer' = Starting \union Buffer \union A
       /\ Buffer' \subseteq Buffer \union A
       /\ (Starting' = Starting /\ Buffer' = Buffer \union A) \/ (Starting = {} /\ Starting' = Buffer \union A /\ Buffer' = {})
  <2>1. /\ TurnTypes' /\ pending' \in Seq(Nat) /\ Rising(pending)' /\ Rising(turn.ents)'
        /\ Starting' \union Buffer' = TurnOf(t) \union ToSet(p)
        /\ Buffer' \subseteq ToSet(p)
        /\ (Starting' = TurnOf(t) /\ Buffer' = ToSet(p)) \/ (TurnOf(t) = {} /\ Starting' = ToSet(p) /\ Buffer' = {})
    BY <1>16, <1>17, <1>20, DrainFacts
  <2> QED BY <1>16, <1>20, <2>1
<1>23. Born(ent, ent') /\ DOMAIN ent' = DOMAIN ent
  BY <1>17, <1>21 DEF Born
<1>24. \A x \in DOMAIN ent :
                 /\ ent'[x].m = ent[x].m /\ ent'[x].rt = ent[x].rt /\ ent'[x].token = ent[x].token /\ ent'[x].gen = ent[x].gen
                 /\ ent'[x].creq = ent[x].creq /\ ent'[x].cpend = ent[x].cpend /\ ent'[x].crun = ent[x].crun
                 /\ ent'[x].retired = ent[x].retired /\ ent'[x].owner = ent[x].owner
                 /\ x \notin B \union Buffer => ent'[x] = ent[x]
                 /\ x \in B => ent'[x].holds = ent[x].holds \ {"flush"}
                 /\ x \notin B => ent'[x].holds = ent[x].holds
                 /\ ent[x].req => ent'[x].req
                 /\ x \in A /\ x \in Buffer' => ~ent'[x].req
                 /\ x \notin B /\ x \in Buffer' => ent'[x] = ent[x]
  <2>1. \A x \in DOMAIN ent : ent'[x].m = ent[x].m /\ ent'[x].rt = ent[x].rt /\ ent'[x].token = ent[x].token /\ ent'[x].gen = ent[x].gen
    BY <1>23 DEF Born
  <2>2. \A x \in DOMAIN ent :
                 /\ ent'[x].creq = ent[x].creq /\ ent'[x].cpend = ent[x].cpend /\ ent'[x].crun = ent[x].crun
                 /\ ent'[x].retired = ent[x].retired /\ ent'[x].owner = ent[x].owner
                 /\ x \notin B \union Buffer => ent'[x] = ent[x]
    BY <1>11, <1>16, <1>17, <1>21
  <2>3. \A x \in DOMAIN ent :
                 /\ x \in B => ent'[x].holds = ent[x].holds \ {"flush"}
                 /\ x \notin B => ent'[x].holds = ent[x].holds
                 /\ ent[x].req => ent'[x].req
                 /\ x \notin B /\ x \in Buffer' => ent'[x] = ent[x]
    BY <1>17, <1>21
  <2>4. \A x \in DOMAIN ent : x \in A /\ x \in Buffer' => ~ent'[x].req
    BY <1>11, <1>12, <1>17, <1>21
  <2> QED BY <2>1, <2>2, <2>3, <2>4
<1>25. gen' \in Nat /\ (gen' = gen \/ (gen' = 0 /\ live /\ r = rt /\ waiting = <<>> /\ queued = <<>>))
  BY <1>1, <1>10 DEF NextGen, Types
<1>26. /\ flush' = [q \in Runtime |-> flush'[q]] /\ flush'[r] = NoFlush
       /\ \A q \in Runtime : q # r => flush'[q] = flush[q]
  BY <1>1, <1>10 DEF FlushTypes
<1>27. \A q \in Runtime : q # r =>
          /\ Batch(q)' = Batch(q) /\ Rest(q)' = Rest(q) /\ Current(q)' = Current(q)
          /\ \A e : (Offered(q, e)' <=> Offered(q, e)) /\ (Unoffered(q, e)' <=> Unoffered(q, e))
  BY <1>26 DEF Batch, Rest, Current, Offered, Unoffered
<1>28. Batch(r)' = {} /\ (r = rt => Batch(rt)' = {}) /\ (r # rt => Batch(rt)' = Batch(rt))
  <2>1. flush'[r].batch = <<>>
    BY <1>26, NoFlushFields
  <2> QED BY <1>2, <1>26, <2>1, EmptySet, Located DEF Batch
<1>29. \A e : Offered(rt, e)' => Offered(rt, e) /\ r # rt
  <2>1. DOMAIN flush'[r].offers = {}
    BY <1>26, NoFlushFields
  <2> QED BY <1>2, <1>26, <2>1, Located DEF Offered
<1>30. /\ \A e \in B : e \in DOMAIN ent /\ ent[e].rt = r /\ (~flush[r].intact => e \notin inflight)
       /\ es \subseteq B /\ \A e \in es : ~ent[e].cpend
       /\ \A e \in B : e \in es \/ ent[e].cpend \/ e \notin inflight
  <2>1. \A e \in B : e \in DOMAIN ent /\ ent[e].rt = r /\ (~flush[r].intact => e \notin inflight)
    BY <1>1, <1>4, <1>11 DEF FlushAt
  <2> QED BY <1>6, <2>1 DEF Settled
<1>31. /\ \A e \in Window : e \notin B /\ e \notin Buffer
       /\ \A e \in Batch(rt) : e \notin Buffer
       /\ \A b \in DOMAIN queued : \A e \in BatchAt(b) : e \notin B /\ e \notin Buffer
       /\ \A q \in Runtime : q # r /\ flush[q].pc # "idle" => \A e \in Batch(q) : e \notin B /\ e \notin Buffer
  <2>1. /\ Below(Given \union Batch(rt), Window) /\ Below(Given, Batch(rt))
        /\ \A b \in DOMAIN queued : Below(Given \union Batch(rt), BatchAt(b))
    BY <1>1 DEF OrderInv
  <2>2. Buffer \subseteq Given /\ (r = rt => B = Batch(rt))
    BY <1>4 DEF Given
  <2>3. \A e \in Window : e \in Nat /\ ent[e].rt = rt
    BY <1>1, Located DEF WaitingInv
  <2>4. \A b \in DOMAIN queued : \A e \in BatchAt(b) : e \in Nat /\ ent[e].rt = rt
    BY <1>1, Located DEF QueuedInv, QueuedAt
  <2>5. \A e \in Batch(rt) : e \in Nat
    BY Located
  <2>6. \A q \in Runtime : q # r /\ flush[q].pc # "idle" => \A e \in Batch(q) : ent[e].rt = q
    BY <1>1 DEF FlushInv, FlushAt
  <2>7. \A e \in Buffer : ent[e].rt = rt /\ e \notin Batch(rt)
    BY <1>1, <2>1, <2>2, <2>5 DEF PendingInv, Below
  <2>8. \A e \in Window : e \notin B /\ e \notin Buffer
    BY <1>30, <2>1, <2>2, <2>3 DEF Below
  <2>9. \A b \in DOMAIN queued : \A e \in BatchAt(b) : e \notin B /\ e \notin Buffer
    BY <1>30, <2>1, <2>2, <2>4 DEF Below
  <2>10. \A q \in Runtime : q # r /\ flush[q].pc # "idle" => \A e \in Batch(q) : e \notin B /\ e \notin Buffer
    BY <1>30, <2>6, <2>7
  <2> QED BY <2>7, <2>8, <2>9, <2>10
<1>32. Window' = Window /\ Begun' = Begun /\ Given' = Given \union A
  BY <1>2, <1>22 DEF Window, Begun, Given
<1>33. Types'
  BY <1>1, <1>2, <1>10, <1>22, <1>23, <1>25, Located DEF Types, Born
<1>34. FlushTypes'
  <2>1. \A q \in Runtime : FlushFields(flush'[q])
    BY <1>1, <1>26, NoFlushFields DEF FlushTypes
  <2> QED BY <1>1, <1>2, <1>26, <2>1 DEF FlushTypes
<1>35. CancelTypes' /\ TurnTypes' /\ OfferAlwaysFits'
  BY <1>1, <1>2, <1>22, <1>23 DEF CancelTypes, OfferAlwaysFits
<1>36. RisingInv'
  <2>1. \A q \in Runtime : Rising(flush'[q].batch)
    BY <1>1, <1>26, NoFlushFields, EmptySet DEF RisingInv
  <2>2. Rising(ran)' /\ Rising(waiting)' /\ \A b \in DOMAIN queued' : Rising(queued'[b].ents)
    BY <1>1, <1>2 DEF RisingInv, Rising
  <2> QED BY <1>22, <2>1, <2>2 DEF RisingInv
<1>37. OrderInv'
  <2>1. Below(Begun', Starting') /\ Below(Begun' \union Starting', Buffer')
    BY <1>1, <1>15, <1>22, <1>32 DEF OrderInv, Below, Given
  <2>2. (Batch(rt)' = Batch(rt) /\ A = {}) \/ (Batch(rt)' = {} /\ A \subseteq Batch(rt))
    BY <1>4, <1>11, <1>12, <1>28
  <2>3. Given' \union Batch(rt)' \subseteq Given \union Batch(rt) /\ Below(Given', Batch(rt)')
    <3>1. Below(Given, Batch(rt))
      BY <1>1 DEF OrderInv
    <3> QED BY <1>32, <2>2, <3>1 DEF Below
  <2>4. \A q \in Runtime : Batch(q)' \subseteq DOMAIN ent
    BY <1>27, <1>28, Located
  <2>5. \A b \in DOMAIN queued : Below(Given' \union Batch(rt)', BatchAt(b))
    BY <1>1, <2>3 DEF OrderInv, Below
  <2>6. Below(Given' \union Batch(rt)', Window)
    BY <1>1, <2>3 DEF OrderInv, Below
  <2>7. Given' \subseteq DOMAIN ent
    BY <1>1, <1>11, <1>32 DEF OrderInv
  <2> QED BY <1>1, <1>2, <1>23, <1>32, <2>1, <2>3, <2>4, <2>5, <2>6, <2>7, QueueViews DEF OrderInv
<1>38. WaitingInv' /\ PendingInv'
  <2>1. Window # {} => gen' = gen
    BY <1>25, EmptySet DEF Window
  <2>2. WaitingInv'
    BY <1>1, <1>2, <1>10, <1>24, <1>31, <1>32, <2>1, Located DEF WaitingInv
  <2>3. ASSUME NEW e \in Buffer' PROVE ~ent'[e].req /\ live /\ ent'[e].rt = rt
    <3>1. CASE e \in A
      BY <1>11, <1>12, <1>24, <1>30, <2>3, <3>1
    <3>2. CASE e \in Buffer /\ e \notin B
      BY <1>1, <1>24, <2>3, <3>2, Located DEF PendingInv
    <3>3. CASE e \in Buffer /\ e \in B
      <4>1. ent[e].rt = rt /\ ent[e].rt = r
        BY <1>1, <1>30, <3>3 DEF PendingInv
      <4> QED BY <1>4, <1>31, <3>3, <4>1
    <3> QED BY <1>22, <3>1, <3>2, <3>3
  <2> QED BY <1>2, <2>2, <2>3 DEF PendingInv
<1>39. IdsInv'
  <2> SUFFICES ASSUME StopCompletes', NEW x \in ids' PROVE \E e \in (inflight \union Window)' : ent'[e].m = x
    BY DEF IdsInv
  <2>1. StopCompletes
    BY <1>2 DEF StopCompletes
  <2>2. PICK e \in (inflight \union Window) \ es : ent[e].m = x
    BY <1>1, <1>10, <2>1, IdsKept
  <2> QED BY <1>10, <1>24, <1>32, <2>2, Located
<1>40. QueuedInv'
  <2> SUFFICES ASSUME NEW b \in DOMAIN queued', NEW e \in BatchAt(b)' PROVE QueuedAt(b, e)'
    BY DEF QueuedInv
  <2>1. b \in DOMAIN queued /\ e \in BatchAt(b) /\ queued'[b] = queued[b] /\ queued # <<>>
    BY <1>2, QueueViews
  <2>2. e \in DOMAIN ent /\ QueuedAt(b, e) /\ gen' = gen /\ e \notin es /\ ent'[e] = ent[e]
    BY <1>1, <1>24, <1>25, <1>30, <1>31, <2>1, Located DEF QueuedInv
  <2> QED BY <1>2, <1>10, <2>1, <2>2 DEF QueuedAt
<1>41. FlushInv'
  <2> SUFFICES ASSUME NEW q \in Runtime, flush'[q].pc # "idle" PROVE FlushAt(q)'
    BY DEF FlushInv
  <2>1. q # r /\ flush'[q] = flush[q] /\ flush[q].pc # "idle" /\ FlushAt(q)
    BY <1>1, <1>26, NoFlushFields DEF FlushInv
  <2>2. \A e \in Batch(q) : e \in DOMAIN ent /\ e \notin es /\ ent'[e] = ent[e] /\ ent[e].rt = q
    BY <1>24, <1>30, <1>31, <2>1, Located DEF FlushAt
  <2>3. Rest(q) \subseteq Batch(q) /\ (q = rt => gen' = gen)
    BY <1>1, <1>25, <2>1, RestFacts
  <2>4. \A e \in Batch(q) : IsActive(e)' <=> IsActive(e)
    BY <1>2, <2>2, <2>3 DEF IsActive
  <2> QED BY <1>2, <1>10, <1>27, <2>1, <2>2, <2>3, <2>4 DEF FlushAt
<1>42. InflightInv'
  <2>1. ASSUME NEW e \in inflight'
        PROVE  ent'[e].cpend \/ (\E b \in DOMAIN queued' : e \in BatchAt(b)') \/ e \in Batch(rt)'
    <3>1. e \in inflight /\ e \notin es /\ ent'[e].cpend = ent[e].cpend
      BY <1>10, <1>24, Located
    <3>2. ent[e].cpend \/ (\E b \in DOMAIN queued : e \in BatchAt(b)) \/ e \in Batch(rt)
      BY <1>1, <3>1 DEF InflightInv
    <3>3. e \in Batch(rt) /\ ~ent[e].cpend => e \in Batch(rt)'
      BY <1>4, <1>28, <1>30, <3>1
    <3> QED BY <1>2, <3>1, <3>2, <3>3, QueueViews
  <2>2. \A e \in DOMAIN ent : (ent'[e].cpend => ent'[e].creq) /\
            (ent'[e].crun => \E d \in StopNo : cancel'[d].pc \in {"item", "record"} /\ e \in Marked(d)')
    BY <1>1, <1>2, <1>24, CancelViews DEF InflightInv
  <2>3. \A e \in inflight' : ent'[e].rt = rt' /\ ~ent'[e].retired /\ (ent'[e].cpend <=> ent'[e].creq)
    BY <1>1, <1>2, <1>10, <1>24, Located DEF InflightInv
  <2>4. inflight' # {} => live'
    BY <1>1, <1>2, <1>10 DEF InflightInv
  <2> QED BY <1>23, <2>1, <2>2, <2>3, <2>4 DEF InflightInv
<1>43. CancelInv'
  <2>2. ASSUME NEW d \in StopNo, cancel[d].pc # "done", NEW e \in Marked(d) PROVE CancelAt(d, e)'
    <3>1. CancelAt(d, e) /\ e \in DOMAIN ent
      BY <1>1, <2>2, Located DEF CancelInv
    <3>2. ~ent[e].retired => e \in inflight /\ e \notin es
      BY <1>1, <1>30, <3>1 DEF CancelAt, InflightInv
    <3>3. "cancel" \in ent'[e].holds
      BY <1>24, <3>1 DEF CancelAt
    <3>4. ~Offered(rt, e)'
      BY <1>29, <3>1 DEF CancelAt
    <3>5. e \notin Buffer'
      <4>1. e \notin A
        <5>1. e \in A => Offered(r, e) /\ r = rt
          BY <1>11, <1>12
        <5> QED BY <3>1, <5>1 DEF CancelAt
      <4> QED BY <1>22, <3>1, <4>1 DEF CancelAt
    <3> QED BY <1>2, <1>10, <1>24, <3>1, <3>2, <3>3, <3>4, <3>5 DEF CancelAt
  <2> QED BY <1>1, <1>2, <2>2, CancelViews DEF CancelInv
<1>44. Closed(r, Committed(f), back)
  <2>1. A = Attached(r, Committed(f)) /\ es = SettledBy(r)
    BY <1>4, <1>5, <1>6 DEF Attached, SettledBy
  <2>2. \A x \in DOMAIN ent :
          /\ x \in back => ent'[x].req
          /\ x \in B /\ flush[r].intact /\ ~ent[x].cpend /\ ent[x].owner # "pending" => ent'[x].req
          /\ x \in Buffer \union A => x \in Buffer' \/ ent'[x].req
    BY <1>16, <1>17, <1>21
  <2>3. Lasting
    BY <1>23, <1>24 DEF Lasting
  <2>4. FlushIs(r, NoFlush)
    BY <1>26 DEF FlushIs
  <2> QED BY <1>4, <1>10, <1>22, <1>23, <1>24, <2>1, <2>2, <2>3, <2>4 DEF Closed
<1>45. PipeInv'
  BY <1>33, <1>34, <1>35, <1>36, <1>37, <1>38, <1>39, <1>40, <1>41, <1>42, <1>43 DEF PipeInv
<1> QED BY <1>44, <1>45

\* What a footer commits.
Accepted(r) == {e \in Batch(r) : e \in DOMAIN flush[r].offers /\ flush[r].offers[e] \in {"recorded", "committed"}}
Unrecorded(r) == {e \in Batch(r) : e \in DOMAIN flush[r].offers /\ flush[r].offers[e] = "committed"}
Undone(r) == {e \in DOMAIN flush[r].offers : flush[r].offers[e] \in {"provisional", "recorded"}}

LEMMA FlushCommitPipe == ASSUME PipeInv, NEW r \in Runtime, FlushCommit(r) PROVE PipeInv' /\ Closed(r, Accepted(r), {})
<1>1. PICK f : f = [flush[r] EXCEPT !.offers = [e \in DOMAIN @ |-> IF @[e] = "recorded" THEN "committed" ELSE @[e]]]
  OBVIOUS
<1>2. EndFlush(r, f, ent) /\ flush[r].pc = "item" /\ UNCHANGED <<waiting, queued, cancel, runtime, ran, stops, broken>>
  BY <1>1 DEF FlushCommit, counters
<1>3. IsFlush(flush[r]) /\ ent \in Seq(Entry)
  BY DEF PipeInv, FlushTypes, FlushFields, Types
<1>4. /\ f.batch = flush[r].batch /\ f.intact = flush[r].intact
      /\ f.offers = [e \in DOMAIN flush[r].offers |-> IF flush[r].offers[e] = "recorded" THEN "committed" ELSE flush[r].offers[e]]
  BY <1>1, <1>3 DEF IsFlush
<1>5. \A e \in Committed(f) : Offered(r, e)
  BY <1>4 DEF Committed, Offered
<1>6. Returned(ent, {})
  BY <1>3 DEF Returned, Born
<1>7. Committed(f) = Accepted(r)
  <2>1. \A e : e \in Committed(f) <=> e \in Accepted(r)
    BY <1>4 DEF Committed, Accepted, Batch
  <2> QED BY <2>1
<1> QED BY <1>2, <1>4, <1>5, <1>6, <1>7, EndFlushPipe

LEMMA FlushAbandonPipe == ASSUME PipeInv, NEW r \in Runtime, FlushAbandon(r) PROVE PipeInv' /\ Closed(r, Unrecorded(r), Undone(r))
<1>1. PICK back : back = {e \in DOMAIN flush[r].offers : flush[r].offers[e] \in {"provisional", "recorded"}}
  OBVIOUS
<1>2. PICK f : f = [flush[r] EXCEPT !.offers = [e \in DOMAIN @ |-> IF e \in back THEN "back" ELSE @[e]]]
  OBVIOUS
<1>3. PICK en : en = RequestRelease(ent, back)
  OBVIOUS
<1>4. EndFlush(r, f, en) /\ flush[r].pc = "await" /\ UNCHANGED <<waiting, queued, cancel, runtime, ran, stops, broken>>
  BY <1>1, <1>2, <1>3 DEF FlushAbandon, counters
<1>5. FlushFields(flush[r]) /\ IsFlush(flush[r]) /\ ent \in Seq(Entry)
  BY DEF PipeInv, FlushTypes, FlushFields, Types
<1>6. /\ f.batch = flush[r].batch /\ f.intact = flush[r].intact
      /\ f.offers = [e \in DOMAIN flush[r].offers |-> IF e \in back THEN "back" ELSE flush[r].offers[e]]
  BY <1>2, <1>5 DEF IsFlush
<1>7. \A e \in Committed(f) : Offered(r, e) /\ e \notin back
  BY <1>6 DEF Committed, Offered
<1>8. back \in SUBSET Batch(r)
  BY <1>1, <1>5 DEF FlushFields, Batch
<1>9. Returned(en, back)
  <2>1. /\ Born(ent, en)
        /\ \A x \in DOMAIN ent : x \notin back => en[x] = ent[x]
        /\ \A x \in DOMAIN ent :
                 /\ en[x].creq = ent[x].creq /\ en[x].cpend = ent[x].cpend /\ en[x].crun = ent[x].crun
                 /\ en[x].retired = ent[x].retired /\ en[x].owner = ent[x].owner /\ en[x].holds = ent[x].holds
        /\ \A x \in DOMAIN ent : x \in back => en[x].req
    BY <1>3, <1>5, Released
  <2> QED BY <2>1 DEF Returned
<1>10. Committed(f) = Unrecorded(r) /\ back = Undone(r)
  <2>1. \A e : e \in Committed(f) <=> e \in Unrecorded(r)
    BY <1>1, <1>6 DEF Committed, Unrecorded, Batch
  <2>2. back = Undone(r)
    BY <1>1 DEF Undone
  <2> QED BY <2>1, <2>2
<1> QED BY <1>4, <1>6, <1>7, <1>8, <1>9, <1>10, EndFlushPipe

(***************************************************************************)
(* /stop, retirement and teardown hand every offer of the open lease back. *)
(***************************************************************************)
HandsBack(f, g) ==
    /\ FlushFields(g)
    /\ g.pc = f.pc /\ g.batch = f.batch /\ g.i = f.i
    /\ DOMAIN g.offers = DOMAIN f.offers /\ \A e \in DOMAIN g.offers : g.offers[e] = "back"

LEMMA AllBackFacts ==
    ASSUME NEW f, FlushFields(f)
    PROVE  /\ HandsBack(f, AllBack(f)) /\ AllBack(f).intact = f.intact
           /\ f = NoFlush => AllBack(f) = NoFlush
<1>1. IsFlush(f)
  BY DEF FlushFields
<1>2. PICK o : o = [e \in DOMAIN f.offers |-> "back"]
  OBVIOUS
<1>3. DOMAIN o = DOMAIN f.offers /\ \A e \in DOMAIN o : o[e] = "back"
  BY <1>2
<1>4. AllBack(f) = [f EXCEPT !.offers = o]
  BY <1>1, <1>2 DEF AllBack, IsFlush
<1>5. /\ IsFlush(AllBack(f)) /\ AllBack(f).pc = f.pc /\ AllBack(f).batch = f.batch /\ AllBack(f).i = f.i
      /\ AllBack(f).offers = o /\ AllBack(f).intact = f.intact
  BY <1>1, <1>4 DEF IsFlush
<1>6. FlushFields(AllBack(f))
  <2>1. \A e \in DOMAIN o : o[e] \in OfferState
    BY <1>3 DEF OfferState
  <2> QED BY <1>3, <1>5, <2>1 DEF FlushFields
<1>7. ASSUME f = NoFlush PROVE AllBack(f) = NoFlush
  <2>1. f.offers = <<>> /\ DOMAIN f.offers = {}
    BY <1>7, NoFlushFields
  <2>2. o = <<>>
    BY <1>2, <2>1
  <2>3. AllBack(f) = [f EXCEPT !.offers = f.offers]
    BY <1>4, <2>1, <2>2
  <2> QED BY <1>1, <1>7, <2>3 DEF IsFlush
<1> QED BY <1>3, <1>5, <1>6, <1>7 DEF HandsBack

\* A torn down lease is no longer intact.
LEMMA TornFacts ==
    ASSUME NEW f, FlushFields(f), NEW t \in BOOLEAN, NEW g, g = [AllBack(f) EXCEPT !.intact = t],
           f.pc = "idle" => f = NoFlush, t <=> f.pc = "idle"
    PROVE  /\ HandsBack(f, g) /\ (g.intact <=> f.pc = "idle")
           /\ f = NoFlush => g = NoFlush
<1>1. HandsBack(f, AllBack(f)) /\ AllBack(f).intact = f.intact /\ (f = NoFlush => AllBack(f) = NoFlush)
  BY AllBackFacts
<1>2. IsFlush(AllBack(f)) /\ FlushFields(AllBack(f))
  BY <1>1 DEF HandsBack, FlushFields
<1>3. /\ IsFlush(g) /\ g.pc = AllBack(f).pc /\ g.batch = AllBack(f).batch /\ g.i = AllBack(f).i
      /\ g.offers = AllBack(f).offers /\ g.intact = t
  BY <1>2 DEF IsFlush
<1>4. FlushFields(g)
  BY <1>2, <1>3 DEF FlushFields
<1>5. ASSUME f = NoFlush PROVE g = NoFlush
  <2>1. AllBack(f) = NoFlush /\ f.pc = "idle" /\ t = TRUE
    BY <1>1, <1>5, NoFlushFields
  <2>2. PICK h : h = NoFlush
    OBVIOUS
  <2>3. IsFlush(h) /\ h.intact = TRUE
    BY <2>2 DEF IsFlush, NoFlush
  <2>4. [h EXCEPT !.intact = h.intact] = h
    BY <2>3 DEF IsFlush
  <2> QED BY <2>1, <2>2, <2>3, <2>4
<1>6. HandsBack(f, g)
  BY <1>1, <1>3, <1>4 DEF HandsBack
<1> QED BY <1>3, <1>5, <1>6

LEMMA HandedBack ==
    ASSUME FlushTypes, rt \in Runtime, NEW g, HandsBack(flush[rt], g), flush[rt] = NoFlush => g = NoFlush,
           flush' = [flush EXCEPT ![rt] = g], rt' = rt
    PROVE  /\ FlushTypes' /\ flush'[rt] = g /\ \A q \in Runtime : q # rt => flush'[q] = flush[q]
           /\ \A q \in Runtime : flush'[q].pc = flush[q].pc /\ flush'[q].batch = flush[q].batch
           /\ \A q \in Runtime : Batch(q)' = Batch(q) /\ Rest(q)' = Rest(q) /\ Current(q)' = Current(q)
           /\ Batch(rt)' = Batch(rt)
           /\ \A q \in Runtime : \A e : (Unoffered(q, e)' <=> Unoffered(q, e)) /\ (Offered(q, e)' => Offered(q, e) /\ q # rt)
           /\ \A e : ~Offered(rt, e)'
<1>1. /\ flush' = [q \in Runtime |-> flush'[q]] /\ flush'[rt] = g
      /\ \A q \in Runtime : q # rt => flush'[q] = flush[q]
  BY DEF FlushTypes
<1>2. \A q \in Runtime : flush'[q].pc = flush[q].pc /\ flush'[q].batch = flush[q].batch /\ flush'[q].i = flush[q].i
                         /\ DOMAIN flush'[q].offers = DOMAIN flush[q].offers
  BY <1>1 DEF HandsBack
<1>3. \A q \in Runtime : FlushFields(flush'[q])
  BY <1>1 DEF HandsBack, FlushTypes
<1>4. \A q \in Runtime : flush'[q].pc = "idle" \/ q > rt' => flush'[q] = NoFlush
  BY <1>1, <1>2 DEF FlushTypes
<1>5. FlushTypes'
  BY <1>1, <1>3, <1>4 DEF FlushTypes
<1>6. \A q \in Runtime : Batch(q)' = Batch(q) /\ Rest(q)' = Rest(q) /\ Current(q)' = Current(q)
  BY <1>2 DEF Batch, Rest, Current
<1>7. Batch(rt)' = Batch(rt)
  BY <1>2 DEF Batch
<1>8. \A q \in Runtime : \A e : (Unoffered(q, e)' <=> Unoffered(q, e)) /\ (Offered(q, e)' => Offered(q, e) /\ q # rt)
  <2>1. \A e \in DOMAIN flush'[rt].offers : flush'[rt].offers[e] = "back"
    BY <1>1 DEF HandsBack
  <2> QED BY <1>1, <1>2, <2>1 DEF Unoffered, Offered
<1>9. \A e : ~Offered(rt, e)'
  <2>1. \A e \in DOMAIN flush'[rt].offers : flush'[rt].offers[e] = "back"
    BY <1>1 DEF HandsBack
  <2> QED BY <2>1 DEF Offered
<1> QED BY <1>1, <1>2, <1>5, <1>6, <1>7, <1>8, <1>9

LEMMA EntryGen == ASSUME Types PROVE \A x \in DOMAIN ent : ent[x] \in Entry /\ ent[x].gen \in Nat
<1>1. \A x \in DOMAIN ent : ent[x] \in Entry
  BY DEF Types
<1> QED BY <1>1 DEF Entry

\* What /stop does to the entries.
Dropping(z, es, drop) ==
    /\ Born(ent, z) /\ DOMAIN z = DOMAIN ent
    /\ \A x \in DOMAIN ent :
          /\ z[x].m = ent[x].m /\ z[x].rt = ent[x].rt /\ z[x].token = ent[x].token /\ z[x].gen = ent[x].gen
          /\ z[x].crun = ent[x].crun /\ z[x].retired = ent[x].retired
          /\ x \notin es \union drop => z[x] = ent[x]
          /\ x \notin es => z[x].creq = ent[x].creq /\ z[x].cpend = ent[x].cpend /\ z[x].holds = ent[x].holds
                            /\ z[x].owner = ent[x].owner
          /\ x \in es => z[x].creq /\ z[x].cpend /\ z[x].holds = ent[x].holds \union {"cancel"}
          /\ x \in drop => z[x].req
          /\ x \notin drop => z[x].req = ent[x].req
          /\ ent[x].req => z[x].req
          /\ x \notin Window => z[x].owner = ent[x].owner
          /\ x \in Window => z[x].owner = "debounce-inflight"

LEMMA StopEntries ==
    ASSUME Types, NEW es, NEW drop, Window \subseteq es
    PROVE  Dropping(RequestRelease(IF es = {} THEN ent ELSE CancelMarks(Transfer(ent, Window, "debounce-inflight"), es), drop), es, drop)
<1>1. ent \in Seq(Entry)
  BY DEF Types
<1>2. PICK a : a = Transfer(ent, Window, "debounce-inflight")
  OBVIOUS
<1>3. PICK b : b = CancelMarks(a, es)
  OBVIOUS
<1>4. PICK c : c = IF es = {} THEN ent ELSE b
  OBVIOUS
<1>5. PICK z : z = RequestRelease(c, drop)
  OBVIOUS
<1>6. /\ Born(ent, a)
      /\ \A x \in DOMAIN ent : x \notin Window => a[x] = ent[x]
      /\ \A x \in DOMAIN ent :
            /\ a[x].creq = ent[x].creq /\ a[x].cpend = ent[x].cpend /\ a[x].crun = ent[x].crun
            /\ a[x].retired = ent[x].retired /\ a[x].req = ent[x].req /\ a[x].holds = ent[x].holds
      /\ \A x \in DOMAIN ent : x \in Window => a[x].owner = "debounce-inflight"
  <2>1. "debounce-inflight" \in Owner
    BY DEF Owner
  <2> QED BY <1>1, <1>2, <2>1, Transferred
<1>7. a \in Seq(Entry) /\ DOMAIN a = DOMAIN ent
  BY <1>6 DEF Born
<1>8. /\ Born(a, b)
      /\ \A x \in DOMAIN a : x \notin es => b[x] = a[x]
      /\ \A x \in DOMAIN a :
            /\ b[x].crun = a[x].crun /\ b[x].retired = a[x].retired /\ b[x].owner = a[x].owner /\ b[x].req = a[x].req
      /\ \A x \in DOMAIN a : x \in es => b[x].creq /\ b[x].cpend /\ b[x].holds = a[x].holds \union {"cancel"}
  BY <1>3, <1>7, CancelMarked
<1>9. /\ Born(ent, c)
      /\ \A x \in DOMAIN ent :
            /\ c[x].crun = ent[x].crun /\ c[x].retired = ent[x].retired /\ c[x].req = ent[x].req
            /\ x \notin es => c[x] = ent[x]
            /\ x \in es => c[x].creq /\ c[x].cpend /\ c[x].holds = ent[x].holds \union {"cancel"}
            /\ x \notin Window => c[x].owner = ent[x].owner
            /\ x \in Window => c[x].owner = "debounce-inflight"
  <2>1. CASE es = {}
    <3>1. c = ent /\ Window = {}
      BY <1>4, <2>1
    <3>2. Born(ent, c)
      BY <1>1, <3>1 DEF Born
    <3> QED BY <2>1, <3>1, <3>2
  <2>2. CASE es # {}
    <3>1. c = b
      BY <1>4, <2>2
    <3>2. Born(ent, c)
      BY <1>6, <1>8, <3>1 DEF Born
    <3> QED BY <1>6, <1>7, <1>8, <3>1, <3>2
  <2> QED BY <2>1, <2>2
<1>10. c \in Seq(Entry) /\ DOMAIN c = DOMAIN ent
  BY <1>9 DEF Born
<1>11. /\ Born(c, z)
       /\ \A x \in DOMAIN c : x \notin drop => z[x] = c[x]
       /\ \A x \in DOMAIN c :
            /\ z[x].creq = c[x].creq /\ z[x].cpend = c[x].cpend /\ z[x].crun = c[x].crun
            /\ z[x].retired = c[x].retired /\ z[x].owner = c[x].owner /\ z[x].holds = c[x].holds
       /\ \A x \in DOMAIN c : x \in drop => z[x].req
  BY <1>5, <1>10, Released
<1>12. Born(ent, z) /\ DOMAIN z = DOMAIN ent
  BY <1>9, <1>11 DEF Born
<1>13. \A x \in DOMAIN ent : z[x].m = ent[x].m /\ z[x].rt = ent[x].rt /\ z[x].token = ent[x].token /\ z[x].gen = ent[x].gen
  BY <1>12 DEF Born
<1>14. \A x \in DOMAIN ent :
          /\ z[x].crun = ent[x].crun /\ z[x].retired = ent[x].retired
          /\ x \notin es \union drop => z[x] = ent[x]
          /\ x \notin es => z[x].creq = ent[x].creq /\ z[x].cpend = ent[x].cpend /\ z[x].holds = ent[x].holds
                            /\ z[x].owner = ent[x].owner
          /\ x \in es => z[x].creq /\ z[x].cpend /\ z[x].holds = ent[x].holds \union {"cancel"}
  BY <1>9, <1>10, <1>11
<1>15. \A x \in DOMAIN ent :
          /\ x \in drop => z[x].req
          /\ x \notin drop => z[x].req = ent[x].req
          /\ x \notin Window => z[x].owner = ent[x].owner
          /\ x \in Window => z[x].owner = "debounce-inflight"
  BY <1>9, <1>10, <1>11
<1>16. \A x \in DOMAIN ent : ent[x].req => z[x].req
  BY <1>15
<1>17. Dropping(z, es, drop)
  BY <1>12, <1>13, <1>14, <1>15, <1>16 DEF Dropping
<1> QED BY <1>2, <1>3, <1>4, <1>5, <1>17

LEMMA StopPipe == ASSUME PipeInv, Stop PROVE PipeInv'
<1>1. /\ Types /\ FlushTypes /\ CancelTypes /\ TurnTypes /\ RisingInv /\ OrderInv /\ WaitingInv
      /\ QueuedInv /\ FlushInv /\ IdsInv /\ InflightInv /\ CancelInv /\ PendingInv /\ OfferAlwaysFits
  BY DEF PipeInv
<1>2. /\ UNCHANGED <<queued, ids, turn, rt, live, token, ran, broken>>
      /\ live /\ stops < MaxStops /\ stops' = stops + 1 /\ Throwers = {}
      /\ waiting' = <<>> /\ pending' = <<>> /\ flush' = [flush EXCEPT ![rt] = AllBack(@)]
  BY DEF Stop, StopArrives, runtime
<1>3. PICK es : es = NewlyCancelled
  OBVIOUS
<1>4. PICK drop : drop = Dropped
  OBVIOUS
<1>5. /\ inflight' = inflight \union Window
      /\ gen' = IF es = {} THEN gen ELSE gen + 1
      /\ cancel' = IF es = {} THEN cancel
                   ELSE [cancel EXCEPT ![stops + 1] = [pc |-> "scheduled", i |-> 1, rt |-> rt, ents |-> InOrder(es)]]
      /\ ent' = RequestRelease(IF es = {} THEN ent ELSE CancelMarks(Transfer(ent, Window, "debounce-inflight"), es), drop)
  BY <1>2, <1>3, <1>4 DEF Stop, Window
<1>6. /\ es \subseteq inflight \union Window /\ \A e \in es : ~ent[e].creq /\ ~ent[e].req
      /\ \A e \in inflight \union Window : ~ent[e].creq => e \in es
      /\ Window \subseteq es /\ es \subseteq DOMAIN ent
  <2>1. es \subseteq inflight \union Window /\ \A e \in es : ~ent[e].creq /\ ~ent[e].req
    BY <1>2, <1>3 DEF NewlyCancelled, Throwers, Window
  <2>2. \A e \in inflight \union Window : ~ent[e].creq => e \in es
    BY <1>3 DEF NewlyCancelled, Window
  <2> QED BY <1>1, <2>1, <2>2, Located DEF WaitingInv
<1>7. Dropping(ent', es, drop)
  BY <1>1, <1>5, <1>6, StopEntries
<1>8. Born(ent, ent') /\ DOMAIN ent' = DOMAIN ent
  BY <1>7 DEF Dropping
<1>9. \A x \in DOMAIN ent :
          /\ ent'[x].m = ent[x].m /\ ent'[x].rt = ent[x].rt /\ ent'[x].token = ent[x].token /\ ent'[x].gen = ent[x].gen
          /\ ent'[x].crun = ent[x].crun /\ ent'[x].retired = ent[x].retired
          /\ x \notin es \union drop => ent'[x] = ent[x]
          /\ x \notin es => ent'[x].creq = ent[x].creq /\ ent'[x].cpend = ent[x].cpend /\ ent'[x].holds = ent[x].holds
                            /\ ent'[x].owner = ent[x].owner
          /\ x \in es => ent'[x].creq /\ ent'[x].cpend /\ ent'[x].holds = ent[x].holds \union {"cancel"}
          /\ x \in drop => ent'[x].req
          /\ x \notin drop => ent'[x].req = ent[x].req
          /\ ent[x].req => ent'[x].req
          /\ x \notin Window => ent'[x].owner = ent[x].owner
          /\ x \in Window => ent'[x].owner = "debounce-inflight"
  BY <1>7 DEF Dropping
<1>10. /\ FlushTypes' /\ flush'[rt].intact = flush[rt].intact /\ \A q \in Runtime : q # rt => flush'[q] = flush[q]
       /\ \A q \in Runtime : flush'[q].pc = flush[q].pc /\ flush'[q].batch = flush[q].batch
       /\ \A q \in Runtime : Batch(q)' = Batch(q) /\ Rest(q)' = Rest(q) /\ Current(q)' = Current(q)
       /\ Batch(rt)' = Batch(rt)
       /\ \A q \in Runtime : \A e : (Unoffered(q, e)' <=> Unoffered(q, e)) /\ (Offered(q, e)' => Offered(q, e) /\ q # rt)
       /\ \A e : ~Offered(rt, e)'
  <2>1. FlushFields(flush[rt]) /\ rt \in Runtime
    BY <1>1, Located DEF FlushTypes
  <2>2. PICK g : g = AllBack(flush[rt])
    OBVIOUS
  <2>3. HandsBack(flush[rt], g) /\ g.intact = flush[rt].intact /\ (flush[rt] = NoFlush => g = NoFlush)
    BY <2>1, <2>2, AllBackFacts
  <2>4. flush' = [flush EXCEPT ![rt] = g] /\ rt' = rt
    BY <1>2, <2>2
  <2> QED BY <1>1, <2>1, <2>3, <2>4, HandedBack
<1>11. Window' = {} /\ Buffer' = {} /\ Begun' = Begun /\ Starting' = Starting /\ Given' = Begun \union Starting
  BY <1>2, EmptySet DEF Window, Buffer, Begun, Starting, Given
<1>12. drop = Buffer \union {e \in DOMAIN flush[rt].offers : Offered(rt, e)}
  BY <1>4 DEF Dropped, Buffer, Offered
<1>13. drop \subseteq Buffer \union Batch(rt)
  BY <1>1, <1>12, Located DEF FlushTypes, FlushFields, Batch
<1>14. PICK n \in StopNo : n = stops + 1
  BY <1>1, <1>2, BoundsAssumption DEF StopNo, Types
<1>15. /\ cancel' \in [StopNo -> Batchwise] /\ \A d \in StopNo : d # n => cancel'[d] = cancel[d]
       /\ es = {} => cancel' = cancel
       /\ es # {} => cancel'[n].pc = "scheduled" /\ cancel'[n].rt = rt /\ Marked(n)' = es /\ cancel'[n].i = 1
       /\ cancel[n].pc = "done"
  <2>1. cancel \in [StopNo -> Batchwise] /\ cancel[n].pc = "done"
    BY <1>1, <1>14 DEF CancelTypes, Types, StopNo
  <2>2. PICK k \in Nat : DOMAIN ent = 1 .. k
    BY <1>1 DEF Types
  <2>3. es \in SUBSET (1 .. k)
    BY <1>6, <2>2
  <2>4. InOrder(es) \in Seq(Nat) /\ ToSet(InOrder(es)) = es
    BY <2>3, InOrderFacts
  <2>5. PICK b : b = [pc |-> "scheduled", i |-> 1, rt |-> rt, ents |-> InOrder(es)]
    OBVIOUS
  <2>6. b \in Batchwise /\ b.pc = "scheduled" /\ b.rt = rt /\ b.ents = InOrder(es) /\ b.i = 1
    BY <2>4, <2>5, Located DEF Batchwise
  <2>7. CASE es = {}
    BY <1>5, <2>1, <2>7
  <2>8. CASE es # {}
    <3>1. cancel' = [cancel EXCEPT ![n] = b]
      BY <1>5, <1>14, <2>5, <2>8
    <3>2. cancel' \in [StopNo -> Batchwise] /\ cancel'[n] = b /\ \A d \in StopNo : d # n => cancel'[d] = cancel[d]
      BY <2>1, <2>6, <3>1
    <3> QED BY <2>1, <2>4, <2>6, <2>8, <3>2 DEF Marked
  <2> QED BY <2>7, <2>8
<1>16. \A d \in StopNo : d # n => Marked(d)' = Marked(d)
  BY <1>15 DEF Marked
<1>17. gen \in Nat /\ gen' \in Nat /\ gen <= gen' /\ (es = {} => gen' = gen) /\ (es # {} => gen < gen')
  BY <1>1, <1>5 DEF Types
<1>18. Types'
  BY <1>1, <1>2, <1>5, <1>8, <1>17, Located DEF Types, Born
<1>19. CancelTypes'
  <2>1. ASSUME NEW c \in StopNo PROVE /\ c > stops' => cancel'[c].pc = "done"
                                      /\ cancel'[c].pc = "record" => cancel'[c].i <= Len(cancel'[c].ents)
                                      /\ ToSet(cancel'[c].ents) \subseteq DOMAIN ent
    <3>0. /\ c > stops => cancel[c].pc = "done"
          /\ cancel[c].pc = "record" => cancel[c].i <= Len(cancel[c].ents)
          /\ ToSet(cancel[c].ents) \subseteq DOMAIN ent
      BY <1>1 DEF CancelTypes
    <3>1. CASE c = n /\ es # {}
      <4>1. Marked(c)' = es
        BY <1>15, <3>1 DEF Marked
      <4>2. ToSet(cancel'[c].ents) \subseteq DOMAIN ent
        BY <1>6, <4>1 DEF Marked
      <4>3. ~(c > stops') /\ cancel'[c].pc = "scheduled"
        BY <1>1, <1>2, <1>14, <1>15, <3>1 DEF Types
      <4> QED BY <4>2, <4>3
    <3>2. CASE c # n \/ es = {}
      <4>1. cancel'[c] = cancel[c]
        BY <1>15, <3>2
      <4> QED BY <1>1, <1>2, <3>0, <4>1 DEF Types, StopNo
    <3> QED BY <3>1, <3>2
  <2> QED BY <1>8, <1>15, <2>1 DEF CancelTypes
<1>20. TurnTypes' /\ OfferAlwaysFits'
  BY <1>1, <1>2 DEF TurnTypes, OfferAlwaysFits
<1>21. RisingInv'
  BY <1>1, <1>2, <1>10, EmptySet DEF RisingInv, Rising
<1>22. OrderInv'
  BY <1>1, <1>2, <1>8, <1>10, <1>11, QueueViews DEF OrderInv, Below, Given
<1>23. WaitingInv' /\ PendingInv'
  BY <1>11 DEF WaitingInv, PendingInv
<1>24. /\ \A b \in DOMAIN queued : \A e \in BatchAt(b) : e \notin drop
       /\ \A r \in Runtime : flush[r].pc # "idle" => \A e \in Batch(r) : e \notin Window
  <2>1. \A b \in DOMAIN queued : Below(Given \union Batch(rt), BatchAt(b))
    BY <1>1 DEF OrderInv
  <2>2. Below(Given \union Batch(rt), Window)
    BY <1>1 DEF OrderInv
  <2>3. \A b \in DOMAIN queued : \A e \in BatchAt(b) : e \in Nat
    BY Located
  <2>4. drop \subseteq Given \union Batch(rt)
    BY <1>13 DEF Given
  <2>5. \A e \in Window : e \in Nat /\ ent[e].rt = rt
    BY <1>1, Located DEF WaitingInv
  <2>6. \A r \in Runtime : flush[r].pc # "idle" => \A e \in Batch(r) : ent[e].rt = r
    BY <1>1 DEF FlushInv, FlushAt
  <2>7. ASSUME NEW r \in Runtime, flush[r].pc # "idle", NEW e \in Batch(r), e \in Window PROVE FALSE
    <3>1. r = rt
      BY <2>5, <2>6, <2>7
    <3> QED BY <2>2, <2>5, <2>7, <3>1 DEF Below
  <2>8. ASSUME NEW b \in DOMAIN queued, NEW e \in BatchAt(b), e \in drop PROVE FALSE
    BY <2>1, <2>3, <2>4, <2>8 DEF Below
  <2> QED BY <2>7, <2>8
<1>25. IdsInv'
  BY <1>1, <1>2, <1>5, <1>9, <1>11, Located DEF IdsInv, StopCompletes
<1>26. QueuedInv'
  <2> SUFFICES ASSUME NEW b \in DOMAIN queued', NEW e \in BatchAt(b)' PROVE QueuedAt(b, e)'
    BY DEF QueuedInv
  <2>1. b \in DOMAIN queued /\ e \in BatchAt(b) /\ queued'[b] = queued[b]
    BY <1>2, QueueViews
  <2>2. e \in DOMAIN ent /\ QueuedAt(b, e) /\ e \notin drop
    BY <1>1, <1>24, <2>1, Located DEF QueuedInv
  <2>3. ent[e].gen \in Nat
    BY <1>1, <2>2, EntryGen
  <2>4. ent'[e].gen = queued'[b].gen /\ live' /\ ent'[e].rt = rt' /\ ent'[e].gen <= gen'
    BY <1>2, <1>9, <1>17, <2>1, <2>2, <2>3 DEF QueuedAt
  <2>5. ent'[e].owner # "pending" /\ (e \in inflight' \/ (ent'[e].creq /\ ent'[e].req))
    BY <1>5, <1>9, <2>2 DEF QueuedAt
  <2>6. ~ent'[e].creq => ~ent'[e].req
    BY <1>9, <2>2 DEF QueuedAt
  <2>7. ent'[e].gen = gen' => ~ent'[e].creq /\ ent'[e].token = token'
    BY <1>2, <1>9, <1>17, <2>2, <2>3 DEF QueuedAt
  <2> QED BY <2>4, <2>5, <2>6, <2>7 DEF QueuedAt
<1>27. FlushInv'
  <2> SUFFICES ASSUME NEW r \in Runtime, flush'[r].pc # "idle" PROVE FlushAt(r)'
    BY DEF FlushInv
  <2>1. flush[r].pc # "idle" /\ FlushAt(r) /\ flush'[r].intact = flush[r].intact /\ flush'[r].pc = flush[r].pc
    BY <1>1, <1>10 DEF FlushInv
  <2>2. Rest(r) \subseteq Batch(r)
    BY <1>1, RestFacts
  <2>3. ASSUME NEW e \in Batch(r)
        PROVE  /\ e \in DOMAIN ent /\ e \notin Window /\ ent[e].rt = r /\ ent[e].gen \in Nat
               /\ "flush" \in ent[e].holds
               /\ live /\ r = rt => ent[e].gen <= gen
               /\ flush[r].intact => e \in inflight \/ (ent[e].creq /\ ent[e].req)
               /\ ~flush[r].intact => ent[e].req /\ e \notin inflight
               /\ IsActive(e) => flush[r].intact /\ ent[e].token = token
               /\ ent[e].owner = "pending" => ~Unoffered(r, e)
               /\ ~Unoffered(r, e) /\ ~Offered(r, e) => ent[e].req
               /\ Offered(r, e) => r = rt
    <3>1. e \in DOMAIN ent /\ e \notin Window
      BY <1>24, <2>1, Located
    <3>2. ent[e].gen \in Nat
      BY <1>1, <3>1, EntryGen
    <3> QED BY <2>1, <3>1, <3>2 DEF FlushAt
  <2>4. ASSUME NEW e \in Batch(r) PROVE ~IsActive(e)'
    <3>1. CASE r # rt
      BY <1>2, <1>9, <2>3, <3>1 DEF IsActive
    <3>2. CASE r = rt /\ es # {}
      BY <1>2, <1>9, <1>17, <2>3, <3>2 DEF IsActive
    <3>3. CASE r = rt /\ es = {}
      <4>1. IsActive(e)' => IsActive(e)
        BY <1>2, <1>9, <1>17, <2>3, <3>3 DEF IsActive
      <4>2. IsActive(e) => e \in inflight /\ ~ent[e].creq
        BY <2>3 DEF IsActive
      <4> QED BY <1>6, <3>3, <4>1, <4>2
    <3> QED BY <3>1, <3>2, <3>3
  <2>5. ASSUME NEW e \in Batch(r) PROVE ~Unoffered(r, e) => ent'[e].req
    <3>1. CASE Offered(r, e)
      <4>1. e \in drop
        BY <1>12, <2>3, <3>1 DEF Offered
      <4> QED BY <1>9, <2>3, <4>1
    <3>2. CASE ~Offered(r, e)
      BY <1>9, <2>3, <3>2
    <3> QED BY <3>1, <3>2
  <2>6. ASSUME NEW e \in Batch(r)
        PROVE  /\ ent'[e].rt = r /\ "flush" \in ent'[e].holds
               /\ live' /\ r = rt' => ent'[e].gen <= gen'
               /\ flush'[r].intact => e \in inflight' \/ (ent'[e].creq /\ ent'[e].req)
               /\ ~flush'[r].intact => ent'[e].req /\ e \notin inflight'
               /\ ent'[e].owner = "pending" => ~Unoffered(r, e)'
               /\ ~Offered(r, e)'
    <3>1. ent'[e].rt = r /\ "flush" \in ent'[e].holds /\ (live' /\ r = rt' => ent'[e].gen <= gen')
      BY <1>2, <1>9, <1>17, <2>3
    <3>2. ent[e].creq => ent'[e].creq
      BY <1>9, <2>3
    <3>3. /\ flush'[r].intact => e \in inflight' \/ (ent'[e].creq /\ ent'[e].req)
          /\ ~flush'[r].intact => ent'[e].req /\ e \notin inflight'
      BY <1>5, <1>9, <2>1, <2>3, <3>2
    <3>4. ent'[e].owner = "pending" => ~Unoffered(r, e)'
      BY <1>9, <1>10, <2>3
    <3>5. ~Offered(r, e)'
      BY <1>10, <2>3
    <3> QED BY <3>1, <3>3, <3>4, <3>5
  <2>7. r <= rt' /\ (flush'[r].intact => live' /\ r = rt')
    BY <1>2, <2>1 DEF FlushAt
  <2>8. \A e \in Rest(r) : Unoffered(r, e)' \/ (flush'[r].pc = "record" /\ e = Current(r)')
    BY <1>10, <2>1 DEF FlushAt
  <2> QED BY <1>10, <2>2, <2>4, <2>5, <2>6, <2>7, <2>8 DEF FlushAt
<1>28. \A e \in es : ent[e].rt = rt /\ ~ent[e].retired /\ e \in inflight'
  BY <1>1, <1>5, <1>6 DEF InflightInv, WaitingInv
<1>29. InflightInv'
  <2>1. ASSUME NEW e \in inflight'
        PROVE  ent'[e].rt = rt' /\ ~ent'[e].retired /\ ent'[e].cpend /\ ent'[e].creq
    <3>1. CASE e \in es
      BY <1>2, <1>6, <1>9, <1>28, <3>1
    <3>2. CASE e \notin es
      <4>1. e \in inflight /\ e \in DOMAIN ent /\ ent[e].creq
        BY <1>5, <1>6, <2>1, <3>2, Located
      <4> QED BY <1>1, <1>2, <1>9, <3>2, <4>1 DEF InflightInv
    <3> QED BY <3>1, <3>2
  <2>2. \A e \in DOMAIN ent : ent'[e].cpend => ent'[e].creq
    BY <1>1, <1>9 DEF InflightInv
  <2>3. ASSUME NEW e \in DOMAIN ent, ent'[e].crun
        PROVE  \E d \in StopNo : cancel'[d].pc \in {"item", "record"} /\ e \in Marked(d)'
    <3>1. PICK d \in StopNo : cancel[d].pc \in {"item", "record"} /\ e \in Marked(d)
      BY <1>1, <1>9, <2>3 DEF InflightInv
    <3>2. d # n
      BY <1>15, <3>1
    <3> QED BY <1>15, <1>16, <3>1, <3>2
  <2> QED BY <1>2, <1>8, <2>1, <2>2, <2>3 DEF InflightInv
<1>30. CancelInv'
  <2>1. ASSUME NEW d \in StopNo, d # n, cancel'[d].pc # "done", NEW e \in Marked(d)' PROVE CancelAt(d, e)' /\ e \notin es
    <3>1. cancel'[d] = cancel[d] /\ e \in Marked(d) /\ cancel[d].pc # "done" /\ e \in DOMAIN ent
      BY <1>15, <1>16, <2>1, Located
    <3>2. CancelAt(d, e)
      BY <1>1, <3>1 DEF CancelInv
    <3>3. e \notin es
      BY <1>6, <3>2 DEF CancelAt
    <3> QED BY <1>2, <1>5, <1>9, <1>10, <1>11, <3>1, <3>2, <3>3 DEF CancelAt
  <2>2. ASSUME es # {}, NEW e \in es PROVE CancelAt(n, e)'
    <3>1. /\ e \in DOMAIN ent /\ ent'[e].creq /\ "cancel" \in ent'[e].holds /\ ~ent'[e].retired /\ e \in inflight'
          /\ ent'[e].rt = rt
      BY <1>6, <1>9, <1>28, <2>2
    <3> QED BY <1>2, <1>10, <1>11, <1>15, <2>2, <3>1 DEF CancelAt
  <2>3. \A d \in StopNo : cancel'[d].pc # "done" => d # n \/ (es # {} /\ Marked(d)' = es)
    BY <1>15 DEF Marked
  <2>4. \A d \in StopNo : cancel'[d].pc # "done" => \A e \in Marked(d)' : CancelAt(d, e)'
    BY <2>1, <2>2, <2>3
  <2>5. ASSUME NEW c \in StopNo, NEW d \in StopNo, c # d, cancel'[c].pc # "done", cancel'[d].pc # "done", NEW e \in Marked(c)'
        PROVE  e \notin Marked(d)'
    <3>1. CASE c # n /\ d # n
      <4>1. cancel[c].pc # "done" /\ cancel[d].pc # "done" /\ e \in Marked(c) /\ Marked(d)' = Marked(d)
        BY <1>15, <1>16, <2>5, <3>1
      <4> QED BY <1>1, <2>5, <4>1 DEF CancelInv
    <3>2. CASE c = n
      <4>1. d # n /\ Marked(c)' = es
        BY <2>3, <2>5, <3>2
      <4> QED BY <2>1, <2>5, <4>1
    <3>3. CASE d = n
      <4>1. c # n /\ Marked(d)' = es
        BY <2>3, <2>5, <3>3
      <4> QED BY <2>1, <2>5, <4>1
    <3> QED BY <3>1, <3>2, <3>3
  <2> QED BY <2>4, <2>5 DEF CancelInv
<1> QED BY <1>10, <1>18, <1>19, <1>20, <1>21, <1>22, <1>23, <1>25, <1>26, <1>27, <1>29, <1>30 DEF PipeInv

LEMMA SmallestOf ==
    ASSUME NEW n \in Nat, NEW K \in SUBSET (1 .. n), K # {}
    PROVE  \E e \in K : \A x \in K : e <= x
<1>1. PICK s : s = InOrder(K)
  OBVIOUS
<1>2. s \in Seq(Nat) /\ Rising(s) /\ ToSet(s) = K
  BY <1>1, InOrderFacts
<1>3. /\ Len(s) \in Nat /\ DOMAIN s = 1 .. Len(s) /\ s # <<>>
      /\ \A i \in DOMAIN s : s[i] \in ToSet(s)
      /\ \A x \in ToSet(s) : \E i \in DOMAIN s : s[i] = x
  BY <1>2, SetOf
<1>4. 1 \in DOMAIN s
  BY <1>2, <1>3
<1>5. ASSUME NEW i \in DOMAIN s PROVE s[1] <= s[i]
  <2>1. i = 1 \/ 1 < i
    BY <1>3
  <2>2. s[1] \in Nat /\ s[i] \in Nat
    BY <1>2, <1>4
  <2> QED BY <1>2, <1>4, <2>1, <2>2 DEF Rising
<1>6. ASSUME NEW x \in K PROVE s[1] <= x
  <2>1. PICK i \in DOMAIN s : s[i] = x
    BY <1>2, <1>3
  <2> QED BY <1>5, <2>1
<1>7. s[1] \in K
  BY <1>2, <1>3, <1>4
<1> QED BY <1>6, <1>7

LEMMA StopThrowsPipe == ASSUME PipeInv, StopThrows PROVE PipeInv'
<1>1. /\ Types /\ FlushTypes /\ CancelTypes /\ TurnTypes /\ RisingInv /\ OrderInv /\ WaitingInv
      /\ QueuedInv /\ FlushInv /\ IdsInv /\ InflightInv /\ CancelInv /\ PendingInv /\ OfferAlwaysFits
  BY DEF PipeInv
<1>2. /\ UNCHANGED <<queued, inflight, ids, flush, cancel, pending, turn, rt, live, token, ran>>
      /\ live /\ stops' = stops + 1 /\ Throwers # {}
      /\ waiting' = <<>> /\ gen' = gen + 1 /\ broken' = broken \union {"stop"}
  BY DEF StopThrows, StopArrives, runtime, dispatcher
<1>3. PICK first : first = CHOOSE e \in Throwers : \A x \in Throwers : e <= x
  OBVIOUS
<1>4. Throwers \subseteq NewlyCancelled /\ NewlyCancelled \subseteq inflight \union Window
  BY DEF Throwers, NewlyCancelled, Window
<1>5. first \in Throwers
  <2>1. PICK n \in Nat : DOMAIN ent = 1 .. n
    BY <1>1 DEF Types
  <2>2. Throwers \in SUBSET (1 .. n)
    BY <1>4, <2>1, Located
  <2>3. \E e \in Throwers : \A x \in Throwers : e <= x
    BY <1>2, <2>2, SmallestOf
  <2> QED BY <1>3, <2>3
<1>6. PICK M : M = {e \in NewlyCancelled : e < first}
  OBVIOUS
<1>7. PICK a : a = CancelMarks(ent, M)
  OBVIOUS
<1>8. ent' = Change(a, {first}, LAMBDA y : [y EXCEPT !.creq = TRUE, !.cpend = TRUE]) /\ ent \in Seq(Entry)
  BY <1>1, <1>3, <1>6, <1>7 DEF StopThrows, Types
<1>9. PICK es : es = M \union {first}
  OBVIOUS
<1>10. \A e \in es : e \in inflight \union Window /\ e \in DOMAIN ent /\ ~ent[e].creq /\ ~ent[e].retired
  <2>1. es \subseteq NewlyCancelled
    BY <1>4, <1>5, <1>6, <1>9
  <2>2. \A e \in es : e \in inflight \union Window /\ ~ent[e].creq
    BY <1>4, <2>1 DEF NewlyCancelled
  <2> QED BY <1>1, <2>2, Located DEF InflightInv, WaitingInv
<1>11. /\ Born(ent, a)
       /\ \A x \in DOMAIN ent : x \notin M => a[x] = ent[x]
       /\ \A x \in DOMAIN ent :
            /\ a[x].crun = ent[x].crun /\ a[x].retired = ent[x].retired /\ a[x].owner = ent[x].owner /\ a[x].req = ent[x].req
       /\ \A x \in DOMAIN ent : x \in M => a[x].creq /\ a[x].cpend /\ a[x].holds = ent[x].holds \union {"cancel"}
  BY <1>7, <1>8, CancelMarked
<1>12. a \in Seq(Entry) /\ DOMAIN a = DOMAIN ent
  BY <1>11 DEF Born
<1>13. /\ Born(a, ent')
       /\ \A x \in DOMAIN a : x \notin {first} => ent'[x] = a[x]
       /\ \A x \in DOMAIN a :
            /\ ent'[x].crun = a[x].crun /\ ent'[x].retired = a[x].retired /\ ent'[x].owner = a[x].owner
            /\ ent'[x].req = a[x].req /\ ent'[x].holds = a[x].holds
       /\ \A x \in DOMAIN a : x \in {first} => ent'[x].creq /\ ent'[x].cpend
  BY <1>8, <1>12, HalfMarked
<1>14. Born(ent, ent') /\ DOMAIN ent' = DOMAIN ent
  BY <1>11, <1>13 DEF Born
<1>15. \A x \in DOMAIN ent :
          /\ ent'[x].m = ent[x].m /\ ent'[x].rt = ent[x].rt /\ ent'[x].token = ent[x].token /\ ent'[x].gen = ent[x].gen
          /\ ent'[x].crun = ent[x].crun /\ ent'[x].retired = ent[x].retired /\ ent'[x].owner = ent[x].owner
          /\ ent'[x].req = ent[x].req
          /\ x \notin es => ent'[x] = ent[x]
          /\ x \in es => ent'[x].creq /\ ent'[x].cpend
          /\ \A h \in ent[x].holds : h \in ent'[x].holds
  <2>1. \A x \in DOMAIN ent : ent'[x].m = ent[x].m /\ ent'[x].rt = ent[x].rt /\ ent'[x].token = ent[x].token /\ ent'[x].gen = ent[x].gen
    BY <1>14 DEF Born
  <2>2. \A x \in DOMAIN ent :
          /\ ent'[x].crun = ent[x].crun /\ ent'[x].retired = ent[x].retired /\ ent'[x].owner = ent[x].owner
          /\ ent'[x].req = ent[x].req
          /\ x \notin es => ent'[x] = ent[x]
          /\ x \in es => ent'[x].creq /\ ent'[x].cpend
    BY <1>9, <1>11, <1>12, <1>13
  <2>3. \A x \in DOMAIN ent : \A h \in ent[x].holds : h \in ent'[x].holds
    BY <1>11, <1>12, <1>13
  <2> QED BY <2>1, <2>2, <2>3
<1>16. Window' = {} /\ UNCHANGED <<Begun, Starting, Buffer, Given>> /\ Batch(rt)' = Batch(rt)
  BY <1>2, EmptySet, GivenViews DEF Window, Batch
<1>17. gen \in Nat /\ gen < gen' /\ gen' \in Nat
  BY <1>1, <1>2 DEF Types
<1>18. Types'
  BY <1>1, <1>2, <1>14, <1>17, Located DEF Types, Born
<1>19. FlushTypes' /\ CancelTypes' /\ TurnTypes' /\ OfferAlwaysFits'
  <2>1. CancelTypes'
    BY <1>1, <1>2, <1>14 DEF CancelTypes, Types, StopNo
  <2> QED BY <1>1, <1>2, <2>1 DEF FlushTypes, FlushFields, TurnTypes, OfferAlwaysFits
<1>20. RisingInv'
  BY <1>1, <1>2, EmptySet DEF RisingInv, Rising
<1>21. OrderInv'
  BY <1>1, <1>2, <1>14, <1>16, FlushViews, QueueViews DEF OrderInv, Below
<1>22. WaitingInv' /\ IdsInv' /\ PendingInv'
  <2>1. ~StopCompletes'
    BY <1>2 DEF StopCompletes
  <2>2. PendingInv'
    BY <1>1, <1>2, <1>15, <1>16, Located DEF PendingInv
  <2> QED BY <1>16, <2>1, <2>2 DEF WaitingInv, IdsInv
<1>23. QueuedInv'
  <2> SUFFICES ASSUME NEW b \in DOMAIN queued', NEW e \in BatchAt(b)' PROVE QueuedAt(b, e)'
    BY DEF QueuedInv
  <2>1. b \in DOMAIN queued /\ e \in BatchAt(b) /\ queued'[b] = queued[b]
    BY <1>2, QueueViews
  <2>2. e \in DOMAIN ent /\ QueuedAt(b, e)
    BY <1>1, <2>1, Located DEF QueuedInv
  <2>3. ent[e].gen \in Nat
    BY <1>1, <2>2, EntryGen
  <2> QED BY <1>2, <1>15, <1>17, <2>1, <2>2, <2>3 DEF QueuedAt
<1>24. FlushInv'
  <2> SUFFICES ASSUME NEW r \in Runtime, flush'[r].pc # "idle" PROVE FlushAt(r)'
    BY DEF FlushInv
  <2>1. flush[r].pc # "idle" /\ FlushAt(r)
    BY <1>1, <1>2 DEF FlushInv
  <2>2. Rest(r) \subseteq Batch(r)
    BY <1>1, RestFacts
  <2>3. \A e \in Batch(r) : e \in DOMAIN ent /\ ent[e].rt = r /\ ent[e].gen \in Nat /\ (live /\ r = rt => ent[e].gen <= gen)
    BY <1>1, <2>1, Located, EntryGen DEF FlushAt
  <2>4. \A e \in Batch(r) : ~IsActive(e)'
    BY <1>2, <1>15, <1>17, <2>3 DEF IsActive
  <2>5. \A e \in Batch(r) : ent'[e].rt = r /\ "flush" \in ent'[e].holds /\ (live' /\ r = rt' => ent'[e].gen <= gen')
    BY <1>2, <1>15, <1>17, <2>1, <2>3 DEF FlushAt
  <2>6. \A e \in Batch(r) : ent[e].creq => ent'[e].creq
    BY <1>15, <2>3
  <2> QED BY <1>2, <1>15, <2>1, <2>2, <2>3, <2>4, <2>5, <2>6, FlushViews DEF FlushAt
<1>25. InflightInv'
  <2>1. \A e \in inflight' : ent'[e].rt = rt' /\ ~ent'[e].retired /\ (ent'[e].cpend <=> ent'[e].creq)
    BY <1>1, <1>2, <1>15, Located DEF InflightInv
  <2>2. \A e \in inflight' : ent'[e].cpend \/ (\E b \in DOMAIN queued' : e \in BatchAt(b)') \/ e \in Batch(rt)'
    BY <1>1, <1>2, <1>15, <1>16, QueueViews, Located DEF InflightInv
  <2>3. \A e \in DOMAIN ent : ent'[e].cpend => ent'[e].creq
    BY <1>1, <1>15 DEF InflightInv
  <2>4. \A e \in DOMAIN ent : ent'[e].crun => \E d \in StopNo : cancel'[d].pc \in {"item", "record"} /\ e \in Marked(d)'
    BY <1>1, <1>2, <1>15, CancelViews DEF InflightInv
  <2> QED BY <1>2, <1>14, <2>1, <2>2, <2>3, <2>4 DEF InflightInv
<1>26. CancelInv'
  <2>1. ASSUME NEW d \in StopNo, cancel[d].pc # "done", NEW e \in Marked(d) PROVE CancelAt(d, e)'
    <3>1. CancelAt(d, e) /\ e \in DOMAIN ent
      BY <1>1, <2>1, Located DEF CancelInv
    <3>2. Offered(rt, e)' <=> Offered(rt, e)
      BY <1>2 DEF Offered
    <3>3. e \notin es
      BY <1>10, <3>1 DEF CancelAt
    <3> QED BY <1>2, <1>15, <1>16, <3>1, <3>2, <3>3 DEF CancelAt
  <2> QED BY <1>1, <1>2, <2>1, CancelViews DEF CancelInv
<1> QED BY <1>18, <1>19, <1>20, <1>21, <1>22, <1>23, <1>24, <1>25, <1>26 DEF PipeInv

(***************************************************************************)
(* Retirement and teardown.                                                *)
(***************************************************************************)
\* What they do to the entries.
Tearing(z, es, drop) ==
    /\ Born(ent, z) /\ DOMAIN z = DOMAIN ent
    /\ \A x \in DOMAIN ent :
          /\ z[x].m = ent[x].m /\ z[x].rt = ent[x].rt /\ z[x].token = ent[x].token /\ z[x].gen = ent[x].gen
          /\ z[x].creq = ent[x].creq /\ z[x].crun = ent[x].crun /\ z[x].owner = ent[x].owner
          /\ x \notin es \union drop => z[x] = ent[x]
          /\ x \notin es => z[x].retired = ent[x].retired /\ z[x].cpend = ent[x].cpend /\ z[x].holds = ent[x].holds
          /\ x \in es => z[x].retired /\ ~z[x].cpend /\ z[x].req
          /\ z[x].holds = ent[x].holds \/ z[x].holds = ent[x].holds \ {"cancel"}
          /\ x \in es /\ ~ent[x].crun => z[x].holds = ent[x].holds \ {"cancel"}
          /\ ent[x].crun => z[x].holds = ent[x].holds
          /\ x \in drop => z[x].req
          /\ ent[x].req => z[x].req

LEMMA TearEntries ==
    ASSUME Types, NEW es, NEW drop
    PROVE  Tearing(RequestRelease(Retired(ent, es), drop), es, drop)
<1>1. ent \in Seq(Entry)
  BY DEF Types
<1>2. PICK a : a = SettleRetire(ent, es)
  OBVIOUS
<1>3. PICK b : b = Change(a, es, LAMBDA y : [y EXCEPT !.cwait = FALSE])
  OBVIOUS
<1>4. b = Retired(ent, es)
  BY <1>2, <1>3 DEF Retired
<1>5. PICK z : z = RequestRelease(b, drop)
  OBVIOUS
<1>6. /\ Born(ent, a)
      /\ \A x \in DOMAIN ent : x \notin es => a[x] = ent[x]
      /\ \A x \in DOMAIN ent :
            /\ a[x].creq = ent[x].creq /\ a[x].crun = ent[x].crun /\ a[x].owner = ent[x].owner
      /\ \A x \in DOMAIN ent : x \in es => ~a[x].cpend /\ a[x].retired /\ a[x].req
      /\ \A x \in DOMAIN ent : x \in es /\ ent[x].crun => a[x].holds = ent[x].holds
      /\ \A x \in DOMAIN ent : x \in es /\ ~ent[x].crun => a[x].holds = ent[x].holds \ {"cancel"}
  BY <1>1, <1>2, RetireSettled
<1>7. a \in Seq(Entry) /\ DOMAIN a = DOMAIN ent
  BY <1>6 DEF Born
<1>8. /\ Born(a, b)
      /\ \A x \in DOMAIN a : x \notin es => b[x] = a[x]
      /\ \A x \in DOMAIN a :
            /\ b[x].creq = a[x].creq /\ b[x].cpend = a[x].cpend /\ b[x].crun = a[x].crun
            /\ b[x].retired = a[x].retired /\ b[x].owner = a[x].owner /\ b[x].req = a[x].req
            /\ b[x].holds = a[x].holds
  BY <1>3, <1>7, WaitOver
<1>9. b \in Seq(Entry) /\ DOMAIN b = DOMAIN ent
  BY <1>7, <1>8 DEF Born
<1>10. /\ Born(b, z)
       /\ \A x \in DOMAIN b : x \notin drop => z[x] = b[x]
       /\ \A x \in DOMAIN b :
            /\ z[x].creq = b[x].creq /\ z[x].cpend = b[x].cpend /\ z[x].crun = b[x].crun
            /\ z[x].retired = b[x].retired /\ z[x].owner = b[x].owner /\ z[x].holds = b[x].holds
       /\ \A x \in DOMAIN b : x \in drop => z[x].req
  BY <1>5, <1>9, Released
<1>11. Born(ent, z) /\ DOMAIN z = DOMAIN ent
  BY <1>6, <1>7, <1>8, <1>9, <1>10 DEF Born
<1>12. \A x \in DOMAIN ent : z[x].m = ent[x].m /\ z[x].rt = ent[x].rt /\ z[x].token = ent[x].token /\ z[x].gen = ent[x].gen
  BY <1>11 DEF Born
<1>13. ASSUME NEW x \in DOMAIN ent
       PROVE /\ z[x].creq = ent[x].creq /\ z[x].crun = ent[x].crun /\ z[x].owner = ent[x].owner
             /\ x \notin es \union drop => z[x] = ent[x]
             /\ x \notin es => z[x].retired = ent[x].retired /\ z[x].cpend = ent[x].cpend /\ z[x].holds = ent[x].holds
             /\ x \in es => z[x].retired /\ ~z[x].cpend /\ z[x].req
             /\ x \in drop => z[x].req
             /\ ent[x].req => z[x].req
  <2>1. /\ z[x].creq = ent[x].creq /\ z[x].crun = ent[x].crun /\ z[x].owner = ent[x].owner
    BY <1>6, <1>7, <1>8, <1>9, <1>10
  <2>2. ASSUME x \notin es PROVE b[x] = ent[x]
    BY <1>6, <1>7, <1>8, <2>2
  <2>3. ASSUME x \in es PROVE z[x].retired /\ ~z[x].cpend /\ b[x].req
    BY <1>6, <1>7, <1>8, <1>9, <1>10, <2>3
  <2>4. /\ x \in drop => z[x].req
        /\ x \notin drop => z[x] = b[x]
        /\ z[x].cpend = b[x].cpend /\ z[x].retired = b[x].retired /\ z[x].holds = b[x].holds
    BY <1>9, <1>10
  <2> QED BY <2>1, <2>2, <2>3, <2>4
<1>14. ASSUME NEW x \in DOMAIN ent
       PROVE /\ x \in es /\ ~ent[x].crun => z[x].holds = ent[x].holds \ {"cancel"}
             /\ ent[x].crun => z[x].holds = ent[x].holds
  <2>1. z[x].holds = a[x].holds
    BY <1>7, <1>8, <1>9, <1>10
  <2>2. x \notin es => a[x] = ent[x]
    BY <1>6
  <2> QED BY <1>6, <2>1, <2>2
<1>15. ASSUME NEW x \in DOMAIN ent PROVE z[x].holds = ent[x].holds \/ z[x].holds = ent[x].holds \ {"cancel"}
  BY <1>13, <1>14
<1>16. Tearing(z, es, drop)
  BY <1>11, <1>12, <1>13, <1>14, <1>15 DEF Tearing
<1> QED BY <1>4, <1>5, <1>16

LEMMA RevokedFacts ==
    ASSUME CancelTypes, cancel' = Revoked(cancel)
    PROVE  /\ cancel' \in [StopNo -> Batchwise]
           /\ \A c \in StopNo :
                 /\ cancel'[c].pc = cancel[c].pc /\ cancel'[c].rt = cancel[c].rt
                 /\ Marked(c)' \subseteq Marked(c)
                 /\ cancel[c].pc # "scheduled" \/ cancel[c].rt # rt => cancel'[c] = cancel[c] /\ Marked(c)' = Marked(c)
                 /\ cancel[c].pc = "scheduled" /\ cancel[c].rt = rt => Marked(c)' = {}
<1>1. cancel \in [StopNo -> Batchwise]
  BY DEF CancelTypes
<1>2. ASSUME NEW c \in StopNo
      PROVE  /\ cancel'[c] \in Batchwise
             /\ cancel'[c].pc = cancel[c].pc /\ cancel'[c].rt = cancel[c].rt
             /\ cancel[c].pc # "scheduled" \/ cancel[c].rt # rt => cancel'[c] = cancel[c]
             /\ cancel[c].pc = "scheduled" /\ cancel[c].rt = rt => cancel'[c].ents = <<>>
  <2>1. cancel[c] \in Batchwise
    BY <1>1
  <2>2. cancel'[c] = IF cancel[c].pc = "scheduled" /\ cancel[c].rt = rt THEN [cancel[c] EXCEPT !.ents = <<>>] ELSE cancel[c]
    BY DEF Revoked
  <2>3. PICK b : b = [cancel[c] EXCEPT !.ents = <<>>]
    OBVIOUS
  <2>4. <<>> \in Seq(Nat)
    OBVIOUS
  <2>5. PICK s \in Seq(Nat) : s = <<>>
    BY <2>4
  <2>6. b = [cancel[c] EXCEPT !.ents = s]
    BY <2>3, <2>5
  <2>7. b \in Batchwise
    BY <2>1, <2>6 DEF Batchwise
  <2>8. b.pc = cancel[c].pc /\ b.rt = cancel[c].rt /\ b.ents = <<>>
    BY <2>1, <2>5, <2>6 DEF Batchwise
  <2> QED BY <2>1, <2>2, <2>3, <2>7, <2>8
<1>3. cancel' \in [StopNo -> Batchwise]
  <2>1. cancel' = [c \in StopNo |-> cancel'[c]]
    BY DEF Revoked
  <2> QED BY <1>2, <2>1
<1>4. ASSUME NEW c \in StopNo
      PROVE  /\ cancel[c].pc # "scheduled" \/ cancel[c].rt # rt => Marked(c)' = Marked(c)
             /\ cancel[c].pc = "scheduled" /\ cancel[c].rt = rt => Marked(c)' = {}
  BY <1>2, EmptySet DEF Marked
<1> QED BY <1>2, <1>3, <1>4

\* Whatever was held is retired, whatever was scheduled is severed.
LEMMA TearPipe ==
    ASSUME PipeInv, live, live' \in BOOLEAN, token' \in Nat, gen' \in Nat,
           UNCHANGED <<rt, ran, stops, broken>>,
           waiting' = <<>>, pending' = <<>>, queued' = <<>>, inflight' = {}, ids' \subseteq ids \ IdsOf(inflight \union Window),
           cancel' = Revoked(cancel), turn' = turn \/ turn' = NoTurn,
           Tearing(ent', inflight \union Window, Dropped),
           flush' = [flush EXCEPT ![rt] = [AllBack(@) EXCEPT !.intact = ~LeaseOpen]],
           live' /\ LeaseOpen => gen' = gen + 1
    PROVE  PipeInv'
<1>1. /\ Types /\ FlushTypes /\ CancelTypes /\ TurnTypes /\ RisingInv /\ OrderInv /\ WaitingInv
      /\ QueuedInv /\ FlushInv /\ IdsInv /\ InflightInv /\ CancelInv /\ PendingInv /\ OfferAlwaysFits
  BY DEF PipeInv
<1>2. PICK es : es = inflight \union Window
  OBVIOUS
<1>3. PICK drop : drop = Dropped
  OBVIOUS
<1>4. Tearing(ent', es, drop)
  BY <1>2, <1>3
<1>5. Born(ent, ent') /\ DOMAIN ent' = DOMAIN ent
  BY <1>4 DEF Tearing
<1>6. \A x \in DOMAIN ent :
          /\ ent'[x].m = ent[x].m /\ ent'[x].rt = ent[x].rt /\ ent'[x].token = ent[x].token /\ ent'[x].gen = ent[x].gen
          /\ ent'[x].creq = ent[x].creq /\ ent'[x].crun = ent[x].crun /\ ent'[x].owner = ent[x].owner
          /\ x \notin es => ent'[x].retired = ent[x].retired /\ ent'[x].cpend = ent[x].cpend /\ ent'[x].holds = ent[x].holds
          /\ x \in es => ent'[x].retired /\ ~ent'[x].cpend /\ ent'[x].req
          /\ ent'[x].holds = ent[x].holds \/ ent'[x].holds = ent[x].holds \ {"cancel"}
          /\ ent[x].crun => ent'[x].holds = ent[x].holds
          /\ x \in drop => ent'[x].req
          /\ ent[x].req => ent'[x].req
  BY <1>4 DEF Tearing
<1>7. /\ FlushTypes' /\ \A q \in Runtime : q # rt => flush'[q] = flush[q]
      /\ flush'[rt].intact <=> flush[rt].pc = "idle"
      /\ \A q \in Runtime : flush'[q].pc = flush[q].pc /\ flush'[q].batch = flush[q].batch
      /\ \A q \in Runtime : Batch(q)' = Batch(q) /\ Rest(q)' = Rest(q) /\ Current(q)' = Current(q)
      /\ Batch(rt)' = Batch(rt)
      /\ \A q \in Runtime : \A e : (Unoffered(q, e)' <=> Unoffered(q, e)) /\ (Offered(q, e)' => Offered(q, e) /\ q # rt)
      /\ \A e : ~Offered(rt, e)'
  <2>1. FlushFields(flush[rt]) /\ rt \in Runtime /\ (flush[rt].pc = "idle" => flush[rt] = NoFlush)
    BY <1>1, Located DEF FlushTypes
  <2>2. PICK t \in BOOLEAN : t <=> flush[rt].pc = "idle"
    OBVIOUS
  <2>3. t = ~LeaseOpen
    BY <2>2 DEF LeaseOpen
  <2>4. PICK g : g = [AllBack(flush[rt]) EXCEPT !.intact = t]
    OBVIOUS
  <2>5. HandsBack(flush[rt], g) /\ (g.intact <=> flush[rt].pc = "idle") /\ (flush[rt] = NoFlush => g = NoFlush)
    BY <2>1, <2>2, <2>4, TornFacts
  <2>6. flush' = [flush EXCEPT ![rt] = g] /\ rt' = rt
    BY <2>3, <2>4
  <2> QED BY <1>1, <2>1, <2>5, <2>6, HandedBack
<1>8. /\ Window' = {} /\ Buffer' = {} /\ Begun' = Begun /\ Starting' \subseteq Starting
      /\ Given' = Begun \union Starting' /\ DOMAIN queued' = {}
  <2>1. NoTurn.pc = "idle"
    BY DEF NoTurn
  <2> QED BY <2>1, EmptySet DEF Window, Buffer, Begun, Starting, Given
<1>9. /\ cancel' \in [StopNo -> Batchwise]
      /\ \A c \in StopNo :
            /\ cancel'[c].pc = cancel[c].pc /\ cancel'[c].rt = cancel[c].rt
            /\ Marked(c)' \subseteq Marked(c)
            /\ cancel[c].pc # "scheduled" \/ cancel[c].rt # rt => cancel'[c] = cancel[c] /\ Marked(c)' = Marked(c)
            /\ cancel[c].pc = "scheduled" /\ cancel[c].rt = rt => Marked(c)' = {}
  BY <1>1, RevokedFacts
<1>10. Types'
  BY <1>1, <1>5, Located DEF Types, Born
<1>11. CancelTypes'
  <2> SUFFICES ASSUME NEW c \in StopNo
               PROVE  /\ c > stops' => cancel'[c].pc = "done"
                      /\ cancel'[c].pc = "record" => cancel'[c].i <= Len(cancel'[c].ents)
                      /\ ToSet(cancel'[c].ents) \subseteq DOMAIN ent
    BY <1>5, <1>9 DEF CancelTypes
  <2>1. Marked(c)' \subseteq Marked(c) /\ Marked(c) \subseteq DOMAIN ent
    BY <1>9, Located
  <2>2. ToSet(cancel'[c].ents) \subseteq DOMAIN ent
    BY <2>1 DEF Marked
  <2>3. cancel'[c].pc = cancel[c].pc /\ (cancel[c].pc = "record" => cancel'[c] = cancel[c])
    BY <1>9
  <2> QED BY <1>1, <2>2, <2>3 DEF CancelTypes
<1>12. TurnTypes' /\ OfferAlwaysFits' /\ Rising(turn'.ents)
  <2>1. OfferAlwaysFits'
    BY <1>1 DEF OfferAlwaysFits
  <2>2. CASE turn' = turn
    BY <1>1, <2>1, <2>2 DEF TurnTypes, RisingInv
  <2>3. CASE turn' = NoTurn
    <3>1. turn'.pc = "idle" /\ turn'.ents = <<>> /\ turn' = [pc |-> turn'.pc, ents |-> turn'.ents]
      BY <2>3 DEF NoTurn
    <3>2. Rising(<<>>) /\ <<>> \in Seq(Nat)
      BY EmptySet
    <3> QED BY <2>1, <3>1, <3>2 DEF TurnTypes
  <2> QED BY <2>2, <2>3
<1>13. RisingInv'
  BY <1>1, <1>7, <1>8, <1>12, EmptySet DEF RisingInv, Rising
<1>14. OrderInv'
  BY <1>1, <1>5, <1>7, <1>8 DEF OrderInv, Below, Given
<1>15. WaitingInv' /\ PendingInv' /\ QueuedInv'
  BY <1>8 DEF WaitingInv, PendingInv, QueuedInv
<1>16. IdsInv'
  <2> SUFFICES ASSUME StopCompletes', NEW m \in ids' PROVE FALSE
    BY DEF IdsInv
  <2>1. m \in ids /\ m \notin IdsOf(es) /\ m \notin IdLess
    BY <1>1, <1>2 DEF Types
  <2>2. PICK e \in es : ent[e].m = m
    BY <1>1, <1>2, <2>1 DEF IdsInv, StopCompletes
  <2> QED BY <2>1, <2>2 DEF IdsOf
<1>17. drop = Buffer \union {e \in DOMAIN flush[rt].offers : Offered(rt, e)}
  BY <1>3 DEF Dropped, Buffer, Offered
<1>18. FlushInv'
  <2> SUFFICES ASSUME NEW r \in Runtime, flush'[r].pc # "idle" PROVE FlushAt(r)'
    BY DEF FlushInv
  <2>1. flush[r].pc # "idle" /\ FlushAt(r) /\ flush'[r].pc = flush[r].pc
    BY <1>1, <1>7 DEF FlushInv
  <2>2. Rest(r) \subseteq Batch(r)
    BY <1>1, RestFacts
  <2>3. ~flush'[r].intact
    <3>1. CASE r = rt
      BY <1>7, <2>1, <3>1
    <3>2. CASE r # rt
      BY <1>7, <2>1, <3>2 DEF FlushAt
    <3> QED BY <3>1, <3>2
  <2>4. ASSUME NEW e \in Batch(r)
        PROVE  /\ e \in DOMAIN ent /\ ent[e].rt = r /\ ent[e].gen \in Nat
               /\ "flush" \in ent[e].holds
               /\ r = rt => ent[e].gen <= gen
               /\ e \in inflight \/ ent[e].req
               /\ ent[e].owner = "pending" => ~Unoffered(r, e)
               /\ ~Unoffered(r, e) /\ ~Offered(r, e) => ent[e].req
               /\ Offered(r, e) => r = rt
    <3>1. e \in DOMAIN ent
      BY Located
    <3>2. ent[e].gen \in Nat
      BY <1>1, <3>1, EntryGen
    <3> QED BY <2>1, <3>1, <3>2 DEF FlushAt
  <2>5. ASSUME NEW e \in Batch(r) PROVE ~IsActive(e)'
    <3>1. CASE r # rt
      BY <1>6, <2>4, <3>1 DEF IsActive
    <3>2. CASE r = rt /\ live'
      <4>1. gen' = gen + 1
        BY <2>1, <3>2 DEF LeaseOpen
      <4>2. ent'[e].gen = ent[e].gen /\ ent[e].gen <= gen /\ ent[e].gen \in Nat /\ gen \in Nat
        BY <1>1, <1>6, <2>4, <3>2 DEF Types
      <4>3. ent'[e].gen # gen'
        BY <4>1, <4>2
      <4> QED BY <4>3 DEF IsActive
    <3>3. CASE ~live'
      BY <3>3 DEF IsActive
    <3> QED BY <3>1, <3>2, <3>3
  <2>6. ASSUME NEW e \in Batch(r)
        PROVE  /\ ent'[e].rt = r /\ "flush" \in ent'[e].holds
               /\ live' /\ r = rt' => ent'[e].gen <= gen'
               /\ ent'[e].req /\ e \notin inflight'
               /\ ent'[e].owner = "pending" => ~Unoffered(r, e)'
               /\ ~Offered(r, e)'
    <3>1. ent'[e].rt = r /\ "flush" \in ent'[e].holds
      BY <1>6, <2>4
    <3>2. ASSUME live', r = rt' PROVE ent'[e].gen <= gen'
      <4>1. gen' = gen + 1
        BY <2>1, <3>2 DEF LeaseOpen
      <4>2. ent'[e].gen = ent[e].gen /\ ent[e].gen <= gen /\ ent[e].gen \in Nat /\ gen \in Nat
        BY <1>1, <1>6, <2>4, <3>2 DEF Types
      <4> QED BY <4>1, <4>2
    <3>3. ent'[e].req /\ e \notin inflight'
      BY <1>2, <1>6, <2>4
    <3>4. ent'[e].owner = "pending" => ~Unoffered(r, e)'
      BY <1>6, <1>7, <2>4
    <3>5. ~Offered(r, e)'
      BY <1>7, <2>4
    <3> QED BY <3>1, <3>2, <3>3, <3>4, <3>5
  <2>7. r <= rt'
    BY <2>1 DEF FlushAt
  <2>8. \A e \in Rest(r) : Unoffered(r, e)' \/ (flush'[r].pc = "record" /\ e = Current(r)')
    BY <1>7, <2>1 DEF FlushAt
  <2> QED BY <1>7, <2>2, <2>3, <2>5, <2>6, <2>7, <2>8 DEF FlushAt
<1>19. InflightInv'
  <2>1. ASSUME NEW e \in DOMAIN ent, ent'[e].cpend PROVE ent'[e].creq
    BY <1>1, <1>6, <2>1 DEF InflightInv
  <2>2. ASSUME NEW e \in DOMAIN ent, ent'[e].crun
        PROVE  \E d \in StopNo : cancel'[d].pc \in {"item", "record"} /\ e \in Marked(d)'
    <3>1. PICK d \in StopNo : cancel[d].pc \in {"item", "record"} /\ e \in Marked(d)
      BY <1>1, <1>6, <2>2 DEF InflightInv
    <3> QED BY <1>9, <3>1
  <2> QED BY <1>5, <2>1, <2>2 DEF InflightInv
<1>20. CancelInv'
  <2>1. ASSUME NEW c \in StopNo, cancel'[c].pc # "done", NEW e \in Marked(c)' PROVE CancelAt(c, e)'
    <3>1. e \in Marked(c) /\ e \in DOMAIN ent /\ CancelAt(c, e) /\ cancel[c].pc # "done"
      BY <1>1, <1>9, <2>1, Located DEF CancelInv
    <3>2. cancel[c].pc # "scheduled"
      BY <1>9, <2>1, <3>1 DEF CancelAt
    <3>3. cancel'[c] = cancel[c] /\ ent[e].crun
      BY <1>9, <3>1, <3>2 DEF CancelAt
    <3>4. ent'[e].retired /\ ent'[e].req /\ ~ent'[e].cpend
      <4>1. CASE e \in es
        BY <1>6, <3>1, <4>1
      <4>2. CASE e \notin es
        BY <1>2, <1>6, <3>1, <4>2 DEF CancelAt
      <4> QED BY <4>1, <4>2
    <3> QED BY <1>6, <1>7, <1>8, <3>1, <3>2, <3>3, <3>4 DEF CancelAt
  <2>2. ASSUME NEW c \in StopNo, NEW d \in StopNo, c # d, cancel'[c].pc # "done", cancel'[d].pc # "done", NEW e \in Marked(c)'
        PROVE  e \notin Marked(d)'
    <3>1. cancel[c].pc # "done" /\ cancel[d].pc # "done" /\ e \in Marked(c) /\ Marked(d)' \subseteq Marked(d)
      BY <1>9, <2>2
    <3> QED BY <1>1, <2>2, <3>1 DEF CancelInv
  <2> QED BY <2>1, <2>2 DEF CancelInv
<1> QED BY <1>7, <1>10, <1>11, <1>12, <1>13, <1>14, <1>15, <1>16, <1>18, <1>19, <1>20 DEF PipeInv

LEMMA DisposePipe == ASSUME PipeInv, Dispose PROVE PipeInv'
<1>1. /\ live /\ live' = FALSE
      /\ waiting' = <<>> /\ queued' = <<>> /\ gen' = 0 /\ inflight' = {} /\ ids' = {}
      /\ cancel' = Revoked(cancel)
      /\ ent' = RequestRelease(Retired(ent, inflight \union Window), Dropped)
      /\ pending' = <<>> /\ turn' = NoTurn
      /\ flush' = [flush EXCEPT ![rt] = [AllBack(@) EXCEPT !.intact = ~LeaseOpen]]
      /\ UNCHANGED <<rt, token, ran, stops, broken>>
  BY DEF Dispose, DisposeDebouncer, DisposeDispatcher, counters, Window
<1>2. Types
  BY DEF PipeInv
<1>3. Tearing(ent', inflight \union Window, Dropped)
  BY <1>1, <1>2, TearEntries
<1>4. live' \in BOOLEAN /\ token' \in Nat /\ gen' \in Nat /\ ~live'
  BY <1>1, <1>2 DEF Types
<1> QED BY <1>1, <1>3, <1>4, TearPipe

\* Retirement of a peer that holds nothing only hands the offers back.
LEMMA RetireEmptyPipe ==
    ASSUME PipeInv, live, inflight \union Window = {}, token' \in Nat,
           UNCHANGED <<waiting, queued, gen, inflight, cancel, turn, rt, live, ran, stops, broken>>,
           pending' = <<>>, ids' \subseteq ids,
           Tearing(ent', {}, Dropped),
           flush' = [flush EXCEPT ![rt] = AllBack(@)]
    PROVE  PipeInv'
<1>1. /\ Types /\ FlushTypes /\ CancelTypes /\ TurnTypes /\ RisingInv /\ OrderInv /\ WaitingInv
      /\ QueuedInv /\ FlushInv /\ IdsInv /\ InflightInv /\ CancelInv /\ PendingInv /\ OfferAlwaysFits
  BY DEF PipeInv
<1>2. inflight = {} /\ Window = {} /\ inflight' = {} /\ Window' = {}
  BY DEF Window
<1>3. PICK drop : drop = Dropped
  OBVIOUS
<1>4. Tearing(ent', {}, drop)
  BY <1>3
<1>5. Born(ent, ent') /\ DOMAIN ent' = DOMAIN ent
  BY <1>4 DEF Tearing
<1>6. \A x \in DOMAIN ent :
          /\ ent'[x].m = ent[x].m /\ ent'[x].rt = ent[x].rt /\ ent'[x].token = ent[x].token /\ ent'[x].gen = ent[x].gen
          /\ ent'[x].creq = ent[x].creq /\ ent'[x].crun = ent[x].crun /\ ent'[x].owner = ent[x].owner
          /\ ent'[x].retired = ent[x].retired /\ ent'[x].cpend = ent[x].cpend /\ ent'[x].holds = ent[x].holds
          /\ x \in drop => ent'[x].req
          /\ ent[x].req => ent'[x].req
  BY <1>4 DEF Tearing
<1>7. /\ FlushTypes' /\ \A q \in Runtime : q # rt => flush'[q] = flush[q]
      /\ flush'[rt].intact = flush[rt].intact
      /\ \A q \in Runtime : flush'[q].pc = flush[q].pc /\ flush'[q].batch = flush[q].batch
      /\ \A q \in Runtime : Batch(q)' = Batch(q) /\ Rest(q)' = Rest(q) /\ Current(q)' = Current(q)
      /\ Batch(rt)' = Batch(rt)
      /\ \A q \in Runtime : \A e : (Unoffered(q, e)' <=> Unoffered(q, e)) /\ (Offered(q, e)' => Offered(q, e) /\ q # rt)
      /\ \A e : ~Offered(rt, e)'
  <2>1. FlushFields(flush[rt]) /\ rt \in Runtime
    BY <1>1, Located DEF FlushTypes
  <2>2. PICK g : g = AllBack(flush[rt])
    OBVIOUS
  <2>3. HandsBack(flush[rt], g) /\ g.intact = flush[rt].intact /\ (flush[rt] = NoFlush => g = NoFlush)
    BY <2>1, <2>2, AllBackFacts
  <2>4. flush' = [flush EXCEPT ![rt] = g] /\ rt' = rt
    BY <2>2
  <2> QED BY <1>1, <2>1, <2>3, <2>4, HandedBack
<1>8. /\ Buffer' = {} /\ Begun' = Begun /\ Starting' = Starting /\ Given' = Begun \union Starting
      /\ \A b : BatchAt(b)' = BatchAt(b)
      /\ \A c : Marked(c)' = Marked(c)
  BY EmptySet, QueueViews, CancelViews DEF Buffer, Begun, Starting, Given
<1>9. Types' /\ TurnTypes' /\ OfferAlwaysFits' /\ CancelTypes'
  BY <1>1, <1>5 DEF Types, TurnTypes, OfferAlwaysFits, CancelTypes, Born
<1>10. RisingInv'
  BY <1>1, <1>7, EmptySet DEF RisingInv, Rising
<1>11. OrderInv'
  BY <1>1, <1>5, <1>7, <1>8, <1>2 DEF OrderInv, Below, Given
<1>12. WaitingInv' /\ PendingInv' /\ IdsInv'
  BY <1>1, <1>2, <1>8 DEF WaitingInv, PendingInv, IdsInv, StopCompletes
<1>13. QueuedInv'
  <2> SUFFICES ASSUME NEW b \in DOMAIN queued', NEW e \in BatchAt(b)' PROVE QueuedAt(b, e)'
    BY DEF QueuedInv
  <2>1. b \in DOMAIN queued /\ e \in BatchAt(b) /\ queued'[b] = queued[b]
    BY <1>8
  <2>2. e \in DOMAIN ent /\ QueuedAt(b, e)
    BY <1>1, <2>1, Located DEF QueuedInv
  <2>3. ent[e].creq /\ ent[e].req
    BY <1>2, <2>2 DEF QueuedAt
  <2> QED BY <1>6, <2>1, <2>2, <2>3 DEF QueuedAt
<1>14. drop = Buffer \union {e \in DOMAIN flush[rt].offers : Offered(rt, e)}
  BY <1>3 DEF Dropped, Buffer, Offered
<1>15. FlushInv'
  <2> SUFFICES ASSUME NEW r \in Runtime, flush'[r].pc # "idle" PROVE FlushAt(r)'
    BY DEF FlushInv
  <2>1. flush[r].pc # "idle" /\ FlushAt(r) /\ flush'[r].pc = flush[r].pc /\ flush'[r].intact = flush[r].intact
    BY <1>1, <1>7 DEF FlushInv
  <2>2. Rest(r) \subseteq Batch(r)
    BY <1>1, RestFacts
  <2>3. ASSUME NEW e \in Batch(r)
        PROVE  /\ e \in DOMAIN ent /\ ent[e].rt = r /\ "flush" \in ent[e].holds
               /\ live /\ r = rt => ent[e].gen <= gen
               /\ flush[r].intact => ent[e].creq /\ ent[e].req
               /\ ~flush[r].intact => ent[e].req
               /\ ~IsActive(e)
               /\ ent[e].owner = "pending" => ~Unoffered(r, e)
    <3>1. e \in DOMAIN ent
      BY Located
    <3> QED BY <1>2, <2>1, <3>1 DEF FlushAt, IsActive
  <2>4. ASSUME NEW e \in Batch(r)
        PROVE  /\ ent'[e].rt = r /\ "flush" \in ent'[e].holds
               /\ live' /\ r = rt' => ent'[e].gen <= gen'
               /\ flush'[r].intact => ent'[e].creq /\ ent'[e].req
               /\ ent'[e].req /\ e \notin inflight' /\ ~IsActive(e)'
               /\ ent'[e].owner = "pending" => ~Unoffered(r, e)'
               /\ ~Offered(r, e)'
    <3>1. ent'[e].rt = r /\ "flush" \in ent'[e].holds /\ (live' /\ r = rt' => ent'[e].gen <= gen')
      BY <1>6, <2>3
    <3>2. (flush'[r].intact => ent'[e].creq /\ ent'[e].req) /\ ent'[e].req /\ e \notin inflight'
      BY <1>2, <1>6, <2>1, <2>3
    <3>3. ~IsActive(e)'
      BY <1>6, <2>3 DEF IsActive
    <3>4. (ent'[e].owner = "pending" => ~Unoffered(r, e)') /\ (Offered(r, e)' => Offered(r, e) /\ r # rt)
      BY <1>6, <1>7, <2>3
    <3>5. ~Offered(r, e)'
      BY <2>1, <3>4 DEF FlushAt
    <3> QED BY <3>1, <3>2, <3>3, <3>4, <3>5
  <2>5. r <= rt' /\ (flush'[r].intact => live' /\ r = rt')
    BY <2>1 DEF FlushAt
  <2>6. \A e \in Rest(r) : Unoffered(r, e)' \/ (flush'[r].pc = "record" /\ e = Current(r)')
    BY <1>7, <2>1 DEF FlushAt
  <2> QED BY <1>7, <2>2, <2>4, <2>5, <2>6 DEF FlushAt
<1>16. InflightInv'
  <2>1. ASSUME NEW e \in DOMAIN ent, ent'[e].crun
        PROVE  \E d \in StopNo : cancel'[d].pc \in {"item", "record"} /\ e \in Marked(d)'
    <3>1. PICK d \in StopNo : cancel[d].pc \in {"item", "record"} /\ e \in Marked(d)
      BY <1>1, <1>6, <2>1 DEF InflightInv
    <3> QED BY <1>8, <3>1
  <2> QED BY <1>1, <1>2, <1>5, <1>6, <2>1 DEF InflightInv
<1>17. CancelInv'
  <2>1. ASSUME NEW c \in StopNo, cancel'[c].pc # "done", NEW e \in Marked(c)' PROVE CancelAt(c, e)'
    <3>1. e \in Marked(c) /\ e \in DOMAIN ent /\ CancelAt(c, e) /\ cancel'[c] = cancel[c]
      BY <1>1, <1>8, <2>1, Located DEF CancelInv
    <3> QED BY <1>2, <1>6, <1>7, <1>8, <3>1 DEF CancelAt
  <2> QED BY <1>1, <1>8, <2>1 DEF CancelInv
<1> QED BY <1>7, <1>9, <1>10, <1>11, <1>12, <1>13, <1>15, <1>16, <1>17 DEF PipeInv

LEMMA RetirePipe == ASSUME PipeInv, Retire PROVE PipeInv'
<1>1. PICK es : es = inflight \union Window
  OBVIOUS
<1>2. /\ live /\ waiting' = <<>> /\ inflight' = {} /\ ids' = ids \ IdsOf(es)
      /\ ent' = RequestRelease(Retired(ent, es), Dropped)
      /\ pending' = <<>> /\ token' = token + 1
      /\ UNCHANGED <<turn, rt, live, ran, stops, broken>>
  BY <1>1 DEF Retire, Window
<1>3. Types /\ FlushTypes
  BY DEF PipeInv
<1>4. Tearing(ent', es, Dropped)
  BY <1>2, <1>3, TearEntries
<1>5. token' \in Nat /\ live' \in BOOLEAN
  BY <1>2, <1>3 DEF Types
<1>6. CASE es = {}
  <2>1. flush' = [flush EXCEPT ![rt] = AllBack(@)] /\ UNCHANGED <<queued, gen, cancel>>
    BY <1>1, <1>6 DEF Retire, Window
  <2>2. waiting = <<>> /\ inflight = {}
    <3>1. waiting \in Seq(Nat) /\ ToSet(waiting) = {}
      BY <1>1, <1>3, <1>6 DEF Types, Window
    <3> QED BY <1>1, <1>6, <3>1, SetOf
  <2>3. UNCHANGED <<waiting, inflight>> /\ ids' \subseteq ids /\ inflight \union Window = {}
    BY <1>1, <1>2, <1>6, <2>2
  <2>4. Tearing(ent', {}, Dropped)
    BY <1>4, <1>6
  <2> QED BY <1>2, <1>5, <2>1, <2>3, <2>4, RetireEmptyPipe
<1>7. CASE es # {}
  <2>1. /\ flush' = [flush EXCEPT ![rt] = [AllBack(@) EXCEPT !.intact = ~LeaseOpen]]
        /\ queued' = <<>>
        /\ gen' = NextGen(gen + 1, <<>>, <<>>, {}, flush[rt])
        /\ cancel' = Revoked(cancel)
    BY <1>1, <1>7 DEF Retire, Window
  <2>2. gen' \in Nat /\ (LeaseOpen => gen' = gen + 1)
    BY <1>3, <2>1 DEF NextGen, LeaseOpen, Types
  <2>3. ids' \subseteq ids \ IdsOf(inflight \union Window) /\ Tearing(ent', inflight \union Window, Dropped)
    BY <1>1, <1>2, <1>4
  <2> QED BY <1>2, <1>5, <2>1, <2>2, <2>3, TearPipe
<1> QED BY <1>6, <1>7

-----------------------------------------------------------------------------
LEMMA InitPipe == ASSUME Init PROVE PipeInv
<1>1. /\ ent = <<>> /\ waiting = <<>> /\ queued = <<>> /\ gen = 0 /\ inflight = {} /\ ids = {}
      /\ flush = [r \in Runtime |-> NoFlush] /\ cancel = [c \in StopNo |-> NoCancel]
      /\ pending = <<>> /\ turn = NoTurn /\ rt = 1 /\ live = TRUE /\ token = 1 /\ stops = 0
      /\ ran = <<>> /\ broken = {}
  BY DEF Init
<1>2. DOMAIN ent = {} /\ DOMAIN queued = {}
  BY <1>1
<1>3. \A r \in Runtime : flush[r] = NoFlush /\ flush[r].pc = "idle" /\ flush[r].batch = <<>> /\ FlushFields(flush[r])
  BY <1>1, NoFlushFields
<1>4. \A c \in StopNo : cancel[c] = NoCancel /\ cancel[c].pc = "done" /\ cancel[c].ents = <<>> /\ cancel[c] \in Batchwise
  <2>1. NoCancel.pc = "done" /\ NoCancel.ents = <<>> /\ NoCancel \in Batchwise
    BY DEF NoCancel, Batchwise
  <2> QED BY <1>1, <2>1
<1>5. turn.pc = "idle" /\ turn.ents = <<>>
  BY <1>1 DEF NoTurn
<1>6. Types
  <2>1. rt \in Runtime
    BY <1>1, BoundsAssumption DEF Runtime
  <2> QED BY <1>1, <2>1 DEF Types
<1>7. FlushTypes
  BY <1>1, <1>3 DEF FlushTypes
<1>8. CancelTypes
  BY <1>1, <1>4, EmptySet DEF CancelTypes
<1>9. TurnTypes /\ OfferAlwaysFits
  BY <1>1, <1>5 DEF TurnTypes, OfferAlwaysFits, NoTurn
<1>10. RisingInv
  BY <1>1, <1>2, <1>3, <1>5, EmptySet DEF RisingInv
<1>11. /\ Begun = {} /\ Starting = {} /\ Buffer = {} /\ Window = {} /\ Given = {}
       /\ \A r \in Runtime : Batch(r) = {}
  BY <1>1, <1>3, <1>5, EmptySet DEF Begun, Starting, Buffer, Window, Given, Batch
<1>12. OrderInv
  <2>1. Batch(rt) = {}
    BY <1>6, <1>11 DEF Types
  <2> QED BY <1>2, <1>11, <2>1 DEF OrderInv, Below
<1>13. WaitingInv /\ QueuedInv /\ PendingInv /\ IdsInv
  BY <1>1, <1>2, <1>11 DEF WaitingInv, QueuedInv, PendingInv, IdsInv
<1>14. FlushInv
  BY <1>3 DEF FlushInv
<1>15. InflightInv /\ CancelInv
  BY <1>1, <1>2, <1>4 DEF InflightInv, CancelInv
<1> QED BY <1>6, <1>7, <1>8, <1>9, <1>10, <1>12, <1>13, <1>14, <1>15 DEF PipeInv

LEMMA PushPipe == ASSUME PipeInv, NEW m \in Msg, Push(m) PROVE PipeInv'
<1>1. CASE PushRetained(m)
  BY <1>1, PushRetainedPipe
<1>2. CASE PushDropped(m) \/ PushKnown(m) \/ PushOverflow(m)
  <2>1. UNCHANGED piped
    BY <1>2 DEF PushDropped, PushKnown, PushOverflow, Arrive, piped, history, runtime, dispatcher
  <2> QED BY <2>1, PipeFrame
<1> QED BY <1>1, <1>2 DEF Push

LEMMA OverPipe == ASSUME PipeInv, NEW m \in Msg, OverStep(m) PROVE PipeInv'
<1>1. UNCHANGED piped
  BY DEF OverStep, OverRecover, OverLookup, OverRecord, piped, history
<1> QED BY <1>1, PipeFrame

LEMMA PipeStep == PipeInv /\ [Next]_vars => PipeInv'
<1> SUFFICES ASSUME PipeInv, [Next]_vars PROVE PipeInv'
  OBVIOUS
<1>1. CASE \E m \in Msg : Push(m) \/ OverStep(m)
  BY <1>1, PushPipe, OverPipe
<1>2. CASE DetachAndQueue
  BY <1>2, DetachAndQueuePipe
<1>3. CASE RunFlush
  <2>1. CASE Head(queued).gen = gen
    BY <1>3, <2>1, RunFlushPipe
  <2>2. CASE Head(queued).gen # gen
    BY <1>3, <2>2, RunStalePipe
  <2> QED BY <2>1, <2>2
<1>4. CASE StartHandler
  BY <1>4, StartHandlerPipe
<1>5. CASE HandlerSettled
  BY <1>5, HandlerSettledPipe
<1>6. CASE \E r \in Runtime : FlushStep(r)
  <2>1. PICK r \in Runtime : FlushStep(r)
    BY <1>6
  <2>2. CASE FlushItem(r) \/ FlushRecover(r) \/ FlushLookup(r) \/ FlushRecord(r) \/ FlushInvalidated(r)
    <3>1. FlushStepped(r)
      BY <2>2, FlushItemSteps, FlushRecoverSteps, FlushLookupSteps, FlushRecordSteps, FlushInvalidatedSteps
    <3> QED BY <3>1, FlushSteppedPipe
  <2>3. CASE FlushCommit(r)
    BY <2>3, FlushCommitPipe
  <2>4. CASE FlushAbandon(r)
    BY <2>4, FlushAbandonPipe
  <2> QED BY <2>1, <2>2, <2>3, <2>4 DEF FlushStep
<1>7. CASE Stop
  BY <1>7, StopPipe
<1>8. CASE StopThrows
  BY <1>8, StopThrowsPipe
<1>9. CASE \E c \in StopNo : CancelStep(c)
  BY <1>9, CancelStartPipe, CancelItemPipe, CancelRecordPipe, CancelFinishPipe DEF CancelStep
<1>10. CASE Retire
  BY <1>10, RetirePipe
<1>11. CASE Dispose
  BY <1>11, DisposePipe
<1>12. CASE StartRuntime
  BY <1>12, StartRuntimePipe
<1>13. CASE UNCHANGED vars
  <2>1. UNCHANGED piped
    BY <1>13 DEF vars, piped, counters, history
  <2> QED BY <2>1, PipeFrame
<1> QED BY <1>1, <1>2, <1>3, <1>4, <1>5, <1>6, <1>7, <1>8, <1>9, <1>10, <1>11, <1>12, <1>13 DEF Next

(***************************************************************************)
(* Nothing is left behind, while no /stop has thrown.                      *)
(***************************************************************************)
Flushing(e) == \E r \in Runtime : flush[r].pc # "idle" /\ e \in Batch(r)
Cancelling(e) == \E c \in StopNo : cancel[c].pc # "done" /\ e \in Marked(c)
Queueing(e) == \E b \in DOMAIN queued : e \in BatchAt(b)
Held(e) == e \in Window \/ e \in Buffer \/ Queueing(e) \/ Flushing(e) \/ Cancelling(e)
\* A hold has its holder, and a frame that is not released is somewhere.
HoldInv == \A e \in DOMAIN ent : "flush" \in ent[e].holds => Flushing(e)
MarkInv == StopCompletes => \A e \in DOMAIN ent : "cancel" \in ent[e].holds \/ ent[e].cpend => Cancelling(e)
KeepInv == StopCompletes => \A e \in DOMAIN ent : ~ent[e].req => Held(e)
\* The generation of the key is forgotten with the last trace of the key.
GenInv == /\ gen # 0 => waiting # <<>> \/ queued # <<>> \/ inflight # {} \/ flush[rt].pc # "idle"
          /\ ~live => gen = 0
\* An offer whose outcome was not recorded belongs to a frame that is no longer active.
Provisional(r, e) == e \in DOMAIN flush[r].offers /\ flush[r].offers[e] = "provisional"
ProvInv == \A r \in Runtime : flush[r].pc # "idle" =>
              \A e \in Batch(r) : Provisional(r, e) => (flush[r].pc = "record" /\ e = Current(r)) \/ ~IsActive(e)
LeakInv == HoldInv /\ MarkInv /\ KeepInv /\ GenInv /\ ProvInv

(***************************************************************************)
(* The gates: who is in one, and why.                                      *)
(***************************************************************************)
Waits(r, m) == flush[r].pc \in {"recover", "lookup", "record"} /\ ent[Current(r)].m = m
CancelWaits(c, m) == cancel[c].pc = "record" /\ ent[cancel[c].ents[cancel[c].i]].m = m
Claims(a, m) == \/ \E r \in Runtime : a = Flusher(r) /\ Waits(r, m)
                \/ \E c \in StopNo : a = Canceller(c) /\ CancelWaits(c, m)
                \/ a = Resolver /\ over[m].pc # "none"
KeepsReceipt(a) == \E r \in Runtime : a = Flusher(r) /\ flush[r].pc \notin {"idle", "await"}
Task == [pc : {"none", "recover", "lookup", "record"}, recover : BOOLEAN, cancelled : BOOLEAN, token : Nat]
StoreTypes ==
    /\ gate \in [Msg -> Seq(Actor)]
    /\ receipt \in [Msg -> {"none", "fresh", "stale"}]
    /\ over \in [Msg -> Task]
MemberInv == \A m \in Msg : \A p \in DOMAIN gate[m] : \A a \in {gate[m][p]} : Claims(a, m) \/ (p = 1 /\ receipt[m] # "none")
OnceInv == \A m \in Msg : \A p, q \in DOMAIN gate[m] : p < q /\ gate[m][p] = gate[m][q] => p = 1 /\ receipt[m] # "none"
ReceiptHeldInv == \A m \in Msg : receipt[m] # "none" => gate[m] # <<>> /\ \A a \in {gate[m][1]} : KeepsReceipt(a)
GateInv == StoreTypes /\ MemberInv /\ OnceInv /\ ReceiptHeldInv

-----------------------------------------------------------------------------
LEMMA BornLasts ==
    ASSUME Born(ent, ent'), \A x \in DOMAIN ent : (ent[x].creq => ent'[x].creq) /\ (ent[x].req => ent'[x].req) /\ (ent[x].retired => ent'[x].retired)
    PROVE  Lasting
  BY DEF Born, Lasting

LEMMA StopDrops == ASSUME PipeInv, Stop PROVE Dropping(ent', NewlyCancelled, Dropped)
<1>1. Types /\ WaitingInv
  BY DEF PipeInv
<1>2. Window \subseteq NewlyCancelled
  BY <1>1 DEF WaitingInv, NewlyCancelled, Window
<1>3. ent' = RequestRelease(IF NewlyCancelled = {} THEN ent ELSE CancelMarks(Transfer(ent, Window, "debounce-inflight"), NewlyCancelled), Dropped)
  BY DEF Stop, Window
<1> QED BY <1>1, <1>2, <1>3, StopEntries

\* What the end of a cancellation does to the entries.
Finishing(es) ==
    /\ Lasting /\ DOMAIN ent' = DOMAIN ent
    /\ \A x \in DOMAIN ent :
          /\ ent'[x].creq = ent[x].creq /\ ent'[x].retired = ent[x].retired /\ ent'[x].owner = ent[x].owner
          /\ x \in es => ~ent'[x].cpend /\ ~ent'[x].crun /\ ent'[x].req /\ ent'[x].holds = ent[x].holds \ {"cancel"}
          /\ x \notin es => ent'[x] = ent[x]

LEMMA CancelFinishes == ASSUME PipeInv, NEW c \in StopNo, CancelFinish(c) PROVE Finishing(Marked(c))
<1>1. PICK es : es = Marked(c)
  OBVIOUS
<1>7. PICK en : en = SettleCancel(ent, es)
  OBVIOUS
<1>8. ent \in Seq(Entry) /\ ent' = Change(en, es, LAMBDA y : [y EXCEPT !.cwait = FALSE])
  BY <1>1, <1>7 DEF CancelFinish, Types, Marked, PipeInv
<1>9. Born(ent, en) /\ Born(en, ent') /\ en \in Seq(Entry) /\ DOMAIN en = DOMAIN ent
  BY <1>7, <1>8, CancelSettled, WaitOver DEF Born
<1>10. Born(ent, ent') /\ DOMAIN ent' = DOMAIN ent
  BY <1>9 DEF Born
<1>11. \A x \in DOMAIN ent :
            /\ en[x].creq = ent[x].creq /\ en[x].retired = ent[x].retired /\ en[x].owner = ent[x].owner
            /\ x \in es => ~en[x].cpend /\ ~en[x].crun /\ en[x].req /\ en[x].holds = ent[x].holds \ {"cancel"}
            /\ x \notin es => en[x] = ent[x]
  BY <1>7, <1>8, CancelSettled
<1>12. \A x \in DOMAIN en :
            /\ ent'[x].creq = en[x].creq /\ ent'[x].cpend = en[x].cpend /\ ent'[x].crun = en[x].crun
            /\ ent'[x].retired = en[x].retired /\ ent'[x].req = en[x].req /\ ent'[x].holds = en[x].holds
            /\ ent'[x].owner = en[x].owner
            /\ x \notin es => ent'[x] = en[x]
  BY <1>8, <1>9, WaitOver
<1>13. \A x \in DOMAIN ent :
          /\ ent'[x].creq = ent[x].creq /\ ent'[x].retired = ent[x].retired /\ ent'[x].owner = ent[x].owner
          /\ x \in es => ~ent'[x].cpend /\ ~ent'[x].crun /\ ent'[x].req /\ ent'[x].holds = ent[x].holds \ {"cancel"}
          /\ x \notin es => ent'[x] = ent[x]
  BY <1>9, <1>11, <1>12
<1>14. Lasting
  BY <1>10, <1>13, BornLasts
<1> QED BY <1>1, <1>10, <1>13, <1>14 DEF Finishing

LEMMA LastingStep == ASSUME PipeInv, Next PROVE Lasting
<1>1. Types /\ ent \in Seq(Entry)
  BY DEF PipeInv, Types
<1>2. ASSUME ent' = ent PROVE Lasting
  BY <1>2 DEF Lasting
<1>3. ASSUME NEW m \in Msg, Push(m) \/ OverStep(m) PROVE Lasting
  <2>1. CASE PushRetained(m)
    <3>1. PICK y : y = NewEntry(m)
      OBVIOUS
    <3>2. ent' = Append(ent, y)
      BY <2>1, <3>1 DEF PushRetained
    <3>3. \A x \in DOMAIN ent : x \in DOMAIN ent' /\ ent'[x] = ent[x]
      <4>1. DOMAIN ent = 1 .. Len(ent) /\ Len(ent) \in Nat
        BY <1>1
      <4>2. ent' = ent \o <<y>>
        BY <3>2, AppendIsConcat, <1>1
      <4> QED BY <1>1, <3>2, <4>1
    <3> QED BY <3>3 DEF Lasting
  <2>2. CASE ~PushRetained(m)
    <3>1. ent' = ent
      BY <1>3, <2>2 DEF Push, PushDropped, PushKnown, PushOverflow, OverStep, OverRecover, OverLookup, OverRecord, debouncer
    <3> QED BY <1>2, <3>1
  <2> QED BY <2>1, <2>2
<1>4. ASSUME DetachAndQueue PROVE Lasting
  <2>1. ent' = Transfer(ent, ToSet(waiting), "debounce-inflight") /\ "debounce-inflight" \in Owner
    BY <1>4 DEF DetachAndQueue, Owner
  <2>2. Born(ent, ent') /\ \A x \in DOMAIN ent : ent'[x].creq = ent[x].creq /\ ent'[x].req = ent[x].req /\ ent'[x].retired = ent[x].retired
    BY <1>1, <2>1, Transferred
  <2> QED BY <2>2, BornLasts
<1>5. ASSUME RunFlush PROVE Lasting
  <2>1. PICK es : es = ToSet(Head(queued).ents)
    OBVIOUS
  <2>2. CASE Head(queued).gen = gen
    <3>1. ent' = HoldFor(ent, es, "flush")
      BY <1>5, <2>1, <2>2 DEF RunFlush
    <3>2. Born(ent, ent') /\ \A x \in DOMAIN ent : ent'[x].creq = ent[x].creq /\ ent'[x].req = ent[x].req /\ ent'[x].retired = ent[x].retired
      BY <1>1, <3>1, HeldForFlush
    <3> QED BY <3>2, BornLasts
  <2>3. CASE Head(queued).gen # gen
    <3>1. ent' = SettleFlush(ent, es)
      BY <1>5, <2>1, <2>3 DEF RunFlush
    <3>2. PICK rel : rel = {e \in es : ~ent[e].cpend /\ ent[e].owner # "pending"}
      OBVIOUS
    <3>3. ent' = RequestRelease(ent, rel)
      BY <3>1, <3>2 DEF SettleFlush
    <3>4. /\ Born(ent, ent')
          /\ \A x \in DOMAIN ent : x \notin rel => ent'[x] = ent[x]
          /\ \A x \in DOMAIN ent : ent'[x].creq = ent[x].creq /\ ent'[x].retired = ent[x].retired
          /\ \A x \in DOMAIN ent : x \in rel => ent'[x].req
      BY <1>1, <3>3, Released
    <3> QED BY <3>4, BornLasts
  <2> QED BY <2>2, <2>3
<1>6. ASSUME StartHandler PROVE Lasting
  BY <1>2, <1>6 DEF StartHandler, debouncer
<1>7. ASSUME HandlerSettled PROVE Lasting
  <2>1. Drain(ent, pending, NoTurn, LeaseOpen)
    BY <1>7 DEF HandlerSettled
  <2>2. ent' = ent \/ ent' = RequestRelease(ent, ToSet(pending))
    BY <2>1 DEF Drain
  <2>3. ASSUME ent' = RequestRelease(ent, ToSet(pending)) PROVE Lasting
    <3>1. /\ Born(ent, ent')
          /\ \A x \in DOMAIN ent : x \notin ToSet(pending) => ent'[x] = ent[x]
          /\ \A x \in DOMAIN ent : ent'[x].creq = ent[x].creq /\ ent'[x].retired = ent[x].retired
          /\ \A x \in DOMAIN ent : x \in ToSet(pending) => ent'[x].req
      BY <1>1, <2>3, Released
    <3> QED BY <3>1, BornLasts
  <2> QED BY <1>2, <2>2, <2>3
<1>8. ASSUME NEW r \in Runtime, FlushStep(r) PROVE Lasting
  <2>2. CASE FlushItem(r) \/ FlushRecover(r) \/ FlushLookup(r) \/ FlushRecord(r) \/ FlushInvalidated(r)
    <3>1. FlushStepped(r)
      BY <2>2, FlushItemSteps, FlushRecoverSteps, FlushLookupSteps, FlushRecordSteps, FlushInvalidatedSteps
    <3>2. PICK S, T : Moves(r, S, T)
      BY <3>1 DEF FlushStepped
    <3>3. Born(ent, ent') /\ \A x \in DOMAIN ent : (ent'[x].creq = ent[x].creq) /\ (ent'[x].retired = ent[x].retired)
      BY <3>2 DEF Moves
    <3>4. \A x \in DOMAIN ent : ent[x].req => ent'[x].req
      BY <3>2 DEF Moves
    <3> QED BY <3>3, <3>4, BornLasts
  <2>3. CASE FlushCommit(r)
    <3>1. Closed(r, Accepted(r), {})
      BY <2>3, FlushCommitPipe
    <3> QED BY <3>1 DEF Closed
  <2>4. CASE FlushAbandon(r)
    <3>1. Closed(r, Unrecorded(r), Undone(r))
      BY <2>4, FlushAbandonPipe
    <3> QED BY <3>1 DEF Closed
  <2> QED BY <1>8, <2>2, <2>3, <2>4 DEF FlushStep
<1>9. ASSUME Stop PROVE Lasting
  <2>1. Dropping(ent', NewlyCancelled, Dropped)
    BY <1>9, StopDrops
  <2>2. /\ Born(ent, ent')
        /\ \A x \in DOMAIN ent : (ent[x].creq => ent'[x].creq) /\ (ent[x].req => ent'[x].req) /\ ent'[x].retired = ent[x].retired
    BY <2>1 DEF Dropping
  <2> QED BY <2>2, BornLasts
<1>10. ASSUME StopThrows PROVE Lasting
  <2>1. PICK first : first = CHOOSE e \in Throwers : \A x \in Throwers : e <= x
    OBVIOUS
  <2>2. PICK a : a = CancelMarks(ent, {e \in NewlyCancelled : e < first})
    OBVIOUS
  <2>3. ent' = Change(a, {first}, LAMBDA y : [y EXCEPT !.creq = TRUE, !.cpend = TRUE])
    BY <1>10, <2>1, <2>2 DEF StopThrows
  <2>4. PICK M : M = {e \in NewlyCancelled : e < first}
    OBVIOUS
  <2>5. /\ Born(ent, a)
        /\ \A x \in DOMAIN ent : x \notin M => a[x] = ent[x]
        /\ \A x \in DOMAIN ent : a[x].retired = ent[x].retired /\ a[x].req = ent[x].req
        /\ \A x \in DOMAIN ent : x \in M => a[x].creq
    BY <1>1, <2>2, <2>4, CancelMarked
  <2>6. a \in Seq(Entry) /\ DOMAIN a = DOMAIN ent
    BY <2>5 DEF Born
  <2>7. /\ Born(a, ent')
        /\ \A x \in DOMAIN a : x \notin {first} => ent'[x] = a[x]
        /\ \A x \in DOMAIN a : ent'[x].retired = a[x].retired /\ ent'[x].req = a[x].req
        /\ \A x \in DOMAIN a : x \in {first} => ent'[x].creq
    BY <2>3, <2>6, HalfMarked
  <2>8. Born(ent, ent')
    BY <2>5, <2>7 DEF Born
  <2> QED BY <2>5, <2>6, <2>7, <2>8, BornLasts
<1>11. ASSUME NEW c \in StopNo, CancelStep(c) PROVE Lasting
  <2>1. CASE CancelStart(c)
    <3>1. ent' = Change(ent, ToSet(cancel[c].ents), LAMBDA r : [r EXCEPT !.crun = TRUE])
      BY <2>1 DEF CancelStart
    <3>2. Born(ent, ent') /\ \A x \in DOMAIN ent : ent'[x].creq = ent[x].creq /\ ent'[x].req = ent[x].req /\ ent'[x].retired = ent[x].retired
      BY <1>1, <3>1, RunBegun
    <3> QED BY <3>2, BornLasts
  <2>2. CASE CancelItem(c) \/ CancelRecord(c)
    <3>1. ent' = ent
      BY <2>2 DEF CancelItem, CancelRecord, debouncer
    <3> QED BY <1>2, <3>1
  <2>3. CASE CancelFinish(c)
    BY <2>3, CancelFinishes DEF Finishing
  <2> QED BY <1>11, <2>1, <2>2, <2>3 DEF CancelStep
<1>12. ASSUME Retire \/ Dispose PROVE Lasting
  <2>1. Tearing(ent', inflight \union Window, Dropped)
    BY <1>1, <1>12, TearEntries DEF Retire, Dispose, DisposeDispatcher, Window
  <2>2. Born(ent, ent') /\ \A x \in DOMAIN ent : ent'[x].creq = ent[x].creq /\ (ent[x].req => ent'[x].req)
    BY <2>1 DEF Tearing
  <2>3. \A x \in DOMAIN ent : ent[x].retired => ent'[x].retired
    BY <2>1 DEF Tearing
  <2> QED BY <2>2, <2>3, BornLasts
<1>13. ASSUME StartRuntime PROVE Lasting
  BY <1>2, <1>13 DEF StartRuntime, debouncer
<1> QED BY <1>3, <1>4, <1>5, <1>6, <1>7, <1>8, <1>9, <1>10, <1>11, <1>12, <1>13 DEF Next

(***************************************************************************)
(* The five ways a gate changes.                                           *)
(***************************************************************************)
\* Who claimed a place keeps it, but for actor a in the gate of message m.
ClaimsKept == \A b : \A x \in Msg : Claims(b, x) => Claims(b, x)'
ClaimsBut(a, m) == \A b : \A x \in Msg : Claims(b, x) /\ ~(b = a /\ x = m) => Claims(b, x)'
ReceiptsKept == \A b : KeepsReceipt(b) => KeepsReceipt(b)'

LEMMA GateKept ==
    ASSUME GateInv, StoreTypes', gate' = gate, receipt' = receipt, ClaimsKept, ReceiptsKept
    PROVE  GateInv'
  BY DEF GateInv, MemberInv, OnceInv, ReceiptHeldInv, ClaimsKept, ReceiptsKept

LEMMA GateSeq ==
    ASSUME StoreTypes, NEW m \in Msg
    PROVE  /\ gate[m] \in Seq(Actor) /\ Len(gate[m]) \in Nat /\ DOMAIN gate[m] = 1 .. Len(gate[m])
           /\ gate[m] # <<>> => Head(gate[m]) = gate[m][1] /\ 1 \in DOMAIN gate[m]
<1>1. gate[m] \in Seq(Actor)
  BY DEF StoreTypes
<1> QED BY <1>1

\* An actor joins.
LEMMA GateJoined ==
    ASSUME GateInv, StoreTypes', NEW m \in Msg, NEW a \in Actor, Enqueue(m, a), receipt' = receipt,
           ClaimsKept, ReceiptsKept, Claims(a, m)', ~Claims(a, m)
    PROVE  GateInv'
<1>1. StoreTypes /\ MemberInv /\ OnceInv /\ ReceiptHeldInv
  BY DEF GateInv
<1>2. PICK n \in Nat : n = Len(gate[m])
  BY <1>1, GateSeq
<1>3. /\ DOMAIN gate[m] = 1 .. n
      /\ DOMAIN gate'[m] = 1 .. n + 1 /\ gate'[m][n + 1] = a /\ \A p \in 1 .. n : gate'[m][p] = gate[m][p]
      /\ \A x \in Msg : x # m => gate'[x] = gate[x]
  <2>1. gate[m] \in Seq(Actor) /\ gate \in [Msg -> Seq(Actor)]
    BY <1>1 DEF StoreTypes
  <2>2. gate'[m] = Append(gate[m], a) /\ \A x \in Msg : x # m => gate'[x] = gate[x]
    BY <2>1 DEF Enqueue
  <2> QED BY <1>2, <2>1, <2>2
<1>4. MemberInv'
  <2> SUFFICES ASSUME NEW x \in Msg, NEW p \in DOMAIN gate'[x], NEW b, b = gate'[x][p]
               PROVE  Claims(b, x)' \/ (p = 1 /\ receipt[x] # "none")
    BY DEF MemberInv
  <2>1. CASE x = m /\ p = n + 1
    BY <1>3, <2>1
  <2>2. CASE ~(x = m /\ p = n + 1)
    <3>1. p \in DOMAIN gate[x] /\ gate'[x][p] = gate[x][p]
      BY <1>3, <2>2
    <3> QED BY <1>1, <3>1 DEF MemberInv, ClaimsKept
  <2> QED BY <2>1, <2>2
<1>5. OnceInv'
  <2> SUFFICES ASSUME NEW x \in Msg, NEW p \in DOMAIN gate'[x], NEW q \in DOMAIN gate'[x], p < q, gate'[x][p] = gate'[x][q]
               PROVE  p = 1 /\ receipt[x] # "none"
    BY DEF OnceInv
  <2>1. CASE x = m /\ q = n + 1
    <3>1. p \in DOMAIN gate[m] /\ gate[m][p] = a
      BY <1>3, <2>1
    <3> QED BY <1>1, <2>1, <3>1 DEF MemberInv
  <2>2. CASE ~(x = m /\ q = n + 1)
    <3>1. p \in DOMAIN gate[x] /\ q \in DOMAIN gate[x] /\ gate[x][p] = gate[x][q]
      BY <1>3, <2>2
    <3> QED BY <1>1, <3>1 DEF OnceInv
  <2> QED BY <2>1, <2>2
<1>6. ReceiptHeldInv'
  <2> SUFFICES ASSUME NEW x \in Msg, receipt[x] # "none" PROVE gate'[x] # <<>> /\ \A b \in {gate'[x][1]} : KeepsReceipt(b)'
    BY DEF ReceiptHeldInv
  <2>1. gate[x] # <<>> /\ KeepsReceipt(gate[x][1])
    BY <1>1 DEF ReceiptHeldInv
  <2>2. 1 \in DOMAIN gate[x]
    BY <1>1, <2>1, GateSeq
  <2>3. gate'[x][1] = gate[x][1] /\ gate'[x] # <<>>
    BY <1>3, <2>2
  <2> QED BY <2>1, <2>3 DEF ReceiptsKept
<1> QED BY <1>4, <1>5, <1>6 DEF GateInv

LEMMA HeadTail ==
    ASSUME NEW s \in Seq(Actor), s # <<>>
    PROVE  /\ Tail(s) \in Seq(Actor) /\ Head(s) = s[1] /\ 1 \in DOMAIN s
           /\ Len(s) \in Nat /\ Len(s) >= 1 /\ DOMAIN s = 1 .. Len(s) /\ DOMAIN Tail(s) = 1 .. Len(s) - 1
           /\ \A p \in DOMAIN Tail(s) : p \in Nat /\ p + 1 \in DOMAIN s /\ Tail(s)[p] = s[p + 1]
  OBVIOUS

\* The actor at the head leaves.
LEMMA GateLeft ==
    ASSUME GateInv, StoreTypes', NEW m \in Msg, NEW a, AtHead(m, a), Leave(m), receipt' = receipt,
           ClaimsBut(a, m), ReceiptsKept
    PROVE  GateInv'
<1>1. StoreTypes /\ MemberInv /\ OnceInv /\ ReceiptHeldInv
  BY DEF GateInv
<1>2. gate[m] \in Seq(Actor) /\ gate[m] # <<>> /\ Head(gate[m]) = a /\ receipt[m] = "none"
  BY <1>1 DEF AtHead, StoreTypes
<1>3. gate'[m] = Tail(gate[m]) /\ \A x \in Msg : x # m => gate'[x] = gate[x]
  BY <1>1 DEF Leave, StoreTypes
<1>4. /\ gate[m][1] = a /\ 1 \in DOMAIN gate[m]
      /\ \A p \in DOMAIN gate'[m] : p \in Nat /\ p + 1 \in DOMAIN gate[m] /\ gate'[m][p] = gate[m][p + 1] /\ 1 < p + 1
  <2>1. \A p \in DOMAIN gate'[m] : p \in Nat /\ p + 1 \in DOMAIN gate[m] /\ gate'[m][p] = gate[m][p + 1]
    BY <1>2, <1>3, HeadTail
  <2>2. \A p \in DOMAIN gate'[m] : p >= 1
    BY <1>2, <1>3, HeadTail
  <2> QED BY <1>2, <2>1, <2>2, HeadTail
<1>5. MemberInv'
  <2> SUFFICES ASSUME NEW x \in Msg, NEW p \in DOMAIN gate'[x], NEW b, b = gate'[x][p]
               PROVE  Claims(b, x)' \/ (p = 1 /\ receipt[x] # "none")
    BY DEF MemberInv
  <2>1. CASE x = m
    <3>1. p + 1 \in DOMAIN gate[m] /\ gate'[m][p] = gate[m][p + 1] /\ 1 < p + 1
      BY <1>4, <2>1
    <3>2. gate[m][p + 1] # a
      BY <1>1, <1>2, <1>4, <3>1 DEF OnceInv
    <3>3. Claims(gate[m][p + 1], m)
      BY <1>1, <1>2, <3>1 DEF MemberInv
    <3> QED BY <2>1, <3>1, <3>2, <3>3 DEF ClaimsBut
  <2>2. CASE x # m
    BY <1>1, <1>3, <2>2 DEF MemberInv, ClaimsBut
  <2> QED BY <2>1, <2>2
<1>6. OnceInv'
  <2> SUFFICES ASSUME NEW x \in Msg, NEW p \in DOMAIN gate'[x], NEW q \in DOMAIN gate'[x], p < q, gate'[x][p] = gate'[x][q]
               PROVE  p = 1 /\ receipt[x] # "none"
    BY DEF OnceInv
  <2>1. CASE x = m
    <3>1. /\ p + 1 \in DOMAIN gate[m] /\ gate'[m][p] = gate[m][p + 1] /\ p \in Nat
          /\ q + 1 \in DOMAIN gate[m] /\ gate'[m][q] = gate[m][q + 1] /\ q \in Nat
      BY <1>4, <2>1
    <3>2. gate[m][p + 1] = gate[m][q + 1] /\ p + 1 < q + 1
      BY <2>1, <3>1
    <3>3. receipt[m] # "none"
      BY <1>1, <3>1, <3>2 DEF OnceInv
    <3> QED BY <1>2, <3>3
  <2>2. CASE x # m
    BY <1>1, <1>3, <2>2 DEF OnceInv
  <2> QED BY <2>1, <2>2
<1>7. ReceiptHeldInv'
  BY <1>1, <1>2, <1>3 DEF ReceiptHeldInv, ReceiptsKept
<1> QED BY <1>5, <1>6, <1>7 DEF GateInv

\* The actor at the head goes back to the end, as a record does after its lookup.
LEMMA GateRequeued ==
    ASSUME GateInv, StoreTypes', NEW m \in Msg, NEW a \in Actor, AtHead(m, a),
           gate' = [gate EXCEPT ![m] = Append(Tail(@), a)], receipt' = receipt,
           ClaimsKept, ReceiptsKept, Claims(a, m)'
    PROVE  GateInv'
<1>1. StoreTypes /\ MemberInv /\ OnceInv /\ ReceiptHeldInv
  BY DEF GateInv
<1>2. gate[m] \in Seq(Actor) /\ gate[m] # <<>> /\ Head(gate[m]) = a /\ receipt[m] = "none"
  BY <1>1 DEF AtHead, StoreTypes
<1>3. gate'[m] = Append(Tail(gate[m]), a) /\ \A x \in Msg : x # m => gate'[x] = gate[x]
  BY <1>1 DEF StoreTypes
<1>4. PICK t : t = Tail(gate[m])
  OBVIOUS
<1>5. PICK n \in Nat : n = Len(gate[m]) - 1
  <2>1. PICK s \in Seq(Actor) : s = gate[m]
    BY <1>2
  <2>2. s # <<>>
    BY <1>2, <2>1
  <2>3. PICK k \in Nat : k = Len(s) /\ k >= 1
    BY <2>2, HeadTail
  <2>4. k - 1 \in Nat /\ k - 1 = Len(gate[m]) - 1
    BY <2>1, <2>3
  <2> QED BY <2>4
<1>6. /\ gate[m][1] = a /\ 1 \in DOMAIN gate[m] /\ t \in Seq(Actor) /\ DOMAIN t = 1 .. n
      /\ \A p \in 1 .. n : p + 1 \in DOMAIN gate[m] /\ t[p] = gate[m][p + 1]
  BY <1>2, <1>4, <1>5, HeadTail
<1>7. DOMAIN gate'[m] = 1 .. n + 1 /\ gate'[m][n + 1] = a /\ \A p \in 1 .. n : gate'[m][p] = gate[m][p + 1]
  <2>1. Len(t) = n
    BY <1>6
  <2>2. DOMAIN Append(t, a) = 1 .. n + 1 /\ Append(t, a)[n + 1] = a /\ \A p \in 1 .. n : Append(t, a)[p] = t[p]
    BY <1>6, <2>1
  <2> QED BY <1>3, <1>4, <1>6, <2>2
<1>8. \A p \in 1 .. n : gate[m][p + 1] # a
  BY <1>1, <1>2, <1>6 DEF OnceInv
<1>9. MemberInv'
  <2> SUFFICES ASSUME NEW x \in Msg, NEW p \in DOMAIN gate'[x], NEW b, b = gate'[x][p]
               PROVE  Claims(b, x)' \/ (p = 1 /\ receipt[x] # "none")
    BY DEF MemberInv
  <2>1. CASE x = m /\ p = n + 1
    BY <1>7, <2>1
  <2>2. CASE x = m /\ p # n + 1
    <3>1. p \in 1 .. n /\ gate'[m][p] = gate[m][p + 1] /\ p + 1 \in DOMAIN gate[m]
      BY <1>6, <1>7, <2>2
    <3>2. Claims(gate[m][p + 1], m)
      BY <1>1, <1>2, <3>1 DEF MemberInv
    <3> QED BY <2>2, <3>1, <3>2 DEF ClaimsKept
  <2>3. CASE x # m
    BY <1>1, <1>3, <2>3 DEF MemberInv, ClaimsKept
  <2> QED BY <2>1, <2>2, <2>3
<1>10. OnceInv'
  <2> SUFFICES ASSUME NEW x \in Msg, NEW p \in DOMAIN gate'[x], NEW q \in DOMAIN gate'[x], p < q, gate'[x][p] = gate'[x][q]
               PROVE  p = 1 /\ receipt[x] # "none"
    BY DEF OnceInv
  <2>1. CASE x = m /\ q = n + 1
    <3>1. p \in 1 .. n /\ gate'[m][p] = gate[m][p + 1]
      BY <1>7, <2>1
    <3> QED BY <1>7, <1>8, <2>1, <3>1
  <2>2. CASE x = m /\ q # n + 1
    <3>1. p \in 1 .. n /\ q \in 1 .. n
      BY <1>7, <2>2
    <3>2. gate[m][p + 1] = gate[m][q + 1] /\ p + 1 < q + 1 /\ p + 1 \in DOMAIN gate[m] /\ q + 1 \in DOMAIN gate[m]
      BY <1>6, <1>7, <2>2, <3>1
    <3>3. receipt[m] # "none"
      BY <1>1, <3>2 DEF OnceInv
    <3> QED BY <1>2, <3>3
  <2>3. CASE x # m
    BY <1>1, <1>3, <2>3 DEF OnceInv
  <2> QED BY <2>1, <2>2, <2>3
<1>11. ReceiptHeldInv'
  BY <1>1, <1>2, <1>3 DEF ReceiptHeldInv, ReceiptsKept
<1> QED BY <1>9, <1>10, <1>11 DEF GateInv

\* A record keeps the gate with its receipt.
LEMMA GateMarked ==
    ASSUME GateInv, StoreTypes', NEW m \in Msg, NEW a, AtHead(m, a), gate' = gate,
           \A x \in Msg : x # m => receipt'[x] = receipt[x], receipt'[m] # "none",
           ClaimsBut(a, m), ReceiptsKept, KeepsReceipt(a)'
    PROVE  GateInv'
<1>1. StoreTypes /\ MemberInv /\ OnceInv /\ ReceiptHeldInv
  BY DEF GateInv
<1>2. gate[m] \in Seq(Actor) /\ gate[m] # <<>> /\ gate[m][1] = a /\ 1 \in DOMAIN gate[m] /\ receipt[m] = "none"
  BY <1>1 DEF AtHead, StoreTypes
<1>3. \A p \in DOMAIN gate[m] : p # 1 => gate[m][p] # a /\ 1 < p
  <2>1. \A p \in DOMAIN gate[m] : p # 1 => 1 < p
    BY <1>2
  <2> QED BY <1>1, <1>2, <2>1 DEF OnceInv
<1>4. MemberInv'
  <2> SUFFICES ASSUME NEW x \in Msg, NEW p \in DOMAIN gate[x], NEW b, b = gate[x][p]
               PROVE  Claims(b, x)' \/ (p = 1 /\ receipt'[x] # "none")
    BY DEF MemberInv
  <2>1. CASE x = m /\ p = 1
    BY <2>1
  <2>2. CASE ~(x = m /\ p = 1)
    <3>1. Claims(gate[x][p], x) \/ (p = 1 /\ receipt[x] # "none")
      BY <1>1 DEF MemberInv
    <3>2. x = m => Claims(gate[x][p], x) /\ gate[x][p] # a
      BY <1>2, <1>3, <2>2, <3>1
    <3> QED BY <2>2, <3>1, <3>2 DEF ClaimsBut
  <2> QED BY <2>1, <2>2
<1>5. OnceInv'
  BY <1>1, <1>2 DEF OnceInv
<1>6. ReceiptHeldInv'
  BY <1>1, <1>2 DEF ReceiptHeldInv, ReceiptsKept
<1> QED BY <1>4, <1>5, <1>6 DEF GateInv

\* A flush gives back the gates of the receipts it holds.
LEMMA GateSettled ==
    ASSUME GateInv, StoreTypes', NEW a, NEW ms, ms = HeldBy(a),
           gate' = [m \in Msg |-> IF m \in ms THEN Tail(gate[m]) ELSE gate[m]],
           receipt' = [m \in Msg |-> IF m \in ms THEN "none" ELSE receipt[m]],
           ClaimsKept, \A x \in Msg : ~Claims(a, x), \A b : KeepsReceipt(b) /\ b # a => KeepsReceipt(b)'
    PROVE  GateInv'
<1>1. StoreTypes /\ MemberInv /\ OnceInv /\ ReceiptHeldInv
  BY DEF GateInv
<1>2. \A x \in ms : x \in Msg /\ gate[x] # <<>> /\ gate[x] \in Seq(Actor) /\ gate[x][1] = a /\ receipt[x] # "none"
  BY <1>1 DEF HeldBy, ReceiptHeldInv, StoreTypes
<1>3. /\ \A x \in ms : gate'[x] = Tail(gate[x]) /\ receipt'[x] = "none"
      /\ \A x \in Msg : x \notin ms => gate'[x] = gate[x] /\ receipt'[x] = receipt[x]
  BY <1>2
<1>4. \A x \in Msg : x \notin ms /\ receipt[x] # "none" => gate[x][1] # a
  <2>1. \A x \in Msg : receipt[x] # "none" => Head(gate[x]) = gate[x][1]
    BY <1>1, GateSeq DEF ReceiptHeldInv
  <2> QED BY <2>1 DEF HeldBy
<1>5. \A x \in ms : \A p \in DOMAIN gate'[x] :
          p \in Nat /\ p + 1 \in DOMAIN gate[x] /\ gate'[x][p] = gate[x][p + 1] /\ 1 < p + 1
  <2>1. \A x \in ms : \A p \in DOMAIN gate'[x] : p \in Nat /\ p + 1 \in DOMAIN gate[x] /\ gate'[x][p] = gate[x][p + 1]
    BY <1>2, <1>3, HeadTail
  <2>2. \A x \in ms : \A p \in DOMAIN gate'[x] : p >= 1
    BY <1>2, <1>3, HeadTail
  <2> QED BY <2>1, <2>2
<1>6. MemberInv'
  <2> SUFFICES ASSUME NEW x \in Msg, NEW p \in DOMAIN gate'[x], NEW b, b = gate'[x][p]
               PROVE  Claims(b, x)' \/ (p = 1 /\ receipt'[x] # "none")
    BY DEF MemberInv
  <2>1. CASE x \in ms
    <3>1. p + 1 \in DOMAIN gate[x] /\ gate'[x][p] = gate[x][p + 1] /\ p + 1 # 1
      <4>1. p \in Nat /\ p + 1 \in DOMAIN gate[x] /\ gate'[x][p] = gate[x][p + 1] /\ 1 < p + 1
        BY <1>5, <2>1
      <4> QED BY <4>1
    <3>2. Claims(gate[x][p + 1], x)
      BY <1>1, <3>1 DEF MemberInv
    <3> QED BY <3>1, <3>2 DEF ClaimsKept
  <2>2. CASE x \notin ms
    BY <1>1, <1>3, <2>2 DEF MemberInv, ClaimsKept
  <2> QED BY <2>1, <2>2
<1>7. OnceInv'
  <2> SUFFICES ASSUME NEW x \in Msg, NEW p \in DOMAIN gate'[x], NEW q \in DOMAIN gate'[x], p < q, gate'[x][p] = gate'[x][q]
               PROVE  p = 1 /\ receipt'[x] # "none"
    BY DEF OnceInv
  <2>1. CASE x \in ms
    <3>1. /\ p + 1 \in DOMAIN gate[x] /\ gate'[x][p] = gate[x][p + 1] /\ p \in Nat
          /\ q + 1 \in DOMAIN gate[x] /\ gate'[x][q] = gate[x][q + 1] /\ q \in Nat /\ 1 < p + 1
      BY <1>5, <2>1
    <3>2. gate[x][p + 1] = gate[x][q + 1] /\ p + 1 < q + 1
      BY <3>1
    <3>3. p + 1 = 1
      BY <1>1, <3>1, <3>2 DEF OnceInv
    <3> QED BY <3>1, <3>3
  <2>2. CASE x \notin ms
    BY <1>1, <1>3, <2>2 DEF OnceInv
  <2> QED BY <2>1, <2>2
<1>8. ReceiptHeldInv'
  <2> SUFFICES ASSUME NEW x \in Msg, receipt'[x] # "none" PROVE gate'[x] # <<>> /\ \A b \in {gate'[x][1]} : KeepsReceipt(b)'
    BY DEF ReceiptHeldInv
  <2>1. x \notin ms
    BY <1>3
  <2>2. gate'[x] = gate[x] /\ receipt[x] # "none"
    BY <1>3, <2>1
  <2> QED BY <1>1, <1>4, <2>1, <2>2 DEF ReceiptHeldInv
<1> QED BY <1>6, <1>7, <1>8 DEF GateInv

(***************************************************************************)
(* The gates, step by step.                                                *)
(***************************************************************************)
FlushStays(r) ==
    flush[r].pc \in {"recover", "lookup", "record"} =>
        flush'[r].pc \in {"recover", "lookup", "record"} /\ flush'[r].batch = flush[r].batch /\ flush'[r].i = flush[r].i
CancelStays(c) ==
    cancel[c].pc = "record" =>
        cancel'[c].pc = "record" /\ cancel'[c].ents = cancel[c].ents /\ cancel'[c].i = cancel[c].i
OverStays(m) == over[m].pc # "none" => over'[m].pc # "none"
StillBusy(r) == flush[r].pc \notin {"idle", "await"} => flush'[r].pc \notin {"idle", "await"}

LEMMA CurrentEntry ==
    ASSUME PipeInv
    PROVE  /\ \A r \in Runtime : flush[r].pc \in {"recover", "lookup", "record"} => Current(r) \in DOMAIN ent /\ Current(r) \in Batch(r)
           /\ \A c \in StopNo : cancel[c].pc = "record" => cancel[c].ents[cancel[c].i] \in DOMAIN ent /\ cancel[c].ents[cancel[c].i] \in Marked(c)
<1>1. ASSUME NEW r \in Runtime, flush[r].pc \in {"recover", "lookup", "record"} PROVE Current(r) \in DOMAIN ent /\ Current(r) \in Batch(r)
  <2>1. FlushTypes /\ FlushFields(flush[r])
    BY DEF PipeInv, FlushTypes
  <2>2. flush[r].i <= Len(flush[r].batch)
    BY <1>1, <2>1 DEF FlushFields
  <2> QED BY <2>1, <2>2, RestFacts, Located
<1>2. ASSUME NEW c \in StopNo, cancel[c].pc = "record" PROVE cancel[c].ents[cancel[c].i] \in DOMAIN ent /\ cancel[c].ents[cancel[c].i] \in Marked(c)
  <2>1. cancel[c] \in Batchwise /\ cancel[c].i <= Len(cancel[c].ents) /\ Marked(c) \subseteq DOMAIN ent
    BY <1>2 DEF PipeInv, CancelTypes, Marked
  <2>2. cancel[c].ents \in Seq(Nat) /\ cancel[c].i \in Nat \ {0}
    BY <2>1 DEF Batchwise
  <2>3. cancel[c].i \in DOMAIN cancel[c].ents
    BY <2>1, <2>2
  <2> QED BY <2>1, <2>2, <2>3 DEF Marked, ToSet
<1> QED BY <1>1, <1>2

LEMMA WaitsStay ==
    ASSUME PipeInv, Lasting
    PROVE  /\ \A r \in Runtime : \A x \in Msg : FlushStays(r) /\ Waits(r, x) => Waits(r, x)'
           /\ \A c \in StopNo : \A x \in Msg : CancelStays(c) /\ CancelWaits(c, x) => CancelWaits(c, x)'
<1>1. ASSUME NEW r \in Runtime, NEW x \in Msg, FlushStays(r), Waits(r, x) PROVE Waits(r, x)'
  <2>1. Current(r) \in DOMAIN ent
    BY <1>1, CurrentEntry DEF Waits
  <2>2. Current(r)' = Current(r) /\ flush'[r].pc \in {"recover", "lookup", "record"}
    BY <1>1 DEF FlushStays, Waits, Current
  <2>3. ent'[Current(r)].m = ent[Current(r)].m
    BY <2>1 DEF Lasting
  <2> QED BY <1>1, <2>2, <2>3 DEF Waits
<1>2. ASSUME NEW c \in StopNo, NEW x \in Msg, CancelStays(c), CancelWaits(c, x) PROVE CancelWaits(c, x)'
  <2>1. cancel[c].ents[cancel[c].i] \in DOMAIN ent
    BY <1>2, CurrentEntry DEF CancelWaits
  <2>2. cancel'[c].ents[cancel'[c].i] = cancel[c].ents[cancel[c].i] /\ cancel'[c].pc = "record"
    BY <1>2 DEF CancelStays, CancelWaits
  <2>3. ent'[cancel[c].ents[cancel[c].i]].m = ent[cancel[c].ents[cancel[c].i]].m
    BY <2>1 DEF Lasting
  <2> QED BY <1>2, <2>2, <2>3 DEF CancelWaits
<1> QED BY <1>1, <1>2

LEMMA AllStay ==
    ASSUME PipeInv, Lasting, \A r \in Runtime : FlushStays(r), \A c \in StopNo : CancelStays(c), \A x \in Msg : OverStays(x)
    PROVE  ClaimsKept
<1> SUFFICES ASSUME NEW b, NEW x \in Msg, Claims(b, x) PROVE Claims(b, x)'
  BY DEF ClaimsKept
<1>1. CASE \E r \in Runtime : b = Flusher(r) /\ Waits(r, x)
  <2>1. PICK r \in Runtime : b = Flusher(r) /\ Waits(r, x)
    BY <1>1
  <2>2. Waits(r, x)'
    BY <2>1, WaitsStay
  <2> QED BY <2>1, <2>2 DEF Claims, Flusher
<1>2. CASE \E c \in StopNo : b = Canceller(c) /\ CancelWaits(c, x)
  <2>1. PICK c \in StopNo : b = Canceller(c) /\ CancelWaits(c, x)
    BY <1>2
  <2>2. CancelWaits(c, x)'
    BY <2>1, WaitsStay
  <2> QED BY <2>1, <2>2 DEF Claims, Canceller
<1>3. CASE b = Resolver /\ over[x].pc # "none"
  BY <1>3 DEF Claims, Resolver, OverStays
<1> QED BY <1>1, <1>2, <1>3 DEF Claims

LEMMA FlusherGoes ==
    ASSUME PipeInv, Lasting, NEW r \in Runtime, NEW m, m = ent[Current(r)].m,
           \A q \in Runtime : q # r => FlushStays(q), \A c \in StopNo : CancelStays(c), \A x \in Msg : OverStays(x)
    PROVE  ClaimsBut(Flusher(r), m)
<1> SUFFICES ASSUME NEW b, NEW x \in Msg, Claims(b, x), ~(b = Flusher(r) /\ x = m) PROVE Claims(b, x)'
  BY DEF ClaimsBut
<1>1. CASE \E q \in Runtime : b = Flusher(q) /\ Waits(q, x)
  <2>1. PICK q \in Runtime : b = Flusher(q) /\ Waits(q, x)
    BY <1>1
  <2>2. q # r
    BY <2>1 DEF Waits
  <2>3. Waits(q, x)'
    BY <2>1, <2>2, WaitsStay
  <2> QED BY <2>1, <2>3 DEF Claims, Flusher
<1>2. CASE \E c \in StopNo : b = Canceller(c) /\ CancelWaits(c, x)
  <2>1. PICK c \in StopNo : b = Canceller(c) /\ CancelWaits(c, x)
    BY <1>2
  <2>2. CancelWaits(c, x)'
    BY <2>1, WaitsStay
  <2> QED BY <2>1, <2>2 DEF Claims, Canceller
<1>3. CASE b = Resolver /\ over[x].pc # "none"
  BY <1>3 DEF Claims, Resolver, OverStays
<1> QED BY <1>1, <1>2, <1>3 DEF Claims

LEMMA CancellerGoes ==
    ASSUME PipeInv, Lasting, NEW c \in StopNo, NEW m, m = ent[cancel[c].ents[cancel[c].i]].m,
           \A q \in Runtime : FlushStays(q), \A d \in StopNo : d # c => CancelStays(d), \A x \in Msg : OverStays(x)
    PROVE  ClaimsBut(Canceller(c), m)
<1> SUFFICES ASSUME NEW b, NEW x \in Msg, Claims(b, x), ~(b = Canceller(c) /\ x = m) PROVE Claims(b, x)'
  BY DEF ClaimsBut
<1>1. CASE \E q \in Runtime : b = Flusher(q) /\ Waits(q, x)
  <2>1. PICK q \in Runtime : b = Flusher(q) /\ Waits(q, x)
    BY <1>1
  <2>3. Waits(q, x)'
    BY <2>1, WaitsStay
  <2> QED BY <2>1, <2>3 DEF Claims, Flusher
<1>2. CASE \E d \in StopNo : b = Canceller(d) /\ CancelWaits(d, x)
  <2>1. PICK d \in StopNo : b = Canceller(d) /\ CancelWaits(d, x)
    BY <1>2
  <2>2. d # c
    BY <2>1 DEF CancelWaits
  <2>3. CancelWaits(d, x)'
    BY <2>1, <2>2, WaitsStay
  <2> QED BY <2>1, <2>3 DEF Claims, Canceller
<1>3. CASE b = Resolver /\ over[x].pc # "none"
  BY <1>3 DEF Claims, Resolver, OverStays
<1> QED BY <1>1, <1>2, <1>3 DEF Claims

LEMMA ResolverGoes ==
    ASSUME PipeInv, UNCHANGED <<ent, flush, cancel>>, NEW m \in Msg, \A x \in Msg : x # m => OverStays(x)
    PROVE  ClaimsBut(Resolver, m) /\ ReceiptsKept
<1>1. ASSUME NEW b, NEW x \in Msg, Claims(b, x), ~(b = Resolver /\ x = m) PROVE Claims(b, x)'
  <2>1. \A q \in Runtime : Waits(q, x) => Waits(q, x)'
    BY DEF Waits, Current
  <2>2. \A c \in StopNo : CancelWaits(c, x) => CancelWaits(c, x)'
    BY DEF CancelWaits
  <2>3. CASE b = Resolver /\ over[x].pc # "none"
    BY <1>1, <2>3 DEF Claims, Resolver, OverStays
  <2> QED BY <1>1, <2>1, <2>2, <2>3 DEF Claims, Flusher, Canceller
<1> QED BY <1>1 DEF ClaimsBut, ReceiptsKept, KeepsReceipt, Flusher

LEMMA BusyStays == ASSUME \A r \in Runtime : StillBusy(r) PROVE ReceiptsKept
  BY DEF StillBusy, ReceiptsKept, KeepsReceipt, Flusher

\* What the calls do to the shape of the store.
LEMMA GateShapes ==
    ASSUME StoreTypes, NEW m \in Msg
    PROVE  /\ \A a \in Actor : Enqueue(m, a) => gate' \in [Msg -> Seq(Actor)]
           /\ gate[m] # <<>> /\ Leave(m) => gate' \in [Msg -> Seq(Actor)]
           /\ \A a \in Actor : gate[m] # <<>> /\ gate' = [gate EXCEPT ![m] = Append(Tail(@), a)] => gate' \in [Msg -> Seq(Actor)]
           /\ over' = [over EXCEPT ![m] = NoTask] => over' \in [Msg -> Task] /\ \A x \in Msg : x # m => OverStays(x)
<1>1. gate \in [Msg -> Seq(Actor)] /\ over \in [Msg -> Task]
  BY DEF StoreTypes
<1>2. ASSUME NEW a \in Actor, Enqueue(m, a) PROVE gate' \in [Msg -> Seq(Actor)]
  <2>1. Append(gate[m], a) \in Seq(Actor)
    BY <1>1
  <2> QED BY <1>1, <1>2, <2>1 DEF Enqueue
<1>3. gate[m] # <<>> => Tail(gate[m]) \in Seq(Actor)
  BY <1>1, HeadTail
<1>4. ASSUME gate[m] # <<>>, Leave(m) PROVE gate' \in [Msg -> Seq(Actor)]
  BY <1>1, <1>3, <1>4 DEF Leave
<1>5. ASSUME NEW a \in Actor, gate[m] # <<>>, gate' = [gate EXCEPT ![m] = Append(Tail(@), a)] PROVE gate' \in [Msg -> Seq(Actor)]
  <2>1. Append(Tail(gate[m]), a) \in Seq(Actor)
    BY <1>3, <1>5
  <2> QED BY <1>1, <1>5, <2>1
<1>6. NoTask \in Task
  BY DEF NoTask, Task
<1>7. ASSUME over' = [over EXCEPT ![m] = NoTask] PROVE over' \in [Msg -> Task] /\ \A x \in Msg : x # m => OverStays(x)
  BY <1>1, <1>6, <1>7 DEF OverStays
<1> QED BY <1>2, <1>4, <1>5, <1>7

LEMMA Actors ==
    ASSUME PipeInv
    PROVE  Resolver \in Actor /\ (\A r \in Runtime : Flusher(r) \in Actor) /\ (\A c \in StopNo : Canceller(c) \in Actor)
<1>1. \A c \in StopNo : c \in Nat
  BY BoundsAssumption DEF StopNo
<1>2. \A r \in Runtime : r \in Nat
  BY Located
<1> QED BY <1>1, <1>2 DEF Actor, Resolver, Flusher, Canceller

\* Steps that leave the gates alone.
LEMMA GateFrame ==
    ASSUME PipeInv, GateInv, Lasting, UNCHANGED <<gate, receipt>>, over' \in [Msg -> Task],
           \A r \in Runtime : FlushStays(r) /\ StillBusy(r), \A c \in StopNo : CancelStays(c), \A x \in Msg : OverStays(x)
    PROVE  GateInv'
<1>1. StoreTypes'
  BY DEF GateInv, StoreTypes
<1> QED BY <1>1, AllStay, BusyStays, GateKept

LEMMA OverKept == ASSUME StoreTypes, over' = over PROVE over' \in [Msg -> Task] /\ \A x \in Msg : OverStays(x)
  BY DEF StoreTypes, OverStays

LEMMA OverCancelled ==
    ASSUME StoreTypes, \A x \in Msg : over'[x] = over[x] \/ over'[x] = [over[x] EXCEPT !.cancelled = TRUE],
           over' = [x \in Msg |-> over'[x]]
    PROVE  over' \in [Msg -> Task] /\ \A x \in Msg : OverStays(x)
<1>1. ASSUME NEW x \in Msg PROVE over'[x] \in Task /\ OverStays(x)
  <2>1. over[x] \in Task
    BY DEF StoreTypes
  <2> QED BY <2>1 DEF Task, OverStays
<1> QED BY <1>1

LEMMA FlushKept == ASSUME flush' = flush PROVE \A r \in Runtime : FlushStays(r) /\ StillBusy(r)
  BY DEF FlushStays, StillBusy

LEMMA CancelKept == ASSUME cancel' = cancel PROVE \A c \in StopNo : CancelStays(c)
  BY DEF CancelStays

LEMMA OthersStay ==
    ASSUME NEW r \in Runtime, FlushIs(r, flush'[r])
    PROVE  \A q \in Runtime : q # r => FlushStays(q) /\ StillBusy(q)
  BY DEF FlushIs, FlushStays, StillBusy

LEMMA PushGate == ASSUME PipeInv, GateInv, Lasting, NEW m \in Msg, Push(m) PROVE GateInv'
<1>1. StoreTypes
  BY DEF GateInv
<1>2. flush' = flush /\ cancel' = cancel /\ receipt' = receipt
  BY DEF Push, PushDropped, PushKnown, PushOverflow, PushRetained, store
<1>3. CASE UNCHANGED <<over, gate>>
  BY <1>1, <1>2, <1>3, FlushKept, CancelKept, OverKept, GateFrame
<1>4. CASE /\ over' = [over EXCEPT ![m] =
                 [pc |-> IF Recover(m) THEN "recover" ELSE "lookup", recover |-> Recover(m),
                  cancelled |-> FALSE, token |-> token]]
           /\ Enqueue(m, <<"over", 0>>) /\ ~Claimed(m) /\ m \notin IdLess
  <2>1. PICK p \in {"recover", "lookup"}, b \in BOOLEAN : p = (IF Recover(m) THEN "recover" ELSE "lookup") /\ b = Recover(m)
    <3>1. Recover(m) \in BOOLEAN
      BY DEF Recover
    <3> QED BY <3>1
  <2>2. PICK t : t = [pc |-> p, recover |-> b, cancelled |-> FALSE, token |-> token]
    OBVIOUS
  <2>3. token \in Nat
    BY DEF PipeInv, Types
  <2>4. t \in Task /\ t.pc # "none"
    BY <2>1, <2>2, <2>3 DEF Task
  <2>5. over' = [over EXCEPT ![m] = t]
    BY <1>4, <2>1, <2>2
  <2>6. over' \in [Msg -> Task] /\ (\A x \in Msg : OverStays(x)) /\ over'[m].pc # "none"
    BY <1>1, <2>4, <2>5 DEF StoreTypes, OverStays
  <2>7. StoreTypes'
    BY <1>1, <1>2, <1>4, <2>6, GateShapes, Actors DEF StoreTypes, Resolver
  <2>8. ClaimsKept /\ ReceiptsKept
    BY <1>2, <2>6, FlushKept, CancelKept, AllStay, BusyStays
  <2>9. Claims(Resolver, m)'
    BY <2>6 DEF Claims, Resolver
  <2>10. ~Claims(Resolver, m)
    BY <1>4 DEF Claims, Resolver, Claimed, Flusher, Canceller
  <2>11. Enqueue(m, Resolver)
    BY <1>4 DEF Resolver
  <2> QED BY <1>2, <2>7, <2>8, <2>9, <2>10, <2>11, GateJoined, Actors
<1> QED BY <1>3, <1>4 DEF Push, PushDropped, PushKnown, PushOverflow, PushRetained, store

LEMMA OverGate == ASSUME PipeInv, GateInv, NEW m \in Msg, OverStep(m) PROVE GateInv'
<1>1. StoreTypes
  BY DEF GateInv
<1>2. UNCHANGED <<ent, flush, cancel, receipt>>
  BY DEF OverStep, OverRecover, OverLookup, OverRecord, debouncer
<1>3. AtHead(m, Resolver)
  BY DEF OverStep, OverRecover, OverLookup, OverRecord
<1>4. gate[m] # <<>>
  BY <1>3 DEF AtHead
<1>5. CASE Leave(m) /\ over' = [over EXCEPT ![m] = NoTask]
  <2>1. over' \in [Msg -> Task] /\ (\A x \in Msg : x # m => OverStays(x)) /\ gate' \in [Msg -> Seq(Actor)]
    BY <1>1, <1>4, <1>5, GateShapes
  <2>2. StoreTypes'
    BY <1>1, <1>2, <2>1 DEF StoreTypes
  <2>3. ClaimsBut(Resolver, m) /\ ReceiptsKept
    BY <1>2, <2>1, ResolverGoes
  <2> QED BY <1>2, <1>3, <1>5, <2>2, <2>3, GateLeft
<1>6. CASE over' = [over EXCEPT ![m].pc = "record"] /\ gate' = [gate EXCEPT ![m] = Append(Tail(@), Resolver)]
  <2>1. over \in [Msg -> Task] /\ over[m] \in Task
    BY <1>1 DEF StoreTypes
  <2>2. over' \in [Msg -> Task] /\ (\A x \in Msg : OverStays(x)) /\ over'[m].pc # "none"
    BY <1>6, <2>1 DEF Task, OverStays
  <2>3. gate' \in [Msg -> Seq(Actor)]
    BY <1>1, <1>4, <1>6, GateShapes, Actors
  <2>4. StoreTypes'
    BY <1>1, <1>2, <2>2, <2>3 DEF StoreTypes
  <2>5. ClaimsBut(Resolver, m) /\ ReceiptsKept
    BY <1>2, <2>2, ResolverGoes
  <2>6. Claims(Resolver, m)'
    BY <2>2 DEF Claims, Resolver
  <2>7. ClaimsKept
    BY <2>5, <2>6 DEF ClaimsBut, ClaimsKept, Resolver
  <2> QED BY <1>2, <1>3, <1>6, <2>4, <2>5, <2>6, <2>7, GateRequeued, Actors
<1> QED BY <1>5, <1>6 DEF OverStep, OverRecover, OverLookup, OverRecord

\* A flush moves on from its gate.
LEMMA FlusherLeaves ==
    ASSUME PipeInv, GateInv, Lasting, NEW r \in Runtime, NEW m \in Msg, m = ent[Current(r)].m, AtHead(m, Flusher(r)), Leave(m),
           UNCHANGED <<receipt, cancel, over>>, FlushIs(r, flush'[r]), flush'[r].pc \notin {"idle", "await"}
    PROVE  GateInv'
<1>1. StoreTypes
  BY DEF GateInv
<1>2. gate[m] # <<>>
  BY DEF AtHead
<1>3. StoreTypes'
  BY <1>1, <1>2, GateShapes DEF StoreTypes
<1>4. ClaimsBut(Flusher(r), m)
  BY <1>1, OthersStay, CancelKept, OverKept, FlusherGoes
<1>5. \A q \in Runtime : StillBusy(q)
  BY OthersStay DEF StillBusy
<1> QED BY <1>3, <1>4, <1>5, BusyStays, GateLeft

LEMMA PcForms ==
    ASSUME FlushTypes, NEW r \in Runtime
    PROVE  /\ \A p : flush' = [flush EXCEPT ![r].pc = p] => flush'[r].pc = p /\ flush'[r].batch = flush[r].batch /\ flush'[r].i = flush[r].i
           /\ \A p, j : flush' = [flush EXCEPT ![r].pc = p, ![r].i = j] => flush'[r].pc = p
           /\ \A p, o : flush' = [flush EXCEPT ![r].pc = p, ![r].offers = o]
                 => flush'[r].pc = p /\ flush'[r].batch = flush[r].batch /\ flush'[r].i = flush[r].i
<1>1. flush = [q \in Runtime |-> flush[q]] /\ IsFlush(flush[r])
  BY DEF FlushTypes, FlushFields
<1>2. ASSUME NEW p, flush' = [flush EXCEPT ![r].pc = p]
      PROVE  flush'[r].pc = p /\ flush'[r].batch = flush[r].batch /\ flush'[r].i = flush[r].i
  BY <1>1, <1>2 DEF IsFlush
<1>3. ASSUME NEW p, NEW j, flush' = [flush EXCEPT ![r].pc = p, ![r].i = j] PROVE flush'[r].pc = p
  BY <1>1, <1>3 DEF IsFlush
<1>4. ASSUME NEW p, NEW o, flush' = [flush EXCEPT ![r].pc = p, ![r].offers = o]
      PROVE flush'[r].pc = p /\ flush'[r].batch = flush[r].batch /\ flush'[r].i = flush[r].i
  BY <1>1, <1>4 DEF IsFlush
<1> QED BY <1>2, <1>3, <1>4

LEMMA Blocked ==
    ASSUME FlushTypes, NEW r \in Runtime, NEW en, NEW k, Block(r, en, k)
    PROVE  flush'[r].pc = "item"
<1>1. PICK n : n = Len(flush[r].batch) + 1
  OBVIOUS
<1>2. flush' = [flush EXCEPT ![r].pc = "item", ![r].i = n]
  BY <1>1 DEF Block
<1> QED BY <1>2, PcForms

LEMMA Nexted ==
    ASSUME FlushTypes, NEW r \in Runtime, NEW f, IsFlush(f), NextItem(r, f)
    PROVE  FlushIs(r, flush'[r]) /\ flush'[r].pc = "item"
<1>1. FlushIs(r, [f EXCEPT !.pc = "item", !.i = @ + 1])
  BY FlushPut DEF NextItem
<1> QED BY <1>1 DEF FlushIs, IsFlush

LEMMA MsgOf == ASSUME PipeInv PROVE \A x \in DOMAIN ent : ent[x].m \in Msg
<1>1. Types
  BY DEF PipeInv
<1> QED BY <1>1, EntryGen DEF Entry

LEMMA FlushItemGate == ASSUME PipeInv, GateInv, Lasting, NEW r \in Runtime, FlushItem(r) PROVE GateInv'
<1>1. StoreTypes /\ FlushTypes /\ IsFlush(flush[r])
  BY DEF GateInv, PipeInv, FlushTypes, FlushFields
<1>2. UNCHANGED <<receipt, cancel, over>> /\ flush[r].pc = "item" /\ flush[r].i <= Len(flush[r].batch)
  BY DEF FlushItem
<1>3. FlushStepped(r)
  BY FlushItemSteps
<1>4. FlushIs(r, flush'[r])
  BY <1>3 DEF FlushStepped, Keeps
<1>5. CASE /\ flush' = [flush EXCEPT ![r].pc = IF ent[Current(r)].m \in tomb THEN "recover" ELSE "lookup"]
           /\ Enqueue(ent[Current(r)].m, Flusher(r)) /\ ent' = ent
  <2>1. PICK p \in {"recover", "lookup"} : p = (IF ent[Current(r)].m \in tomb THEN "recover" ELSE "lookup")
    OBVIOUS
  <2>12. flush' = [flush EXCEPT ![r].pc = p]
    BY <1>5, <2>1
  <2>3. flush'[r].pc = p /\ flush'[r].batch = flush[r].batch /\ flush'[r].i = flush[r].i
    BY <1>1, <2>12, PcForms
  <2>4. Current(r)' = Current(r)
    BY <2>3 DEF Current
  <2>5. PICK m \in Msg : m = ent[Current(r)].m
    BY <1>1, <1>2, RestFacts, Located, MsgOf
  <2>6. \A q \in Runtime : FlushStays(q) /\ StillBusy(q)
    BY <1>2, <1>4, <2>3, OthersStay DEF FlushStays, StillBusy
  <2>7. ClaimsKept /\ ReceiptsKept
    BY <1>1, <1>2, <2>6, AllStay, BusyStays, CancelKept, OverKept
  <2>8. Waits(r, m)' /\ ~\E x : Waits(r, x)
    BY <1>2, <1>5, <2>1, <2>3, <2>4, <2>5 DEF Waits
  <2>9. Claims(Flusher(r), m)'
    BY <2>8 DEF Claims, Flusher
  <2>10. ~Claims(Flusher(r), m)
    BY <2>8 DEF Claims, Flusher, Canceller, Resolver
  <2>11. StoreTypes'
    BY <1>1, <1>2, <1>5, <2>5, GateShapes, Actors DEF StoreTypes
  <2> QED BY <1>2, <1>5, <2>5, <2>7, <2>9, <2>10, <2>11, GateJoined, Actors
<1>6. CASE gate' = gate /\ flush'[r].pc = "item"
  <2>1. \A q \in Runtime : FlushStays(q) /\ StillBusy(q)
    BY <1>2, <1>4, <1>6, OthersStay DEF FlushStays, StillBusy
  <2> QED BY <1>1, <1>2, <1>6, <2>1, CancelKept, OverKept, GateFrame
<1>7. ASSUME gate' = gate, \E f : IsFlush(f) /\ NextItem(r, f) PROVE GateInv'
  BY <1>1, <1>6, <1>7, Nexted
<1>8. IsFlush([flush[r] EXCEPT !.offers = Offer(@, Current(r), "committed")])
  BY <1>1 DEF IsFlush
<1>9. CASE gate' = gate /\ Block(r, ent, flush[r].i)
  BY <1>1, <1>6, <1>9, Blocked
<1> QED BY <1>1, <1>5, <1>7, <1>8, <1>9 DEF FlushItem

LEMMA AtGate ==
    ASSUME PipeInv, NEW r \in Runtime, flush[r].pc \in {"recover", "lookup", "record"}
    PROVE  FlushTypes /\ IsFlush(flush[r]) /\ \E m \in Msg : m = ent[Current(r)].m
<1>1. ent[Current(r)].m \in Msg
  BY CurrentEntry, MsgOf
<1> QED BY <1>1 DEF PipeInv, FlushTypes, FlushFields

LEMMA FlushRecoverGate == ASSUME PipeInv, GateInv, Lasting, NEW r \in Runtime, FlushRecover(r) PROVE GateInv'
<1>1. flush[r].pc = "recover" /\ AtHead(ent[Current(r)].m, Flusher(r)) /\ Leave(ent[Current(r)].m) /\ UNCHANGED <<receipt, cancel, over>>
  BY DEF FlushRecover
<1>2. FlushTypes /\ IsFlush(flush[r]) /\ \E m \in Msg : m = ent[Current(r)].m
  BY <1>1, AtGate
<1>3. Block(r, ent, flush[r].i) \/ NextItem(r, flush[r])
  BY DEF FlushRecover
<1>5. FlushIs(r, flush'[r])
  BY FlushRecoverSteps DEF FlushStepped, Keeps
<1>4. flush'[r].pc = "item"
  BY <1>2, <1>3, Blocked, Nexted
<1> QED BY <1>1, <1>2, <1>4, <1>5, FlusherLeaves

LEMMA FlushLookupGate == ASSUME PipeInv, GateInv, Lasting, NEW r \in Runtime, FlushLookup(r) PROVE GateInv'
<1>1. flush[r].pc = "lookup" /\ AtHead(ent[Current(r)].m, Flusher(r)) /\ UNCHANGED <<receipt, cancel, over>>
  BY DEF FlushLookup
<1>2. FlushTypes /\ IsFlush(flush[r]) /\ \E m \in Msg : m = ent[Current(r)].m
  BY <1>1, AtGate
<1>6. FlushIs(r, flush'[r])
  BY FlushLookupSteps DEF FlushStepped, Keeps
<1>3. CASE Leave(ent[Current(r)].m) /\ Block(r, ent, flush[r].i)
  <2>1. FlushIs(r, flush'[r]) /\ flush'[r].pc = "item"
    BY <1>2, <1>3, <1>6, Blocked
  <2> QED BY <1>1, <1>2, <1>3, <2>1, FlusherLeaves
<1>4. CASE /\ Leave(ent[Current(r)].m)
           /\ NextItem(r, IF LookupOutcome(ent[Current(r)].m) = "accepted"
                          THEN [flush[r] EXCEPT !.acks = @ \union {ent[Current(r)].m}]
                          ELSE [flush[r] EXCEPT !.rejs = @ \union {ent[Current(r)].m}])
  <2>1. PICK f : f = IF LookupOutcome(ent[Current(r)].m) = "accepted"
                     THEN [flush[r] EXCEPT !.acks = @ \union {ent[Current(r)].m}]
                     ELSE [flush[r] EXCEPT !.rejs = @ \union {ent[Current(r)].m}]
    OBVIOUS
  <2>2. IsFlush(f)
    <3>1. CASE LookupOutcome(ent[Current(r)].m) = "accepted"
      BY <1>2, <2>1, <3>1 DEF IsFlush
    <3>2. CASE LookupOutcome(ent[Current(r)].m) # "accepted"
      BY <1>2, <2>1, <3>2 DEF IsFlush
    <3> QED BY <3>1, <3>2
  <2>3. FlushIs(r, flush'[r]) /\ flush'[r].pc = "item"
    BY <1>2, <1>4, <2>1, <2>2, Nexted
  <2> QED BY <1>1, <1>2, <1>4, <2>3, FlusherLeaves
<1>5. CASE /\ flush' = [flush EXCEPT ![r].pc = "record", ![r].offers = Offer(@, Current(r), "provisional")]
           /\ gate' = [gate EXCEPT ![ent[Current(r)].m] = Append(Tail(@), Flusher(r))]
  <2>1. PICK m \in Msg : m = ent[Current(r)].m
    BY <1>2
  <2>2. StoreTypes /\ gate[m] # <<>> /\ Flusher(r) \in Actor
    BY <1>1, <2>1, Actors DEF GateInv, AtHead
  <2>10. PICK o : o = Offer(flush[r].offers, Current(r), "provisional")
    OBVIOUS
  <2>11. flush' = [flush EXCEPT ![r].pc = "record", ![r].offers = o]
    <3>1. flush = [q \in Runtime |-> flush[q]]
      BY <1>2 DEF FlushTypes
    <3> QED BY <1>2, <1>5, <2>10, <3>1 DEF IsFlush
  <2>4. flush'[r].pc = "record" /\ flush'[r].batch = flush[r].batch /\ flush'[r].i = flush[r].i /\ FlushIs(r, flush'[r])
    BY <1>2, <1>6, <2>11, PcForms
  <2>5. \A q \in Runtime : FlushStays(q) /\ StillBusy(q)
    BY <2>4, OthersStay DEF FlushStays, StillBusy
  <2>6. ClaimsKept /\ ReceiptsKept
    BY <1>1, <2>2, <2>5, AllStay, BusyStays, CancelKept, OverKept
  <2>7. StoreTypes'
    BY <1>1, <1>5, <2>1, <2>2, GateShapes DEF StoreTypes
  <2>8. Claims(Flusher(r), m)
    BY <1>1, <2>1 DEF Claims, Waits
  <2>9. Claims(Flusher(r), m)'
    BY <2>6, <2>8 DEF ClaimsKept, Flusher
  <2> QED BY <1>1, <1>5, <2>1, <2>2, <2>6, <2>7, <2>9, GateRequeued
<1> QED BY <1>3, <1>4, <1>5 DEF FlushLookup

LEMMA FlushRecordGate == ASSUME PipeInv, GateInv, Lasting, NEW r \in Runtime, FlushRecord(r) PROVE GateInv'
<1>1. flush[r].pc = "record" /\ AtHead(ent[Current(r)].m, Flusher(r)) /\ UNCHANGED <<cancel, over>>
  BY DEF FlushRecord
<1>2. FlushTypes /\ IsFlush(flush[r]) /\ \E m \in Msg : m = ent[Current(r)].m
  BY <1>1, AtGate
<1>6. FlushIs(r, flush'[r])
  BY FlushRecordSteps DEF FlushStepped, Keeps
<1>3. CASE Leave(ent[Current(r)].m) /\ receipt' = receipt /\ \E k : Block(r, ent, k)
  <2>1. FlushIs(r, flush'[r]) /\ flush'[r].pc = "item"
    BY <1>2, <1>3, <1>6, Blocked
  <2> QED BY <1>1, <1>2, <1>3, <2>1, FlusherLeaves
<1>4. CASE /\ Leave(ent[Current(r)].m) /\ receipt' = receipt
           /\ flush' = [flush EXCEPT ![r].pc = "item", ![r].i = Len(flush[r].batch) + 1, ![r].offers[Current(r)] = "back"]
  <2>1. flush = [q \in Runtime |-> flush[q]]
    BY <1>2 DEF FlushTypes
  <2>2. FlushIs(r, flush'[r]) /\ flush'[r].pc = "item"
    BY <1>2, <1>4, <1>6, <2>1 DEF IsFlush
  <2> QED BY <1>1, <1>2, <1>4, <2>2, FlusherLeaves
<1>5. CASE /\ receipt' = [receipt EXCEPT ![ent[Current(r)].m] = IF "accepted" \in marker[ent[Current(r)].m] THEN "stale" ELSE "fresh"]
           /\ NextItem(r, [flush[r] EXCEPT !.offers[Current(r)] = "recorded", !.acks = @ \union {ent[Current(r)].m}])
           /\ gate' = gate
  <2>1. PICK m \in Msg : m = ent[Current(r)].m
    BY <1>2
  <2>2. StoreTypes
    BY DEF GateInv
  <2>3. PICK e : e = Current(r)
    OBVIOUS
  <2>11. PICK f : f = [flush[r] EXCEPT !.offers[e] = "recorded", !.acks = @ \union {ent[e].m}]
    OBVIOUS
  <2>12. IsFlush(f)
    BY <1>2, <2>11 DEF IsFlush
  <2>13. NextItem(r, f)
    BY <1>5, <2>3, <2>11
  <2>4. FlushIs(r, flush'[r]) /\ flush'[r].pc = "item"
    BY <1>2, <2>12, <2>13, Nexted
  <2>5. PICK w \in {"stale", "fresh"} : receipt' = [receipt EXCEPT ![m] = w]
    BY <1>5, <2>1
  <2>6. receipt'[m] # "none" /\ (\A x \in Msg : x # m => receipt'[x] = receipt[x]) /\ receipt' \in [Msg -> {"none", "fresh", "stale"}]
    BY <2>2, <2>5 DEF StoreTypes
  <2>7. StoreTypes'
    BY <1>1, <1>5, <2>2, <2>6 DEF StoreTypes
  <2>8. ClaimsBut(Flusher(r), m)
    BY <1>1, <2>1, <2>2, <2>4, OthersStay, CancelKept, OverKept, FlusherGoes
  <2>9. \A q \in Runtime : StillBusy(q)
    BY <2>4, OthersStay DEF StillBusy
  <2>10. KeepsReceipt(Flusher(r))'
    BY <2>4 DEF KeepsReceipt, Flusher
  <2> QED BY <1>1, <1>5, <2>1, <2>6, <2>7, <2>8, <2>9, <2>10, BusyStays, GateMarked
<1> QED BY <1>3, <1>4, <1>5 DEF FlushRecord

\* The footer gives the gates back.
LEMMA FooterGate ==
    ASSUME PipeInv, GateInv, Lasting, NEW r \in Runtime, flush[r].pc = "item", FlushIs(r, flush'[r]), flush'[r].pc \in {"idle", "await"},
           gate' = [m \in Msg |-> IF m \in HeldBy(Flusher(r)) THEN Tail(gate[m]) ELSE gate[m]],
           receipt' = [m \in Msg |-> IF m \in HeldBy(Flusher(r)) THEN "none" ELSE receipt[m]],
           UNCHANGED <<cancel, over>>
    PROVE  GateInv'
<1>1. StoreTypes /\ ReceiptHeldInv
  BY DEF GateInv
<1>2. PICK ms : ms = HeldBy(Flusher(r))
  OBVIOUS
<1>3. \A m \in ms : m \in Msg /\ gate[m] # <<>> /\ gate[m] \in Seq(Actor)
  BY <1>1, <1>2 DEF HeldBy, ReceiptHeldInv, StoreTypes
<1>4. \A m \in ms : Tail(gate[m]) \in Seq(Actor)
  BY <1>3, HeadTail
<1>5. gate' \in [Msg -> Seq(Actor)]
  BY <1>1, <1>2, <1>4 DEF StoreTypes
<1>6. receipt' \in [Msg -> {"none", "fresh", "stale"}]
  BY <1>1, <1>2 DEF StoreTypes
<1>7. StoreTypes'
  BY <1>1, <1>5, <1>6 DEF StoreTypes
<1>8. \A q \in Runtime : FlushStays(q) /\ (q # r => StillBusy(q))
  BY OthersStay DEF FlushStays
<1>9. ClaimsKept
  BY <1>1, <1>8, AllStay, CancelKept, OverKept
<1>10. \A x \in Msg : ~Claims(Flusher(r), x)
  BY DEF Claims, Waits, Flusher, Canceller, Resolver
<1>11. \A b : KeepsReceipt(b) /\ b # Flusher(r) => KeepsReceipt(b)'
  BY <1>8 DEF KeepsReceipt, StillBusy, Flusher
<1> QED BY <1>2, <1>7, <1>9, <1>10, <1>11, GateSettled

LEMMA FlushFooterGate ==
    ASSUME PipeInv, GateInv, Lasting, NEW r \in Runtime, FlushCommit(r) \/ FlushInvalidated(r) \/ FlushAbandon(r)
    PROVE  GateInv'
<1>1. CASE FlushCommit(r)
  <2>1. FlushIs(r, NoFlush)
    BY <1>1, FlushCommitPipe DEF Closed
  <2>2. FlushIs(r, flush'[r]) /\ flush'[r].pc = "idle"
    BY <2>1, NoFlushFields DEF FlushIs
  <2> QED BY <1>1, <2>2, FooterGate DEF FlushCommit, CommitWrites
<1>2. CASE FlushInvalidated(r)
  <2>1. FlushTypes /\ IsFlush(flush[r])
    BY DEF PipeInv, FlushTypes, FlushFields
  <2>4. flush' = [flush EXCEPT ![r].pc = "await"]
    BY <1>2 DEF FlushInvalidated
  <2>2. FlushIs(r, flush'[r])
    BY <1>2, FlushInvalidatedSteps DEF FlushStepped, Keeps
  <2>3. FlushIs(r, flush'[r]) /\ flush'[r].pc = "await"
    BY <2>1, <2>2, <2>4, PcForms
  <2> QED BY <1>2, <2>3, FooterGate DEF FlushInvalidated, RollbackWrites
<1>3. CASE FlushAbandon(r)
  <2>1. FlushIs(r, NoFlush)
    BY <1>3, FlushAbandonPipe DEF Closed
  <2>2. flush[r].pc = "await" /\ UNCHANGED <<gate, receipt, cancel, over>>
    BY <1>3 DEF FlushAbandon, store
  <2>3. \A q \in Runtime : FlushStays(q) /\ StillBusy(q)
    BY <2>1, <2>2 DEF FlushIs, FlushStays, StillBusy
  <2>4. StoreTypes
    BY DEF GateInv
  <2> QED BY <2>2, <2>3, <2>4, CancelKept, OverKept, GateFrame
<1> QED BY <1>1, <1>2, <1>3

LEMMA BackStays ==
    ASSUME PipeInv, flush' = [flush EXCEPT ![rt] = AllBack(@)] \/ flush' = [flush EXCEPT ![rt] = [AllBack(@) EXCEPT !.intact = ~LeaseOpen]]
    PROVE  \A r \in Runtime : FlushStays(r) /\ StillBusy(r)
<1>1. FlushTypes /\ rt \in Runtime /\ FlushFields(flush[rt]) /\ (flush[rt].pc = "idle" => flush[rt] = NoFlush)
  BY Located DEF PipeInv, FlushTypes
<1>2. PICK g : HandsBack(flush[rt], g) /\ flush' = [flush EXCEPT ![rt] = g]
  <2>1. CASE flush' = [flush EXCEPT ![rt] = AllBack(@)]
    BY <1>1, <2>1, AllBackFacts
  <2>2. CASE flush' = [flush EXCEPT ![rt] = [AllBack(@) EXCEPT !.intact = ~LeaseOpen]]
    <3>1. PICK t \in BOOLEAN : t = ~LeaseOpen
      BY DEF LeaseOpen
    <3>2. PICK g : g = [AllBack(flush[rt]) EXCEPT !.intact = t]
      OBVIOUS
    <3>3. HandsBack(flush[rt], g)
      BY <1>1, <3>1, <3>2, TornFacts DEF LeaseOpen
    <3>4. flush' = [flush EXCEPT ![rt] = g]
      BY <2>2, <3>1, <3>2
    <3> QED BY <3>3, <3>4
  <2> QED BY <2>1, <2>2
<1>3. flush'[rt] = g /\ \A q \in Runtime : q # rt => flush'[q] = flush[q]
  BY <1>1, <1>2 DEF FlushTypes
<1> QED BY <1>2, <1>3 DEF HandsBack, FlushStays, StillBusy

LEMMA StopGate == ASSUME PipeInv, GateInv, Lasting, Stop \/ StopThrows PROVE GateInv'
<1>1. StoreTypes /\ CancelTypes
  BY DEF GateInv, PipeInv
<1>2. UNCHANGED <<gate, receipt, over>>
  BY DEF Stop, StopThrows, StopArrives, store
<1>3. \A r \in Runtime : FlushStays(r) /\ StillBusy(r)
  <2>1. flush' = flush \/ flush' = [flush EXCEPT ![rt] = AllBack(@)]
    BY DEF Stop, StopThrows
  <2> QED BY <2>1, BackStays, FlushKept
<1>4. \A c \in StopNo : CancelStays(c)
  <2>1. CASE cancel' = cancel
    BY <2>1, CancelKept
  <2>2. CASE \E b : cancel' = [cancel EXCEPT ![stops'] = b]
    <3>1. PICK b : cancel' = [cancel EXCEPT ![stops'] = b]
      BY <2>2
    <3>2. stops' = stops + 1 /\ stops \in Nat
      BY DEF Stop, StopThrows, StopArrives, PipeInv, Types
    <3>3. \A c \in StopNo : c = stops + 1 => cancel[c].pc = "done"
      BY <1>1, <3>2 DEF CancelTypes, StopNo
    <3>4. \A c \in StopNo : c # stops' => cancel'[c] = cancel[c]
      BY <1>1, <3>1 DEF CancelTypes
    <3> QED BY <3>2, <3>3, <3>4 DEF CancelStays
  <2> QED BY <2>1, <2>2 DEF Stop, StopThrows
<1> QED BY <1>1, <1>2, <1>3, <1>4, OverKept, GateFrame

LEMMA CancelPut ==
    ASSUME CancelTypes, NEW c \in StopNo
    PROVE  /\ cancel[c].pc # "record" /\ (\A d \in StopNo : d # c => cancel'[d] = cancel[d]) => \A d \in StopNo : CancelStays(d)
           /\ \A p : cancel' = [cancel EXCEPT ![c].pc = p] =>
                 cancel'[c].pc = p /\ cancel'[c].ents = cancel[c].ents /\ cancel'[c].i = cancel[c].i /\ \A d \in StopNo : d # c => cancel'[d] = cancel[d]
           /\ \A b : cancel' = [cancel EXCEPT ![c] = b] => \A d \in StopNo : d # c => cancel'[d] = cancel[d]
           /\ cancel' = [cancel EXCEPT ![c].i = @ + 1] => \A d \in StopNo : d # c => cancel'[d] = cancel[d]
           /\ cancel' = [cancel EXCEPT ![c].pc = "item", ![c].i = @ + 1] => \A d \in StopNo : d # c => cancel'[d] = cancel[d]
<1>1. cancel \in [StopNo -> Batchwise] /\ cancel[c] \in Batchwise
  BY DEF CancelTypes
<1>2. cancel[c].pc # "record" /\ (\A d \in StopNo : d # c => cancel'[d] = cancel[d]) => \A d \in StopNo : CancelStays(d)
  BY DEF CancelStays
<1>3. ASSUME NEW p, cancel' = [cancel EXCEPT ![c].pc = p]
      PROVE  cancel'[c].pc = p /\ cancel'[c].ents = cancel[c].ents /\ cancel'[c].i = cancel[c].i /\ \A d \in StopNo : d # c => cancel'[d] = cancel[d]
  BY <1>1, <1>3 DEF Batchwise
<1> QED BY <1>1, <1>2, <1>3

LEMMA RecordsAtHead ==
    ASSUME NEW c \in StopNo, CancelRecord(c), NEW m, m = ent[cancel[c].ents[cancel[c].i]].m
    PROVE  AtHead(m, Canceller(c)) /\ Leave(m)
<1>1. AtHead(ent[cancel[c].ents[cancel[c].i]].m, Canceller(c))
  BY Zenon DEF CancelRecord
<1>2. gate' = [gate EXCEPT ![ent[cancel[c].ents[cancel[c].i]].m] = Tail(@)]
  BY Zenon DEF CancelRecord, Leave
<1> QED BY <1>1, <1>2 DEF Leave

LEMMA CancelGate == ASSUME PipeInv, GateInv, Lasting, NEW c \in StopNo, CancelStep(c) PROVE GateInv'
<1>1. StoreTypes /\ CancelTypes
  BY DEF GateInv, PipeInv
<1>2. UNCHANGED <<flush, over, receipt>>
  BY DEF CancelStep, CancelStart, CancelItem, CancelRecord, CancelFinish, store
<1>3. (\A r \in Runtime : FlushStays(r) /\ StillBusy(r)) /\ (\A x \in Msg : OverStays(x)) /\ over' \in [Msg -> Task]
  BY <1>1, <1>2, FlushKept, OverKept
<1>4. CASE gate' = gate /\ cancel[c].pc # "record" /\ \A d \in StopNo : d # c => cancel'[d] = cancel[d]
  <2>1. \A d \in StopNo : CancelStays(d)
    BY <1>1, <1>4, CancelPut
  <2> QED BY <1>2, <1>3, <1>4, <2>1, GateFrame
<1>5. CASE CancelStart(c)
  <2>1. \E p : cancel' = [cancel EXCEPT ![c].pc = p]
    BY <1>5 DEF CancelStart
  <2> QED BY <1>1, <1>4, <1>5, <2>1, CancelPut DEF CancelStart, store
<1>6. CASE CancelFinish(c)
  <2>1. cancel' = [cancel EXCEPT ![c].pc = "done"]
    BY <1>6 DEF CancelFinish
  <2> QED BY <1>1, <1>4, <1>6, <2>1, CancelPut DEF CancelFinish, store
<1>7. CASE CancelItem(c)
  <2>1. CASE cancel' = [cancel EXCEPT ![c].i = @ + 1] /\ UNCHANGED gate
    BY <1>1, <1>4, <1>7, <2>1, CancelPut DEF CancelItem
  <2>2. CASE cancel' = [cancel EXCEPT ![c].pc = "record"] /\ Enqueue(ent[cancel[c].ents[cancel[c].i]].m, Canceller(c))
    <3>1. cancel[c].pc = "item" /\ ent' = ent
      BY <1>7 DEF CancelItem, debouncer
    <3>2. /\ cancel'[c].pc = "record" /\ cancel'[c].ents = cancel[c].ents /\ cancel'[c].i = cancel[c].i
          /\ \A d \in StopNo : d # c => cancel'[d] = cancel[d]
      BY <1>1, <2>2, CancelPut
    <3>3. \A d \in StopNo : CancelStays(d)
      BY <1>1, <3>1, <3>2, CancelPut
    <3>4. ClaimsKept /\ ReceiptsKept
      BY <1>3, <3>3, AllStay, BusyStays
    <3>5. PICK m \in Msg : m = ent[cancel[c].ents[cancel[c].i]].m
      <4>1. cancel[c].ents[cancel[c].i] \in DOMAIN ent
        <5>1. cancel[c] \in Batchwise /\ cancel[c].i <= Len(cancel[c].ents) /\ ToSet(cancel[c].ents) \subseteq DOMAIN ent
          BY <1>1, <1>7 DEF CancelItem, CancelTypes
        <5>2. cancel[c].ents \in Seq(Nat) /\ cancel[c].i \in Nat \ {0}
          BY <5>1 DEF Batchwise
        <5>3. cancel[c].i \in DOMAIN cancel[c].ents
          BY <5>1, <5>2
        <5> QED BY <5>1, <5>2, <5>3 DEF ToSet
      <4> QED BY <4>1, MsgOf
    <3>6. CancelWaits(c, m)'
      BY <3>1, <3>2, <3>5 DEF CancelWaits
    <3>7. Claims(Canceller(c), m)'
      BY <3>6 DEF Claims, Canceller
    <3>8. ~Claims(Canceller(c), m)
      BY <3>1 DEF Claims, CancelWaits, Canceller, Flusher, Resolver
    <3>9. Enqueue(m, Canceller(c))
      BY <2>2, <3>5
    <3>10. StoreTypes'
      BY <1>1, <1>2, <1>3, <3>9, GateShapes, Actors DEF StoreTypes
    <3> QED BY <1>2, <3>4, <3>7, <3>8, <3>9, <3>10, GateJoined, Actors
  <2> QED BY <1>7, <2>1, <2>2 DEF CancelItem
<1>8. CASE CancelRecord(c)
  <2>1. cancel[c].pc = "record" /\ cancel' = [cancel EXCEPT ![c].pc = "item", ![c].i = @ + 1]
    BY <1>8 DEF CancelRecord
  <2>2. \A d \in StopNo : d # c => CancelStays(d)
    BY <1>1, <2>1, CancelPut DEF CancelStays
  <2>3. PICK m \in Msg : m = ent[cancel[c].ents[cancel[c].i]].m
    BY <2>1, CurrentEntry, MsgOf
  <2>7. AtHead(m, Canceller(c)) /\ Leave(m)
    BY <1>8, <2>3, RecordsAtHead
  <2>4. AtHead(m, Canceller(c)) /\ Leave(m) /\ gate[m] # <<>>
    BY <2>7 DEF AtHead
  <2>5. ClaimsBut(Canceller(c), m)
    BY <1>3, <2>2, <2>3, CancellerGoes
  <2>6. StoreTypes'
    BY <1>1, <1>2, <1>3, <2>4, GateShapes DEF StoreTypes
  <2> QED BY <1>2, <1>3, <2>4, <2>5, <2>6, BusyStays, GateLeft
<1> QED BY <1>5, <1>6, <1>7, <1>8 DEF CancelStep

LEMMA TearGate == ASSUME PipeInv, GateInv, Lasting, Retire \/ Dispose PROVE GateInv'
<1>1. StoreTypes /\ CancelTypes
  BY DEF GateInv, PipeInv
<1>2. UNCHANGED <<gate, receipt>>
  BY DEF Retire, Dispose, store
<1>3. \A r \in Runtime : FlushStays(r) /\ StillBusy(r)
  <2>1. flush' = [flush EXCEPT ![rt] = AllBack(@)] \/ flush' = [flush EXCEPT ![rt] = [AllBack(@) EXCEPT !.intact = ~LeaseOpen]]
    BY DEF Retire, Dispose, DisposeDispatcher
  <2> QED BY <2>1, BackStays
<1>4. \A c \in StopNo : CancelStays(c)
  <2>1. CASE cancel' = cancel
    BY <2>1, CancelKept
  <2>2. CASE cancel' = Revoked(cancel)
    <3>1. \A c \in StopNo : cancel[c].pc # "scheduled" => cancel'[c] = cancel[c]
      BY <1>1, <2>2, RevokedFacts
    <3> QED BY <3>1 DEF CancelStays
  <2> QED BY <2>1, <2>2 DEF Retire, Dispose, DisposeDebouncer
<1>5. over' = [x \in Msg |-> over'[x]] /\ \A x \in Msg : over'[x] = over[x] \/ over'[x] = [over[x] EXCEPT !.cancelled = TRUE]
  <2>1. PICK P, Q : P = over /\ Q = over'
    OBVIOUS
  <2>2. CASE Retire
    BY <2>2 DEF Retire
  <2>3. CASE Dispose
    BY <2>3 DEF Dispose, InvalidateAccount
  <2> QED BY <2>2, <2>3
<1> QED BY <1>1, <1>2, <1>3, <1>4, <1>5, OverCancelled, GateFrame

LEMMA RunFlushGate == ASSUME PipeInv, GateInv, Lasting, RunFlush PROVE GateInv'
<1>1. StoreTypes /\ FlushTypes /\ rt \in Runtime
  BY Located DEF GateInv, PipeInv
<1>2. UNCHANGED <<gate, receipt, over, cancel>> /\ flush[rt].pc = "idle"
  BY DEF RunFlush, store
<1>3. \A r \in Runtime : FlushStays(r) /\ StillBusy(r)
  <2>1. CASE flush' = flush
    BY <2>1, FlushKept
  <2>2. CASE flush' = [flush EXCEPT ![rt] = [NoFlush EXCEPT !.pc = "item", !.batch = Head(queued).ents]]
    <3>1. flush'[rt] = [NoFlush EXCEPT !.pc = "item", !.batch = Head(queued).ents] /\ \A q \in Runtime : q # rt => flush'[q] = flush[q]
      BY <1>1, <2>2 DEF FlushTypes
    <3>2. flush'[rt].pc = "item"
      BY <3>1 DEF NoFlush
    <3> QED BY <1>2, <3>1, <3>2 DEF FlushStays, StillBusy
  <2> QED BY <2>1, <2>2 DEF RunFlush
<1> QED BY <1>1, <1>2, <1>3, CancelKept, OverKept, GateFrame

LEMMA QuietGate ==
    ASSUME PipeInv, GateInv, Lasting, DetachAndQueue \/ StartHandler \/ HandlerSettled \/ StartRuntime
    PROVE  GateInv'
<1>1. StoreTypes
  BY DEF GateInv
<1>2. UNCHANGED <<gate, receipt, over, cancel, flush>>
  BY DEF DetachAndQueue, StartHandler, HandlerSettled, StartRuntime, store
<1> QED BY <1>1, <1>2, FlushKept, CancelKept, OverKept, GateFrame

LEMMA InitGate == ASSUME Init PROVE GateInv
<1>1. NoTask \in Task
  BY DEF NoTask, Task
<1>6. <<>> \in Seq(Actor)
  OBVIOUS
<1>2. PICK s \in Seq(Actor) : s = <<>>
  BY <1>6
<1>3. \A m \in Msg : gate[m] = s /\ receipt[m] = "none"
  BY <1>2 DEF Init
<1>4. StoreTypes
  BY <1>1, <1>2 DEF Init, StoreTypes
<1>5. DOMAIN s = {}
  BY <1>2
<1> QED BY <1>3, <1>4, <1>5 DEF GateInv, MemberInv, OnceInv, ReceiptHeldInv

LEMMA GateStep == PipeInv /\ GateInv /\ [Next]_vars => GateInv'
<1> SUFFICES ASSUME PipeInv, GateInv, [Next]_vars PROVE GateInv'
  OBVIOUS
<1>1. CASE Next
  <2>1. Lasting
    BY <1>1, LastingStep
  <2>2. CASE \E m \in Msg : Push(m) \/ OverStep(m)
    BY <2>1, <2>2, PushGate, OverGate
  <2>3. CASE DetachAndQueue \/ StartHandler \/ HandlerSettled \/ StartRuntime
    BY <2>1, <2>3, QuietGate
  <2>4. CASE RunFlush
    BY <2>1, <2>4, RunFlushGate
  <2>5. CASE \E r \in Runtime : FlushStep(r)
    BY <2>1, <2>5, FlushItemGate, FlushRecoverGate, FlushLookupGate, FlushRecordGate, FlushFooterGate DEF FlushStep
  <2>6. CASE Stop \/ StopThrows
    BY <2>1, <2>6, StopGate
  <2>7. CASE \E c \in StopNo : CancelStep(c)
    BY <2>1, <2>7, CancelGate
  <2>8. CASE Retire \/ Dispose
    BY <2>1, <2>8, TearGate
  <2> QED BY <1>1, <2>2, <2>3, <2>4, <2>5, <2>6, <2>7, <2>8 DEF Next
<1>2. CASE UNCHANGED vars
  <2>1. UNCHANGED <<ent, gate, receipt, over, cancel, flush>>
    BY <1>2 DEF vars, debouncer, store
  <2>2. StoreTypes /\ Lasting
    BY <2>1 DEF GateInv, Lasting
  <2> QED BY <2>1, <2>2, FlushKept, CancelKept, OverKept, GateFrame
<1> QED BY <1>1, <1>2

(***************************************************************************)
(* Nothing is left behind, step by step.                                   *)
(***************************************************************************)
FlushingKept == \A e : Flushing(e) => Flushing(e)'
CancellingKept == \A e : Cancelling(e) => Cancelling(e)'
QueueingKept == \A e : Queueing(e) => Queueing(e)'

LEMMA StillFlushing ==
    ASSUME \A q \in Runtime : (flush'[q].pc = "idle" <=> flush[q].pc = "idle") /\ Batch(q)' = Batch(q)
    PROVE  FlushingKept
  BY DEF FlushingKept, Flushing

LEMMA StillCancelling ==
    ASSUME \A c \in StopNo : \A e : cancel[c].pc # "done" /\ e \in Marked(c) => cancel'[c].pc # "done" /\ e \in Marked(c)'
    PROVE  CancellingKept
  BY DEF CancellingKept, Cancelling

LEMMA StillQueueing == ASSUME queued' = queued PROVE QueueingKept
  BY QueueViews DEF QueueingKept, Queueing

LEMMA SameFlushing == ASSUME flush' = flush PROVE FlushingKept
  BY FlushViews, StillFlushing
LEMMA SameCancelling == ASSUME cancel' = cancel PROVE CancellingKept
  BY CancelViews, StillCancelling

\* Only a frame of the flush of the current runtime can be active.
LEMMA ProvBy ==
    ASSUME PipeInv', NEW q \in Runtime, q = rt',
           flush'[q].pc # "idle" => \A e \in Batch(q)' : Provisional(q, e)' => (flush'[q].pc = "record" /\ e = Current(q)') \/ ~IsActive(e)'
    PROVE  ProvInv'
<1> SUFFICES ASSUME NEW r \in Runtime, flush'[r].pc # "idle", NEW e \in Batch(r)', Provisional(r, e)'
             PROVE  (flush'[r].pc = "record" /\ e = Current(r)') \/ ~IsActive(e)'
  BY DEF ProvInv
<1>1. CASE r = q
  BY <1>1
<1>2. CASE r # q
  <2>1. FlushAt(r)'
    BY DEF PipeInv, FlushInv
  <2>2. ent'[e].rt = r
    BY <2>1 DEF FlushAt
  <2> QED BY <1>2, <2>2 DEF IsActive
<1> QED BY <1>1, <1>2

\* The flushes are as they were, and nothing becomes active.
LEMMA ProvKept ==
    ASSUME PipeInv, PipeInv', ProvInv, flush' = flush, rt' = rt, \A e \in DOMAIN ent : IsActive(e)' => IsActive(e)
    PROVE  ProvInv'
<1>1. PICK q \in Runtime : q = rt
  BY Located
<1>2. Batch(q)' = Batch(q) /\ Current(q)' = Current(q) /\ Batch(q) \subseteq DOMAIN ent
  BY FlushViews, Located
<1>3. \A e : Provisional(q, e)' <=> Provisional(q, e)
  BY DEF Provisional
<1>4. flush'[q].pc # "idle" => \A e \in Batch(q)' : Provisional(q, e)' => (flush'[q].pc = "record" /\ e = Current(q)') \/ ~IsActive(e)'
  BY <1>1, <1>2, <1>3 DEF ProvInv
<1> QED BY <1>1, <1>4, ProvBy

LEMMA NoneProvisional ==
    ASSUME PipeInv', NEW q \in Runtime, q = rt', \A e : ~Provisional(q, e)'
    PROVE  ProvInv'
  BY ProvBy

\* Steps that leave the debouncer, the flushes and the buffer as they are.
LEMMA LeakFrame ==
    ASSUME PipeInv, PipeInv', LeakInv, UNCHANGED <<ent, waiting, queued, gen, inflight, flush, pending, rt, live, broken>>, CancellingKept
    PROVE  LeakInv'
<1>1. HoldInv /\ MarkInv /\ KeepInv /\ GenInv /\ ProvInv
  BY DEF LeakInv
<1>2. FlushingKept /\ QueueingKept
  BY SameFlushing, StillQueueing
<1>3. Window' = Window /\ Buffer' = Buffer
  BY DEF Window, Buffer
<1>4. HoldInv'
  BY <1>1, <1>2 DEF HoldInv, FlushingKept
<1>5. MarkInv'
  BY <1>1 DEF MarkInv, CancellingKept, StopCompletes
<1>6. KeepInv'
  BY <1>1, <1>2, <1>3 DEF KeepInv, Held, FlushingKept, CancellingKept, QueueingKept, StopCompletes
<1>7. GenInv'
  BY <1>1 DEF GenInv
<1>8. ProvInv'
  BY <1>1, ProvKept DEF IsActive
<1> QED BY <1>4, <1>5, <1>6, <1>7, <1>8 DEF LeakInv

LEMMA PushLeak == ASSUME PipeInv, PipeInv', LeakInv, NEW m \in Msg, Push(m) PROVE LeakInv'
<1>1. CASE ~PushRetained(m)
  <2>1. UNCHANGED <<ent, waiting, queued, gen, inflight, flush, pending, rt, live, broken, cancel>>
    BY <1>1 DEF Push, PushDropped, PushKnown, PushOverflow, Arrive, debouncer, dispatcher, runtime, history
  <2> QED BY <2>1, SameCancelling, LeakFrame
<1>2. CASE PushRetained(m)
  <2>1. HoldInv /\ MarkInv /\ KeepInv /\ GenInv /\ ProvInv
    BY DEF LeakInv
  <2>2. /\ UNCHANGED <<queued, gen, inflight, flush, cancel, pending, rt, live, broken>>
        /\ ent' = Append(ent, NewEntry(m)) /\ waiting' = Append(waiting, Len(ent) + 1) /\ live
    BY <1>2 DEF PushRetained, Arrive, dispatcher, runtime, history
  <2>3. ent \in Seq(Entry) /\ waiting \in Seq(Nat) /\ Len(ent) \in Nat
    BY DEF PipeInv, Types
  <2>4. PICK n \in Nat : n = Len(ent) + 1
    BY <2>3
  <2>5. PICK y : y = NewEntry(m)
    OBVIOUS
  <2>6. y.holds = {} /\ ~y.cpend
    BY <2>5 DEF NewEntry
  <2>7. \A x \in DOMAIN ent' : (x \in DOMAIN ent /\ ent'[x] = ent[x]) \/ (x = n /\ ent'[x] = y)
    <3>1. DOMAIN ent = 1 .. Len(ent) /\ ent' = Append(ent, y)
      BY <2>2, <2>3, <2>5
    <3> QED BY <2>3, <2>4, <3>1
  <2>8. \A x \in DOMAIN ent : ent'[x] = ent[x]
    <3>1. DOMAIN ent = 1 .. Len(ent) /\ ent' = Append(ent, y)
      BY <2>2, <2>3, <2>5
    <3> QED BY <2>3, <3>1
  <2>9. Window \subseteq Window' /\ n \in Window' /\ waiting' # <<>>
    <3>1. waiting' = Append(waiting, n) /\ n \in Nat
      BY <2>2, <2>4
    <3>2. ToSet(Append(waiting, n)) = ToSet(waiting) \union {n}
      BY <2>3, AppendSet
    <3> QED BY <2>3, <3>1, <3>2 DEF Window
  <2>10. FlushingKept /\ CancellingKept /\ QueueingKept /\ Buffer' = Buffer
    BY <2>2, SameFlushing, SameCancelling, StillQueueing DEF Buffer
  <2>11. HoldInv'
    BY <2>1, <2>6, <2>7, <2>10 DEF HoldInv, FlushingKept
  <2>12. MarkInv'
    BY <2>1, <2>2, <2>6, <2>7, <2>10 DEF MarkInv, CancellingKept, StopCompletes
  <2>13. KeepInv'
    BY <2>1, <2>2, <2>7, <2>9, <2>10 DEF KeepInv, Held, FlushingKept, CancellingKept, QueueingKept, StopCompletes
  <2>14. GenInv'
    BY <2>2, <2>9 DEF GenInv
  <2>15. ProvInv'
    BY <2>1, <2>2, <2>8, ProvKept DEF IsActive
  <2> QED BY <2>11, <2>12, <2>13, <2>14, <2>15 DEF LeakInv
<1> QED BY <1>1, <1>2

LEMMA DetachLeak == ASSUME PipeInv, PipeInv', LeakInv, DetachAndQueue PROVE LeakInv'
<1>1. HoldInv /\ MarkInv /\ KeepInv /\ GenInv /\ ProvInv
  BY DEF LeakInv
<1>2. /\ UNCHANGED <<gen, flush, cancel, pending, rt, live, broken>>
      /\ ent' = Transfer(ent, ToSet(waiting), "debounce-inflight") /\ live /\ waiting' = <<>>
      /\ queued' = Append(queued, [ents |-> waiting, gen |-> gen])
  BY DEF DetachAndQueue, dispatcher, runtime, history
<1>3. ent \in Seq(Entry) /\ "debounce-inflight" \in Owner /\ queued \in Seq([ents : Seq(Nat), gen : Nat]) /\ waiting \in Seq(Nat) /\ gen \in Nat
  BY DEF PipeInv, Types, Owner
<1>4. /\ Born(ent, ent')
      /\ \A x \in DOMAIN ent : ent'[x].creq = ent[x].creq /\ ent'[x].req = ent[x].req /\ ent'[x].holds = ent[x].holds /\ ent'[x].cpend = ent[x].cpend
  BY <1>2, <1>3, Transferred
<1>5. DOMAIN ent' = DOMAIN ent /\ \A x \in DOMAIN ent : ent'[x].rt = ent[x].rt /\ ent'[x].gen = ent[x].gen
  BY <1>4 DEF Born
<1>6. PICK n, b : n \in Nat /\ n = Len(queued) + 1 /\ b = [ents |-> waiting, gen |-> gen]
  <2>1. PICK S : S = [ents : Seq(Nat), gen : Nat]
    OBVIOUS
  <2>2. queued \in Seq(S)
    BY <1>3, <2>1
  <2>3. Len(queued) + 1 \in Nat
    BY <2>2
  <2> QED BY <2>3
<1>7. n \in DOMAIN queued' /\ queued'[n] = b /\ \A k \in DOMAIN queued : k \in DOMAIN queued' /\ queued'[k] = queued[k]
  <2>1. PICK S : S = [ents : Seq(Nat), gen : Nat]
    OBVIOUS
  <2>2. queued \in Seq(S) /\ b \in S /\ queued' = Append(queued, b)
    BY <1>2, <1>3, <1>6, <2>1
  <2>3. DOMAIN queued = 1 .. Len(queued) /\ Len(queued) \in Nat
    BY <2>2
  <2> QED BY <1>6, <2>2, <2>3
<1>8. Window \subseteq BatchAt(n)'
  BY <1>6, <1>7 DEF Window, BatchAt
<1>9. QueueingKept /\ \A e \in Window : Queueing(e)'
  <2>1. \A k \in DOMAIN queued : k \in DOMAIN queued' /\ BatchAt(k)' = BatchAt(k)
    BY <1>7 DEF BatchAt
  <2> QED BY <1>7, <1>8, <2>1 DEF QueueingKept, Queueing
<1>10. FlushingKept /\ CancellingKept /\ Buffer' = Buffer /\ queued' # <<>>
  BY <1>2, <1>7, SameFlushing, SameCancelling DEF Buffer
<1>11. HoldInv'
  BY <1>1, <1>4, <1>5, <1>10 DEF HoldInv, FlushingKept
<1>12. MarkInv'
  BY <1>1, <1>2, <1>4, <1>5, <1>10 DEF MarkInv, CancellingKept, StopCompletes
<1>13. KeepInv'
  BY <1>1, <1>2, <1>4, <1>5, <1>9, <1>10 DEF KeepInv, Held, FlushingKept, CancellingKept, QueueingKept, StopCompletes
<1>14. GenInv'
  BY <1>2, <1>10 DEF GenInv
<1>15. ProvInv'
  BY <1>1, <1>2, <1>4, <1>5, ProvKept DEF IsActive
<1> QED BY <1>11, <1>12, <1>13, <1>14, <1>15 DEF LeakInv

LEMMA HandlerLeak == ASSUME PipeInv, PipeInv', LeakInv, HandlerSettled PROVE LeakInv'
<1>1. HoldInv /\ MarkInv /\ KeepInv /\ GenInv /\ ProvInv
  BY DEF LeakInv
<1>2. UNCHANGED <<waiting, queued, gen, inflight, flush, cancel, rt, live, broken>> /\ Drain(ent, pending, NoTurn, LeaseOpen)
  BY DEF HandlerSettled, runtime, history
<1>3. ent \in Seq(Entry) /\ pending \in Seq(Nat) /\ Rising(pending)
  BY DEF PipeInv, Types, RisingInv
<1>4. NoTurn = [pc |-> NoTurn.pc, ents |-> NoTurn.ents] /\ NoTurn.pc \in {"idle", "starting", "running"} /\ NoTurn.ents \in Seq(Nat) /\ Rising(NoTurn.ents)
  BY EmptySet DEF NoTurn
<1>5. /\ Born(ent, ent') /\ DOMAIN ent' = DOMAIN ent
      /\ \A x \in DOMAIN ent :
                 /\ ent'[x].creq = ent[x].creq /\ ent'[x].cpend = ent[x].cpend /\ ent'[x].holds = ent[x].holds
                 /\ ent[x].req => ent'[x].req
                 /\ x \in Buffer => x \in Buffer' \/ ent'[x].req
  BY <1>2, <1>3, <1>4, DrainFacts DEF Buffer
<1>6. \A x \in DOMAIN ent : ent'[x].rt = ent[x].rt /\ ent'[x].gen = ent[x].gen
  BY <1>5 DEF Born
<1>7. FlushingKept /\ CancellingKept /\ QueueingKept /\ Window' = Window
  BY <1>2, SameFlushing, SameCancelling, StillQueueing DEF Window
<1>8. HoldInv'
  BY <1>1, <1>5, <1>7 DEF HoldInv, FlushingKept
<1>9. MarkInv'
  BY <1>1, <1>2, <1>5, <1>7 DEF MarkInv, CancellingKept, StopCompletes
<1>10. KeepInv'
  BY <1>1, <1>2, <1>5, <1>7 DEF KeepInv, Held, FlushingKept, CancellingKept, QueueingKept, StopCompletes
<1>11. GenInv'
  BY <1>1, <1>2 DEF GenInv
<1>12. ProvInv'
  BY <1>1, <1>2, <1>5, <1>6, ProvKept DEF IsActive
<1> QED BY <1>8, <1>9, <1>10, <1>11, <1>12 DEF LeakInv

LEMMA RunFlushLeak == ASSUME PipeInv, PipeInv', LeakInv, RunFlush, Head(queued).gen = gen PROVE LeakInv'
<1>1. HoldInv /\ MarkInv /\ KeepInv /\ GenInv /\ ProvInv
  BY DEF LeakInv
<1>2. /\ UNCHANGED <<waiting, gen, inflight, cancel, pending, rt, live, broken>>
      /\ queued # <<>> /\ queued' = Tail(queued) /\ flush[rt].pc = "idle" /\ live
      /\ flush' = [flush EXCEPT ![rt] = [NoFlush EXCEPT !.pc = "item", !.batch = Head(queued).ents]]
      /\ ent' = HoldFor(ent, ToSet(Head(queued).ents), "flush")
  BY DEF RunFlush, dispatcher, runtime, history
<1>3. FlushTypes /\ rt \in Runtime /\ ent \in Seq(Entry)
  BY Located DEF PipeInv, Types
<1>4. PICK es : es = ToSet(Head(queued).ents)
  OBVIOUS
<1>5. /\ 1 \in DOMAIN queued /\ es = BatchAt(1)
      /\ \A b \in DOMAIN queued : b # 1 => b - 1 \in DOMAIN queued' /\ BatchAt(b - 1)' = BatchAt(b)
  BY <1>2, <1>4, QueueTaken DEF BatchAt
<1>6. flush'[rt] = [NoFlush EXCEPT !.pc = "item", !.batch = Head(queued).ents] /\ \A q \in Runtime : q # rt => flush'[q] = flush[q]
  BY <1>2, <1>3 DEF FlushTypes
<1>7. flush'[rt].pc = "item" /\ flush'[rt].batch = Head(queued).ents /\ flush'[rt].offers = <<>>
  BY <1>6 DEF NoFlush
<1>8. /\ Born(ent, ent')
      /\ \A x \in DOMAIN ent : x \notin es => ent'[x] = ent[x]
      /\ \A x \in DOMAIN ent : ent'[x].req = ent[x].req /\ ent'[x].cpend = ent[x].cpend
      /\ \A x \in DOMAIN ent : x \in es => ent'[x].holds = ent[x].holds \union {"flush"}
  BY <1>2, <1>3, <1>4, HeldForFlush
<1>9. DOMAIN ent' = DOMAIN ent
  BY <1>8 DEF Born
<1>10. FlushingKept /\ \A e \in es : Flushing(e)'
  <2>1. PICK q \in Runtime : q = rt
    BY <1>3
  <2>2. Batch(q)' = es
    BY <1>4, <1>7, <2>1 DEF Batch
  <2>3. \A e \in es : Flushing(e)'
    BY <1>7, <2>1, <2>2 DEF Flushing
  <2>4. \A r \in Runtime : flush[r].pc # "idle" => flush'[r].pc # "idle" /\ Batch(r)' = Batch(r)
    BY <1>2, <1>6 DEF Batch
  <2> QED BY <2>3, <2>4 DEF FlushingKept, Flushing
<1>11. \A e : Queueing(e) => Queueing(e)' \/ e \in es
  BY <1>5 DEF Queueing
<1>12. CancellingKept /\ Window' = Window /\ Buffer' = Buffer
  BY <1>2, SameCancelling DEF Window, Buffer
<1>13. HoldInv'
  BY <1>1, <1>8, <1>9, <1>10 DEF HoldInv, FlushingKept
<1>14. MarkInv'
  BY <1>1, <1>2, <1>8, <1>9, <1>12 DEF MarkInv, CancellingKept, StopCompletes
<1>15. KeepInv'
  BY <1>1, <1>2, <1>8, <1>9, <1>10, <1>11, <1>12 DEF KeepInv, Held, FlushingKept, CancellingKept, StopCompletes
<1>16. GenInv'
  BY <1>2, <1>7 DEF GenInv
<1>17. ProvInv'
  <2>1. PICK q \in Runtime : q = rt'
    BY <1>2, <1>3
  <2>2. \A e : ~Provisional(q, e)'
    BY <1>2, <1>7, <2>1 DEF Provisional
  <2> QED BY <2>1, <2>2, NoneProvisional
<1> QED BY <1>13, <1>14, <1>15, <1>16, <1>17 DEF LeakInv

\* An entry that is left goes with its reservation, or waits for its cancellation.
LEMMA RunStaleLeak == ASSUME PipeInv, PipeInv', LeakInv, RunFlush, Head(queued).gen # gen PROVE LeakInv'
<1>1. HoldInv /\ MarkInv /\ KeepInv /\ GenInv /\ ProvInv
  BY DEF LeakInv
<1>2. /\ UNCHANGED <<waiting, flush, cancel, pending, rt, live, broken>>
      /\ queued # <<>> /\ queued' = Tail(queued) /\ flush[rt].pc = "idle" /\ live
      /\ ent' = SettleFlush(ent, ToSet(Head(queued).ents))
      /\ gen' = NextGen(gen, waiting, queued', inflight', flush[rt])
  BY DEF RunFlush, dispatcher, runtime, history
<1>3. rt \in Runtime /\ ent \in Seq(Entry) /\ QueuedInv
  BY Located DEF PipeInv, Types
<1>4. PICK es : es = ToSet(Head(queued).ents)
  OBVIOUS
<1>5. /\ 1 \in DOMAIN queued /\ es = BatchAt(1)
      /\ \A b \in DOMAIN queued : b # 1 => b - 1 \in DOMAIN queued' /\ BatchAt(b - 1)' = BatchAt(b)
  BY <1>2, <1>4, QueueTaken DEF BatchAt
<1>6. PICK rel : rel = {e \in es : ~ent[e].cpend /\ ent[e].owner # "pending"}
  OBVIOUS
<1>7. ent' = RequestRelease(ent, rel)
  BY <1>2, <1>4, <1>6 DEF SettleFlush
<1>8. /\ Born(ent, ent')
      /\ \A x \in DOMAIN ent : x \notin rel => ent'[x] = ent[x]
      /\ \A x \in DOMAIN ent : ent'[x].creq = ent[x].creq /\ ent'[x].cpend = ent[x].cpend /\ ent'[x].holds = ent[x].holds
      /\ \A x \in DOMAIN ent : x \in rel => ent'[x].req
  BY <1>3, <1>7, Released
<1>9. DOMAIN ent' = DOMAIN ent
  BY <1>8 DEF Born
<1>10. \A e \in es : ent[e].owner # "pending"
  BY <1>3, <1>5 DEF QueuedInv, QueuedAt
<1>11. \A e : Queueing(e) => Queueing(e)' \/ e \in es
  BY <1>5 DEF Queueing
<1>12. FlushingKept /\ CancellingKept /\ Window' = Window /\ Buffer' = Buffer
  BY <1>2, SameCancelling, SameFlushing DEF Window, Buffer
<1>13. HoldInv'
  BY <1>1, <1>8, <1>9, <1>12 DEF HoldInv, FlushingKept
<1>14. MarkInv'
  BY <1>1, <1>2, <1>8, <1>9, <1>12 DEF MarkInv, CancellingKept, StopCompletes
<1>15. KeepInv'
  <2> SUFFICES ASSUME StopCompletes', NEW e \in DOMAIN ent', ~ent'[e].req PROVE Held(e)'
    BY DEF KeepInv
  <2>1. StopCompletes /\ e \in DOMAIN ent /\ ~ent[e].req /\ e \notin rel
    BY <1>2, <1>8, <1>9 DEF StopCompletes
  <2>2. CASE e \in es
    BY <1>1, <1>6, <1>10, <1>12, <2>1, <2>2 DEF MarkInv, CancellingKept, Held
  <2>3. CASE e \notin es
    BY <1>1, <1>11, <1>12, <2>1, <2>3 DEF KeepInv, Held, FlushingKept, CancellingKept
  <2> QED BY <2>2, <2>3
<1>16. GenInv'
  BY <1>2 DEF GenInv, NextGen
<1>17. ProvInv'
  <2>1. PICK q \in Runtime : q = rt'
    BY <1>2, <1>3
  <2>2. flush'[q].pc = "idle"
    BY <1>2, <2>1
  <2> QED BY <2>1, <2>2, ProvBy
<1> QED BY <1>13, <1>14, <1>15, <1>16, <1>17 DEF LeakInv

\* An unrecorded offer of a flush that goes on.
ProvSteps(r) ==
    \A e \in Batch(r) : Provisional(r, e)' =>
        \/ flush'[r].pc = "record" /\ e = Current(r)'
        \/ Provisional(r, e) /\ (flush[r].pc = "record" /\ e = Current(r) => ~IsActive(e))

LEMMA FlushSteppedLeak ==
    ASSUME PipeInv, PipeInv', LeakInv, NEW r \in Runtime, FlushStepped(r), ProvSteps(r)
    PROVE  LeakInv'
<1>1. HoldInv /\ MarkInv /\ KeepInv /\ GenInv /\ ProvInv
  BY DEF LeakInv
<1>2. UNCHANGED <<waiting, queued, gen, inflight, cancel, pending, rt, live, broken>> /\ flush[r].pc # "idle"
  BY DEF FlushStepped, around
<1>3. PICK S, T : Moves(r, S, T) /\ Keeps(r, S, T)
  BY DEF FlushStepped
<1>4. /\ DOMAIN ent' = DOMAIN ent
      /\ \A x \in DOMAIN ent : /\ ent'[x].rt = ent[x].rt /\ ent'[x].gen = ent[x].gen /\ ent'[x].creq = ent[x].creq
                               /\ ent'[x].cpend = ent[x].cpend /\ ent'[x].holds = ent[x].holds
                               /\ ent[x].req => ent'[x].req
  BY <1>3 DEF Moves
<1>5. flush'[r].pc # "idle" /\ flush'[r].batch = flush[r].batch /\ \A q \in Runtime : q # r => flush'[q] = flush[q]
  BY <1>3 DEF Keeps, FlushIs
<1>6. \A q \in Runtime : (flush'[q].pc = "idle" <=> flush[q].pc = "idle") /\ Batch(q)' = Batch(q)
  BY <1>2, <1>5 DEF Batch
<1>7. FlushingKept /\ CancellingKept /\ QueueingKept /\ Window' = Window /\ Buffer' = Buffer
  BY <1>2, <1>6, StillFlushing, SameCancelling, StillQueueing DEF Window, Buffer
<1>8. HoldInv'
  BY <1>1, <1>4, <1>7 DEF HoldInv, FlushingKept
<1>9. MarkInv'
  BY <1>1, <1>2, <1>4, <1>7 DEF MarkInv, CancellingKept, StopCompletes
<1>10. KeepInv'
  BY <1>1, <1>2, <1>4, <1>7 DEF KeepInv, Held, FlushingKept, CancellingKept, QueueingKept, StopCompletes
<1>11. GenInv'
  <2>1. rt \in Runtime
    BY Located
  <2> QED BY <1>1, <1>2, <1>6, <2>1 DEF GenInv
<1>12. ProvInv'
  <2>1. PICK q \in Runtime : q = rt /\ q = rt'
    BY <1>2, Located
  <2>2. Batch(q)' = Batch(q) /\ Batch(q) \subseteq DOMAIN ent
    BY <1>6, Located
  <2>3. \A e \in DOMAIN ent : IsActive(e)' => IsActive(e)
    BY <1>2, <1>4 DEF IsActive
  <2>4. ASSUME NEW e \in Batch(q), flush'[q].pc # "idle", Provisional(q, e)'
        PROVE  (flush'[q].pc = "record" /\ e = Current(q)') \/ ~IsActive(e)'
    <3>1. CASE q = r
      BY <1>1, <1>2, <2>2, <2>3, <2>4, <3>1 DEF ProvSteps, ProvInv
    <3>2. CASE q # r
      <4>1. flush'[q] = flush[q]
        BY <1>5, <3>2
      <4>2. Provisional(q, e) /\ flush[q].pc # "idle" /\ Current(q)' = Current(q)
        BY <2>4, <4>1 DEF Provisional, Current
      <4> QED BY <1>1, <2>2, <2>3, <2>4, <4>1, <4>2 DEF ProvInv
    <3> QED BY <3>1, <3>2
  <2> QED BY <2>1, <2>2, <2>4, ProvBy
<1> QED BY <1>8, <1>9, <1>10, <1>11, <1>12 DEF LeakInv

LEMMA SameOffers ==
    ASSUME NEW r, flush'[r].offers = flush[r].offers, flush[r].pc # "record" \/ ~IsActive(Current(r))
    PROVE  ProvSteps(r)
  BY DEF ProvSteps, Provisional

LEMMA OneOffer ==
    ASSUME NEW r, NEW e, e = Current(r), NEW how, how # "provisional" \/ (flush'[r].pc = "record" /\ Current(r)' = e),
           \A x \in DOMAIN flush'[r].offers : (x = e /\ flush'[r].offers[x] = how) \/ (x # e /\ x \in DOMAIN flush[r].offers /\ flush'[r].offers[x] = flush[r].offers[x])
    PROVE  ProvSteps(r)
  BY DEF ProvSteps, Provisional

LEMMA OffersForms ==
    ASSUME FlushTypes, NEW r \in Runtime
    PROVE  /\ \A p : flush' = [flush EXCEPT ![r].pc = p] => flush'[r].offers = flush[r].offers
           /\ \A p, j : flush' = [flush EXCEPT ![r].pc = p, ![r].i = j] => flush'[r].offers = flush[r].offers
           /\ \A p, o : flush' = [flush EXCEPT ![r].pc = p, ![r].offers = o]
                 => flush'[r].offers = o /\ flush'[r].pc = p /\ flush'[r].batch = flush[r].batch /\ flush'[r].i = flush[r].i
<1>1. flush = [q \in Runtime |-> flush[q]] /\ IsFlush(flush[r])
  BY DEF FlushTypes, FlushFields
<1>2. ASSUME NEW p, flush' = [flush EXCEPT ![r].pc = p] PROVE flush'[r].offers = flush[r].offers
  BY <1>1, <1>2 DEF IsFlush
<1>3. ASSUME NEW p, NEW j, flush' = [flush EXCEPT ![r].pc = p, ![r].i = j] PROVE flush'[r].offers = flush[r].offers
  BY <1>1, <1>3 DEF IsFlush
<1>4. ASSUME NEW p, NEW o, flush' = [flush EXCEPT ![r].pc = p, ![r].offers = o]
      PROVE  flush'[r].offers = o /\ flush'[r].pc = p /\ flush'[r].batch = flush[r].batch /\ flush'[r].i = flush[r].i
  BY <1>1, <1>4 DEF IsFlush
<1> QED BY <1>2, <1>3, <1>4

LEMMA BlockOffers ==
    ASSUME FlushTypes, NEW r \in Runtime, NEW en, NEW k, Block(r, en, k)
    PROVE  flush'[r].offers = flush[r].offers
<1>1. PICK n : n = Len(flush[r].batch) + 1
  OBVIOUS
<1>2. flush' = [flush EXCEPT ![r].pc = "item", ![r].i = n]
  BY <1>1 DEF Block
<1> QED BY <1>2, OffersForms

LEMMA NextOffers ==
    ASSUME FlushTypes, NEW r \in Runtime, NEW f, IsFlush(f), NextItem(r, f)
    PROVE  flush'[r].offers = f.offers
<1>1. FlushIs(r, [f EXCEPT !.pc = "item", !.i = @ + 1])
  BY FlushPut DEF NextItem
<1> QED BY <1>1 DEF FlushIs, IsFlush

LEMMA OfferDomain ==
    ASSUME NEW o, NEW e, NEW how
    PROVE  \A x \in DOMAIN Offer(o, e, how) : (x = e /\ Offer(o, e, how)[x] = how) \/ (x # e /\ x \in DOMAIN o /\ Offer(o, e, how)[x] = o[x])
  BY DEF Offer

LEMMA FlushItemProv == ASSUME PipeInv, NEW r \in Runtime, FlushItem(r) PROVE ProvSteps(r)
<1>1. FlushTypes /\ IsFlush(flush[r]) /\ flush[r].pc = "item"
  BY DEF PipeInv, FlushTypes, FlushFields, FlushItem
<1>2. CASE Block(r, ent, flush[r].i)
  BY <1>1, <1>2, BlockOffers, SameOffers
<1>3. CASE NextItem(r, [flush[r] EXCEPT !.offers = Offer(@, Current(r), "committed")])
  <2>1. PICK e, o : e = Current(r) /\ o = Offer(flush[r].offers, e, "committed")
    OBVIOUS
  <2>2. PICK f : f = [flush[r] EXCEPT !.offers = o]
    OBVIOUS
  <2>3. IsFlush(f) /\ f.offers = o
    BY <1>1, <2>2 DEF IsFlush
  <2>4. NextItem(r, f)
    BY <1>1, <1>3, <2>1, <2>2 DEF IsFlush
  <2>5. flush'[r].offers = o
    BY <1>1, <2>3, <2>4, NextOffers
  <2>6. \A x \in DOMAIN o : o[x] = "committed" \/ (x \in DOMAIN flush[r].offers /\ o[x] = flush[r].offers[x])
    BY <2>1 DEF Offer
  <2> QED BY <1>1, <2>5, <2>6 DEF ProvSteps, Provisional
<1>4. CASE NextItem(r, flush[r])
  BY <1>1, <1>4, NextOffers, SameOffers
<1>5. CASE flush' = [flush EXCEPT ![r].pc = IF ent[Current(r)].m \in tomb THEN "recover" ELSE "lookup"]
  <2>1. PICK p : p = IF ent[Current(r)].m \in tomb THEN "recover" ELSE "lookup"
    OBVIOUS
  <2>2. flush' = [flush EXCEPT ![r].pc = p]
    BY <1>5, <2>1
  <2> QED BY <1>1, <2>2, OffersForms, SameOffers
<1> QED BY <1>2, <1>3, <1>4, <1>5 DEF FlushItem

LEMMA FlushRecoverProv == ASSUME PipeInv, NEW r \in Runtime, FlushRecover(r) PROVE ProvSteps(r)
<1>1. FlushTypes /\ IsFlush(flush[r]) /\ flush[r].pc = "recover"
  BY DEF PipeInv, FlushTypes, FlushFields, FlushRecover
<1>2. CASE Block(r, ent, flush[r].i)
  BY <1>1, <1>2, BlockOffers, SameOffers
<1>3. CASE NextItem(r, flush[r])
  BY <1>1, <1>3, NextOffers, SameOffers
<1> QED BY <1>2, <1>3 DEF FlushRecover

LEMMA FlushLookupProv == ASSUME PipeInv, NEW r \in Runtime, FlushLookup(r) PROVE ProvSteps(r)
<1>1. FlushTypes /\ IsFlush(flush[r]) /\ flush[r].pc = "lookup"
  BY DEF PipeInv, FlushTypes, FlushFields, FlushLookup
<1>2. CASE Block(r, ent, flush[r].i)
  BY <1>1, <1>2, BlockOffers, SameOffers
<1>3. CASE NextItem(r, IF LookupOutcome(ent[Current(r)].m) = "accepted"
                       THEN [flush[r] EXCEPT !.acks = @ \union {ent[Current(r)].m}]
                       ELSE [flush[r] EXCEPT !.rejs = @ \union {ent[Current(r)].m}])
  <2>1. PICK f : f = IF LookupOutcome(ent[Current(r)].m) = "accepted"
                     THEN [flush[r] EXCEPT !.acks = @ \union {ent[Current(r)].m}]
                     ELSE [flush[r] EXCEPT !.rejs = @ \union {ent[Current(r)].m}]
    OBVIOUS
  <2>2. IsFlush(f) /\ f.offers = flush[r].offers
    <3>1. CASE LookupOutcome(ent[Current(r)].m) = "accepted"
      BY <1>1, <2>1, <3>1 DEF IsFlush
    <3>2. CASE LookupOutcome(ent[Current(r)].m) # "accepted"
      BY <1>1, <2>1, <3>2 DEF IsFlush
    <3> QED BY <3>1, <3>2
  <2>3. NextItem(r, f)
    BY <1>3, <2>1
  <2>4. flush'[r].offers = flush[r].offers
    BY <1>1, <2>2, <2>3, NextOffers
  <2> QED BY <1>1, <2>4, SameOffers
<1>4. CASE flush' = [flush EXCEPT ![r].pc = "record", ![r].offers = Offer(@, Current(r), "provisional")]
  <2>1. PICK e, o : e = Current(r) /\ o = Offer(flush[r].offers, e, "provisional")
    OBVIOUS
  <2>2. flush' = [flush EXCEPT ![r].pc = "record", ![r].offers = o]
    <3>1. flush = [q \in Runtime |-> flush[q]]
      BY <1>1 DEF FlushTypes
    <3> QED BY <1>1, <1>4, <2>1, <3>1 DEF IsFlush
  <2>3. flush'[r].offers = o /\ flush'[r].pc = "record" /\ flush'[r].batch = flush[r].batch /\ flush'[r].i = flush[r].i
    BY <1>1, <2>2, OffersForms
  <2>4. Current(r)' = e
    BY <2>1, <2>3 DEF Current
  <2> QED BY <2>1, <2>3, <2>4, OfferDomain, OneOffer
<1> QED BY <1>2, <1>3, <1>4 DEF FlushLookup

LEMMA FlushRecordProv == ASSUME PipeInv, NEW r \in Runtime, FlushRecord(r) PROVE ProvSteps(r)
<1>1. FlushTypes /\ IsFlush(flush[r]) /\ flush[r].pc = "record"
  BY DEF PipeInv, FlushTypes, FlushFields, FlushRecord
<1>2. CASE Block(r, ent, flush[r].i + 1) /\ ~IsActive(Current(r))
  <2>1. PICK k : k = flush[r].i + 1
    OBVIOUS
  <2>2. Block(r, ent, k)
    BY <1>2, <2>1
  <2> QED BY <1>1, <1>2, <2>2, BlockOffers, SameOffers
<1>3. PICK e : e = Current(r)
  OBVIOUS
<1>4. CASE flush' = [flush EXCEPT ![r].pc = "item", ![r].i = Len(flush[r].batch) + 1, ![r].offers[e] = "back"]
  <2>1. flush = [q \in Runtime |-> flush[q]]
    BY <1>1 DEF FlushTypes
  <2>2. flush'[r].offers = [flush[r].offers EXCEPT ![e] = "back"]
    BY <1>1, <1>4, <2>1 DEF IsFlush
  <2>3. \A x \in DOMAIN flush'[r].offers : (x = e /\ flush'[r].offers[x] = "back") \/ (x # e /\ x \in DOMAIN flush[r].offers /\ flush'[r].offers[x] = flush[r].offers[x])
    BY <2>2
  <2>4. \A x : Provisional(r, x)' => Provisional(r, x) /\ x # e
    BY <2>3 DEF Provisional
  <2> QED BY <1>3, <2>4 DEF ProvSteps
<1>5. CASE NextItem(r, [flush[r] EXCEPT !.offers[e] = "recorded", !.acks = @ \union {ent[e].m}])
  <2>1. PICK f : f = [flush[r] EXCEPT !.offers[e] = "recorded", !.acks = @ \union {ent[e].m}]
    OBVIOUS
  <2>2. IsFlush(f) /\ f.offers = [flush[r].offers EXCEPT ![e] = "recorded"]
    BY <1>1, <2>1 DEF IsFlush
  <2>3. NextItem(r, f)
    BY <1>5, <2>1
  <2>4. flush'[r].offers = [flush[r].offers EXCEPT ![e] = "recorded"]
    BY <1>1, <2>2, <2>3, NextOffers
  <2>5. \A x \in DOMAIN flush'[r].offers : (x = e /\ flush'[r].offers[x] = "recorded") \/ (x # e /\ x \in DOMAIN flush[r].offers /\ flush'[r].offers[x] = flush[r].offers[x])
    BY <2>4
  <2> QED BY <1>3, <2>5, OneOffer
<1> QED BY <1>2, <1>3, <1>4, <1>5 DEF FlushRecord

LEMMA FlushInvalidatedProv == ASSUME PipeInv, NEW r \in Runtime, FlushInvalidated(r) PROVE ProvSteps(r)
<1>1. FlushTypes /\ flush[r].pc = "item" /\ flush' = [flush EXCEPT ![r].pc = "await"]
  BY DEF PipeInv, FlushInvalidated
<1> QED BY <1>1, OffersForms, SameOffers

\* The end of a flush: what it does not release is in the buffer or waits for its cancellation.
LEMMA ClosedLeak ==
    ASSUME PipeInv, PipeInv', LeakInv, NEW r \in Runtime, flush[r].pc # "idle", NEW C, NEW back, Closed(r, C, back),
           UNCHANGED <<waiting, queued, cancel, rt, live, broken>>,
           \A e \in Batch(r) : Offered(r, e) => e \in Attached(r, C) \/ e \in back
    PROVE  LeakInv'
<1>1. HoldInv /\ MarkInv /\ KeepInv /\ GenInv /\ ProvInv /\ FlushAt(r)
  BY DEF LeakInv, PipeInv, FlushInv
<1>2. UNCHANGED <<waiting, queued, cancel, rt, live, broken>>
  OBVIOUS
<1>3. flush'[r] = NoFlush /\ flush'[r].pc = "idle" /\ \A q \in Runtime : q # r => flush'[q] = flush[q]
  BY NoFlushFields DEF Closed, FlushIs
<1>4. DOMAIN ent' = DOMAIN ent /\ \A x \in DOMAIN ent :
          /\ ent'[x].creq = ent[x].creq /\ ent'[x].cpend = ent[x].cpend /\ (ent[x].req => ent'[x].req)
          /\ ent'[x].rt = ent[x].rt /\ ent'[x].gen = ent[x].gen
          /\ x \in Batch(r) => ent'[x].holds = ent[x].holds \ {"flush"}
          /\ x \notin Batch(r) => ent'[x].holds = ent[x].holds
          /\ x \in back => ent'[x].req
          /\ x \in Batch(r) /\ flush[r].intact /\ ~ent[x].cpend /\ ent[x].owner # "pending" => ent'[x].req
          /\ x \in Buffer \union Attached(r, C) => x \in Buffer' \/ ent'[x].req
  BY DEF Closed, Lasting
<1>5. inflight' = inflight \ SettledBy(r) /\ gen' = IF live /\ r = rt THEN NextGen(gen, waiting, queued, inflight', NoFlush) ELSE gen
  BY DEF Closed
<1>6. \A q \in Runtime : q # r => Batch(q)' = Batch(q)
  BY <1>3 DEF Batch
<1>7. CancellingKept /\ QueueingKept /\ Window' = Window
  BY <1>2, SameCancelling, StillQueueing DEF Window
<1>8. \A e : Flushing(e) => Flushing(e)' \/ e \in Batch(r)
  BY <1>3, <1>6 DEF Flushing
<1>9. HoldInv'
  BY <1>1, <1>4, <1>8 DEF HoldInv
<1>10. MarkInv'
  BY <1>1, <1>2, <1>4, <1>7 DEF MarkInv, CancellingKept, StopCompletes
<1>11. KeepInv'
  <2> SUFFICES ASSUME StopCompletes', NEW e \in DOMAIN ent', ~ent'[e].req PROVE Held(e)'
    BY DEF KeepInv
  <2>1. StopCompletes /\ e \in DOMAIN ent /\ ~ent[e].req
    BY <1>2, <1>4 DEF StopCompletes
  <2>2. CASE e \in Batch(r)
    <3>1. flush[r].intact
      BY <1>1, <2>1, <2>2 DEF FlushAt
    <3>2. CASE ent[e].cpend
      BY <1>1, <1>7, <2>1, <3>2 DEF MarkInv, CancellingKept, Held
    <3>3. CASE ~ent[e].cpend
      <4>1. ent[e].owner = "pending"
        BY <1>4, <2>1, <2>2, <3>1, <3>3
      <4>2. Offered(r, e)
        BY <1>1, <2>1, <2>2, <4>1 DEF FlushAt
      <4>3. e \in Attached(r, C)
        BY <1>4, <2>1, <2>2, <4>2
      <4> QED BY <1>4, <2>1, <4>3 DEF Held
    <3> QED BY <3>2, <3>3
  <2>3. CASE e \notin Batch(r)
    <3>1. Held(e)
      BY <1>1, <2>1 DEF KeepInv
    <3> QED BY <1>4, <1>7, <1>8, <2>1, <2>3, <3>1 DEF Held, CancellingKept, QueueingKept
  <2> QED BY <2>2, <2>3
<1>12. GenInv'
  <2>1. CASE live /\ r = rt
    <3>1. gen' = NextGen(gen, waiting, queued, inflight', NoFlush) /\ live'
      BY <1>2, <1>5, <2>1
    <3> QED BY <1>2, <3>1, NoFlushFields DEF GenInv, NextGen
  <2>2. CASE ~(live /\ r = rt)
    <3>1. ~flush[r].intact
      BY <1>1, <2>2 DEF FlushAt
    <3>2. inflight' = inflight /\ gen' = gen
      BY <1>5, <2>2, <3>1 DEF SettledBy
    <3>3. live => flush'[rt] = flush[rt]
      BY <1>3, <2>2, Located
    <3> QED BY <1>1, <1>2, <3>2, <3>3 DEF GenInv
  <2> QED BY <2>1, <2>2
<1>13. ProvInv'
  <2>1. PICK q \in Runtime : q = rt /\ q = rt'
    BY <1>2, Located
  <2>2. CASE q = r
    BY <1>3, <2>1, <2>2, ProvBy
  <2>3. CASE q # r
    <3>1. flush'[q] = flush[q] /\ gen' = gen /\ Batch(q)' = Batch(q) /\ Batch(q) \subseteq DOMAIN ent
      BY <1>3, <1>5, <1>6, <2>1, <2>3, Located
    <3>2. \A e \in DOMAIN ent : IsActive(e)' => IsActive(e)
      BY <1>2, <1>4, <3>1 DEF IsActive
    <3>3. ASSUME NEW e \in Batch(q), flush'[q].pc # "idle", Provisional(q, e)'
          PROVE  (flush'[q].pc = "record" /\ e = Current(q)') \/ ~IsActive(e)'
      <4>1. Provisional(q, e) /\ flush[q].pc # "idle" /\ Current(q)' = Current(q)
        BY <3>1, <3>3 DEF Provisional, Current
      <4> QED BY <1>1, <3>1, <3>2, <3>3, <4>1 DEF ProvInv
    <3> QED BY <2>1, <3>1, <3>3, ProvBy
  <2> QED BY <2>2, <2>3
<1> QED BY <1>9, <1>10, <1>11, <1>12, <1>13 DEF LeakInv

LEMMA FlushCommitLeak == ASSUME PipeInv, PipeInv', LeakInv, NEW r \in Runtime, FlushCommit(r) PROVE LeakInv'
<1>1. Closed(r, Accepted(r), {})
  BY FlushCommitPipe
<1>2. UNCHANGED <<waiting, queued, cancel, rt, live, broken>> /\ flush[r].pc = "item" /\ live /\ r = rt /\ \A e \in Batch(r) : IsActive(e)
  BY DEF FlushCommit, runtime, Batch
<1>3. FlushFields(flush[r])
  BY DEF PipeInv, FlushTypes
<1>4. ASSUME NEW e \in Batch(r), Offered(r, e) PROVE e \in Attached(r, Accepted(r))
  <2>1. e \in DOMAIN flush[r].offers /\ flush[r].offers[e] \in OfferState /\ flush[r].offers[e] # "back"
    BY <1>3, <1>4 DEF Offered, FlushFields
  <2>2. flush[r].offers[e] # "provisional"
    BY <1>2, <2>1 DEF LeakInv, ProvInv, Provisional
  <2> QED BY <1>2, <2>1, <2>2 DEF Attached, Accepted, OfferState
<1>5. PICK C, back : C = Accepted(r) /\ back = {}
  OBVIOUS
<1> QED BY <1>1, <1>2, <1>4, <1>5, ClosedLeak

LEMMA FlushAbandonLeak == ASSUME PipeInv, PipeInv', LeakInv, NEW r \in Runtime, FlushAbandon(r) PROVE LeakInv'
<1>1. Closed(r, Unrecorded(r), Undone(r))
  BY FlushAbandonPipe
<1>2. UNCHANGED <<waiting, queued, cancel, rt, live, broken>> /\ flush[r].pc = "await"
  BY DEF FlushAbandon, runtime
<1>3. FlushFields(flush[r]) /\ FlushAt(r)
  BY <1>2 DEF PipeInv, FlushTypes, FlushInv
<1>4. ASSUME NEW e \in Batch(r), Offered(r, e) PROVE e \in Attached(r, Unrecorded(r)) \/ e \in Undone(r)
  <2>1. e \in DOMAIN flush[r].offers /\ flush[r].offers[e] \in OfferState /\ flush[r].offers[e] # "back"
    BY <1>3, <1>4 DEF Offered, FlushFields
  <2>2. live /\ r = rt
    BY <1>3, <1>4 DEF FlushAt
  <2> QED BY <2>1, <2>2 DEF Attached, Unrecorded, Undone, OfferState
<1>5. PICK C, back : C = Unrecorded(r) /\ back = Undone(r)
  OBVIOUS
<1> QED BY <1>1, <1>2, <1>4, <1>5, ClosedLeak

LEMMA BackFlushes ==
    ASSUME PipeInv, PipeInv', rt' = rt,
           \/ flush' = [flush EXCEPT ![rt] = AllBack(@)]
           \/ flush' = [flush EXCEPT ![rt] = [AllBack(@) EXCEPT !.intact = ~LeaseOpen]]
    PROVE  FlushingKept /\ (\A q \in Runtime : flush'[q].pc = flush[q].pc) /\ ProvInv'
<1>1. FlushTypes /\ FlushFields(flush[rt]) /\ rt \in Runtime /\ (flush[rt].pc = "idle" => flush[rt] = NoFlush)
  BY Located DEF PipeInv, FlushTypes
<1>2. PICK g : flush' = [flush EXCEPT ![rt] = g] /\ HandsBack(flush[rt], g) /\ (flush[rt] = NoFlush => g = NoFlush)
  <2>1. CASE flush' = [flush EXCEPT ![rt] = AllBack(@)]
    <3>1. PICK g : g = AllBack(flush[rt])
      OBVIOUS
    <3>2. HandsBack(flush[rt], g) /\ (flush[rt] = NoFlush => g = NoFlush)
      BY <1>1, <3>1, AllBackFacts
    <3>3. flush' = [flush EXCEPT ![rt] = g]
      BY <2>1, <3>1
    <3> QED BY <3>2, <3>3
  <2>2. CASE flush' = [flush EXCEPT ![rt] = [AllBack(@) EXCEPT !.intact = ~LeaseOpen]]
    <3>1. PICK t \in BOOLEAN : t <=> flush[rt].pc = "idle"
      OBVIOUS
    <3>2. t = ~LeaseOpen
      BY <3>1 DEF LeaseOpen
    <3>3. PICK g : g = [AllBack(flush[rt]) EXCEPT !.intact = t]
      OBVIOUS
    <3>4. HandsBack(flush[rt], g) /\ (flush[rt] = NoFlush => g = NoFlush)
      BY <1>1, <3>1, <3>3, TornFacts
    <3>5. flush' = [flush EXCEPT ![rt] = g]
      BY <2>2, <3>2, <3>3
    <3> QED BY <3>4, <3>5
  <2> QED BY <2>1, <2>2
<1>3. /\ \A q \in Runtime : flush'[q].pc = flush[q].pc
      /\ \A q \in Runtime : Batch(q)' = Batch(q)
      /\ \A e : ~Offered(rt, e)'
  BY <1>1, <1>2, HandedBack
<1>4. FlushingKept
  BY <1>3, StillFlushing
<1>5. ProvInv'
  <2>1. PICK q \in Runtime : q = rt /\ q = rt'
    BY <1>1
  <2>2. \A e : ~Offered(q, e)'
    BY <1>3, <2>1 DEF Offered
  <2>3. \A e : ~Provisional(q, e)'
    BY <2>2 DEF Offered, Provisional
  <2> QED BY <2>1, <2>3, NoneProvisional
<1> QED BY <1>3, <1>4, <1>5

LEMMA QuietLeak ==
    ASSUME PipeInv, PipeInv', LeakInv, StartHandler \/ (\E m \in Msg : OverStep(m)) \/ UNCHANGED vars
    PROVE  LeakInv'
<1>1. UNCHANGED <<ent, waiting, queued, gen, inflight, flush, pending, rt, live, broken, cancel>>
  <2>1. CASE StartHandler
    BY <2>1 DEF StartHandler, debouncer, runtime
  <2>2. CASE \E m \in Msg : OverStep(m)
    BY <2>2 DEF OverStep, OverRecover, OverLookup, OverRecord, debouncer, dispatcher, runtime, history
  <2>3. CASE UNCHANGED vars
    BY <2>3 DEF vars, debouncer, dispatcher, runtime, history
  <2> QED BY <2>1, <2>2, <2>3
<1> QED BY <1>1, SameCancelling, LeakFrame

\* A cancellation that goes on.
LEMMA GoesOnLeak ==
    ASSUME PipeInv, PipeInv', LeakInv, NEW c \in StopNo, NEW b, cancel' = [cancel EXCEPT ![c] = b],
           b.pc # "done", b.ents = cancel[c].ents,
           UNCHANGED <<ent, waiting, queued, gen, inflight, flush, pending, rt, live, broken>>
    PROVE  LeakInv'
<1>1. cancel \in [StopNo -> Batchwise]
  BY DEF PipeInv, CancelTypes
<1>2. cancel'[c] = b /\ \A d \in StopNo : d # c => cancel'[d] = cancel[d]
  BY <1>1
<1>3. \A d \in StopNo : \A e : cancel[d].pc # "done" /\ e \in Marked(d) => cancel'[d].pc # "done" /\ e \in Marked(d)'
  BY <1>2 DEF Marked
<1>4. CancellingKept
  BY <1>3, StillCancelling
<1> QED BY <1>4, LeakFrame

LEMMA CancelItemLeak == ASSUME PipeInv, PipeInv', LeakInv, NEW c \in StopNo, CancelItem(c) PROVE LeakInv'
<1>1. UNCHANGED <<ent, waiting, queued, gen, inflight, flush, pending, rt, live, broken>> /\ cancel[c].pc = "item"
  BY DEF CancelItem, debouncer, dispatcher, runtime, history
<1>2. cancel \in [StopNo -> Batchwise] /\ cancel[c] \in Batchwise
  BY DEF PipeInv, CancelTypes
<1>3. CASE cancel' = [cancel EXCEPT ![c].i = @ + 1]
  <2>1. PICK b : b = [cancel[c] EXCEPT !.i = @ + 1]
    OBVIOUS
  <2>2. b.pc = "item" /\ b.ents = cancel[c].ents /\ cancel' = [cancel EXCEPT ![c] = b]
    BY <1>1, <1>2, <1>3, <2>1 DEF Batchwise
  <2> QED BY <1>1, <2>2, GoesOnLeak
<1>4. CASE cancel' = [cancel EXCEPT ![c].pc = "record"]
  <2>1. PICK b : b = [cancel[c] EXCEPT !.pc = "record"]
    OBVIOUS
  <2>2. b.pc = "record" /\ b.ents = cancel[c].ents /\ cancel' = [cancel EXCEPT ![c] = b]
    BY <1>1, <1>2, <1>4, <2>1 DEF Batchwise
  <2> QED BY <1>1, <2>2, GoesOnLeak
<1> QED BY <1>3, <1>4 DEF CancelItem

LEMMA CancelRecordFrame ==
    ASSUME NEW c, CancelRecord(c)
    PROVE  /\ UNCHANGED <<ent, waiting, queued, gen, inflight, flush, pending, rt, live, broken>>
           /\ cancel' = [cancel EXCEPT ![c].pc = "item", ![c].i = @ + 1]
<1>1. cancel' = [cancel EXCEPT ![c].pc = "item", ![c].i = @ + 1] /\ UNCHANGED <<debouncer, flush, dispatcher, runtime, history>>
  BY Zenon DEF CancelRecord
<1> QED BY <1>1 DEF debouncer, dispatcher, runtime, history

LEMMA CancelRecordLeak == ASSUME PipeInv, PipeInv', LeakInv, NEW c \in StopNo, CancelRecord(c) PROVE LeakInv'
<1>1. UNCHANGED <<ent, waiting, queued, gen, inflight, flush, pending, rt, live, broken>>
  BY CancelRecordFrame
<1>2. cancel \in [StopNo -> Batchwise] /\ cancel[c] \in Batchwise
  BY DEF PipeInv, CancelTypes
<1>3. cancel' = [cancel EXCEPT ![c].pc = "item", ![c].i = @ + 1]
  BY CancelRecordFrame
<1>4. PICK b : b = [cancel[c] EXCEPT !.pc = "item", !.i = @ + 1]
  OBVIOUS
<1>5. b.pc = "item" /\ b.ents = cancel[c].ents /\ cancel' = [cancel EXCEPT ![c] = b]
  <2>1. b.pc = "item" /\ b.ents = cancel[c].ents
    BY <1>2, <1>4 DEF Batchwise
  <2>2. cancel' = [cancel EXCEPT ![c] = b]
    BY <1>2, <1>3, <1>4
  <2> QED BY <2>1, <2>2
<1>6. b.pc # "done" /\ b.ents = cancel[c].ents /\ cancel' = [cancel EXCEPT ![c] = b]
  BY <1>5
<1>7. UNCHANGED <<ent, waiting, queued, gen, inflight, flush, pending, rt, live, broken>>
  BY <1>1

<1> QED BY <1>6, <1>7, GoesOnLeak

LEMMA StopLeak == ASSUME PipeInv, PipeInv', LeakInv, Stop PROVE LeakInv'
<1>1. HoldInv /\ MarkInv /\ KeepInv /\ GenInv /\ Types /\ CancelTypes /\ WaitingInv
  BY DEF LeakInv, PipeInv
<1>2. /\ UNCHANGED <<queued, rt, live, broken>>
      /\ live /\ stops < MaxStops /\ waiting' = <<>> /\ flush' = [flush EXCEPT ![rt] = AllBack(@)]
  BY DEF Stop, StopArrives, runtime
<1>3. PICK es : es = NewlyCancelled
  OBVIOUS
<1>4. PICK drop : drop = Dropped
  OBVIOUS
<1>5. /\ inflight' = inflight \union Window
      /\ gen' = IF es = {} THEN gen ELSE gen + 1
      /\ cancel' = IF es = {} THEN cancel
                   ELSE [cancel EXCEPT ![stops + 1] = [pc |-> "scheduled", i |-> 1, rt |-> rt, ents |-> InOrder(es)]]
  BY <1>2, <1>3 DEF Stop, StopArrives, Window
<1>6. es \subseteq inflight \union Window /\ Window \subseteq es /\ es \subseteq DOMAIN ent /\ Buffer \subseteq drop
  <2>1. es \subseteq inflight \union Window /\ Window \subseteq es
    BY <1>1, <1>3 DEF NewlyCancelled, Window, WaitingInv
  <2> QED BY <1>4, <2>1, Located DEF Dropped, Buffer
<1>7. Dropping(ent', es, drop)
  BY <1>3, <1>4, StopDrops
<1>8. DOMAIN ent' = DOMAIN ent /\ \A x \in DOMAIN ent :
          /\ x \notin es => ent'[x].cpend = ent[x].cpend /\ ent'[x].holds = ent[x].holds
          /\ x \in es => ent'[x].holds = ent[x].holds \union {"cancel"}
          /\ x \in drop => ent'[x].req
          /\ ent[x].req => ent'[x].req
  BY <1>7 DEF Dropping
<1>9. PICK n \in StopNo : n = stops + 1
  BY <1>1, <1>2, BoundsAssumption DEF StopNo, Types
<1>10. CancellingKept /\ \A e \in es : Cancelling(e)'
  <2>1. cancel \in [StopNo -> Batchwise] /\ cancel[n].pc = "done"
    BY <1>1, <1>9 DEF CancelTypes, Types, StopNo
  <2>2. CASE es = {}
    BY <1>5, <2>2, SameCancelling
  <2>3. CASE es # {}
    <3>1. PICK k \in Nat : DOMAIN ent = 1 .. k
      BY <1>1 DEF Types
    <3>2. es \in SUBSET (1 .. k)
      BY <1>6, <3>1
    <3>3. ToSet(InOrder(es)) = es
      BY <3>2, InOrderFacts
    <3>4. PICK b : b = [pc |-> "scheduled", i |-> 1, rt |-> rt, ents |-> InOrder(es)]
      OBVIOUS
    <3>5. cancel' = [cancel EXCEPT ![n] = b] /\ b.pc = "scheduled" /\ b.ents = InOrder(es)
      BY <1>5, <1>9, <2>3, <3>4
    <3>6. cancel'[n] = b /\ \A d \in StopNo : d # n => cancel'[d] = cancel[d]
      BY <2>1, <3>5
    <3>7. Marked(n)' = es /\ cancel'[n].pc # "done"
      BY <3>3, <3>5, <3>6 DEF Marked
    <3>8. \A d \in StopNo : \A e : cancel[d].pc # "done" /\ e \in Marked(d) => cancel'[d].pc # "done" /\ e \in Marked(d)'
      BY <2>1, <3>6 DEF Marked
    <3> QED BY <3>7, <3>8, StillCancelling DEF Cancelling
  <2> QED BY <2>2, <2>3
<1>11. FlushingKept /\ (\A q \in Runtime : flush'[q].pc = flush[q].pc) /\ ProvInv'
  BY <1>2, BackFlushes
<1>12. QueueingKept
  BY <1>2, StillQueueing
<1>13. HoldInv'
  BY <1>1, <1>8, <1>11 DEF HoldInv, FlushingKept
<1>14. MarkInv'
  BY <1>1, <1>2, <1>8, <1>10 DEF MarkInv, CancellingKept, StopCompletes
<1>15. KeepInv'
  <2> SUFFICES ASSUME StopCompletes', NEW e \in DOMAIN ent', ~ent'[e].req PROVE Held(e)'
    BY DEF KeepInv
  <2>1. StopCompletes /\ e \in DOMAIN ent /\ ~ent[e].req /\ e \notin drop
    BY <1>2, <1>8 DEF StopCompletes
  <2>2. Held(e)
    BY <1>1, <2>1 DEF KeepInv
  <2> QED BY <1>6, <1>10, <1>11, <1>12, <2>1, <2>2 DEF Held, FlushingKept, CancellingKept, QueueingKept
<1>16. GenInv'
  <2>1. CASE es = {}
    <3>1. waiting \in Seq(Nat) /\ ToSet(waiting) = {}
      BY <1>1, <1>6, <2>1 DEF Types, Window
    <3>2. waiting = <<>>
      BY <3>1, SetOf
    <3>3. inflight' = inflight /\ gen' = gen /\ flush'[rt].pc = flush[rt].pc
      BY <1>5, <1>6, <1>11, <2>1, Located
    <3> QED BY <1>1, <1>2, <3>2, <3>3 DEF GenInv
  <2>2. CASE es # {}
    BY <1>2, <1>5, <1>6, <2>2 DEF GenInv
  <2> QED BY <2>1, <2>2
<1> QED BY <1>11, <1>13, <1>14, <1>15, <1>16 DEF LeakInv

LEMMA StopThrowsLeak == ASSUME PipeInv, PipeInv', LeakInv, StopThrows PROVE LeakInv'
<1>1. HoldInv /\ GenInv /\ Types /\ WaitingInv /\ FlushInv /\ ent \in Seq(Entry) /\ gen \in Nat
  BY DEF LeakInv, PipeInv, Types
<1>2. /\ UNCHANGED <<queued, inflight, flush, rt, live>>
      /\ live /\ Throwers # {} /\ gen' = gen + 1 /\ broken' = broken \union {"stop"}
  BY DEF StopThrows, StopArrives, runtime
<1>3. PICK first, M : first = (CHOOSE e \in Throwers : \A x \in Throwers : e <= x) /\ M = {e \in NewlyCancelled : e < first}
  OBVIOUS
<1>4. PICK a : a = CancelMarks(ent, M)
  OBVIOUS
<1>5. ent' = Change(a, {first}, LAMBDA y : [y EXCEPT !.creq = TRUE, !.cpend = TRUE])
  BY <1>3, <1>4 DEF StopThrows
<1>6. /\ Born(ent, a)
      /\ \A x \in DOMAIN ent : x \notin M => a[x] = ent[x]
      /\ \A x \in DOMAIN ent : x \in M => a[x].holds = ent[x].holds \union {"cancel"}
  BY <1>1, <1>4, CancelMarked
<1>7. a \in Seq(Entry) /\ DOMAIN a = DOMAIN ent
  BY <1>6 DEF Born
<1>8. Born(a, ent') /\ \A x \in DOMAIN a : ent'[x].holds = a[x].holds
  BY <1>5, <1>7, HalfMarked
<1>9. Born(ent, ent') /\ DOMAIN ent' = DOMAIN ent /\ \A x \in DOMAIN ent : ent'[x].rt = ent[x].rt /\ ent'[x].gen = ent[x].gen
  BY <1>6, <1>7, <1>8 DEF Born
<1>10. \A x \in DOMAIN ent : "flush" \in ent'[x].holds => "flush" \in ent[x].holds
  BY <1>6, <1>7, <1>8
<1>11. FlushingKept
  BY <1>2, SameFlushing
<1>12. HoldInv'
  BY <1>1, <1>9, <1>10, <1>11 DEF HoldInv, FlushingKept
<1>13. MarkInv' /\ KeepInv'
  BY <1>2 DEF MarkInv, KeepInv, StopCompletes
<1>14. GenInv'
  <2>1. PICK e : e \in Throwers
    BY <1>2
  <2>2. e \in inflight
    BY <1>1, <2>1 DEF Throwers, NewlyCancelled, WaitingInv, Window
  <2> QED BY <1>2, <2>2 DEF GenInv
<1>15. ProvInv'
  <2>1. PICK q \in Runtime : q = rt /\ q = rt'
    BY <1>2, Located
  <2>2. Batch(q)' = Batch(q) /\ Batch(q) \subseteq DOMAIN ent
    BY <1>2, FlushViews, Located
  <2>3. ASSUME flush'[q].pc # "idle", NEW e \in Batch(q) PROVE ~IsActive(e)'
    <3>1. FlushAt(q)
      BY <1>1, <1>2, <2>3 DEF FlushInv
    <3>2. ent[e].gen <= gen /\ e \in DOMAIN ent
      BY <1>2, <2>1, <2>2, <2>3, <3>1 DEF FlushAt
    <3>3. ent[e].gen \in Nat /\ ent'[e].gen = ent[e].gen
      BY <1>1, <1>9, <3>2, EntryGen
    <3>4. ent'[e].gen # gen'
      BY <1>1, <1>2, <3>2, <3>3
    <3> QED BY <3>4 DEF IsActive
  <2> QED BY <2>1, <2>2, <2>3, ProvBy
<1> QED BY <1>12, <1>13, <1>14, <1>15 DEF LeakInv

LEMMA CancelStartLeak == ASSUME PipeInv, PipeInv', LeakInv, NEW c \in StopNo, CancelStart(c) PROVE LeakInv'
<1>1. HoldInv /\ MarkInv /\ KeepInv /\ GenInv /\ ProvInv /\ ent \in Seq(Entry) /\ cancel \in [StopNo -> Batchwise]
  BY DEF LeakInv, PipeInv, Types, CancelTypes
<1>2. UNCHANGED <<waiting, queued, gen, inflight, flush, pending, rt, live, broken>>
  BY DEF CancelStart, dispatcher, runtime, history
<1>3. PICK p : p = IF cancel[c].ents = <<>> THEN "done" ELSE "item"
  OBVIOUS
<1>4. cancel' = [cancel EXCEPT ![c].pc = p] /\ ent' = Change(ent, Marked(c), LAMBDA y : [y EXCEPT !.crun = TRUE])
  BY <1>3 DEF CancelStart, Marked
<1>5. cancel'[c].pc = p /\ cancel'[c].ents = cancel[c].ents /\ \A d \in StopNo : d # c => cancel'[d] = cancel[d]
  <2>1. cancel[c] \in Batchwise
    BY <1>1
  <2>2. cancel'[c] = [cancel[c] EXCEPT !.pc = p] /\ \A d \in StopNo : d # c => cancel'[d] = cancel[d]
    BY <1>1, <1>4
  <2> QED BY <2>1, <2>2 DEF Batchwise
<1>6. CancellingKept
  <2>1. p = "done" => Marked(c) = {}
    BY <1>3, EmptySet DEF Marked
  <2>2. \A d \in StopNo : \A e : cancel[d].pc # "done" /\ e \in Marked(d) => cancel'[d].pc # "done" /\ e \in Marked(d)'
    BY <1>5, <2>1 DEF Marked
  <2> QED BY <2>2, StillCancelling
<1>7. /\ Born(ent, ent')
      /\ \A x \in DOMAIN ent : ent'[x].creq = ent[x].creq /\ ent'[x].cpend = ent[x].cpend /\ ent'[x].req = ent[x].req /\ ent'[x].holds = ent[x].holds
  BY <1>1, <1>4, RunBegun
<1>8. DOMAIN ent' = DOMAIN ent /\ \A x \in DOMAIN ent : ent'[x].rt = ent[x].rt /\ ent'[x].gen = ent[x].gen
  BY <1>7 DEF Born
<1>9. FlushingKept /\ QueueingKept /\ Window' = Window /\ Buffer' = Buffer
  BY <1>2, SameFlushing, StillQueueing DEF Window, Buffer
<1>10. HoldInv'
  BY <1>1, <1>7, <1>8, <1>9 DEF HoldInv, FlushingKept
<1>11. MarkInv'
  BY <1>1, <1>2, <1>6, <1>7, <1>8 DEF MarkInv, CancellingKept, StopCompletes
<1>12. KeepInv'
  BY <1>1, <1>2, <1>6, <1>7, <1>8, <1>9 DEF KeepInv, Held, FlushingKept, CancellingKept, QueueingKept, StopCompletes
<1>13. GenInv'
  BY <1>1, <1>2 DEF GenInv
<1>14. ProvInv'
  BY <1>1, <1>2, <1>7, <1>8, ProvKept DEF IsActive
<1> QED BY <1>10, <1>11, <1>12, <1>13, <1>14 DEF LeakInv

LEMMA CancelFinishFrame ==
    ASSUME NEW c, CancelFinish(c)
    PROVE  /\ UNCHANGED <<waiting, queued, flush, pending, rt, live>> /\ cancel' = [cancel EXCEPT ![c].pc = "done"]
           /\ inflight' = inflight \ Marked(c) /\ broken' \in {broken, broken \union {"index"}}
           /\ gen' = IF live /\ cancel[c].rt = rt THEN NextGen(gen, waiting, queued, inflight', flush[rt]) ELSE gen
           /\ cancel[c].pc = "item"
  BY DEF CancelFinish, Marked, dispatcher, runtime

LEMMA CancelFinishLeak == ASSUME PipeInv, PipeInv', LeakInv, NEW c \in StopNo, CancelFinish(c) PROVE LeakInv'
<1>1. HoldInv /\ MarkInv /\ KeepInv /\ GenInv /\ ProvInv /\ InflightInv /\ CancelInv /\ cancel \in [StopNo -> Batchwise]
  BY DEF LeakInv, PipeInv, CancelTypes
<1>2. /\ UNCHANGED <<waiting, queued, flush, pending, rt, live>> /\ cancel' = [cancel EXCEPT ![c].pc = "done"]
      /\ inflight' = inflight \ Marked(c) /\ broken' \in {broken, broken \union {"index"}}
      /\ gen' = IF live /\ cancel[c].rt = rt THEN NextGen(gen, waiting, queued, inflight', flush[rt]) ELSE gen
      /\ cancel[c].pc = "item"
  BY CancelFinishFrame
<1>3. PICK es : es = Marked(c)
  OBVIOUS
<1>4. Finishing(es)
  BY <1>3, CancelFinishes
<1>5. DOMAIN ent' = DOMAIN ent /\ \A x \in DOMAIN ent :
          /\ ent'[x].rt = ent[x].rt /\ ent'[x].gen = ent[x].gen /\ ent'[x].creq = ent[x].creq
          /\ x \in es => ~ent'[x].cpend /\ ent'[x].req /\ ent'[x].holds = ent[x].holds \ {"cancel"}
          /\ x \notin es => ent'[x] = ent[x]
  BY <1>4 DEF Finishing, Lasting
<1>6. \A d \in StopNo : d # c => cancel'[d] = cancel[d]
  BY <1>1, <1>2
<1>7. \A e : Cancelling(e) => Cancelling(e)' \/ e \in es
  BY <1>3, <1>6 DEF Cancelling, Marked
<1>8. FlushingKept /\ QueueingKept /\ Window' = Window /\ Buffer' = Buffer
  BY <1>2, SameFlushing, StillQueueing DEF Window, Buffer
<1>9. StopCompletes' => StopCompletes
  BY <1>2 DEF StopCompletes
<1>10. HoldInv'
  BY <1>1, <1>5, <1>8 DEF HoldInv, FlushingKept
<1>11. MarkInv'
  BY <1>1, <1>5, <1>7, <1>9 DEF MarkInv
<1>12. KeepInv'
  BY <1>1, <1>5, <1>7, <1>8, <1>9 DEF KeepInv, Held, FlushingKept, QueueingKept
<1>13. GenInv'
  <2>1. CASE live /\ cancel[c].rt = rt
    BY <1>2, <2>1 DEF GenInv, NextGen
  <2>2. CASE ~live
    BY <1>1, <1>2, <2>2 DEF GenInv
  <2>3. CASE live /\ cancel[c].rt # rt
    <3>1. ASSUME NEW e \in inflight, e \in es PROVE FALSE
      <4>1. CancelAt(c, e)
        BY <1>1, <1>2, <1>3, <3>1 DEF CancelInv
      <4> QED BY <1>1, <2>3, <4>1 DEF CancelAt, InflightInv
    <3>2. inflight' = inflight /\ gen' = gen
      BY <1>2, <1>3, <2>3, <3>1
    <3> QED BY <1>1, <1>2, <3>2 DEF GenInv
  <2> QED BY <2>1, <2>2, <2>3
<1>14. ProvInv'
  <2>1. CASE flush[rt].pc = "idle"
    <3>1. PICK q \in Runtime : q = rt /\ q = rt'
      BY <1>2, Located
    <3> QED BY <1>2, <2>1, <3>1, ProvBy
  <2>2. CASE flush[rt].pc # "idle"
    <3>1. gen' = gen
      BY <1>2, <2>2 DEF NextGen
    <3> QED BY <1>1, <1>2, <1>5, <3>1, ProvKept DEF IsActive
  <2> QED BY <2>1, <2>2
<1> QED BY <1>10, <1>11, <1>12, <1>13, <1>14 DEF LeakInv

\* Teardown severs only the cancellations whose entries it settles itself.
LEMMA TearLeak ==
    ASSUME PipeInv, PipeInv', LeakInv, live, UNCHANGED <<rt, broken>>,
           waiting' = <<>>, pending' = <<>>, queued' = <<>>, inflight' = {}, cancel' = Revoked(cancel),
           Tearing(ent', inflight \union Window, Dropped),
           flush' = [flush EXCEPT ![rt] = [AllBack(@) EXCEPT !.intact = ~LeaseOpen]],
           gen' # 0 => LeaseOpen, ~live' => gen' = 0
    PROVE  LeakInv'
<1>1. HoldInv /\ MarkInv /\ KeepInv /\ InflightInv /\ CancelInv /\ QueuedInv /\ CancelTypes
  BY DEF LeakInv, PipeInv
<1>2. PICK es, drop : es = inflight \union Window /\ drop = Dropped
  OBVIOUS
<1>3. Tearing(ent', es, drop)
  BY <1>2
<1>4. DOMAIN ent' = DOMAIN ent /\ \A x \in DOMAIN ent :
          /\ x \notin es => ent'[x].cpend = ent[x].cpend /\ ent'[x].holds = ent[x].holds
          /\ x \in es => ~ent'[x].cpend /\ ent'[x].req
          /\ ent'[x].holds = ent[x].holds \/ ent'[x].holds = ent[x].holds \ {"cancel"}
          /\ x \in es /\ ~ent[x].crun => ent'[x].holds = ent[x].holds \ {"cancel"}
          /\ x \in drop => ent'[x].req
          /\ ent[x].req => ent'[x].req
  BY <1>3 DEF Tearing
<1>5. FlushingKept /\ (\A q \in Runtime : flush'[q].pc = flush[q].pc) /\ ProvInv'
  BY BackFlushes
<1>6. \A c \in StopNo :
          /\ cancel'[c].pc = cancel[c].pc
          /\ cancel[c].pc # "scheduled" \/ cancel[c].rt # rt => Marked(c)' = Marked(c)
  BY <1>1, RevokedFacts
<1>7. ASSUME NEW e, e \notin inflight, Cancelling(e) PROVE Cancelling(e)'
  <2>1. PICK c \in StopNo : cancel[c].pc # "done" /\ e \in Marked(c)
    BY <1>7 DEF Cancelling
  <2>2. CancelAt(c, e)
    BY <1>1, <2>1 DEF CancelInv
  <2>3. cancel[c].pc # "scheduled"
    BY <1>7, <2>2 DEF CancelAt
  <2> QED BY <1>6, <2>1, <2>3 DEF Cancelling
<1>8. ASSUME NEW e \in DOMAIN ent, ent[e].crun PROVE Cancelling(e)'
  <2>1. PICK c \in StopNo : cancel[c].pc \in {"item", "record"} /\ e \in Marked(c)
    BY <1>1, <1>8 DEF InflightInv
  <2> QED BY <1>6, <2>1 DEF Cancelling
<1>9. HoldInv'
  BY <1>1, <1>4, <1>5 DEF HoldInv, FlushingKept
<1>10. MarkInv'
  <2> SUFFICES ASSUME StopCompletes', NEW e \in DOMAIN ent', "cancel" \in ent'[e].holds \/ ent'[e].cpend PROVE Cancelling(e)'
    BY DEF MarkInv
  <2>1. StopCompletes /\ e \in DOMAIN ent
    BY <1>4 DEF StopCompletes
  <2>2. CASE e \in es
    <3>1. ent[e].crun
      BY <1>4, <2>1, <2>2
    <3> QED BY <1>8, <2>1, <3>1
  <2>3. CASE e \notin es
    <3>1. Cancelling(e) /\ e \notin inflight
      BY <1>1, <1>2, <1>4, <2>1, <2>3 DEF MarkInv
    <3> QED BY <1>7, <3>1
  <2> QED BY <2>2, <2>3
<1>11. KeepInv'
  <2> SUFFICES ASSUME StopCompletes', NEW e \in DOMAIN ent', ~ent'[e].req PROVE Held(e)'
    BY DEF KeepInv
  <2>1. StopCompletes /\ e \in DOMAIN ent /\ ~ent[e].req /\ e \notin drop /\ e \notin es
    BY <1>4 DEF StopCompletes
  <2>2. Held(e) /\ e \notin Window /\ e \notin inflight
    BY <1>1, <1>2, <2>1 DEF KeepInv
  <2>3. e \notin Buffer
    BY <1>2, <2>1 DEF Dropped, Buffer
  <2>4. ~Queueing(e)
    BY <1>1, <2>1, <2>2 DEF Queueing, QueuedInv, QueuedAt
  <2>5. Flushing(e) \/ Cancelling(e)
    BY <2>2, <2>3, <2>4 DEF Held
  <2> QED BY <1>5, <1>7, <2>2, <2>5 DEF Held, FlushingKept
<1>12. GenInv'
  <2>1. gen' # 0 => flush'[rt].pc # "idle"
    BY <1>5, Located DEF LeaseOpen
  <2> QED BY <2>1 DEF GenInv
<1> QED BY <1>5, <1>9, <1>10, <1>11, <1>12 DEF LeakInv

LEMMA DisposeLeak == ASSUME PipeInv, PipeInv', LeakInv, Dispose PROVE LeakInv'
<1>1. /\ live /\ live' = FALSE
      /\ waiting' = <<>> /\ queued' = <<>> /\ gen' = 0 /\ inflight' = {}
      /\ cancel' = Revoked(cancel)
      /\ ent' = RequestRelease(Retired(ent, inflight \union Window), Dropped)
      /\ pending' = <<>>
      /\ flush' = [flush EXCEPT ![rt] = [AllBack(@) EXCEPT !.intact = ~LeaseOpen]]
      /\ UNCHANGED <<rt, broken>>
  BY DEF Dispose, DisposeDebouncer, DisposeDispatcher, Window
<1>2. Types
  BY DEF PipeInv
<1>3. Tearing(ent', inflight \union Window, Dropped)
  BY <1>1, <1>2, TearEntries
<1> QED BY <1>1, <1>3, TearLeak

LEMMA RetireEmptyLeak ==
    ASSUME PipeInv, PipeInv', LeakInv, UNCHANGED <<waiting, queued, gen, inflight, cancel, rt, live, broken>>,
           pending' = <<>>, Tearing(ent', {}, Dropped), flush' = [flush EXCEPT ![rt] = AllBack(@)]
    PROVE  LeakInv'
<1>1. HoldInv /\ MarkInv /\ KeepInv /\ GenInv
  BY DEF LeakInv
<1>2. PICK es, drop : es = {} /\ drop = Dropped
  OBVIOUS
<1>3. Tearing(ent', es, drop)
  BY <1>2
<1>4. DOMAIN ent' = DOMAIN ent /\ \A x \in DOMAIN ent :
          /\ x \notin es => ent'[x].cpend = ent[x].cpend /\ ent'[x].holds = ent[x].holds
          /\ x \in drop => ent'[x].req
          /\ ent[x].req => ent'[x].req
  BY <1>3 DEF Tearing
<1>5. FlushingKept /\ (\A q \in Runtime : flush'[q].pc = flush[q].pc) /\ ProvInv'
  BY BackFlushes
<1>6. CancellingKept /\ QueueingKept /\ Window' = Window /\ Buffer \subseteq drop
  BY <1>2, SameCancelling, StillQueueing DEF Window, Buffer, Dropped
<1>7. HoldInv'
  BY <1>1, <1>2, <1>4, <1>5 DEF HoldInv, FlushingKept
<1>8. MarkInv'
  BY <1>1, <1>2, <1>4, <1>6 DEF MarkInv, CancellingKept, StopCompletes
<1>9. KeepInv'
  BY <1>1, <1>4, <1>5, <1>6 DEF KeepInv, Held, FlushingKept, CancellingKept, QueueingKept, StopCompletes
<1>10. GenInv'
  BY <1>1, <1>5, Located DEF GenInv
<1> QED BY <1>5, <1>7, <1>8, <1>9, <1>10 DEF LeakInv

LEMMA RetireLeak == ASSUME PipeInv, PipeInv', LeakInv, Retire PROVE LeakInv'
<1>1. PICK es : es = inflight \union Window
  OBVIOUS
<1>2. /\ live /\ waiting' = <<>> /\ inflight' = {} /\ ent' = RequestRelease(Retired(ent, es), Dropped)
      /\ pending' = <<>> /\ UNCHANGED <<rt, live, broken>>
  BY <1>1 DEF Retire, Window
<1>3. Types
  BY DEF PipeInv
<1>4. Tearing(ent', es, Dropped)
  BY <1>2, <1>3, TearEntries
<1>5. CASE es = {}
  <2>1. flush' = [flush EXCEPT ![rt] = AllBack(@)] /\ UNCHANGED <<queued, gen, cancel>>
    BY <1>1, <1>5 DEF Retire, Window
  <2>2. waiting = <<>> /\ inflight = {}
    <3>1. waiting \in Seq(Nat) /\ ToSet(waiting) = {}
      BY <1>1, <1>3, <1>5 DEF Types, Window
    <3> QED BY <1>1, <1>5, <3>1, SetOf
  <2>3. UNCHANGED <<waiting, inflight>>
    BY <1>2, <2>2
  <2>4. Tearing(ent', {}, Dropped)
    BY <1>4, <1>5
  <2> QED BY <1>2, <2>1, <2>3, <2>4, RetireEmptyLeak
<1>6. CASE es # {}
  <2>1. /\ flush' = [flush EXCEPT ![rt] = [AllBack(@) EXCEPT !.intact = ~LeaseOpen]]
        /\ queued' = <<>>
        /\ gen' = NextGen(gen + 1, <<>>, <<>>, {}, flush[rt])
        /\ cancel' = Revoked(cancel)
    BY <1>1, <1>6 DEF Retire, Window
  <2>2. gen' # 0 => LeaseOpen
    BY <2>1 DEF NextGen, LeaseOpen
  <2>3. Tearing(ent', inflight \union Window, Dropped) /\ live'
    BY <1>1, <1>2, <1>4
  <2> QED BY <1>2, <2>1, <2>2, <2>3, TearLeak
<1> QED BY <1>5, <1>6

LEMMA StartRuntimeLeak == ASSUME PipeInv, PipeInv', LeakInv, StartRuntime PROVE LeakInv'
<1>1. HoldInv /\ MarkInv /\ KeepInv /\ GenInv /\ FlushTypes /\ rt \in Nat
  BY Located DEF LeakInv, PipeInv
<1>2. UNCHANGED <<ent, waiting, queued, gen, inflight, flush, cancel, pending, broken>> /\ ~live /\ live' /\ rt' = rt + 1
  BY DEF StartRuntime, debouncer, dispatcher, history
<1>3. FlushingKept /\ CancellingKept /\ QueueingKept /\ Window' = Window /\ Buffer' = Buffer
  BY <1>2, SameFlushing, SameCancelling, StillQueueing DEF Window, Buffer
<1>4. HoldInv'
  BY <1>1, <1>2, <1>3 DEF HoldInv, FlushingKept
<1>5. MarkInv'
  BY <1>1, <1>2, <1>3 DEF MarkInv, CancellingKept, StopCompletes
<1>6. KeepInv'
  BY <1>1, <1>2, <1>3 DEF KeepInv, Held, FlushingKept, CancellingKept, QueueingKept, StopCompletes
<1>7. GenInv'
  BY <1>1, <1>2 DEF GenInv
<1>8. ProvInv'
  <2>1. PICK q \in Runtime : q = rt'
    BY DEF PipeInv, Types
  <2>2. q \in Nat /\ q > rt
    BY <1>1, <1>2, <2>1 DEF Runtime
  <2>3. flush'[q] = NoFlush
    BY <1>1, <1>2, <2>2 DEF FlushTypes
  <2>4. flush'[q].pc = "idle"
    BY <2>3 DEF NoFlush
  <2> QED BY <2>1, <2>4, ProvBy
<1> QED BY <1>4, <1>5, <1>6, <1>7, <1>8 DEF LeakInv

LEMMA InitLeak == ASSUME Init PROVE LeakInv
<1>1. DOMAIN ent = {} /\ gen = 0 /\ live /\ \A r \in Runtime : flush[r].pc = "idle"
  BY DEF Init, NoFlush
<1> QED BY <1>1 DEF LeakInv, HoldInv, MarkInv, KeepInv, GenInv, ProvInv

LEMMA LeakStep == PipeInv /\ LeakInv /\ [Next]_vars => LeakInv'
<1> SUFFICES ASSUME PipeInv, LeakInv, [Next]_vars PROVE LeakInv'
  OBVIOUS
<1>0. PipeInv'
  BY PipeStep
<1>1. CASE \E m \in Msg : Push(m)
  BY <1>0, <1>1, PushLeak
<1>2. CASE DetachAndQueue \/ HandlerSettled
  BY <1>0, <1>2, DetachLeak, HandlerLeak
<1>3. CASE RunFlush
  <2>1. CASE Head(queued).gen = gen
    BY <1>0, <1>3, <2>1, RunFlushLeak
  <2>2. CASE Head(queued).gen # gen
    BY <1>0, <1>3, <2>2, RunStaleLeak
  <2> QED BY <2>1, <2>2
<1>4. CASE StartHandler \/ (\E m \in Msg : OverStep(m)) \/ UNCHANGED vars
  BY <1>0, <1>4, QuietLeak
<1>5. CASE \E r \in Runtime : FlushStep(r)
  <2>1. PICK r \in Runtime : FlushStep(r)
    BY <1>5
  <2>2. CASE FlushItem(r) \/ FlushRecover(r) \/ FlushLookup(r) \/ FlushRecord(r) \/ FlushInvalidated(r)
    <3>1. FlushStepped(r)
      BY <2>2, FlushItemSteps, FlushRecoverSteps, FlushLookupSteps, FlushRecordSteps, FlushInvalidatedSteps
    <3>2. ProvSteps(r)
      BY <2>2, FlushItemProv, FlushRecoverProv, FlushLookupProv, FlushRecordProv, FlushInvalidatedProv
    <3> QED BY <1>0, <3>1, <3>2, FlushSteppedLeak
  <2>3. CASE FlushCommit(r)
    BY <1>0, <2>3, FlushCommitLeak
  <2>4. CASE FlushAbandon(r)
    BY <1>0, <2>4, FlushAbandonLeak
  <2> QED BY <2>1, <2>2, <2>3, <2>4 DEF FlushStep
<1>6. CASE Stop \/ StopThrows
  BY <1>0, <1>6, StopLeak, StopThrowsLeak
<1>7. CASE \E c \in StopNo : CancelStep(c)
  BY <1>0, <1>7, CancelStartLeak, CancelItemLeak, CancelRecordLeak, CancelFinishLeak DEF CancelStep
<1>8. CASE Retire \/ Dispose \/ StartRuntime
  BY <1>0, <1>8, RetireLeak, DisposeLeak, StartRuntimeLeak
<1> QED BY <1>1, <1>2, <1>3, <1>4, <1>5, <1>6, <1>7, <1>8 DEF Next

(***************************************************************************)
(* What the invariants say of the budget.                                  *)
(***************************************************************************)
LEMMA PipeCharges == ASSUME PipeInv PROVE HeldIsCharged
<1>1. WaitingInv /\ PendingInv /\ QueuedInv /\ FlushInv /\ FlushTypes /\ CancelInv
  BY DEF PipeInv
<1>2. \A e \in ToSet(waiting) \union ToSet(pending) : Charged(e)
  BY <1>1 DEF WaitingInv, PendingInv, Window, Buffer, Charged
<1>3. \A e \in QueuedEntries : Charged(e) \/ ent[e].creq
  <2>1. \A b \in DOMAIN queued : \A e \in ToSet(queued[b].ents) : ~ent[e].creq => ~ent[e].req
    BY <1>1 DEF QueuedInv, QueuedAt, BatchAt
  <2> QED BY <2>1 DEF QueuedEntries, Charged
<1>4. ASSUME NEW r \in Runtime, NEW e \in ToSet(flush[r].batch) PROVE Charged(e)
  <2>1. flush[r].pc # "idle"
    <3>1. flush[r].pc = "idle" => flush[r].batch = <<>>
      BY <1>1 DEF FlushTypes, NoFlush
    <3> QED BY <1>4, <3>1, EmptySet
  <2>2. e \in Batch(r) /\ FlushAt(r)
    BY <1>1, <1>4, <2>1 DEF FlushInv, Batch
  <2> QED BY <2>2 DEF FlushAt, Charged
<1>5. ASSUME NEW c \in StopNo, cancel[c].pc # "done", NEW e \in ToSet(cancel[c].ents) PROVE Charged(e)
  <2>1. CancelAt(c, e)
    BY <1>1, <1>5 DEF CancelInv, Marked
  <2> QED BY <2>1 DEF CancelAt, Charged
<1> QED BY <1>2, <1>3, <1>4, <1>5 DEF HeldIsCharged

LEMMA LeaksNothing == ASSUME PipeInv, LeakInv, GateInv PROVE NothingLeaks
<1> SUFFICES ASSUME Quiet, StopCompletes
             PROVE  /\ \A e \in DOMAIN ent : ~Charged(e)
                    /\ ids = {} /\ inflight = {} /\ gen = 0
                    /\ \A m \in Msg : gate[m] = <<>>
  BY DEF NothingLeaks
<1>1. /\ waiting = <<>> /\ queued = <<>> /\ pending = <<>>
      /\ \A r \in Runtime : flush[r].pc = "idle"
      /\ \A c \in StopNo : cancel[c].pc = "done"
      /\ \A m \in Msg : over[m].pc = "none"
  BY DEF Quiet
<1>2. HoldInv /\ MarkInv /\ KeepInv /\ GenInv /\ Types /\ InflightInv /\ IdsInv /\ FlushTypes
  BY DEF LeakInv, PipeInv
<1>3. /\ Window = {} /\ Buffer = {} /\ DOMAIN queued = {}
      /\ \A e : ~Flushing(e) /\ ~Cancelling(e) /\ ~Queueing(e) /\ ~Held(e)
  BY <1>1, EmptySet DEF Window, Buffer, Flushing, Cancelling, Queueing, Held
<1>4. ASSUME NEW e \in DOMAIN ent PROVE ~Charged(e) /\ ~ent[e].cpend
  <2>1. ent[e] \in Entry
    BY <1>2 DEF Types
  <2>2. ent[e].holds \subseteq Holder
    BY <2>1 DEF Entry
  <2>3. "flush" \notin ent[e].holds /\ "cancel" \notin ent[e].holds /\ ~ent[e].cpend /\ ent[e].req
    BY <1>2, <1>3 DEF HoldInv, MarkInv, KeepInv
  <2> QED BY <2>2, <2>3 DEF Charged, Holder
<1>5. Batch(rt) = {} /\ rt \in Runtime
  <2>1. rt \in Runtime
    BY Located
  <2>2. flush[rt].batch = <<>>
    BY <1>1, <1>2, <2>1 DEF FlushTypes, NoFlush
  <2> QED BY <2>1, <2>2, EmptySet DEF Batch
<1>6. inflight = {}
  BY <1>2, <1>3, <1>4, <1>5, Located DEF InflightInv
<1>7. ids = {}
  BY <1>2, <1>3, <1>6 DEF IdsInv
<1>8. gen = 0
  BY <1>1, <1>2, <1>5, <1>6 DEF GenInv
<1>9. ASSUME NEW m \in Msg PROVE gate[m] = <<>>
  <2>1. MemberInv /\ ReceiptHeldInv /\ gate[m] \in Seq(Actor)
    BY DEF GateInv, StoreTypes
  <2>2. receipt[m] = "none"
    BY <1>1, <2>1 DEF ReceiptHeldInv, KeepsReceipt
  <2>3. \A a : ~Claims(a, m)
    BY <1>1 DEF Claims, Waits, CancelWaits
  <2>4. DOMAIN gate[m] = {}
    BY <2>1, <2>2, <2>3 DEF MemberInv
  <2>5. DOMAIN gate[m] = 1 .. Len(gate[m]) /\ Len(gate[m]) \in Nat
    BY <2>1
  <2>6. Len(gate[m]) = 0
    <3>1. Len(gate[m]) >= 1 => 1 \in DOMAIN gate[m]
      BY <2>5
    <3> QED BY <2>4, <2>5, <3>1
  <2> QED BY <2>1, <2>6
<1> QED BY <1>4, <1>6, <1>7, <1>8, <1>9

LEMMA PipeOrder == ASSUME PipeInv PROVE ArrivalOrder
  BY DEF PipeInv, RisingInv, Rising, ArrivalOrder

-----------------------------------------------------------------------------
\* The invariant of the inbound path: where every retained frame is and what it costs
\* there (PipeInv), what is still indexed, pinned or under way (LeakInv), and who is in
\* a gate of the outcome store and why (GateInv).
BudgetInv == PipeInv /\ LeakInv /\ GateInv

\* Debouncer (bounded-inbound-debouncer.ts), flush (ingress-dedupe.ts) and dispatcher
\* (inbound-queue.ts) agree at every await on the place, the charge and the order of every
\* frame they retain, whatever /stop, retirement, teardown and the store do in between.
THEOREM BudgetHolds == Spec => []BudgetInv
<1>1. Init => BudgetInv
  BY InitPipe, InitLeak, InitGate DEF BudgetInv
<1>2. BudgetInv /\ [Next]_vars => BudgetInv'
  BY PipeStep, LeakStep, GateStep DEF BudgetInv
<1> QED BY <1>1, <1>2, PTL DEF Spec

\* The retention budget (inbound-retention.ts) is exact along the whole inbound path: a
\* frame that the debouncer, a flush, a cancellation or the dispatcher still holds is
\* charged; when all of them are done nothing is charged, indexed or locked, unless
\* cancelKey threw; and the lease never refuses (offer) what push has reserved.
THEOREM BudgetIsExact == Spec => []RetentionExact
<1>1. BudgetInv => RetentionExact
  <2> SUFFICES ASSUME BudgetInv PROVE RetentionExact
    OBVIOUS
  <2>1. PipeInv /\ LeakInv /\ GateInv /\ OfferAlwaysFits
    BY DEF BudgetInv, PipeInv
  <2> QED BY <2>1, PipeCharges, LeaksNothing DEF RetentionExact
<1> QED BY <1>1, BudgetHolds, PTL

\* The dispatcher's turns (startTurn, inbound-queue.ts) consume frames in the order in
\* which push retained them: no lease that ends late, no /stop and no replacement of the
\* runtime lets a later frame overtake an earlier one.
THEOREM TurnsTakeTheOrderOfArrival == Spec => []ArrivalOrder
<1>1. BudgetInv => ArrivalOrder
  BY PipeOrder DEF BudgetInv
<1> QED BY <1>1, BudgetHolds, PTL
=============================================================================
