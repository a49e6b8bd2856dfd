-------------------------- MODULE ClientSendProofs --------------------------
(***************************************************************************)
(* The browser client's reliable send path, for any number of messages,    *)
(* dials, results, calls and nested calls: nothing that belongs to an      *)
(* earlier connection brings a session back, an interval without results   *)
(* costs one recovery, the retry timer is armed when it is needed, no      *)
(* message is stranded, and what reaches the wire and what listeners are   *)
(* told is in order.                                                       *)
(*                                                                         *)
(* A running call is a stack of tasks, and a listener may call in between  *)
(* any two of them.  So the invariant says of every pending task what it   *)
(* may still rely on when its turn comes: a registration of the current    *)
(* epoch has its connection, a redial scheduled before a disconnect is of  *)
(* an older lifecycle, and an instance that was retired is down or has the *)
(* task that takes it down ahead, for the epoch and socket it has then.    *)
(***************************************************************************)
EXTENDS ClientSend, FiniteSetTheorems, SequenceTheorems, TLAPS

-----------------------------------------------------------------------------
(* Sequences and their elements, whatever these are. *)

IsSeq(s) == s \in Seq(ToSet(s))

LEMMA SeqFacts ==
    ASSUME NEW s, IsSeq(s)
    PROVE  Len(s) \in Nat /\ DOMAIN s = 1 .. Len(s) /\ s = [i \in 1 .. Len(s) |-> s[i]]
  BY DEF IsSeq

\* A function on an initial segment is a sequence.
LEMMA FunctionIsSeq ==
    ASSUME NEW f, NEW n \in Nat, f = [i \in 1 .. n |-> f[i]]
    PROVE  IsSeq(f) /\ Len(f) = n
<1>1. f \in [1 .. n -> ToSet(f)]
  BY DEF ToSet
<1> QED BY <1>1 DEF IsSeq

LEMMA EmptyFacts == IsSeq(<<>>) /\ ToSet(<<>>) = {}
  BY DEF IsSeq, ToSet

LEMMA OneFacts == ASSUME NEW x PROVE IsSeq(<<x>>) /\ ToSet(<<x>>) = {x}
<1>1. ToSet(<<x>>) = {x}
  BY DEF ToSet
<1> QED BY <1>1 DEF IsSeq

LEMMA TwoFacts == ASSUME NEW x, NEW y PROVE IsSeq(<<x, y>>) /\ ToSet(<<x, y>>) = {x, y}
<1>1. ToSet(<<x, y>>) = {x, y}
  BY DEF ToSet
<1> QED BY <1>1 DEF IsSeq

LEMMA ThreeFacts == ASSUME NEW x, NEW y, NEW z PROVE IsSeq(<<x, y, z>>) /\ ToSet(<<x, y, z>>) = {x, y, z}
<1>1. ToSet(<<x, y, z>>) = {x, y, z}
  BY DEF ToSet
<1> QED BY <1>1 DEF IsSeq

LEMMA ConcatFacts ==
    ASSUME NEW s, NEW u, IsSeq(s), IsSeq(u)
    PROVE  IsSeq(s \o u) /\ ToSet(s \o u) = ToSet(s) \cup ToSet(u)
<1> DEFINE S == ToSet(s) \cup ToSet(u)
<1>1. s \in Seq(S) /\ u \in Seq(S)
  BY DEF IsSeq
<1>2. PICK m \in Nat, n \in Nat : m = Len(s) /\ n = Len(u)
  BY <1>1
<1>3. /\ s \o u \in Seq(S) /\ Len(s \o u) = m + n
      /\ \A i \in 1 .. m + n : (s \o u)[i] = IF i <= m THEN s[i] ELSE u[i - m]
  BY <1>1, <1>2
<1>4. DOMAIN s = 1 .. m /\ DOMAIN u = 1 .. n /\ DOMAIN (s \o u) = 1 .. m + n
  BY <1>1, <1>2, <1>3
<1>5. ToSet(s \o u) \subseteq S
  BY <1>3, <1>4 DEF ToSet
<1>6. ToSet(s) \subseteq ToSet(s \o u)
  <2> SUFFICES ASSUME NEW i \in 1 .. m PROVE s[i] \in ToSet(s \o u)
    BY <1>4 DEF ToSet
  <2>1. i \in 1 .. m + n /\ (s \o u)[i] = s[i]
    BY <1>3
  <2> QED BY <1>4, <2>1 DEF ToSet
<1>7. ToSet(u) \subseteq ToSet(s \o u)
  <2> SUFFICES ASSUME NEW i \in 1 .. n PROVE u[i] \in ToSet(s \o u)
    BY <1>4 DEF ToSet
  <2>1. i + m \in 1 .. m + n /\ ~(i + m <= m) /\ (i + m) - m = i
    BY <1>2
  <2>2. (s \o u)[i + m] = u[i]
    BY <1>3, <2>1
  <2> QED BY <1>4, <2>1, <2>2 DEF ToSet
<1>8. ToSet(s \o u) = S
  BY <1>5, <1>6, <1>7
<1> QED BY <1>3, <1>8 DEF IsSeq

LEMMA TailFacts ==
    ASSUME NEW s, IsSeq(s), s # <<>>
    PROVE  IsSeq(Tail(s)) /\ ToSet(s) = {Head(s)} \cup ToSet(Tail(s))
<1>1. s \in Seq(ToSet(s))
  BY DEF IsSeq
<1>2. PICK n \in Nat : n = Len(s)
  BY <1>1
<1>3. n >= 1 /\ DOMAIN s = 1 .. n /\ Head(s) = s[1]
  BY <1>1, <1>2
<1>4. /\ Tail(s) \in Seq(ToSet(s)) /\ Len(Tail(s)) = n - 1 /\ DOMAIN Tail(s) = 1 .. n - 1
      /\ \A i \in 1 .. n - 1 : Tail(s)[i] = s[i + 1]
  BY <1>1, <1>2, <1>3
<1>5. IsSeq(Tail(s))
  <2>1. n - 1 \in Nat
    BY <1>3
  <2>2. PICK r : r = Tail(s)
    OBVIOUS
  <2>3. r \in Seq(ToSet(s)) /\ Len(r) = n - 1
    BY <1>4, <2>2
  <2>4. r = [i \in 1 .. n - 1 |-> r[i]]
    BY <2>3
  <2> QED BY <2>1, <2>2, <2>4, FunctionIsSeq
<1>6. ToSet(Tail(s)) \subseteq ToSet(s)
  BY <1>3, <1>4 DEF ToSet
<1>7. ASSUME NEW i \in 1 .. n PROVE s[i] = Head(s) \/ s[i] \in ToSet(Tail(s))
  <2>1. CASE i = 1
    BY <1>3, <2>1
  <2>2. CASE i # 1
    <3>1. i - 1 \in 1 .. n - 1 /\ (i - 1) + 1 = i
      BY <2>2
    <3>2. Tail(s)[i - 1] = s[i]
      BY <1>4, <3>1
    <3> QED BY <1>4, <3>1, <3>2 DEF ToSet
  <2> QED BY <2>1, <2>2
<1>8. Head(s) \in ToSet(s)
  BY <1>3 DEF ToSet
<1>9. ToSet(s) \subseteq {Head(s)} \cup ToSet(Tail(s))
  BY <1>3, <1>7 DEF ToSet
<1> QED BY <1>5, <1>6, <1>8, <1>9

LEMMA AppendFacts ==
    ASSUME NEW s, NEW x, IsSeq(s)
    PROVE  IsSeq(Append(s, x)) /\ ToSet(Append(s, x)) = ToSet(s) \cup {x}
<1>1. Append(s, x) = s \o <<x>>
  <2>1. s \in Seq(ToSet(s) \cup {x})
    BY DEF IsSeq
  <2> QED BY <2>1, AppendIsConcat
<1> QED BY <1>1, OneFacts, ConcatFacts

LEMMA SubSeqIsSeq ==
    ASSUME NEW s, IsSeq(s), NEW m \in Nat, NEW n \in Nat
    PROVE  IsSeq(SubSeq(s, m + 1, n))
<1> DEFINE f == SubSeq(s, m + 1, n)
<1>1. PICK k \in Nat : k = IF m + 1 <= n THEN n - m ELSE 0
  <2>1. m + 1 <= n => n - m \in Nat
    OBVIOUS
  <2> QED BY <2>1
<1>2. f \in Seq(ToSet(s) \cup {s[i] : i \in m + 1 .. n}) /\ Len(f) = k
  <2>1. \A i \in m + 1 .. n : s[i] \in ToSet(s) \cup {s[j] : j \in m + 1 .. n}
    OBVIOUS
  <2>2. s \in Seq(ToSet(s) \cup {s[j] : j \in m + 1 .. n})
    BY DEF IsSeq
  <2> QED BY <1>1, <2>1, <2>2, SubSeqProperties
<1>3. f = [i \in 1 .. k |-> f[i]]
  BY <1>2
<1> QED BY <1>3, FunctionIsSeq

\* What is computed place by place from a sequence is one.
LEMMA MapIsSeq ==
    ASSUME NEW s, IsSeq(s), NEW f, f = [k \in DOMAIN s |-> f[k]]
    PROVE  IsSeq(f)
<1>1. Len(s) \in Nat /\ DOMAIN s = 1 .. Len(s)
  BY SeqFacts
<1> QED BY <1>1, FunctionIsSeq

LEMMA ThoseIsSeq ==
    ASSUME NEW s, NEW u, IsSeq(u), NEW K \in SUBSET DOMAIN u
    PROVE  IsSeq(Those(s, K))
<1>1. Len(u) \in Nat /\ DOMAIN u = 1 .. Len(u)
  BY SeqFacts
<1>2. IsFiniteSet(1 .. Len(u))
  BY <1>1, FS_Interval
<1>3. Cardinality(K) \in Nat
  BY <1>1, <1>2, FS_Subset, FS_CardinalityType
<1>4. Those(s, K) = [n \in 1 .. Cardinality(K) |-> Those(s, K)[n]]
  BY DEF Those
<1> QED BY <1>3, <1>4, FunctionIsSeq

-----------------------------------------------------------------------------
(* The invariant. *)

Flow == [epoch : Nat, gen : Nat, pc : {"register", "unwrap"}]
Legible(frames) == IsSeq(frames) /\ \A fr \in ToSet(frames) : IsSeq(fr.ids)
SeqInv ==
    /\ IsSeq(queue) /\ IsSeq(ledger) /\ IsSeq(events) /\ IsSeq(first) /\ IsSeq(stack)
    /\ Legible(pend)
CounterInv == epoch \in Nat /\ gen \in Nat /\ life \in Nat

\* A registration of the current epoch belongs to a connection that stands.
Current(f) == f \in Flow /\ f.epoch <= epoch /\ (f.epoch = epoch => connected \/ term)

\* What a terminally retired instance may still have to do.
Ending == {"callout", "fan", "tell", "transition", "retire", "teardown", "down"}

\* What a pending task may rely on when its turn comes.
Fine(x) ==
    /\ x.t = "unwrap" => Current(x.flow)
    /\ x.t = "deliver" => Legible(x.frames)
    /\ x.t = "resched" => x.life \in Nat /\ x.life <= life /\ (disc => x.life < life)
    /\ x.t \in {"retire", "teardown"} => term /\ x.gen = gen
    /\ x.t = "down" => term /\ conn = "off" /\ ~redial
    /\ term => x.t \in Ending

Down == conn = "off" /\ ~redial /\ ~timer /\ key = 0
\* A task that takes a retired instance down.
TakesDown(x) == x.t \in {"retire", "down"} \/ (x.t = "teardown" /\ x.epoch = epoch)

KeyInv == key # 0 => (connected /\ key = epoch) \/ term
ClosedInv == disc => Down
RetiredInv == term => ~timer /\ (Down \/ \E x \in ToSet(stack) : TakesDown(x))
FlowInv == \A f \in flows : Current(f)
TaskInv == \A x \in ToSet(stack) : Fine(x)
SendInv == SeqInv /\ CounterInv /\ KeyInv /\ ClosedInv /\ RetiredInv /\ FlowInv /\ TaskInv

\* The invariant is as strong as the property.
LEMMA SendInvImplies == SendInv => NoStaleSession
<1> SUFFICES ASSUME SendInv PROVE NoStaleSession
  OBVIOUS
<1>1. stack = <<>> => ToSet(stack) = {}
  BY EmptyFacts
<1>2. stack = <<>> /\ term => Down
  BY <1>1 DEF SendInv, RetiredInv
<1> QED BY <1>2 DEF SendInv, KeyInv, ClosedInv, Down, NoStaleSession, KeyIsCurrent, StaysDown,
                    RetiredIsDown, ClosedIsDown

-----------------------------------------------------------------------------
(* Steps of the running call. *)

\* A step that adds no tasks but those of T, and leaves all but the one on top.
Leads(T) ==
    /\ IsSeq(stack') /\ ToSet(stack') \subseteq T \cup ToSet(stack)
    /\ \A x \in ToSet(stack) : x \in ToSet(stack') \/ (stack # <<>> /\ x = Head(stack))

LEMMA RunLeads ==
    ASSUME IsSeq(stack), stack # <<>>, NEW ts, IsSeq(ts), Run(ts)
    PROVE  Leads(ToSet(ts))
<1>1. IsSeq(Tail(stack)) /\ ToSet(stack) = {Head(stack)} \cup ToSet(Tail(stack))
  BY TailFacts
<1>2. IsSeq(stack') /\ ToSet(stack') = ToSet(ts) \cup ToSet(Tail(stack))
  BY <1>1, ConcatFacts DEF Run
<1> QED BY <1>1, <1>2 DEF Leads

LEMMA BeginLeads ==
    ASSUME NEW ts, IsSeq(ts), Begin(ts)
    PROVE  stack = <<>> /\ Leads(ToSet(ts))
  BY EmptyFacts DEF Begin, Leads

LEMMA CallLeads ==
    ASSUME IsSeq(stack), NEW ts, IsSeq(ts), Call(ts)
    PROVE  Leads(ToSet(ts)) /\ ToSet(stack) \subseteq ToSet(stack')
<1>1. CASE stack = <<>> /\ stack' = ts
  BY <1>1, EmptyFacts DEF Leads
<1>2. CASE stack' = ts \o stack
  <2>1. IsSeq(stack') /\ ToSet(stack') = ToSet(ts) \cup ToSet(stack)
    BY <1>2, ConcatFacts
  <2> QED BY <2>1 DEF Leads
<1> QED BY <1>1, <1>2 DEF Call

\* What the task on top relies on.
LEMMA TopFine ==
    ASSUME SendInv, stack # <<>>
    PROVE  Fine(Head(stack))
<1>1. Head(stack) \in ToSet(stack)
  BY TailFacts DEF SendInv, SeqInv
<1> QED BY <1>1 DEF SendInv, TaskInv

\* No call is running: a retired instance is down.
LEMMA IdleIsDown ==
    ASSUME SendInv, stack = <<>>, term
    PROVE  Down
  BY EmptyFacts DEF SendInv, RetiredInv

core == <<key, epoch, disc, term, conn, connected, redial, gen, life>>

\* A step that leaves the session and the socket alone.
LEMMA QuietStep ==
    ASSUME SendInv, SeqInv', UNCHANGED core, timer' = timer \/ timer' = FALSE,
           \A f \in flows' : Current(f),
           NEW T, Leads(T), \A x \in T : Fine(x),
           stack # <<>> => Head(stack) \in ToSet(stack') \/ ~TakesDown(Head(stack))
    PROVE  SendInv'
<1>1. CounterInv' /\ KeyInv'
  BY DEF SendInv, CounterInv, KeyInv, core
<1>2. \A f : Current(f)' <=> Current(f)
  BY DEF Current, core
<1>3. \A x : Fine(x)' <=> Fine(x)
  BY <1>2 DEF Fine, core
<1>4. \A x : TakesDown(x)' <=> TakesDown(x)
  BY DEF TakesDown, core
<1>5. Down => Down'
  BY DEF Down, core
<1>6. ClosedInv'
  BY <1>5 DEF SendInv, ClosedInv, core
<1>7. FlowInv'
  BY <1>2 DEF FlowInv
<1>8. TaskInv'
  BY <1>3 DEF SendInv, TaskInv, Leads
<1>9. ASSUME NEW x \in ToSet(stack), TakesDown(x) PROVE x \in ToSet(stack')
  BY <1>9 DEF Leads
<1>10. RetiredInv'
  BY <1>4, <1>5, <1>9 DEF SendInv, RetiredInv, core
<1> QED BY <1>1, <1>6, <1>7, <1>8, <1>10 DEF SendInv

\* A step of an instance that is open, whatever it does to the socket: a new epoch
\* or the same connection.
LEMMA LiveStep ==
    ASSUME SendInv, SeqInv', ~term, term' = term, ~disc', life' = life, gen' \in Nat,
           epoch' = epoch + 1 \/ (epoch' = epoch /\ connected' = connected),
           key' = 0 \/ (connected' /\ key' = epoch') \/ (key' = key /\ epoch' = epoch),
           \A f \in flows' : f \in flows \/ Current(f)',
           NEW T, Leads(T), \A x \in T : Fine(x)'
    PROVE  SendInv'
<1>1. epoch \in Nat /\ epoch' \in Nat /\ epoch <= epoch'
  BY DEF SendInv, CounterInv
<1>2. CounterInv'
  BY <1>1 DEF SendInv, CounterInv
<1>3. KeyInv'
  BY <1>1 DEF SendInv, KeyInv
<1>4. ASSUME NEW f, Current(f) PROVE Current(f)'
  <2>1. f.epoch \in Nat
    BY <1>4 DEF Current, Flow
  <2> QED BY <1>1, <1>4, <2>1 DEF Current
<1>5. FlowInv'
  BY <1>4 DEF SendInv, FlowInv
<1>6. ASSUME NEW x, Fine(x) PROVE Fine(x)'
  <2>1. x.t = "unwrap" => Current(x.flow)'
    BY <1>4, <1>6 DEF Fine
  <2>2. /\ x.t = "deliver" => Legible(x.frames)
        /\ x.t = "resched" => x.life \in Nat /\ x.life <= life
        /\ x.t \notin {"retire", "teardown", "down"}
    BY <1>6 DEF Fine
  <2>3. Legible(x.frames)' <=> Legible(x.frames)
    BY DEF Legible
  <2> QED BY <2>1, <2>2, <2>3 DEF Fine
<1>7. TaskInv'
  BY <1>6 DEF SendInv, TaskInv, Leads
<1> QED BY <1>2, <1>3, <1>5, <1>7 DEF SendInv, ClosedInv, RetiredInv

-----------------------------------------------------------------------------
(* The tasks a step leads to. *)

\* Tasks that rely on nothing, and those that rely on nothing while the instance
\* is not retired.
Free == {"callout", "fan", "tell", "transition"}
Plain == Free \cup {"drain", "loop", "arm", "flush", "established"}

LEMMA FreeIsFine ==
    ASSUME NEW x, x.t \in Free
    PROVE  Fine(x) /\ ~TakesDown(x)
  BY DEF Free, Fine, TakesDown, Ending

LEMMA PlainIsFine ==
    ASSUME NEW x, x.t \in Plain, ~term
    PROVE  Fine(x) /\ ~TakesDown(x)
  BY DEF Plain, Free, Fine, TakesDown, Ending

LEMMA TaskKind ==
    /\ \A t : Task(t).t = t
    /\ Callout.t = "callout"
  BY DEF Task, Callout

LEMMA FanFacts == IsSeq(Fan) /\ \A x \in ToSet(Fan) : x.t = "fan"
  BY EmptyFacts, OneFacts, TaskKind DEF Fan

LEMMA FailsFacts ==
    ASSUME NEW is, IsSeq(is)
    PROVE  IsSeq(Fails(is)) /\ \A x \in ToSet(Fails(is)) : x.t = "transition"
<1>1. PICK f : f = Fails(is)
  OBVIOUS
<1>2. f = [k \in DOMAIN is |-> Transition(is[k], "failed")]
  BY <1>1 DEF Fails
<1>3. f = [k \in DOMAIN is |-> f[k]]
  BY <1>2
<1>4. IsSeq(f)
  BY <1>3, MapIsSeq
<1>5. ASSUME NEW k \in DOMAIN f PROVE f[k].t = "transition"
  BY <1>2, <1>5 DEF Transition
<1>6. \A x \in ToSet(f) : x.t = "transition"
  BY <1>5 DEF ToSet
<1> QED BY <1>1, <1>4, <1>6

LEMMA ApplyFacts ==
    ASSUME NEW fr, IsSeq(fr.ids)
    PROVE  IsSeq(Apply(fr)) /\ \A x \in ToSet(Apply(fr)) : x.t = "transition"
<1>1. PICK f : f = Apply(fr)
  OBVIOUS
<1>2. PICK s : f = [k \in DOMAIN fr.ids |-> Transition(fr.ids[k], s)]
  BY <1>1 DEF Apply
<1>3. f = [k \in DOMAIN fr.ids |-> f[k]]
  BY <1>2
<1>4. IsSeq(f)
  BY <1>3, MapIsSeq
<1>5. ASSUME NEW k \in DOMAIN f PROVE f[k].t = "transition"
  BY <1>2, <1>5 DEF Transition
<1>6. \A x \in ToSet(f) : x.t = "transition"
  BY <1>5 DEF ToSet
<1> QED BY <1>1, <1>4, <1>6

LEMMA IdsFacts ==
    ASSUME NEW l, IsSeq(l)
    PROVE  IsSeq(IdsOf(l)) /\ DOMAIN IdsOf(l) = DOMAIN l
<1>1. PICK f : f = IdsOf(l)
  OBVIOUS
<1>2. f = [k \in DOMAIN l |-> l[k].id]
  BY <1>1 DEF IdsOf
<1>3. f = [k \in DOMAIN l |-> f[k]] /\ DOMAIN f = DOMAIN l
  BY <1>2
<1>4. IsSeq(f)
  BY <1>3, MapIsSeq
<1> QED BY <1>1, <1>3, <1>4

\* takePendingSendIds
LEMMA TakePendingFacts ==
    ASSUME SeqInv
    PROVE  IsSeq(Fails(TakePending)) /\ \A x \in ToSet(Fails(TakePending)) : x.t = "transition"
<1>1. IsSeq(ledger) /\ IsSeq(queue)
  BY DEF SeqInv
<1>2. PICK K : K = {k \in DOMAIN ledger : ledger[k].id \notin ToSet(queue)}
  OBVIOUS
<1>3. IsSeq(Those(IdsOf(ledger), K))
  BY <1>1, <1>2, ThoseIsSeq
<1>4. IsSeq(TakePending)
  BY <1>1, <1>2, <1>3, ConcatFacts DEF TakePending
<1> QED BY <1>4, FailsFacts

\* recordUnacked: the ledger afterwards and what it evicts.
LEMMA RecordedFacts ==
    ASSUME SeqInv, NEW i, NEW rec, rec = Recorded(i)
    PROVE  /\ IsSeq(Kept(rec)) /\ IsSeq(Confirmed(Kept(rec), i))
           /\ IsSeq(Fails(Evicted(rec))) /\ \A x \in ToSet(Fails(Evicted(rec))) : x.t = "transition"
<1>1. IsSeq(rec)
  BY AppendFacts DEF Recorded, SeqInv
<1>2. Len(rec) \in Nat
  BY <1>1, SeqFacts
<1>3. PICK n \in Nat : n = Excess(rec)
  BY <1>2, BoundAssumption DEF Excess
<1>4. PICK l : l = Kept(rec)
  OBVIOUS
<1>5. IsSeq(l)
  BY <1>1, <1>2, <1>3, <1>4, SubSeqIsSeq DEF Kept
<1>6. PICK f : f = Confirmed(l, i)
  OBVIOUS
<1>7. f = [k \in DOMAIN l |-> f[k]]
  BY <1>6 DEF Confirmed
<1>8. IsSeq(f)
  BY <1>5, <1>7, MapIsSeq
<1>9. IsSeq(Evicted(rec))
  <2>1. IsSeq(IdsOf(rec))
    BY <1>1, IdsFacts
  <2>2. IsSeq(SubSeq(IdsOf(rec), 0 + 1, n))
    BY <1>3, <2>1, SubSeqIsSeq
  <2> QED BY <1>3, <2>2 DEF Evicted
<1> QED BY <1>4, <1>5, <1>6, <1>8, <1>9, FailsFacts

\* drainOwnedResult, followed by `rest'.
LEMMA DeliverFacts ==
    ASSUME SeqInv, NEW fr, IsSeq(fr.ids), NEW rest, IsSeq(rest), Deliver(fr, rest)
    PROVE  /\ IsSeq(ledger') /\ IsSeq(stack') /\ ToSet(rest) \subseteq ToSet(stack')
           /\ timer' = timer \/ timer' = FALSE
           /\ \A x \in ToSet(stack') : x.t \in {"transition", "arm", "callout"} \/ x \in ToSet(rest)
<1>1. PICK K : K = {k \in DOMAIN ledger : ledger[k].id \notin ToSet(fr.ids)}
  OBVIOUS
<1>2. PICK left : left = Those(ledger, K)
  OBVIOUS
<1>3. IsSeq(ledger) /\ K \in SUBSET DOMAIN ledger
  BY <1>1 DEF SeqInv
<1>4. IsSeq(left) /\ ledger' = left
  BY <1>1, <1>2, <1>3, ThoseIsSeq DEF Deliver
<1>5. PICK a : /\ stack' = Apply(fr) \o a \o <<Callout>> \o rest
               /\ a = ArmAfter(left) \/ a = <<>>
  BY <1>1, <1>2 DEF Deliver
<1>6. IsSeq(a) /\ \A x \in ToSet(a) : x.t = "arm"
  BY <1>5, EmptyFacts, OneFacts DEF ArmAfter, Arm
<1>7. IsSeq(Apply(fr)) /\ \A x \in ToSet(Apply(fr)) : x.t = "transition"
  BY ApplyFacts
<1>8. PICK s : s = Apply(fr) \o a
  OBVIOUS
<1>9. IsSeq(s) /\ \A x \in ToSet(s) : x.t \in {"transition", "arm"}
  BY <1>6, <1>7, <1>8, ConcatFacts
<1>10. PICK u : u = s \o <<Callout>>
  OBVIOUS
<1>11. IsSeq(u) /\ \A x \in ToSet(u) : x.t \in {"transition", "arm", "callout"}
  <2>1. IsSeq(<<Callout>>) /\ ToSet(<<Callout>>) = {Callout}
    BY OneFacts
  <2>2. IsSeq(u) /\ ToSet(u) = ToSet(s) \cup {Callout}
    BY <1>9, <1>10, <2>1, ConcatFacts
  <2> QED BY <1>9, <2>2, TaskKind
<1>12. stack' = u \o rest
  BY <1>5, <1>8, <1>10
<1>13. IsSeq(stack') /\ ToSet(stack') = ToSet(u) \cup ToSet(rest)
  BY <1>11, <1>12, ConcatFacts
<1>14. timer' = timer \/ timer' = FALSE
  BY DEF Deliver
<1> QED BY <1>4, <1>11, <1>13, <1>14

-----------------------------------------------------------------------------
(* The steps, one lemma each, in the order of the model. *)

LEMMA SequencesStay ==
    ASSUME SeqInv, IsSeq(stack'), UNCHANGED <<queue, ledger, events, first, pend>>
    PROVE  SeqInv'
  BY DEF SeqInv, Legible

LEMMA InitInv == Init => SendInv
<1> SUFFICES ASSUME Init PROVE SendInv
  OBVIOUS
<1>1. SeqInv /\ ToSet(stack) = {}
  BY EmptyFacts DEF Init, SeqInv, Legible
<1>2. CounterInv /\ KeyInv /\ ClosedInv /\ RetiredInv /\ FlowInv
  BY DEF Init, CounterInv, KeyInv, ClosedInv, RetiredInv, FlowInv
<1> QED BY <1>1, <1>2 DEF SendInv, TaskInv

\* The task on top ends: it takes nothing down, and leads to free tasks only.
LEMMA FreeStep ==
    ASSUME SendInv, SeqInv', UNCHANGED <<core, timer, flows>>, stack # <<>>, ~TakesDown(Head(stack)),
           NEW ts, IsSeq(ts), Run(ts), \A x \in ToSet(ts) : x.t \in Free
    PROVE  SendInv'
<1>1. Leads(ToSet(ts))
  BY RunLeads DEF SendInv, SeqInv
<1>2. \A x \in ToSet(ts) : Fine(x)
  BY FreeIsFine
<1>3. \A f \in flows' : Current(f)
  BY DEF SendInv, FlowInv
<1> QED BY <1>1, <1>2, <1>3, QuietStep

LEMMA ReturnKeeps == ASSUME SendInv, Return PROVE SendInv'
<1>1. stack # <<>> /\ ~TakesDown(Head(stack)) /\ Run(<<>>)
  BY DEF Return, Top, TakesDown
<1>2. UNCHANGED <<core, timer, flows>> /\ UNCHANGED <<queue, ledger, events, first, pend>>
  BY DEF Return, core, session, raw, sock, tracking, ownership, log
<1>3. IsSeq(stack')
  BY <1>1, EmptyFacts, RunLeads DEF SendInv, SeqInv, Leads
<1>4. SeqInv'
  BY <1>2, <1>3, SequencesStay DEF SendInv
<1> QED BY <1>1, <1>2, <1>4, EmptyFacts, FreeStep

LEMMA FanOutKeeps == ASSUME SendInv, FanOut PROVE SendInv'
<1>1. stack # <<>> /\ ~TakesDown(Head(stack))
  BY DEF FanOut, Top, TakesDown
<1>2. UNCHANGED <<core, timer, flows>> /\ UNCHANGED <<queue, ledger, first, pend>>
  BY DEF FanOut, core, session, raw, sock, ownership, log
<1>3. PICK ts : /\ Run(ts) /\ IsSeq(ts) /\ \A x \in ToSet(ts) : x.t \in Free
  <2>1. CASE events = <<>>
    BY <2>1, EmptyFacts DEF FanOut
  <2>2. CASE events # <<>>
    <3>1. PICK e : e = [t |-> "tell", event |-> Head(events)]
      OBVIOUS
    <3>2. Run(<<Callout, e, Task("fan")>>) /\ e.t = "tell"
      BY <2>2, <3>1 DEF FanOut
    <3>3. IsSeq(<<Callout, e, Task("fan")>>) /\ ToSet(<<Callout, e, Task("fan")>>) = {Callout, e, Task("fan")}
      BY ThreeFacts
    <3> QED BY <3>2, <3>3, TaskKind DEF Free
  <2> QED BY <2>1, <2>2
<1>4. IsSeq(stack')
  BY <1>1, <1>3, RunLeads DEF SendInv, SeqInv, Leads
<1>5. IsSeq(events')
  BY TailFacts DEF FanOut, SendInv, SeqInv
<1>6. SeqInv'
  BY <1>2, <1>4, <1>5 DEF SendInv, SeqInv, Legible
<1> QED BY <1>1, <1>2, <1>3, <1>6, FreeStep

LEMMA TellLastKeeps == ASSUME SendInv, TellLast PROVE SendInv'
<1>1. stack # <<>> /\ ~TakesDown(Head(stack)) /\ Run(<<>>)
  BY DEF TellLast, Top, TakesDown
<1>2. UNCHANGED <<core, timer, flows>> /\ UNCHANGED <<queue, ledger, events, first, pend>>
  BY DEF TellLast, core, session, raw, sock, tracking, ownership, log
<1>3. IsSeq(stack')
  BY <1>1, EmptyFacts, RunLeads DEF SendInv, SeqInv, Leads
<1>4. SeqInv'
  BY <1>2, <1>3, SequencesStay DEF SendInv
<1> QED BY <1>1, <1>2, <1>4, EmptyFacts, FreeStep

LEMMA TrackerStepKeeps == ASSUME SendInv, TrackerStep PROVE SendInv'
<1>1. stack # <<>> /\ ~TakesDown(Head(stack))
  BY DEF TrackerStep, Top, TakesDown
<1>2. UNCHANGED <<core, timer, flows>> /\ UNCHANGED <<queue, ledger, first, pend>>
  BY DEF TrackerStep, core, session, raw, sock, ownership, log
<1>3. PICK ts : /\ Run(ts) /\ IsSeq(ts) /\ \A x \in ToSet(ts) : x.t \in Free
  <2>1. Run(Fan) \/ Run(<<>>)
    BY DEF TrackerStep
  <2> QED BY <2>1, FanFacts, EmptyFacts DEF Free
<1>4. IsSeq(stack')
  BY <1>1, <1>3, RunLeads DEF SendInv, SeqInv, Leads
<1>5. IsSeq(events')
  <2>1. IsSeq(events)
    BY DEF SendInv, SeqInv
  <2>2. events' = events \/ \E e : events' = Append(events, e)
    BY DEF TrackerStep, Emit, tracking
  <2> QED BY <2>1, <2>2, AppendFacts
<1>6. SeqInv'
  BY <1>2, <1>4, <1>5 DEF SendInv, SeqInv, Legible
<1> QED BY <1>1, <1>2, <1>3, <1>6, FreeStep

LEMMA ReschedKeeps == ASSUME SendInv, Resched PROVE SendInv'
<1>1. stack # <<>> /\ Head(stack).t = "resched" /\ Run(<<>>)
  BY DEF Resched, Top
<1>2. UNCHANGED <<key, epoch, disc, term, conn, connected, gen, life, timer, flows>> /\ UNCHANGED <<queue, ledger, events, first, pend>>
  BY DEF Resched, session, sock, tracking, ownership, log
<1>3. Leads({})
  BY <1>1, EmptyFacts, RunLeads DEF SendInv, SeqInv
<1>4. SeqInv'
  BY <1>2, <1>3, SequencesStay DEF SendInv, Leads
<1>5. Fine(Head(stack))
  BY <1>1, TopFine
<1>6. ~term
  BY <1>1, <1>5 DEF Fine, Ending
<1>7. CASE disc
  <2>1. ~MayResched(Head(stack).life)
    BY <1>1, <1>5, <1>7 DEF Fine, MayResched, SendInv, CounterInv
  <2>2. ~redial
    BY <1>7 DEF SendInv, ClosedInv, Down
  <2>3. redial' = FALSE
    BY <2>1, <2>2 DEF Resched
  <2>4. Down'
    BY <1>2, <1>7, <2>3 DEF SendInv, ClosedInv, Down
  <2>5. \A x \in ToSet(stack') : Fine(x)'
    <3> SUFFICES ASSUME NEW x \in ToSet(stack') PROVE Fine(x)'
      OBVIOUS
    <3>1. Fine(x)
      BY <1>3 DEF SendInv, TaskInv, Leads
    <3>2. (x.t = "unwrap" => Current(x.flow)') /\ (x.t = "deliver" => Legible(x.frames)')
      BY <1>2, <3>1 DEF Fine, Current, Legible
    <3> QED BY <1>2, <1>6, <3>1, <3>2 DEF Fine
  <2>6. FlowInv'
    BY <1>2 DEF SendInv, FlowInv, Current
  <2> QED BY <1>2, <1>4, <1>6, <2>4, <2>5, <2>6 DEF SendInv, CounterInv, KeyInv, ClosedInv, RetiredInv, TaskInv
<1>8. CASE ~disc
  <2>1. gen' \in Nat
    BY <1>2 DEF SendInv, CounterInv
  <2> QED BY <1>2, <1>3, <1>4, <1>6, <1>8, <2>1, LiveStep
<1> QED BY <1>7, <1>8

\* A step of a task that a retired instance does not have.
LEMMA OpenTop ==
    ASSUME SendInv, stack # <<>>, Head(stack).t \notin Ending
    PROVE  ~term /\ ~TakesDown(Head(stack))
<1>1. Fine(Head(stack))
  BY TopFine
<1> QED BY <1>1 DEF Fine, Ending, TakesDown

LEMMA PlainStep ==
    ASSUME SendInv, SeqInv', UNCHANGED <<core, timer, flows>>, stack # <<>>, Head(stack).t \notin Ending,
           NEW ts, IsSeq(ts), Run(ts), \A x \in ToSet(ts) : x.t \in Plain
    PROVE  SendInv'
<1>1. Leads(ToSet(ts))
  BY RunLeads DEF SendInv, SeqInv
<1>2. ~term /\ ~TakesDown(Head(stack))
  BY OpenTop
<1>3. \A x \in ToSet(ts) : Fine(x)
  BY <1>2, PlainIsFine
<1>4. \A f \in flows' : Current(f)
  BY DEF SendInv, FlowInv
<1> QED BY <1>1, <1>2, <1>3, <1>4, QuietStep

LEMMA ArmKeeps == ASSUME SendInv, ArmLiveRetryTimer PROVE SendInv'
<1>1. stack # <<>> /\ Head(stack).t \notin Ending /\ Run(<<>>)
  BY DEF ArmLiveRetryTimer, Top, Ending
<1>2. UNCHANGED <<core, flows>> /\ UNCHANGED <<queue, ledger, events, first, pend>>
  BY DEF ArmLiveRetryTimer, core, raw, sock, tracking, ownership, log
<1>3. Leads({})
  BY <1>1, EmptyFacts, RunLeads DEF SendInv, SeqInv
<1>4. SeqInv'
  BY <1>2, <1>3, SequencesStay DEF SendInv, Leads
<1>5. ~term /\ ~TakesDown(Head(stack))
  BY <1>1, OpenTop
<1>6. CASE disc
  <2>1. ~timer
    BY <1>6 DEF SendInv, ClosedInv, Down
  <2>2. timer' = FALSE
    BY <1>6, <2>1 DEF ArmLiveRetryTimer
  <2>3. \A f \in flows' : Current(f)
    BY <1>2 DEF SendInv, FlowInv
  <2> QED BY <1>2, <1>3, <1>4, <1>5, <2>2, <2>3, QuietStep
<1>7. CASE ~disc
  <2>1. gen' \in Nat
    BY <1>2 DEF SendInv, CounterInv, core
  <2> QED BY <1>2, <1>3, <1>4, <1>5, <1>7, <2>1, LiveStep DEF core
<1> QED BY <1>6, <1>7

LEMMA DrainKeeps == ASSUME SendInv, Drain \/ DrainEnds PROVE SendInv'
<1>1. PICK ts : Run(ts) /\ (ts = <<>> \/ ts = <<Task("loop")>>)
  BY DEF Drain, DrainEnds
<1>2. IsSeq(ts) /\ \A x \in ToSet(ts) : x.t \in Plain
  BY <1>1, EmptyFacts, OneFacts, TaskKind DEF Plain
<1>3. stack # <<>> /\ Head(stack).t \notin Ending
  BY DEF Drain, DrainEnds, Top, Ending
<1>4. UNCHANGED <<core, timer, flows>> /\ UNCHANGED <<queue, ledger, events, first, pend>>
  BY DEF Drain, DrainEnds, core, session, raw, sock, tracking, ownership, log
<1>5. SeqInv'
  BY <1>1, <1>2, <1>3, <1>4, RunLeads, SequencesStay DEF SendInv, SeqInv, Leads
<1> QED BY <1>1, <1>2, <1>3, <1>4, <1>5, PlainStep

LEMMA SealPublishesKeeps == ASSUME SendInv, SealPublishes PROVE SendInv'
<1>1. PICK i, rec : i = Head(queue) /\ rec = Recorded(i)
  OBVIOUS
<1>2. PICK fan : /\ fan = Fan \/ fan = <<>>
                 /\ Run(fan \o Arm(ledger') \o Fails(Evicted(rec)) \o <<Task("loop")>>)
  BY <1>1 DEF SealPublishes
<1>3. PICK arm, fails : arm = Arm(ledger') /\ fails = Fails(Evicted(rec))
  OBVIOUS
<1>4. IsSeq(fan) /\ \A x \in ToSet(fan) : x.t \in Plain
  BY <1>2, FanFacts, EmptyFacts DEF Plain, Free
<1>5. IsSeq(arm) /\ \A x \in ToSet(arm) : x.t \in Plain
  BY <1>3, OneFacts DEF Arm, Plain
<1>6. IsSeq(fails) /\ \A x \in ToSet(fails) : x.t \in Plain
  BY <1>1, <1>3, RecordedFacts DEF SendInv, Plain, Free
<1>7. PICK u : u = fan \o arm
  OBVIOUS
<1>8. IsSeq(u) /\ \A x \in ToSet(u) : x.t \in Plain
  BY <1>4, <1>5, <1>7, ConcatFacts
<1>9. PICK v : v = u \o fails
  OBVIOUS
<1>10. IsSeq(v) /\ \A x \in ToSet(v) : x.t \in Plain
  BY <1>6, <1>8, <1>9, ConcatFacts
<1>11. IsSeq(<<Task("loop")>>) /\ \A x \in ToSet(<<Task("loop")>>) : x.t \in Plain
  BY OneFacts, TaskKind DEF Plain
<1>12. PICK ts : ts = v \o <<Task("loop")>>
  OBVIOUS
<1>13. IsSeq(ts) /\ \A x \in ToSet(ts) : x.t \in Plain
  BY <1>10, <1>11, <1>12, ConcatFacts
<1>14. Run(ts)
  BY <1>2, <1>3, <1>7, <1>9, <1>12
<1>15. stack # <<>> /\ Head(stack).t \notin Ending
  BY DEF SealPublishes, Top, Ending
<1>16. UNCHANGED <<core, timer, flows>> /\ UNCHANGED pend
  BY DEF SealPublishes, core, session, raw, sock
<1>17. SeqInv'
  <2>1. IsSeq(stack')
    BY <1>13, <1>14, <1>15, RunLeads DEF SendInv, SeqInv, Leads
  <2>2. IsSeq(ledger')
    BY <1>1, RecordedFacts DEF SealPublishes, SendInv
  <2>3. IsSeq(queue')
    BY TailFacts DEF SealPublishes, SendInv, SeqInv
  <2>4. IsSeq(events')
    <3>1. IsSeq(events)
      BY DEF SendInv, SeqInv
    <3>2. events' = events \/ \E e : events' = Append(events, e)
      BY DEF SealPublishes, Emit
    <3> QED BY <3>1, <3>2, AppendFacts
  <2>5. IsSeq(first')
    <3>1. IsSeq(first)
      BY DEF SendInv, SeqInv
    <3>2. first' = first \/ \E e : first' = Append(first, e)
      BY DEF SealPublishes, LogPublication
    <3> QED BY <3>1, <3>2, AppendFacts
  <2> QED BY <1>16, <2>1, <2>2, <2>3, <2>4, <2>5 DEF SendInv, SeqInv, Legible
<1> QED BY <1>13, <1>14, <1>15, <1>16, <1>17, PlainStep

\* forceReconnect
LEMMA ReconnectFacts ==
    /\ IsSeq(ForceReconnect)
    /\ \A x \in ToSet(ForceReconnect) : x.t \in Plain \/ x = [t |-> "resched", life |-> life]
<1>1. PICK r : r = [t |-> "resched", life |-> life]
  OBVIOUS
<1>2. IsSeq(<<Callout, r>>) /\ ToSet(<<Callout, r>>) = {Callout, r}
  BY TwoFacts
<1> QED BY <1>1, <1>2, TaskKind DEF ForceReconnect, Plain, Free

\* The connection of an open instance is lost: a new epoch without a key.
LEMMA LossStep ==
    ASSUME SendInv, SeqInv', ~term, ~disc, UNCHANGED <<disc, term, gen, life>>,
           epoch' = epoch + 1, key' = 0, flows' \subseteq flows,
           NEW T, Leads(T), \A x \in T : x.t \in Plain \/ x = [t |-> "resched", life |-> life]
    PROVE  SendInv'
<1>1. gen' \in Nat /\ life \in Nat
  BY DEF SendInv, CounterInv
<1>2. ASSUME NEW x \in T PROVE Fine(x)'
  <2>1. CASE x.t \in Plain
    BY <2>1 DEF Plain, Free, Fine
  <2>2. CASE x = [t |-> "resched", life |-> life]
    BY <1>1, <2>2 DEF Fine
  <2> QED BY <1>2, <2>1, <2>2
<1> QED BY <1>1, <1>2, LiveStep

LEMMA NothingPending == Legible(<<>>)
  BY EmptyFacts DEF Legible

LEMMA SealFailsKeeps == ASSUME SendInv, SealFails PROVE SendInv'
<1>1. PICK rec, fails : rec = Recorded(Head(queue)) /\ fails = Fails(Evicted(rec))
  OBVIOUS
<1>2. Run(ForceReconnect \o fails \o <<Task("loop")>>)
  BY <1>1 DEF SealFails
<1>3. IsSeq(fails) /\ \A x \in ToSet(fails) : x.t \in Plain
  BY <1>1, RecordedFacts DEF SendInv, Plain, Free
<1>4. PICK u : u = ForceReconnect \o fails
  OBVIOUS
<1>5. IsSeq(u) /\ \A x \in ToSet(u) : x.t \in Plain \/ x = [t |-> "resched", life |-> life]
  BY <1>3, <1>4, ReconnectFacts, ConcatFacts
<1>6. IsSeq(<<Task("loop")>>) /\ \A x \in ToSet(<<Task("loop")>>) : x.t \in Plain
  BY OneFacts, TaskKind DEF Plain
<1>7. PICK ts : ts = u \o <<Task("loop")>>
  OBVIOUS
<1>8. IsSeq(ts) /\ \A x \in ToSet(ts) : x.t \in Plain \/ x = [t |-> "resched", life |-> life]
  BY <1>5, <1>6, <1>7, ConcatFacts
<1>9. stack # <<>> /\ Head(stack).t \notin Ending /\ key # 0
  BY DEF SealFails, Top, Ending
<1>10. Leads(ToSet(ts))
  BY <1>2, <1>4, <1>7, <1>8, <1>9, RunLeads DEF SendInv, SeqInv
<1>11. ~term /\ ~disc
  BY <1>9, OpenTop DEF SendInv, ClosedInv, Down
<1>12. /\ UNCHANGED <<disc, term, gen, life, flows, first, events>>
       /\ epoch' = epoch + 1 /\ key' = 0 /\ pend' = <<>>
  BY DEF SealFails, SocketLost, tracking, log
<1>13. IsSeq(queue') /\ IsSeq(ledger')
  BY <1>1, TailFacts, RecordedFacts DEF SealFails, SendInv, SeqInv
<1>14. SeqInv'
  BY <1>10, <1>12, <1>13, NothingPending DEF SendInv, SeqInv, Leads, Legible
<1> QED BY <1>8, <1>10, <1>11, <1>12, <1>14, LossStep

\* A socket that is there is no retired or closed instance's, unless a call runs.
LEMMA SocketIsLive ==
    ASSUME SendInv, conn # "off" \/ redial \/ timer \/ key # 0
    PROVE  ~disc /\ (stack = <<>> => ~term)
<1>1. ~Down
  BY DEF Down
<1> QED BY <1>1, IdleIsDown DEF SendInv, ClosedInv

\* The losses that are the only thing that happens: onclose, the heartbeat, the
\* retry timer's two and a failed registration.
LEMMA LossAlone ==
    ASSUME SendInv, ~term, ~disc, UNCHANGED <<queue, ledger, events, first>>,
           UNCHANGED <<disc, term, gen, life>>, flows' \subseteq flows,
           epoch' = epoch + 1, key' = 0, pend' = <<>>,
           Begin(ForceReconnect) \/ Begin(<<Callout>>) \/ Call(ForceReconnect)
    PROVE  SendInv'
<1>1. IsSeq(<<Callout>>) /\ \A x \in ToSet(<<Callout>>) : x.t \in Plain
  BY OneFacts, TaskKind DEF Plain, Free
<1>2. PICK ts : /\ Leads(ToSet(ts)) /\ \A x \in ToSet(ts) : x.t \in Plain \/ x = [t |-> "resched", life |-> life]
  BY <1>1, ReconnectFacts, BeginLeads, CallLeads DEF SendInv, SeqInv
<1>3. SeqInv'
  BY <1>2, NothingPending DEF SendInv, SeqInv, Leads, Legible
<1> QED BY <1>2, <1>3, LossStep

LEMMA OnCloseKeeps == ASSUME SendInv, OnClose PROVE SendInv'
<1>1. conn # "off" /\ Begin(<<Callout>>) /\ stack = <<>>
  BY DEF OnClose, Begin
<1>2. ~term /\ ~disc
  BY <1>1, SocketIsLive
<1>3. /\ UNCHANGED <<queue, ledger, events, first, disc, term, gen, life, flows>>
      /\ epoch' = epoch + 1 /\ key' = 0 /\ pend' = <<>>
  BY DEF OnClose, SocketLost, tracking, ownership, log
<1> QED BY <1>1, <1>2, <1>3, LossAlone

LEMMA HeartbeatKeeps == ASSUME SendInv, HeartbeatTimeout PROVE SendInv'
<1>1. conn # "off" /\ Begin(ForceReconnect) /\ stack = <<>>
  BY DEF HeartbeatTimeout, Begin
<1>2. ~term /\ ~disc
  BY <1>1, SocketIsLive
<1>3. /\ UNCHANGED <<queue, ledger, events, first, disc, term, gen, life, flows>>
      /\ epoch' = epoch + 1 /\ key' = 0 /\ pend' = <<>>
  BY DEF HeartbeatTimeout, SocketLost, tracking, ownership, log
<1> QED BY <1>1, <1>2, <1>3, LossAlone

LEMMA StallRecoveryKeeps == ASSUME SendInv, StallRecovery PROVE SendInv'
<1>1. timer /\ Begin(ForceReconnect) /\ stack = <<>>
  BY DEF StallRecovery, Begin
<1>2. ~term /\ ~disc
  BY <1>1, SocketIsLive
<1>3. /\ UNCHANGED <<queue, ledger, events, first, disc, term, gen, life, flows>>
      /\ epoch' = epoch + 1 /\ key' = 0 /\ pend' = <<>>
  BY DEF StallRecovery, tracking, ownership, log
<1> QED BY <1>1, <1>2, <1>3, LossAlone

LEMMA RecoveryKeeps == ASSUME SendInv, RequestApplicationRecovery PROVE SendInv'
<1>1. ~term /\ ~disc /\ Call(ForceReconnect)
  BY DEF RequestApplicationRecovery
<1>2. /\ UNCHANGED <<queue, ledger, events, first, disc, term, gen, life, flows>>
      /\ epoch' = epoch + 1 /\ key' = 0 /\ pend' = <<>>
  BY DEF RequestApplicationRecovery, SocketLost, tracking, ownership, log
<1> QED BY <1>1, <1>2, LossAlone

\* An event that leaves the session and the socket alone and calls nobody.
LEMMA IdleStep ==
    ASSUME SendInv, UNCHANGED <<core, timer>>, UNCHANGED <<queue, ledger, events, first>>, Legible(pend)',
           flows' \subseteq flows, stack = <<>>, stack' = stack
    PROVE  SendInv'
<1>1. SeqInv'
  BY DEF SendInv, SeqInv
<1>2. Leads({})
  BY DEF SendInv, SeqInv, Leads
<1>3. \A f \in flows' : Current(f)
  BY DEF SendInv, FlowInv
<1> QED BY <1>1, <1>2, <1>3, QuietStep

LEMMA RetryDueKeeps == ASSUME SendInv, RetryDue PROVE SendInv'
<1>1. timer /\ UNCHANGED <<queue, ledger, events, first, disc, term, gen, life, redial, flows>>
  BY DEF RetryDue, tracking, ownership, log
<1>2. CASE Begin(<<>>) /\ UNCHANGED <<sock, session, epoch>>
  <2>1. UNCHANGED <<core, timer>> /\ pend' = pend /\ stack = <<>> /\ stack' = stack
    BY <1>1, <1>2 DEF Begin, core, sock, session
  <2> QED BY <1>1, <2>1, IdleStep DEF SendInv, SeqInv, Legible
<1>3. CASE SocketLost(ledger) /\ Begin(ForceReconnect)
  <2>1. ~term /\ ~disc
    BY <1>1, <1>3, SocketIsLive DEF Begin
  <2>2. epoch' = epoch + 1 /\ key' = 0 /\ pend' = <<>>
    BY <1>3 DEF SocketLost
  <2> QED BY <1>1, <1>3, <2>1, <2>2, LossAlone
<1> QED BY <1>2, <1>3 DEF RetryDue

LEMMA RegisterFailsKeeps == ASSUME SendInv, NEW f \in flows, RegisterFails(f) PROVE SendInv'
<1>1. /\ UNCHANGED <<queue, ledger, events, first, disc, term, gen, life, redial>>
      /\ flows' \subseteq flows
  BY DEF RegisterFails, tracking, ownership, log
<1>2. CASE FlowMatches(f)
  <2>1. ~term /\ ~disc
    BY <1>2 DEF FlowMatches
  <2>2. epoch' = epoch + 1 /\ key' = 0 /\ pend' = <<>> /\ Begin(ForceReconnect)
    BY <1>2 DEF RegisterFails, SocketLost
  <2> QED BY <1>1, <2>1, <2>2, LossAlone
<1>3. CASE ~FlowMatches(f)
  <2>1. UNCHANGED <<core, timer>> /\ pend' = pend /\ stack = <<>> /\ stack' = stack
    BY <1>1, <1>3 DEF RegisterFails, Begin, core, sock, session
  <2> QED BY <1>1, <2>1, IdleStep DEF SendInv, SeqInv, Legible
<1> QED BY <1>2, <1>3

LEMMA SocketClosesKeeps == ASSUME SendInv, SocketCloses PROVE SendInv'
<1>1. UNCHANGED <<core, timer, flows>> /\ UNCHANGED <<queue, ledger, events, first, pend>>
  BY DEF SocketCloses, core, session, tracking, ownership, log
<1>2. stack = <<>> /\ stack' = stack
  BY DEF SocketCloses, Begin
<1> QED BY <1>1, <1>2, IdleStep DEF SendInv, SeqInv, Legible

\* An open instance dials, or its socket answers: the session is the same.
LEMMA DialStep ==
    ASSUME SendInv, ~term, term' = term, ~disc', UNCHANGED <<key, epoch, connected, life, flows>>, gen' \in Nat,
           UNCHANGED <<queue, ledger, events, first, pend>>, Leads({})
    PROVE  SendInv'
<1>1. SeqInv'
  BY SequencesStay DEF SendInv, Leads
<1> QED BY <1>1, LiveStep

LEMMA PongKeeps == ASSUME SendInv, PongWhileConnected PROVE SendInv'
<1>1. stack = <<>> /\ conn # "off" /\ Begin(<<>>)
  BY DEF PongWhileConnected, Begin
<1>2. ~term /\ ~disc
  BY <1>1, SocketIsLive
<1>3. Leads({})
  BY <1>1, EmptyFacts, BeginLeads
<1>4. /\ UNCHANGED <<term, disc, key, epoch, connected, life, gen, flows>>
      /\ UNCHANGED <<queue, ledger, events, first, pend>>
  BY DEF PongWhileConnected, session, tracking, ownership, log
<1>5. gen' \in Nat
  BY <1>4 DEF SendInv, CounterInv
<1> QED BY <1>2, <1>3, <1>4, <1>5, DialStep

LEMMA DialFacts == ASSUME gen \in Nat, Dial PROVE gen' \in Nat /\ connected' = connected
  BY DEF Dial, sock

LEMMA RedialKeeps == ASSUME SendInv, Redial PROVE SendInv'
<1>1. stack = <<>> /\ redial /\ Begin(<<>>) /\ Dial
  BY DEF Redial, Begin
<1>2. ~term /\ ~disc
  BY <1>1, SocketIsLive
<1>3. Leads({})
  BY <1>1, EmptyFacts, BeginLeads
<1>4. /\ UNCHANGED <<term, disc, key, epoch, life, flows>>
      /\ UNCHANGED <<queue, ledger, events, first, pend>>
  BY DEF Redial, session, tracking, ownership, log
<1>5. gen' \in Nat /\ connected' = connected
  BY <1>1, DialFacts DEF SendInv, CounterInv
<1> QED BY <1>2, <1>3, <1>4, <1>5, DialStep

LEMMA ConnectKeeps == ASSUME SendInv, Connect PROVE SendInv'
<1>1. ~term /\ disc' = FALSE /\ Call(<<>>) /\ Dial
  BY DEF Connect
<1>2. Leads({})
  BY <1>1, EmptyFacts, CallLeads DEF SendInv, SeqInv
<1>3. /\ UNCHANGED <<term, key, epoch, life, flows>>
      /\ UNCHANGED <<queue, ledger, events, first, pend>>
  BY DEF Connect, session, tracking, ownership, log
<1>4. gen' \in Nat /\ connected' = connected
  BY <1>1, DialFacts DEF SendInv, CounterInv
<1> QED BY <1>1, <1>2, <1>3, <1>4, DialStep

LEMMA ConnectedKeeps == ASSUME SendInv, Connected PROVE SendInv'
<1>1. stack = <<>> /\ conn # "off" /\ Begin(<<Callout>>)
  BY DEF Connected, Begin
<1>2. ~term /\ ~disc
  BY <1>1, SocketIsLive
<1>3. IsSeq(<<Callout>>) /\ ToSet(<<Callout>>) = {Callout}
  BY OneFacts
<1>4. Leads({Callout})
  BY <1>1, <1>3, BeginLeads
<1>5. PICK f : f = [epoch |-> epoch', gen |-> gen, pc |-> "register"]
  OBVIOUS
<1>6. /\ UNCHANGED <<term, disc, life, gen>>
      /\ UNCHANGED <<queue, ledger, events, first>>
      /\ epoch' = epoch + 1 /\ connected' = TRUE /\ key' = 0 /\ pend' = <<>>
      /\ flows' = flows \union {f}
  BY <1>2, <1>5 DEF Connected, tracking, ownership, log
<1>7. SeqInv'
  BY <1>4, <1>6, NothingPending DEF SendInv, SeqInv, Leads, Legible
<1>8. gen' \in Nat /\ epoch' \in Nat
  BY <1>6 DEF SendInv, CounterInv
<1>9. Current(f)'
  BY <1>5, <1>6, <1>8 DEF Current, Flow
<1>10. Fine(Callout)'
  BY <1>2, <1>6, TaskKind DEF Fine
<1> QED BY <1>2, <1>4, <1>6, <1>7, <1>8, <1>9, <1>10, LiveStep

\* A step of an instance that is retired, or that retires it when no call runs: it
\* is down, or the task that takes it down is ahead.
LEMMA RetiredStep ==
    ASSUME SendInv, SeqInv', term', ~timer', stack # <<>> => term, gen' = gen,
           epoch' \in Nat, epoch <= epoch', life' \in Nat, disc' => Down',
           Down' \/ \E x \in ToSet(stack') : TakesDown(x)',
           flows' \subseteq flows, NEW T, Leads(T), \A x \in T : Fine(x)',
           \A x \in ToSet(stack) : x.t = "down" => conn' = "off" /\ ~redial'
    PROVE  SendInv'
<1>1. epoch \in Nat /\ gen \in Nat
  BY DEF SendInv, CounterInv
<1>2. CounterInv' /\ KeyInv' /\ ClosedInv' /\ RetiredInv'
  BY <1>1 DEF CounterInv, KeyInv, ClosedInv, RetiredInv
<1>3. ASSUME NEW f, Current(f) PROVE Current(f)'
  <2>1. f.epoch \in Nat
    BY <1>3 DEF Current, Flow
  <2> QED BY <1>1, <1>3, <2>1 DEF Current
<1>4. FlowInv'
  BY <1>3 DEF SendInv, FlowInv
<1>5. ASSUME NEW x \in ToSet(stack) PROVE Fine(x)'
  <2>1. term /\ Fine(x)
    BY <1>5, EmptyFacts DEF SendInv, TaskInv
  <2>2. x.t \in Ending
    BY <2>1 DEF Fine
  <2>3. x.t \in {"retire", "teardown"} => x.gen = gen
    BY <2>1 DEF Fine
  <2> QED BY <1>5, <2>2, <2>3 DEF Fine, Ending
<1>6. TaskInv'
  BY <1>5 DEF TaskInv, Leads
<1> QED BY <1>2, <1>4, <1>6 DEF SendInv

\* A retired instance's tasks that rely on nothing.
LEMMA FreeIsFineNext ==
    ASSUME NEW x, x.t \in Free
    PROVE  Fine(x)'
  BY DEF Free, Fine, Ending

LEMMA FailTerminallyKeeps == ASSUME SendInv, FailTerminally PROVE SendInv'
<1>1. PICK fails : fails = Fails(TakePending)
  OBVIOUS
<1>2. stack = <<>> /\ conn # "off" /\ Begin(fails \o <<Callout, Task("down")>>)
  BY <1>1 DEF FailTerminally, Begin
<1>3. ~disc
  BY <1>2, SocketIsLive
<1>4. IsSeq(fails) /\ \A x \in ToSet(fails) : x.t \in Free
  BY <1>1, TakePendingFacts DEF SendInv, Free
<1>5. IsSeq(<<Callout, Task("down")>>) /\ ToSet(<<Callout, Task("down")>>) = {Callout, Task("down")}
  BY TwoFacts
<1>6. PICK ts : ts = fails \o <<Callout, Task("down")>>
  OBVIOUS
<1>7. IsSeq(ts) /\ ToSet(ts) = ToSet(fails) \cup {Callout, Task("down")}
  BY <1>4, <1>5, <1>6, ConcatFacts
<1>8. Leads(ToSet(ts)) /\ stack' = ts
  BY <1>2, <1>6, <1>7, BeginLeads DEF Begin
<1>9. /\ term' = TRUE /\ timer' = FALSE /\ conn' = "off" /\ redial' = FALSE
      /\ UNCHANGED <<gen, epoch, life, disc, flows, events, pend, first>>
      /\ queue' = <<>> /\ ledger' = <<>>
  BY DEF FailTerminally, SocketGone, Detach, tracking, log
<1>10. SeqInv'
  BY <1>8, <1>9, EmptyFacts DEF SendInv, SeqInv, Leads, Legible
<1>11. Fine(Task("down"))' /\ TakesDown(Task("down"))'
  BY <1>9, TaskKind DEF Fine, TakesDown, Ending
<1>12. \A x \in ToSet(ts) : Fine(x)'
  BY <1>4, <1>7, <1>11, FreeIsFineNext, TaskKind DEF Free
<1>13. \E x \in ToSet(stack') : TakesDown(x)'
  BY <1>7, <1>8, <1>11
<1>14. epoch' \in Nat /\ epoch <= epoch' /\ life' \in Nat
  BY <1>9 DEF SendInv, CounterInv
<1>15. \A x \in ToSet(stack) : x.t = "down" => conn' = "off" /\ ~redial'
  BY <1>9
<1> QED BY <1>2, <1>3, <1>8, <1>9, <1>10, <1>12, <1>13, <1>14, <1>15, RetiredStep

LEMMA StateFalseKeeps == ASSUME SendInv, StateFalse PROVE SendInv'
<1>1. stack # <<>> /\ Head(stack).t = "down" /\ Run(<<Callout>>)
  BY DEF StateFalse, Top
<1>2. Fine(Head(stack))
  BY <1>1, TopFine
<1>3. term /\ conn = "off" /\ ~redial
  BY <1>1, <1>2 DEF Fine
<1>4. IsSeq(<<Callout>>) /\ ToSet(<<Callout>>) = {Callout}
  BY OneFacts
<1>5. Leads({Callout})
  BY <1>1, <1>4, RunLeads DEF SendInv, SeqInv
<1>6. /\ epoch' = epoch + 1 /\ key' = 0 /\ pend' = <<>> /\ timer' = FALSE
      /\ UNCHANGED <<term, disc, conn, redial, gen, life, flows, queue, ledger, events, first>>
  BY DEF StateFalse, SocketLost, raw, sock, tracking, ownership, log
<1>7. SeqInv'
  BY <1>5, <1>6, NothingPending DEF SendInv, SeqInv, Leads, Legible
<1>8. Down'
  BY <1>3, <1>6 DEF Down
<1>9. Fine(Callout)'
  BY FreeIsFineNext, TaskKind DEF Free
<1>10. epoch' \in Nat /\ epoch <= epoch' /\ life' \in Nat
  BY <1>6 DEF SendInv, CounterInv
<1>11. \A x \in ToSet(stack) : x.t = "down" => conn' = "off" /\ ~redial'
  BY <1>3, <1>6
<1> QED BY <1>3, <1>5, <1>6, <1>7, <1>8, <1>9, <1>10, <1>11, RetiredStep

LEMMA RegisterRejectedKeeps == ASSUME SendInv, NEW f \in flows, RegisterRejected(f) PROVE SendInv'
<1>1. UNCHANGED <<key, pend, epoch, disc, raw, events, first>> /\ flows' \subseteq flows
  BY DEF RegisterRejected, tracking, log
<1>2. CASE ~FlowMatches(f)
  <2>1. UNCHANGED <<core, timer>> /\ UNCHANGED <<queue, ledger>> /\ stack = <<>> /\ stack' = stack
    BY <1>1, <1>2 DEF RegisterRejected, Begin, core, raw, sock, ownership
  <2> QED BY <1>1, <2>1, IdleStep DEF SendInv, SeqInv, Legible
<1>3. CASE FlowMatches(f)
  <2>1. PICK fails, r : fails = Fails(TakePending) /\ r = [t |-> "retire", gen |-> f.gen]
    OBVIOUS
  <2>2. /\ stack = <<>> /\ ~disc /\ f.gen = gen
        /\ Begin(fails \o <<r>>) /\ term' = TRUE /\ timer' = FALSE /\ queue' = <<>> /\ ledger' = <<>>
    BY <1>3, <2>1 DEF RegisterRejected, FlowMatches, Detach, Begin
  <2>3. IsSeq(fails) /\ \A x \in ToSet(fails) : x.t \in Free
    BY <2>1, TakePendingFacts DEF SendInv, Free
  <2>4. IsSeq(<<r>>) /\ ToSet(<<r>>) = {r}
    BY OneFacts
  <2>5. PICK ts : ts = fails \o <<r>>
    OBVIOUS
  <2>6. IsSeq(ts) /\ ToSet(ts) = ToSet(fails) \cup {r}
    BY <2>3, <2>4, <2>5, ConcatFacts
  <2>7. Leads(ToSet(ts)) /\ stack' = ts
    BY <2>2, <2>5, <2>6, BeginLeads DEF Begin
  <2>8. SeqInv'
    BY <1>1, <2>2, <2>7, EmptyFacts DEF SendInv, SeqInv, Leads, Legible
  <2>9. gen' = gen /\ life' = life
    BY <1>1 DEF raw
  <2>10. Fine(r)' /\ TakesDown(r)'
    BY <2>1, <2>2, <2>9 DEF Fine, TakesDown, Ending
  <2>11. \A x \in ToSet(ts) : Fine(x)'
    BY <2>3, <2>6, <2>10, FreeIsFineNext
  <2>12. \E x \in ToSet(stack') : TakesDown(x)'
    BY <2>6, <2>7, <2>10
  <2>13. epoch' \in Nat /\ epoch <= epoch' /\ life' \in Nat
    BY <1>1, <2>9 DEF SendInv, CounterInv
  <2>14. \A x \in ToSet(stack) : x.t = "down" => conn' = "off" /\ ~redial'
    BY <2>2, EmptyFacts
  <2> QED BY <1>1, <2>2, <2>7, <2>8, <2>9, <2>11, <2>12, <2>13, <2>14, RetiredStep
<1> QED BY <1>2, <1>3

LEMMA RetireEpochKeeps == ASSUME SendInv, RetireEpoch PROVE SendInv'
<1>1. PICK d : d = [t |-> "teardown", epoch |-> epoch', gen |-> Head(stack).gen]
  OBVIOUS
<1>2. /\ stack # <<>> /\ Head(stack).t = "retire" /\ Run(<<Callout, d>>) /\ epoch' = epoch + 1
      /\ UNCHANGED <<session, flows, disc, term, raw, queue, ledger, events, first>>
  BY <1>1 DEF RetireEpoch, Top, tracking, ownership, log
<1>3. Fine(Head(stack))
  BY <1>2, TopFine
<1>4. term /\ d.t = "teardown" /\ d.gen = gen /\ d.epoch = epoch'
  BY <1>1, <1>2, <1>3 DEF Fine
<1>5. IsSeq(<<Callout, d>>) /\ ToSet(<<Callout, d>>) = {Callout, d}
  BY TwoFacts
<1>6. Leads({Callout, d})
  BY <1>2, <1>5, RunLeads DEF SendInv, SeqInv
<1>7. UNCHANGED <<key, pend, timer, conn, redial, gen, life>>
  BY <1>2 DEF session, raw, sock
<1>8. SeqInv'
  BY <1>2, <1>6, <1>7, SequencesStay DEF SendInv, Leads
<1>9. d \in ToSet(stack')
  <2>1. IsSeq(Tail(stack))
    BY <1>2, TailFacts DEF SendInv, SeqInv
  <2>2. stack' = <<Callout, d>> \o Tail(stack)
    BY <1>2 DEF Run
  <2>3. ToSet(stack') = {Callout, d} \cup ToSet(Tail(stack))
    BY <1>5, <2>1, <2>2, ConcatFacts
  <2> QED BY <2>3
<1>10. TakesDown(d)' /\ Fine(d)' /\ Fine(Callout)'
  BY <1>2, <1>4, <1>7, TaskKind DEF TakesDown, Fine, Ending
<1>11. epoch' \in Nat /\ epoch <= epoch' /\ life' \in Nat
  BY <1>2, <1>7 DEF SendInv, CounterInv
<1>12. ~timer' /\ (disc' => Down')
  BY <1>2, <1>4, <1>7 DEF SendInv, RetiredInv, ClosedInv, Down
<1>13. \A x \in ToSet(stack) : x.t = "down" => conn' = "off" /\ ~redial'
  BY <1>7 DEF SendInv, TaskInv, Fine
<1> QED BY <1>2, <1>4, <1>6, <1>7, <1>8, <1>9, <1>10, <1>11, <1>12, <1>13, RetiredStep

LEMMA TeardownKeeps == ASSUME SendInv, Teardown PROVE SendInv'
<1>1. /\ stack # <<>> /\ Head(stack).t = "teardown"
      /\ UNCHANGED <<flows, disc, term, gen, queue, ledger, events, first>>
  BY DEF Teardown, Top, tracking, ownership, log
<1>2. Fine(Head(stack))
  BY <1>1, TopFine
<1>3. term /\ Head(stack).gen = gen
  BY <1>1, <1>2 DEF Fine
<1>4. CASE epoch = Head(stack).epoch
  <2>1. /\ epoch' = epoch + 1 /\ key' = 0 /\ pend' = <<>> /\ timer' = FALSE
        /\ conn' = "off" /\ redial' = FALSE /\ life' = life + 1 /\ Run(<<Callout>>)
    BY <1>3, <1>4 DEF Teardown, SocketGone, SocketLost
  <2>2. IsSeq(<<Callout>>) /\ ToSet(<<Callout>>) = {Callout}
    BY OneFacts
  <2>3. Leads({Callout})
    BY <1>1, <2>1, <2>2, RunLeads DEF SendInv, SeqInv
  <2>4. SeqInv'
    BY <1>1, <2>1, <2>3, NothingPending DEF SendInv, SeqInv, Leads, Legible
  <2>5. Down' /\ Fine(Callout)'
    BY <2>1, FreeIsFineNext, TaskKind DEF Down, Free
  <2>6. epoch' \in Nat /\ epoch <= epoch' /\ life' \in Nat
    BY <2>1 DEF SendInv, CounterInv
  <2>7. \A x \in ToSet(stack) : x.t = "down" => conn' = "off" /\ ~redial'
    BY <2>1
  <2> QED BY <1>1, <1>3, <2>1, <2>3, <2>4, <2>5, <2>6, <2>7, RetiredStep
<1>5. CASE epoch # Head(stack).epoch
  <2>1. Run(<<>>) /\ UNCHANGED <<core, timer>> /\ pend' = pend
    BY <1>1, <1>5 DEF Teardown, core, session, sock
  <2>2. ~TakesDown(Head(stack))
    BY <1>1, <1>5 DEF TakesDown
  <2>3. IsSeq(stack')
    BY <1>1, <2>1, EmptyFacts, RunLeads DEF SendInv, SeqInv, Leads
  <2>4. SeqInv'
    BY <1>1, <2>1, <2>3, SequencesStay DEF SendInv
  <2> QED BY <1>1, <2>1, <2>2, <2>4, EmptyFacts, FreeStep
<1> QED BY <1>4, <1>5

LEMMA SendKeeps == ASSUME SendInv, Send PROVE SendInv'
<1>1. PICK i, last : /\ i = sends' /\ last = (IF disc \/ term THEN Transition(i, "failed") ELSE Task("drain"))
                     /\ Call(Fan \o <<last>>)
  BY DEF Send
<1>2. /\ UNCHANGED <<core, timer, flows>> /\ UNCHANGED <<ledger, first, pend>>
      /\ queue' = queue \/ queue' = Append(queue, i)
      /\ \E e : events' = Append(events, e)
  BY <1>1 DEF Send, Emit, core, session, raw, sock, log
<1>3. Fine(last)
  <2>1. CASE disc \/ term
    <3>1. last.t = "transition"
      BY <1>1, <2>1 DEF Transition
    <3> QED BY <3>1, FreeIsFine DEF Free
  <2>2. CASE ~(disc \/ term)
    <3>1. last.t = "drain"
      BY <1>1, <2>2, TaskKind
    <3> QED BY <2>2, <3>1, PlainIsFine DEF Plain
  <2> QED BY <2>1, <2>2
<1>4. IsSeq(<<last>>) /\ ToSet(<<last>>) = {last}
  BY OneFacts
<1>5. PICK ts : ts = Fan \o <<last>>
  OBVIOUS
<1>6. IsSeq(ts) /\ ToSet(ts) = ToSet(Fan) \cup {last}
  BY <1>4, <1>5, FanFacts, ConcatFacts
<1>7. \A x \in ToSet(ts) : Fine(x)
  BY <1>3, <1>6, FanFacts, FreeIsFine DEF Free
<1>8. Leads(ToSet(ts)) /\ ToSet(stack) \subseteq ToSet(stack')
  BY <1>1, <1>5, <1>6, CallLeads DEF SendInv, SeqInv
<1>9. SeqInv'
  <2>1. IsSeq(queue') /\ IsSeq(events')
    BY <1>2, AppendFacts DEF SendInv, SeqInv
  <2> QED BY <1>2, <1>8, <2>1 DEF SendInv, SeqInv, Leads, Legible
<1>10. \A f \in flows' : Current(f)
  BY <1>2 DEF SendInv, FlowInv
<1>11. stack # <<>> => Head(stack) \in ToSet(stack')
  BY <1>8, TailFacts DEF SendInv, SeqInv
<1> QED BY <1>2, <1>7, <1>8, <1>9, <1>10, <1>11, QuietStep

\* disconnect: everything that is pending belongs to an older epoch and lifecycle.
LEMMA DisconnectKeeps == ASSUME SendInv, Disconnect PROVE SendInv'
<1>1. PICK fails : fails = Fails(TakePending)
  OBVIOUS
<1>2. /\ Call(<<Callout>> \o fails)
      /\ disc' = TRUE /\ key' = 0 /\ pend' = <<>> /\ timer' = FALSE /\ epoch' = epoch + 2
      /\ conn' = "off" /\ redial' = FALSE /\ life' = life + 1 /\ queue' = <<>> /\ ledger' = <<>>
      /\ UNCHANGED <<events, first, flows, term, gen>>
  BY <1>1 DEF Disconnect, SocketGone, Detach, tracking, log
<1>3. IsSeq(fails) /\ \A x \in ToSet(fails) : x.t \in Free
  BY <1>1, TakePendingFacts DEF SendInv, Free
<1>4. IsSeq(<<Callout>>) /\ ToSet(<<Callout>>) = {Callout}
  BY OneFacts
<1>5. PICK ts : ts = <<Callout>> \o fails
  OBVIOUS
<1>6. IsSeq(ts) /\ ToSet(ts) = {Callout} \cup ToSet(fails)
  BY <1>3, <1>4, <1>5, ConcatFacts
<1>7. \A x \in ToSet(ts) : Fine(x)'
  BY <1>3, <1>6, FreeIsFineNext, TaskKind DEF Free
<1>8. Leads(ToSet(ts))
  BY <1>2, <1>5, <1>6, CallLeads DEF SendInv, SeqInv
<1>9. SeqInv'
  BY <1>2, <1>8, EmptyFacts, NothingPending DEF SendInv, SeqInv, Leads, Legible
<1>10. epoch \in Nat /\ life \in Nat /\ gen \in Nat
  BY DEF SendInv, CounterInv
<1>11. Down'
  BY <1>2 DEF Down
<1>12. CounterInv' /\ KeyInv' /\ ClosedInv' /\ RetiredInv'
  BY <1>2, <1>10, <1>11 DEF CounterInv, KeyInv, ClosedInv, RetiredInv
<1>13. ASSUME NEW f, Current(f) PROVE Current(f)'
  <2>1. f.epoch \in Nat
    BY <1>13 DEF Current, Flow
  <2> QED BY <1>2, <1>10, <1>13, <2>1 DEF Current
<1>14. FlowInv'
  BY <1>2, <1>13 DEF SendInv, FlowInv
<1>15. ASSUME NEW x, Fine(x) PROVE Fine(x)'
  <2>1. x.t = "unwrap" => Current(x.flow)'
    BY <1>13, <1>15 DEF Fine
  <2>2. x.t = "deliver" => Legible(x.frames)'
    BY <1>15 DEF Fine, Legible
  <2>3. x.t = "resched" => x.life \in Nat /\ x.life <= life' /\ x.life < life'
    BY <1>2, <1>10, <1>15 DEF Fine
  <2>4. /\ x.t \in {"retire", "teardown"} => term /\ x.gen = gen
        /\ x.t = "down" => term
        /\ term => x.t \in Ending
    BY <1>15 DEF Fine
  <2> QED BY <1>2, <2>1, <2>2, <2>3, <2>4 DEF Fine
<1>16. TaskInv'
  BY <1>7, <1>8, <1>15 DEF SendInv, TaskInv, Leads
<1> QED BY <1>9, <1>12, <1>14, <1>16 DEF SendInv

LEMMA RegisteredKeeps == ASSUME SendInv, NEW f \in flows, Registered(f) PROVE SendInv'
<1>1. /\ UNCHANGED <<core, timer>> /\ UNCHANGED <<queue, ledger, events, first, pend>>
      /\ flows' \subseteq flows
  BY DEF Registered, core, session, raw, sock, tracking, ownership, log
<1>2. CASE ~FlowMatches(f)
  <2>1. stack = <<>> /\ stack' = stack
    BY <1>2 DEF Registered, Begin
  <2> QED BY <1>1, <2>1, IdleStep DEF SendInv, SeqInv, Legible
<1>3. CASE FlowMatches(f)
  <2>1. PICK u : u = [t |-> "unwrap", flow |-> f]
    OBVIOUS
  <2>2. Begin(<<Callout, u>>) /\ stack = <<>> /\ ~term
    BY <1>3, <2>1 DEF Registered, Begin, FlowMatches
  <2>3. IsSeq(<<Callout, u>>) /\ ToSet(<<Callout, u>>) = {Callout, u}
    BY TwoFacts
  <2>4. Leads({Callout, u})
    BY <2>2, <2>3, BeginLeads
  <2>5. Current(f)
    BY DEF SendInv, FlowInv
  <2>6. Fine(u)
    BY <2>1, <2>2, <2>5 DEF Fine
  <2>7. Fine(Callout)
    BY FreeIsFine, TaskKind DEF Free
  <2>8. SeqInv'
    BY <1>1, <2>4, SequencesStay DEF SendInv, Leads
  <2>9. \A g \in flows' : Current(g)
    BY <1>1 DEF SendInv, FlowInv
  <2> QED BY <1>1, <2>2, <2>4, <2>6, <2>7, <2>8, <2>9, QuietStep
<1> QED BY <1>2, <1>3

LEMMA BeginUnwrapKeeps == ASSUME SendInv, BeginUnwrap PROVE SendInv'
<1>1. PICK f : f = Head(stack).flow
  OBVIOUS
<1>2. /\ stack # <<>> /\ Head(stack).t = "unwrap" /\ Run(<<>>)
      /\ flows' = flows \/ flows' = flows \union {ToUnwrap(f)}
      /\ UNCHANGED <<core, timer>> /\ UNCHANGED <<queue, ledger, events, first, pend>>
  BY <1>1 DEF BeginUnwrap, Top, core, session, raw, sock, tracking, ownership, log
<1>3. Leads({})
  BY <1>2, EmptyFacts, RunLeads DEF SendInv, SeqInv
<1>4. SeqInv'
  BY <1>2, <1>3, SequencesStay DEF SendInv, Leads
<1>5. Fine(Head(stack))
  BY <1>2, TopFine
<1>6. Current(f)
  BY <1>1, <1>2, <1>5 DEF Fine
<1>7. PICK u : u = ToUnwrap(f)
  OBVIOUS
<1>8. u \in Flow /\ u.epoch = f.epoch
  BY <1>6, <1>7 DEF ToUnwrap, Current, Flow
<1>9. Current(u)
  BY <1>6, <1>8 DEF Current
<1>10. \A g \in flows' : Current(g)
  BY <1>2, <1>7, <1>9 DEF SendInv, FlowInv
<1>11. ~TakesDown(Head(stack))
  BY <1>2 DEF TakesDown
<1> QED BY <1>2, <1>3, <1>4, <1>10, <1>11, QuietStep

LEMMA UnwrappedKeeps == ASSUME SendInv, NEW f \in flows, Unwrapped(f) PROVE SendInv'
<1>1. /\ UNCHANGED <<timer, epoch, disc, term, conn, connected, redial, gen, life>>
      /\ UNCHANGED <<queue, ledger, events, first>>
      /\ flows' \subseteq flows
  BY DEF Unwrapped, raw, sock, tracking, ownership, log
<1>2. CASE ~FlowMatches(f)
  <2>1. stack = <<>> /\ stack' = stack /\ UNCHANGED <<key, pend>>
    BY <1>2 DEF Unwrapped, Begin
  <2>2. UNCHANGED core
    BY <1>1, <2>1 DEF core
  <2> QED BY <1>1, <2>1, <2>2, IdleStep DEF SendInv, SeqInv, Legible
<1>3. CASE FlowMatches(f)
  <2>1. PICK d, u : d = [t |-> "deliver", frames |-> pend] /\ u = [t |-> "flush", flow |-> f]
    OBVIOUS
  <2>2. /\ Begin(<<d, u>>) /\ stack = <<>> /\ key' = f.epoch /\ pend' = <<>>
        /\ ~term /\ ~disc /\ f.epoch = epoch
    BY <1>3, <2>1 DEF Unwrapped, Begin, FlowMatches
  <2>3. IsSeq(<<d, u>>) /\ ToSet(<<d, u>>) = {d, u}
    BY TwoFacts
  <2>4. Leads({d, u})
    BY <2>2, <2>3, BeginLeads
  <2>5. Current(f)
    BY DEF SendInv, FlowInv
  <2>6. connected' /\ key' = epoch'
    BY <1>1, <2>2, <2>5 DEF Current
  <2>7. Legible(pend)
    BY DEF SendInv, SeqInv
  <2>8. Legible(d.frames)'
    BY <2>1, <2>7 DEF Legible
  <2>9. Fine(d)' /\ Fine(u)'
    BY <1>1, <2>1, <2>2, <2>8 DEF Fine
  <2>10. SeqInv'
    BY <1>1, <2>2, <2>4, NothingPending DEF SendInv, SeqInv, Leads, Legible
  <2>11. gen' \in Nat
    BY <1>1 DEF SendInv, CounterInv
  <2> QED BY <1>1, <2>2, <2>4, <2>6, <2>9, <2>10, <2>11, LiveStep
<1> QED BY <1>2, <1>3

LEMMA FlushKeeps == ASSUME SendInv, Flush PROVE SendInv'
<1>1. PICK f : f = Head(stack).flow
  OBVIOUS
<1>2. /\ stack # <<>> /\ Head(stack).t \notin Ending
      /\ UNCHANGED <<core, timer, flows>> /\ UNCHANGED <<events, first, pend>>
  BY DEF Flush, Top, Ending, core, session, raw, sock, tracking
<1>3. PICK ts : Run(ts) /\ (ts = <<>> \/ ts = <<Task("drain"), [t |-> "established", flow |-> f]>>)
  BY <1>1 DEF Flush
<1>4. IsSeq(ts) /\ \A x \in ToSet(ts) : x.t \in Plain
  BY <1>3, EmptyFacts, TwoFacts, TaskKind DEF Plain
<1>5. IsSeq(queue') /\ IsSeq(ledger')
  <2>1. IsSeq(queue) /\ IsSeq(ledger) /\ IsSeq(IdsOf(ledger))
    BY IdsFacts DEF SendInv, SeqInv
  <2>2. IsSeq(Replay)
    BY <2>1, ConcatFacts DEF Replay
  <2> QED BY <2>1, <2>2, EmptyFacts DEF Flush, ownership
<1>6. SeqInv'
  BY <1>2, <1>3, <1>4, <1>5, RunLeads DEF SendInv, SeqInv, Leads, Legible
<1> QED BY <1>2, <1>3, <1>4, <1>6, PlainStep

LEMMA EstablishedKeeps == ASSUME SendInv, Established PROVE SendInv'
<1>1. /\ stack # <<>> /\ Head(stack).t \notin Ending
      /\ UNCHANGED <<core, timer, flows>> /\ UNCHANGED <<queue, ledger, events, first, pend>>
  BY DEF Established, Top, Ending, core, session, raw, sock, tracking, ownership, log
<1>2. PICK ts : Run(ts) /\ (ts = <<>> \/ ts = <<Callout>>)
  BY DEF Established
<1>3. IsSeq(ts) /\ \A x \in ToSet(ts) : x.t \in Plain
  BY <1>2, EmptyFacts, OneFacts, TaskKind DEF Plain, Free
<1>4. SeqInv'
  BY <1>1, <1>2, <1>3, RunLeads, SequencesStay DEF SendInv, SeqInv, Leads
<1> QED BY <1>1, <1>2, <1>3, <1>4, PlainStep

LEMMA ResultArrivesKeeps == ASSUME SendInv, NEW fr \in Frames, ResultArrives(fr) PROVE SendInv'
<1>1. IsSeq(fr.ids)
  <2>1. PICK K \in SUBSET DOMAIN first, v \in Verdicts : fr = [ids |-> Those(first, K), v |-> v]
    BY DEF Frames
  <2>2. IsSeq(first)
    BY DEF SendInv, SeqInv
  <2>3. fr.ids = Those(first, K)
    BY <2>1
  <2>4. IsSeq(Those(first, K))
    BY <2>2, ThoseIsSeq
  <2> QED BY <2>3, <2>4
<1>2. /\ stack = <<>> /\ UNCHANGED <<core, flows>> /\ UNCHANGED <<queue, events, first>>
  BY DEF ResultArrives, core, raw, sock, tracking, log
<1>3. CASE key = 0
  <2>1. UNCHANGED <<ledger, timer, stack>> /\ (pend' = pend \/ pend' = Append(pend, fr))
    BY <1>3 DEF ResultArrives
  <2>2. Legible(pend)
    BY DEF SendInv, SeqInv
  <2>3. Legible(Append(pend, fr))
    <3>1. IsSeq(Append(pend, fr)) /\ ToSet(Append(pend, fr)) = ToSet(pend) \cup {fr}
      BY <2>2, AppendFacts DEF Legible
    <3> QED BY <1>1, <2>2, <3>1 DEF Legible
  <2>4. Legible(pend')
    BY <2>1, <2>2, <2>3
  <2> QED BY <1>2, <2>1, <2>4, IdleStep DEF Legible
<1>4. CASE key # 0
  <2>1. Deliver(fr, <<>>) /\ pend' = pend
    BY <1>4 DEF ResultArrives
  <2>2. PICK rest : rest = <<>> /\ IsSeq(rest) /\ ToSet(rest) = {}
    BY EmptyFacts
  <2>3. /\ IsSeq(ledger') /\ IsSeq(stack')
        /\ timer' = timer \/ timer' = FALSE
        /\ \A x \in ToSet(stack') : x.t \in {"transition", "arm", "callout"} \/ x \in ToSet(rest)
    <3>1. Deliver(fr, rest) /\ SeqInv
      BY <2>1, <2>2 DEF SendInv
    <3> QED BY <1>1, <2>2, <3>1, DeliverFacts
  <2>4. ~term
    BY <1>2, <1>4, SocketIsLive
  <2>5. \A x \in ToSet(stack') : x.t \in Plain
    BY <2>2, <2>3 DEF Plain, Free
  <2>6. \A x \in ToSet(stack') : Fine(x)
    BY <2>4, <2>5, PlainIsFine
  <2>7. Leads(ToSet(stack'))
    BY <1>2, <2>2, <2>3 DEF Leads
  <2>8. SeqInv'
    BY <1>2, <2>1, <2>3 DEF SendInv, SeqInv, Legible
  <2>9. \A f \in flows' : Current(f)
    BY <1>2 DEF SendInv, FlowInv
  <2>10. timer' = timer \/ timer' = FALSE
    BY <2>3
  <2> QED BY <1>2, <2>6, <2>7, <2>8, <2>9, <2>10, QuietStep
<1> QED BY <1>3, <1>4

LEMMA DrainPendingInboundKeeps == ASSUME SendInv, DrainPendingInbound PROVE SendInv'
<1>1. PICK fs : fs = Head(stack).frames
  OBVIOUS
<1>2. /\ stack # <<>> /\ Head(stack).t = "deliver" /\ Head(stack).t \notin Ending
      /\ UNCHANGED <<core, flows>> /\ UNCHANGED <<queue, events, first, pend>>
  BY DEF DrainPendingInbound, Top, Ending, core, raw, sock, tracking, log
<1>3. CASE fs = <<>> \/ key = 0
  <2>1. Run(<<>>) /\ UNCHANGED <<ledger, timer>>
    BY <1>1, <1>3 DEF DrainPendingInbound
  <2>2. SeqInv'
    BY <1>2, <2>1, EmptyFacts, RunLeads, SequencesStay DEF SendInv, SeqInv, Leads
  <2> QED BY <1>2, <2>1, <2>2, EmptyFacts, PlainStep
<1>4. CASE ~(fs = <<>> \/ key = 0)
  <2>1. PICK d : d = [t |-> "deliver", frames |-> Tail(fs)]
    OBVIOUS
  <2>2. PICK rest : rest = <<d>> \o Tail(stack)
    OBVIOUS
  <2>3. Deliver(Head(fs), rest)
    BY <1>1, <1>4, <2>1, <2>2 DEF DrainPendingInbound
  <2>4. Fine(Head(stack))
    BY <1>2, TopFine
  <2>5. Legible(fs)
    BY <1>1, <1>2, <2>4 DEF Fine
  <2>6. IsSeq(Head(fs).ids) /\ Legible(Tail(fs))
    BY <1>4, <2>5, TailFacts DEF Legible
  <2>7. ~term /\ ~TakesDown(Head(stack))
    BY <1>2, OpenTop
  <2>8. Fine(d)
    BY <2>1, <2>6, <2>7 DEF Fine
  <2>9. IsSeq(Tail(stack)) /\ ToSet(stack) = {Head(stack)} \cup ToSet(Tail(stack))
    BY <1>2, TailFacts DEF SendInv, SeqInv
  <2>10. IsSeq(<<d>>) /\ ToSet(<<d>>) = {d}
    BY OneFacts
  <2>11. IsSeq(rest) /\ ToSet(rest) = {d} \cup ToSet(Tail(stack))
    BY <2>2, <2>9, <2>10, ConcatFacts
  <2>12. /\ IsSeq(ledger') /\ IsSeq(stack') /\ ToSet(rest) \subseteq ToSet(stack')
         /\ timer' = timer \/ timer' = FALSE
         /\ \A x \in ToSet(stack') : x.t \in {"transition", "arm", "callout"} \/ x \in ToSet(rest)
    <3>1. SeqInv
      BY DEF SendInv
    <3> QED BY <2>3, <2>6, <2>11, <3>1, DeliverFacts
  <2>13. PICK T : T = {x \in ToSet(stack') : x.t \in Plain} \cup {d}
    OBVIOUS
  <2>14. Leads(T)
    <3>1. ASSUME NEW x \in ToSet(stack') PROVE x \in T \cup ToSet(stack)
      BY <2>9, <2>11, <2>12, <2>13, <3>1 DEF Plain, Free
    <3>2. ASSUME NEW x \in ToSet(stack) PROVE x \in ToSet(stack') \/ x = Head(stack)
      BY <2>9, <2>11, <2>12, <3>2
    <3> QED BY <1>2, <2>12, <3>1, <3>2 DEF Leads
  <2>15. \A x \in T : Fine(x)
    BY <2>7, <2>8, <2>13, PlainIsFine
  <2>16. SeqInv'
    BY <1>2, <2>12 DEF SendInv, SeqInv, Legible
  <2>17. \A f \in flows' : Current(f)
    BY <1>2 DEF SendInv, FlowInv
  <2>18. timer' = timer \/ timer' = FALSE
    BY <2>12
  <2> QED BY <1>2, <2>7, <2>14, <2>15, <2>16, <2>17, <2>18, QuietStep
<1> QED BY <1>3, <1>4

-----------------------------------------------------------------------------
LEMMA NextKeeps == ASSUME SendInv, [Next]_vars PROVE SendInv'
<1>1. CASE Calls
  BY <1>1, SendKeeps, DisconnectKeeps, ConnectKeeps, RecoveryKeeps DEF Calls
<1>2. CASE Tasks
  BY <1>2, ReturnKeeps, FanOutKeeps, TellLastKeeps, TrackerStepKeeps, ReschedKeeps, ArmKeeps, DrainKeeps,
     SealPublishesKeeps, SealFailsKeeps, StateFalseKeeps, BeginUnwrapKeeps, RetireEpochKeeps, TeardownKeeps,
     FlushKeeps, EstablishedKeeps, DrainPendingInboundKeeps DEF Tasks
<1>3. CASE Events
  BY <1>3, ConnectedKeeps, PongKeeps, SocketClosesKeeps, OnCloseKeeps, HeartbeatKeeps, RedialKeeps,
     FailTerminallyKeeps, RegisteredKeeps, RegisterFailsKeeps, RegisterRejectedKeeps, UnwrappedKeeps,
     ResultArrivesKeeps, StallRecoveryKeeps, RetryDueKeeps DEF Events
<1>4. CASE UNCHANGED vars
  <2>1. UNCHANGED <<core, timer, flows>> /\ UNCHANGED <<queue, ledger, events, first, pend, stack>>
    BY <1>4 DEF vars, core, session, raw, sock, tracking, ownership, log
  <2>2. SeqInv'
    BY <2>1, SequencesStay DEF SendInv, SeqInv
  <2>3. Leads({}) /\ (stack # <<>> => Head(stack) \in ToSet(stack'))
    BY <2>1, TailFacts DEF Leads, SendInv, SeqInv
  <2>4. \A f \in flows' : Current(f)
    BY <2>1 DEF SendInv, FlowInv
  <2> QED BY <2>1, <2>2, <2>3, <2>4, QuietStep
<1> QED BY <1>1, <1>2, <1>3, <1>4 DEF Next

\* onConnected, connectionFlowMatches, forceReconnect, disconnect, failTerminally and
\* failConnectionEpoch (nats-client.ts): once a call has run to its end, a session key
\* is of the current epoch and connection, and a closed or retired client has no
\* socket, timer or key and dials no more, whatever listeners called in between.
THEOREM NothingStaleComesBack == Spec => []NoStaleSession
<1>1. Init => SendInv
  BY InitInv
<1>2. SendInv /\ [Next]_vars => SendInv'
  BY NextKeeps
<1>3. SendInv => NoStaleSession
  BY SendInvImplies
<1> QED BY <1>1, <1>2, <1>3, PTL DEF Spec

-----------------------------------------------------------------------------
(* One recovery per interval without results. *)

\* An interval that had its recovery has used up the client's allowance.
SpentInv == issued \in BOOLEAN /\ spent \in BOOLEAN /\ (spent => issued)

LEMMA LossSpends == ASSUME SpentInv, NEW l, SocketLost(l) PROVE SpentInv'
<1>1. PICK p \in BOOLEAN : p = (~disc /\ ~term /\ Published(l))
  OBVIOUS
<1>2. issued' = (issued \/ p) /\ spent' = (spent \/ p)
  BY <1>1 DEF SocketLost, RecoverySpent
<1> QED BY <1>2 DEF SpentInv

LEMMA AllowanceStays == ASSUME SpentInv, UNCHANGED <<issued, spent>> PROVE SpentInv'
  BY DEF SpentInv

LEMMA IntervalEnds == ASSUME Detach PROVE SpentInv'
  BY DEF Detach, SpentInv

LEMMA ResultSpends == ASSUME SpentInv, NEW fr, NEW rest, Deliver(fr, rest) PROVE SpentInv'
<1>1. (issued' = FALSE /\ spent' = FALSE) \/ UNCHANGED <<issued, spent>>
  BY DEF Deliver, stall
<1>2. CASE issued' = FALSE /\ spent' = FALSE
  BY <1>2 DEF SpentInv
<1>3. CASE UNCHANGED <<issued, spent>>
  BY <1>3, AllowanceStays
<1> QED BY <1>1, <1>2, <1>3

LEMMA NextSpends == ASSUME SpentInv, [Next]_vars PROVE SpentInv'
<1>1. CASE Calls
  <2>1. CASE Send \/ Connect
    BY <2>1, AllowanceStays DEF Send, Connect, stall
  <2>2. CASE Disconnect
    BY <2>2, IntervalEnds DEF Disconnect
  <2>3. CASE RequestApplicationRecovery
    BY <2>3, LossSpends DEF RequestApplicationRecovery
  <2> QED BY <1>1, <2>1, <2>2, <2>3 DEF Calls
<1>2. CASE Tasks
  <2>1. CASE Return \/ FanOut \/ TellLast \/ TrackerStep \/ Resched \/ ArmLiveRetryTimer \/ Drain \/ DrainEnds
    BY <2>1, AllowanceStays DEF Return, FanOut, TellLast, TrackerStep, Resched, ArmLiveRetryTimer, Drain, DrainEnds, stall
  <2>2. CASE BeginUnwrap \/ RetireEpoch \/ Flush \/ Established \/ SealPublishes
    BY <2>2, AllowanceStays DEF BeginUnwrap, RetireEpoch, Flush, Established, SealPublishes, stall
  <2>3. CASE SealFails
    <3>1. PICK l : SocketLost(l)
      BY <2>3 DEF SealFails
    <3> QED BY <3>1, LossSpends
  <2>4. CASE StateFalse
    BY <2>4, LossSpends DEF StateFalse
  <2>5. CASE Teardown
    <3>1. SocketLost(ledger) \/ UNCHANGED <<issued, spent>>
      BY <2>5 DEF Teardown
    <3> QED BY <3>1, LossSpends, AllowanceStays
  <2>6. CASE DrainPendingInbound
    <3>1. (\E fr, rest : Deliver(fr, rest)) \/ UNCHANGED <<issued, spent>>
      BY <2>6 DEF DrainPendingInbound, stall
    <3> QED BY <3>1, ResultSpends, AllowanceStays
  <2> QED BY <1>2, <2>1, <2>2, <2>3, <2>4, <2>5, <2>6 DEF Tasks
<1>3. CASE Events
  <2>1. CASE PongWhileConnected \/ SocketCloses \/ Redial
    BY <2>1, AllowanceStays DEF PongWhileConnected, SocketCloses, Redial, stall
  <2>2. CASE OnClose \/ HeartbeatTimeout
    BY <2>2, LossSpends DEF OnClose, HeartbeatTimeout
  <2>3. CASE Connected
    <3>1. SocketLost(ledger) \/ UNCHANGED <<issued, spent>>
      BY <2>3 DEF Connected
    <3> QED BY <3>1, LossSpends, AllowanceStays
  <2>4. CASE FailTerminally
    BY <2>4, IntervalEnds DEF FailTerminally
  <2>5. ASSUME NEW f \in flows, Registered(f) \/ Unwrapped(f) PROVE SpentInv'
    BY <2>5, AllowanceStays DEF Registered, Unwrapped, stall
  <2>6. ASSUME NEW f \in flows, RegisterFails(f) PROVE SpentInv'
    <3>1. SocketLost(ledger) \/ UNCHANGED <<issued, spent>>
      BY <2>6 DEF RegisterFails
    <3> QED BY <3>1, LossSpends, AllowanceStays
  <2>7. ASSUME NEW f \in flows, RegisterRejected(f) PROVE SpentInv'
    <3>1. Detach \/ UNCHANGED <<issued, spent>>
      BY <2>7 DEF RegisterRejected, stall
    <3> QED BY <3>1, IntervalEnds, AllowanceStays
  <2>8. ASSUME NEW fr \in Frames, ResultArrives(fr) PROVE SpentInv'
    <3>1. Deliver(fr, <<>>) \/ UNCHANGED <<issued, spent>>
      BY <2>8 DEF ResultArrives, stall
    <3> QED BY <3>1, ResultSpends, AllowanceStays
  <2>9. CASE StallRecovery
    BY <2>9 DEF StallRecovery, SpentInv
  <2>10. CASE RetryDue
    <3>1. SocketLost(ledger) \/ UNCHANGED <<issued, spent>>
      BY <2>10 DEF RetryDue
    <3> QED BY <3>1, LossSpends, AllowanceStays
  <2> QED BY <1>3, <2>1, <2>2, <2>3, <2>4, <2>5, <2>6, <2>7, <2>8, <2>9, <2>10 DEF Events
<1>4. CASE UNCHANGED vars
  BY <1>4, AllowanceStays DEF vars, stall
<1> QED BY <1>1, <1>2, <1>3, <1>4 DEF Next

\* retryDueUnacked, the ack-stall episode and the loss of a connection
\* (nats-client.ts): no step is a second recovery of an interval without results.
THEOREM RecoversOnce == Spec => OneRecovery
<1>1. Init => SpentInv
  BY DEF Init, SpentInv
<1>2. SpentInv /\ [Next]_vars => SpentInv'
  BY NextSpends
<1>3. SpentInv /\ [Next]_vars => [spent => (~StallRecovery)]_vars
  BY DEF SpentInv, StallRecovery
<1> QED BY <1>1, <1>2, <1>3, PTL DEF Spec, OneRecovery

-----------------------------------------------------------------------------
(***************************************************************************)
(* The places of a selection: Those(s, K) is s at the places of K, each    *)
(* once and in their order.                                                *)
(***************************************************************************)
\* How far k is among the places K.
PlaceIn(K, k) == Cardinality({j \in K : j <= k})

LEMMA PlaceFacts ==
    ASSUME NEW n \in Nat, NEW K \in SUBSET (1 .. n)
    PROVE  /\ IsFiniteSet(K) /\ Cardinality(K) \in Nat
           /\ \A k \in K : PlaceIn(K, k) \in 1 .. Cardinality(K)
           /\ \A k, l \in K : k < l => PlaceIn(K, k) < PlaceIn(K, l)
<1>0. IsFiniteSet(1 .. n)
  BY FS_Interval
<1>1. IsFiniteSet(K) /\ Cardinality(K) \in Nat
  BY <1>0, FS_Subset, FS_CardinalityType
<1>2. ASSUME NEW k \in K PROVE PlaceIn(K, k) \in 1 .. Cardinality(K)
  <2>1. PICK S : S = {j \in K : j <= k}
    OBVIOUS
  <2>2. S \in SUBSET K /\ k \in S
    BY <2>1
  <2>3. IsFiniteSet(S) /\ Cardinality(S) \in Nat /\ Cardinality(S) <= Cardinality(K)
    BY <1>1, <2>2, FS_Subset, FS_CardinalityType
  <2>4. Cardinality(S) # 0
    BY <2>2, <2>3, FS_EmptySet
  <2> QED BY <1>1, <2>1, <2>3, <2>4 DEF PlaceIn
<1>3. ASSUME NEW k \in K, NEW l \in K, k < l PROVE PlaceIn(K, k) < PlaceIn(K, l)
  <2>1. PICK S, R : S = {j \in K : j <= k} /\ R = {j \in K : j <= l}
    OBVIOUS
  <2>0. k \in Int /\ l \in Int /\ \A j \in K : j \in Int
    OBVIOUS
  <2>5. l \in R /\ l \notin S
    BY <1>3, <2>0, <2>1
  <2>6. S \in SUBSET R /\ R \in SUBSET K
    <3>1. ASSUME NEW j \in K, j <= k PROVE j <= l
      BY <1>3, <2>0, <3>1
    <3> QED BY <2>1, <3>1
  <2>2. S \in SUBSET R /\ S # R /\ R \in SUBSET K
    BY <2>5, <2>6
  <2>3. IsFiniteSet(R)
    BY <1>1, <2>2, FS_Subset
  <2>4. Cardinality(S) \in Nat /\ Cardinality(R) \in Nat /\ Cardinality(S) <= Cardinality(R) /\ Cardinality(S) # Cardinality(R)
    <3>1. IsFiniteSet(S) /\ Cardinality(S) <= Cardinality(R) /\ Cardinality(S) # Cardinality(R)
      BY <2>2, <2>3, FS_Subset
    <3> QED BY <2>3, <3>1, FS_CardinalityType
  <2> QED BY <2>1, <2>4 DEF PlaceIn
<1> QED BY <1>1, <1>2, <1>3

\* t holds the elements of s at the places K, and has c of them.
Selects(t, c, s, K) ==
    /\ DOMAIN t = 1 .. c
    /\ \A k \in K : PlaceIn(K, k) \in 1 .. c /\ t[PlaceIn(K, k)] = s[k]
    /\ \A m \in 1 .. c : \E k \in K : PlaceIn(K, k) = m

LEMMA ThosePlaces ==
    ASSUME NEW s, NEW n \in Nat, NEW K \in SUBSET (1 .. n)
    PROVE  Cardinality(K) \in Nat /\ Selects(Those(s, K), Cardinality(K), s, K)
<1>1. PICK c \in Nat : c = Cardinality(K)
  BY PlaceFacts
<1>2. /\ IsFiniteSet(K)
      /\ \A k \in K : PlaceIn(K, k) \in 1 .. c
      /\ \A k, l \in K : k < l => PlaceIn(K, k) < PlaceIn(K, l)
  BY <1>1, PlaceFacts
<1>3. ASSUME NEW k \in K, NEW l \in K, PlaceIn(K, k) = PlaceIn(K, l) PROVE k = l
  BY <1>2, <1>3
<1>4. PICK f : f = [k \in K |-> PlaceIn(K, k)]
  OBVIOUS
<1>5. f \in Injection(K, 1 .. c)
  <2>1. f \in [K -> 1 .. c]
    BY <1>2, <1>4
  <2>2. \A k, l \in K : f[k] = f[l] => k = l
    BY <1>3, <1>4
  <2> QED BY <2>1, <2>2 DEF Injection, IsInjective
<1>6. IsFiniteSet(1 .. c) /\ Cardinality(1 .. c) = c
  BY FS_Interval
<1>7. f \in Surjection(K, 1 .. c)
  BY <1>1, <1>5, <1>6, FS_Injection
<1>8. ASSUME NEW m \in 1 .. c PROVE \E k \in K : PlaceIn(K, k) = m
  <2>1. \E k \in K : f[k] = m
    BY <1>7 DEF Surjection
  <2> QED BY <1>4, <2>1
<1>9. DOMAIN Those(s, K) = 1 .. c
  BY <1>1 DEF Those
<1>10. ASSUME NEW k \in K PROVE Those(s, K)[PlaceIn(K, k)] = s[k]
  <2>1. PICK m \in 1 .. c : m = PlaceIn(K, k)
    BY <1>2
  <2>2. Those(s, K)[m] = s[CHOOSE l \in K : PlaceIn(K, l) = m]
    BY <1>1 DEF Those, PlaceIn
  <2>3. (CHOOSE l \in K : PlaceIn(K, l) = m) = k
    BY <1>3, <2>1
  <2> QED BY <2>1, <2>2, <2>3
<1> QED BY <1>1, <1>2, <1>8, <1>9, <1>10 DEF Selects

\* Its elements.
LEMMA ThoseSet ==
    ASSUME NEW s, NEW n \in Nat, NEW K \in SUBSET (1 .. n)
    PROVE  ToSet(Those(s, K)) = {s[k] : k \in K}
<1>0. PICK t : t = Those(s, K)
  OBVIOUS
<1>1. PICK c \in Nat : Selects(t, c, s, K)
  BY <1>0, ThosePlaces
<1>2. ASSUME NEW m \in 1 .. c PROVE t[m] \in {s[k] : k \in K}
  <2>1. PICK k \in K : PlaceIn(K, k) = m
    BY <1>1 DEF Selects
  <2> QED BY <1>1, <2>1 DEF Selects
<1>3. ASSUME NEW k \in K PROVE s[k] \in {t[m] : m \in 1 .. c}
  BY <1>1 DEF Selects
<1>4. {t[m] : m \in DOMAIN t} = {s[k] : k \in K}
  BY <1>1, <1>2, <1>3 DEF Selects
<1> QED BY <1>0, <1>4 DEF ToSet

\* A selection of a sequence without repetition has none.
LEMMA ThoseInjective ==
    ASSUME NEW s, NEW n \in Nat, NEW K \in SUBSET (1 .. n), \A k, l \in K : s[k] = s[l] => k = l
    PROVE  \A a, b \in DOMAIN Those(s, K) : Those(s, K)[a] = Those(s, K)[b] => a = b
<1>0. PICK t : t = Those(s, K)
  OBVIOUS
<1>1. PICK c \in Nat : Selects(t, c, s, K)
  BY <1>0, ThosePlaces
<1>2. ASSUME NEW a \in 1 .. c, NEW b \in 1 .. c, t[a] = t[b] PROVE a = b
  <2>1. PICK k \in K : PlaceIn(K, k) = a
    BY <1>1 DEF Selects
  <2>2. PICK l \in K : PlaceIn(K, l) = b
    BY <1>1 DEF Selects
  <2>3. s[k] = s[l]
    BY <1>1, <1>2, <2>1, <2>2 DEF Selects
  <2>4. k = l
    BY <2>3
  <2> QED BY <2>1, <2>2, <2>4
<1> QED BY <1>0, <1>1, <1>2 DEF Selects

\* Everything is selected.
LEMMA ThoseAll ==
    ASSUME NEW s, IsSeq(s)
    PROVE  Those(s, DOMAIN s) = s
<1>1. PICK n \in Nat : n = Len(s) /\ DOMAIN s = 1 .. n /\ s = [i \in 1 .. n |-> s[i]]
  BY SeqFacts
<1>2. Cardinality(1 .. n) = n
  BY FS_Interval
<1>3. ASSUME NEW k \in 1 .. n PROVE PlaceIn(1 .. n, k) = k
  <2>1. {j \in 1 .. n : j <= k} = 1 .. k
    OBVIOUS
  <2>2. Cardinality(1 .. k) = k
    BY FS_Interval
  <2> QED BY <2>1, <2>2 DEF PlaceIn
<1>4. ASSUME NEW k \in 1 .. n PROVE Those(s, 1 .. n)[k] = s[k]
  <2>1. Those(s, 1 .. n)[PlaceIn(1 .. n, k)] = s[k]
    BY ThosePlaces DEF Selects
  <2> QED BY <1>3, <2>1
<1>5. Those(s, 1 .. n) = [m \in 1 .. n |-> Those(s, 1 .. n)[m]]
  BY <1>2 DEF Those
<1>6. [m \in 1 .. n |-> Those(s, 1 .. n)[m]] = [i \in 1 .. n |-> s[i]]
  BY <1>4
<1> QED BY <1>1, <1>5, <1>6

-----------------------------------------------------------------------------
(***************************************************************************)
(* The retry timer.  With a published message unanswered, the timer runs   *)
(* or a pending task sees to it: one that arms it, whose fence is what     *)
(* there is now, or the flush of the session, which queues the message     *)
(* again.                                                                  *)
(***************************************************************************)
Awaits(x) ==
    \/ x.t = "arm" /\ x.fence = Fence(ledger)
    \/ x.t = "flush" /\ FlowMatches(x.flow) /\ x.flow.epoch = key
RetryInv ==
    key # 0 /\ subscribed /\ ~term /\ Published(ledger) => timer \/ \E x \in ToSet(stack) : Awaits(x)

\* Nothing to retry, or nothing to retry it with.
LEMMA RetryMoot ==
    ASSUME key' = 0 \/ ~subscribed' \/ term' \/ ledger' = <<>>
    PROVE  RetryInv'
<1>1. ~Published(<<>>)
  BY DEF Published
<1>2. Published(ledger)' <=> Published(ledger')
  BY DEF Published
<1> QED BY <1>1, <1>2 DEF RetryInv

\* A step that leaves the session, the ledger and what awaits them alone.
LEMMA RetryStays ==
    ASSUME RetryInv, UNCHANGED <<key, epoch, gen, ledger>>, disc' => disc, term => term',
           subscribed' => subscribed, timer => timer',
           \A x \in ToSet(stack) : x \in ToSet(stack') \/ ~Awaits(x)
    PROVE  RetryInv'
<1> SUFFICES ASSUME key' # 0, subscribed', ~term', Published(ledger)' PROVE (timer \/ \E x \in ToSet(stack) : Awaits(x))'
  BY DEF RetryInv
<1>1. Published(ledger)
  BY DEF Published
<1>2. timer \/ \E x \in ToSet(stack) : Awaits(x)
  BY <1>1 DEF RetryInv
<1>3. ASSUME NEW x, Awaits(x) PROVE Awaits(x)'
  <2>1. Fence(ledger)' = Fence(ledger)
    BY DEF Fence
  <2>2. CASE x.t = "arm" /\ x.fence = Fence(ledger)
    BY <2>1, <2>2 DEF Awaits
  <2>3. CASE x.t = "flush" /\ FlowMatches(x.flow) /\ x.flow.epoch = key
    BY <2>3 DEF Awaits, FlowMatches
  <2> QED BY <1>3, <2>2, <2>3 DEF Awaits
<1> QED BY <1>2, <1>3

\* A task of another kind ends.
LEMMA RetryRuns ==
    ASSUME SendInv, RetryInv, UNCHANGED <<key, epoch, gen, ledger, disc, term, subscribed>>, timer => timer',
           stack # <<>>, Head(stack).t \notin {"arm", "flush"}, NEW ts, IsSeq(ts), Run(ts)
    PROVE  RetryInv'
<1>1. Leads(ToSet(ts))
  BY RunLeads DEF SendInv, SeqInv
<1>2. ~Awaits(Head(stack))
  BY DEF Awaits
<1> QED BY <1>1, <1>2, RetryStays DEF Leads

\* No call was running.
LEMMA RetryIdle ==
    ASSUME RetryInv, stack = <<>>, UNCHANGED <<key, epoch, ledger, disc, term, timer>>,
           UNCHANGED <<gen, subscribed>> \/ ~subscribed'
    PROVE  RetryInv'
<1>1. CASE ~subscribed'
  BY <1>1, RetryMoot
<1>2. CASE UNCHANGED <<gen, subscribed>>
  BY <1>2, EmptyFacts, RetryStays
<1> QED BY <1>1, <1>2

\* A result: what it leaves published is armed again.
LEMMA RetryDelivers ==
    ASSUME SendInv, RetryInv, NEW fr, IsSeq(fr.ids), NEW rest, IsSeq(rest), Deliver(fr, rest),
           UNCHANGED <<key, epoch, gen, disc, term, subscribed>>,
           \A x \in ToSet(stack) : x \in ToSet(rest) \/ ~Awaits(x)
    PROVE  RetryInv'
<1>1. PICK K : K = {k \in DOMAIN ledger : ledger[k].id \notin ToSet(fr.ids)}
  OBVIOUS
<1>2. PICK left : left = Those(ledger, K)
  OBVIOUS
<1>3. PICK owned \in BOOLEAN : owned = (ToSet(fr.ids) \intersect ToSet(IdsOf(ledger)) # {})
  OBVIOUS
<1>4. /\ ledger' = left
      /\ owned \/ timer' = timer
      /\ stack' = Apply(fr) \o (IF owned THEN ArmAfter(left) ELSE <<>>) \o <<Callout>> \o rest
  BY <1>1, <1>2, <1>3 DEF Deliver, stall
<1>5. CASE ~owned
  <2>1. IsSeq(ledger) /\ \A k \in DOMAIN ledger : ledger[k].id \in ToSet(IdsOf(ledger))
    BY DEF SendInv, SeqInv, IdsOf, ToSet
  <2>2. K = DOMAIN ledger
    BY <1>1, <1>3, <1>5, <2>1
  <2>3. ledger' = ledger
    BY <1>2, <1>4, <2>1, <2>2, ThoseAll
  <2>4. ToSet(rest) \subseteq ToSet(stack')
    BY DeliverFacts DEF SendInv
  <2> QED BY <1>4, <1>5, <2>3, <2>4, RetryStays
<1>6. CASE owned /\ Published(left)
  <2>1. PICK x : x = [t |-> "arm", fence |-> Fence(left)]
    OBVIOUS
  <2>2. stack' = Apply(fr) \o <<x>> \o <<Callout>> \o rest
    BY <1>4, <1>6, <2>1 DEF ArmAfter, Arm
  <2>3. IsSeq(Apply(fr)) /\ IsSeq(<<x>>) /\ ToSet(<<x>>) = {x} /\ IsSeq(<<Callout>>)
    BY ApplyFacts, OneFacts
  <2>4. PICK u : u = Apply(fr) \o <<x>>
    OBVIOUS
  <2>5. IsSeq(u) /\ x \in ToSet(u)
    BY <2>3, <2>4, ConcatFacts
  <2>6. PICK v : v = u \o <<Callout>>
    OBVIOUS
  <2>7. IsSeq(v) /\ x \in ToSet(v)
    BY <2>3, <2>5, <2>6, ConcatFacts
  <2>8. stack' = v \o rest
    BY <2>2, <2>4, <2>6
  <2>9. x \in ToSet(stack')
    BY <2>7, <2>8, ConcatFacts
  <2>10. x.t = "arm" /\ x.fence = Fence(ledger)'
    BY <1>4, <2>1 DEF Fence
  <2>11. Awaits(x)'
    BY <2>10 DEF Awaits
  <2> QED BY <2>9, <2>11 DEF RetryInv
<1>7. CASE ~Published(left)
  BY <1>4, <1>7 DEF RetryInv, Published
<1> QED BY <1>5, <1>6, <1>7

\* The calls of the application.
LEMMA RetryCalls == ASSUME SendInv, RetryInv, Calls PROVE RetryInv'
<1>1. CASE Send
  <2>1. PICK last : Call(Fan \o <<last>>)
    BY <1>1 DEF Send
  <2>2. IsSeq(Fan \o <<last>>)
    BY FanFacts, OneFacts, ConcatFacts
  <2>3. ToSet(stack) \subseteq ToSet(stack')
    BY <2>1, <2>2, CallLeads DEF SendInv, SeqInv
  <2>4. UNCHANGED <<key, epoch, gen, ledger, disc, term, subscribed, timer>>
    BY <1>1 DEF Send, session, raw, sock
  <2> QED BY <2>3, <2>4, RetryStays
<1>2. CASE Disconnect
  BY <1>2, RetryMoot DEF Disconnect
<1>3. CASE Connect
  <2>1. ToSet(stack) \subseteq ToSet(stack')
    BY <1>3, CallLeads, EmptyFacts DEF Connect, SendInv, SeqInv
  <2>2. UNCHANGED <<key, epoch, ledger, term, timer>> /\ disc' = FALSE
    BY <1>3 DEF Connect, session, ownership
  <2>3. UNCHANGED <<gen, subscribed>> \/ ~subscribed'
    BY <1>3 DEF Connect, Dial, sock
  <2> QED BY <2>1, <2>2, <2>3, RetryStays, RetryMoot
<1>4. CASE RequestApplicationRecovery
  BY <1>4, RetryMoot DEF RequestApplicationRecovery, SocketLost
<1> QED BY <1>1, <1>2, <1>3, <1>4 DEF Calls

\* The publication of a message: it arms the timer.
LEMMA RetryPublishes == ASSUME SendInv, RetryInv, SealPublishes PROVE RetryInv'
<1>1. PICK i, rec : i = Head(queue) /\ rec = Recorded(i)
  OBVIOUS
<1>2. PICK fan : /\ fan = Fan \/ fan = <<>>
                 /\ Run(fan \o Arm(ledger') \o Fails(Evicted(rec)) \o <<Task("loop")>>)
  BY <1>1 DEF SealPublishes
<1>3. PICK x, fails : x = [t |-> "arm", fence |-> Fence(ledger')] /\ fails = Fails(Evicted(rec))
  OBVIOUS
<1>4. Run(fan \o <<x>> \o fails \o <<Task("loop")>>)
  BY <1>2, <1>3 DEF Arm
<1>5. IsSeq(fan) /\ IsSeq(fails)
  BY <1>1, <1>2, <1>3, FanFacts, EmptyFacts, RecordedFacts DEF SendInv
<1>6. IsSeq(<<x>>) /\ ToSet(<<x>>) = {x} /\ IsSeq(<<Task("loop")>>)
  BY OneFacts
<1>7. PICK u : u = fan \o <<x>>
  OBVIOUS
<1>8. IsSeq(u) /\ x \in ToSet(u)
  BY <1>5, <1>6, <1>7, ConcatFacts
<1>9. PICK v : v = u \o fails
  OBVIOUS
<1>10. IsSeq(v) /\ x \in ToSet(v)
  BY <1>5, <1>8, <1>9, ConcatFacts
<1>11. PICK w : w = v \o <<Task("loop")>>
  OBVIOUS
<1>12. IsSeq(w) /\ x \in ToSet(w)
  BY <1>6, <1>10, <1>11, ConcatFacts
<1>13. stack' = w \o Tail(stack) /\ IsSeq(Tail(stack))
  BY <1>4, <1>7, <1>9, <1>11, TailFacts DEF Run, SealPublishes, Top, SendInv, SeqInv
<1>14. x \in ToSet(stack')
  BY <1>12, <1>13, ConcatFacts
<1>15. UNCHANGED <<key, epoch>>
  BY DEF SealPublishes, session
<1>16. x.t = "arm" /\ x.fence = Fence(ledger)'
  BY <1>3, <1>15 DEF Fence
<1>17. Awaits(x)'
  BY <1>16 DEF Awaits
<1> QED BY <1>14, <1>17 DEF RetryInv

\* The tasks of a running call.
LEMMA RetryTasks == ASSUME SendInv, RetryInv, Tasks PROVE RetryInv'
<1>1. CASE Return \/ TellLast \/ Resched \/ BeginUnwrap
  <2>1. stack # <<>> /\ Head(stack).t \notin {"arm", "flush"} /\ Run(<<>>)
    BY <1>1 DEF Return, TellLast, Resched, BeginUnwrap, Top
  <2>2. UNCHANGED <<key, epoch, gen, ledger, disc, term, subscribed, timer>>
    BY <1>1 DEF Return, TellLast, Resched, BeginUnwrap, session, raw, sock, ownership
  <2> QED BY <2>1, <2>2, EmptyFacts, RetryRuns
<1>2. CASE FanOut
  <2>1. stack # <<>> /\ Head(stack).t \notin {"arm", "flush"}
    BY <1>2 DEF FanOut, Top
  <2>2. UNCHANGED <<key, epoch, gen, ledger, disc, term, subscribed, timer>>
    BY <1>2 DEF FanOut, session, raw, sock, ownership
  <2>3. Run(<<>>) \/ \E e : Run(<<Callout, e, Task("fan")>>)
    BY <1>2 DEF FanOut
  <2> QED BY <2>1, <2>2, <2>3, EmptyFacts, ThreeFacts, RetryRuns
<1>3. CASE TrackerStep
  <2>1. stack # <<>> /\ Head(stack).t \notin {"arm", "flush"}
    BY <1>3 DEF TrackerStep, Top
  <2>2. UNCHANGED <<key, epoch, gen, ledger, disc, term, subscribed, timer>>
    BY <1>3 DEF TrackerStep, session, raw, sock, ownership
  <2>3. Run(<<>>) \/ Run(Fan)
    BY <1>3 DEF TrackerStep
  <2> QED BY <2>1, <2>2, <2>3, EmptyFacts, FanFacts, RetryRuns
<1>4. CASE Drain \/ DrainEnds \/ Established
  <2>1. stack # <<>> /\ Head(stack).t \notin {"arm", "flush"}
    BY <1>4 DEF Drain, DrainEnds, Established, Top
  <2>2. UNCHANGED <<key, epoch, gen, ledger, disc, term, subscribed, timer>>
    BY <1>4 DEF Drain, DrainEnds, Established, session, raw, sock, ownership
  <2>3. Run(<<>>) \/ \E e : Run(<<e>>)
    BY <1>4 DEF Drain, DrainEnds, Established
  <2> QED BY <2>1, <2>2, <2>3, EmptyFacts, OneFacts, RetryRuns
<1>5. CASE ArmLiveRetryTimer
  <2>1. stack # <<>> /\ Head(stack).t = "arm" /\ Run(<<>>)
    BY <1>5 DEF ArmLiveRetryTimer, Top
  <2>2. UNCHANGED <<key, epoch, gen, ledger, disc, term, subscribed>>
    BY <1>5 DEF ArmLiveRetryTimer, raw, sock, ownership
  <2>3. timer' = (timer \/ (Head(stack).fence = Fence(ledger) /\ key # 0 /\ ~disc /\ ~term))
    BY <1>5 DEF ArmLiveRetryTimer
  <2>4. CASE key = 0 \/ term
    BY <2>2, <2>4, RetryMoot
  <2>5. CASE key # 0 /\ ~term /\ Head(stack).fence = Fence(ledger)
    <3>1. ~disc
      BY <2>5 DEF SendInv, ClosedInv, Down
    <3> QED BY <2>3, <2>5, <3>1 DEF RetryInv
  <2>6. CASE Head(stack).fence # Fence(ledger)
    <3>1. ~Awaits(Head(stack))
      BY <2>1, <2>6 DEF Awaits
    <3>2. Leads(ToSet(<<>>))
      BY <2>1, EmptyFacts, RunLeads DEF SendInv, SeqInv
    <3> QED BY <2>2, <2>3, <3>1, <3>2, RetryStays DEF Leads
  <2> QED BY <2>4, <2>5, <2>6
<1>6. CASE SealPublishes
  BY <1>6, RetryPublishes
<1>7. CASE SealFails \/ StateFalse
  BY <1>7, RetryMoot DEF SealFails, StateFalse, SocketLost
<1>8. CASE RetireEpoch \/ Teardown
  <2>1. stack # <<>> /\ Head(stack).t \in {"retire", "teardown"} /\ term' = term
    BY <1>8 DEF RetireEpoch, Teardown, Top
  <2>2. term
    BY <2>1, TopFine DEF Fine
  <2> QED BY <2>1, <2>2, RetryMoot
<1>9. CASE Flush
  <2>1. stack # <<>> /\ Head(stack).t = "flush"
    BY <1>9 DEF Flush, Top
  <2>2. UNCHANGED <<key, epoch, gen, disc, term, subscribed, timer>>
    BY <1>9 DEF Flush, session, raw, sock
  <2>3. CASE FlowMatches(Head(stack).flow) /\ key = Head(stack).flow.epoch
    BY <1>9, <2>3, RetryMoot DEF Flush
  <2>4. CASE ~(FlowMatches(Head(stack).flow) /\ key = Head(stack).flow.epoch)
    <3>1. Run(<<>>) /\ ledger' = ledger
      BY <1>9, <2>4 DEF Flush, ownership
    <3>2. ~Awaits(Head(stack))
      BY <2>1, <2>4 DEF Awaits
    <3>3. Leads(ToSet(<<>>))
      BY <2>1, <3>1, EmptyFacts, RunLeads DEF SendInv, SeqInv
    <3> QED BY <2>2, <3>1, <3>2, <3>3, RetryStays DEF Leads
  <2> QED BY <2>3, <2>4
<1>10. CASE DrainPendingInbound
  <2>1. stack # <<>> /\ Head(stack).t = "deliver"
    BY <1>10 DEF DrainPendingInbound, Top
  <2>2. UNCHANGED <<key, epoch, gen, disc, term, subscribed>>
    BY <1>10 DEF DrainPendingInbound, raw, sock
  <2>3. CASE Head(stack).frames = <<>> \/ key = 0
    <3>1. Run(<<>>) /\ UNCHANGED <<ledger, timer>>
      BY <1>10, <2>3 DEF DrainPendingInbound
    <3> QED BY <2>1, <2>2, <3>1, EmptyFacts, RetryRuns
  <2>4. CASE ~(Head(stack).frames = <<>> \/ key = 0)
    <3>1. PICK fs, x : fs = Head(stack).frames /\ x = [t |-> "deliver", frames |-> Tail(fs)]
      OBVIOUS
    <3>2. PICK rest : rest = <<x>> \o Tail(stack)
      OBVIOUS
    <3>3. Deliver(Head(fs), rest)
      BY <1>10, <2>4, <3>1, <3>2 DEF DrainPendingInbound
    <3>4. Legible(fs) /\ fs # <<>>
      BY <2>1, <2>4, <3>1, TopFine DEF Fine
    <3>5. IsSeq(Head(fs).ids)
      BY <3>4, TailFacts DEF Legible
    <3>6. IsSeq(Tail(stack)) /\ ToSet(stack) = {Head(stack)} \cup ToSet(Tail(stack))
      BY <2>1, TailFacts DEF SendInv, SeqInv
    <3>7. IsSeq(rest) /\ ToSet(Tail(stack)) \subseteq ToSet(rest)
      BY <3>2, <3>6, OneFacts, ConcatFacts
    <3>8. ~Awaits(Head(stack))
      BY <2>1 DEF Awaits
    <3> QED BY <2>2, <3>3, <3>5, <3>6, <3>7, <3>8, RetryDelivers
  <2> QED BY <2>3, <2>4
<1> QED BY <1>1, <1>2, <1>3, <1>4, <1>5, <1>6, <1>7, <1>8, <1>9, <1>10 DEF Tasks

\* Sockets, timers and promises.
LEMMA RetryEvents == ASSUME SendInv, RetryInv, Events PROVE RetryInv'
<1>1. CASE PongWhileConnected \/ SocketCloses
  <2>1. stack = <<>>
    BY <1>1 DEF PongWhileConnected, SocketCloses, Begin
  <2>2. UNCHANGED <<key, epoch, gen, ledger, disc, term, subscribed, timer>>
    BY <1>1 DEF PongWhileConnected, SocketCloses, session, ownership
  <2> QED BY <2>1, <2>2, RetryIdle
<1>2. CASE Redial
  <2>1. stack = <<>>
    BY <1>2 DEF Redial, Begin
  <2>2. UNCHANGED <<key, epoch, ledger, disc, term, timer>> /\ (UNCHANGED <<gen, subscribed>> \/ ~subscribed')
    BY <1>2 DEF Redial, Dial, sock, session, ownership
  <2> QED BY <2>1, <2>2, RetryIdle
<1>3. CASE Connected \/ OnClose \/ HeartbeatTimeout \/ StallRecovery
  BY <1>3, RetryMoot DEF Connected, OnClose, HeartbeatTimeout, StallRecovery, SocketLost
<1>4. CASE FailTerminally
  BY <1>4, RetryMoot DEF FailTerminally
<1>5. CASE RetryDue
  <2>1. key' = 0 \/ (stack = <<>> /\ UNCHANGED <<key, epoch, timer, subscribed>>)
    BY <1>5 DEF RetryDue, SocketLost, Begin, session, sock
  <2>2. UNCHANGED <<ledger, disc, term, gen>>
    BY <1>5 DEF RetryDue, ownership
  <2> QED BY <2>1, <2>2, RetryIdle, RetryMoot
<1>6. ASSUME NEW f \in flows, Registered(f) \/ RegisterFails(f) \/ RegisterRejected(f) PROVE RetryInv'
  <2>1. key' = 0 \/ term' \/ (stack = <<>> /\ UNCHANGED <<key, epoch, gen, ledger, disc, term, subscribed, timer>>)
    BY <1>6 DEF Registered, RegisterFails, RegisterRejected, SocketLost, Begin, session, sock, raw, ownership
  <2> QED BY <2>1, RetryIdle, RetryMoot
<1>7. ASSUME NEW f \in flows, Unwrapped(f) PROVE RetryInv'
  <2>1. stack = <<>> /\ UNCHANGED <<epoch, gen, ledger, disc, term, subscribed, timer>>
    BY <1>7 DEF Unwrapped, Begin, raw, sock, ownership
  <2>2. CASE ~FlowMatches(f)
    <3>1. UNCHANGED key
      BY <1>7, <2>2 DEF Unwrapped
    <3> QED BY <2>1, <3>1, RetryIdle
  <2>3. CASE FlowMatches(f)
    <3>1. PICK d, x : d = [t |-> "deliver", frames |-> pend] /\ x = [t |-> "flush", flow |-> f]
      OBVIOUS
    <3>2. key' = f.epoch /\ stack' = <<d, x>>
      BY <1>7, <2>3, <3>1 DEF Unwrapped, Begin
    <3>3. x \in ToSet(stack')
      BY <3>2, TwoFacts
    <3>4. FlowMatches(f)'
      BY <2>1, <2>3 DEF FlowMatches
    <3>5. Awaits(x)'
      BY <3>1, <3>2, <3>4 DEF Awaits, FlowMatches
    <3> QED BY <3>3, <3>5 DEF RetryInv
  <2> QED BY <2>2, <2>3
<1>8. ASSUME NEW fr \in Frames, ResultArrives(fr) PROVE RetryInv'
  <2>1. stack = <<>> /\ UNCHANGED <<key, epoch, gen, disc, term, subscribed>>
    BY <1>8 DEF ResultArrives, raw, sock
  <2>2. CASE key = 0
    BY <2>1, <2>2, RetryMoot
  <2>3. CASE key # 0
    <3>1. Deliver(fr, <<>>)
      BY <1>8, <2>3 DEF ResultArrives
    <3>2. IsSeq(fr.ids)
      <4>1. PICK K \in SUBSET DOMAIN first : fr.ids = Those(first, K)
        BY <1>8 DEF Frames
      <4> QED BY <4>1, ThoseIsSeq DEF SendInv, SeqInv
    <3> QED BY <2>1, <3>1, <3>2, EmptyFacts, RetryDelivers
  <2> QED BY <2>2, <2>3
<1> QED BY <1>1, <1>2, <1>3, <1>4, <1>5, <1>6, <1>7, <1>8 DEF Events

LEMMA RetryNext == ASSUME SendInv, RetryInv, [Next]_vars PROVE RetryInv'
<1>1. CASE UNCHANGED vars
  <2>1. UNCHANGED <<key, epoch, gen, ledger, disc, term, subscribed, timer, stack>>
    BY <1>1 DEF vars, session, raw, sock, ownership
  <2> QED BY <2>1, RetryStays
<1> QED BY <1>1, RetryCalls, RetryTasks, RetryEvents DEF Next

\* seal, drainOwnedResult, flushQueue and armLiveRetryTimer (nats-client.ts): no
\* listener, result, eviction or overtaken arming leaves a published message of a
\* standing session without its retry timer.
THEOREM TimerIsArmed == Spec => []RetryIsArmed
<1>1. Init => SendInv /\ RetryInv
  BY InitInv DEF Init, RetryInv
<1>2. SendInv /\ RetryInv /\ [Next]_vars => SendInv' /\ RetryInv'
  BY NextKeeps, RetryNext
<1>3. SendInv /\ RetryInv => RetryIsArmed
  <2>1. SendInv /\ stack = <<>> /\ term => key = 0
    BY IdleIsDown DEF Down
  <2> QED BY <2>1, EmptyFacts DEF RetryInv, RetryIsArmed
<1> QED BY <1>1, <1>2, <1>3, PTL DEF Spec

-----------------------------------------------------------------------------
(***************************************************************************)
(* No message is stranded.  One that is neither accepted nor failed is in  *)
(* the queue or in the ledger, or the running call has a task ahead that   *)
(* accepts or fails it; the two collections share nothing and repeat       *)
(* nothing; and an instance that was closed or retired has emptied both.   *)
(***************************************************************************)
Ids(l) == {l[k].id : k \in DOMAIN l}
NoRepeat(l) == \A a, b \in DOMAIN l : l[a].id = l[b].id => a = b
Ascending(l) == \A a, b \in DOMAIN l : a < b => l[a].id < l[b].id
\* A task that ends the life of message i.
Finishes(x, i) == x.t = "transition" /\ x.id = i /\ x.s \in {"accepted", "failed"}

\* The tasks for the tracker are the ones that end a life.
Closing(x) == x.t = "transition" => x.s \in {"accepted", "failed"}

Entry == [id : Id, pub : BOOLEAN]
TrackerTypes == tracker \in [Id -> DOMAIN Rank] /\ sends \in 0 .. MaxSends
OwnedInv ==
    \A i \in Id : tracker[i] \in {"queued", "sent"} =>
        i \in ToSet(queue) \cup Ids(ledger) \/ \E x \in ToSet(stack) : Finishes(x, i)
DistinctInv ==
    /\ ToSet(queue) \cap Ids(ledger) = {}
    /\ IsInjective(queue) /\ NoRepeat(ledger)
    /\ ToSet(queue) \cup Ids(ledger) \subseteq 1 .. sends
EmptiedInv == disc \/ term => queue = <<>> /\ ledger = <<>>
ClosingInv == \A x \in ToSet(stack) : Closing(x)
EntryInv == \A k \in DOMAIN ledger : ledger[k] \in Entry
OwnInv == TrackerTypes /\ EntryInv /\ OwnedInv /\ DistinctInv /\ EmptiedInv /\ ClosingInv

LEMMA IdsAre ==
    ASSUME NEW l
    PROVE  ToSet(IdsOf(l)) = Ids(l) /\ (IsInjective(IdsOf(l)) <=> NoRepeat(l))
<1>1. PICK f : f = IdsOf(l)
  OBVIOUS
<1>2. f = [k \in DOMAIN l |-> l[k].id]
  BY <1>1 DEF IdsOf
<1>3. ToSet(f) = Ids(l) /\ (IsInjective(f) <=> NoRepeat(l))
  BY <1>2 DEF ToSet, Ids, IsInjective, NoRepeat
<1> QED BY <1>1, <1>3

\* The invariant is as strong as the property.
LEMMA OwnInvImplies == OwnInv => NothingStranded
  BY EmptyFacts, IdsAre DEF OwnInv, OwnedInv, DistinctInv, EmptiedInv, NothingStranded

\* Sequences without repetition.
LEMMA FreshTail ==
    ASSUME NEW s, IsSeq(s), s # <<>>, IsInjective(s)
    PROVE  IsInjective(Tail(s)) /\ Head(s) \notin ToSet(Tail(s))
<1>1. s \in Seq(ToSet(s))
  BY DEF IsSeq
<1>2. PICK n \in Nat : n = Len(s)
  BY <1>1
<1>3. n >= 1 /\ DOMAIN s = 1 .. n /\ Head(s) = s[1]
  BY <1>1, <1>2
<1>4. PICK r : r = Tail(s)
  OBVIOUS
<1>5. DOMAIN r = 1 .. n - 1 /\ \A i \in 1 .. n - 1 : r[i] = s[i + 1]
  BY <1>1, <1>2, <1>3, <1>4
<1>6. ASSUME NEW a \in 1 .. n - 1, NEW b \in 1 .. n - 1, r[a] = r[b] PROVE a = b
  <2>1. a + 1 \in 1 .. n /\ b + 1 \in 1 .. n /\ s[a + 1] = s[b + 1]
    BY <1>3, <1>5, <1>6
  <2>2. a + 1 = b + 1
    BY <1>3, <2>1 DEF IsInjective
  <2> QED BY <2>2
<1>7. ASSUME NEW a \in 1 .. n - 1 PROVE r[a] # s[1]
  <2>1. a + 1 \in 1 .. n /\ 1 \in 1 .. n /\ a + 1 # 1 /\ r[a] = s[a + 1]
    BY <1>3, <1>5
  <2> QED BY <1>3, <2>1 DEF IsInjective
<1>8. IsInjective(r)
  BY <1>5, <1>6 DEF IsInjective
<1>9. Head(s) \notin ToSet(r)
  BY <1>3, <1>5, <1>7 DEF ToSet
<1> QED BY <1>4, <1>8, <1>9

LEMMA FreshConcat ==
    ASSUME NEW s, NEW u, IsSeq(s), IsSeq(u), IsInjective(s), IsInjective(u), ToSet(s) \cap ToSet(u) = {}
    PROVE  IsInjective(s \o u)
<1> DEFINE S == ToSet(s) \cup ToSet(u)
<1>1. s \in Seq(S) /\ u \in Seq(S)
  BY DEF IsSeq
<1>2. PICK m \in Nat, n \in Nat : m = Len(s) /\ n = Len(u)
  BY <1>1
<1>3. PICK r : r = s \o u
  OBVIOUS
<1>4. /\ DOMAIN s = 1 .. m /\ DOMAIN u = 1 .. n /\ DOMAIN r = 1 .. m + n
      /\ \A i \in 1 .. m + n : r[i] = IF i <= m THEN s[i] ELSE u[i - m]
  BY <1>1, <1>2, <1>3
<1>5. \A i \in 1 .. m + n : (i <= m => i \in 1 .. m) /\ (~(i <= m) => i - m \in 1 .. n)
  OBVIOUS
<1>6. ASSUME NEW a \in 1 .. m + n, NEW b \in 1 .. m + n, r[a] = r[b] PROVE a = b
  <2>1. CASE a <= m /\ b <= m
    BY <1>4, <1>5, <1>6, <2>1 DEF IsInjective
  <2>2. CASE ~(a <= m) /\ ~(b <= m)
    <3>1. a - m = b - m
      BY <1>4, <1>5, <1>6, <2>2 DEF IsInjective
    <3> QED BY <3>1
  <2>3. CASE a <= m /\ ~(b <= m)
    <3>1. s[a] = u[b - m] /\ a \in 1 .. m /\ b - m \in 1 .. n
      BY <1>4, <1>5, <1>6, <2>3
    <3>2. s[a] \in ToSet(s) /\ u[b - m] \in ToSet(u)
      BY <1>4, <3>1 DEF ToSet
    <3> QED BY <3>1, <3>2
  <2>4. CASE ~(a <= m) /\ b <= m
    <3>1. s[b] = u[a - m] /\ b \in 1 .. m /\ a - m \in 1 .. n
      BY <1>4, <1>5, <1>6, <2>4
    <3>2. s[b] \in ToSet(s) /\ u[a - m] \in ToSet(u)
      BY <1>4, <3>1 DEF ToSet
    <3> QED BY <3>1, <3>2
  <2> QED BY <2>1, <2>2, <2>3, <2>4
<1>7. IsInjective(r)
  BY <1>4, <1>6 DEF IsInjective
<1> QED BY <1>3, <1>7

LEMMA FreshAppend ==
    ASSUME NEW s, IsSeq(s), IsInjective(s), NEW x, x \notin ToSet(s)
    PROVE  IsInjective(Append(s, x))
<1>1. PICK u, r : u = <<x>> /\ r = Append(s, x)
  OBVIOUS
<1>2. s \in Seq(ToSet(s) \cup {x})
  BY DEF IsSeq
<1>3. r = s \o u
  BY <1>1, <1>2, AppendIsConcat
<1>4. DOMAIN u = {1}
  BY <1>1
<1>5. IsInjective(u)
  BY <1>4 DEF IsInjective
<1>6. IsSeq(u) /\ ToSet(u) = {x}
  BY <1>1, OneFacts
<1>7. IsInjective(s \o u)
  BY <1>5, <1>6, FreshConcat
<1>8. IsInjective(r)
  BY <1>3, <1>7
<1> QED BY <1>1, <1>8

\* What fails for a sequence of ids.
LEMMA FailsAll ==
    ASSUME NEW is, NEW i \in ToSet(is)
    PROVE  \E x \in ToSet(Fails(is)) : Finishes(x, i)
<1>1. PICK k \in DOMAIN is : i = is[k]
  BY DEF ToSet
<1>2. PICK f : f = Fails(is)
  OBVIOUS
<1>3. k \in DOMAIN f /\ f[k] = Transition(i, "failed")
  BY <1>1, <1>2 DEF Fails
<1>4. Finishes(f[k], i)
  BY <1>3 DEF Finishes, Transition
<1>5. f[k] \in ToSet(f)
  BY <1>3 DEF ToSet
<1> QED BY <1>2, <1>4, <1>5

\* takePendingSendIds takes everything.
LEMMA TakesAll ==
    ASSUME SeqInv, NEW i \in ToSet(queue) \cup Ids(ledger)
    PROVE  i \in ToSet(TakePending)
<1>1. IsSeq(queue) /\ IsSeq(ledger)
  BY DEF SeqInv
<1>2. PICK n \in Nat : n = Len(ledger) /\ DOMAIN ledger = 1 .. n
  BY <1>1, SeqFacts
<1>3. PICK K : K = {k \in DOMAIN ledger : ledger[k].id \notin ToSet(queue)}
  OBVIOUS
<1>4. PICK f : f = IdsOf(ledger)
  OBVIOUS
<1>5. ToSet(Those(f, K)) = {f[k] : k \in K} /\ IsSeq(Those(f, K))
  BY <1>1, <1>2, <1>3, ThoseSet, ThoseIsSeq
<1>6. ToSet(TakePending) = ToSet(queue) \cup ToSet(Those(f, K))
  BY <1>1, <1>3, <1>4, <1>5, ConcatFacts DEF TakePending
<1>7. ASSUME NEW k \in DOMAIN ledger, i = ledger[k].id, i \notin ToSet(queue) PROVE i \in ToSet(Those(f, K))
  <2>1. k \in K /\ f[k] = i
    BY <1>3, <1>4, <1>7 DEF IdsOf
  <2> QED BY <1>5, <2>1
<1> QED BY <1>6, <1>7 DEF Ids

\* What is owned stays owned: nothing but the calls changes.
LEMMA OwnStays ==
    ASSUME OwnInv, UNCHANGED <<tracker, queue, ledger, sends>>, disc' \/ term' => disc \/ term,
           NEW T, Leads(T), \A x \in T : Closing(x),
           stack # <<>> => Head(stack) \in ToSet(stack') \/ Head(stack).t # "transition"
    PROVE  OwnInv'
<1>1. TrackerTypes' /\ EntryInv'
  BY DEF OwnInv, TrackerTypes, EntryInv
<1>2. \A x \in ToSet(stack) : x \in ToSet(stack') \/ x.t # "transition"
  BY DEF Leads
<1>3. OwnedInv'
  <2> SUFFICES ASSUME NEW i \in Id, tracker'[i] \in {"queued", "sent"}, i \notin ToSet(queue') \cup Ids(ledger')
               PROVE  \E x \in ToSet(stack') : Finishes(x, i)
    BY DEF OwnedInv, Finishes, Ids
  <2>1. PICK x \in ToSet(stack) : Finishes(x, i)
    BY DEF OwnInv, OwnedInv
  <2>2. x \in ToSet(stack')
    BY <1>2, <2>1 DEF Finishes
  <2> QED BY <2>1, <2>2
<1>4. DistinctInv'
  BY DEF OwnInv, DistinctInv, Ids, NoRepeat
<1>5. EmptiedInv'
  BY DEF OwnInv, EmptiedInv
<1>6. ClosingInv'
  BY DEF OwnInv, ClosingInv, Leads, Closing
<1> QED BY <1>1, <1>3, <1>4, <1>5, <1>6 DEF OwnInv

\* A task that is none of the tracker's ends.
LEMMA OwnRuns ==
    ASSUME SendInv, OwnInv, UNCHANGED <<tracker, queue, ledger, sends>>, disc' \/ term' => disc \/ term,
           stack # <<>>, Head(stack).t # "transition",
           NEW ts, IsSeq(ts), Run(ts), \A x \in ToSet(ts) : x.t # "transition"
    PROVE  OwnInv'
<1>1. Leads(ToSet(ts))
  BY RunLeads DEF SendInv, SeqInv
<1>2. \A x \in ToSet(ts) : Closing(x)
  BY DEF Closing
<1> QED BY <1>1, <1>2, OwnStays

\* A callback or a call begins.
LEMMA OwnBegins ==
    ASSUME SendInv, OwnInv, UNCHANGED <<tracker, queue, ledger, sends>>, disc' \/ term' => disc \/ term,
           NEW ts, IsSeq(ts), Begin(ts) \/ Call(ts), \A x \in ToSet(ts) : x.t # "transition"
    PROVE  OwnInv'
<1>1. Leads(ToSet(ts)) /\ ToSet(stack) \subseteq ToSet(stack')
  BY BeginLeads, CallLeads, EmptyFacts DEF SendInv, SeqInv
<1>2. \A x \in ToSet(ts) : Closing(x)
  BY DEF Closing
<1>3. stack # <<>> => Head(stack) \in ToSet(stack')
  BY <1>1, TailFacts DEF SendInv, SeqInv
<1> QED BY <1>1, <1>2, <1>3, OwnStays

LEMMA CallAdds ==
    ASSUME IsSeq(stack), NEW ts, IsSeq(ts), Call(ts)
    PROVE  ToSet(ts) \subseteq ToSet(stack')
<1>1. IsSeq(ts \o stack) /\ ToSet(ts \o stack) = ToSet(ts) \cup ToSet(stack)
  BY ConcatFacts
<1>2. stack' = ts \/ stack' = ts \o stack
  BY DEF Call
<1> QED BY <1>1, <1>2

LEMMA ReconnectIsOther == IsSeq(ForceReconnect) /\ \A x \in ToSet(ForceReconnect) : x.t # "transition"
<1>1. PICK x : x = [t |-> "resched", life |-> life]
  OBVIOUS
<1>2. IsSeq(<<Callout, x>>) /\ ToSet(<<Callout, x>>) = {Callout, x}
  BY TwoFacts
<1>3. Callout.t # "transition" /\ x.t # "transition"
  BY <1>1, TaskKind
<1> QED BY <1>1, <1>2, <1>3 DEF ForceReconnect

LEMMA CalloutIsOther == IsSeq(<<Callout>>) /\ \A x \in ToSet(<<Callout>>) : x.t # "transition"
<1>1. IsSeq(<<Callout>>) /\ ToSet(<<Callout>>) = {Callout}
  BY OneFacts
<1> QED BY <1>1, TaskKind

LEMMA EmptyIsOther == IsSeq(<<>>) /\ \A x \in ToSet(<<>>) : x.t # "transition"
  BY EmptyFacts

\* The tasks that end lives do.
LEMMA FailsClose == ASSUME NEW is PROVE \A x \in ToSet(Fails(is)) : Closing(x)
<1>1. PICK f : f = Fails(is)
  OBVIOUS
<1>2. \A k \in DOMAIN f : f[k] = Transition(is[k], "failed")
  BY <1>1 DEF Fails
<1>3. \A k \in DOMAIN f : Closing(f[k])
  BY <1>2 DEF Closing, Transition
<1>4. \A x \in ToSet(f) : Closing(x)
  BY <1>3 DEF ToSet
<1> QED BY <1>1, <1>4

LEMMA ApplyCloses ==
    ASSUME NEW fr
    PROVE  /\ \A x \in ToSet(Apply(fr)) : Closing(x)
           /\ \A i \in ToSet(fr.ids) : \E x \in ToSet(Apply(fr)) : Finishes(x, i)
<1>1. PICK f, s : f = Apply(fr) /\ s = (IF fr.v = "accepted" THEN "accepted" ELSE "failed")
  OBVIOUS
<1>2. s \in {"accepted", "failed"}
  BY <1>1
<1>3. f = [k \in DOMAIN fr.ids |-> Transition(fr.ids[k], s)]
  BY <1>1 DEF Apply
<1>4. \A k \in DOMAIN fr.ids : Closing(f[k]) /\ Finishes(f[k], fr.ids[k])
  BY <1>2, <1>3 DEF Closing, Finishes, Transition
<1>5. \A x \in ToSet(f) : Closing(x)
  BY <1>3, <1>4 DEF ToSet
<1>6. ASSUME NEW i \in ToSet(fr.ids) PROVE \E x \in ToSet(f) : Finishes(x, i)
  <2>1. PICK k \in DOMAIN fr.ids : i = fr.ids[k]
    BY DEF ToSet
  <2>2. f[k] \in ToSet(f)
    BY <1>3 DEF ToSet
  <2> QED BY <1>4, <2>1, <2>2
<1> QED BY <1>1, <1>5, <1>6

\* Queue and ledger are detached: every message in them has a task that fails it.
LEMMA OwnDetaches ==
    ASSUME SendInv, OwnInv, Detach, UNCHANGED <<tracker, sends>>,
           NEW T, Leads(T), \A x \in T : Closing(x),
           ToSet(stack) \subseteq ToSet(stack'), ToSet(Fails(TakePending)) \subseteq ToSet(stack')
    PROVE  OwnInv'
<1>1. queue' = <<>> /\ ledger' = <<>>
  BY DEF Detach
<1>2. TrackerTypes' /\ EntryInv'
  BY <1>1 DEF OwnInv, TrackerTypes, EntryInv
<1>3. OwnedInv'
  <2> SUFFICES ASSUME NEW i \in Id, tracker'[i] \in {"queued", "sent"}
               PROVE  \E x \in ToSet(stack') : Finishes(x, i)
    BY DEF OwnedInv, Finishes
  <2>1. CASE i \in ToSet(queue) \cup Ids(ledger)
    <3>1. i \in ToSet(TakePending)
      BY <2>1, TakesAll DEF SendInv
    <3> QED BY <3>1, FailsAll
  <2>2. CASE i \notin ToSet(queue) \cup Ids(ledger)
    BY <2>2 DEF OwnInv, OwnedInv
  <2> QED BY <2>1, <2>2
<1>4. ToSet(queue') = {} /\ Ids(ledger') = {} /\ IsInjective(queue') /\ NoRepeat(ledger')
  BY <1>1, EmptyFacts DEF Ids, IsInjective, NoRepeat
<1>5. DistinctInv'
  <2>1. ToSet(queue)' = {} /\ Ids(ledger)' = {} /\ IsInjective(queue)' /\ NoRepeat(ledger)'
    BY <1>4 DEF ToSet, Ids, IsInjective, NoRepeat
  <2> QED BY <2>1 DEF DistinctInv
<1>6. EmptiedInv'
  BY <1>1 DEF EmptiedInv
<1>7. ClosingInv'
  BY DEF OwnInv, ClosingInv, Leads, Closing
<1> QED BY <1>2, <1>3, <1>5, <1>6, <1>7 DEF OwnInv

\* A new message: its id is fresh, and the queue or a failing task has it.
LEMMA OwnSend == ASSUME SendInv, OwnInv, Send PROVE OwnInv'
<1>1. PICK i \in Nat : i = sends + 1 /\ i \in 1 .. MaxSends /\ sends' = i /\ sends \in Nat
  BY BoundAssumption DEF Send, OwnInv, TrackerTypes
<1>2. PICK dead \in BOOLEAN : dead = (disc \/ term)
  OBVIOUS
<1>3. PICK last : last = IF dead THEN Transition(i, "failed") ELSE Task("drain")
  OBVIOUS
<1>4. /\ tracker' = [tracker EXCEPT ![i] = "queued"]
      /\ queue' = IF dead THEN queue ELSE Append(queue, i)
      /\ Call(Fan \o <<last>>)
      /\ UNCHANGED <<ledger, disc, term>>
  BY <1>1, <1>2, <1>3 DEF Send
<1>5. PICK ts : ts = Fan \o <<last>>
  OBVIOUS
<1>6. IsSeq(Fan) /\ (\A x \in ToSet(Fan) : x.t = "fan") /\ IsSeq(<<last>>) /\ ToSet(<<last>>) = {last}
  BY FanFacts, OneFacts
<1>7. IsSeq(ts) /\ ToSet(ts) = ToSet(Fan) \cup {last}
  BY <1>5, <1>6, ConcatFacts
<1>8. Leads(ToSet(ts)) /\ ToSet(stack) \subseteq ToSet(stack') /\ ToSet(ts) \subseteq ToSet(stack')
  <2>1. IsSeq(stack) /\ Call(ts)
    BY <1>4, <1>5 DEF SendInv, SeqInv
  <2> QED BY <1>7, <2>1, CallLeads, CallAdds
<1>9. Closing(last) /\ (dead => Finishes(last, i))
  BY <1>3, TaskKind DEF Closing, Finishes, Transition
<1>10. TrackerTypes' /\ EntryInv'
  BY <1>1, <1>4 DEF OwnInv, TrackerTypes, EntryInv, Rank, Id
<1>11. i \notin ToSet(queue) \cup Ids(ledger)
  BY <1>1 DEF OwnInv, DistinctInv
<1>12. ToSet(queue') = IF dead THEN ToSet(queue) ELSE ToSet(queue) \cup {i}
  BY <1>4, AppendFacts DEF SendInv, SeqInv
<1>13. IsInjective(queue')
  BY <1>4, <1>11, FreshAppend DEF SendInv, SeqInv, OwnInv, DistinctInv
<1>14. ToSet(queue)' = ToSet(queue') /\ Ids(ledger)' = Ids(ledger) /\ (IsInjective(queue)' <=> IsInjective(queue')) /\ (NoRepeat(ledger)' <=> NoRepeat(ledger))
  BY <1>4 DEF ToSet, Ids, IsInjective, NoRepeat
<1>15. OwnedInv'
  <2> SUFFICES ASSUME NEW j \in Id, tracker'[j] \in {"queued", "sent"}, j \notin ToSet(queue)' \cup Ids(ledger)'
               PROVE  \E x \in ToSet(stack') : Finishes(x, j)
    BY DEF OwnedInv, Finishes, ToSet
  <2>1. CASE j = i
    <3>1. dead
      BY <1>12, <1>14, <2>1
    <3> QED BY <1>7, <1>8, <1>9, <2>1, <3>1
  <2>2. CASE j # i
    <3>1. tracker[j] \in {"queued", "sent"} /\ j \notin ToSet(queue) \cup Ids(ledger)
      BY <1>4, <1>12, <1>14, <2>2 DEF OwnInv, TrackerTypes
    <3>2. PICK x \in ToSet(stack) : Finishes(x, j)
      BY <3>1 DEF OwnInv, OwnedInv
    <3> QED BY <1>8, <3>2
  <2> QED BY <2>1, <2>2
<1>16. DistinctInv'
  <2>1. ToSet(queue) \cup Ids(ledger) \subseteq 1 .. sends'
    BY <1>1 DEF OwnInv, DistinctInv
  <2>2. i \in 1 .. sends'
    BY <1>1
  <2> QED BY <1>11, <1>12, <1>13, <1>14, <2>1, <2>2 DEF OwnInv, DistinctInv
<1>17. EmptiedInv'
  BY <1>2, <1>4 DEF OwnInv, EmptiedInv
<1>18. ClosingInv'
  <2>1. \A x \in ToSet(ts) : Closing(x)
    BY <1>6, <1>7, <1>9 DEF Closing
  <2> QED BY <1>8, <2>1 DEF OwnInv, ClosingInv, Leads, Closing
<1> QED BY <1>10, <1>15, <1>16, <1>17, <1>18 DEF OwnInv

LEMMA OwnDisconnect == ASSUME SendInv, OwnInv, Disconnect PROVE OwnInv'
<1>1. PICK fs, ts : fs = Fails(TakePending) /\ ts = <<Callout>> \o fs
  OBVIOUS
<1>2. Detach /\ UNCHANGED <<tracker, sends>> /\ Call(ts)
  BY <1>1 DEF Disconnect, tracking
<1>3. IsSeq(fs) /\ \A x \in ToSet(fs) : Closing(x)
  BY <1>1, TakePendingFacts, FailsClose DEF SendInv
<1>4. IsSeq(ts) /\ ToSet(ts) = {Callout} \cup ToSet(fs)
  BY <1>1, <1>3, OneFacts, ConcatFacts
<1>5. Leads(ToSet(ts)) /\ ToSet(stack) \subseteq ToSet(stack') /\ ToSet(ts) \subseteq ToSet(stack')
  BY <1>2, <1>4, CallLeads, CallAdds DEF SendInv, SeqInv
<1>6. \A x \in ToSet(ts) : Closing(x)
  BY <1>3, <1>4, TaskKind DEF Closing
<1> QED BY <1>1, <1>2, <1>4, <1>5, <1>6, OwnDetaches

LEMMA OwnCalls == ASSUME SendInv, OwnInv, Calls PROVE OwnInv'
<1>1. CASE Connect
  <2>1. UNCHANGED <<tracker, queue, ledger, sends>> /\ Call(<<>>) /\ (disc' \/ term' => disc \/ term)
    BY <1>1 DEF Connect, tracking, ownership
  <2> QED BY <2>1, EmptyIsOther, OwnBegins
<1>2. CASE RequestApplicationRecovery
  <2>1. UNCHANGED <<tracker, queue, ledger, sends, disc, term>> /\ Call(ForceReconnect)
    BY <1>2 DEF RequestApplicationRecovery, tracking, ownership
  <2> QED BY <2>1, ReconnectIsOther, OwnBegins
<1> QED BY <1>1, <1>2, OwnSend, OwnDisconnect DEF Calls

\* A message is accepted or fails: only tasks for others are left, or it is done.
LEMMA OwnTracks == ASSUME SendInv, OwnInv, TrackerStep PROVE OwnInv'
<1>1. PICK x : x = Head(stack)
  OBVIOUS
<1>2. stack # <<>> /\ x.t = "transition" /\ x \in ToSet(stack)
  BY <1>1, TailFacts DEF TrackerStep, Top, SendInv, SeqInv
<1>3. x.s \in {"accepted", "failed"}
  BY <1>2 DEF OwnInv, ClosingInv, Closing
<1>4. UNCHANGED <<queue, ledger, sends, disc, term>>
  BY DEF TrackerStep, ownership, counters
<1>5. PICK ts : Run(ts) /\ (ts = <<>> \/ ts = Fan)
  BY DEF TrackerStep
<1>6. IsSeq(ts) /\ \A y \in ToSet(ts) : Closing(y)
  BY <1>5, FanFacts, EmptyFacts DEF Closing
<1>7. Leads(ToSet(ts))
  BY <1>2, <1>5, <1>6, RunLeads DEF SendInv, SeqInv
<1>8. /\ tracker' = [tracker EXCEPT ![x.id] = x.s] \/ tracker' = tracker
      /\ tracker' = tracker => ~MayAdvance(x.id, x.s) \/ tracker' = [tracker EXCEPT ![x.id] = x.s]
  BY <1>1 DEF TrackerStep, tracking
<1>9. TrackerTypes' /\ EntryInv'
  BY <1>3, <1>4, <1>8 DEF OwnInv, TrackerTypes, EntryInv, Rank
<1>10. ASSUME NEW j \in Id, tracker'[j] \in {"queued", "sent"} PROVE tracker[j] \in {"queued", "sent"} /\ ~Finishes(x, j)
  <2>0. tracker[j] \in {"none", "queued", "sent", "accepted", "failed"} /\ tracker \in [Id -> DOMAIN Rank]
    BY DEF OwnInv, TrackerTypes, Rank
  <2>1. CASE tracker' = [tracker EXCEPT ![x.id] = x.s]
    BY <1>3, <1>10, <2>0, <2>1 DEF Finishes
  <2>2. CASE tracker' = tracker /\ ~MayAdvance(x.id, x.s)
    <3>1. Rank["queued"] = 1 /\ Rank["sent"] = 2 /\ Rank["accepted"] = 3 /\ Rank["failed"] = 4
      BY DEF Rank
    <3>2. x.id = j => MayAdvance(x.id, x.s)
      BY <1>3, <1>10, <2>2, <3>1 DEF MayAdvance
    <3> QED BY <1>10, <2>2, <3>2 DEF Finishes
  <2> QED BY <1>8, <2>1, <2>2
<1>11. OwnedInv'
  <2> SUFFICES ASSUME NEW j \in Id, tracker'[j] \in {"queued", "sent"}, j \notin ToSet(queue') \cup Ids(ledger')
               PROVE  \E y \in ToSet(stack') : Finishes(y, j)
    BY DEF OwnedInv, Finishes, Ids
  <2>1. PICK y \in ToSet(stack) : Finishes(y, j)
    BY <1>4, <1>10 DEF OwnInv, OwnedInv
  <2>2. y # x
    BY <1>10, <2>1
  <2> QED BY <1>1, <1>7, <2>1, <2>2 DEF Leads
<1>12. DistinctInv' /\ EmptiedInv'
  BY <1>4 DEF OwnInv, DistinctInv, EmptiedInv, Ids, NoRepeat
<1>13. ClosingInv'
  BY <1>6, <1>7 DEF OwnInv, ClosingInv, Leads, Closing
<1> QED BY <1>9, <1>11, <1>12, <1>13 DEF OwnInv

\* recordUnacked: what is in the ledger afterwards, and what was evicted.
LEMMA SealOwns ==
    ASSUME SeqInv, OwnInv, queue # <<>>, NEW i, i = Head(queue), NEW rec, rec = Recorded(i),
           NEW l, l = Kept(rec) \/ l = Confirmed(Kept(rec), i)
    PROVE  /\ (\A k \in DOMAIN l : l[k] \in Entry)
           /\ NoRepeat(l) /\ Ids(l) \subseteq Ids(ledger) \cup {i}
           /\ Ids(ledger) \cup {i} \subseteq Ids(l) \cup ToSet(Evicted(rec))
           /\ Ascending(ledger) /\ (\A e \in Ids(ledger) : e < i) => Ascending(l)
<1>1. i \in ToSet(queue) /\ i \notin Ids(ledger)
  <2>1. i \in ToSet(queue)
    BY TailFacts DEF SeqInv
  <2> QED BY <2>1 DEF OwnInv, DistinctInv
<1>2. PICK e : e = [id |-> i, pub |-> FALSE]
  OBVIOUS
<1>3. rec = Append(ledger, e)
  BY <1>1, <1>2, IdsAre DEF Recorded
<1>4. PICK n \in Nat : n = Len(ledger) /\ DOMAIN ledger = 1 .. n
  BY SeqFacts DEF SeqInv
<1>5. ledger \in Seq(ToSet(ledger) \cup {e})
  BY DEF SeqInv, IsSeq
<1>6. /\ Len(rec) = n + 1 /\ DOMAIN rec = 1 .. n + 1 /\ rec \in Seq(ToSet(ledger) \cup {e})
      /\ \A k \in 1 .. n : rec[k] = ledger[k]
      /\ rec[n + 1] = e
  BY <1>3, <1>4, <1>5
<1>7. Ids(rec) = Ids(ledger) \cup {i}
  <2>1. \A k \in 1 .. n + 1 : rec[k].id \in Ids(ledger) \cup {i}
    <3>1. \A k \in 1 .. n : rec[k].id \in Ids(ledger)
      BY <1>4, <1>6 DEF Ids
    <3>2. rec[n + 1].id = i
      BY <1>2, <1>6
    <3>3. \A k \in 1 .. n + 1 : k \in 1 .. n \/ k = n + 1
      OBVIOUS
    <3> QED BY <3>1, <3>2, <3>3
  <2>2. i \in Ids(rec)
    <3>1. n + 1 \in DOMAIN rec /\ rec[n + 1].id = i
      BY <1>2, <1>6
    <3> QED BY <3>1 DEF Ids
  <2>3. ASSUME NEW k \in 1 .. n PROVE ledger[k].id \in Ids(rec)
    <3>1. k \in DOMAIN rec /\ rec[k].id = ledger[k].id
      BY <1>6
    <3> QED BY <3>1 DEF Ids
  <2>4. Ids(rec) \subseteq Ids(ledger) \cup {i}
    BY <1>6, <2>1 DEF Ids
  <2>5. Ids(ledger) \subseteq Ids(rec)
    BY <1>4, <2>3 DEF Ids
  <2> QED BY <2>2, <2>4, <2>5
<1>8. NoRepeat(rec)
  <2>1. ASSUME NEW a \in 1 .. n + 1, NEW b \in 1 .. n + 1, rec[a].id = rec[b].id PROVE a = b
    <3>1. \A k \in 1 .. n : rec[k].id = ledger[k].id /\ ledger[k].id \in Ids(ledger)
      BY <1>4, <1>6 DEF Ids
    <3>2. rec[n + 1].id = i
      BY <1>2, <1>6
    <3>3. (a \in 1 .. n \/ a = n + 1) /\ (b \in 1 .. n \/ b = n + 1)
      OBVIOUS
    <3>4. CASE a \in 1 .. n /\ b \in 1 .. n
      BY <1>4, <2>1, <3>1, <3>4 DEF OwnInv, DistinctInv, NoRepeat
    <3> QED BY <1>1, <2>1, <3>1, <3>2, <3>3, <3>4
  <2> QED BY <1>6, <2>1 DEF NoRepeat
<1>9. PICK x \in 0 .. n + 1 : x = Excess(rec)
  <2>1. Excess(rec) = IF n + 1 > MaxUnacked THEN (n + 1) - MaxUnacked ELSE 0
    BY <1>6 DEF Excess
  <2>2. MaxUnacked \in Nat
    BY BoundAssumption
  <2>3. Excess(rec) \in 0 .. n + 1
    BY <2>1, <2>2
  <2> QED BY <2>3
<1>10. PICK kept : kept = Kept(rec)
  OBVIOUS
<1>11. kept = SubSeq(rec, x + 1, n + 1)
  BY <1>6, <1>9, <1>10 DEF Kept
<1>12. DOMAIN kept = 1 .. (n + 1 - x) /\ \A k \in 1 .. (n + 1 - x) : kept[k] = rec[k + x]
  BY <1>6, <1>9, <1>11
<1>13. NoRepeat(kept)
  <2>1. ASSUME NEW a \in 1 .. (n + 1 - x), NEW b \in 1 .. (n + 1 - x), kept[a].id = kept[b].id PROVE a = b
    <3>1. a + x \in 1 .. n + 1 /\ b + x \in 1 .. n + 1 /\ rec[a + x].id = rec[b + x].id
      BY <1>12, <2>1
    <3>2. a + x = b + x
      BY <1>6, <1>8, <3>1 DEF NoRepeat
    <3> QED BY <3>2
  <2> QED BY <1>12, <2>1 DEF NoRepeat
<1>14. Ids(kept) \subseteq Ids(rec)
  <2>1. ASSUME NEW k \in 1 .. (n + 1 - x) PROVE kept[k].id \in Ids(rec)
    <3>1. k + x \in DOMAIN rec /\ kept[k].id = rec[k + x].id
      BY <1>6, <1>12
    <3> QED BY <3>1 DEF Ids
  <2> QED BY <1>12, <2>1 DEF Ids
<1>15. Ids(rec) \subseteq Ids(kept) \cup ToSet(Evicted(rec))
  <2>1. PICK f : f = IdsOf(rec)
    OBVIOUS
  <2>2. DOMAIN f = 1 .. n + 1 /\ \A k \in 1 .. n + 1 : f[k] = rec[k].id
    BY <1>6, <2>1 DEF IdsOf
  <2>3. IsSeq(rec)
    BY <1>3, AppendFacts DEF SeqInv
  <2>4. IsSeq(f)
    BY <2>1, <2>3, IdsFacts
  <2>5. f \in Seq(ToSet(f)) /\ Len(f) = n + 1
    BY <2>2, <2>4 DEF IsSeq
  <2>6. PICK ev : ev = SubSeq(f, 1, x)
    OBVIOUS
  <2>7. DOMAIN ev = 1 .. x /\ \A k \in 1 .. x : ev[k] = f[k]
    BY <2>5, <2>6
  <2>8. ASSUME NEW k \in 1 .. n + 1 PROVE rec[k].id \in Ids(kept) \cup ToSet(ev)
    <3>1. CASE k <= x
      <4>1. k \in 1 .. x /\ ev[k] = rec[k].id
        BY <2>2, <2>7, <3>1
      <4> QED BY <2>7, <4>1 DEF ToSet
    <3>2. CASE ~(k <= x)
      <4>1. k - x \in 1 .. (n + 1 - x) /\ kept[k - x] = rec[(k - x) + x] /\ (k - x) + x = k
        BY <1>12, <3>2
      <4> QED BY <1>12, <4>1 DEF Ids
    <3> QED BY <3>1, <3>2
  <2>9. ev = Evicted(rec)
    BY <1>9, <2>1, <2>6 DEF Evicted
  <2> QED BY <1>6, <2>8, <2>9 DEF Ids
<1>16. \A k \in DOMAIN kept : kept[k] \in Entry
  <2>1. e \in Entry
    <3>1. i \in Id
      BY <1>1, BoundAssumption DEF OwnInv, DistinctInv, TrackerTypes, Id
    <3> QED BY <1>2, <3>1 DEF Entry
  <2>2. \A k \in 1 .. n + 1 : k \in 1 .. n \/ k = n + 1
    OBVIOUS
  <2>3. \A k \in 1 .. n + 1 : rec[k] \in Entry
    BY <1>4, <1>6, <2>1, <2>2 DEF OwnInv, EntryInv
  <2>4. \A k \in 1 .. (n + 1 - x) : k + x \in 1 .. n + 1
    OBVIOUS
  <2> QED BY <1>12, <2>3, <2>4
<1>17. ASSUME Ascending(ledger), \A a \in Ids(ledger) : a < i PROVE Ascending(kept)
  <2>1. ASSUME NEW a \in 1 .. n + 1, NEW b \in 1 .. n + 1, a < b PROVE rec[a].id < rec[b].id
    <3>1. a \in 1 .. n /\ (b \in 1 .. n \/ b = n + 1)
      BY <2>1
    <3>2. rec[a].id = ledger[a].id /\ ledger[a].id \in Ids(ledger)
      BY <1>4, <1>6, <3>1 DEF Ids
    <3>3. CASE b \in 1 .. n
      BY <1>4, <1>6, <1>17, <2>1, <3>1, <3>3 DEF Ascending
    <3>4. CASE b = n + 1
      BY <1>2, <1>6, <1>17, <3>2, <3>4
    <3> QED BY <3>1, <3>3, <3>4
  <2>2. ASSUME NEW a \in 1 .. (n + 1 - x), NEW b \in 1 .. (n + 1 - x), a < b PROVE kept[a].id < kept[b].id
    <3>1. a + x \in 1 .. n + 1 /\ b + x \in 1 .. n + 1 /\ a + x < b + x
      BY <2>2
    <3>2. rec[a + x].id < rec[b + x].id
      BY <2>1, <3>1
    <3> QED BY <1>12, <3>2
  <2> QED BY <1>12, <2>2 DEF Ascending
<1>18. CASE l = kept
  BY <1>7, <1>13, <1>14, <1>15, <1>16, <1>18, <1>17
<1>19. CASE l = Confirmed(kept, i)
  <2>1. DOMAIN l = DOMAIN kept /\ \A k \in DOMAIN kept : l[k] = IF kept[k].id = i THEN [kept[k] EXCEPT !.pub = TRUE] ELSE kept[k]
    BY <1>19 DEF Confirmed
  <2>2. ASSUME NEW k \in DOMAIN kept PROVE l[k].id = kept[k].id
    BY <1>16, <2>1 DEF Entry
  <2>4. \A k \in DOMAIN l : l[k] \in Entry
    BY <1>16, <2>1 DEF Entry
  <2>3. Ids(l) = Ids(kept) /\ (NoRepeat(l) <=> NoRepeat(kept)) /\ (Ascending(kept) => Ascending(l))
    BY <2>1, <2>2 DEF Ids, NoRepeat, Ascending
  <2> QED BY <1>7, <1>13, <1>14, <1>15, <1>17, <2>3, <2>4
<1> QED BY <1>10, <1>18, <1>19

\* seal: the message moves from the queue to the ledger, and what the cap evicts
\* has a task that fails it.
LEMMA OwnMoves ==
    ASSUME SendInv, OwnInv, queue # <<>>, NEW i, i = Head(queue), NEW rec, rec = Recorded(i),
           ledger' = Kept(rec) \/ ledger' = Confirmed(Kept(rec), i), queue' = Tail(queue),
           TrackerTypes', UNCHANGED <<sends, disc, term>>,
           \A j \in Id : tracker'[j] \in {"queued", "sent"} => tracker[j] \in {"queued", "sent"},
           stack # <<>>, Head(stack).t # "transition",
           NEW ts, IsSeq(ts), Run(ts), \A x \in ToSet(ts) : Closing(x),
           ToSet(Fails(Evicted(rec))) \subseteq ToSet(ts)
    PROVE  OwnInv'
<1>1. PICK l : l = ledger'
  OBVIOUS
<1>2. /\ (\A k \in DOMAIN l : l[k] \in Entry)
      /\ NoRepeat(l) /\ Ids(l) \subseteq Ids(ledger) \cup {i}
      /\ Ids(ledger) \cup {i} \subseteq Ids(l) \cup ToSet(Evicted(rec))
  BY <1>1, SealOwns DEF SendInv
<1>3. Ids(ledger)' = Ids(l) /\ NoRepeat(ledger)' /\ EntryInv'
  BY <1>1, <1>2 DEF Ids, NoRepeat, EntryInv
<1>4. PICK q : q = queue'
  OBVIOUS
<1>5. IsInjective(q) /\ i \notin ToSet(q) /\ ToSet(queue) = {i} \cup ToSet(q)
  BY <1>4, TailFacts, FreshTail DEF SendInv, SeqInv, OwnInv, DistinctInv
<1>6. ToSet(queue)' = ToSet(q) /\ IsInjective(queue)'
  BY <1>4, <1>5 DEF ToSet, IsInjective
<1>7. Leads(ToSet(ts)) /\ ToSet(ts) \subseteq ToSet(stack')
  <2>1. IsSeq(stack) /\ IsSeq(Tail(stack))
    BY TailFacts DEF SendInv, SeqInv
  <2>2. ToSet(ts) \subseteq ToSet(stack')
    BY <2>1, ConcatFacts DEF Run
  <2> QED BY <2>1, <2>2, RunLeads
<1>8. OwnedInv'
  <2> SUFFICES ASSUME NEW j \in Id, tracker'[j] \in {"queued", "sent"}, j \notin ToSet(queue)' \cup Ids(ledger)'
               PROVE  \E x \in ToSet(stack') : Finishes(x, j)
    BY DEF OwnedInv, Finishes, ToSet
  <2>1. CASE j \in ToSet(queue) \cup Ids(ledger)
    <3>1. j \in ToSet(Evicted(rec))
      BY <1>2, <1>3, <1>5, <1>6, <2>1
    <3> QED BY <1>7, <3>1, FailsAll
  <2>2. CASE j \notin ToSet(queue) \cup Ids(ledger)
    <3>1. PICK x \in ToSet(stack) : Finishes(x, j)
      BY <2>2 DEF OwnInv, OwnedInv
    <3>2. x # Head(stack)
      BY <3>1 DEF Finishes
    <3> QED BY <1>7, <3>1, <3>2 DEF Leads
  <2> QED BY <2>1, <2>2
<1>9. DistinctInv'
  BY <1>2, <1>3, <1>5, <1>6 DEF OwnInv, DistinctInv
<1>10. EmptiedInv'
  BY DEF OwnInv, EmptiedInv
<1>11. ClosingInv'
  BY <1>7 DEF OwnInv, ClosingInv, Leads, Closing
<1> QED BY <1>3, <1>8, <1>9, <1>10, <1>11 DEF OwnInv

LEMMA OwnPublishes == ASSUME SendInv, OwnInv, SealPublishes PROVE OwnInv'
<1>1. PICK i, rec : i = Head(queue) /\ rec = Recorded(i)
  OBVIOUS
<1>2. PICK fan : /\ fan = Fan \/ fan = <<>>
                 /\ Run(fan \o Arm(ledger') \o Fails(Evicted(rec)) \o <<Task("loop")>>)
  BY <1>1 DEF SealPublishes
<1>3. PICK x, fails : x = [t |-> "arm", fence |-> Fence(ledger')] /\ fails = Fails(Evicted(rec))
  OBVIOUS
<1>4. Run(fan \o <<x>> \o fails \o <<Task("loop")>>)
  BY <1>2, <1>3 DEF Arm
<1>5. IsSeq(fan) /\ (\A y \in ToSet(fan) : y.t = "fan") /\ IsSeq(fails) /\ \A y \in ToSet(fails) : Closing(y)
  <2>1. IsSeq(fan) /\ \A y \in ToSet(fan) : y.t = "fan"
    BY <1>2, FanFacts, EmptyFacts
  <2>2. IsSeq(fails) /\ \A y \in ToSet(fails) : Closing(y)
    BY <1>1, <1>3, RecordedFacts, FailsClose DEF SendInv
  <2> QED BY <2>1, <2>2
<1>6. PICK last : last = Task("loop")
  OBVIOUS
<1>7. IsSeq(<<x>>) /\ ToSet(<<x>>) = {x} /\ IsSeq(<<last>>) /\ ToSet(<<last>>) = {last}
  BY OneFacts
<1>8. PICK u, v, w : u = fan \o <<x>> /\ v = u \o fails /\ w = v \o <<last>>
  OBVIOUS
<1>9. IsSeq(u) /\ ToSet(u) = ToSet(fan) \cup {x}
  BY <1>5, <1>7, <1>8, ConcatFacts
<1>10. IsSeq(v) /\ ToSet(v) = ToSet(u) \cup ToSet(fails)
  BY <1>5, <1>8, <1>9, ConcatFacts
<1>11. IsSeq(w) /\ ToSet(w) = ToSet(v) \cup {last}
  <2>1. PICK z : z = <<last>>
    OBVIOUS
  <2>2. IsSeq(z) /\ ToSet(z) = {last} /\ w = v \o z
    BY <1>7, <1>8, <2>1
  <2> QED BY <1>10, <2>2, ConcatFacts
<1>12. Run(w)
  BY <1>4, <1>6, <1>8
<1>13. Closing(x) /\ Closing(last)
  BY <1>3, <1>6, TaskKind DEF Closing
<1>14. \A y \in ToSet(w) : Closing(y)
  BY <1>5, <1>9, <1>10, <1>11, <1>13 DEF Closing
<1>15. /\ queue # <<>> /\ stack # <<>> /\ Head(stack).t # "transition"
       /\ queue' = Tail(queue) /\ ledger' = Confirmed(Kept(rec), i)
       /\ tracker' = (IF MayAdvance(i, "sent") THEN [tracker EXCEPT ![i] = "sent"] ELSE tracker)
       /\ UNCHANGED <<sends, disc, term>>
  BY <1>1 DEF SealPublishes, Top, counters
<1>16. TrackerTypes'
  <2>1. "sent" \in DOMAIN Rank
    BY DEF Rank
  <2>2. tracker' \in [Id -> DOMAIN Rank]
    BY <1>15, <2>1 DEF OwnInv, TrackerTypes
  <2> QED BY <1>15, <2>2 DEF OwnInv, TrackerTypes
<1>17. ASSUME NEW j \in Id, tracker'[j] \in {"queued", "sent"} PROVE tracker[j] \in {"queued", "sent"}
  <2>1. CASE tracker' = tracker
    BY <1>17, <2>1
  <2>2. CASE MayAdvance(i, "sent") /\ j # i
    BY <1>15, <1>17, <2>2 DEF OwnInv, TrackerTypes
  <2>3. CASE MayAdvance(i, "sent") /\ j = i
    <3>1. /\ Rank["sent"] = 2 /\ Rank["accepted"] = 3 /\ Rank["failed"] = 4
          /\ tracker[j] \in {"none", "queued", "sent", "accepted", "failed"}
      BY DEF Rank, OwnInv, TrackerTypes
    <3> QED BY <2>3, <3>1 DEF MayAdvance
  <2> QED BY <1>15, <2>1, <2>2, <2>3
<1> QED BY <1>1, <1>3, <1>10, <1>11, <1>12, <1>14, <1>15, <1>16, <1>17, OwnMoves

LEMMA OwnRefused == ASSUME SendInv, OwnInv, SealFails PROVE OwnInv'
<1>1. PICK i, rec : i = Head(queue) /\ rec = Recorded(i)
  OBVIOUS
<1>2. PICK fails, last : fails = Fails(Evicted(rec)) /\ last = Task("loop")
  OBVIOUS
<1>3. Run(ForceReconnect \o fails \o <<last>>)
  BY <1>1, <1>2 DEF SealFails
<1>4. PICK u, w : u = ForceReconnect \o fails /\ w = u \o <<last>>
  OBVIOUS
<1>5. IsSeq(fails) /\ \A y \in ToSet(fails) : Closing(y)
  BY <1>1, <1>2, RecordedFacts, FailsClose DEF SendInv
<1>6. IsSeq(<<last>>) /\ ToSet(<<last>>) = {last}
  BY OneFacts
<1>7. IsSeq(u) /\ ToSet(u) = ToSet(ForceReconnect) \cup ToSet(fails)
  BY <1>4, <1>5, ReconnectIsOther, ConcatFacts
<1>8. IsSeq(w) /\ ToSet(w) = ToSet(u) \cup {last}
  BY <1>4, <1>6, <1>7, ConcatFacts
<1>9. Run(w)
  BY <1>3, <1>4
<1>10. \A y \in ToSet(w) : Closing(y)
  BY <1>2, <1>5, <1>7, <1>8, ReconnectIsOther, TaskKind DEF Closing
<1>11. /\ queue # <<>> /\ stack # <<>> /\ Head(stack).t # "transition"
       /\ queue' = Tail(queue) /\ ledger' = Kept(rec)
       /\ UNCHANGED <<tracker, sends, disc, term>>
  BY <1>1 DEF SealFails, Top, counters, tracking
<1>12. TrackerTypes'
  BY <1>11 DEF OwnInv, TrackerTypes
<1> QED BY <1>1, <1>2, <1>7, <1>8, <1>9, <1>10, <1>11, <1>12, OwnMoves

\* flushQueue: the ledger moves in front of the queue.
LEMMA OwnFlushes == ASSUME SendInv, OwnInv, Flush PROVE OwnInv'
<1>1. stack # <<>> /\ Head(stack).t # "transition" /\ UNCHANGED <<tracker, sends, disc, term>>
  BY DEF Flush, Top, tracking, counters
<1>2. PICK f : f = Head(stack).flow
  OBVIOUS
<1>3. CASE ~(FlowMatches(f) /\ key = f.epoch)
  <2>1. Run(<<>>) /\ UNCHANGED <<queue, ledger>>
    BY <1>2, <1>3 DEF Flush, ownership
  <2> QED BY <1>1, <2>1, EmptyIsOther, OwnRuns
<1>4. CASE FlowMatches(f) /\ key = f.epoch
  <2>1. PICK d, e, ts : d = Task("drain") /\ e = [t |-> "established", flow |-> f] /\ ts = <<d, e>>
    OBVIOUS
  <2>2. queue' = IdsOf(ledger) \o queue /\ ledger' = <<>> /\ Run(ts)
    BY <1>2, <1>4, <2>1 DEF Flush, Replay
  <2>3. IsSeq(ts) /\ ToSet(ts) = {d, e} /\ d.t # "transition" /\ e.t # "transition"
    BY <2>1, TwoFacts, TaskKind
  <2>4. Leads(ToSet(ts))
    BY <1>1, <2>2, <2>3, RunLeads DEF SendInv, SeqInv
  <2>5. PICK s, q : s = IdsOf(ledger) /\ q = queue'
    OBVIOUS
  <2>6. IsSeq(s) /\ ToSet(s) = Ids(ledger) /\ IsInjective(s)
    BY <2>5, IdsAre, IdsFacts DEF SendInv, SeqInv, OwnInv, DistinctInv
  <2>7. ToSet(q) = Ids(ledger) \cup ToSet(queue)
    BY <2>2, <2>5, <2>6, ConcatFacts DEF SendInv, SeqInv
  <2>8. IsInjective(q)
    <3>1. IsSeq(queue) /\ IsInjective(queue) /\ ToSet(s) \cap ToSet(queue) = {}
      BY <2>6 DEF SendInv, SeqInv, OwnInv, DistinctInv
    <3>2. IsInjective(s \o queue)
      BY <2>6, <3>1, FreshConcat
    <3> QED BY <2>2, <2>5, <3>2
  <2>9. ToSet(queue)' = ToSet(q) /\ IsInjective(queue)' /\ Ids(ledger)' = {} /\ NoRepeat(ledger)' /\ EntryInv'
    BY <2>2, <2>5, <2>8 DEF ToSet, IsInjective, Ids, NoRepeat, EntryInv
  <2>10. OwnedInv'
    <3> SUFFICES ASSUME NEW j \in Id, tracker'[j] \in {"queued", "sent"}, j \notin ToSet(queue)' \cup Ids(ledger)'
                 PROVE  \E x \in ToSet(stack') : Finishes(x, j)
      BY DEF OwnedInv, Finishes, ToSet
    <3>1. PICK x \in ToSet(stack) : Finishes(x, j)
      BY <1>1, <2>7, <2>9 DEF OwnInv, OwnedInv
    <3>2. x # Head(stack)
      BY <1>1, <3>1 DEF Finishes
    <3> QED BY <2>4, <3>1, <3>2 DEF Leads
  <2>11. DistinctInv'
    BY <1>1, <2>7, <2>9 DEF OwnInv, DistinctInv
  <2>12. ~disc /\ ~term
    BY <1>4 DEF FlowMatches
  <2>13. EmptiedInv' /\ TrackerTypes'
    BY <1>1, <2>12 DEF EmptiedInv, OwnInv, TrackerTypes
  <2>14. ClosingInv'
    BY <2>3, <2>4 DEF OwnInv, ClosingInv, Leads, Closing
  <2> QED BY <2>9, <2>10, <2>11, <2>13, <2>14 DEF OwnInv
<1> QED BY <1>3, <1>4

\* A result: what it names leaves the ledger, and has a task that ends it.
LEMMA OwnDelivers ==
    ASSUME SendInv, OwnInv, NEW fr, IsSeq(fr.ids), NEW rest, IsSeq(rest), Deliver(fr, rest),
           UNCHANGED <<tracker, queue, sends, disc, term>>, \A x \in ToSet(rest) : Closing(x),
           \A x \in ToSet(stack) : x \in ToSet(rest) \/ x.t # "transition"
    PROVE  OwnInv'
<1>1. PICK K : K = {k \in DOMAIN ledger : ledger[k].id \notin ToSet(fr.ids)}
  OBVIOUS
<1>2. PICK l : l = Those(ledger, K)
  OBVIOUS
<1>3. PICK arms : /\ arms = <<>> \/ arms = Arm(l)
                  /\ ledger' = l /\ stack' = Apply(fr) \o arms \o <<Callout>> \o rest
  BY <1>1, <1>2 DEF Deliver, ArmAfter
<1>4. IsSeq(arms) /\ \A x \in ToSet(arms) : Closing(x)
  <2>1. PICK a : a = [t |-> "arm", fence |-> Fence(l)]
    OBVIOUS
  <2>2. a.t # "transition"
    BY <2>1
  <2>3. arms = <<>> \/ arms = <<a>>
    BY <1>3, <2>1 DEF Arm
  <2> QED BY <2>2, <2>3, EmptyFacts, OneFacts DEF Closing
<1>5. PICK c : c = Callout
  OBVIOUS
<1>6. PICK u, v : u = Apply(fr) \o arms /\ v = u \o <<c>>
  OBVIOUS
<1>7. IsSeq(u) /\ ToSet(u) = ToSet(Apply(fr)) \cup ToSet(arms)
  BY <1>4, <1>6, ApplyFacts, ConcatFacts
<1>8. IsSeq(v) /\ ToSet(v) = ToSet(u) \cup {c}
  BY <1>6, <1>7, OneFacts, ConcatFacts
<1>9. ToSet(stack') = ToSet(v) \cup ToSet(rest)
  BY <1>3, <1>5, <1>6, <1>8, ConcatFacts
<1>10. \A x \in ToSet(stack') : Closing(x)
  BY <1>4, <1>5, <1>7, <1>8, <1>9, ApplyCloses, TaskKind DEF Closing
<1>11. PICK n \in Nat : DOMAIN ledger = 1 .. n
  BY SeqFacts DEF SendInv, SeqInv
<1>12. K \in SUBSET (1 .. n)
  BY <1>1, <1>11
<1>13. PICK m \in Nat : Selects(l, m, ledger, K)
  BY <1>2, <1>12, ThosePlaces
<1>14. \A a \in DOMAIN l : \E k \in K : PlaceIn(K, k) = a /\ l[a] = ledger[k]
  BY <1>13 DEF Selects
<1>15. \A a \in DOMAIN l : l[a] \in Entry /\ l[a].id \in Ids(ledger)
  BY <1>1, <1>14 DEF OwnInv, EntryInv, Ids
<1>16. NoRepeat(l)
  <2>1. ASSUME NEW a \in DOMAIN l, NEW b \in DOMAIN l, l[a].id = l[b].id PROVE a = b
    <3>1. PICK k \in K : PlaceIn(K, k) = a /\ l[a] = ledger[k]
      BY <1>14
    <3>2. PICK j \in K : PlaceIn(K, j) = b /\ l[b] = ledger[j]
      BY <1>14
    <3>3. k = j
      BY <1>1, <2>1, <3>1, <3>2 DEF OwnInv, DistinctInv, NoRepeat
    <3> QED BY <3>1, <3>2, <3>3
  <2> QED BY <2>1 DEF NoRepeat
<1>17. ASSUME NEW i \in Ids(ledger), i \notin ToSet(fr.ids) PROVE i \in Ids(l)
  <2>1. PICK k \in DOMAIN ledger : i = ledger[k].id
    BY DEF Ids
  <2>2. k \in K
    BY <1>1, <1>17, <2>1
  <2>3. PlaceIn(K, k) \in DOMAIN l /\ l[PlaceIn(K, k)] = ledger[k]
    BY <1>13, <2>2 DEF Selects
  <2> QED BY <2>1, <2>3 DEF Ids
<1>18. Ids(l) \subseteq Ids(ledger)
  BY <1>15 DEF Ids
<1>19. Ids(ledger)' = Ids(l) /\ NoRepeat(ledger)' /\ EntryInv'
  BY <1>3, <1>15, <1>16 DEF Ids, NoRepeat, EntryInv
<1>20. OwnedInv'
  <2> SUFFICES ASSUME NEW i \in Id, tracker'[i] \in {"queued", "sent"}, i \notin ToSet(queue') \cup Ids(ledger)'
               PROVE  \E x \in ToSet(stack') : Finishes(x, i)
    BY DEF OwnedInv, Finishes
  <2>1. CASE i \in Ids(ledger)
    <3>1. i \in ToSet(fr.ids)
      BY <1>17, <1>19, <2>1
    <3> QED BY <1>7, <1>8, <1>9, <3>1, ApplyCloses
  <2>2. CASE i \notin Ids(ledger)
    <3>1. PICK x \in ToSet(stack) : Finishes(x, i)
      BY <2>2 DEF OwnInv, OwnedInv
    <3>2. x \in ToSet(rest)
      BY <3>1 DEF Finishes
    <3> QED BY <1>9, <3>1, <3>2
  <2> QED BY <2>1, <2>2
<1>21. TrackerTypes'
  BY DEF OwnInv, TrackerTypes
<1>22. DistinctInv'
  <2>1. ToSet(queue)' = ToSet(queue) /\ IsInjective(queue)'
    BY DEF OwnInv, DistinctInv, ToSet, IsInjective
  <2> QED BY <1>18, <1>19, <2>1 DEF OwnInv, DistinctInv
<1>23. EmptiedInv'
  <2>1. disc \/ term => l = <<>>
    <3>1. ASSUME disc \/ term PROVE DOMAIN l = {}
      <4>1. ledger = <<>>
        BY <3>1 DEF OwnInv, EmptiedInv
      <4>2. K = {}
        BY <1>1, <4>1
      <4> QED BY <1>14, <4>2
    <3>2. IsSeq(l)
      BY <1>3, DeliverFacts DEF SendInv
    <3> QED BY <3>1, <3>2, SeqFacts
  <2> QED BY <1>3, <2>1 DEF OwnInv, EmptiedInv
<1>24. ClosingInv'
  BY <1>10 DEF ClosingInv, Closing
<1> QED BY <1>19, <1>20, <1>21, <1>22, <1>23, <1>24 DEF OwnInv

LEMMA OwnTasks == ASSUME SendInv, OwnInv, Tasks PROVE OwnInv'
<1>1. CASE Return \/ TellLast \/ Resched \/ ArmLiveRetryTimer \/ DrainEnds \/ BeginUnwrap
  <2>1. stack # <<>> /\ Head(stack).t # "transition" /\ Run(<<>>)
    BY <1>1 DEF Return, TellLast, Resched, ArmLiveRetryTimer, DrainEnds, BeginUnwrap, Top
  <2>2. UNCHANGED <<tracker, queue, ledger, sends, disc, term>>
    BY <1>1 DEF Return, TellLast, Resched, ArmLiveRetryTimer, DrainEnds, BeginUnwrap, tracking, ownership, counters
  <2> QED BY <2>1, <2>2, EmptyIsOther, OwnRuns
<1>2. CASE FanOut
  <2>1. stack # <<>> /\ Head(stack).t # "transition"
    BY <1>2 DEF FanOut, Top
  <2>2. UNCHANGED <<tracker, queue, ledger, sends, disc, term>>
    BY <1>2 DEF FanOut, ownership, counters
  <2>3. PICK e, f : e = [t |-> "tell", event |-> Head(events)] /\ f = Task("fan")
    OBVIOUS
  <2>4. Run(<<>>) \/ Run(<<Callout, e, f>>)
    BY <1>2, <2>3 DEF FanOut
  <2>5. PICK ts : ts = <<Callout, e, f>>
    OBVIOUS
  <2>6. IsSeq(ts) /\ ToSet(ts) = {Callout, e, f}
    BY <2>5, ThreeFacts
  <2>7. Callout.t # "transition" /\ e.t # "transition" /\ f.t # "transition"
    BY <2>3, TaskKind
  <2> QED BY <2>1, <2>2, <2>4, <2>5, <2>6, <2>7, EmptyIsOther, OwnRuns
<1>3. CASE Drain \/ Established \/ StateFalse
  <2>1. stack # <<>> /\ Head(stack).t # "transition"
    BY <1>3 DEF Drain, Established, StateFalse, Top
  <2>2. UNCHANGED <<tracker, queue, ledger, sends, disc, term>>
    BY <1>3 DEF Drain, Established, StateFalse, tracking, ownership, counters
  <2>3. PICK c, d : c = Callout /\ d = Task("loop")
    OBVIOUS
  <2>4. Run(<<>>) \/ Run(<<c>>) \/ Run(<<d>>)
    BY <1>3, <2>3 DEF Drain, Established, StateFalse
  <2>5. PICK ts : Run(ts) /\ (ts = <<>> \/ ts = <<c>> \/ ts = <<d>>)
    BY <2>4
  <2>6. IsSeq(ts) /\ \A x \in ToSet(ts) : x = c \/ x = d
    BY <2>5, EmptyFacts, OneFacts
  <2>7. c.t # "transition" /\ d.t # "transition"
    BY <2>3, TaskKind
  <2> QED BY <2>1, <2>2, <2>5, <2>6, <2>7, OwnRuns
<1>4. CASE RetireEpoch
  <2>1. PICK x : x = [t |-> "teardown", epoch |-> epoch', gen |-> Head(stack).gen]
    OBVIOUS
  <2>2. stack # <<>> /\ Head(stack).t # "transition" /\ Run(<<Callout, x>>)
    BY <1>4, <2>1 DEF RetireEpoch, Top
  <2>3. UNCHANGED <<tracker, queue, ledger, sends, disc, term>>
    BY <1>4 DEF RetireEpoch, tracking, ownership, counters
  <2>4. PICK ts : ts = <<Callout, x>>
    OBVIOUS
  <2>5. IsSeq(ts) /\ ToSet(ts) = {Callout, x}
    BY <2>4, TwoFacts
  <2>6. Callout.t # "transition" /\ x.t # "transition"
    BY <2>1, TaskKind
  <2> QED BY <2>2, <2>3, <2>4, <2>5, <2>6, OwnRuns
<1>5. CASE Teardown
  <2>1. stack # <<>> /\ Head(stack).t # "transition" /\ (Run(<<>>) \/ Run(<<Callout>>))
    BY <1>5 DEF Teardown, Top
  <2>2. UNCHANGED <<tracker, queue, ledger, sends, disc, term>>
    BY <1>5 DEF Teardown, tracking, ownership, counters
  <2> QED BY <2>1, <2>2, EmptyIsOther, CalloutIsOther, OwnRuns
<1>6. CASE DrainPendingInbound
  <2>1. stack # <<>> /\ Head(stack).t = "deliver"
    BY <1>6 DEF DrainPendingInbound, Top
  <2>2. UNCHANGED <<tracker, queue, sends, disc, term>>
    BY <1>6 DEF DrainPendingInbound, tracking, counters
  <2>3. CASE Head(stack).frames = <<>> \/ key = 0
    <3>1. Run(<<>>) /\ UNCHANGED ledger
      BY <1>6, <2>3 DEF DrainPendingInbound
    <3> QED BY <2>1, <2>2, <3>1, EmptyIsOther, OwnRuns
  <2>4. CASE ~(Head(stack).frames = <<>> \/ key = 0)
    <3>1. PICK fs, x : fs = Head(stack).frames /\ x = [t |-> "deliver", frames |-> Tail(fs)]
      OBVIOUS
    <3>2. PICK rest : rest = <<x>> \o Tail(stack)
      OBVIOUS
    <3>3. Deliver(Head(fs), rest)
      BY <1>6, <2>4, <3>1, <3>2 DEF DrainPendingInbound
    <3>4. Legible(fs) /\ fs # <<>>
      BY <2>1, <2>4, <3>1, TopFine DEF Fine
    <3>5. IsSeq(Head(fs).ids)
      BY <3>4, TailFacts DEF Legible
    <3>6. IsSeq(Tail(stack)) /\ ToSet(stack) = {Head(stack)} \cup ToSet(Tail(stack))
      BY <2>1, TailFacts DEF SendInv, SeqInv
    <3>7. IsSeq(rest) /\ ToSet(rest) = {x} \cup ToSet(Tail(stack))
      BY <3>2, <3>6, OneFacts, ConcatFacts
    <3>8. Closing(x)
      BY <3>1 DEF Closing
    <3>9. \A y \in ToSet(rest) : Closing(y)
      BY <3>6, <3>7, <3>8 DEF OwnInv, ClosingInv
    <3>10. \A y \in ToSet(stack) : y \in ToSet(rest) \/ y.t # "transition"
      BY <2>1, <3>6, <3>7
    <3> QED BY <2>2, <3>3, <3>5, <3>7, <3>9, <3>10, OwnDelivers
  <2> QED BY <2>3, <2>4
<1> QED BY <1>1, <1>2, <1>3, <1>4, <1>5, <1>6, OwnTracks, OwnPublishes, OwnRefused, OwnFlushes DEF Tasks

\* The instance is retired: detached first, then the rest.
LEMMA OwnRetires ==
    ASSUME SendInv, OwnInv, Detach, UNCHANGED <<tracker, sends>>, NEW rest, IsSeq(rest),
           Begin(Fails(TakePending) \o rest), \A x \in ToSet(rest) : x.t # "transition"
    PROVE  OwnInv'
<1>1. PICK fs, ts : fs = Fails(TakePending) /\ ts = fs \o rest
  OBVIOUS
<1>2. IsSeq(fs) /\ \A x \in ToSet(fs) : Closing(x)
  BY <1>1, TakePendingFacts, FailsClose DEF SendInv
<1>3. IsSeq(ts) /\ ToSet(ts) = ToSet(fs) \cup ToSet(rest)
  BY <1>1, <1>2, ConcatFacts
<1>4. Begin(ts)
  BY <1>1
<1>5. Leads(ToSet(ts)) /\ stack = <<>> /\ stack' = ts
  BY <1>3, <1>4, BeginLeads DEF Begin
<1>6. \A x \in ToSet(ts) : Closing(x)
  BY <1>2, <1>3 DEF Closing
<1>7. ToSet(stack) = {}
  BY <1>5, EmptyFacts
<1> QED BY <1>1, <1>3, <1>5, <1>6, <1>7, OwnDetaches

LEMMA OwnEvents == ASSUME SendInv, OwnInv, Events PROVE OwnInv'
<1>1. CASE Connected \/ PongWhileConnected \/ SocketCloses \/ OnClose \/ HeartbeatTimeout \/ Redial \/ StallRecovery \/ RetryDue
  <2>1. UNCHANGED <<tracker, queue, ledger, sends, disc, term>>
    BY <1>1 DEF Connected, PongWhileConnected, SocketCloses, OnClose, HeartbeatTimeout, Redial, StallRecovery, RetryDue,
                tracking, ownership, counters
  <2>2. Begin(<<>>) \/ Begin(<<Callout>>) \/ Begin(ForceReconnect)
    BY <1>1 DEF Connected, PongWhileConnected, SocketCloses, OnClose, HeartbeatTimeout, Redial, StallRecovery, RetryDue
  <2> QED BY <2>1, <2>2, EmptyIsOther, CalloutIsOther, ReconnectIsOther, OwnBegins
<1>2. CASE FailTerminally
  <2>1. PICK d, rest : d = Task("down") /\ rest = <<Callout, d>>
    OBVIOUS
  <2>2. Detach /\ UNCHANGED <<tracker, sends>> /\ Begin(Fails(TakePending) \o rest)
    BY <1>2, <2>1 DEF FailTerminally, tracking, counters
  <2>3. IsSeq(rest) /\ ToSet(rest) = {Callout, d} /\ Callout.t # "transition" /\ d.t # "transition"
    BY <2>1, TwoFacts, TaskKind
  <2> QED BY <2>2, <2>3, OwnRetires
<1>3. ASSUME NEW f \in flows, Registered(f) PROVE OwnInv'
  <2>1. UNCHANGED <<tracker, queue, ledger, sends, disc, term>>
    BY <1>3 DEF Registered, tracking, ownership, counters
  <2>2. PICK x, ts : x = [t |-> "unwrap", flow |-> f] /\ ts = <<Callout, x>>
    OBVIOUS
  <2>3. Begin(<<>>) \/ Begin(ts)
    BY <1>3, <2>2 DEF Registered
  <2>4. IsSeq(ts) /\ ToSet(ts) = {Callout, x} /\ Callout.t # "transition" /\ x.t # "transition"
    BY <2>2, TwoFacts, TaskKind
  <2> QED BY <2>1, <2>3, <2>4, EmptyIsOther, OwnBegins
<1>4. ASSUME NEW f \in flows, RegisterFails(f) PROVE OwnInv'
  <2>1. UNCHANGED <<tracker, queue, ledger, sends, disc, term>> /\ (Begin(<<>>) \/ Begin(ForceReconnect))
    BY <1>4 DEF RegisterFails, tracking, ownership, counters
  <2> QED BY <2>1, EmptyIsOther, ReconnectIsOther, OwnBegins
<1>5. ASSUME NEW f \in flows, RegisterRejected(f) PROVE OwnInv'
  <2>1. UNCHANGED <<tracker, sends, disc>>
    BY <1>5 DEF RegisterRejected, tracking, counters
  <2>2. CASE FlowMatches(f)
    <3>1. PICK x, rest : x = [t |-> "retire", gen |-> f.gen] /\ rest = <<x>>
      OBVIOUS
    <3>2. Detach /\ Begin(Fails(TakePending) \o rest)
      BY <1>5, <2>2, <3>1 DEF RegisterRejected
    <3>3. IsSeq(rest) /\ ToSet(rest) = {x} /\ x.t # "transition"
      BY <3>1, OneFacts
    <3> QED BY <2>1, <3>2, <3>3, OwnRetires
  <2>3. CASE ~FlowMatches(f)
    <3>1. Begin(<<>>) /\ UNCHANGED <<queue, ledger, term>>
      BY <1>5, <2>3 DEF RegisterRejected, ownership
    <3> QED BY <2>1, <3>1, EmptyIsOther, OwnBegins
  <2> QED BY <2>2, <2>3
<1>6. ASSUME NEW f \in flows, Unwrapped(f) PROVE OwnInv'
  <2>1. UNCHANGED <<tracker, queue, ledger, sends, disc, term>>
    BY <1>6 DEF Unwrapped, tracking, ownership, counters
  <2>2. PICK d, x, ts : d = [t |-> "deliver", frames |-> pend] /\ x = [t |-> "flush", flow |-> f] /\ ts = <<d, x>>
    OBVIOUS
  <2>3. Begin(<<>>) \/ Begin(ts)
    BY <1>6, <2>2 DEF Unwrapped
  <2>4. IsSeq(ts) /\ ToSet(ts) = {d, x} /\ d.t # "transition" /\ x.t # "transition"
    BY <2>2, TwoFacts
  <2> QED BY <2>1, <2>3, <2>4, EmptyIsOther, OwnBegins
<1>7. ASSUME NEW fr \in Frames, ResultArrives(fr) PROVE OwnInv'
  <2>1. stack = <<>> /\ UNCHANGED <<tracker, queue, sends, disc, term>>
    BY <1>7 DEF ResultArrives, tracking
  <2>2. CASE key = 0
    <3>1. UNCHANGED <<ledger, stack>>
      BY <1>7, <2>2 DEF ResultArrives
    <3>2. Begin(<<>>)
      BY <2>1, <3>1 DEF Begin
    <3> QED BY <2>1, <3>1, <3>2, EmptyIsOther, OwnBegins
  <2>3. CASE key # 0
    <3>1. Deliver(fr, <<>>)
      BY <1>7, <2>3 DEF ResultArrives
    <3>2. IsSeq(fr.ids)
      <4>1. PICK K \in SUBSET DOMAIN first : fr.ids = Those(first, K)
        BY <1>7 DEF Frames
      <4> QED BY <4>1, ThoseIsSeq DEF SendInv, SeqInv
    <3> QED BY <2>1, <3>1, <3>2, EmptyFacts, OwnDelivers
  <2> QED BY <2>2, <2>3
<1> QED BY <1>1, <1>2, <1>3, <1>4, <1>5, <1>6, <1>7 DEF Events

LEMMA OwnNext == ASSUME SendInv, OwnInv, [Next]_vars PROVE OwnInv'
<1>1. CASE UNCHANGED vars
  <2>1. UNCHANGED <<tracker, queue, ledger, sends, disc, term, stack>>
    BY <1>1 DEF vars, tracking, ownership, counters
  <2>2. Leads({})
    BY <2>1 DEF Leads, SendInv, SeqInv
  <2>3. stack # <<>> => Head(stack) \in ToSet(stack')
    BY <2>1, TailFacts DEF SendInv, SeqInv
  <2> QED BY <2>1, <2>2, <2>3, OwnStays
<1> QED BY <1>1, OwnCalls, OwnTasks, OwnEvents DEF Next

LEMMA OwnInit == Init => OwnInv
<1> SUFFICES ASSUME Init PROVE OwnInv
  OBVIOUS
<1>1. queue = <<>> /\ ledger = <<>> /\ stack = <<>> /\ sends = 0 /\ tracker = [i \in Id |-> "none"]
  BY DEF Init
<1>2. ToSet(queue) = {} /\ ToSet(stack) = {} /\ Ids(ledger) = {} /\ IsInjective(queue) /\ NoRepeat(ledger) /\ EntryInv
  BY <1>1, EmptyFacts DEF Ids, IsInjective, NoRepeat, EntryInv
<1>3. TrackerTypes /\ OwnedInv
  BY <1>1, BoundAssumption DEF TrackerTypes, OwnedInv, Rank
<1> QED BY <1>1, <1>2, <1>3 DEF OwnInv, DistinctInv, EmptiedInv, ClosingInv

\* sendUserMessage, seal, recordUnacked, flushQueue, drainOwnedResult and
\* takePendingSendIds (nats-client.ts): whatever listeners call in between, a
\* message that is neither accepted nor failed is owned by the queue or by the
\* ledger, by one of them and once, and a closed instance owns none.
THEOREM NothingIsStranded == Spec => []NothingStranded
<1>1. Init => SendInv /\ OwnInv
  BY InitInv, OwnInit
<1>2. SendInv /\ OwnInv /\ [Next]_vars => SendInv' /\ OwnInv'
  BY NextKeeps, OwnNext
<1>3. OwnInv => NothingStranded
  BY OwnInvImplies
<1> QED BY <1>1, <1>2, <1>3, PTL DEF Spec

-----------------------------------------------------------------------------
(***************************************************************************)
(* The order on the wire.  The ledger and then the queue hold the messages *)
(* in the order in which they were sent; what was drained since the last   *)
(* flush precedes the queue; and in a session whose ledger was replayed    *)
(* all of the ledger has been published, so that a message published there *)
(* overtakes none that still waits for its first publication.              *)
(***************************************************************************)
Sorted(s) == \A a, b \in DOMAIN s : a < b => s[a] < s[b]

LineInv ==
    /\ Sorted(queue) /\ Ascending(ledger)
    /\ \A e \in Ids(ledger), q \in ToSet(queue) : e < q
WireInv ==
    /\ IsSeq(wire) /\ Sorted(wire) /\ ToSet(wire) \subseteq 1 .. sends
    /\ \A w \in ToSet(wire), q \in ToSet(queue) : w < q
FirstInv ==
    /\ ToSet(first) \subseteq 1 .. sends /\ FirstInOrder
    /\ \A j \in ToSet(first), i \in ToSet(queue) \cup Ids(ledger) : i \in ToSet(first) \/ j < i \/ j \in early
ReplayInv == key # 0 /\ replayed => Ids(ledger) \subseteq ToSet(first)
OrderInv == LineInv /\ WireInv /\ FirstInv /\ ReplayInv

LEMMA SortedTail ==
    ASSUME NEW s, IsSeq(s), s # <<>>, Sorted(s)
    PROVE  Sorted(Tail(s)) /\ \A x \in ToSet(Tail(s)) : Head(s) < x
<1>1. s \in Seq(ToSet(s))
  BY DEF IsSeq
<1>2. PICK n \in Nat : n = Len(s)
  BY <1>1
<1>3. n >= 1 /\ DOMAIN s = 1 .. n /\ Head(s) = s[1]
  BY <1>1, <1>2
<1>4. PICK r : r = Tail(s)
  OBVIOUS
<1>5. DOMAIN r = 1 .. n - 1 /\ \A i \in 1 .. n - 1 : r[i] = s[i + 1]
  BY <1>1, <1>2, <1>3, <1>4
<1>6. ASSUME NEW a \in 1 .. n - 1, NEW b \in 1 .. n - 1, a < b PROVE r[a] < r[b]
  <2>1. a + 1 \in 1 .. n /\ b + 1 \in 1 .. n /\ a + 1 < b + 1
    BY <1>3, <1>6
  <2> QED BY <1>3, <1>5, <2>1 DEF Sorted
<1>7. ASSUME NEW a \in 1 .. n - 1 PROVE s[1] < r[a]
  <2>1. a + 1 \in 1 .. n /\ 1 \in 1 .. n /\ 1 < a + 1
    BY <1>3
  <2> QED BY <1>3, <1>5, <2>1 DEF Sorted
<1>8. Sorted(r)
  BY <1>5, <1>6 DEF Sorted
<1>9. \A x \in ToSet(r) : Head(s) < x
  BY <1>3, <1>5, <1>7 DEF ToSet
<1> QED BY <1>4, <1>8, <1>9

LEMMA SortedConcat ==
    ASSUME NEW s, NEW u, IsSeq(s), IsSeq(u), Sorted(s), Sorted(u), \A x \in ToSet(s), y \in ToSet(u) : x < y
    PROVE  Sorted(s \o u)
<1> DEFINE S == ToSet(s) \cup ToSet(u)
<1>1. s \in Seq(S) /\ u \in Seq(S)
  BY DEF IsSeq
<1>2. PICK m \in Nat, n \in Nat : m = Len(s) /\ n = Len(u)
  BY <1>1
<1>3. PICK r : r = s \o u
  OBVIOUS
<1>4. /\ DOMAIN s = 1 .. m /\ DOMAIN u = 1 .. n /\ DOMAIN r = 1 .. m + n
      /\ \A i \in 1 .. m + n : r[i] = IF i <= m THEN s[i] ELSE u[i - m]
  BY <1>1, <1>2, <1>3
<1>5. \A i \in 1 .. m + n : (i <= m => i \in 1 .. m) /\ (~(i <= m) => i - m \in 1 .. n)
  OBVIOUS
<1>6. ASSUME NEW a \in 1 .. m + n, NEW b \in 1 .. m + n, a < b PROVE r[a] < r[b]
  <2>1. CASE a <= m /\ b <= m
    BY <1>4, <1>5, <1>6, <2>1 DEF Sorted
  <2>2. CASE ~(a <= m) /\ ~(b <= m)
    <3>1. a - m \in 1 .. n /\ b - m \in 1 .. n /\ a - m < b - m
      BY <1>6, <2>2
    <3>2. u[a - m] < u[b - m]
      BY <1>4, <3>1 DEF Sorted
    <3> QED BY <1>4, <2>2, <3>2
  <2>3. CASE a <= m /\ ~(b <= m)
    <3>1. r[a] = s[a] /\ r[b] = u[b - m] /\ a \in 1 .. m /\ b - m \in 1 .. n
      BY <1>4, <1>5, <2>3
    <3>2. s[a] \in ToSet(s) /\ u[b - m] \in ToSet(u)
      BY <1>4, <3>1 DEF ToSet
    <3> QED BY <3>1, <3>2
  <2>4. CASE ~(a <= m) /\ b <= m
    BY <1>6, <2>4
  <2> QED BY <2>1, <2>2, <2>3, <2>4
<1>7. Sorted(r)
  BY <1>4, <1>6 DEF Sorted
<1> QED BY <1>3, <1>7

LEMMA SortedAppend ==
    ASSUME NEW s, IsSeq(s), Sorted(s), NEW y, \A x \in ToSet(s) : x < y
    PROVE  Sorted(Append(s, y))
<1>1. PICK u, r : u = <<y>> /\ r = Append(s, y)
  OBVIOUS
<1>2. s \in Seq(ToSet(s) \cup {y})
  BY DEF IsSeq
<1>3. r = s \o u
  BY <1>1, <1>2, AppendIsConcat
<1>4. DOMAIN u = {1}
  BY <1>1
<1>5. Sorted(u)
  BY <1>4 DEF Sorted
<1>6. IsSeq(u) /\ ToSet(u) = {y}
  BY <1>1, OneFacts
<1>7. Sorted(s \o u)
  BY <1>5, <1>6, SortedConcat
<1>8. Sorted(r)
  BY <1>3, <1>7
<1> QED BY <1>1, <1>8

LEMMA SortedIds == ASSUME NEW l, Ascending(l) PROVE Sorted(IdsOf(l))
<1>1. PICK f : f = IdsOf(l)
  OBVIOUS
<1>2. f = [k \in DOMAIN l |-> l[k].id]
  BY <1>1 DEF IdsOf
<1>3. Sorted(f)
  BY <1>2 DEF Sorted, Ascending
<1> QED BY <1>1, <1>3

\* A selection keeps the order.
LEMMA ThoseAscends ==
    ASSUME NEW s, IsSeq(s), Ascending(s), NEW K \in SUBSET DOMAIN s, NEW l, l = Those(s, K)
    PROVE  Ascending(l) /\ Ids(l) \subseteq Ids(s)
<1>1. PICK n \in Nat : DOMAIN s = 1 .. n
  BY SeqFacts
<1>2. K \in SUBSET (1 .. n)
  BY <1>1
<1>3. PICK m \in Nat : Selects(l, m, s, K)
  BY <1>2, ThosePlaces
<1>4. \A a \in DOMAIN l : \E k \in K : PlaceIn(K, k) = a /\ l[a] = s[k]
  BY <1>3 DEF Selects
<1>5. ASSUME NEW a \in DOMAIN l, NEW b \in DOMAIN l, a < b PROVE l[a].id < l[b].id
  <2>0. a \in Nat /\ b \in Nat
    BY <1>3 DEF Selects
  <2>1. PICK k \in K : PlaceIn(K, k) = a /\ l[a] = s[k]
    BY <1>4
  <2>2. PICK j \in K : PlaceIn(K, j) = b /\ l[b] = s[j]
    BY <1>4
  <2>3. j < k => b < a
    BY <1>2, <2>1, <2>2, PlaceFacts
  <2>4. k \in Nat /\ j \in Nat
    BY <1>2
  <2>5. k < j
    BY <1>5, <2>0, <2>1, <2>2, <2>3, <2>4
  <2> QED BY <2>1, <2>2, <2>5 DEF Ascending
<1>6. Ascending(l)
  BY <1>5 DEF Ascending
<1>7. Ids(l) \subseteq Ids(s)
  BY <1>4 DEF Ids
<1> QED BY <1>6, <1>7
\* Nothing is added to the queue or to the ledger, and nothing is published.
LEMMA OrderShrinks ==
    ASSUME OrderInv, UNCHANGED <<sends, first, wire, early>>, NEW q, q = queue', NEW l, l = ledger',
           Sorted(q), Ascending(l), ToSet(q) \subseteq ToSet(queue), Ids(l) \subseteq Ids(ledger),
           key' = 0 \/ ~replayed' \/ (key' = key /\ replayed' = replayed)
    PROVE  OrderInv'
<1>1. Sorted(queue)' /\ Ascending(ledger)' /\ ToSet(queue)' = ToSet(q) /\ Ids(ledger)' = Ids(l)
  BY DEF Sorted, Ascending, ToSet, Ids
<1>2. ToSet(wire)' = ToSet(wire) /\ ToSet(first)' = ToSet(first) /\ (IsSeq(wire) => IsSeq(wire)') /\ (Sorted(wire) => Sorted(wire)')
      /\ (FirstInOrder => FirstInOrder')
  BY DEF ToSet, IsSeq, Sorted, FirstInOrder
<1>3. LineInv' /\ WireInv'
  BY <1>1, <1>2 DEF OrderInv, LineInv, WireInv
<1>4. FirstInv' /\ ReplayInv'
  BY <1>1, <1>2 DEF OrderInv, FirstInv, ReplayInv
<1> QED BY <1>3, <1>4 DEF OrderInv

LEMMA OrderStays ==
    ASSUME OrderInv, UNCHANGED <<queue, ledger, sends, first, wire, early>>,
           key' = 0 \/ ~replayed' \/ (key' = key /\ replayed' = replayed)
    PROVE  OrderInv'
<1>1. Sorted(queue) /\ Ascending(ledger)
  BY DEF OrderInv, LineInv
<1>2. PICK q, l : q = queue' /\ l = ledger'
  OBVIOUS
<1>3. q = queue /\ l = ledger
  BY <1>2
<1> QED BY <1>1, <1>2, <1>3, OrderShrinks

LEMMA OrderDetaches ==
    ASSUME OrderInv, Detach, UNCHANGED <<sends, first, wire, early, replayed>>, key' \in {0, key}
    PROVE  OrderInv'
<1>1. PICK q, l : q = queue' /\ l = ledger'
  OBVIOUS
<1>2. q = <<>> /\ l = <<>>
  BY <1>1 DEF Detach
<1>3. Sorted(q) /\ Ascending(l) /\ ToSet(q) = {} /\ Ids(l) = {}
  BY <1>2, EmptyFacts DEF Sorted, Ascending, Ids
<1> QED BY <1>1, <1>3, OrderShrinks

\* A new message has the greatest id.
LEMMA OrderSend == ASSUME SendInv, OwnInv, OrderInv, Send PROVE OrderInv'
<1>1. PICK i \in Nat : i = sends + 1 /\ sends' = i /\ sends \in Nat
  BY BoundAssumption DEF Send, OwnInv, TrackerTypes
<1>2. UNCHANGED <<ledger, key, first, wire, early, replayed>> /\ (queue' = queue \/ queue' = Append(queue, i))
  BY <1>1 DEF Send, session, log
<1>3. \A j \in 1 .. sends : j < i /\ j \in 1 .. i
  BY <1>1
<1>4. PICK q : q = queue'
  OBVIOUS
<1>5. \A j \in ToSet(queue) \cup Ids(ledger) \cup ToSet(wire) \cup ToSet(first) : j < i /\ j \in 1 .. i
  BY <1>3 DEF OwnInv, DistinctInv, OrderInv, WireInv, FirstInv
<1>6. Sorted(q) /\ ToSet(q) \subseteq ToSet(queue) \cup {i}
  BY <1>2, <1>4, <1>5, SortedAppend, AppendFacts DEF SendInv, SeqInv, OrderInv, LineInv
<1>7. Sorted(queue)' /\ ToSet(queue)' = ToSet(q) /\ Ids(ledger)' = Ids(ledger) /\ (Ascending(ledger) => Ascending(ledger)')
  BY <1>2, <1>4, <1>6 DEF Sorted, Ascending, ToSet, Ids
<1>8. ToSet(wire)' = ToSet(wire) /\ ToSet(first)' = ToSet(first) /\ (IsSeq(wire) => IsSeq(wire)') /\ (Sorted(wire) => Sorted(wire)')
      /\ (FirstInOrder => FirstInOrder')
  BY <1>2 DEF ToSet, IsSeq, Sorted, FirstInOrder
<1>9. LineInv'
  BY <1>5, <1>6, <1>7 DEF OrderInv, LineInv
<1>10. WireInv'
  BY <1>1, <1>5, <1>6, <1>7, <1>8 DEF OrderInv, WireInv
<1>11. FirstInv'
  BY <1>1, <1>2, <1>5, <1>6, <1>7, <1>8 DEF OrderInv, FirstInv
<1>12. ReplayInv'
  BY <1>2, <1>7, <1>8 DEF OrderInv, ReplayInv
<1> QED BY <1>9, <1>10, <1>11, <1>12 DEF OrderInv

\* seal: the head of the queue goes to the end of the ledger.
LEMMA LineMoves ==
    ASSUME SendInv, OwnInv, OrderInv, queue # <<>>, NEW i, i = Head(queue), NEW rec, rec = Recorded(i),
           NEW l, l = ledger', l = Kept(rec) \/ l = Confirmed(Kept(rec), i), NEW q, q = queue', q = Tail(queue)
    PROVE  /\ LineInv' /\ ToSet(queue)' = ToSet(q) /\ Ids(ledger)' = Ids(l)
           /\ Ids(l) \subseteq Ids(ledger) \cup {i} /\ ToSet(queue) = {i} \cup ToSet(q)
           /\ \A j \in ToSet(q) : i < j
<1>1. ToSet(queue) = {i} \cup ToSet(q) /\ Sorted(q) /\ \A j \in ToSet(q) : i < j
  BY TailFacts, SortedTail DEF SendInv, SeqInv, OrderInv, LineInv
<1>2. \A e \in Ids(ledger) : e < i
  BY <1>1 DEF OrderInv, LineInv
<1>3. Ids(l) \subseteq Ids(ledger) \cup {i} /\ Ascending(l)
  BY <1>2, SealOwns DEF SendInv, OrderInv, LineInv
<1>4. Sorted(queue)' /\ ToSet(queue)' = ToSet(q) /\ Ids(ledger)' = Ids(l) /\ Ascending(ledger)'
  BY <1>1, <1>3 DEF Sorted, Ascending, ToSet, Ids
<1>5. LineInv'
  BY <1>1, <1>3, <1>4 DEF OrderInv, LineInv
<1> QED BY <1>1, <1>3, <1>4, <1>5

LEMMA OrderRefused == ASSUME SendInv, OwnInv, OrderInv, SealFails PROVE OrderInv'
<1>1. PICK i, rec : i = Head(queue) /\ rec = Recorded(i)
  OBVIOUS
<1>2. PICK l, q : l = ledger' /\ q = queue'
  OBVIOUS
<1>3. queue # <<>> /\ q = Tail(queue) /\ l = Kept(rec) /\ key' = 0 /\ UNCHANGED <<sends, first, wire, early>>
  BY <1>1, <1>2 DEF SealFails, SocketLost, counters, log
<1>4. /\ LineInv' /\ ToSet(queue)' = ToSet(q) /\ Ids(ledger)' = Ids(l)
      /\ Ids(l) \subseteq Ids(ledger) \cup {i} /\ ToSet(queue) = {i} \cup ToSet(q)
  BY <1>1, <1>2, <1>3, LineMoves
<1>5. ToSet(wire)' = ToSet(wire) /\ ToSet(first)' = ToSet(first) /\ (IsSeq(wire) => IsSeq(wire)') /\ (Sorted(wire) => Sorted(wire)')
      /\ (FirstInOrder => FirstInOrder')
  BY <1>3 DEF ToSet, IsSeq, Sorted, FirstInOrder
<1>6. WireInv' /\ FirstInv'
  BY <1>3, <1>4, <1>5 DEF OrderInv, WireInv, FirstInv
<1>7. ReplayInv'
  BY <1>3 DEF ReplayInv
<1> QED BY <1>4, <1>6, <1>7 DEF OrderInv

\* The first publications after one more.
LEMMA FirstPublishes ==
    ASSUME SendInv, OrderInv, FirstInv, NEW i \in ToSet(queue), i \notin ToSet(first), first' = Append(first, i),
           early \subseteq early'
    PROVE  FirstInOrder'
<1>1. PICK n \in Nat : n = Len(first) /\ DOMAIN first = 1 .. n
  BY SeqFacts DEF SendInv, SeqInv
<1>2. first \in Seq(ToSet(first) \cup {i})
  BY DEF SendInv, SeqInv, IsSeq
<1>3. PICK f : f = first'
  OBVIOUS
<1>4. DOMAIN f = 1 .. n + 1 /\ (\A k \in 1 .. n : f[k] = first[k]) /\ f[n + 1] = i
  BY <1>1, <1>2, <1>3
<1>5. ASSUME NEW a \in 1 .. n + 1, NEW b \in 1 .. n + 1, a < b PROVE f[a] < f[b] \/ f[a] \in early'
  <2>1. a \in 1 .. n /\ (b \in 1 .. n \/ b = n + 1)
    BY <1>5
  <2>2. CASE b \in 1 .. n
    BY <1>1, <1>4, <1>5, <2>1, <2>2 DEF FirstInv, FirstInOrder
  <2>3. CASE b = n + 1
    <3>1. first[a] \in ToSet(first)
      BY <1>1, <2>1 DEF ToSet
    <3>2. first[a] < i \/ first[a] \in early
      BY <3>1 DEF FirstInv
    <3> QED BY <1>4, <2>1, <2>3, <3>2
  <2> QED BY <2>1, <2>2, <2>3
<1> QED BY <1>3, <1>4, <1>5 DEF FirstInOrder

LEMMA OrderPublishes == ASSUME SendInv, OwnInv, OrderInv, SealPublishes PROVE OrderInv'
<1>1. PICK i, rec : i = Head(queue) /\ rec = Recorded(i)
  OBVIOUS
<1>2. PICK l, q : l = ledger' /\ q = queue'
  OBVIOUS
<1>3. /\ queue # <<>> /\ q = Tail(queue) /\ l = Confirmed(Kept(rec), i) /\ key # 0 /\ key' = key
      /\ sends' = sends /\ LogPublication(i)
  BY <1>1, <1>2 DEF SealPublishes, counters, session
<1>4. /\ LineInv' /\ ToSet(queue)' = ToSet(q) /\ Ids(ledger)' = Ids(l)
      /\ Ids(l) \subseteq Ids(ledger) \cup {i} /\ ToSet(queue) = {i} \cup ToSet(q)
      /\ \A j \in ToSet(q) : i < j
  BY <1>1, <1>2, <1>3, LineMoves
<1>5. i \in ToSet(queue) /\ i \in 1 .. sends
  BY <1>4 DEF OwnInv, DistinctInv
<1>6. /\ first' = IF i \in ToSet(first) THEN first ELSE Append(first, i)
      /\ wire' = IF replayed THEN Append(wire, i) ELSE wire
      /\ early' = IF replayed THEN early ELSE early \cup {i}
      /\ replayed' = replayed
  BY <1>3 DEF LogPublication
<1>7. PICK f, w : f = first' /\ w = wire'
  OBVIOUS
<1>8. ToSet(f) = ToSet(first) \cup {i}
  BY <1>6, <1>7, AppendFacts DEF SendInv, SeqInv
<1>9. ToSet(first)' = ToSet(f) /\ ToSet(wire)' = ToSet(w) /\ (IsSeq(w) => IsSeq(wire)') /\ (Sorted(w) => Sorted(wire)')
  BY <1>7 DEF ToSet, IsSeq, Sorted
<1>10. IsSeq(w) /\ Sorted(w) /\ ToSet(w) \subseteq ToSet(wire) \cup {i}
  <2>1. IsSeq(wire) /\ Sorted(wire) /\ \A x \in ToSet(wire) : x < i
    BY <1>5 DEF OrderInv, WireInv
  <2> QED BY <1>6, <1>7, <2>1, AppendFacts, SortedAppend
<1>11. WireInv'
  <2>1. ToSet(w) \subseteq 1 .. sends
    BY <1>5, <1>10 DEF OrderInv, WireInv
  <2>2. \A x \in ToSet(w), y \in ToSet(q) : x < y
    BY <1>4, <1>10 DEF OrderInv, WireInv
  <2> QED BY <1>3, <1>4, <1>9, <1>10, <2>1, <2>2 DEF WireInv
<1>12. FirstInOrder'
  <2>1. CASE i \in ToSet(first)
    BY <1>6, <2>1 DEF OrderInv, FirstInv, FirstInOrder
  <2>2. CASE i \notin ToSet(first)
    BY <1>5, <1>6, <2>2, FirstPublishes DEF OrderInv
  <2> QED BY <2>1, <2>2
<1>13. ASSUME NEW j \in ToSet(f), NEW k \in ToSet(q) \cup Ids(l) PROVE k \in ToSet(f) \/ j < k \/ j \in early'
  <2>1. CASE j \in ToSet(first)
    BY <1>4, <1>5, <1>6, <1>8, <2>1 DEF OrderInv, FirstInv
  <2>2. CASE j = i /\ k \in ToSet(q)
    BY <1>4, <2>2
  <2>3. CASE j = i /\ k \in Ids(l) /\ replayed
    BY <1>3, <1>4, <1>8, <2>3 DEF OrderInv, ReplayInv
  <2>4. CASE j = i /\ ~replayed
    BY <1>6, <2>4
  <2> QED BY <1>8, <2>1, <2>2, <2>3, <2>4
<1>14. FirstInv'
  <2>1. ToSet(f) \subseteq 1 .. sends
    BY <1>5, <1>8 DEF OrderInv, FirstInv
  <2> QED BY <1>3, <1>4, <1>9, <1>12, <1>13, <2>1 DEF FirstInv
<1>15. ReplayInv'
  BY <1>3, <1>4, <1>6, <1>8, <1>9 DEF OrderInv, ReplayInv
<1> QED BY <1>4, <1>11, <1>14, <1>15 DEF OrderInv

\* flushQueue: the ledger precedes the queue, and a new order on the wire begins.
LEMMA OrderFlushes == ASSUME SendInv, OwnInv, OrderInv, Flush PROVE OrderInv'
<1>1. UNCHANGED <<key, sends, first, early>>
  BY DEF Flush, session, counters
<1>2. CASE UNCHANGED <<ownership, wire, replayed>>
  BY <1>1, <1>2, OrderStays DEF ownership
<1>3. CASE queue' = Replay /\ ledger' = <<>> /\ wire' = <<>> /\ replayed' = TRUE
  <2>1. PICK s, q : s = IdsOf(ledger) /\ q = s \o queue
    OBVIOUS
  <2>2. IsSeq(s) /\ ToSet(s) = Ids(ledger) /\ Sorted(s)
    BY <2>1, IdsAre, IdsFacts, SortedIds DEF SendInv, SeqInv, OrderInv, LineInv
  <2>3. ToSet(q) = Ids(ledger) \cup ToSet(queue)
    BY <2>1, <2>2, ConcatFacts DEF SendInv, SeqInv
  <2>4. Sorted(q)
    BY <2>1, <2>2, SortedConcat DEF SendInv, SeqInv, OrderInv, LineInv
  <2>5. queue' = q
    BY <1>3, <2>1 DEF Replay
  <2>6. Sorted(queue)' /\ ToSet(queue)' = ToSet(q) /\ Ids(ledger)' = {} /\ Ascending(ledger)'
    BY <1>3, <2>4, <2>5 DEF Sorted, Ascending, ToSet, Ids
  <2>7. IsSeq(<<>>) /\ ToSet(<<>>) = {} /\ Sorted(<<>>)
    BY EmptyFacts DEF Sorted
  <2>8. ToSet(wire)' = {} /\ IsSeq(wire)' /\ Sorted(wire)' /\ ToSet(first)' = ToSet(first) /\ (FirstInOrder => FirstInOrder')
    BY <1>1, <1>3, <2>7 DEF ToSet, IsSeq, Sorted, FirstInOrder
  <2>9. LineInv' /\ WireInv'
    BY <2>6, <2>8 DEF LineInv, WireInv
  <2>10. FirstInv' /\ ReplayInv'
    BY <1>1, <2>3, <2>6, <2>8 DEF OrderInv, FirstInv, ReplayInv
  <2> QED BY <2>9, <2>10 DEF OrderInv
<1> QED BY <1>2, <1>3 DEF Flush

\* A result takes entries out of the ledger.
LEMMA OrderDelivers ==
    ASSUME SendInv, OrderInv, NEW fr, NEW rest, Deliver(fr, rest),
           UNCHANGED <<queue, sends, first, wire, early, replayed, key>>
    PROVE  OrderInv'
<1>1. PICK K : K = {k \in DOMAIN ledger : ledger[k].id \notin ToSet(fr.ids)}
  OBVIOUS
<1>2. PICK l, q : l = ledger' /\ q = queue'
  OBVIOUS
<1>3. l = Those(ledger, K) /\ K \in SUBSET DOMAIN ledger
  BY <1>1, <1>2 DEF Deliver
<1>4. Ascending(l) /\ Ids(l) \subseteq Ids(ledger)
  BY <1>3, ThoseAscends DEF SendInv, SeqInv, OrderInv, LineInv
<1>5. q = queue /\ Sorted(q)
  BY <1>2 DEF OrderInv, LineInv
<1> QED BY <1>2, <1>4, <1>5, OrderShrinks
LEMMA OrderNext == ASSUME SendInv, OwnInv, OrderInv, [Next]_vars PROVE OrderInv'
<1>1. CASE Calls
  <2>1. CASE Disconnect
    <3>1. Detach /\ UNCHANGED <<sends, first, wire, early, replayed>> /\ key' = 0
      BY <2>1 DEF Disconnect, log
    <3> QED BY <3>1, OrderDetaches
  <2>2. CASE Connect \/ RequestApplicationRecovery
    <3>1. UNCHANGED <<queue, ledger, sends, first, wire, early, replayed>> /\ key' \in {0, key}
      BY <2>2 DEF Connect, RequestApplicationRecovery, SocketLost, ownership, session, log
    <3> QED BY <3>1, OrderStays
  <2> QED BY <1>1, <2>1, <2>2, OrderSend DEF Calls
<1>2. CASE Tasks
  <2>1. CASE Return \/ FanOut \/ TellLast \/ TrackerStep \/ Resched \/ ArmLiveRetryTimer
    <3>1. UNCHANGED <<queue, ledger, sends, first, wire, early, replayed, key>>
      BY <2>1 DEF Return, FanOut, TellLast, TrackerStep, Resched, ArmLiveRetryTimer, ownership, session, log, counters
    <3> QED BY <3>1, OrderStays
  <2>2. CASE Drain \/ DrainEnds \/ StateFalse \/ BeginUnwrap \/ RetireEpoch \/ Teardown \/ Established
    <3>1. UNCHANGED <<queue, ledger, sends, first, wire, early, replayed>> /\ key' \in {0, key}
      BY <2>2 DEF Drain, DrainEnds, StateFalse, BeginUnwrap, RetireEpoch, Teardown, Established, SocketLost,
                  ownership, session, log, counters
    <3> QED BY <3>1, OrderStays
  <2>3. CASE DrainPendingInbound
    <3>1. UNCHANGED <<queue, sends, first, wire, early, replayed, key>>
      BY <2>3 DEF DrainPendingInbound, log, counters
    <3>2. CASE UNCHANGED ledger
      BY <3>1, <3>2, OrderStays
    <3>3. ASSUME NEW fr, NEW rest, Deliver(fr, rest) PROVE OrderInv'
      BY <3>1, <3>3, OrderDelivers
    <3> QED BY <2>3, <3>2, <3>3 DEF DrainPendingInbound
  <2> QED BY <1>2, <2>1, <2>2, <2>3, OrderPublishes, OrderRefused, OrderFlushes DEF Tasks
<1>3. CASE Events
  <2>1. CASE Connected \/ PongWhileConnected \/ SocketCloses \/ OnClose \/ HeartbeatTimeout \/ Redial \/ StallRecovery \/ RetryDue
    <3>1. UNCHANGED <<queue, ledger, sends, first, wire, early, replayed>> /\ key' \in {0, key}
      BY <2>1 DEF Connected, PongWhileConnected, SocketCloses, OnClose, HeartbeatTimeout, Redial, StallRecovery, RetryDue,
                  SocketLost, ownership, session, log, counters
    <3> QED BY <3>1, OrderStays
  <2>2. CASE FailTerminally
    <3>1. Detach /\ UNCHANGED <<sends, first, wire, early, replayed, key>>
      BY <2>2 DEF FailTerminally, log, counters
    <3> QED BY <3>1, OrderDetaches
  <2>3. ASSUME NEW f \in flows, Registered(f) \/ RegisterFails(f) PROVE OrderInv'
    <3>1. UNCHANGED <<queue, ledger, sends, first, wire, early, replayed>> /\ key' \in {0, key}
      BY <2>3 DEF Registered, RegisterFails, SocketLost, ownership, session, log, counters
    <3> QED BY <3>1, OrderStays
  <2>4. ASSUME NEW f \in flows, RegisterRejected(f) PROVE OrderInv'
    <3>1. UNCHANGED <<sends, first, wire, early, replayed, key>> /\ (Detach \/ UNCHANGED ownership)
      BY <2>4 DEF RegisterRejected, log, counters
    <3> QED BY <3>1, OrderDetaches, OrderStays DEF ownership
  <2>5. ASSUME NEW f \in flows, Unwrapped(f) PROVE OrderInv'
    <3>1. UNCHANGED <<queue, ledger, sends, first, wire, early>> /\ (~replayed' \/ UNCHANGED <<key, replayed>>)
      BY <2>5 DEF Unwrapped, ownership, counters
    <3> QED BY <3>1, OrderStays
  <2>6. ASSUME NEW fr \in Frames, ResultArrives(fr) PROVE OrderInv'
    <3>1. UNCHANGED <<queue, sends, first, wire, early, replayed, key>> /\ (UNCHANGED ledger \/ Deliver(fr, <<>>))
      BY <2>6 DEF ResultArrives, log
    <3> QED BY <3>1, OrderStays, OrderDelivers
  <2> QED BY <1>3, <2>1, <2>2, <2>3, <2>4, <2>5, <2>6 DEF Events
<1>4. CASE UNCHANGED vars
  <2>1. UNCHANGED <<queue, ledger, sends, first, wire, early, replayed, key>>
    BY <1>4 DEF vars, ownership, session, log, counters
  <2> QED BY <2>1, OrderStays
<1> QED BY <1>1, <1>2, <1>3, <1>4 DEF Next

LEMMA OrderInit == Init => OrderInv
<1> SUFFICES ASSUME Init PROVE OrderInv
  OBVIOUS
<1>1. queue = <<>> /\ ledger = <<>> /\ first = <<>> /\ wire = <<>> /\ sends = 0 /\ key = 0
  BY DEF Init
<1>2. /\ ToSet(queue) = {} /\ Ids(ledger) = {} /\ ToSet(wire) = {} /\ ToSet(first) = {} /\ IsSeq(wire)
      /\ Sorted(queue) /\ Sorted(wire) /\ Ascending(ledger) /\ FirstInOrder
  BY <1>1, EmptyFacts DEF Sorted, Ids, Ascending, FirstInOrder
<1> QED BY <1>1, <1>2 DEF OrderInv, LineInv, WireInv, FirstInv, ReplayInv

\* The invariant is as strong as the property.
LEMMA OrderInvImplies == OrderInv => SentInOrder
  BY DEF OrderInv, FirstInv, WireInv, Sorted, SentInOrder, SessionInOrder

\* flushQueue and drainOutboundQueue (nats-client.ts): first publications follow
\* the order of the sends, but for those made before a session's replay, and from
\* a replay on everything that is drained does.
THEOREM WireFollowsSends == Spec => []SentInOrder
<1>1. Init => SendInv /\ OwnInv /\ OrderInv
  BY InitInv, OwnInit, OrderInit
<1>2. SendInv /\ OwnInv /\ OrderInv /\ [Next]_vars => SendInv' /\ OwnInv' /\ OrderInv'
  BY NextKeeps, OwnNext, OrderNext
<1> QED BY <1>1, <1>2, OrderInvImplies, PTL DEF Spec
-----------------------------------------------------------------------------
(***************************************************************************)
(* What the listeners are told.  One fan-out runs at a time, and an event  *)
(* it has taken is told to the last listener before it takes the next.     *)
(* The states of a message that were told, the one being told and the ones *)
(* that wait are in the order of its life, and the current state is one of *)
(* them.                                                                   *)
(***************************************************************************)
Speaks(x) == x.t \in {"fan", "tell"}
Silent(s) == \A x \in ToSet(s) : ~Speaks(x)
\* Below the fan-out nothing speaks, and one event is being told.
Orderly(s) ==
    \A k, m \in DOMAIN s : k < m =>
        /\ s[k].t = "fan" => ~Speaks(s[m])
        /\ s[k].t = "tell" => s[m].t # "tell"

EmitInv ==
    /\ Orderly(stack) /\ emitting \in BOOLEAN
    /\ emitting <=> \E x \in ToSet(stack) : x.t = "fan"
    /\ \A x \in ToSet(stack) : x.t = "tell" => emitting
    /\ events # <<>> => emitting

LEMMA SilentIsOrderly == ASSUME NEW s, Silent(s) PROVE Orderly(s)
<1>1. \A k \in DOMAIN s : ~Speaks(s[k])
  BY DEF Silent, ToSet
<1> QED BY <1>1 DEF Orderly, Speaks

LEMMA SilentConcat ==
    ASSUME NEW s, NEW u, IsSeq(s), IsSeq(u), Silent(s), Silent(u)
    PROVE  IsSeq(s \o u) /\ Silent(s \o u)
  BY ConcatFacts DEF Silent

LEMMA OrderlyConcat ==
    ASSUME NEW s, NEW u, IsSeq(s), IsSeq(u), Orderly(s), Orderly(u), Silent(s) \/ Silent(u)
    PROVE  Orderly(s \o u)
<1> DEFINE S == ToSet(s) \cup ToSet(u)
<1>1. s \in Seq(S) /\ u \in Seq(S)
  BY DEF IsSeq
<1>2. PICK m \in Nat, n \in Nat : m = Len(s) /\ n = Len(u)
  BY <1>1
<1>3. PICK r : r = s \o u
  OBVIOUS
<1>4. /\ DOMAIN s = 1 .. m /\ DOMAIN u = 1 .. n /\ DOMAIN r = 1 .. m + n
      /\ \A i \in 1 .. m + n : r[i] = IF i <= m THEN s[i] ELSE u[i - m]
  BY <1>1, <1>2, <1>3
<1>5. \A i \in 1 .. m + n : (i <= m => i \in 1 .. m) /\ (~(i <= m) => i - m \in 1 .. n)
  OBVIOUS
<1>6. ASSUME NEW a \in 1 .. m + n, NEW b \in 1 .. m + n, a < b
      PROVE  (r[a].t = "fan" => ~Speaks(r[b])) /\ (r[a].t = "tell" => r[b].t # "tell")
  <2>1. CASE a <= m /\ b <= m
    BY <1>4, <1>5, <1>6, <2>1 DEF Orderly
  <2>2. CASE ~(a <= m) /\ ~(b <= m)
    <3>1. a - m \in 1 .. n /\ b - m \in 1 .. n /\ a - m < b - m
      BY <1>6, <2>2
    <3>2. r[a] = u[a - m] /\ r[b] = u[b - m]
      BY <1>4, <2>2
    <3> QED BY <1>4, <3>1, <3>2 DEF Orderly
  <2>3. CASE a <= m /\ ~(b <= m)
    <3>1. r[a] = s[a] /\ r[b] = u[b - m] /\ a \in 1 .. m /\ b - m \in 1 .. n
      BY <1>4, <1>5, <2>3
    <3>2. s[a] \in ToSet(s) /\ u[b - m] \in ToSet(u)
      BY <1>4, <3>1 DEF ToSet
    <3> QED BY <3>1, <3>2 DEF Silent, Speaks
  <2>4. CASE ~(a <= m) /\ b <= m
    BY <1>6, <2>4
  <2> QED BY <2>1, <2>2, <2>3, <2>4
<1>7. Orderly(r)
  BY <1>4, <1>6 DEF Orderly
<1> QED BY <1>3, <1>7

LEMMA OrderlyTail ==
    ASSUME NEW s, IsSeq(s), s # <<>>, Orderly(s)
    PROVE  /\ Orderly(Tail(s))
           /\ Head(s).t = "fan" => Silent(Tail(s))
           /\ Head(s).t = "tell" => \A x \in ToSet(Tail(s)) : x.t # "tell"
<1>1. s \in Seq(ToSet(s))
  BY DEF IsSeq
<1>2. PICK n \in Nat : n = Len(s)
  BY <1>1
<1>3. n >= 1 /\ DOMAIN s = 1 .. n /\ Head(s) = s[1]
  BY <1>1, <1>2
<1>4. PICK r : r = Tail(s)
  OBVIOUS
<1>5. DOMAIN r = 1 .. n - 1 /\ \A i \in 1 .. n - 1 : r[i] = s[i + 1]
  BY <1>1, <1>2, <1>3, <1>4
<1>6. ASSUME NEW a \in 1 .. n - 1, NEW b \in 1 .. n - 1, a < b
      PROVE  (r[a].t = "fan" => ~Speaks(r[b])) /\ (r[a].t = "tell" => r[b].t # "tell")
  <2>1. a + 1 \in 1 .. n /\ b + 1 \in 1 .. n /\ a + 1 < b + 1
    BY <1>3, <1>6
  <2>2. r[a] = s[a + 1] /\ r[b] = s[b + 1]
    BY <1>5
  <2> QED BY <1>3, <2>1, <2>2 DEF Orderly
<1>7. ASSUME NEW a \in 1 .. n - 1
      PROVE  (s[1].t = "fan" => ~Speaks(r[a])) /\ (s[1].t = "tell" => r[a].t # "tell")
  <2>1. a + 1 \in 1 .. n /\ 1 \in 1 .. n /\ 1 < a + 1
    BY <1>3
  <2>2. r[a] = s[a + 1]
    BY <1>5
  <2> QED BY <1>3, <2>1, <2>2 DEF Orderly
<1>8. Orderly(r)
  BY <1>5, <1>6 DEF Orderly
<1>9. Head(s).t = "fan" => Silent(r)
  BY <1>3, <1>5, <1>7 DEF ToSet, Silent
<1>10. Head(s).t = "tell" => \A x \in ToSet(r) : x.t # "tell"
  BY <1>3, <1>5, <1>7 DEF ToSet
<1> QED BY <1>4, <1>8, <1>9, <1>10

\* No fan-out runs: nothing speaks.
LEMMA QuietIsSilent == ASSUME EmitInv, ~emitting PROVE Silent(stack)
  BY DEF EmitInv, Silent, Speaks

\* A step that adds the tasks ts, in front of all or in the place of the one on top.
Adds(ts) ==
    Begin(ts) \/ Call(ts) \/ (stack # <<>> /\ ~Speaks(Head(stack)) /\ Run(ts))

LEMMA StackSpeaks ==
    ASSUME IsSeq(stack), EmitInv, NEW ts, IsSeq(ts), Orderly(ts), emitting => Silent(ts), Adds(ts)
    PROVE  /\ Orderly(stack')
           /\ \A x : Speaks(x) => (x \in ToSet(stack') <=> x \in ToSet(ts) \cup ToSet(stack))
<1>1. PICK base : /\ stack' = ts \o base /\ IsSeq(base) /\ Orderly(base)
                  /\ (Silent(stack) => Silent(base))
                  /\ \A x : Speaks(x) => (x \in ToSet(base) <=> x \in ToSet(stack))
  <2>1. CASE stack # <<>> /\ ~Speaks(Head(stack)) /\ Run(ts)
    <3>1. PICK b : b = Tail(stack)
      OBVIOUS
    <3>2. IsSeq(b) /\ ToSet(stack) = {Head(stack)} \cup ToSet(b) /\ Orderly(b) /\ stack' = ts \o b
      BY <2>1, <3>1, TailFacts, OrderlyTail DEF EmitInv, Run
    <3> QED BY <2>1, <3>2 DEF Silent
  <2>2. CASE stack = <<>> /\ stack' = ts
    <3>1. ts = ts \o stack
      <4>1. ts \in Seq(ToSet(ts))
        BY DEF IsSeq
      <4> QED BY <2>2, <4>1, ConcatEmptySeq
    <3> QED BY <2>2, <3>1 DEF EmitInv
  <2>3. CASE stack' = ts \o stack
    BY <2>3 DEF EmitInv
  <2> QED BY <2>1, <2>2, <2>3 DEF Adds, Begin, Call
<1>2. ~emitting => Silent(base)
  BY <1>1, QuietIsSilent
<1>3. Orderly(ts \o base) /\ ToSet(ts \o base) = ToSet(ts) \cup ToSet(base)
  BY <1>1, <1>2, OrderlyConcat, ConcatFacts DEF EmitInv
<1> QED BY <1>1, <1>3
States == DOMAIN Rank
Event == [id : Id, s : States \ {"none"}]
\* The events that are being told.
TellsOf(s) == {x.event : x \in {y \in ToSet(s) : y.t = "tell"}}
Pending == ToSet(events) \cup TellsOf(stack)

ToldTypes ==
    /\ Pending \subseteq Event /\ seen \in [Id -> Seq(States)]
    /\ \A i \in Id : i > sends => tracker[i] = "none"
\* What waits comes after what is being told, and both after what was told.
ToldOrder ==
    /\ \A a, b \in DOMAIN events : a < b /\ events[a].id = events[b].id => Rank[events[a].s] < Rank[events[b].s]
    /\ \A d \in TellsOf(stack), e \in ToSet(events) : d.id = e.id => Rank[d.s] < Rank[e.s]
    /\ \A e \in Pending : \A r \in ToSet(seen[e.id]) : Rank[r] < Rank[e.s]
    /\ SeenInOrder
\* Nothing is ahead of the message's state, and that state is told or waits.
ToldCurrent ==
    /\ \A e \in Pending : Rank[e.s] <= Rank[tracker[e.id]]
    /\ \A i \in Id : \A r \in ToSet(seen[i]) : Rank[r] <= Rank[tracker[i]]
    /\ \A i \in Id : tracker[i] # "none" =>
           tracker[i] \in ToSet(seen[i]) \/ \E e \in Pending : e.id = i /\ e.s = tracker[i]
ToldInv == ToldTypes /\ ToldOrder /\ ToldCurrent

LEMMA RankFacts ==
    /\ States = {"none", "queued", "sent", "accepted", "failed"}
    /\ Rank["none"] = 0 /\ Rank["queued"] = 1 /\ Rank["sent"] = 2 /\ Rank["accepted"] = 3 /\ Rank["failed"] = 4
    /\ \A s \in States : Rank[s] \in Nat
<1>1. States = {"none", "queued", "sent", "accepted", "failed"}
  BY DEF States, Rank
<1>2. Rank["none"] = 0 /\ Rank["queued"] = 1 /\ Rank["sent"] = 2 /\ Rank["accepted"] = 3 /\ Rank["failed"] = 4
  BY DEF Rank
<1> QED BY <1>1, <1>2

\* The invariant is as strong as the property.
LEMMA ToldInvImplies == OwnInv /\ EmitInv /\ ToldInv => ToldInOrder
<1> SUFFICES ASSUME OwnInv, EmitInv, ToldInv PROVE ToldInOrder
  OBVIOUS
<1>1. SeenInOrder
  BY DEF ToldInv, ToldOrder
<1>2. ASSUME stack = <<>>, NEW i \in Id, tracker[i] # "none"
      PROVE  seen[i] # <<>> /\ seen[i][Len(seen[i])] = tracker[i]
  <2>1. ToSet(stack) = {} /\ ~emitting
    BY <1>2, EmptyFacts DEF EmitInv
  <2>2. events = <<>>
    BY <2>1 DEF EmitInv
  <2>3. Pending = {}
    BY <2>1, <2>2, EmptyFacts DEF Pending, TellsOf
  <2>4. tracker[i] \in ToSet(seen[i])
    BY <1>2, <2>3 DEF ToldInv, ToldCurrent
  <2>5. PICK s : s = seen[i]
    OBVIOUS
  <2>6. s \in Seq(States)
    BY <2>5 DEF ToldInv, ToldTypes
  <2>7. PICK n \in Nat : n = Len(s) /\ DOMAIN s = 1 .. n
    BY <2>6
  <2>8. PICK a \in 1 .. n : s[a] = tracker[i]
    BY <2>4, <2>5, <2>7 DEF ToSet
  <2>9. s # <<>> /\ n \in 1 .. n /\ s[n] \in ToSet(s) /\ s[n] \in States /\ tracker[i] \in States
    BY <2>6, <2>7, <2>8 DEF ToSet
  <2>10. Rank[s[n]] <= Rank[tracker[i]]
    BY <2>5, <2>9 DEF ToldInv, ToldCurrent
  <2>11. a < n => Rank[s[a]] < Rank[s[n]]
    BY <1>1, <2>5, <2>7, <2>9 DEF SeenInOrder
  <2>12. ~(a < n)
    BY <2>8, <2>9, <2>10, <2>11, RankFacts
  <2>13. a = n
    BY <2>12
  <2> QED BY <2>5, <2>7, <2>8, <2>9, <2>13
<1> QED BY <1>1, <1>2 DEF ToldInOrder, SeenIsCurrent

\* Nothing is announced, told or changed.
LEMMA ToldStays ==
    ASSUME SendInv, EmitInv, ToldInv, UNCHANGED <<tracker, events, emitting, seen, sends>>,
           NEW ts, IsSeq(ts), Silent(ts), Adds(ts)
    PROVE  EmitInv' /\ ToldInv'
<1>1. /\ Orderly(stack')
      /\ \A x : Speaks(x) => (x \in ToSet(stack') <=> x \in ToSet(ts) \cup ToSet(stack))
  BY StackSpeaks, SilentIsOrderly DEF SendInv, SeqInv
<1>2. \A x : Speaks(x) => (x \in ToSet(stack') <=> x \in ToSet(stack))
  BY <1>1 DEF Silent
<1>3. EmitInv'
  <2>1. Orderly(stack)'
    BY <1>1 DEF Orderly, Speaks
  <2>2. \A x : x.t \in {"fan", "tell"} => (x \in ToSet(stack)' <=> x \in ToSet(stack))
    BY <1>2 DEF Speaks, ToSet
  <2> QED BY <2>1, <2>2 DEF EmitInv
<1>4. TellsOf(stack') = TellsOf(stack)
  BY <1>2 DEF TellsOf, Speaks
<1>5. TellsOf(stack)' = TellsOf(stack) /\ Pending' = Pending
  BY <1>4 DEF Pending, TellsOf, ToSet
<1>6. ToldTypes'
  BY <1>5 DEF ToldInv, ToldTypes
<1>7. ToldOrder'
  BY <1>5 DEF ToldInv, ToldOrder, SeenInOrder, ToSet
<1>8. ToldCurrent'
  BY <1>5 DEF ToldInv, ToldCurrent, ToSet
<1> QED BY <1>3, <1>6, <1>7, <1>8 DEF ToldInv
\* Tasks that see to it that a fan-out runs.
Starts(ts) ==
    /\ IsSeq(ts) /\ Orderly(ts)
    /\ emitting => Silent(ts)
    /\ ~emitting => \E x \in ToSet(ts) : x.t = "fan"
    /\ \A x \in ToSet(ts) : x.t # "tell"

LEMMA FanStarts == Starts(Fan)
<1>1. CASE emitting
  <2>1. Fan = <<>>
    BY <1>1 DEF Fan
  <2>2. Silent(Fan)
    BY <2>1, EmptyFacts DEF Silent
  <2> QED BY <1>1, <2>1, <2>2, EmptyFacts, SilentIsOrderly DEF Starts
<1>2. CASE ~emitting
  <2>1. PICK f, ts : f = Task("fan") /\ ts = <<f>>
    OBVIOUS
  <2>2. IsSeq(ts) /\ ToSet(ts) = {f} /\ f.t = "fan"
    BY <2>1, OneFacts, TaskKind
  <2>3. DOMAIN ts = {1}
    BY <2>1
  <2>4. Orderly(ts)
    BY <2>3 DEF Orderly
  <2>5. Fan = ts
    BY <1>2, <2>1 DEF Fan
  <2>6. Starts(ts)
    BY <1>2, <2>2, <2>4 DEF Starts
  <2> QED BY <2>5, <2>6
<1> QED BY <1>1, <1>2

LEMMA StartsConcat ==
    ASSUME NEW ts, Starts(ts), NEW rest, IsSeq(rest), Silent(rest)
    PROVE  Starts(ts \o rest)
<1>1. IsSeq(ts) /\ Orderly(ts)
  BY DEF Starts
<1>2. IsSeq(ts \o rest) /\ ToSet(ts \o rest) = ToSet(ts) \cup ToSet(rest)
  BY <1>1, ConcatFacts
<1>3. Orderly(ts \o rest)
  BY <1>1, SilentIsOrderly, OrderlyConcat
<1> QED BY <1>2, <1>3 DEF Starts, Silent, Speaks

\* emitSendState: a message goes on to a later state, and the event waits.
LEMMA ToldEmits ==
    ASSUME SendInv, OwnInv, EmitInv, ToldInv, NEW i \in Id, NEW s \in States \ {"none"},
           Rank[tracker[i]] < Rank[s], tracker' = [tracker EXCEPT ![i] = s], Emit(i, s), seen' = seen,
           \A j \in Id : j > sends' => tracker'[j] = "none",
           NEW ts, Starts(ts), Adds(ts)
    PROVE  EmitInv' /\ ToldInv'
<1>1. PICK e : e = [id |-> i, s |-> s]
  OBVIOUS
<1>2. events' = Append(events, e) /\ emitting' = TRUE /\ e \in Event /\ e.id = i /\ e.s = s
  BY <1>1 DEF Emit, Event
<1>3. /\ Orderly(stack')
      /\ \A x : Speaks(x) => (x \in ToSet(stack') <=> x \in ToSet(ts) \cup ToSet(stack))
  BY StackSpeaks DEF SendInv, SeqInv, Starts
<1>4. \E x \in ToSet(stack') : x.t = "fan"
  <2>1. \E x \in ToSet(ts) \cup ToSet(stack) : x.t = "fan"
    BY DEF Starts, EmitInv
  <2> QED BY <1>3, <2>1 DEF Speaks
<1>5. EmitInv'
  <2>1. Orderly(stack)'
    BY <1>3 DEF Orderly, Speaks
  <2>2. \E x \in ToSet(stack)' : x.t = "fan"
    BY <1>4 DEF ToSet
  <2> QED BY <1>2, <2>1, <2>2 DEF EmitInv
<1>6. TellsOf(stack') = TellsOf(stack)
  BY <1>3 DEF TellsOf, Speaks, Starts
<1>7. PICK n \in Nat : n = Len(events) /\ DOMAIN events = 1 .. n
  BY SeqFacts DEF SendInv, SeqInv
<1>8. events \in Seq(ToSet(events) \cup {e})
  BY DEF SendInv, SeqInv, IsSeq
<1>9. PICK f : f = events'
  OBVIOUS
<1>10. DOMAIN f = 1 .. n + 1 /\ (\A k \in 1 .. n : f[k] = events[k]) /\ f[n + 1] = e
  BY <1>2, <1>7, <1>8, <1>9
<1>11. ToSet(f) = ToSet(events) \cup {e}
  BY <1>2, <1>9, AppendFacts DEF SendInv, SeqInv
<1>12. ToSet(events)' = ToSet(f) /\ TellsOf(stack)' = TellsOf(stack) /\ Pending' = Pending \cup {e}
  <2>1. ToSet(events)' = ToSet(f)
    BY <1>9 DEF ToSet
  <2>2. TellsOf(stack)' = TellsOf(stack)
    BY <1>6 DEF TellsOf, ToSet
  <2> QED BY <1>11, <2>1, <2>2 DEF Pending
<1>13. ToldTypes'
  BY <1>2, <1>12 DEF ToldInv, ToldTypes
<1>14. tracker[i] \in States /\ Rank[tracker[i]] \in Nat /\ Rank[s] \in Nat
  BY RankFacts DEF OwnInv, TrackerTypes, States
<1>15. ASSUME NEW d \in Pending, d.id = i PROVE Rank[d.s] < Rank[s] /\ Rank[d.s] <= Rank[s] /\ Rank[d.s] \in Nat
  <2>1. Rank[d.s] <= Rank[tracker[i]] /\ Rank[d.s] \in Nat
    BY <1>15, RankFacts DEF ToldInv, ToldCurrent, ToldTypes, Event
  <2> QED BY <1>14, <2>1
<1>16. ASSUME NEW r \in ToSet(seen[i]) PROVE Rank[r] < Rank[s] /\ Rank[r] <= Rank[s]
  <2>1. r \in States
    BY DEF ToldInv, ToldTypes, ToSet
  <2>2. Rank[r] <= Rank[tracker[i]] /\ Rank[r] \in Nat
    BY <2>1, RankFacts DEF ToldInv, ToldCurrent
  <2> QED BY <1>14, <2>2
<1>17. ASSUME NEW a \in 1 .. n + 1, NEW b \in 1 .. n + 1, a < b, f[a].id = f[b].id PROVE Rank[f[a].s] < Rank[f[b].s]
  <2>1. a \in 1 .. n /\ (b \in 1 .. n \/ b = n + 1)
    BY <1>17
  <2>2. CASE b \in 1 .. n
    BY <1>7, <1>10, <1>17, <2>1, <2>2 DEF ToldInv, ToldOrder
  <2>3. CASE b = n + 1
    <3>1. events[a] \in Pending /\ events[a].id = i
      BY <1>2, <1>7, <1>10, <1>17, <2>1, <2>3 DEF Pending, ToSet
    <3>2. Rank[events[a].s] < Rank[s]
      BY <1>15, <3>1
    <3> QED BY <1>2, <1>10, <2>1, <2>3, <3>2
  <2> QED BY <2>1, <2>2, <2>3
<1>18. ToldOrder'
  <2>1. \A a, b \in DOMAIN f : a < b /\ f[a].id = f[b].id => Rank[f[a].s] < Rank[f[b].s]
    BY <1>10, <1>17
  <2>2. \A d \in TellsOf(stack), g \in ToSet(f) : d.id = g.id => Rank[d.s] < Rank[g.s]
    BY <1>2, <1>11, <1>15 DEF ToldInv, ToldOrder, Pending
  <2>3. \A g \in Pending \cup {e} : \A r \in ToSet(seen[g.id]) : Rank[r] < Rank[g.s]
    BY <1>2, <1>16 DEF ToldInv, ToldOrder
  <2>4. SeenInOrder'
    BY DEF ToldInv, ToldOrder, SeenInOrder
  <2>5. ToSet(seen[i])' = ToSet(seen[i]) /\ \A g : ToSet(seen[g.id])' = ToSet(seen[g.id])
    BY DEF ToSet
  <2>6. \A g \in Pending' : \A r \in ToSet(seen[g.id])' : Rank[r] < Rank[g.s]
    BY <1>12, <2>3, <2>5
  <2> QED BY <1>9, <1>12, <2>1, <2>2, <2>4, <2>6 DEF ToldOrder
<1>19. ASSUME NEW j \in Id PROVE tracker'[j] = IF j = i THEN s ELSE tracker[j]
  BY DEF OwnInv, TrackerTypes
<1>20. ToldCurrent'
  <2>1. \A g \in Pending \cup {e} : Rank[g.s] <= Rank[tracker'[g.id]]
    <3>1. ASSUME NEW g \in Pending PROVE Rank[g.s] <= Rank[tracker'[g.id]]
      <4>1. g.id \in Id /\ Rank[g.s] <= Rank[tracker[g.id]]
        BY DEF ToldInv, ToldTypes, ToldCurrent, Event
      <4> QED BY <1>15, <1>19, <4>1
    <3>2. Rank[e.s] <= Rank[tracker'[e.id]]
      BY <1>2, <1>14, <1>19
    <3> QED BY <3>1, <3>2
  <2>2. \A j \in Id : \A r \in ToSet(seen[j]) : Rank[r] <= Rank[tracker'[j]]
    BY <1>16, <1>19 DEF ToldInv, ToldCurrent
  <2>3. \A j \in Id : tracker'[j] # "none" =>
            tracker'[j] \in ToSet(seen[j]) \/ \E g \in Pending \cup {e} : g.id = j /\ g.s = tracker'[j]
    BY <1>2, <1>19 DEF ToldInv, ToldCurrent
  <2>4. \A j : ToSet(seen[j])' = ToSet(seen[j])
    BY DEF ToSet
  <2> QED BY <1>12, <2>1, <2>2, <2>3, <2>4 DEF ToldCurrent
<1> QED BY <1>5, <1>13, <1>18, <1>20 DEF ToldInv
\* drainSendStateEvents: the next event is taken, or the fan-out ends.
LEMMA ToldFans == ASSUME SendInv, OwnInv, EmitInv, ToldInv, FanOut PROVE EmitInv' /\ ToldInv'
<1>1. PICK base : base = Tail(stack)
  OBVIOUS
<1>2. /\ stack # <<>> /\ Head(stack).t = "fan" /\ IsSeq(base) /\ ToSet(stack) = {Head(stack)} \cup ToSet(base)
      /\ Silent(base)
  BY <1>1, TailFacts, OrderlyTail DEF FanOut, Top, SendInv, SeqInv, EmitInv
<1>3. TellsOf(stack) = {} /\ TellsOf(base) = {}
  BY <1>2 DEF TellsOf, Silent, Speaks
<1>4. UNCHANGED <<tracker, seen, sends>>
  BY DEF FanOut, counters
<1>5. CASE events = <<>>
  <2>1. emitting' = FALSE /\ events' = events /\ stack' = <<>> \o base
    BY <1>1, <1>5 DEF FanOut, Run
  <2>2. stack' = base
    <3>1. base \in Seq(ToSet(base))
      BY <1>2 DEF IsSeq
    <3> QED BY <2>1, <3>1, ConcatEmptySeq
  <2>3. Silent(stack)' /\ Orderly(stack')
    BY <1>2, <2>2, SilentIsOrderly DEF Silent, Speaks, ToSet
  <2>4. EmitInv'
    <3>1. Orderly(stack)'
      BY <2>3 DEF Orderly, Speaks
    <3> QED BY <1>5, <2>1, <2>3, <3>1 DEF EmitInv, Silent, Speaks
  <2>5. TellsOf(stack)' = TellsOf(stack) /\ Pending' = Pending
    <3>1. TellsOf(stack)' = TellsOf(base)
      BY <2>2 DEF TellsOf, ToSet
    <3>2. ToSet(events)' = ToSet(events)
      BY <2>1 DEF ToSet
    <3> QED BY <1>3, <3>1, <3>2 DEF Pending
  <2>6. ToldTypes'
    BY <1>4, <2>5 DEF ToldInv, ToldTypes
  <2>7. ToldOrder'
    BY <1>4, <2>1, <2>5 DEF ToldInv, ToldOrder, SeenInOrder, ToSet
  <2>8. ToldCurrent'
    BY <1>4, <2>5 DEF ToldInv, ToldCurrent, ToSet
  <2> QED BY <2>4, <2>6, <2>7, <2>8 DEF ToldInv
<1>6. CASE events # <<>>
  <2>1. PICK e, f : e = Head(events) /\ f = events'
    OBVIOUS
  <2>2. PICK x, y : x = [t |-> "tell", event |-> e] /\ y = Task("fan")
    OBVIOUS
  <2>3. PICK ts : ts = <<Callout, x, y>>
    OBVIOUS
  <2>4. f = Tail(events) /\ emitting' = emitting /\ stack' = ts \o base
    BY <1>1, <1>6, <2>1, <2>2, <2>3 DEF FanOut, Run
  <2>5. x.t = "tell" /\ x.event = e /\ y.t = "fan" /\ Callout.t = "callout"
    BY <2>2, TaskKind
  <2>6. IsSeq(ts) /\ ToSet(ts) = {Callout, x, y}
    BY <2>3, ThreeFacts
  <2>7. DOMAIN ts = 1 .. 3 /\ ts[1] = Callout /\ ts[2] = x /\ ts[3] = y
    BY <2>3
  <2>8. Orderly(ts)
    <3> SUFFICES ASSUME NEW k \in 1 .. 3, NEW m \in 1 .. 3, k < m
                 PROVE  (ts[k].t = "fan" => ~Speaks(ts[m])) /\ (ts[k].t = "tell" => ts[m].t # "tell")
      BY <2>7 DEF Orderly
    <3>1. k = 1 \/ (k = 2 /\ m = 3)
      OBVIOUS
    <3> QED BY <2>5, <2>7, <3>1
  <2>9. Orderly(stack') /\ ToSet(stack') = {Callout, x, y} \cup ToSet(base)
    BY <1>2, <2>4, <2>6, <2>8, SilentIsOrderly, OrderlyConcat, ConcatFacts
  <2>10. emitting
    BY <1>6 DEF EmitInv
  <2>11. EmitInv'
    <3>1. Orderly(stack)' /\ ToSet(stack)' = {Callout, x, y} \cup ToSet(base)
      BY <2>9 DEF Orderly, Speaks, ToSet
    <3> QED BY <2>4, <2>5, <2>10, <3>1 DEF EmitInv
  <2>12. TellsOf(stack)' = {e}
    <3>1. \A z \in ToSet(stack') : z.t = "tell" => z = x
      BY <1>2, <2>5, <2>9 DEF Silent, Speaks
    <3>2. TellsOf(stack') = {e}
      BY <2>5, <2>9, <3>1 DEF TellsOf
    <3> QED BY <3>2 DEF TellsOf, ToSet
  <2>13. ToSet(events) = {e} \cup ToSet(f)
    BY <1>6, <2>1, <2>4, TailFacts DEF SendInv, SeqInv
  <2>14. ToSet(events)' = ToSet(f) /\ Pending' = Pending
    <3>1. ToSet(events)' = ToSet(f)
      BY <2>1 DEF ToSet
    <3> QED BY <1>3, <2>12, <2>13, <3>1 DEF Pending
  <2>15. PICK n \in Nat : n = Len(events) /\ DOMAIN events = 1 .. n
    BY SeqFacts DEF SendInv, SeqInv
  <2>16. n >= 1 /\ e = events[1] /\ DOMAIN f = 1 .. n - 1 /\ \A k \in 1 .. n - 1 : f[k] = events[k + 1]
    <3>1. events \in Seq(ToSet(events))
      BY DEF SendInv, SeqInv, IsSeq
    <3> QED BY <1>6, <2>1, <2>4, <2>15, <3>1
  <2>17. ASSUME NEW a \in 1 .. n - 1, NEW b \in 1 .. n - 1, a < b, f[a].id = f[b].id PROVE Rank[f[a].s] < Rank[f[b].s]
    <3>1. a + 1 \in 1 .. n /\ b + 1 \in 1 .. n /\ a + 1 < b + 1
      BY <2>17
    <3>2. f[a] = events[a + 1] /\ f[b] = events[b + 1]
      BY <2>16
    <3> QED BY <2>15, <2>17, <3>1, <3>2 DEF ToldInv, ToldOrder
  <2>18. ASSUME NEW a \in 1 .. n - 1, e.id = f[a].id PROVE Rank[e.s] < Rank[f[a].s]
    <3>1. 1 \in 1 .. n /\ a + 1 \in 1 .. n /\ 1 < a + 1
      BY <2>16
    <3>2. f[a] = events[a + 1] /\ e = events[1]
      BY <2>16
    <3> QED BY <2>15, <2>18, <3>1, <3>2 DEF ToldInv, ToldOrder
  <2>19. ToldTypes'
    BY <1>4, <2>14 DEF ToldInv, ToldTypes
  <2>20. ToldOrder'
    <3>1. \A a, b \in DOMAIN f : a < b /\ f[a].id = f[b].id => Rank[f[a].s] < Rank[f[b].s]
      BY <2>16, <2>17
    <3>2. \A d \in {e}, g \in ToSet(f) : d.id = g.id => Rank[d.s] < Rank[g.s]
      BY <2>16, <2>18 DEF ToSet
    <3>3. \A g \in Pending : \A r \in ToSet(seen[g.id])' : Rank[r] < Rank[g.s]
      BY <1>4 DEF ToldInv, ToldOrder, ToSet
    <3>4. SeenInOrder'
      BY <1>4 DEF ToldInv, ToldOrder, SeenInOrder
    <3> QED BY <2>1, <2>12, <2>14, <3>1, <3>2, <3>3, <3>4 DEF ToldOrder
  <2>21. ToldCurrent'
    BY <1>4, <2>14 DEF ToldInv, ToldCurrent, ToSet
  <2> QED BY <2>11, <2>19, <2>20, <2>21 DEF ToldInv
<1> QED BY <1>5, <1>6

\* The last listener is told: the event follows all it was told of the message.
LEMMA ToldTells == ASSUME SendInv, OwnInv, EmitInv, ToldInv, TellLast PROVE EmitInv' /\ ToldInv'
<1>1. PICK x, base : x = Head(stack) /\ base = Tail(stack)
  OBVIOUS
<1>2. /\ stack # <<>> /\ x.t = "tell" /\ IsSeq(base) /\ ToSet(stack) = {x} \cup ToSet(base)
      /\ Orderly(base) /\ \A y \in ToSet(base) : y.t # "tell"
  BY <1>1, TailFacts, OrderlyTail DEF TellLast, Top, SendInv, SeqInv, EmitInv
<1>3. PICK e : e = x.event
  OBVIOUS
<1>4. TellsOf(stack) = {e} /\ TellsOf(base) = {}
  BY <1>2, <1>3 DEF TellsOf
<1>5. UNCHANGED <<tracker, events, emitting, sends>> /\ seen' = [seen EXCEPT ![e.id] = Append(@, e.s)] /\ stack' = <<>> \o base
  BY <1>1, <1>3 DEF TellLast, tracking, counters, Run
<1>6. stack' = base
  <2>1. base \in Seq(ToSet(base))
    BY <1>2 DEF IsSeq
  <2> QED BY <1>5, <2>1, ConcatEmptySeq
<1>7. EmitInv'
  <2>1. Orderly(stack)' /\ ToSet(stack)' = ToSet(base)
    BY <1>2, <1>6 DEF Orderly, Speaks, ToSet
  <2>2. emitting <=> \E y \in ToSet(base) : y.t = "fan"
    BY <1>2 DEF EmitInv
  <2> QED BY <1>2, <1>5, <2>1, <2>2 DEF EmitInv
<1>8. TellsOf(stack)' = {} /\ ToSet(events)' = ToSet(events) /\ Pending' = ToSet(events) /\ Pending = ToSet(events) \cup {e}
  <2>1. TellsOf(stack)' = TellsOf(base)
    BY <1>6 DEF TellsOf, ToSet
  <2>2. ToSet(events)' = ToSet(events)
    BY <1>5 DEF ToSet
  <2> QED BY <1>4, <2>1, <2>2 DEF Pending
<1>9. e \in Event /\ e.id \in Id /\ e.s \in States
  BY <1>8 DEF ToldInv, ToldTypes, Event
<1>10. seen \in [Id -> Seq(States)]
  BY DEF ToldInv, ToldTypes
<1>11. PICK old, new : old = seen[e.id] /\ new = Append(old, e.s)
  OBVIOUS
<1>12. old \in Seq(States) /\ new \in Seq(States)
  BY <1>9, <1>10, <1>11
<1>13. \A j \in Id : seen'[j] = IF j = e.id THEN new ELSE seen[j]
  BY <1>5, <1>9, <1>10, <1>11
<1>14. seen' \in [Id -> Seq(States)]
  BY <1>5, <1>10, <1>11, <1>12
<1>15. PICK n \in Nat : n = Len(old) /\ DOMAIN old = 1 .. n
  BY <1>12
<1>16. DOMAIN new = 1 .. n + 1 /\ (\A k \in 1 .. n : new[k] = old[k]) /\ new[n + 1] = e.s
  BY <1>9, <1>11, <1>12, <1>15
<1>17. ToSet(new) = ToSet(old) \cup {e.s}
  <2>1. IsSeq(old)
    BY <1>12 DEF IsSeq, ToSet
  <2> QED BY <1>11, <2>1, AppendFacts
<1>18. \A r \in ToSet(old) : Rank[r] < Rank[e.s]
  BY <1>8, <1>11 DEF ToldInv, ToldOrder
<1>19. ASSUME NEW a \in 1 .. n + 1, NEW b \in 1 .. n + 1, a < b PROVE Rank[new[a]] < Rank[new[b]]
  <2>1. a \in 1 .. n /\ (b \in 1 .. n \/ b = n + 1)
    BY <1>19
  <2>2. CASE b \in 1 .. n
    BY <1>9, <1>11, <1>15, <1>16, <1>19, <2>1, <2>2 DEF ToldInv, ToldOrder, SeenInOrder
  <2>3. CASE b = n + 1
    <3>1. old[a] \in ToSet(old)
      BY <1>15, <2>1 DEF ToSet
    <3> QED BY <1>16, <1>18, <2>1, <2>3, <3>1
  <2> QED BY <2>1, <2>2, <2>3
<1>20. ToldTypes'
  BY <1>5, <1>8, <1>14 DEF ToldInv, ToldTypes
<1>21. \A j \in Id : ToSet(seen[j])' = IF j = e.id THEN ToSet(old) \cup {e.s} ELSE ToSet(seen[j])
  <2>1. \A j \in Id : ToSet(seen'[j]) = IF j = e.id THEN ToSet(old) \cup {e.s} ELSE ToSet(seen[j])
    BY <1>13, <1>17
  <2> QED BY <2>1 DEF ToSet
<1>22. ToldOrder'
  <2>1. SeenInOrder'
    BY <1>13, <1>16, <1>19 DEF ToldInv, ToldOrder, SeenInOrder
  <2>2. ASSUME NEW g \in ToSet(events), NEW r \in ToSet(seen[g.id])' PROVE Rank[r] < Rank[g.s]
    <3>1. g \in Pending /\ g.id \in Id
      BY <1>8 DEF ToldInv, ToldTypes, Event
    <3>2. CASE r \in ToSet(seen[g.id])
      BY <3>1, <3>2 DEF ToldInv, ToldOrder
    <3>3. CASE g.id = e.id /\ r = e.s
      BY <1>4, <3>3 DEF ToldInv, ToldOrder
    <3> QED BY <1>11, <1>21, <2>2, <3>1, <3>2, <3>3
  <2>3. \A a, b \in DOMAIN events' : a < b /\ events'[a].id = events'[b].id => Rank[events'[a].s] < Rank[events'[b].s]
    BY <1>5 DEF ToldInv, ToldOrder
  <2> QED BY <1>8, <2>1, <2>2, <2>3 DEF ToldOrder
<1>23. ToldCurrent'
  <2>1. \A g \in Pending' : Rank[g.s] <= Rank[tracker'[g.id]]
    BY <1>5, <1>8 DEF ToldInv, ToldCurrent
  <2>2. ASSUME NEW j \in Id, NEW r \in ToSet(seen[j])' PROVE Rank[r] <= Rank[tracker'[j]]
    <3>1. CASE r \in ToSet(seen[j])
      BY <1>5, <3>1 DEF ToldInv, ToldCurrent
    <3>2. CASE j = e.id /\ r = e.s
      BY <1>5, <1>8, <3>2 DEF ToldInv, ToldCurrent
    <3> QED BY <1>11, <1>21, <2>2, <3>1, <3>2
  <2>3. ASSUME NEW j \in Id, tracker'[j] # "none"
        PROVE  tracker'[j] \in ToSet(seen[j])' \/ \E g \in Pending' : g.id = j /\ g.s = tracker'[j]
    <3>1. tracker[j] \in ToSet(seen[j]) \/ \E g \in Pending : g.id = j /\ g.s = tracker[j]
      BY <1>5, <2>3 DEF ToldInv, ToldCurrent
    <3> QED BY <1>5, <1>8, <1>11, <1>21, <3>1
  <2> QED BY <2>1, <2>2, <2>3 DEF ToldCurrent
<1> QED BY <1>7, <1>20, <1>22, <1>23 DEF ToldInv
\* The messages named by results and by the tasks for the tracker exist.
Named(x) ==
    /\ x.t = "transition" => x.id \in Id
    /\ x.t = "deliver" => \A fr \in ToSet(x.frames) : ToSet(fr.ids) \subseteq Id
NamedInv == (\A x \in ToSet(stack) : Named(x)) /\ \A fr \in ToSet(pend) : ToSet(fr.ids) \subseteq Id
VoiceInv == EmitInv /\ ToldInv /\ NamedInv

\* Tasks that announce nothing.
Mute(s) == IsSeq(s) /\ \A x \in ToSet(s) : ~Speaks(x) /\ Named(x)

LEMMA MuteKinds ==
    ASSUME NEW x, x.t \notin {"fan", "tell", "transition", "deliver"}
    PROVE  ~Speaks(x) /\ Named(x)
  BY DEF Speaks, Named

LEMMA MuteShort ==
    /\ Mute(<<>>)
    /\ \A x : ~Speaks(x) /\ Named(x) => Mute(<<x>>)
    /\ \A x, y : ~Speaks(x) /\ Named(x) /\ ~Speaks(y) /\ Named(y) => Mute(<<x, y>>)
<1>1. Mute(<<>>)
  BY EmptyFacts DEF Mute
<1>2. ASSUME NEW x, ~Speaks(x), Named(x) PROVE Mute(<<x>>)
  <2>1. PICK s : s = <<x>>
    OBVIOUS
  <2>2. IsSeq(s) /\ ToSet(s) = {x}
    BY <2>1, OneFacts
  <2>3. Mute(s)
    BY <1>2, <2>2 DEF Mute
  <2> QED BY <2>1, <2>3
<1>3. ASSUME NEW x, NEW y, ~Speaks(x), Named(x), ~Speaks(y), Named(y) PROVE Mute(<<x, y>>)
  <2>1. PICK s : s = <<x, y>>
    OBVIOUS
  <2>2. IsSeq(s) /\ ToSet(s) = {x, y}
    BY <2>1, TwoFacts
  <2>3. Mute(s)
    BY <1>3, <2>2 DEF Mute
  <2> QED BY <2>1, <2>3
<1> QED BY <1>1, <1>2, <1>3

LEMMA MuteConcat == ASSUME NEW s, NEW u, Mute(s), Mute(u) PROVE Mute(s \o u)
  BY ConcatFacts DEF Mute

LEMMA CalloutMute == Callout.t \notin {"fan", "tell", "transition", "deliver"}
  BY TaskKind

LEMMA MuteReconnect == Mute(ForceReconnect) /\ Mute(<<Callout>>)
<1>1. PICK c, x : c = Callout /\ x = [t |-> "resched", life |-> life]
  OBVIOUS
<1>2. ~Speaks(c) /\ Named(c) /\ ~Speaks(x) /\ Named(x)
  <2>1. c.t \notin {"fan", "tell", "transition", "deliver"} /\ x.t \notin {"fan", "tell", "transition", "deliver"}
    BY <1>1, CalloutMute
  <2> QED BY <2>1, MuteKinds
<1>3. Mute(<<c>>) /\ Mute(<<c, x>>)
  BY <1>2, MuteShort
<1> QED BY <1>1, <1>3 DEF ForceReconnect

LEMMA MuteFails == ASSUME NEW is, IsSeq(is), ToSet(is) \subseteq Id PROVE Mute(Fails(is))
<1>1. PICK f : f = Fails(is)
  OBVIOUS
<1>2. DOMAIN f = DOMAIN is /\ \A k \in DOMAIN f : f[k] = Transition(is[k], "failed")
  BY <1>1 DEF Fails
<1>3. \A k \in DOMAIN f : is[k] \in Id
  BY <1>2 DEF ToSet
<1>4. \A k \in DOMAIN f : f[k].t = "transition" /\ f[k].id \in Id
  BY <1>2, <1>3 DEF Transition
<1>5. \A k \in DOMAIN f : ~Speaks(f[k]) /\ Named(f[k])
  BY <1>4 DEF Speaks, Named
<1>6. \A x \in ToSet(f) : ~Speaks(x) /\ Named(x)
  BY <1>5 DEF ToSet
<1> QED BY <1>1, <1>6, FailsFacts DEF Mute

LEMMA MuteApply == ASSUME NEW fr, IsSeq(fr.ids), ToSet(fr.ids) \subseteq Id PROVE Mute(Apply(fr))
<1>1. PICK f, s : f = Apply(fr) /\ s = (IF fr.v = "accepted" THEN "accepted" ELSE "failed")
  OBVIOUS
<1>2. f = [k \in DOMAIN fr.ids |-> Transition(fr.ids[k], s)]
  BY <1>1 DEF Apply
<1>3. \A k \in DOMAIN f : fr.ids[k] \in Id
  BY <1>2 DEF ToSet
<1>4. \A k \in DOMAIN f : f[k].t = "transition" /\ f[k].id \in Id
  BY <1>2, <1>3 DEF Transition
<1>5. \A k \in DOMAIN f : ~Speaks(f[k]) /\ Named(f[k])
  BY <1>4 DEF Speaks, Named
<1>6. \A x \in ToSet(f) : ~Speaks(x) /\ Named(x)
  BY <1>5 DEF ToSet
<1> QED BY <1>1, <1>6, ApplyFacts DEF Mute

\* The ids of what was sent.
LEMMA SentIsId == OwnInv => 1 .. sends \subseteq Id
  BY BoundAssumption DEF OwnInv, TrackerTypes, Id

LEMMA TakesOnly == ASSUME SeqInv, OwnInv PROVE IsSeq(TakePending) /\ ToSet(TakePending) \subseteq Id
<1>1. IsSeq(queue) /\ IsSeq(ledger)
  BY DEF SeqInv
<1>2. PICK n \in Nat : n = Len(ledger) /\ DOMAIN ledger = 1 .. n
  BY <1>1, SeqFacts
<1>3. PICK K : K = {k \in DOMAIN ledger : ledger[k].id \notin ToSet(queue)}
  OBVIOUS
<1>4. PICK f : f = IdsOf(ledger)
  OBVIOUS
<1>5. ToSet(Those(f, K)) = {f[k] : k \in K} /\ IsSeq(Those(f, K))
  BY <1>1, <1>2, <1>3, ThoseSet, ThoseIsSeq
<1>6. IsSeq(TakePending) /\ ToSet(TakePending) = ToSet(queue) \cup ToSet(Those(f, K))
  BY <1>1, <1>3, <1>4, <1>5, ConcatFacts DEF TakePending
<1>7. \A k \in K : f[k] \in Ids(ledger)
  BY <1>3, <1>4 DEF IdsOf, Ids
<1> QED BY <1>5, <1>6, <1>7, SentIsId DEF OwnInv, DistinctInv

LEMMA EvictsOnly ==
    ASSUME SeqInv, OwnInv, queue # <<>>, NEW i, i = Head(queue), NEW rec, rec = Recorded(i)
    PROVE  IsSeq(Evicted(rec)) /\ ToSet(Evicted(rec)) \subseteq Id /\ i \in Id
<1>1. i \in ToSet(queue)
  BY TailFacts DEF SeqInv
<1>2. i \in Id /\ Ids(ledger) \subseteq Id
  BY <1>1, SentIsId DEF OwnInv, DistinctInv
<1>3. PICK e : e = [id |-> i, pub |-> FALSE]
  OBVIOUS
<1>4. rec = ledger \/ rec = Append(ledger, e)
  BY <1>3 DEF Recorded
<1>5. IsSeq(rec) /\ ToSet(rec) \subseteq ToSet(ledger) \cup {e}
  BY <1>4, AppendFacts DEF SeqInv
<1>6. \A y \in ToSet(rec) : y.id \in Id
  <2>1. \A y \in ToSet(ledger) : y.id \in Id
    BY <1>2 DEF Ids, ToSet
  <2>2. e.id \in Id
    BY <1>2, <1>3
  <2> QED BY <1>5, <2>1, <2>2
<1>7. PICK f : f = IdsOf(rec)
  OBVIOUS
<1>8. IsSeq(f) /\ ToSet(f) \subseteq Id
  <2>1. f = [k \in DOMAIN rec |-> rec[k].id]
    BY <1>7 DEF IdsOf
  <2>2. ToSet(f) \subseteq Id
    BY <1>6, <2>1 DEF ToSet
  <2> QED BY <1>5, <1>7, <2>2, IdsFacts
<1>9. PICK n \in Nat : n = Len(rec) /\ n = Len(f)
  <2>1. DOMAIN rec = DOMAIN f
    BY <1>7 DEF IdsOf
  <2> QED BY <1>5, <1>8, <2>1 DEF IsSeq
<1>10. PICK x \in 0 .. n : x = Excess(rec)
  <2>1. Excess(rec) = IF n > MaxUnacked THEN n - MaxUnacked ELSE 0
    BY <1>9 DEF Excess
  <2>2. MaxUnacked \in Nat
    BY BoundAssumption
  <2>3. Excess(rec) \in 0 .. n
    BY <2>1, <2>2
  <2> QED BY <2>3
<1>11. PICK ev : ev = SubSeq(f, 1, x)
  OBVIOUS
<1>12. f \in Seq(Id)
  BY <1>8 DEF IsSeq
<1>13. ev \in Seq(Id)
  BY <1>9, <1>11, <1>12
<1>14. IsSeq(ev) /\ ToSet(ev) \subseteq Id
  BY <1>13 DEF IsSeq, ToSet
<1>15. ev = Evicted(rec)
  BY <1>7, <1>10, <1>11 DEF Evicted
<1> QED BY <1>2, <1>14, <1>15

LEMMA FramesName == ASSUME SendInv, OwnInv, OrderInv, NEW fr \in Frames PROVE IsSeq(fr.ids) /\ ToSet(fr.ids) \subseteq Id
<1>1. PICK K \in SUBSET DOMAIN first : fr.ids = Those(first, K)
  BY DEF Frames
<1>2. IsSeq(fr.ids)
  BY <1>1, ThoseIsSeq DEF SendInv, SeqInv
<1>3. PICK n \in Nat : DOMAIN first = 1 .. n
  BY SeqFacts DEF SendInv, SeqInv
<1>4. ToSet(fr.ids) = {first[k] : k \in K}
  BY <1>1, <1>3, ThoseSet
<1>5. {first[k] : k \in K} \subseteq ToSet(first)
  BY <1>1 DEF ToSet
<1> QED BY <1>2, <1>4, <1>5, SentIsId DEF OrderInv, FirstInv

\* Where the tasks of a step come from.
LEMMA AddsOnly ==
    ASSUME IsSeq(stack), NEW ts, IsSeq(ts), Adds(ts)
    PROVE  ToSet(stack') \subseteq ToSet(ts) \cup ToSet(stack)
  BY RunLeads, BeginLeads, CallLeads DEF Adds, Leads

LEMMA VoiceStays ==
    ASSUME SendInv, VoiceInv, UNCHANGED <<tracker, events, emitting, seen, sends>>, NEW ts, Mute(ts), Adds(ts),
           NEW p, p = pend', \A fr \in ToSet(p) : fr \in ToSet(pend) \/ ToSet(fr.ids) \subseteq Id
    PROVE  VoiceInv'
<1>1. IsSeq(ts) /\ Silent(ts) /\ \A x \in ToSet(ts) : Named(x)
  BY DEF Mute, Silent
<1>2. EmitInv' /\ ToldInv'
  BY <1>1, ToldStays DEF VoiceInv
<1>3. ToSet(stack') \subseteq ToSet(ts) \cup ToSet(stack)
  BY <1>1, AddsOnly DEF SendInv, SeqInv
<1>4. NamedInv'
  <2>1. \A x \in ToSet(stack') : Named(x)
    BY <1>1, <1>3 DEF VoiceInv, NamedInv
  <2>2. \A fr \in ToSet(p) : ToSet(fr.ids) \subseteq Id
    BY DEF VoiceInv, NamedInv
  <2> QED BY <2>1, <2>2 DEF NamedInv, Named, ToSet
<1> QED BY <1>2, <1>4 DEF VoiceInv

LEMMA VoiceEmits ==
    ASSUME SendInv, OwnInv, VoiceInv, NEW i \in Id, NEW s \in States \ {"none"},
           Rank[tracker[i]] < Rank[s], tracker' = [tracker EXCEPT ![i] = s], Emit(i, s), UNCHANGED <<seen, pend>>,
           \A j \in Id : j > sends' => tracker'[j] = "none",
           NEW ts, Starts(ts), \A x \in ToSet(ts) : Named(x), Adds(ts)
    PROVE  VoiceInv'
<1>1. EmitInv' /\ ToldInv'
  BY ToldEmits DEF VoiceInv
<1>2. ToSet(stack') \subseteq ToSet(ts) \cup ToSet(stack)
  BY AddsOnly DEF SendInv, SeqInv, Starts
<1>3. NamedInv'
  <2>1. \A x \in ToSet(stack') : Named(x)
    BY <1>2 DEF VoiceInv, NamedInv
  <2> QED BY <2>1 DEF VoiceInv, NamedInv, Named, ToSet
<1> QED BY <1>1, <1>3 DEF VoiceInv

\* Nothing is announced, and frames that wait are kept or dropped.
LEMMA VoiceQuiet ==
    ASSUME SendInv, VoiceInv, UNCHANGED <<tracker, events, emitting, seen, sends>>, pend' = pend \/ pend' = <<>>,
           NEW ts, Mute(ts), Adds(ts)
    PROVE  VoiceInv'
<1>1. PICK p : p = pend'
  OBVIOUS
<1>2. \A fr \in ToSet(p) : fr \in ToSet(pend) \/ ToSet(fr.ids) \subseteq Id
  BY <1>1, EmptyFacts
<1> QED BY <1>1, <1>2, VoiceStays

\* drainOwnedResult adds transitions of known messages, an arm and a callout.
LEMMA DeliverMute ==
    ASSUME NEW fr, IsSeq(fr.ids), ToSet(fr.ids) \subseteq Id, NEW rest, Deliver(fr, rest)
    PROVE  \E u : Mute(u) /\ stack' = u \o rest
<1>1. PICK a, l : /\ stack' = Apply(fr) \o a \o <<Callout>> \o rest
                  /\ a = ArmAfter(l) \/ a = <<>>
  BY DEF Deliver
<1>2. Mute(a)
  <2>1. PICK x, s : x = [t |-> "arm", fence |-> Fence(l)] /\ s = <<x>>
    OBVIOUS
  <2>2. x.t \notin {"fan", "tell", "transition", "deliver"}
    BY <2>1
  <2>3. Mute(s)
    BY <2>1, <2>2, MuteKinds, MuteShort
  <2>4. a = s \/ a = <<>>
    BY <1>1, <2>1 DEF ArmAfter, Arm
  <2> QED BY <2>3, <2>4, MuteShort
<1>3. PICK s, c, u : s = Apply(fr) \o a /\ c = <<Callout>> /\ u = s \o c
  OBVIOUS
<1>4. Mute(s)
  BY <1>2, <1>3, MuteApply, MuteConcat
<1>5. Mute(u)
  BY <1>3, <1>4, MuteReconnect, MuteConcat
<1>6. stack' = u \o rest
  BY <1>1, <1>3
<1> QED BY <1>5, <1>6

LEMMA VoiceSend == ASSUME SendInv, OwnInv, VoiceInv, Send PROVE VoiceInv'
<1>1. PICK i \in Nat : i = sends + 1 /\ i \in Id /\ sends' = i /\ sends \in Nat
  BY BoundAssumption DEF Send, OwnInv, TrackerTypes, Id
<1>2. PICK last, one : last = (IF disc \/ term THEN Transition(i, "failed") ELSE Task("drain")) /\ one = <<last>>
  OBVIOUS
<1>3. /\ tracker' = [tracker EXCEPT ![i] = "queued"] /\ Emit(i, "queued") /\ UNCHANGED <<seen, pend>>
      /\ Call(Fan \o one)
  BY <1>1, <1>2 DEF Send, session
<1>4. last.t \in {"transition", "drain"} /\ (last.t = "transition" => last.id = i)
  BY <1>2, TaskKind DEF Transition
<1>5. ~Speaks(last) /\ Named(last)
  BY <1>1, <1>4 DEF Speaks, Named
<1>6. Mute(one)
  BY <1>2, <1>5, MuteShort
<1>7. PICK ts : ts = Fan \o one
  OBVIOUS
<1>8. Starts(ts)
  BY <1>6, <1>7, FanStarts, StartsConcat DEF Mute, Silent
<1>9. \A x \in ToSet(ts) : Named(x)
  <2>1. ToSet(ts) = ToSet(Fan) \cup ToSet(one)
    BY <1>6, <1>7, FanFacts, ConcatFacts DEF Mute
  <2>2. \A x \in ToSet(Fan) : Named(x)
    BY FanFacts DEF Named
  <2> QED BY <1>6, <2>1, <2>2 DEF Mute
<1>10. Adds(ts)
  BY <1>3, <1>7 DEF Adds
<1>11. tracker[i] = "none"
  <2>1. i > sends
    BY <1>1
  <2> QED BY <1>1, <2>1 DEF VoiceInv, ToldInv, ToldTypes
<1>12. "queued" \in States \ {"none"} /\ Rank[tracker[i]] < Rank["queued"]
  BY <1>11, RankFacts
<1>13. \A j \in Id : j > sends' => tracker'[j] = "none"
  <2> SUFFICES ASSUME NEW j \in Id, j > sends' PROVE tracker'[j] = "none"
    OBVIOUS
  <2>1. j \in Nat
    BY BoundAssumption DEF Id
  <2>2. j # i /\ j > sends
    BY <1>1, <2>1
  <2>3. tracker[j] = "none"
    BY <2>2 DEF VoiceInv, ToldInv, ToldTypes
  <2> QED BY <1>3, <2>2, <2>3 DEF OwnInv, TrackerTypes
<1> QED BY <1>1, <1>3, <1>8, <1>9, <1>10, <1>12, <1>13, VoiceEmits

\* A message the tracker may advance was sent.
LEMMA AdvancesSent ==
    ASSUME OwnInv, VoiceInv, NEW i \in Id, NEW s, MayAdvance(i, s), tracker' = [tracker EXCEPT ![i] = s], sends' = sends
    PROVE  \A j \in Id : j > sends' => tracker'[j] = "none"
<1> SUFFICES ASSUME NEW j \in Id, j > sends' PROVE tracker'[j] = "none"
  OBVIOUS
<1>1. tracker[j] = "none"
  BY DEF VoiceInv, ToldInv, ToldTypes
<1>2. j # i
  BY <1>1 DEF MayAdvance
<1> QED BY <1>1, <1>2 DEF OwnInv, TrackerTypes

LEMMA VoiceTracks == ASSUME SendInv, OwnInv, VoiceInv, TrackerStep PROVE VoiceInv'
<1>1. PICK x : x = Head(stack)
  OBVIOUS
<1>2. stack # <<>> /\ x.t = "transition" /\ x \in ToSet(stack)
  BY <1>1, TailFacts DEF TrackerStep, Top, SendInv, SeqInv
<1>3. x.s \in {"accepted", "failed"} /\ x.id \in Id
  BY <1>2 DEF OwnInv, ClosingInv, Closing, VoiceInv, NamedInv, Named
<1>4. ~Speaks(Head(stack))
  BY <1>1, <1>2 DEF Speaks
<1>5. UNCHANGED <<seen, pend, sends>>
  BY DEF TrackerStep, session, counters
<1>6. CASE MayAdvance(x.id, x.s)
  <2>1. tracker' = [tracker EXCEPT ![x.id] = x.s] /\ Emit(x.id, x.s) /\ Run(Fan)
    BY <1>1, <1>6 DEF TrackerStep
  <2>2. Rank[tracker[x.id]] < Rank[x.s]
    BY <1>6 DEF MayAdvance
  <2>3. x.s \in States \ {"none"}
    BY <1>3, RankFacts
  <2>4. \A j \in Id : j > sends' => tracker'[j] = "none"
    BY <1>3, <1>5, <1>6, <2>1, AdvancesSent
  <2>5. PICK ts : ts = Fan
    OBVIOUS
  <2>6. Starts(ts) /\ (\A y \in ToSet(ts) : Named(y))
    BY <2>5, FanStarts, FanFacts DEF Named
  <2>7. Adds(ts)
    BY <1>2, <1>4, <2>1, <2>5 DEF Adds
  <2> QED BY <1>3, <1>5, <2>1, <2>2, <2>3, <2>4, <2>6, <2>7, VoiceEmits
<1>7. CASE ~MayAdvance(x.id, x.s)
  <2>1. Run(<<>>) /\ UNCHANGED <<tracker, events, emitting>>
    BY <1>1, <1>7 DEF TrackerStep, tracking
  <2>2. Adds(<<>>)
    BY <1>2, <1>4, <2>1 DEF Adds
  <2> QED BY <1>5, <2>1, <2>2, MuteShort, VoiceQuiet
<1> QED BY <1>6, <1>7

\* seal: the event of the message comes first, the fence and the failures after it.
LEMMA VoicePublishes == ASSUME SendInv, OwnInv, VoiceInv, SealPublishes PROVE VoiceInv'
<1>1. PICK i, rec : i = Head(queue) /\ rec = Recorded(i)
  OBVIOUS
<1>2. /\ queue # <<>> /\ stack # <<>> /\ Head(stack).t = "loop" /\ UNCHANGED <<seen, pend, sends>>
  BY DEF SealPublishes, Top, session, counters
<1>3. ~Speaks(Head(stack))
  BY <1>2 DEF Speaks
<1>4. IsSeq(Evicted(rec)) /\ ToSet(Evicted(rec)) \subseteq Id /\ i \in Id
  BY <1>1, <1>2, EvictsOnly DEF SendInv
<1>5. PICK x, y, arm, fails, last :
        /\ x = [t |-> "arm", fence |-> Fence(ledger')] /\ y = Task("loop")
        /\ arm = <<x>> /\ fails = Fails(Evicted(rec)) /\ last = <<y>>
  OBVIOUS
<1>6. Mute(arm) /\ Mute(fails) /\ Mute(last)
  <2>1. x.t \notin {"fan", "tell", "transition", "deliver"} /\ y.t \notin {"fan", "tell", "transition", "deliver"}
    BY <1>5, TaskKind
  <2>2. Mute(arm) /\ Mute(last)
    BY <1>5, <2>1, MuteKinds, MuteShort
  <2> QED BY <1>4, <1>5, <2>2, MuteFails
<1>7. CASE MayAdvance(i, "sent")
  <2>1. /\ tracker' = [tracker EXCEPT ![i] = "sent"] /\ Emit(i, "sent")
        /\ Run(Fan \o Arm(ledger') \o Fails(Evicted(rec)) \o <<Task("loop")>>)
    BY <1>1, <1>7 DEF SealPublishes
  <2>2. PICK fan, u, v, ts : fan = Fan /\ u = fan \o arm /\ v = u \o fails /\ ts = v \o last
    OBVIOUS
  <2>3. Run(ts)
    BY <1>5, <2>1, <2>2 DEF Arm
  <2>4. Starts(u)
    BY <1>6, <2>2, FanStarts, StartsConcat DEF Mute, Silent
  <2>5. Starts(v)
    BY <1>6, <2>2, <2>4, StartsConcat DEF Mute, Silent
  <2>6. Starts(ts)
    BY <1>6, <2>2, <2>5, StartsConcat DEF Mute, Silent
  <2>7. \A z \in ToSet(ts) : Named(z)
    <3>1. ToSet(u) = ToSet(fan) \cup ToSet(arm) /\ \A z \in ToSet(fan) : Named(z)
      BY <1>6, <2>2, FanFacts, ConcatFacts DEF Mute, Named
    <3>2. ToSet(v) = ToSet(u) \cup ToSet(fails)
      BY <1>6, <2>2, <2>4, ConcatFacts DEF Mute, Starts
    <3>3. ToSet(ts) = ToSet(v) \cup ToSet(last)
      BY <1>6, <2>2, <2>5, ConcatFacts DEF Mute, Starts
    <3> QED BY <1>6, <3>1, <3>2, <3>3 DEF Mute
  <2>8. Adds(ts)
    BY <1>2, <1>3, <2>3 DEF Adds
  <2>9. Rank[tracker[i]] < Rank["sent"] /\ "sent" \in States \ {"none"}
    BY <1>7, RankFacts DEF MayAdvance
  <2>10. \A j \in Id : j > sends' => tracker'[j] = "none"
    BY <1>2, <1>4, <1>7, <2>1, AdvancesSent
  <2> QED BY <1>2, <1>4, <2>1, <2>6, <2>7, <2>8, <2>9, <2>10, VoiceEmits
<1>8. CASE ~MayAdvance(i, "sent")
  <2>1. UNCHANGED <<tracker, events, emitting>> /\ Run(<<>> \o Arm(ledger') \o Fails(Evicted(rec)) \o <<Task("loop")>>)
    BY <1>1, <1>8 DEF SealPublishes
  <2>2. PICK none, u, v, ts : none = <<>> /\ u = none \o arm /\ v = u \o fails /\ ts = v \o last
    OBVIOUS
  <2>3. Run(ts)
    BY <1>5, <2>1, <2>2 DEF Arm
  <2>4. Mute(u)
    BY <1>6, <2>2, MuteShort, MuteConcat
  <2>5. Mute(v)
    BY <1>6, <2>2, <2>4, MuteConcat
  <2>6. Mute(ts)
    BY <1>6, <2>2, <2>5, MuteConcat
  <2>7. Adds(ts)
    BY <1>2, <1>3, <2>3 DEF Adds
  <2> QED BY <1>2, <2>1, <2>6, <2>7, VoiceQuiet
<1> QED BY <1>7, <1>8

LEMMA VoiceRefused == ASSUME SendInv, OwnInv, VoiceInv, SealFails PROVE VoiceInv'
<1>1. PICK i, rec : i = Head(queue) /\ rec = Recorded(i)
  OBVIOUS
<1>2. /\ queue # <<>> /\ stack # <<>> /\ Head(stack).t = "loop" /\ pend' = <<>>
      /\ UNCHANGED <<tracker, events, emitting, seen, sends>>
  BY DEF SealFails, SocketLost, Top, tracking, counters
<1>3. PICK fails, y, last : fails = Fails(Evicted(rec)) /\ y = Task("loop") /\ last = <<y>>
  OBVIOUS
<1>4. Mute(fails)
  BY <1>1, <1>2, <1>3, EvictsOnly, MuteFails DEF SendInv
<1>5. Mute(last)
  BY <1>3, TaskKind, MuteKinds, MuteShort
<1>6. PICK u, ts : u = ForceReconnect \o fails /\ ts = u \o last
  OBVIOUS
<1>7. Mute(u)
  BY <1>4, <1>6, MuteReconnect, MuteConcat
<1>8. Mute(ts)
  BY <1>5, <1>6, <1>7, MuteConcat
<1>9. Run(ForceReconnect \o Fails(Evicted(rec)) \o <<Task("loop")>>)
  BY <1>1 DEF SealFails
<1>10. Adds(ts)
  BY <1>2, <1>3, <1>6, <1>9 DEF Adds, Speaks
<1> QED BY <1>2, <1>8, <1>10, VoiceQuiet

\* drainPendingInbound: the rest of the buffered frames waits behind the first.
LEMMA VoiceDrains == ASSUME SendInv, OwnInv, VoiceInv, DrainPendingInbound PROVE VoiceInv'
<1>1. stack # <<>> /\ Head(stack).t = "deliver" /\ UNCHANGED <<tracker, events, emitting, seen, sends, pend>>
  BY DEF DrainPendingInbound, Top, tracking, counters
<1>2. ~Speaks(Head(stack))
  BY <1>1 DEF Speaks
<1>3. CASE Head(stack).frames = <<>> \/ key = 0
  <2>1. Run(<<>>)
    BY <1>3 DEF DrainPendingInbound
  <2>2. Adds(<<>>)
    BY <1>1, <1>2, <2>1 DEF Adds
  <2> QED BY <1>1, <2>2, MuteShort, VoiceQuiet
<1>4. CASE ~(Head(stack).frames = <<>> \/ key = 0)
  <2>1. PICK fs, x : fs = Head(stack).frames /\ x = [t |-> "deliver", frames |-> Tail(fs)]
    OBVIOUS
  <2>2. PICK one, base, rest : one = <<x>> /\ base = Tail(stack) /\ rest = one \o base
    OBVIOUS
  <2>3. Deliver(Head(fs), rest)
    BY <1>4, <2>1, <2>2 DEF DrainPendingInbound
  <2>4. Legible(fs) /\ fs # <<>>
    BY <1>1, <1>4, <2>1, TopFine DEF Fine
  <2>5. Head(stack) \in ToSet(stack) /\ IsSeq(base)
    BY <1>1, <2>2, TailFacts DEF SendInv, SeqInv
  <2>6. \A fr \in ToSet(fs) : ToSet(fr.ids) \subseteq Id
    BY <1>1, <2>1, <2>5 DEF VoiceInv, NamedInv, Named
  <2>7. ToSet(fs) = {Head(fs)} \cup ToSet(Tail(fs))
    BY <2>4, TailFacts DEF Legible
  <2>8. IsSeq(Head(fs).ids) /\ ToSet(Head(fs).ids) \subseteq Id
    BY <2>4, <2>6, <2>7 DEF Legible
  <2>9. PICK fr : fr = Head(fs)
    OBVIOUS
  <2>10. PICK u : Mute(u) /\ stack' = u \o rest
    BY <2>3, <2>8, <2>9, DeliverMute
  <2>11. ~Speaks(x) /\ Named(x)
    BY <2>1, <2>6, <2>7 DEF Speaks, Named
  <2>12. Mute(one)
    BY <2>2, <2>11, MuteShort
  <2>13. PICK ts : ts = u \o one
    OBVIOUS
  <2>14. Mute(ts)
    BY <2>10, <2>12, <2>13, MuteConcat
  <2>15. stack' = ts \o base
    <3> DEFINE S == ToSet(u) \cup ToSet(one) \cup ToSet(base)
    <3>1. u \in Seq(ToSet(u)) /\ one \in Seq(ToSet(one)) /\ base \in Seq(ToSet(base))
      BY <2>5, <2>10, <2>12 DEF Mute, IsSeq
    <3>2. u \in Seq(S) /\ one \in Seq(S) /\ base \in Seq(S)
      BY <3>1
    <3> HIDE DEF S
    <3>3. (u \o one) \o base = u \o (one \o base)
      BY <3>2, ConcatAssociative
    <3> QED BY <2>2, <2>10, <2>13, <3>3
  <2>16. Adds(ts)
    BY <1>1, <1>2, <2>2, <2>15 DEF Adds, Run
  <2> QED BY <1>1, <2>14, <2>16, VoiceQuiet
<1> QED BY <1>3, <1>4

LEMMA VoiceFans == ASSUME SendInv, OwnInv, VoiceInv, FanOut \/ TellLast PROVE VoiceInv'
<1>1. stack # <<>> /\ pend' = pend
  BY DEF FanOut, TellLast, Top, session
<1>2. EmitInv' /\ ToldInv'
  BY ToldFans, ToldTells DEF VoiceInv
<1>3. PICK x, f, ts : x = [t |-> "tell", event |-> Head(events)] /\ f = Task("fan") /\ ts = <<Callout, x, f>>
  OBVIOUS
<1>4. IsSeq(ts) /\ ToSet(ts) = {Callout, x, f} /\ Callout.t = "callout" /\ x.t = "tell" /\ f.t = "fan"
  BY <1>3, ThreeFacts, TaskKind
<1>5. Run(<<>>) \/ Run(ts)
  BY <1>3 DEF FanOut, TellLast
<1>6. ToSet(stack') \subseteq ToSet(ts) \cup ToSet(stack)
  BY <1>1, <1>4, <1>5, EmptyFacts, RunLeads DEF SendInv, SeqInv, Leads
<1>7. \A y \in ToSet(stack') : Named(y)
  BY <1>4, <1>6 DEF VoiceInv, NamedInv, Named
<1>8. NamedInv'
  BY <1>1, <1>7 DEF VoiceInv, NamedInv, Named, ToSet
<1> QED BY <1>2, <1>8 DEF VoiceInv

LEMMA VoiceCalls == ASSUME SendInv, OwnInv, VoiceInv, Calls PROVE VoiceInv'
<1>1. CASE Connect
  <2>1. UNCHANGED <<tracker, events, emitting, seen, sends, pend>> /\ Call(<<>>)
    BY <1>1 DEF Connect, tracking, session
  <2>2. Adds(<<>>)
    BY <2>1 DEF Adds
  <2> QED BY <2>1, <2>2, MuteShort, VoiceQuiet
<1>2. CASE RequestApplicationRecovery
  <2>1. UNCHANGED <<tracker, events, emitting, seen, sends>> /\ pend' = <<>> /\ Call(ForceReconnect)
    BY <1>2 DEF RequestApplicationRecovery, SocketLost, tracking
  <2>2. Adds(ForceReconnect)
    BY <2>1 DEF Adds
  <2> QED BY <2>1, <2>2, MuteReconnect, VoiceQuiet
<1>3. CASE Disconnect
  <2>1. PICK c, fs, ts : c = <<Callout>> /\ fs = Fails(TakePending) /\ ts = c \o fs
    OBVIOUS
  <2>2. UNCHANGED <<tracker, events, emitting, seen, sends>> /\ pend' = <<>> /\ Call(ts)
    BY <1>3, <2>1 DEF Disconnect, tracking
  <2>3. Mute(fs)
    BY <2>1, TakesOnly, MuteFails DEF SendInv
  <2>4. Mute(ts)
    BY <2>1, <2>3, MuteReconnect, MuteConcat
  <2>5. Adds(ts)
    BY <2>2 DEF Adds
  <2> QED BY <2>2, <2>4, <2>5, VoiceQuiet
<1> QED BY <1>1, <1>2, <1>3, VoiceSend DEF Calls

LEMMA VoiceTasks == ASSUME SendInv, OwnInv, VoiceInv, Tasks PROVE VoiceInv'
<1>1. CASE Return \/ Resched \/ ArmLiveRetryTimer \/ DrainEnds \/ BeginUnwrap \/ Drain \/ Established \/ StateFalse \/ Teardown
  <2>1. stack # <<>> /\ ~Speaks(Head(stack))
    BY <1>1 DEF Return, Resched, ArmLiveRetryTimer, DrainEnds, BeginUnwrap, Drain, Established, StateFalse, Teardown, Top, Speaks
  <2>2. UNCHANGED <<tracker, events, emitting, seen, sends>> /\ (pend' = pend \/ pend' = <<>>)
    BY <1>1 DEF Return, Resched, ArmLiveRetryTimer, DrainEnds, BeginUnwrap, Drain, Established, StateFalse, Teardown,
                SocketLost, tracking, session, counters
  <2>3. PICK c, d : c = Callout /\ d = Task("loop")
    OBVIOUS
  <2>4. Run(<<>>) \/ Run(<<c>>) \/ Run(<<d>>)
    BY <1>1, <2>3 DEF Return, Resched, ArmLiveRetryTimer, DrainEnds, BeginUnwrap, Drain, Established, StateFalse, Teardown
  <2>5. PICK ts : Run(ts) /\ (ts = <<>> \/ ts = <<c>> \/ ts = <<d>>)
    BY <2>4
  <2>6. c.t = "callout" /\ d.t = "loop"
    BY <2>3, TaskKind
  <2>7. ~Speaks(c) /\ Named(c) /\ ~Speaks(d) /\ Named(d)
    BY <2>6, MuteKinds
  <2>8. Mute(ts)
    BY <2>5, <2>7, MuteShort
  <2>9. Adds(ts)
    BY <2>1, <2>5 DEF Adds
  <2> QED BY <2>2, <2>8, <2>9, VoiceQuiet
<1>2. CASE RetireEpoch
  <2>1. PICK c, x, ts : c = Callout /\ x = [t |-> "teardown", epoch |-> epoch', gen |-> Head(stack).gen] /\ ts = <<c, x>>
    OBVIOUS
  <2>2. stack # <<>> /\ Head(stack).t = "retire" /\ Run(ts)
    BY <1>2, <2>1 DEF RetireEpoch, Top
  <2>3. UNCHANGED <<tracker, events, emitting, seen, sends, pend>>
    BY <1>2 DEF RetireEpoch, tracking, session, counters
  <2>4. c.t = "callout" /\ x.t = "teardown"
    BY <2>1, TaskKind
  <2>5. ~Speaks(c) /\ Named(c) /\ ~Speaks(x) /\ Named(x)
    BY <2>4, MuteKinds
  <2>6. Mute(ts)
    BY <2>1, <2>5, MuteShort
  <2>7. Adds(ts)
    BY <2>2 DEF Adds, Speaks
  <2> QED BY <2>3, <2>6, <2>7, VoiceQuiet
<1>3. CASE Flush
  <2>1. PICK f, c, x, ts : f = Head(stack).flow /\ c = Task("drain") /\ x = [t |-> "established", flow |-> f] /\ ts = <<c, x>>
    OBVIOUS
  <2>2. stack # <<>> /\ Head(stack).t = "flush" /\ (Run(ts) \/ Run(<<>>))
    BY <1>3, <2>1 DEF Flush, Top
  <2>3. UNCHANGED <<tracker, events, emitting, seen, sends, pend>>
    BY <1>3 DEF Flush, tracking, session, counters
  <2>4. c.t = "drain" /\ x.t = "established"
    BY <2>1, TaskKind
  <2>5. ~Speaks(c) /\ Named(c) /\ ~Speaks(x) /\ Named(x)
    BY <2>4, MuteKinds
  <2>6. Mute(ts) /\ Mute(<<>>)
    BY <2>1, <2>5, MuteShort
  <2>7. Adds(ts) \/ Adds(<<>>)
    BY <2>2 DEF Adds, Speaks
  <2> QED BY <2>3, <2>6, <2>7, VoiceQuiet
<1> QED BY <1>1, <1>2, <1>3, VoiceFans, VoiceTracks, VoicePublishes, VoiceRefused, VoiceDrains DEF Tasks

\* The instance is retired: the failures are reported first, then the rest runs.
LEMMA VoiceRetires ==
    ASSUME SendInv, OwnInv, VoiceInv, UNCHANGED <<tracker, events, emitting, seen, sends, pend>>,
           NEW rest, Mute(rest), Begin(Fails(TakePending) \o rest)
    PROVE  VoiceInv'
<1>1. PICK fs, ts : fs = Fails(TakePending) /\ ts = fs \o rest
  OBVIOUS
<1>2. Mute(fs)
  BY <1>1, TakesOnly, MuteFails DEF SendInv
<1>3. Mute(ts)
  BY <1>1, <1>2, MuteConcat
<1>4. Adds(ts)
  BY <1>1 DEF Adds
<1> QED BY <1>3, <1>4, VoiceQuiet

LEMMA VoiceEvents == ASSUME SendInv, OwnInv, OrderInv, VoiceInv, Events PROVE VoiceInv'
<1>1. CASE Connected \/ PongWhileConnected \/ SocketCloses \/ OnClose \/ HeartbeatTimeout \/ Redial \/ StallRecovery \/ RetryDue
  <2>1. UNCHANGED <<tracker, events, emitting, seen, sends>> /\ (pend' = pend \/ pend' = <<>>)
    BY <1>1 DEF Connected, PongWhileConnected, SocketCloses, OnClose, HeartbeatTimeout, Redial, StallRecovery, RetryDue,
                SocketLost, tracking, session, counters
  <2>2. Begin(<<>>) \/ Begin(<<Callout>>) \/ Begin(ForceReconnect)
    BY <1>1 DEF Connected, PongWhileConnected, SocketCloses, OnClose, HeartbeatTimeout, Redial, StallRecovery, RetryDue
  <2>3. Adds(<<>>) \/ Adds(<<Callout>>) \/ Adds(ForceReconnect)
    BY <2>2 DEF Adds
  <2> QED BY <2>1, <2>3, MuteShort, MuteReconnect, VoiceQuiet
<1>2. CASE FailTerminally
  <2>1. PICK c, d, rest : c = Callout /\ d = Task("down") /\ rest = <<c, d>>
    OBVIOUS
  <2>2. UNCHANGED <<tracker, events, emitting, seen, sends, pend>> /\ Begin(Fails(TakePending) \o rest)
    BY <1>2, <2>1 DEF FailTerminally, tracking, counters
  <2>3. c.t = "callout" /\ d.t = "down"
    BY <2>1, TaskKind
  <2>4. Mute(rest)
    BY <2>1, <2>3, MuteKinds, MuteShort
  <2> QED BY <2>2, <2>4, VoiceRetires
<1>3. ASSUME NEW f \in flows, Registered(f) PROVE VoiceInv'
  <2>1. UNCHANGED <<tracker, events, emitting, seen, sends, pend>>
    BY <1>3 DEF Registered, tracking, session, counters
  <2>2. PICK c, x, ts : c = Callout /\ x = [t |-> "unwrap", flow |-> f] /\ ts = <<c, x>>
    OBVIOUS
  <2>3. Begin(<<>>) \/ Begin(ts)
    BY <1>3, <2>2 DEF Registered
  <2>4. c.t = "callout" /\ x.t = "unwrap"
    BY <2>2, TaskKind
  <2>5. Mute(ts) /\ Mute(<<>>)
    BY <2>2, <2>4, MuteKinds, MuteShort
  <2>6. Adds(<<>>) \/ Adds(ts)
    BY <2>3 DEF Adds
  <2> QED BY <2>1, <2>5, <2>6, VoiceQuiet
<1>4. ASSUME NEW f \in flows, RegisterFails(f) PROVE VoiceInv'
  <2>1. /\ UNCHANGED <<tracker, events, emitting, seen, sends>> /\ (pend' = pend \/ pend' = <<>>)
        /\ Begin(<<>>) \/ Begin(ForceReconnect)
    BY <1>4 DEF RegisterFails, SocketLost, tracking, session, counters
  <2>2. Adds(<<>>) \/ Adds(ForceReconnect)
    BY <2>1 DEF Adds
  <2> QED BY <2>1, <2>2, MuteShort, MuteReconnect, VoiceQuiet
<1>5. ASSUME NEW f \in flows, RegisterRejected(f) PROVE VoiceInv'
  <2>1. UNCHANGED <<tracker, events, emitting, seen, sends, pend>>
    BY <1>5 DEF RegisterRejected, tracking, counters
  <2>2. PICK x, rest : x = [t |-> "retire", gen |-> f.gen] /\ rest = <<x>>
    OBVIOUS
  <2>3. Begin(<<>>) \/ Begin(Fails(TakePending) \o rest)
    BY <1>5, <2>2 DEF RegisterRejected
  <2>4. Mute(rest)
    BY <2>2, MuteKinds, MuteShort
  <2>5. CASE Begin(<<>>)
    BY <2>1, <2>5, MuteShort, VoiceQuiet DEF Adds
  <2> QED BY <2>1, <2>3, <2>4, <2>5, VoiceRetires
<1>6. ASSUME NEW f \in flows, Unwrapped(f) PROVE VoiceInv'
  <2>1. UNCHANGED <<tracker, events, emitting, seen, sends>> /\ (pend' = pend \/ pend' = <<>>)
    BY <1>6 DEF Unwrapped, tracking, counters
  <2>2. PICK d, x, ts : d = [t |-> "deliver", frames |-> pend] /\ x = [t |-> "flush", flow |-> f] /\ ts = <<d, x>>
    OBVIOUS
  <2>3. Begin(<<>>) \/ Begin(ts)
    BY <1>6, <2>2 DEF Unwrapped
  <2>4. ~Speaks(d) /\ Named(d)
    BY <2>2 DEF Speaks, Named, VoiceInv, NamedInv
  <2>5. ~Speaks(x) /\ Named(x)
    BY <2>2, MuteKinds
  <2>6. Mute(ts) /\ Mute(<<>>)
    BY <2>2, <2>4, <2>5, MuteShort
  <2>7. Adds(<<>>) \/ Adds(ts)
    BY <2>3 DEF Adds
  <2> QED BY <2>1, <2>6, <2>7, VoiceQuiet
<1>7. ASSUME NEW fr \in Frames, ResultArrives(fr) PROVE VoiceInv'
  <2>1. stack = <<>> /\ UNCHANGED <<tracker, events, emitting, seen, sends>>
    BY <1>7 DEF ResultArrives, tracking
  <2>2. IsSeq(fr.ids) /\ ToSet(fr.ids) \subseteq Id
    BY FramesName
  <2>3. CASE key = 0
    <3>1. UNCHANGED stack /\ (pend' = pend \/ pend' = Append(pend, fr))
      BY <1>7, <2>3 DEF ResultArrives
    <3>2. Adds(<<>>)
      BY <2>1, <3>1 DEF Adds, Begin
    <3>3. PICK p : p = pend'
      OBVIOUS
    <3>4. \A g \in ToSet(p) : g \in ToSet(pend) \/ g = fr
      <4>1. PICK q : q = Append(pend, fr)
        OBVIOUS
      <4>2. ToSet(q) = ToSet(pend) \cup {fr}
        BY <4>1, AppendFacts DEF SendInv, SeqInv, Legible
      <4>3. p = pend \/ p = q
        BY <3>1, <3>3, <4>1
      <4> QED BY <4>2, <4>3
    <3>5. \A g \in ToSet(p) : g \in ToSet(pend) \/ ToSet(g.ids) \subseteq Id
      BY <2>2, <3>4
    <3> QED BY <2>1, <3>2, <3>3, <3>5, MuteShort, VoiceStays
  <2>4. CASE key # 0
    <3>1. Deliver(fr, <<>>) /\ pend' = pend
      BY <1>7, <2>4 DEF ResultArrives
    <3>2. PICK ts : Mute(ts) /\ stack' = ts \o <<>>
      BY <2>2, <3>1, DeliverMute
    <3>3. stack' = ts
      <4>1. ts \in Seq(ToSet(ts))
        BY <3>2 DEF Mute, IsSeq
      <4> QED BY <3>2, <4>1, ConcatEmptySeq
    <3>4. Adds(ts)
      BY <2>1, <3>3 DEF Adds, Begin
    <3> QED BY <2>1, <3>1, <3>2, <3>4, VoiceQuiet
  <2> QED BY <2>3, <2>4
<1> QED BY <1>1, <1>2, <1>3, <1>4, <1>5, <1>6, <1>7 DEF Events

LEMMA VoiceNext == ASSUME SendInv, OwnInv, OrderInv, VoiceInv, [Next]_vars PROVE VoiceInv'
<1>1. CASE UNCHANGED vars
  <2>1. UNCHANGED <<tracker, events, emitting, seen, sends, pend, stack>>
    BY <1>1 DEF vars, tracking, session, counters
  <2>2. EmitInv'
    BY <2>1 DEF VoiceInv, EmitInv, Orderly, Speaks, ToSet
  <2>3. TellsOf(stack)' = TellsOf(stack) /\ Pending' = Pending
    BY <2>1 DEF TellsOf, Pending, ToSet
  <2>4. ToldInv'
    BY <2>1, <2>3 DEF VoiceInv, ToldInv, ToldTypes, ToldOrder, ToldCurrent, SeenInOrder, ToSet
  <2>5. NamedInv'
    BY <2>1 DEF VoiceInv, NamedInv, Named, ToSet
  <2> QED BY <2>2, <2>4, <2>5 DEF VoiceInv
<1> QED BY <1>1, VoiceCalls, VoiceTasks, VoiceEvents DEF Next

\* emitSendState, flushQueue and drainOutboundQueue (nats-client.ts): whatever
\* listeners call in between, even the last of them is told the states of a message
\* in the order of its life, up to the current one, and what reaches the wire
\* follows the order of the sends.
THEOREM ToldAndSentInOrder == Spec => []InOrder
<1>1. Init => SendInv /\ OwnInv /\ OrderInv /\ VoiceInv
  <2> SUFFICES ASSUME Init PROVE VoiceInv
    BY InitInv, OwnInit, OrderInit
  <2>1. /\ stack = <<>> /\ events = <<>> /\ pend = <<>> /\ emitting = FALSE /\ sends = 0
        /\ seen = [i \in Id |-> <<>>] /\ tracker = [i \in Id |-> "none"]
    BY DEF Init
  <2>2. ToSet(stack) = {} /\ ToSet(events) = {} /\ ToSet(pend) = {} /\ \A i \in Id : ToSet(seen[i]) = {}
    BY <2>1, EmptyFacts
  <2>3. EmitInv
    <3>1. Silent(stack)
      BY <2>2 DEF Silent
    <3>2. Orderly(stack)
      BY <3>1, SilentIsOrderly
    <3> QED BY <2>1, <2>2, <3>2 DEF EmitInv
  <2>4. Pending = {} /\ TellsOf(stack) = {}
    BY <2>2 DEF Pending, TellsOf
  <2>5. ToldInv
    BY <2>1, <2>2, <2>4 DEF ToldInv, ToldTypes, ToldOrder, ToldCurrent, SeenInOrder
  <2>6. NamedInv
    BY <2>2 DEF NamedInv
  <2> QED BY <2>3, <2>5, <2>6 DEF VoiceInv
<1>2. SendInv /\ OwnInv /\ OrderInv /\ VoiceInv /\ [Next]_vars => SendInv' /\ OwnInv' /\ OrderInv' /\ VoiceInv'
  BY NextKeeps, OwnNext, OrderNext, VoiceNext
<1>3. OwnInv /\ OrderInv /\ VoiceInv => InOrder
  <2>1. OwnInv /\ VoiceInv => ToldInOrder
    BY ToldInvImplies DEF VoiceInv
  <2>2. OrderInv => SentInOrder
    BY OrderInvImplies
  <2> QED BY <2>1, <2>2 DEF InOrder
<1> QED BY <1>1, <1>2, <1>3, PTL DEF Spec
=============================================================================
