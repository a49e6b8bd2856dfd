-------------------------- MODULE EnrollmentProofs --------------------------
(***************************************************************************)
(* Enrollment implements Grant, hands out one identity, answers            *)
(* truthfully, replaces a key only by consent and never leaves a lock      *)
(* behind, for any number of enrollments, calls, keys and processes and    *)
(* any lease, expiration and retention.                                    *)
(*                                                                         *)
(* A step is looked at from two sides: what it does to the repository      *)
(* (RepoStep: eight ways, all that the refinement needs) and how it moves  *)
(* each call (Moves: four ways).  The invariant joins the two: which call  *)
(* stored a row's credentials, what a call saw of the registry, and what a *)
(* repeated approval read before it answers.                               *)
(***************************************************************************)
EXTENDS Enrollment, SequenceTheorems, TLAPS

Running(p) == pc[p] \notin {"new", "done"}

\* The queue of a user code holds exactly the running calls for it, once each, and
\* only the first is past the lock.
LockInv ==
    /\ \A p \in Op : Running(p) =>
          /\ home[p] \in Replica /\ target[p] \in Flow
          /\ \E i \in 1..Len(lock[home[p]][target[p]]) : lock[home[p]][target[p]][i] = p
    /\ \A r \in Replica, f \in Flow : \A i \in 1..Len(lock[r][f]) :
          /\ Running(lock[r][f][i]) /\ home[lock[r][f][i]] = r /\ target[lock[r][f][i]] = f
          /\ i # 1 => pc[lock[r][f][i]] = "locked"
          /\ \A j \in 1..Len(lock[r][f]) : lock[r][f][i] = lock[r][f][j] => i = j

\* A row has a key from its enrollment on, and credentials while it is approved.
RowInv ==
    \A f \in Flow : /\ key[f] = None <=> status[f] = "none"
                    /\ status[f] # "approved" => by[f] = None

\* The registry has at most one active row.
HistInv == \A n, m \in Activation("active") : n = m

\* A call is for an enrollment that exists, and only calls that run belong to a process.
CallInv ==
    \A p \in Op : /\ pc[p] # "new" => target[p] \in Flow /\ status[target[p]] # "none"
                  /\ answer[p] # None => pc[p] = "done"
                  /\ home[p] # None => Running(p)

\* Credentials are stored by the call that minted them, for its enrollment.
ByInv == \A f \in Flow, p \in Op : by[f] = p => pc[p] \in {"retry", "done"} /\ target[p] = f

\* The activation a call expects is the one its operator named, or has the same key.
ConsentInv ==
    \A p \in Op : expect[p] # 0 =>
        /\ Running(p) /\ expect[p] \in DOMAIN history
        /\ replace[p] = expect[p] \/ history[expect[p]].key = key[target[p]]

\* What was handed out for an enrollment, or is about to be by a repeated approval.
Handed(f) == told[f] \union {view[p] : p \in {q \in Op : pc[q] = "reconcile" /\ target[q] = f}}
IdentInv ==
    \A f \in Flow : /\ \A c, d \in Handed(f) : c = d
                    /\ Handed(f) # {} => status[f] \in {"approved", "swept"}
                    /\ status[f] = "approved" => \A c \in Handed(f) : c = by[f]

IInv == /\ TypeOK /\ LockInv /\ RowInv /\ HistInv /\ CallInv /\ ByInv
        /\ TruthfulAnswer /\ ConsentInv /\ IdentInv

-----------------------------------------------------------------------------
(* The lock. *)

LockTypes ==
    /\ lock \in [Replica -> [Flow -> Seq(Op)]]
    /\ pc \in [Op -> Location] /\ target \in [Op -> Flow \union {None}]
    /\ home \in [Op -> Replica \union {None}]

\* A call that is past the lock, or may pass it, is the first of its queue.
AtHead(p) == Running(p) /\ (pc[p] = "locked" => HasLock(p))

\* Such a call is where its process and its user code say.
LEMMA HeadOfQueue ==
    ASSUME LockTypes, LockInv, NEW p \in Op, AtHead(p)
    PROVE  /\ home[p] \in Replica /\ target[p] \in Flow
           /\ lock[home[p]][target[p]] \in Seq(Op)
           /\ lock[home[p]][target[p]] # <<>>
           /\ Len(lock[home[p]][target[p]]) \in Nat \ {0}
           /\ lock[home[p]][target[p]][1] = p
<1> DEFINE q == lock[home[p]][target[p]]
<1>1. home[p] \in Replica /\ target[p] \in Flow
  BY DEF AtHead, LockInv
<1>2. q \in Seq(Op)
  BY <1>1 DEF LockTypes
<1>3. PICK i \in 1..Len(q) : q[i] = p
  BY DEF AtHead, LockInv
<1>4. Len(q) \in Nat \ {0} /\ q # <<>>
  BY <1>2, <1>3
<1>5. q[1] = p
  <2>1. CASE pc[p] = "locked"
    BY <2>1, <1>2, <1>4 DEF AtHead, HasLock
  <2>2. CASE pc[p] # "locked"
    <3>1. i = 1
      BY <1>1, <1>3, <2>2 DEF LockInv
    <3> QED BY <3>1, <1>3
  <2> QED BY <2>1, <2>2
<1> QED BY <1>1, <1>2, <1>4, <1>5

\* A call that goes on to its next await keeps its place.
LEMMA AwaitKeepsLock ==
    ASSUME LockTypes, LockInv, NEW p \in Op, AtHead(p),
           NEW l \in Location \ {"new", "done", "locked"}, Await(p, l)
    PROVE  LockTypes' /\ LockInv'
<1>1. LockTypes'
  BY DEF LockTypes, Await
<1>2. lock' = lock /\ target' = target /\ home' = home /\ pc' = [pc EXCEPT ![p] = l]
  BY DEF Await
<1>3. \A q \in Op : Running(q)' <=> Running(q)
  BY <1>2 DEF Running, AtHead, LockTypes
<1>4. /\ home[p] \in Replica /\ target[p] \in Flow /\ Len(lock[home[p]][target[p]]) \in Nat \ {0}
      /\ lock[home[p]][target[p]][1] = p
  BY HeadOfQueue
<1>5. ASSUME NEW q \in Op, Running(q)'
      PROVE  /\ home'[q] \in Replica /\ target'[q] \in Flow
             /\ \E i \in 1..Len(lock'[home'[q]][target'[q]]) : lock'[home'[q]][target'[q]][i] = q
  BY <1>2, <1>3, <1>5 DEF LockInv
<1>6. ASSUME NEW r \in Replica, NEW f \in Flow, NEW i \in 1..Len(lock[r][f])
      PROVE  /\ Running(lock[r][f][i])' /\ home[lock[r][f][i]] = r /\ target[lock[r][f][i]] = f
             /\ i # 1 => pc'[lock[r][f][i]] = "locked"
             /\ \A j \in 1..Len(lock[r][f]) : lock[r][f][i] = lock[r][f][j] => i = j
  <2>1. lock[r][f][i] \in Op
    BY DEF LockTypes
  <2>2. /\ Running(lock[r][f][i]) /\ home[lock[r][f][i]] = r /\ target[lock[r][f][i]] = f
        /\ i # 1 => pc[lock[r][f][i]] = "locked"
        /\ \A j \in 1..Len(lock[r][f]) : lock[r][f][i] = lock[r][f][j] => i = j
    BY DEF LockInv
  <2>3. Running(lock[r][f][i])'
    BY <2>1, <2>2, <1>2, <1>3 DEF Running, LockTypes
  <2>4. ASSUME i # 1 PROVE lock[r][f][i] # p
    <3> SUFFICES ASSUME lock[r][f][i] = p PROVE FALSE
      OBVIOUS
    <3>1. home[p] = r /\ target[p] = f
      BY <2>2
    <3>2. 1 \in 1..Len(lock[r][f]) /\ lock[r][f][1] = p
      BY <3>1, <1>4
    <3> QED BY <3>2, <2>2, <2>4
  <2>5. i # 1 => pc'[lock[r][f][i]] = "locked"
    BY <2>1, <2>2, <2>4, <1>2 DEF LockTypes
  <2> QED BY <2>2, <2>3, <2>5
<1>7. LockInv'
  BY <1>5, <1>6, <1>2 DEF LockInv, Running
<1> QED BY <1>1, <1>7
\* A call that answers leaves the queue to the next one.
LEMMA AnswerKeepsLock ==
    ASSUME LockTypes, LockInv, NEW p \in Op, AtHead(p), NEW a, Answer(p, a)
    PROVE  LockTypes' /\ LockInv'
<1> DEFINE h == home[p]
           t == target[p]
           q == lock[h][t]
<1>1. /\ h \in Replica /\ t \in Flow /\ q \in Seq(Op) /\ q # <<>>
      /\ Len(q) \in Nat \ {0} /\ q[1] = p
  BY HeadOfQueue
<1>2. /\ Tail(q) \in Seq(Op) /\ Len(Tail(q)) = Len(q) - 1
      /\ \A i \in 1..Len(Tail(q)) : Tail(q)[i] = q[i + 1]
  BY <1>1, HeadTailProperties, Zenon
<1>3. /\ lock' = [lock EXCEPT ![h][t] = Tail(q)] /\ target' = target
      /\ home' = [home EXCEPT ![p] = None] /\ pc' = [pc EXCEPT ![p] = "done"]
  BY DEF Answer, Unlock
<1>4. LockTypes'
  BY <1>1, <1>2, <1>3 DEF LockTypes, Location
<1>5. /\ lock'[h][t] = Tail(q)
      /\ \A r \in Replica, f \in Flow : ~(r = h /\ f = t) => lock'[r][f] = lock[r][f]
  BY <1>1, <1>3 DEF LockTypes
<1>6. ASSUME NEW o \in Op, Running(o)'
      PROVE  /\ home'[o] \in Replica /\ target'[o] \in Flow
             /\ \E i \in 1..Len(lock'[home'[o]][target'[o]]) : lock'[home'[o]][target'[o]][i] = o
  <2>1. o # p /\ Running(o)
    BY <1>3, <1>6 DEF Running, LockTypes
  <2>2. home'[o] = home[o] /\ target'[o] = target[o]
    BY <2>1, <1>3 DEF LockTypes
  <2>3. /\ home[o] \in Replica /\ target[o] \in Flow
        /\ \E i \in 1..Len(lock[home[o]][target[o]]) : lock[home[o]][target[o]][i] = o
    BY <2>1 DEF LockInv
  <2>4. CASE home[o] = h /\ target[o] = t
    <3>1. PICK i \in 1..Len(q) : q[i] = o
      BY <2>3, <2>4
    <3>2. i # 1 /\ i - 1 \in 1..Len(Tail(q)) /\ Tail(q)[i - 1] = q[i]
      BY <1>1, <1>2, <2>1, <3>1
    <3> QED BY <2>2, <2>3, <2>4, <3>1, <3>2, <1>5
  <2>5. CASE ~(home[o] = h /\ target[o] = t)
    BY <2>2, <2>3, <2>5, <1>5
  <2> QED BY <2>4, <2>5
<1>7. ASSUME NEW r \in Replica, NEW f \in Flow, NEW i \in 1..Len(lock'[r][f])
      PROVE  /\ pc'[lock'[r][f][i]] \notin {"new", "done"} /\ home'[lock'[r][f][i]] = r
             /\ target'[lock'[r][f][i]] = f
             /\ i # 1 => pc'[lock'[r][f][i]] = "locked"
             /\ \A j \in 1..Len(lock'[r][f]) : lock'[r][f][i] = lock'[r][f][j] => i = j
  <2>1. CASE r = h /\ f = t
    <3>1. lock'[r][f] = Tail(q)
      BY <2>1, <1>5
    <3>2. i \in 1..Len(Tail(q)) /\ i + 1 \in 1..Len(q) /\ Tail(q)[i] = q[i + 1] /\ q[i + 1] \in Op
      BY <3>1, <1>1, <1>2
    <3>3. /\ home[q[i + 1]] = r /\ target[q[i + 1]] = f /\ pc[q[i + 1]] = "locked"
          /\ \A j \in 1..Len(q) : q[i + 1] = q[j] => i + 1 = j
      BY <3>2, <2>1, <1>1 DEF LockInv
    <3>4. q[i + 1] # p
      BY <3>3, <3>2, <1>1
    <3>5. /\ pc'[q[i + 1]] = "locked" /\ home'[q[i + 1]] = r /\ target'[q[i + 1]] = f
      BY <3>2, <3>3, <3>4, <1>3 DEF LockTypes
    <3>6. ASSUME NEW j \in 1..Len(Tail(q)), Tail(q)[i] = Tail(q)[j] PROVE i = j
      <4>1. j + 1 \in 1..Len(q) /\ q[i + 1] = q[j + 1]
        BY <3>6, <3>2, <1>1, <1>2
      <4> QED BY <4>1, <3>3, <3>2
    <3> QED BY <3>1, <3>2, <3>5, <3>6 DEF Running
  <2>2. CASE ~(r = h /\ f = t)
    <3>1. lock'[r][f] = lock[r][f] /\ lock[r][f] \in Seq(Op) /\ i \in 1..Len(lock[r][f])
      BY <2>2, <1>5 DEF LockTypes
    <3>2. /\ Running(lock[r][f][i]) /\ home[lock[r][f][i]] = r /\ target[lock[r][f][i]] = f
          /\ i # 1 => pc[lock[r][f][i]] = "locked"
          /\ \A j \in 1..Len(lock[r][f]) : lock[r][f][i] = lock[r][f][j] => i = j
      BY <3>1 DEF LockInv
    <3>3. lock[r][f][i] \in Op /\ lock[r][f][i] # p
      BY <3>1, <3>2, <2>2
    <3> QED BY <3>1, <3>2, <3>3, <1>3 DEF LockTypes, Running
  <2> QED BY <2>1, <2>2
<1>8. LockInv'
  BY <1>6, <1>7 DEF LockInv, Running
<1> QED BY <1>4, <1>8

\* A new call queues behind the others.
LEMMA ApproveKeepsLock ==
    ASSUME LockTypes, LockInv, NEW p \in Op, NEW f \in Flow, NEW r \in Replica,
           NEW n, Approve(p, f, r, n)
    PROVE  LockTypes' /\ LockInv'
<1> DEFINE q == lock[r][f]
           q2 == Append(q, p)
<1>1. q \in Seq(Op) /\ Len(q) \in Nat
  BY DEF LockTypes
<1>2. /\ q2 \in Seq(Op) /\ Len(q2) = Len(q) + 1
      /\ \A i \in 1..Len(q) : q2[i] = q[i]
      /\ q2[Len(q) + 1] = p
  BY <1>1, AppendProperties
<1>a. /\ pc[p] = "new" /\ lock' = [lock EXCEPT ![r][f] = q2]
      /\ pc' = [pc EXCEPT ![p] = "locked"] /\ target' = [target EXCEPT ![p] = f]
      /\ home' = [home EXCEPT ![p] = r]
  BY DEF Approve
<1>3. LockTypes'
  BY <1>a, <1>2 DEF LockTypes, Location
<1>4. /\ lock'[r][f] = q2
      /\ \A s \in Replica, g \in Flow : ~(s = r /\ g = f) => lock'[s][g] = lock[s][g]
  BY <1>a DEF LockTypes
<1>5. /\ pc'[p] = "locked" /\ target'[p] = f /\ home'[p] = r
      /\ \A o \in Op \ {p} : pc'[o] = pc[o] /\ target'[o] = target[o] /\ home'[o] = home[o]
  BY <1>a DEF LockTypes
<1>6. \A s \in Replica, g \in Flow : \A i \in 1..Len(lock[s][g]) :
         lock[s][g][i] \in Op \ {p}
  BY <1>a DEF LockInv, LockTypes, Running
<1> HIDE DEF q2
<1>7. ASSUME NEW o \in Op, Running(o)'
      PROVE  /\ home'[o] \in Replica /\ target'[o] \in Flow
             /\ \E i \in 1..Len(lock'[home'[o]][target'[o]]) : lock'[home'[o]][target'[o]][i] = o
  <2>1. CASE o = p
    <3>1. Len(q) + 1 \in 1..Len(q2)
      BY <1>1, <1>2
    <3> QED BY <2>1, <3>1, <1>2, <1>4, <1>5
  <2>2. CASE o # p
    <3>1. Running(o) /\ home'[o] = home[o] /\ target'[o] = target[o]
      BY <2>2, <1>5, <1>7 DEF Running
    <3>2. /\ home[o] \in Replica /\ target[o] \in Flow
          /\ \E i \in 1..Len(lock[home[o]][target[o]]) : lock[home[o]][target[o]][i] = o
      BY <3>1 DEF LockInv
    <3>3. CASE home[o] = r /\ target[o] = f
      <4>1. PICK i \in 1..Len(q) : q[i] = o
        BY <3>2, <3>3
      <4>2. i \in 1..Len(q2) /\ q2[i] = o
        BY <4>1, <1>1, <1>2
      <4> QED BY <4>2, <3>1, <3>3, <1>4
    <3>4. CASE ~(home[o] = r /\ target[o] = f)
      BY <3>1, <3>2, <3>4, <1>4
    <3> QED BY <3>3, <3>4
  <2> QED BY <2>1, <2>2
<1>8. ASSUME NEW s \in Replica, NEW g \in Flow, NEW i \in 1..Len(lock'[s][g])
      PROVE  /\ pc'[lock'[s][g][i]] \notin {"new", "done"} /\ home'[lock'[s][g][i]] = s
             /\ target'[lock'[s][g][i]] = g
             /\ i # 1 => pc'[lock'[s][g][i]] = "locked"
             /\ \A j \in 1..Len(lock'[s][g]) : lock'[s][g][i] = lock'[s][g][j] => i = j
  <2>0. /\ lock[s][g] \in Seq(Op) /\ Len(lock[s][g]) \in Nat
        /\ \A k \in 1..Len(lock[s][g]) :
             /\ lock[s][g][k] \in Op \ {p}
             /\ Running(lock[s][g][k]) /\ home[lock[s][g][k]] = s /\ target[lock[s][g][k]] = g
             /\ k # 1 => pc[lock[s][g][k]] = "locked"
             /\ \A j \in 1..Len(lock[s][g]) : lock[s][g][k] = lock[s][g][j] => k = j
    <3>1. lock[s][g] \in Seq(Op) /\ Len(lock[s][g]) \in Nat
      BY DEF LockTypes
    <3>2. \A k \in 1..Len(lock[s][g]) : lock[s][g][k] \in Op \ {p}
      BY <1>6
    <3> QED BY <3>1, <3>2 DEF LockInv
  <2>1. CASE s = r /\ g = f /\ i = Len(q) + 1
    <3>1. lock'[s][g] = q2 /\ q2[i] = p
      BY <2>1, <1>4, <1>2
    <3>2. \A j \in 1..Len(q2) : q2[j] = p => j = Len(q) + 1
      BY <2>0, <2>1, <1>1, <1>2
    <3> QED BY <3>1, <3>2, <2>1, <1>5 DEF Running
  <2>2. CASE s = r /\ g = f /\ i # Len(q) + 1
    <3>1. lock'[s][g] = q2 /\ i \in 1..Len(q) /\ q2[i] = q[i] /\ q[i] \in Op \ {p}
      BY <2>0, <2>2, <1>1, <1>2, <1>4
    <3>2. \A j \in 1..Len(q2) : q2[i] = q2[j] => i = j
      BY <2>0, <2>2, <3>1, <1>1, <1>2
    <3> QED BY <3>1, <3>2, <2>0, <2>2, <1>5 DEF Running
  <2>3. CASE ~(s = r /\ g = f)
    <3>1. lock'[s][g] = lock[s][g]
      BY <2>3, <1>4
    <3> QED BY <3>1, <2>0, <1>5 DEF Running
  <2> QED BY <2>1, <2>2, <2>3
<1>9. LockInv'
  BY <1>7, <1>8 DEF LockInv, Running
<1> QED BY <1>3, <1>9

\* A dead process has no lock any more; the queues of the others do not change.
LEMMA CrashKeepsLock ==
    ASSUME LockTypes, LockInv, NEW r \in Replica, Crash(r)
    PROVE  LockTypes' /\ LockInv'
<1> DEFINE dead == {p \in Op : home[p] = r}
<1>1. /\ pc' = [p \in Op |-> IF p \in dead THEN "done" ELSE pc[p]]
      /\ lock' = [lock EXCEPT ![r] = [f \in Flow |-> <<>>]]
      /\ home' = [p \in Op |-> IF p \in dead THEN None ELSE home[p]]
      /\ target' = target
  BY DEF Crash
<1>2. LockTypes'
  BY <1>1, EmptySeq DEF LockTypes, Location
<1>3. /\ \A f \in Flow : lock'[r][f] = <<>>
      /\ \A s \in Replica \ {r}, f \in Flow : lock'[s][f] = lock[s][f]
  BY <1>1 DEF LockTypes
<1>4. ASSUME NEW o \in Op, Running(o)'
      PROVE  /\ home'[o] \in Replica /\ target'[o] \in Flow
             /\ \E i \in 1..Len(lock'[home'[o]][target'[o]]) : lock'[home'[o]][target'[o]][i] = o
  <2>1. home[o] # r /\ Running(o) /\ home'[o] = home[o]
    BY <1>1, <1>4 DEF Running
  <2> QED BY <2>1, <1>1, <1>3 DEF LockInv
<1>5. ASSUME NEW s \in Replica, NEW g \in Flow, NEW i \in 1..Len(lock'[s][g])
      PROVE  /\ pc'[lock'[s][g][i]] \notin {"new", "done"} /\ home'[lock'[s][g][i]] = s
             /\ target'[lock'[s][g][i]] = g
             /\ i # 1 => pc'[lock'[s][g][i]] = "locked"
             /\ \A j \in 1..Len(lock'[s][g]) : lock'[s][g][i] = lock'[s][g][j] => i = j
  <2>1. s # r
    BY <1>3, <1>5
  <2>2. lock'[s][g] = lock[s][g] /\ lock[s][g] \in Seq(Op)
    BY <2>1, <1>3 DEF LockTypes
  <2>3. /\ lock[s][g][i] \in Op
        /\ Running(lock[s][g][i]) /\ home[lock[s][g][i]] = s /\ target[lock[s][g][i]] = g
        /\ i # 1 => pc[lock[s][g][i]] = "locked"
        /\ \A j \in 1..Len(lock[s][g]) : lock[s][g][i] = lock[s][g][j] => i = j
    BY <2>2 DEF LockInv
  <2> QED BY <2>1, <2>2, <2>3, <1>1 DEF Running
<1>6. LockInv'
  BY <1>4, <1>5 DEF LockInv, Running
<1> QED BY <1>2, <1>6

-----------------------------------------------------------------------------
(* The registry. *)

\* The registry's active row is the one that getActive finds.
LEMMA ActiveRow ==
    ASSUME history \in Seq(Row), HistInv
    PROVE  /\ Active \in Nat
           /\ Active = 0 => Activation("active") = {} /\ ActiveKey = None
           /\ Active # 0 => /\ Activation("active") = {Active} /\ Active \in DOMAIN history
                            /\ history[Active].status = "active"
                            /\ ActiveKey = history[Active].key /\ ActiveKey \in Key
<1>0. \A n \in DOMAIN history : n \in Nat \ {0} /\ history[n] \in Row
  OBVIOUS
<1>1. CASE Activation("active") = {}
  BY <1>1 DEF Active, ActiveKey
<1>2. CASE Activation("active") # {}
  <2>1. PICK a \in Activation("active") : TRUE
    BY <1>2
  <2>2. Activation("active") = {a} /\ a \in DOMAIN history /\ a \in Nat \ {0}
    BY <2>1, <1>0 DEF HistInv, Activation
  <2>3. Active = a
    BY <2>2 DEF Active
  <2>4. history[a].status = "active" /\ history[a].key \in Key
    BY <2>2, <2>1, <1>0 DEF Activation, Row
  <2> QED BY <2>2, <2>3, <2>4 DEF ActiveKey
<1> QED BY <1>1, <1>2

\* Ending the active row changes its status only.
LEMMA EndedRows ==
    ASSUME history \in Seq(Row), HistInv, NEW s \in {"superseded", "revoked"}
    PROVE  /\ Ended(s) \in Seq(Row) /\ Len(Ended(s)) = Len(history)
           /\ DOMAIN Ended(s) = DOMAIN history
           /\ \A n \in DOMAIN history : /\ Ended(s)[n].key = history[n].key
                                        /\ Ended(s)[n].status # "active"
                                        /\ n # Active => Ended(s)[n] = history[n]
                                        /\ n = Active => Ended(s)[n].status = s
<1>1. history \in [1..Len(history) -> Row] /\ Len(history) \in Nat
      /\ DOMAIN history = 1..Len(history)
  OBVIOUS
<1>2. ASSUME NEW n \in DOMAIN history
      PROVE  /\ Ended(s)[n] \in Row /\ Ended(s)[n].key = history[n].key
             /\ Ended(s)[n].status # "active"
             /\ n # Active => Ended(s)[n] = history[n]
             /\ n = Active => Ended(s)[n].status = s
  <2>1. CASE n = Active
    BY <2>1, <1>1 DEF Ended, Row
  <2>2. CASE n # Active
    <3>1. history[n].status # "active"
      <4>1. Active \in Nat /\ (Active = 0 => Activation("active") = {})
            /\ (Active # 0 => Activation("active") = {Active})
        BY ActiveRow
      <4> QED BY <4>1, <2>2 DEF Activation
    <3> QED BY <2>2, <3>1, <1>1 DEF Ended
  <2> QED BY <2>1, <2>2
<1>3. DOMAIN Ended(s) = 1..Len(history)
  BY <1>1 DEF Ended
<1>4. Ended(s) \in [1..Len(history) -> Row]
  BY <1>1, <1>2 DEF Ended
<1>5. Ended(s) \in Seq(Row) /\ Len(Ended(s)) = Len(history)
  BY <1>1, <1>3, <1>4
<1> QED BY <1>1, <1>2, <1>3, <1>5

\* Activating a key supersedes the active row and tombstones nothing.
LEMMA ActivateRows ==
    ASSUME history \in Seq(Row), HistInv, NEW k \in Key, Activate(k)
    PROVE  /\ history' \in Seq(Row) /\ HistInv'
           /\ DOMAIN history' = DOMAIN history \union {Len(history) + 1}
           /\ \A n \in DOMAIN history : history'[n].key = history[n].key
           /\ ActiveKey' = k /\ RevokedKeys' = RevokedKeys
<1> DEFINE e == Ended("superseded")
           N == Len(history) + 1
<1>1. /\ e \in Seq(Row) /\ Len(e) = Len(history) /\ Len(history) \in Nat
      /\ DOMAIN history = 1..Len(history)
      /\ \A n \in DOMAIN history : /\ e[n].key = history[n].key /\ e[n].status # "active"
                                   /\ n # Active => e[n] = history[n]
                                   /\ n = Active => e[n].status = "superseded"
  BY EndedRows
<1>2. history' = Append(e, [key |-> k, status |-> "active"])
  BY DEF Activate
<1>3. [key |-> k, status |-> "active"] \in Row
  BY DEF Row
<1> HIDE DEF e
<1>4. /\ history' \in Seq(Row) /\ Len(history') = N
      /\ \A n \in 1..Len(e) : history'[n] = e[n]
      /\ history'[Len(e) + 1] = [key |-> k, status |-> "active"]
  BY <1>1, <1>2, <1>3, AppendProperties
<1>5. DOMAIN history' = 1..N /\ N \in 1..N /\ DOMAIN history' = DOMAIN history \union {N}
  BY <1>1, <1>4
<1>6. \A n \in DOMAIN history' : history'[n].status = "active" <=> n = N
  BY <1>1, <1>4, <1>5
<1>7. Activation("active")' = {N}
  BY <1>5, <1>6 DEF Activation
<1>8. HistInv'
  BY <1>7 DEF HistInv
<1>9. ActiveKey' = k
  <2>1. Active' = N
    <3>1. N \in Nat \ {0}
      BY <1>1
    <3> HIDE DEF N
    <3> QED BY <1>7, <3>1 DEF Active
  <2> QED BY <2>1, <1>1, <1>4 DEF ActiveKey
<1>10. RevokedKeys' = RevokedKeys
  <2>1. Active \in DOMAIN history => history[Active].status = "active"
    <3>1. Active \in Nat /\ (Active # 0 => history[Active].status = "active")
      BY ActiveRow
    <3> QED BY <3>1, <1>1
  <2>2. \A n \in DOMAIN history : history'[n].key = history[n].key
                                  /\ (history'[n].status = "revoked" <=> history[n].status = "revoked")
    BY <2>1, <1>1, <1>4
  <2>3. Activation("revoked")' = Activation("revoked")
    BY <2>2, <1>4, <1>5, <1>1 DEF Activation
  <2> QED BY <2>2, <2>3 DEF RevokedKeys, Activation
<1> QED BY <1>1, <1>4, <1>5, <1>8, <1>9, <1>10

\* Revoking the active row leaves none and tombstones its key.
LEMMA RevokeRows ==
    ASSUME history \in Seq(Row), HistInv, Active # 0, history' = Ended("revoked")
    PROVE  /\ history' \in Seq(Row) /\ HistInv'
           /\ DOMAIN history' = DOMAIN history
           /\ \A n \in DOMAIN history : history'[n].key = history[n].key
           /\ ActiveKey' = None /\ RevokedKeys' = RevokedKeys \union {ActiveKey}
<1> DEFINE e == Ended("revoked")
<1>1. /\ e \in Seq(Row) /\ DOMAIN e = DOMAIN history
      /\ \A n \in DOMAIN history : /\ e[n].key = history[n].key /\ e[n].status # "active"
                                   /\ n # Active => e[n] = history[n]
                                   /\ n = Active => e[n].status = "revoked"
  BY EndedRows
<1>2. Active \in DOMAIN history /\ ActiveKey = history[Active].key
  BY ActiveRow
<1> HIDE DEF e
<1>3. history' = e
  BY DEF e
<1>4. Activation("active")' = {}
  BY <1>1, <1>3 DEF Activation
<1>5. HistInv' /\ ActiveKey' = None
  BY <1>4 DEF HistInv, ActiveKey, Active
<1>6. Activation("revoked")' = Activation("revoked") \union {Active}
  BY <1>1, <1>2, <1>3 DEF Activation
<1>7. \A n \in DOMAIN history : history'[n].key = history[n].key
  BY <1>1, <1>3
<1>8. RevokedKeys' = RevokedKeys \union {ActiveKey}
  BY <1>2, <1>6, <1>7 DEF RevokedKeys, Activation
<1> QED BY <1>1, <1>3, <1>5, <1>7, <1>8

-----------------------------------------------------------------------------
(* What a step may do to the repository. *)

RepoTypes ==
    /\ now \in Nat
    /\ status \in [Flow -> Status] /\ key \in [Flow -> Key \union {None}]
    /\ expires \in [Flow -> Nat] /\ lease \in [Flow -> Nat] /\ at \in [Flow -> Nat]
    /\ claim \in [Flow -> Op \union {None}] /\ by \in [Flow -> Op \union {None, Legacy}]
    /\ history \in Seq(Row)

Open(f) == status[f] \in {"pending", "approving"}

Adopted(f) ==
    /\ NeedsRegistration(f) /\ Activate(key[f])
    /\ UNCHANGED <<status, key, expires, claim, lease, by, at>>

RepoStep ==
    \/ UNCHANGED repo
    \/ \E f \in Flow, k \in Key : Enroll(f, k)
    \/ \E f \in Flow, s \in {"pending", "denied", "expired"} : Open(f) /\ Becomes(f, s)
    \/ Sweep
    \/ \E p \in Op : target[p] \in Flow /\ ClaimTaken(p)
    \/ \E p \in Op : target[p] \in Flow /\ CommitApplied(p)
    \/ \E f \in Flow : Adopted(f)
    \/ RevokeActive

\* Every step changes the repository in one of these ways.
LEMMA StepOfRepo ==
    ASSUME LockInv, Next
    PROVE  RepoStep
<1>1. CASE Tick
  BY <1>1 DEF Tick, RepoStep
<1>2. CASE RevokeActive \/ Sweep
  BY <1>2 DEF RepoStep
<1>3. ASSUME NEW f \in Flow, NEW k \in Key, Enroll(f, k) PROVE RepoStep
  BY <1>3 DEF RepoStep
<1>4. ASSUME NEW f \in Flow, PollExpires(f) \/ Deny(f) PROVE RepoStep
  <2>1. Open(f) /\ \E s \in {"denied", "expired"} : Becomes(f, s)
    BY <1>4 DEF PollExpires, Deny, Deniable, Open
  <2> QED BY <2>1 DEF RepoStep
<1>5. ASSUME NEW f \in Flow, PollApproved(f) PROVE RepoStep
  BY <1>5 DEF PollApproved, RepoStep
<1>6. ASSUME NEW p \in Op, NEW f \in Flow, NEW r \in Replica, NEW n, Approve(p, f, r, n)
      PROVE  RepoStep
  BY <1>6 DEF Approve, RepoStep
<1>7. ASSUME NEW r \in Replica, Crash(r) PROVE RepoStep
  BY <1>7 DEF Crash, RepoStep
<1>8. ASSUME NEW p \in Op, OpStep(p) PROVE RepoStep
  <2>0. Running(p) => target[p] \in Flow
    BY DEF LockInv
  <2>1. CASE ClaimTaken(p)
    <3>1. target[p] \in Flow
      BY <2>0, <2>1 DEF ClaimTaken, HasLock, Running
    <3> QED BY <3>1, <2>1 DEF RepoStep
  <2>2. CASE ClaimRefused(p)
    <3>1. target[p] \in Flow
      BY <2>0, <2>2 DEF ClaimRefused, HasLock, Running
    <3>2. UNCHANGED repo \/ (Open(target[p]) /\ Becomes(target[p], "expired"))
      BY <2>2 DEF ClaimRefused, Open
    <3> QED BY <3>1, <3>2 DEF RepoStep
  <2>3. CASE ClaimFindsApproved(p) \/ ReadHistory(p) \/ ReadActive(p) \/ Mint(p)
    BY <2>3 DEF ClaimFindsApproved, ReadHistory, ReadActive, Mint, RepoStep
  <2>4. CASE Reconcile(p)
    <3>1. target[p] \in Flow
      BY <2>0, <2>4 DEF Reconcile, Running
    <3>2. UNCHANGED repo \/ Adopted(target[p])
      BY <2>4 DEF Reconcile, Adopted, repo
    <3> QED BY <3>1, <3>2 DEF RepoStep
  <2>5. CASE Drop(p)
    <3>1. target[p] \in Flow
      BY <2>0, <2>5 DEF Drop, Running
    <3>2. UNCHANGED repo \/ (Open(target[p]) /\ Becomes(target[p], "pending"))
      BY <2>5 DEF Drop, Open
    <3> QED BY <3>1, <3>2 DEF RepoStep
  <2>6. CASE Committed(p) \/ NotCommitted(p) \/ CommitThrows(p)
    <3>1. target[p] \in Flow
      BY <2>0, <2>6 DEF Committed, NotCommitted, CommitThrows, Running
    <3>2. UNCHANGED repo \/ CommitApproval(p)
      BY <2>6 DEF Committed, NotCommitted, CommitThrows, CommitApproval
    <3>3. \/ UNCHANGED repo \/ CommitApplied(p)
          \/ (Open(target[p]) /\ Becomes(target[p], "expired"))
          \/ (Open(target[p]) /\ Becomes(target[p], "pending"))
      BY <3>2 DEF CommitApproval, CommitRecovers, CommitLost, CommitExpired, CommitRefused,
                  OwnsLease, LeaseLive, Open
    <3> QED BY <3>1, <3>3 DEF RepoStep
  <2>7. CASE CallThrows(p)
    <3>1. target[p] \in Flow
      BY <2>0, <2>7 DEF CallThrows, HasLock, Running
    <3>2. UNCHANGED repo \/ Adopted(target[p])
      BY <2>7 DEF CallThrows, Adopted
    <3> QED BY <3>1, <3>2 DEF RepoStep
  <2> QED BY <1>8, <2>1, <2>2, <2>3, <2>4, <2>5, <2>6, <2>7 DEF OpStep
<1> QED BY <1>1, <1>2, <1>3, <1>4, <1>5, <1>6, <1>7, <1>8 DEF Next

\* The repository's types and the shape of its rows.
LEMMA RepoStepKeeps ==
    ASSUME RepoTypes, RowInv, HistInv, RepoStep, now' \in Nat
    PROVE  /\ RepoTypes' /\ RowInv' /\ HistInv'
           /\ \A n \in DOMAIN history : n \in DOMAIN history' /\ history'[n].key = history[n].key
           /\ \A f \in Flow : status[f] # "none" => key'[f] = key[f] /\ status'[f] # "none"
<1> DEFINE Rows == /\ history' \in Seq(Row) /\ HistInv'
                   /\ \A n \in DOMAIN history : /\ n \in DOMAIN history'
                                                /\ history'[n].key = history[n].key
           Flows == /\ status' \in [Flow -> Status] /\ key' \in [Flow -> Key \union {None}]
                    /\ expires' \in [Flow -> Nat] /\ lease' \in [Flow -> Nat]
                    /\ at' \in [Flow -> Nat]
                    /\ claim' \in [Flow -> Op \union {None}]
                    /\ by' \in [Flow -> Op \union {None, Legacy}]
                    /\ RowInv'
                    /\ \A f \in Flow : status[f] # "none" => key'[f] = key[f] /\ status'[f] # "none"
<1>1. history' = history => Rows
  BY DEF RepoTypes, HistInv, Activation
<1>2. UNCHANGED <<status, key, expires, claim, lease, by, at>> => Flows
  BY DEF RepoTypes, RowInv
<1>3. ASSUME UNCHANGED repo PROVE Rows /\ Flows
  BY <1>1, <1>2, <1>3 DEF repo
<1>4. ASSUME NEW f \in Flow, NEW k \in Key, Enroll(f, k) PROVE Rows /\ Flows
  <2>1. Rows
    BY <1>1, <1>4 DEF Enroll
  <2>2. Flows
    BY <1>4, NoneAssumption, TimesAssumption DEF Enroll, RepoTypes, RowInv, Status
  <2> QED BY <2>1, <2>2
<1>5. ASSUME NEW f \in Flow, NEW s \in {"pending", "denied", "expired"}, Open(f), Becomes(f, s)
      PROVE  Rows /\ Flows
  <2>1. Rows
    BY <1>1, <1>5 DEF Becomes
  <2>2. Flows
    BY <1>5 DEF Becomes, Open, RepoTypes, RowInv, Status
  <2> QED BY <2>1, <2>2
<1>6. ASSUME Sweep PROVE Rows /\ Flows
  <2>1. Rows
    BY <1>1, <1>6 DEF Sweep
  <2>2. Flows
    BY <1>6 DEF Sweep, RepoTypes, RowInv, Status
  <2> QED BY <2>1, <2>2
<1>7. ASSUME NEW p \in Op, target[p] \in Flow, ClaimTaken(p) PROVE Rows /\ Flows
  <2>1. Rows
    BY <1>1, <1>7 DEF ClaimTaken
  <2>2. Flows
    BY <1>7, TimesAssumption DEF ClaimTaken, Claimable, RepoTypes, RowInv, Status
  <2> QED BY <2>1, <2>2
<1>8. ASSUME NEW p \in Op, target[p] \in Flow, CommitApplied(p) PROVE Rows /\ Flows
  <2>1. key[target[p]] \in Key
    BY <1>8 DEF CommitApplied, OwnsLease, LeaseLive, RowInv, RepoTypes
  <2>2. history' = history \/ Activate(key[target[p]])
    BY <1>8 DEF CommitApplied
  <2>3. Rows
    BY <1>1, <2>1, <2>2, ActivateRows DEF RepoTypes
  <2>4. Flows
    BY <1>8, NoneAssumption DEF CommitApplied, OwnsLease, LeaseLive, RepoTypes, RowInv, Status
  <2> QED BY <2>3, <2>4
<1>9. ASSUME NEW f \in Flow, Adopted(f) PROVE Rows /\ Flows
  <2>1. key[f] \in Key /\ Activate(key[f])
    BY <1>9 DEF Adopted, NeedsRegistration, RowInv, RepoTypes
  <2>2. Rows
    BY <2>1, ActivateRows DEF RepoTypes
  <2> QED BY <1>2, <1>9, <2>2 DEF Adopted
<1>10. ASSUME RevokeActive PROVE Rows /\ Flows
  <2>1. Rows
    BY <1>10, RevokeRows DEF RepoTypes, RevokeActive
  <2> QED BY <1>2, <1>10, <2>1 DEF RevokeActive
<1>11. Rows /\ Flows
  <2> HIDE DEF Rows, Flows
  <2> QED BY <1>3, <1>4, <1>5, <1>6, <1>7, <1>8, <1>9, <1>10 DEF RepoStep
<1> QED BY <1>11 DEF RepoTypes

-----------------------------------------------------------------------------
(* The refinement. *)

\* A step that leaves the registry alone changes nothing that Grant sees of it.
LEMMA SameRegistry ==
    ASSUME history' = history
    PROVE  ActiveKey' = ActiveKey /\ RevokedKeys' = RevokedKeys
BY DEF ActiveKey, Active, RevokedKeys, Activation

\* Every step of the repository is a step of Grant, or Grant does not see it.
LEMMA RepoStepRefines ==
    ASSUME RepoTypes, RowInv, HistInv, RepoStep
    PROVE  Granted!Next \/ UNCHANGED Granted!vars
<1> DEFINE Fl == [f \in Flow |-> IF status[f] \in {"pending", "approving"} THEN "open" ELSE status[f]]
<1>1. CASE UNCHANGED repo
  BY <1>1, SameRegistry DEF repo, Granted!vars
<1>2. ASSUME NEW f \in Flow, NEW k \in Key, Enroll(f, k) PROVE Granted!Open(f, k)
  <2>1. ActiveKey' = ActiveKey /\ RevokedKeys' = RevokedKeys
    BY <1>2, SameRegistry DEF Enroll
  <2>2. Fl[f] = "none" /\ Fl' = [Fl EXCEPT ![f] = "open"]
    BY <1>2 DEF Enroll, RepoTypes
  <2> QED BY <1>2, <2>1, <2>2 DEF Enroll, Granted!Open
<1>3. ASSUME NEW f \in Flow, NEW s \in {"pending", "denied", "expired"}, Open(f), Becomes(f, s)
      PROVE  Granted!Refuse(f) \/ UNCHANGED Granted!vars
  <2>1. ActiveKey' = ActiveKey /\ RevokedKeys' = RevokedKeys /\ key' = key
    BY <1>3, SameRegistry DEF Becomes
  <2>2. Fl[f] = "open" /\ Fl' = IF s = "pending" THEN Fl ELSE [Fl EXCEPT ![f] = s]
    BY <1>3 DEF Becomes, Open, RepoTypes
  <2> QED BY <2>1, <2>2 DEF Granted!Refuse, Granted!vars
<1>4. ASSUME Sweep PROVE \E F \in SUBSET Flow : Granted!Forget(F)
  <2> DEFINE old == {f \in Flow : /\ status[f] \notin {"none", "swept"} /\ ~LeaseLive(f)
                                  /\ now > Base(f) + Retention}
  <2>1. ActiveKey' = ActiveKey /\ RevokedKeys' = RevokedKeys /\ key' = key
    BY <1>4, SameRegistry DEF Sweep
  <2>2. status' = [f \in Flow |-> IF f \in old THEN "swept" ELSE status[f]]
    BY <1>4 DEF Sweep
  <2>3. \A f \in old : status[f] # "none"
    OBVIOUS
  <2>4. old \in SUBSET Flow
    OBVIOUS
  <2> HIDE DEF old
  <2>5. PICK F \in SUBSET Flow : F = old
    BY <2>4
  <2>6. /\ \A f \in F : Fl[f] # "none"
        /\ Fl' = [f \in Flow |-> IF f \in F THEN "swept" ELSE Fl[f]]
    BY <2>2, <2>3, <2>5
  <2>7. Granted!Forget(F)
    BY <2>1, <2>6 DEF Granted!Forget
  <2> QED BY <2>7
<1>5. ASSUME NEW p \in Op, target[p] \in Flow, ClaimTaken(p) PROVE UNCHANGED Granted!vars
  <2>1. ActiveKey' = ActiveKey /\ RevokedKeys' = RevokedKeys /\ key' = key
    BY <1>5, SameRegistry DEF ClaimTaken
  <2>2. Fl' = Fl
    BY <1>5 DEF ClaimTaken, Claimable, RepoTypes
  <2> QED BY <2>1, <2>2 DEF Granted!vars
<1>6. ASSUME NEW p \in Op, NEW f \in Flow, f = target[p], CommitApplied(p)
      PROVE  Granted!Approve(f)
  <2>1. status[f] = "approving" /\ ~Tombstoned(key[f]) /\ key[f] \in Key /\ key' = key
    BY <1>6 DEF CommitApplied, OwnsLease, LeaseLive, RowInv, RepoTypes
  <2>2. ActiveKey' = key[f] /\ RevokedKeys' = RevokedKeys
    <3>1. CASE Registered(key[f]) /\ history' = history
      BY <3>1, SameRegistry DEF Registered
    <3>2. CASE Activate(key[f])
      BY <3>2, <2>1, ActivateRows DEF RepoTypes
    <3> QED BY <1>6, <3>1, <3>2 DEF CommitApplied
  <2>3. Fl[f] = "open" /\ Fl' = [Fl EXCEPT ![f] = "approved"]
    BY <1>6, <2>1 DEF CommitApplied, RepoTypes
  <2> QED BY <2>1, <2>2, <2>3 DEF Granted!Approve, Tombstoned
<1>7. ASSUME NEW f \in Flow, Adopted(f) PROVE Granted!Adopt(f)
  <2>1. /\ status[f] = "approved" /\ history = <<>> /\ key[f] \in Key
        /\ status' = status /\ key' = key
    BY <1>7 DEF Adopted, NeedsRegistration, RowInv, RepoTypes
  <2>2. ActiveKey' = key[f] /\ RevokedKeys' = RevokedKeys
    BY <1>7, <2>1, ActivateRows DEF Adopted, RepoTypes
  <2>3. Activation("active") = {} /\ Activation("revoked") = {}
    BY <2>1 DEF Activation
  <2>4. ActiveKey = None /\ RevokedKeys = {}
    BY <2>3 DEF ActiveKey, Active, RevokedKeys
  <2>5. Fl[f] = "approved" /\ Fl' = Fl
    BY <2>1
  <2> QED BY <2>1, <2>2, <2>4, <2>5 DEF Granted!Adopt
<1>8. ASSUME RevokeActive PROVE Granted!Revoke
  <2>1. Active # 0 /\ history' = Ended("revoked") /\ status' = status /\ key' = key
    BY <1>8 DEF RevokeActive
  <2>2. ActiveKey' = None /\ RevokedKeys' = RevokedKeys \union {ActiveKey}
    BY <2>1, RevokeRows DEF RepoTypes
  <2>3. ActiveKey # None
    BY <2>1, ActiveRow, NoneAssumption DEF RepoTypes
  <2> QED BY <2>1, <2>2, <2>3 DEF Granted!Revoke
<1> QED
  BY <1>1, <1>2, <1>3, <1>4, <1>5, <1>6, <1>7, <1>8 DEF RepoStep, Granted!Next

-----------------------------------------------------------------------------
(* What a step may do to the calls. *)

RestTypes ==
    /\ faults \in Nat
    /\ replace \in [Op -> Nat] /\ expect \in [Op -> Nat]
    /\ view \in [Op -> Op \union {None, Legacy}]
    /\ answer \in [Op -> {None, "approved", "refused", "threw"}]
    /\ told \in [Flow -> SUBSET (Op \union {None, Legacy})]

\* TypeOK, by the parts of the state.
LEMMA Types == TypeOK <=> RepoTypes /\ LockTypes /\ RestTypes
BY DEF TypeOK, RepoTypes, LockTypes, RestTypes

Stays(o) ==
    /\ pc'[o] = pc[o] /\ target'[o] = target[o] /\ home'[o] = home[o] /\ answer'[o] = answer[o]
    /\ replace'[o] = replace[o] /\ expect'[o] = expect[o]
Starts(o) ==
    /\ pc[o] = "new" /\ pc'[o] = "locked" /\ answer'[o] = answer[o] /\ expect'[o] = expect[o]
    /\ target'[o] \in Flow /\ status[target'[o]] # "none"
GoesOn(o) ==
    /\ Running(o) /\ pc[o] # "retry" /\ pc'[o] \in Location \ {"new", "done", "locked"}
    /\ target'[o] = target[o] /\ answer'[o] = answer[o] /\ replace'[o] = replace[o]
    /\ \/ expect'[o] \in {0, expect[o]}
       \/ history' = history /\ MayReplace(o) /\ expect'[o] = Active
Ends(o) ==
    /\ Running(o) /\ pc'[o] = "done" /\ target'[o] = target[o] /\ home'[o] = None
    /\ expect'[o] = 0
    /\ answer'[o] = "refused" => by'[target[o]] # o
Moves(o) == Stays(o) \/ Starts(o) \/ GoesOn(o) \/ Ends(o)

\* The other calls stay where they are when one goes on or answers.
LEMMA OthersStay ==
    ASSUME LockTypes, RestTypes, NEW p \in Op, NEW o \in Op \ {p},
           \/ /\ \E l : Await(p, l)
              /\ expect' = expect \/ \E e : expect' = [expect EXCEPT ![p] = e]
           \/ \E a : Answer(p, a)
    PROVE  Stays(o)
BY DEF Stays, Await, Answer, LockTypes, RestTypes

\* Every step moves every call in one of these ways.
LEMMA StepOfCalls ==
    ASSUME TypeOK, LockInv, RowInv, CallInv, ByInv, Next, NEW o \in Op
    PROVE  Moves(o)
<1> USE Types
<1>1. ASSUME UNCHANGED call PROVE Moves(o)
  BY <1>1 DEF call, Moves, Stays
<1>2. CASE Tick \/ RevokeActive \/ Sweep
  BY <1>1, <1>2 DEF Tick, RevokeActive, Sweep
<1>3. ASSUME NEW f \in Flow,
             (\E k \in Key : Enroll(f, k)) \/ PollExpires(f) \/ PollApproved(f) \/ Deny(f)
      PROVE  Moves(o)
  BY <1>1, <1>3 DEF Enroll, PollExpires, PollApproved, Deny
<1>4. ASSUME NEW p \in Op, NEW f \in Flow, NEW r \in Replica, NEW n \in 0..Len(history),
             Approve(p, f, r, n)
      PROVE  Moves(o)
  BY <1>4 DEF Approve, Moves, Stays, Starts, LockTypes, RestTypes
<1>5. ASSUME NEW r \in Replica, Crash(r) PROVE Moves(o)
  <2>1. CASE home[o] = r
    <3>1. Running(o)
      BY <2>1, NoneAssumption DEF CallInv
    <3> QED BY <2>1, <3>1, <1>5 DEF Crash, Moves, Ends, LockTypes, RestTypes
  <2>2. CASE home[o] # r
    BY <2>2, <1>5 DEF Crash, Moves, Stays, LockTypes, RestTypes
  <2> QED BY <2>1, <2>2
<1>6. ASSUME NEW p \in Op, OpStep(p) PROVE Moves(o)
  <2>1. ASSUME NEW l \in Location \ {"new", "done", "locked"}, Await(p, l), Running(p),
               pc[p] # "retry",
               \/ expect' = expect
               \/ /\ history' = history
                  /\ expect' = [expect EXCEPT ![p] = IF MayReplace(p) THEN Active ELSE 0]
        PROVE  Moves(o)
    <3>1. CASE o # p
      BY <2>1, <3>1, OthersStay DEF Moves
    <3>2. CASE o = p
      BY <2>1, <3>2 DEF Moves, GoesOn, Await, LockTypes, RestTypes
    <3> QED BY <3>1, <3>2
  <2>2. ASSUME NEW a, Answer(p, a), Running(p), a = "refused" => by'[target[p]] # p
        PROVE  Moves(o)
    <3>1. CASE o # p
      BY <2>2, <3>1, OthersStay DEF Moves
    <3>2. CASE o = p
      BY <2>2, <3>2 DEF Moves, Ends, Answer, LockTypes, RestTypes
    <3> QED BY <3>1, <3>2
  <2>3. ASSUME Running(p)
        PROVE  /\ target[p] \in Flow
               /\ pc[p] # "retry" => by[target[p]] # p
               /\ status[target[p]] # "approved" => by[target[p]] # p
    BY <2>3, NoneAssumption DEF LockInv, ByInv, RowInv, Running
  <2>4. ASSUME Running(p), pc[p] # "retry", by' = by PROVE by'[target[p]] # p
    BY <2>3, <2>4
  <2>5. CASE ClaimTaken(p)
    BY <2>1, <2>5 DEF ClaimTaken, HasLock, Running, Location
  <2>6. CASE ClaimRefused(p)
    <3>1. by' = by /\ pc[p] = "locked" /\ Answer(p, "refused")
      BY <2>6 DEF ClaimRefused, HasLock, Becomes, repo
    <3> QED BY <3>1, <2>2, <2>4 DEF Running
  <2>7. CASE ClaimFindsApproved(p)
    BY <2>1, <2>7 DEF ClaimFindsApproved, HasLock, Running, Location
  <2>8. CASE Reconcile(p)
    BY <2>2, <2>8 DEF Reconcile, Running
  <2>9. CASE ReadHistory(p) \/ Mint(p)
    BY <2>1, <2>9 DEF ReadHistory, Mint, Running, Location
  <2>10. CASE ReadActive(p)
    <3>1. history' = history /\ pc[p] = "active"
          /\ expect' = [expect EXCEPT ![p] = IF MayReplace(p) THEN Active ELSE 0]
          /\ Await(p, IF MayReplace(p) THEN "mint" ELSE "drop")
      BY <2>10 DEF ReadActive, repo
    <3> QED BY <2>1, <3>1 DEF Running, Location
  <2>11. CASE Drop(p)
    <3>1. /\ by' = by /\ pc[p] \in {"drop", "failed"}
          /\ \E a \in {"refused", "threw"} : Answer(p, a)
      BY <2>11 DEF Drop, Becomes, repo
    <3> QED BY <3>1, <2>2, <2>4 DEF Running
  <2>12. CASE Committed(p)
    BY <2>2, <2>12 DEF Committed, Running
  <2>13. CASE NotCommitted(p)
    <3>1. Running(p) /\ Answer(p, "refused")
      BY <2>13 DEF NotCommitted, Running
    <3>2. by' = by
      BY <2>13 DEF NotCommitted, CommitLost, CommitExpired, CommitRefused, Becomes, repo
    <3>3. by[target[p]] = p => Recovered(p)
      BY <3>1, <2>3 DEF Recovered
    <3>4. OwnsLease(p) => by[target[p]] # p
      BY <3>1, <2>3 DEF OwnsLease, LeaseLive
    <3>5. by[target[p]] # p
      BY <2>13, <3>3, <3>4 DEF NotCommitted, CommitLost, CommitExpired, CommitRefused
    <3> QED BY <3>1, <3>2, <3>5, <2>2
  <2>14. CASE CommitThrows(p)
    <3>1. CASE pc[p] = "commit" /\ Await(p, "retry") /\ UNCHANGED <<view, expect>>
      BY <3>1, <2>1 DEF Running, Location
    <3>2. CASE pc[p] = "retry" /\ Answer(p, "threw")
      BY <3>2, <2>2 DEF Running
    <3> QED BY <2>14, <3>1, <3>2 DEF CommitThrows
  <2>15. CASE CallThrows(p)
    BY <2>2, <2>15 DEF CallThrows, HasLock, Running
  <2> QED BY <1>6, <2>5, <2>6, <2>7, <2>8, <2>9, <2>10, <2>11, <2>12, <2>13, <2>14, <2>15 DEF OpStep
<1> QED BY <1>2, <1>3, <1>4, <1>5, <1>6 DEF Next

\* The types of the calls' own state.
LEMMA StepOfRest ==
    ASSUME TypeOK, LockInv, HistInv, Next
    PROVE  RestTypes' /\ now' \in Nat
<1> USE Types
<1>1. ASSUME UNCHANGED <<replace, view, expect, answer>> PROVE
         /\ replace' \in [Op -> Nat] /\ expect' \in [Op -> Nat]
         /\ view' \in [Op -> Op \union {None, Legacy}]
         /\ answer' \in [Op -> {None, "approved", "refused", "threw"}]
  BY <1>1 DEF RestTypes
<1>2. faults' \in Nat /\ now' \in Nat
  <2>1. faults' = faults \/ Fault
    BY DEF Next, Tick, RevokeActive, Sweep, Enroll, PollExpires, PollApproved, Deny, Approve,
           OpStep, ClaimTaken, ClaimRefused, ClaimFindsApproved, Reconcile, ReadHistory,
           ReadActive, Mint, Drop, Committed, NotCommitted, CommitThrows, CallThrows, Crash
  <2>2. now' = now \/ now' = now + 1
    BY DEF Next, Tick, RevokeActive, Sweep, Enroll, PollExpires, PollApproved, Deny, Approve,
           OpStep, ClaimTaken, ClaimRefused, ClaimFindsApproved, Reconcile, ReadHistory,
           ReadActive, Mint, Drop, Committed, NotCommitted, CommitThrows, CallThrows, Crash
  <2> QED BY <2>1, <2>2 DEF Fault, RestTypes, RepoTypes
<1>3. told' = told => told' \in [Flow -> SUBSET (Op \union {None, Legacy})]
  BY DEF RestTypes
<1>4. CASE Tick \/ RevokeActive \/ Sweep
  BY <1>1, <1>2, <1>3, <1>4 DEF Tick, RevokeActive, Sweep, RestTypes, call
<1>5. ASSUME NEW f \in Flow,
             (\E k \in Key : Enroll(f, k)) \/ PollExpires(f) \/ Deny(f)
      PROVE  RestTypes'
  BY <1>1, <1>2, <1>3, <1>5 DEF Enroll, PollExpires, Deny, RestTypes, call
<1>6. ASSUME NEW f \in Flow, PollApproved(f) PROVE RestTypes'
  BY <1>1, <1>2, <1>6 DEF PollApproved, RestTypes, RepoTypes, call
<1>7. ASSUME NEW p \in Op, NEW f \in Flow, NEW r \in Replica, NEW n \in 0..Len(history),
             Approve(p, f, r, n)
      PROVE  RestTypes'
  BY <1>2, <1>7 DEF Approve, RestTypes, RepoTypes
<1>8. ASSUME NEW r \in Replica, Crash(r) PROVE RestTypes'
  BY <1>2, <1>8 DEF Crash, RestTypes
<1>9. ASSUME NEW p \in Op, OpStep(p) PROVE RestTypes'
  <2>1. ASSUME NEW l, Await(p, l), view' = view, expect' = expect, told' = told PROVE RestTypes'
    BY <1>1, <1>2, <1>3, <2>1 DEF Await, RestTypes
  <2>2. ASSUME NEW a \in {"approved", "refused", "threw"}, Answer(p, a),
               told' \in [Flow -> SUBSET (Op \union {None, Legacy})]
        PROVE  RestTypes'
    BY <1>2, <2>2 DEF Answer, RestTypes
  <2>3. CASE ClaimTaken(p) \/ ReadHistory(p) \/ Mint(p)
    BY <2>1, <2>3 DEF ClaimTaken, ReadHistory, Mint
  <2>4. CASE ClaimFindsApproved(p)
    <3>1. target[p] \in Flow => by[target[p]] \in Op \union {None, Legacy}
      BY DEF RepoTypes
    <3>2. target[p] \in Flow
      BY <2>4 DEF ClaimFindsApproved, HasLock, LockInv, Running
    <3> QED BY <1>2, <1>3, <2>4, <3>1, <3>2 DEF ClaimFindsApproved, Await, RestTypes
  <2>5. CASE ReadActive(p)
    <3>1. Active \in Nat
      BY ActiveRow DEF RepoTypes
    <3> QED BY <1>2, <1>3, <2>5, <3>1 DEF ReadActive, Await, RestTypes
  <2>6. CASE ClaimRefused(p) \/ Drop(p) \/ NotCommitted(p) \/ CallThrows(p)
    BY <1>3, <2>2, <2>6 DEF ClaimRefused, Drop, NotCommitted, CallThrows
  <2>7. CASE CommitThrows(p)
    BY <1>3, <2>1, <2>2, <2>7 DEF CommitThrows
  <2>8. CASE Reconcile(p)
    <3>1. told' \in [Flow -> SUBSET (Op \union {None, Legacy})]
      BY <2>8 DEF Reconcile, Tell, RestTypes
    <3> QED BY <2>2, <2>8, <3>1 DEF Reconcile
  <2>9. CASE Committed(p)
    <3>1. told' \in [Flow -> SUBSET (Op \union {None, Legacy})]
      BY <2>9 DEF Committed, Tell, RestTypes
    <3> QED BY <2>2, <2>9, <3>1 DEF Committed
  <2> QED BY <1>9, <2>3, <2>4, <2>5, <2>6, <2>7, <2>8, <2>9 DEF OpStep
<1> QED BY <1>2, <1>4, <1>5, <1>6, <1>7, <1>8, <1>9 DEF Next

\* Every step keeps the locks in order.
LEMMA StepOfLock ==
    ASSUME TypeOK, LockInv, Next
    PROVE  LockTypes' /\ LockInv'
<1> USE Types
<1>1. ASSUME UNCHANGED <<lock, pc, target, home>> PROVE LockTypes' /\ LockInv'
  BY <1>1 DEF LockTypes, LockInv, Running
<1>2. CASE Tick \/ RevokeActive \/ Sweep
  BY <1>1, <1>2 DEF Tick, RevokeActive, Sweep, call
<1>3. ASSUME NEW f \in Flow,
             (\E k \in Key : Enroll(f, k)) \/ PollExpires(f) \/ PollApproved(f) \/ Deny(f)
      PROVE  LockTypes' /\ LockInv'
  BY <1>1, <1>3 DEF Enroll, PollExpires, PollApproved, Deny, call
<1>4. ASSUME NEW p \in Op, NEW f \in Flow, NEW r \in Replica, NEW n, Approve(p, f, r, n)
      PROVE  LockTypes' /\ LockInv'
  BY <1>4, ApproveKeepsLock
<1>5. ASSUME NEW r \in Replica, Crash(r) PROVE LockTypes' /\ LockInv'
  BY <1>5, CrashKeepsLock
<1>6. ASSUME NEW p \in Op, OpStep(p) PROVE LockTypes' /\ LockInv'
  <2>1. AtHead(p)
    <3>1. HasLock(p) => AtHead(p)
      BY DEF HasLock, AtHead, Running
    <3>2. pc[p] \notin {"new", "done", "locked"} => AtHead(p)
      BY DEF AtHead, Running
    <3> QED
      BY <1>6, <3>1, <3>2 DEF OpStep, ClaimTaken, ClaimRefused, ClaimFindsApproved, Reconcile,
            ReadHistory, ReadActive, Mint, Drop, Committed, NotCommitted, CommitThrows, CallThrows
  <2>2. (\E l \in Location \ {"new", "done", "locked"} : Await(p, l)) \/ (\E a : Answer(p, a))
    BY <1>6 DEF OpStep, ClaimTaken, ClaimRefused, ClaimFindsApproved, Reconcile,
            ReadHistory, ReadActive, Mint, Drop, Committed, NotCommitted, CommitThrows, CallThrows,
            Location
  <2> QED BY <2>1, <2>2, AwaitKeepsLock, AnswerKeepsLock
<1> QED BY <1>2, <1>3, <1>4, <1>5, <1>6 DEF Next

-----------------------------------------------------------------------------
(* What a step may do to the credentials. *)

\* An approved enrollment keeps its credentials until it is swept, for ever.
LEMMA StepOfStatus ==
    ASSUME RepoTypes, RepoStep, NEW f \in Flow
    PROVE  /\ status[f] = "approved" => \/ status'[f] = "approved" /\ by'[f] = by[f]
                                        \/ status'[f] = "swept"
           /\ status[f] = "swept" => status'[f] = "swept"
<1>1. CASE UNCHANGED repo \/ RevokeActive \/ \E g \in Flow : Adopted(g)
  BY <1>1 DEF repo, RevokeActive, Adopted
<1>2. ASSUME NEW g \in Flow, NEW k \in Key, Enroll(g, k)
      PROVE  status[f] \in {"approved", "swept"} => status'[f] = status[f] /\ by'[f] = by[f]
  BY <1>2 DEF Enroll, RepoTypes
<1>3. ASSUME NEW g \in Flow, NEW s \in {"pending", "denied", "expired"}, Open(g), Becomes(g, s)
      PROVE  status[f] \in {"approved", "swept"} => status'[f] = status[f] /\ by'[f] = by[f]
  BY <1>3 DEF Open, Becomes, RepoTypes
<1>4. CASE Sweep
  BY <1>4 DEF Sweep, RepoTypes
<1>5. ASSUME NEW p \in Op, target[p] \in Flow, ClaimTaken(p) \/ CommitApplied(p)
      PROVE  status[f] \in {"approved", "swept"} => status'[f] = status[f] /\ by'[f] = by[f]
  BY <1>5 DEF ClaimTaken, Claimable, CommitApplied, OwnsLease, LeaseLive, RepoTypes
<1> QED BY <1>1, <1>2, <1>3, <1>4, <1>5 DEF RepoStep

\* Credentials are stored only by the commit of the call that minted them.
LEMMA StepOfCredentials ==
    ASSUME TypeOK, LockInv, Next, NEW f \in Flow, NEW o \in Op, by'[f] = o
    PROVE  \/ by[f] = o
           \/ /\ pc[o] \in {"commit", "retry"} /\ pc'[o] \in {"retry", "done"}
              /\ target[o] = f /\ target'[o] = f
<1> USE Types
<1>1. ASSUME by' = by PROVE by[f] = o
  BY <1>1
<1>2. CASE Tick \/ RevokeActive
  BY <1>1, <1>2 DEF Tick, RevokeActive, repo
<1>3. CASE Sweep
  BY <1>3, NoneAssumption DEF Sweep, RepoTypes
<1>4. ASSUME NEW g \in Flow,
             \/ (\E k \in Key : Enroll(g, k)) \/ PollExpires(g) \/ PollApproved(g) \/ Deny(g)
             \/ \E p \in Op, r \in Replica, n \in 0..Len(history) : Approve(p, g, r, n)
      PROVE  by' = by
  BY <1>4 DEF Enroll, PollExpires, PollApproved, Deny, Approve, Becomes, repo
<1>5. ASSUME NEW r \in Replica, Crash(r) PROVE by' = by
  BY <1>5 DEF Crash, repo
<1>6. ASSUME NEW p \in Op, OpStep(p), by' # by
      PROVE  /\ pc[p] \in {"commit", "retry"} /\ pc'[p] \in {"retry", "done"}
             /\ target'[p] = target[p] /\ by' = [by EXCEPT ![target[p]] = p]
             /\ target[p] \in Flow
  <2>1. CASE Committed(p) \/ NotCommitted(p) \/ CommitThrows(p)
    <3>1. pc[p] \in {"commit", "retry"} /\ target[p] \in Flow
      BY <2>1 DEF Committed, NotCommitted, CommitThrows, LockInv, Running
    <3>2. pc'[p] \in {"retry", "done"} /\ target'[p] = target[p]
      BY <2>1 DEF Committed, NotCommitted, CommitThrows, Await, Answer, LockTypes
    <3>3. CommitApplied(p)
      BY <2>1, <1>6 DEF Committed, NotCommitted, CommitThrows, CommitApproval, CommitRecovers,
            CommitLost, CommitExpired, CommitRefused, Becomes, repo
    <3> QED BY <3>1, <3>2, <3>3 DEF CommitApplied
  <2>2. CASE ~(Committed(p) \/ NotCommitted(p) \/ CommitThrows(p))
    <3>1. by' = by
      BY <1>6, <2>2 DEF OpStep, ClaimTaken, ClaimRefused, ClaimFindsApproved, Reconcile,
            ReadHistory, ReadActive, Mint, Drop, CallThrows, Becomes, repo
    <3> QED BY <3>1, <1>6
  <2> QED BY <2>1, <2>2
<1>7. ASSUME NEW p \in Op, OpStep(p), by' # by, by[f] # o PROVE o = p /\ f = target[p]
  BY <1>6, <1>7 DEF RepoTypes
<1> QED BY <1>1, <1>2, <1>3, <1>4, <1>5, <1>6, <1>7 DEF Next

\* Only the credentials of an approved row are handed out anew.
LEMMA StepOfHanded ==
    ASSUME TypeOK, LockInv, Next, NEW f \in Flow, NEW c \in Handed(f)'
    PROVE  c \in Handed(f) \/ (status'[f] = "approved" /\ c = by'[f])
<1> USE Types
<1>1. ASSUME told' = told, view' = view,
             \A q \in Op : pc'[q] = "reconcile" => pc[q] = "reconcile" /\ target'[q] = target[q]
      PROVE  c \in Handed(f)
  BY <1>1 DEF Handed
<1>2. CASE Tick \/ RevokeActive \/ Sweep
  BY <1>1, <1>2 DEF Tick, RevokeActive, Sweep, call
<1>3. ASSUME NEW g \in Flow, (\E k \in Key : Enroll(g, k)) \/ PollExpires(g) \/ Deny(g)
      PROVE  c \in Handed(f)
  BY <1>1, <1>3 DEF Enroll, PollExpires, Deny, call
<1>4. ASSUME NEW g \in Flow, PollApproved(g)
      PROVE  c \in Handed(f) \/ (status'[f] = "approved" /\ c = by'[f])
  <2>1. \A d \in told'[f] : d \in told[f] \/ (f = g /\ d = by[f])
    BY <1>4 DEF PollApproved, RestTypes
  <2>2. c \in told'[f] \/ c \in Handed(f)
    BY <1>4 DEF PollApproved, Handed, call
  <2> QED BY <1>4, <2>1, <2>2 DEF PollApproved, repo, Handed
<1>5. ASSUME NEW p \in Op, NEW g \in Flow, NEW r \in Replica, NEW n, Approve(p, g, r, n)
      PROVE  c \in Handed(f)
  BY <1>1, <1>5 DEF Approve, LockTypes
<1>6. ASSUME NEW r \in Replica, Crash(r) PROVE c \in Handed(f)
  <2>1. ASSUME NEW q \in Op, pc'[q] = "reconcile"
        PROVE  pc[q] = "reconcile" /\ target'[q] = target[q] /\ view'[q] = view[q]
    BY <1>6, <2>1 DEF Crash
  <2>2. told' = told
    BY <1>6 DEF Crash
  <2> QED BY <2>1, <2>2 DEF Handed
<1>7. ASSUME NEW p \in Op, OpStep(p)
      PROVE  c \in Handed(f) \/ (status'[f] = "approved" /\ c = by'[f])
  <2>1. ASSUME NEW l \in Location \ {"reconcile"}, Await(p, l), view' = view, told' = told
        PROVE  c \in Handed(f)
    BY <1>1, <2>1 DEF Await, LockTypes
  <2>2. ASSUME NEW a, Answer(p, a)
        PROVE  c \in Handed(f) \/ c \in told'[f]
    <3>1. ASSUME NEW q \in Op, pc'[q] = "reconcile"
          PROVE  pc[q] = "reconcile" /\ target'[q] = target[q] /\ view'[q] = view[q]
      BY <2>2, <3>1 DEF Answer, LockTypes, RestTypes
    <3> QED BY <3>1 DEF Handed
  <2>3. told' = told => (c \in told'[f] => c \in Handed(f))
    BY DEF Handed
  <2>4. CASE ClaimTaken(p) \/ ReadHistory(p) \/ ReadActive(p) \/ Mint(p)
    BY <2>1, <2>4 DEF ClaimTaken, ReadHistory, ReadActive, Mint, Location
  <2>5. CASE ClaimRefused(p) \/ Drop(p) \/ NotCommitted(p) \/ CallThrows(p)
    BY <2>2, <2>3, <2>5 DEF ClaimRefused, Drop, NotCommitted, CallThrows
  <2>6. CASE CommitThrows(p)
    BY <2>1, <2>2, <2>3, <2>6 DEF CommitThrows, Location
  <2>7. CASE ClaimFindsApproved(p)
    <3>1. /\ told' = told /\ by' = by /\ status' = status /\ status[target[p]] = "approved"
          /\ pc' = [pc EXCEPT ![p] = "reconcile"] /\ target' = target
          /\ view' = [view EXCEPT ![p] = by[target[p]]]
      BY <2>7 DEF ClaimFindsApproved, Await, repo
    <3>2. ASSUME NEW q \in Op, pc'[q] = "reconcile", target'[q] = f
          PROVE  view'[q] \in Handed(f) \/ (status'[f] = "approved" /\ view'[q] = by'[f])
      BY <3>1, <3>2 DEF Handed, LockTypes, RestTypes
    <3> QED BY <3>1, <3>2 DEF Handed
  <2>8. CASE Reconcile(p)
    <3>1. view[p] \in Handed(target[p]) /\ target[p] \in Flow
      BY <2>8 DEF Reconcile, Handed, LockInv, Running
    <3>2. \A d \in told'[f] : d \in told[f] \/ (f = target[p] /\ d = view[p])
      BY <2>8, <3>1 DEF Reconcile, Tell, RestTypes
    <3> QED BY <2>2, <2>8, <3>1, <3>2 DEF Reconcile, Handed
  <2>9. CASE Committed(p)
    <3>1. target[p] \in Flow
      BY <2>9 DEF Committed, LockInv, Running
    <3>2. \A d \in told'[f] : d \in told[f] \/ (f = target[p] /\ d = p)
      BY <2>9, <3>1 DEF Committed, Tell, RestTypes
    <3>3. status'[target[p]] = "approved" /\ by'[target[p]] = p
      BY <2>9, <3>1 DEF Committed, CommitRecovers, Recovered, CommitApplied, repo, RepoTypes
    <3> QED BY <2>2, <2>9, <3>2, <3>3 DEF Committed, Handed
  <2> QED BY <1>7, <2>4, <2>5, <2>6, <2>7, <2>8, <2>9 DEF OpStep
<1> QED BY <1>2, <1>3, <1>4, <1>5, <1>6, <1>7 DEF Next

-----------------------------------------------------------------------------
(* The inductive invariant. *)

\* It holds initially, also with the rows and the key that an upgrade leaves.
LEMMA InitInv == Init => IInv
<1> SUFFICES ASSUME Init PROVE IInv
  OBVIOUS
<1> USE Types
<1>1. history \in Seq(Row) /\ \A n \in DOMAIN history : n = 1
  <2>1. CASE history = <<>>
    BY <2>1
  <2>2. ASSUME NEW k \in Key, history = <<[key |-> k, status |-> "active"]>>
        PROVE  history \in Seq(Row) /\ \A n \in DOMAIN history : n = 1
    <3>1. [key |-> k, status |-> "active"] \in Row
      BY DEF Row
    <3> QED BY <2>2, <3>1
  <2> QED BY <2>1, <2>2 DEF Init
<1>2. RepoTypes
  BY <1>1, NoneAssumption DEF Init, RepoTypes, Status
<1>3. LockTypes
  BY EmptySeq DEF Init, LockTypes, Location
<1>4. RestTypes
  BY DEF Init, RestTypes
<1>5. LockInv
  BY DEF Init, LockInv, Running
<1>6. RowInv
  BY DEF Init, RowInv
<1>7. HistInv
  BY <1>1 DEF HistInv, Activation
<1>8. CallInv /\ TruthfulAnswer /\ ConsentInv
  BY NoneAssumption DEF Init, CallInv, TruthfulAnswer, ConsentInv
<1>9. ByInv
  BY NoneAssumption DEF Init, ByInv
<1>10. IdentInv
  BY DEF Init, IdentInv, Handed
<1> QED BY <1>2, <1>3, <1>4, <1>5, <1>6, <1>7, <1>8, <1>9, <1>10 DEF IInv

\* Every step keeps it: the repository, the locks, the calls, then what joins them.
LEMMA NextInv == IInv /\ Next => IInv'
<1> SUFFICES ASSUME IInv, Next PROVE IInv'
  OBVIOUS
<1>1. /\ TypeOK /\ LockInv /\ RowInv /\ HistInv /\ CallInv /\ ByInv
      /\ TruthfulAnswer /\ ConsentInv /\ IdentInv
  BY DEF IInv
<1>2. RepoTypes /\ LockTypes /\ RestTypes
  BY <1>1, Types
<1>3. RepoStep
  BY <1>1, StepOfRepo
<1>4. RestTypes' /\ now' \in Nat
  BY <1>1, StepOfRest
<1>5. /\ RepoTypes' /\ RowInv' /\ HistInv'
      /\ \A n \in DOMAIN history : n \in DOMAIN history' /\ history'[n].key = history[n].key
      /\ \A f \in Flow : status[f] # "none" => key'[f] = key[f] /\ status'[f] # "none"
  BY <1>1, <1>2, <1>3, <1>4, RepoStepKeeps
<1>6. LockTypes' /\ LockInv'
  BY <1>1, StepOfLock
<1>7. \A o \in Op : Moves(o)
  BY <1>1, StepOfCalls
<1>8. TypeOK'
  BY <1>4, <1>5, <1>6 DEF TypeOK, RepoTypes, LockTypes, RestTypes
<1>9. CallInv'
  <2> SUFFICES ASSUME NEW o \in Op
               PROVE  /\ pc'[o] # "new" => target'[o] \in Flow /\ status'[target'[o]] # "none"
                      /\ answer'[o] # None => pc'[o] = "done"
                      /\ home'[o] # None => pc'[o] \notin {"new", "done"}
    BY DEF CallInv, Running
  <2>1. Moves(o)
    BY <1>7
  <2> QED BY <2>1, <1>1, <1>5 DEF CallInv, Moves, Stays, Starts, GoesOn, Ends, Running
<1>10. ByInv'
  <2> SUFFICES ASSUME NEW f \in Flow, NEW o \in Op, by'[f] = o
               PROVE  pc'[o] \in {"retry", "done"} /\ target'[o] = f
    BY DEF ByInv
  <2>1. CASE by[f] = o
    <3>1. pc[o] \in {"retry", "done"} /\ target[o] = f
      BY <2>1, <1>1 DEF ByInv
    <3>2. Moves(o)
      BY <1>7
    <3> QED BY <3>1, <3>2 DEF Moves, Stays, Starts, GoesOn, Ends, Running
  <2>2. CASE by[f] # o
    BY <2>2, <1>1, StepOfCredentials
  <2> QED BY <2>1, <2>2
<1>11. TruthfulAnswer'
  <2> SUFFICES ASSUME NEW o \in Op, answer'[o] = "refused", by'[target'[o]] = o
               PROVE  FALSE
    BY DEF TruthfulAnswer
  <2>1. answer[o] = "refused" => pc[o] = "done" /\ by[target[o]] # o
    BY <1>1, NoneAssumption DEF CallInv, TruthfulAnswer
  <2>2. CASE Stays(o)
    <3>1. pc[o] = "done" /\ by[target[o]] # o /\ target'[o] = target[o]
      BY <2>1, <2>2 DEF Stays
    <3>2. target[o] \in Flow
      BY <1>1, <3>1 DEF CallInv
    <3> QED BY <3>1, <3>2, <1>1, StepOfCredentials
  <2>3. CASE Starts(o) \/ GoesOn(o)
    BY <2>1, <2>3 DEF Starts, GoesOn, Running
  <2>4. CASE Ends(o)
    BY <2>4 DEF Ends
  <2> QED BY <1>7, <2>2, <2>3, <2>4 DEF Moves
<1>12. ConsentInv'
  <2> SUFFICES ASSUME NEW o \in Op, expect'[o] # 0
               PROVE  /\ pc'[o] \notin {"new", "done"} /\ expect'[o] \in DOMAIN history'
                      /\ \/ replace'[o] = expect'[o]
                         \/ history'[expect'[o]].key = key'[target'[o]]
    BY DEF ConsentInv, Running
  <2>1. Running(o) => target[o] \in Flow /\ key'[target[o]] = key[target[o]]
    BY <1>1, <1>5 DEF CallInv, Running
  <2>2. ASSUME expect'[o] = expect[o], target'[o] = target[o], replace'[o] = replace[o]
        PROVE  /\ Running(o) /\ expect'[o] \in DOMAIN history'
               /\ \/ replace'[o] = expect'[o]
                  \/ history'[expect'[o]].key = key'[target'[o]]
    <3>1. /\ Running(o) /\ expect[o] \in DOMAIN history
          /\ replace[o] = expect[o] \/ history[expect[o]].key = key[target[o]]
      BY <1>1, <2>2 DEF ConsentInv
    <3> QED BY <3>1, <2>1, <2>2, <1>5
  <2>3. CASE Stays(o)
    BY <2>2, <2>3 DEF Stays, Running
  <2>4. CASE Starts(o)
    BY <2>4, <1>1 DEF Starts, ConsentInv, Running
  <2>5. CASE GoesOn(o)
    <3>1. CASE expect'[o] = expect[o]
      BY <2>2, <2>5, <3>1 DEF GoesOn
    <3>2. CASE history' = history /\ MayReplace(o) /\ expect'[o] = Active
      <4>1. /\ Active \in Nat
            /\ Active # 0 => Active \in DOMAIN history /\ ActiveKey = history[Active].key
        BY <1>1, <1>2, ActiveRow DEF RepoTypes
      <4>2. replace[o] = Active \/ ActiveKey = key[target[o]]
        BY <3>2 DEF MayReplace
      <4> QED BY <4>1, <4>2, <3>2, <2>1, <2>5 DEF GoesOn
    <3> QED BY <2>5, <3>1, <3>2 DEF GoesOn
  <2>6. CASE Ends(o)
    BY <2>6 DEF Ends
  <2> QED BY <1>7, <2>3, <2>4, <2>5, <2>6 DEF Moves
<1>13. IdentInv'
  <2> SUFFICES ASSUME NEW f \in Flow
               PROVE  /\ \A c, d \in Handed(f)' : c = d
                      /\ Handed(f)' # {} => status'[f] \in {"approved", "swept"}
                      /\ status'[f] = "approved" => \A c \in Handed(f)' : c = by'[f]
    BY DEF IdentInv
  <2>1. \A c \in Handed(f)' : c \in Handed(f) \/ (status'[f] = "approved" /\ c = by'[f])
    BY <1>1, StepOfHanded
  <2>2. /\ status[f] = "approved" => \/ status'[f] = "approved" /\ by'[f] = by[f]
                                     \/ status'[f] = "swept"
        /\ status[f] = "swept" => status'[f] = "swept"
    BY <1>2, <1>3, StepOfStatus
  <2>3. /\ \A c, d \in Handed(f) : c = d
        /\ Handed(f) # {} => status[f] \in {"approved", "swept"}
        /\ status[f] = "approved" => \A c \in Handed(f) : c = by[f]
    BY <1>1 DEF IdentInv
  <2> QED BY <2>1, <2>2, <2>3
<1> QED BY <1>5, <1>6, <1>8, <1>9, <1>10, <1>11, <1>12, <1>13 DEF IInv

\* So does a stuttering step.
LEMMA StutterInv == IInv /\ UNCHANGED vars => IInv'
<1> SUFFICES ASSUME IInv, UNCHANGED vars PROVE IInv'
  OBVIOUS
<1> USE DEF vars, repo, call
<1>1. TypeOK'
  BY DEF IInv, TypeOK
<1>2. LockInv'
  BY DEF IInv, LockInv, Running
<1>3. RowInv' /\ HistInv'
  BY DEF IInv, RowInv, HistInv, Activation
<1>4. CallInv' /\ ByInv' /\ TruthfulAnswer' /\ ConsentInv'
  BY DEF IInv, CallInv, ByInv, TruthfulAnswer, ConsentInv, Running
<1>5. IdentInv'
  BY DEF IInv, IdentInv, Handed
<1> QED BY <1>1, <1>2, <1>3, <1>4, <1>5 DEF IInv

\* Every behaviour of enrollment satisfies the inductive invariant.
LEMMA Invariance == Spec => []IInv
BY InitInv, NextInv, StutterInv, PTL DEF Spec

-----------------------------------------------------------------------------
(* The theorems. *)

\* Type correctness of enrollment: rows, history, locks and calls.
THEOREM TypeCorrect == Spec => []TypeOK
<1>1. IInv => TypeOK
  BY DEF IInv
<1> QED BY <1>1, Invariance, PTL

\* The device flow implements Grant (device-flow-enrollment.ts over the repository and the
\* key registry): an enrollment is decided once, its approval and the activation of its
\* key are one step, there is one active key, and a revoked key never comes back.
THEOREM Refinement == Spec => Implements
<1>1. Init => Granted!Init
  <2> SUFFICES ASSUME Init PROVE Granted!Init
    OBVIOUS
  <2>1. RepoTypes /\ HistInv
    BY InitInv, Types DEF IInv
  <2>2. ActiveKey \in Key \union {None}
    BY <2>1, ActiveRow DEF RepoTypes
  <2>3. Activation("revoked") = {}
    BY DEF Init, Activation
  <2> QED BY <2>2, <2>3 DEF Init, RevokedKeys, Granted!Init
<1>2. IInv /\ Next => Granted!Next \/ UNCHANGED Granted!vars
  <2> SUFFICES ASSUME IInv, Next PROVE Granted!Next \/ UNCHANGED Granted!vars
    OBVIOUS
  <2>1. RepoTypes /\ RowInv /\ HistInv /\ LockInv
    BY Types DEF IInv
  <2> QED BY <2>1, StepOfRepo, RepoStepRefines
<1>3. UNCHANGED vars => UNCHANGED Granted!vars
  BY SameRegistry DEF vars, repo, Granted!vars
<1> QED BY <1>1, <1>2, <1>3, Invariance, PTL DEF Spec, Implements, Granted!Spec

\* Whatever polls, repeated approvals and retried commits answer (poll and approve in
\* device-flow-enrollment.ts), a plugin gets one identity, and no call says "refused"
\* when its own approval is in effect.
THEOREM AnswersHold == Spec => []AnswersAgree
<1>1. IInv => AnswersAgree
  BY DEF IInv, IdentInv, Handed, AnswersAgree, OneIdentity
<1> QED BY <1>1, Invariance, PTL

\* No call that ended, by an answer or by a throw, keeps the lock of its user code
\* (withUserCodeLock).
THEOREM LockHolds == Spec => []LockServed
<1>1. IInv => LockServed
  <2> SUFFICES ASSUME IInv, NEW r \in Replica, NEW f \in Flow, lock[r][f] # <<>>
               PROVE  /\ pc[Head(lock[r][f])] \notin {"new", "done"}
                      /\ \A i \in 2..Len(lock[r][f]) : pc[lock[r][f][i]] = "locked"
    BY DEF LockServed
  <2>1. lock[r][f] \in Seq(Op)
    BY DEF IInv, TypeOK
  <2>2. Head(lock[r][f]) = lock[r][f][1] /\ 1 \in 1..Len(lock[r][f])
    BY <2>1
  <2>3. \A i \in 1..Len(lock[r][f]) : Running(lock[r][f][i]) /\ (i # 1 => pc[lock[r][f][i]] = "locked")
    BY DEF IInv, LockInv
  <2> QED BY <2>1, <2>2, <2>3 DEF Running
<1> QED BY <1>1, Invariance, PTL

\* An active key is superseded only by the commit of an approval whose operator named
\* that activation (replaceActivationId, and expect in commitApproval).
THEOREM ConsentHolds == Spec => ReplacedByConsent
<1> DEFINE Consent ==
      \A n \in Activation("active") : history'[n].status = "superseded" =>
          \E p \in Op : replace[p] = n /\ by'[target[p]] = p /\ by[target[p]] # p
<1>1. IInv /\ Next => Consent
  <2> SUFFICES ASSUME IInv, Next, NEW n \in Activation("active"),
                      history'[n].status = "superseded"
               PROVE  \E p \in Op : replace[p] = n /\ by'[target[p]] = p /\ by[target[p]] # p
    OBVIOUS
  <2>1. RepoTypes /\ RowInv /\ HistInv /\ LockInv /\ ConsentInv /\ RepoStep
    BY Types, StepOfRepo DEF IInv
  <2>2. Active = n /\ n \in DOMAIN history /\ history[n].status = "active" /\ Active # 0
        /\ ActiveKey = history[n].key
    <3>1. /\ Active = 0 => Activation("active") = {}
          /\ Active # 0 => Activation("active") = {Active} /\ ActiveKey = history[Active].key
      BY <2>1, ActiveRow DEF RepoTypes
    <3> QED BY <3>1 DEF Activation
  <2>3. history' # history
    BY <2>2
  <2>4. ASSUME NEW p \in Op, target[p] \in Flow, CommitApplied(p)
        PROVE  replace[p] = n /\ by'[target[p]] = p /\ by[target[p]] # p
    <3>1. by'[target[p]] = p /\ by[target[p]] # p
      BY <2>1, <2>4, NoneAssumption
         DEF CommitApplied, OwnsLease, LeaseLive, RowInv, RepoTypes
    <3>2. ~Registered(key[target[p]]) /\ ~Tombstoned(key[target[p]]) /\ Matches(expect[p])
      BY <2>3, <2>4 DEF CommitApplied
    <3>3. expect[p] = n /\ ActiveKey # key[target[p]]
      BY <3>2, <2>2 DEF Matches, Registered
    <3> QED BY <3>1, <3>3, <2>1, <2>2 DEF ConsentInv
  <2>5. ASSUME NEW f \in Flow, Adopted(f) PROVE FALSE
    BY <2>2, <2>5 DEF Adopted, NeedsRegistration
  <2>6. ASSUME RevokeActive PROVE FALSE
    <3>1. history'[n].status = "revoked"
      BY <2>1, <2>2, <2>6, EndedRows DEF RevokeActive, RepoTypes
    <3> QED BY <3>1
  <2> QED BY <2>1, <2>3, <2>4, <2>5, <2>6
          DEF RepoStep, repo, Enroll, Becomes, Sweep, ClaimTaken
<1>2. UNCHANGED vars => history' = history
  BY DEF vars, repo
<1> QED BY <1>1, Invariance, PTL DEF Spec, ReplacedByConsent
=============================================================================
