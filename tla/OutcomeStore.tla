---------------------------- MODULE OutcomeStore ----------------------------
(***************************************************************************)
(* The terminal-outcome store of inbound messages                          *)
(* (packages/plugin/src/ingress-outcome.ts, createIngressOutcomeStore).    *)
(*                                                                         *)
(* For each message key the store answers whether the message was accepted *)
(* (ACKed) or overloaded (terminally rejected).  It wraps two persistent   *)
(* dedupe stores of the OpenClaw SDK, each with a memory layer and a disk  *)
(* layer that may fail, and adds                                           *)
(*   - a hot cache that peek reads synchronously,                          *)
(*   - a FIFO gate per key, which a write keeps until its receipt is       *)
(*     committed or rolled back,                                           *)
(*   - a quarantine (rollbackRecovery) of markers whose rollback failed on *)
(*     disk, and a latch (rollbackRecoveryPoisoned) when it is full.       *)
(*                                                                         *)
(* A receipt is rolled back when the message it was written for was not    *)
(* dispatched after all.  The danger is that the marker survives, and that *)
(* a retry of the message is then ACKed although nothing ran.              *)
(***************************************************************************)
EXTENDS Naturals, FiniteSets, Sequences, SequencesExt

CONSTANTS
    Key,            \* account + message id
    Op,             \* concurrent callers of the store
    MaxHot,         \* maxHotEntries
    MaxRecovery     \* maxRollbackRecoveryEntries

ASSUME KeyAssumption == IsFiniteSet(Key)
ASSUME CapsAssumption == MaxHot \in Nat /\ MaxRecovery \in Nat

Outcome == {"accepted", "overloaded"}
Opposite(o) == IF o = "accepted" THEN "overloaded" ELSE "accepted"

VARIABLES
    mem,        \* [Outcome -> SUBSET Key]: memory layer of the two SDK stores
    disk,       \* [Outcome -> SUBSET Key]: their disk layer
    hot,        \* [Key -> Outcome or "none"]: the hot cache
    recovery,   \* [Key -> Outcome or "none"]: markers whose rollback failed
    poisoned,   \* rollbackRecoveryPoisoned
    gate,       \* [Key -> Seq(Op)]: operationTails; the head owns the gate
    call,       \* [Op -> the call in progress]
    pc,         \* [Op -> where that call is]
    found,      \* history: the <<key, outcome>> a lookup returned in the last step
    void,       \* history: [Key -> outcomes whose fresh marker was rolled back]
    committed   \* history: [Key -> outcomes committed and still in SDK memory]

store == <<mem, disk, hot, recovery, poisoned>>
vars == <<store, gate, call, pc, found, void, committed>>

Call == [kind : {"lookup", "record", "forget"}, key : Key, outcome : Outcome,
         replaceOpposite : BOOLEAN, fresh : BOOLEAN]
Pc == {"idle", "queued", "ready", "check", "receipt"}

\* The calls of the API.
Lookup(k) == [kind |-> "lookup", key |-> k, outcome |-> "accepted",
              replaceOpposite |-> FALSE, fresh |-> FALSE]
NoCall == [kind |-> "none"]
Calls == {Lookup(k) : k \in Key} \union
         {c \in Call : c.kind = "record" /\ ~c.fresh} \union
         {c \in Call : c.kind = "forget" /\ ~c.fresh /\ ~c.replaceOpposite}

Init ==
    /\ mem = [o \in Outcome |-> {}]
    /\ disk = [o \in Outcome |-> {}]
    /\ hot = [k \in Key |-> "none"]
    /\ recovery = [k \in Key |-> "none"]
    /\ poisoned = FALSE
    /\ gate = [k \in Key |-> <<>>]
    /\ call = [p \in Op |-> NoCall]
    /\ pc = [p \in Op |-> "idle"]
    /\ found = {}
    /\ void = [k \in Key |-> {}]
    /\ committed = [k \in Key |-> {}]

(***************************************************************************)
(* The SDK's PersistentDedupe.  `ok' says whether the disk access works; a *)
(* failure is reported through onDiskError only.                           *)
(***************************************************************************)
\* hasRecent: memory first, then disk.
Found(o, k, ok) == k \in mem[o] \/ (ok /\ k \in disk[o])
DiskError(o, k, ok) == k \notin mem[o] /\ ~ok

\* checkAndRecord is fresh unless it sees the marker; it inserts into memory even
\* when the disk fails.
Fresh(o, k, ok) == ~Found(o, k, ok)

\* forget always drops the memory marker, and the disk one if the disk works.
SdkForget(o, k, ok) ==
    /\ mem' = [mem EXCEPT ![o] = @ \ {k}]
    /\ disk' = IF ok THEN [disk EXCEPT ![o] = @ \ {k}] ELSE disk

(***************************************************************************)
(* The hot cache.                                                          *)
(***************************************************************************)
HotKeys(h) == {k \in Key : h[k] # "none"}

\* putHot: at the limit the oldest entry goes.  Insertion order is abstracted:
\* any other entry may be the oldest.
PutHot(k, o) ==
    LET others == HotKeys(hot) \ {k} IN
    IF MaxHot = 0 THEN hot' = [hot EXCEPT ![k] = "none"]
    ELSE IF Cardinality(others) < MaxHot THEN hot' = [hot EXCEPT ![k] = o]
    ELSE \E v \in others : hot' = [hot EXCEPT ![v] = "none", ![k] = o]

\* deleteHot with an outcome leaves an entry of the other outcome alone.
WithoutHot(k, o) == IF hot[k] = o THEN [hot EXCEPT ![k] = "none"] ELSE hot

\* peek: nothing is visible of a quarantined key, or of any key once poisoned.
Peek(k) == IF poisoned \/ recovery[k] # "none" THEN "none" ELSE hot[k]

(***************************************************************************)
(* The gate of a key.                                                      *)
(***************************************************************************)
InLine(p) == Contains(gate[call[p].key], p)     \* variant: does not await its turn

OwnsGate(p) == gate[call[p].key] # <<>> /\ Head(gate[call[p].key]) = p

ReleaseGate(p) == gate' = [gate EXCEPT ![call[p].key] = Tail(@)]

\* The call returns and gives the gate to the next in line.
Return(p) ==
    /\ pc' = [pc EXCEPT ![p] = "idle"]
    /\ call' = [call EXCEPT ![p] = NoCall]
    /\ ReleaseGate(p)

\* acquireOperation: join the tail of the key's queue.
Start(p, c) ==
    /\ pc[p] = "idle"
    /\ call' = [call EXCEPT ![p] = c]
    /\ pc' = [pc EXCEPT ![p] = "queued"]
    /\ gate' = [gate EXCEPT ![c.key] = Append(@, p)]
    /\ UNCHANGED <<store, void, committed>>

(***************************************************************************)
(* recoverFailedRollbackUnlocked: every call begins with it.               *)
(***************************************************************************)
Recover(p) ==
    LET k == call[p].key
        o == recovery[k] IN
    /\ pc[p] = "queued" /\ OwnsGate(p)
    /\ \/ /\ poisoned
          /\ Return(p)
          /\ UNCHANGED <<store, void, committed>>
       \/ /\ ~poisoned /\ o = "none"
          /\ pc' = [pc EXCEPT ![p] = "ready"]
          /\ UNCHANGED <<store, gate, call, void, committed>>
       \/ /\ ~poisoned /\ o # "none"
          /\ \E ok \in BOOLEAN :
               /\ SdkForget(o, k, ok)
               /\ IF ok
                  THEN /\ recovery' = [recovery EXCEPT ![k] = "none"]
                       /\ hot' = WithoutHot(k, o)
                       /\ pc' = [pc EXCEPT ![p] = "ready"]
                       /\ UNCHANGED <<gate, call>>
                  ELSE /\ Return(p)
                       /\ UNCHANGED <<recovery, hot>>
          /\ UNCHANGED <<poisoned, void, committed>>

(***************************************************************************)
(* lookup                                                                  *)
(***************************************************************************)
LookupUnlocked(p) ==
    LET k == call[p].key IN
    /\ pc[p] = "ready" /\ call[p].kind = "lookup"
    /\ \E okO, okA \in BOOLEAN :
        \/ \* An overloaded marker wins; a dual accepted marker is forgotten.
           /\ Found("overloaded", k, okO)
           /\ PutHot(k, "overloaded")
           /\ IF Found("accepted", k, okA)
              THEN \E okF \in BOOLEAN :
                     /\ mem' = [mem EXCEPT !["overloaded"] = @ \union {k}, !["accepted"] = @ \ {k}]
                     /\ disk' = IF okF THEN [disk EXCEPT !["accepted"] = @ \ {k}] ELSE disk
                     /\ committed' = [committed EXCEPT ![k] = @ \ {"accepted"}]
              ELSE /\ mem' = [mem EXCEPT !["overloaded"] = @ \union {k}]
                   /\ UNCHANGED <<disk, committed>>
           /\ Return(p)
           /\ found' = {<<k, "overloaded">>}
        \/ /\ DiskError("overloaded", k, okO)
           /\ Return(p)
           /\ found' = {}
           /\ UNCHANGED <<mem, disk, hot, committed>>
        \/ /\ okO /\ ~Found("overloaded", k, okO)
           /\ IF Found("accepted", k, okA)
              THEN /\ PutHot(k, "accepted")
                   /\ mem' = [mem EXCEPT !["accepted"] = @ \union {k}]
                   /\ found' = {<<k, "accepted">>}
              ELSE /\ found' = {}
                   /\ UNCHANGED <<mem, hot>>
           /\ Return(p)
           /\ UNCHANGED <<disk, committed>>
    /\ UNCHANGED <<recovery, poisoned, void>>

(***************************************************************************)
(* record                                                                  *)
(***************************************************************************)
\* The optional replaceOpposite step: fail closed if the opposite may remain.
Replace(p) ==
    LET k == call[p].key
        o == Opposite(call[p].outcome) IN
    /\ pc[p] = "ready" /\ call[p].kind = "record"
    /\ IF call[p].replaceOpposite
       THEN \E ok \in BOOLEAN :
              /\ SdkForget(o, k, ok)
              /\ committed' = [committed EXCEPT ![k] = @ \ {o}]
              /\ IF ok
                 THEN /\ hot' = [hot EXCEPT ![k] = "none"]
                      /\ pc' = [pc EXCEPT ![p] = "check"]
                      /\ UNCHANGED <<gate, call>>
                 ELSE /\ Return(p)
                      /\ UNCHANGED hot
       ELSE /\ pc' = [pc EXCEPT ![p] = "check"]
            /\ UNCHANGED <<mem, disk, hot, gate, call, committed>>
    /\ UNCHANGED <<recovery, poisoned, void>>

CheckAndRecordOptimistic(p) ==  \* variant: a memory-only overload is recorded too
    LET k == call[p].key
        o == call[p].outcome IN
    /\ pc[p] = "check"
    /\ \E ok \in BOOLEAN :
        /\ mem' = [mem EXCEPT ![o] = @ \union {k}]
        /\ disk' = IF ok THEN [disk EXCEPT ![o] = @ \union {k}] ELSE disk
        /\ pc' = [pc EXCEPT ![p] = "receipt"]
        /\ call' = [call EXCEPT ![p].fresh = Fresh(o, k, ok)]
    /\ UNCHANGED <<hot, recovery, poisoned, gate, void, committed>>

\* checkAndRecord.  A disk error leaves a memory-only marker: good enough for an
\* ACK, never for a rejection, so an overloaded one is forgotten again.
CheckAndRecord(p) ==
    LET k == call[p].key
        o == call[p].outcome IN
    /\ pc[p] = "check"
    /\ \E ok \in BOOLEAN :
        IF DiskError(o, k, ok) /\ o = "overloaded"
        THEN \E okF \in BOOLEAN :
               /\ SdkForget(o, k, okF)
               /\ hot' = WithoutHot(k, o)
               /\ committed' = [committed EXCEPT ![k] = @ \ {o}]
               /\ Return(p)
        ELSE /\ mem' = [mem EXCEPT ![o] = @ \union {k}]
             /\ disk' = IF DiskError(o, k, ok) \/ k \in mem[o] THEN disk
                        ELSE [disk EXCEPT ![o] = @ \union {k}]
             /\ pc' = [pc EXCEPT ![p] = "receipt"]
             /\ call' = [call EXCEPT ![p].fresh = Fresh(o, k, ok)]
             /\ UNCHANGED <<hot, gate, committed>>
    /\ UNCHANGED <<recovery, poisoned, void>>

\* receipt.commit
Commit(p) ==
    LET k == call[p].key
        o == call[p].outcome IN
    /\ pc[p] = "receipt"
    /\ PutHot(k, o)
    /\ void' = [void EXCEPT ![k] = @ \ {o}]
    /\ committed' = IF k \in mem[o] THEN [committed EXCEPT ![k] = @ \union {o}] ELSE committed
    /\ Return(p)
    /\ UNCHANGED <<mem, disk, recovery, poisoned>>

RememberFailedRollbackEvicting(k, o) ==     \* variant: makes room at the limit
    /\ hot' = WithoutHot(k, o)
    /\ IF Cardinality(HotKeys(recovery)) < MaxRecovery
       THEN recovery' = [recovery EXCEPT ![k] = o]
       ELSE \E v \in HotKeys(recovery) :
                recovery' = [recovery EXCEPT ![v] = "none", ![k] = o]
    /\ UNCHANGED poisoned

\* rememberFailedRollback: quarantine the marker, or poison the whole store.
RememberFailedRollback(k, o) ==
    /\ hot' = WithoutHot(k, o)
    /\ \/ /\ poisoned \/ recovery[k] # "none"
          /\ UNCHANGED <<recovery, poisoned>>
       \/ /\ ~poisoned /\ recovery[k] = "none"
          /\ IF Cardinality(HotKeys(recovery)) < MaxRecovery
             THEN recovery' = [recovery EXCEPT ![k] = o] /\ UNCHANGED poisoned
             ELSE poisoned' = TRUE /\ UNCHANGED recovery

\* receipt.rollback: only the call that created the marker may delete it.
Rollback(p) ==
    LET k == call[p].key
        o == call[p].outcome IN
    /\ pc[p] = "receipt"
    /\ IF call[p].fresh
       THEN /\ \E ok \in BOOLEAN :
                 /\ SdkForget(o, k, ok)
                 /\ IF ok THEN hot' = WithoutHot(k, o) /\ UNCHANGED <<recovery, poisoned>>
                          ELSE RememberFailedRollback(k, o)
            /\ void' = [void EXCEPT ![k] = @ \union {o}]
       ELSE UNCHANGED <<mem, disk, hot, recovery, poisoned, void>>
    /\ Return(p)
    /\ UNCHANGED committed

(***************************************************************************)
(* forget                                                                  *)
(***************************************************************************)
Forget(p) ==
    LET k == call[p].key
        o == call[p].outcome IN
    /\ pc[p] = "ready" /\ call[p].kind = "forget"
    /\ hot' = WithoutHot(k, o)
    /\ \E ok \in BOOLEAN : SdkForget(o, k, ok)
    /\ committed' = [committed EXCEPT ![k] = @ \ {o}]
    /\ Return(p)
    /\ UNCHANGED <<recovery, poisoned, void>>

(***************************************************************************)
(* The environment.                                                        *)
(***************************************************************************)
\* The SDK's memory layer is bounded (memoryMaxSize) and may drop any marker.
EvictMemory(o, k) ==
    /\ k \in mem[o]
    /\ mem' = [mem EXCEPT ![o] = @ \ {k}]
    /\ committed' = [committed EXCEPT ![k] = @ \ {o}]
    /\ UNCHANGED <<disk, hot, recovery, poisoned, gate, call, pc, void>>

\* A process restart keeps only the disk.  The history starts afresh: a marker
\* whose work was lost in the crash is the documented at-most-once window.
Crash ==
    /\ mem' = [o \in Outcome |-> {}]
    /\ hot' = [k \in Key |-> "none"]
    /\ recovery' = [k \in Key |-> "none"]
    /\ poisoned' = FALSE
    /\ gate' = [k \in Key |-> <<>>]
    /\ pc' = [p \in Op |-> "idle"]
    /\ call' = [p \in Op |-> NoCall]
    /\ void' = [k \in Key |-> {}]
    /\ committed' = [k \in Key |-> {}]
    /\ UNCHANGED disk

\* `found' is set by a lookup and lives for one step.
OpStep(p) ==
    \/ LookupUnlocked(p)
    \/ /\ Recover(p) \/ Replace(p) \/ CheckAndRecord(p) \/ Commit(p) \/ Rollback(p) \/ Forget(p)
       /\ found' = {}

EnvStep ==
    /\ \/ \E p \in Op, c \in Calls : Start(p, c)
       \/ \E o \in Outcome, k \in Key : EvictMemory(o, k)
       \/ Crash
    /\ found' = {}

Next == EnvStep \/ \E p \in Op : OpStep(p)

Spec == Init /\ [][Next]_vars

-----------------------------------------------------------------------------
StoreTypeOK ==
    /\ mem \in [Outcome -> SUBSET Key]
    /\ disk \in [Outcome -> SUBSET Key]
    /\ hot \in [Key -> Outcome \union {"none"}]
    /\ recovery \in [Key -> Outcome \union {"none"}]
    /\ poisoned \in BOOLEAN
    /\ found \subseteq Key \X Outcome
    /\ void \in [Key -> SUBSET Outcome]
    /\ committed \in [Key -> SUBSET Outcome]

CallTypeOK ==
    /\ gate \in [Key -> Seq(Op)]
    /\ call \in [Op -> Call \union {NoCall}]
    /\ pc \in [Op -> Pc]
    /\ \A p \in Op : pc[p] # "idle" => call[p] \in Call

\* Type correctness; in particular an op that is not idle has a call.
TypeOK == StoreTypeOK /\ CallTypeOK

\* At most one call per key is past the gate, from its first store access to the
\* settlement of its receipt, so cleanup of one generation of a marker never
\* overlaps with the creation of the next.
GateExclusive ==
    \A p, q \in Op :
        /\ pc[p] \notin {"idle", "queued"}
        /\ pc[q] \notin {"idle", "queued"}
        /\ call[p].key = call[q].key
        => p = q

\* A synchronous peek never shows an outcome whose marker was rolled back: the
\* debouncer would ACK or reject a retry of a message that was never dispatched.
PeekSound == \A k \in Key : Peek(k) # "none" => Peek(k) \notin void[k]

\* Nor does a cold lookup rediscover it, even though the disk refused to delete
\* the marker, the quarantine is full, or the hot cache has turned over.
NoRediscovery == \A f \in found : f[2] \notin void[f[1]]

\* A marker whose write was rolled back stays invisible to both.
NeverShown == PeekSound /\ NoRediscovery

\* An overload shown by the cache or by SDK memory is on disk: a rejection is
\* terminal for the client, so it must survive a restart of this process.
OverloadedIsDurable ==
    \A k \in Key :
        (hot[k] = "overloaded" \/ k \in mem["overloaded"]) => k \in disk["overloaded"]

\* A committed outcome stays recorded until it is replaced or forgotten: no
\* follower's rollback takes it away.
CommittedSurvives ==
    \A k \in Key : \A o \in committed[k] : k \in mem[o]

\* A rejection that the process shows outlives it, and no rollback takes away what
\* the process has committed.
AnswersLast == OverloadedIsDurable /\ CommittedSurvives

=============================================================================
