------------------------------ MODULE KeyStore ------------------------------
(***************************************************************************)
(* The conversation keys of a tuple and their offline rotation             *)
(* (packages/plugin/src/conversation-key-store.ts,                         *)
(* offline-conversation-key-rotation.ts, rotation-preflight.ts,            *)
(* rotate-conversation-key-cli.ts).                                        *)
(*                                                                         *)
(* Two documents: the keys, and the generation labels that audit them.     *)
(* One gateway serves from a cache and creates keys; rotation commands     *)
(* replace keys.  Every system call may fail or be the last one of its     *)
(* process.  That the gateway is stopped while a command runs is the       *)
(* operator's obligation (the runbook's first step) and an assumption.     *)
(***************************************************************************)
EXTENDS Naturals, FiniteSets

CONSTANTS
    Peer,
    Cli,        \* invocations of the rotation command
    MaxKeys,    \* entries a document may have
    MaxMade     \* bound: keys made in a behaviour

\* An invocation is not the "no file" value of the lock.
KeyStoreConstants == 0 \notin Cli
ASSUME KeyStoreAssumption == KeyStoreConstants

VARIABLES
    keys, gens, \* the documents on disk: [st, m]; m maps a peer to a key or an epoch, 0 is none
    lock,       \* the invocation named in the rotation lock, 0 when there is no file
    temps,      \* a temporary file of an atomic write was left behind
    gw,         \* the gateway's store: pc, cache, the peer it serves, the candidate keys
    cli,        \* each invocation
    reviewed,   \* target sets that dry runs printed digests of
    made,       \* keys made so far: the last one's number
    handed,     \* the key each peer's devices hold
    retired,    \* peers and the keys that a rotation replaced
    rot,        \* the epoch the peer's key was rotated under, 0 for one that was created
    future      \* documents that a newer release wrote, or (keys) another tuple
vars == <<keys, gens, lock, temps, gw, cli, reviewed, made, handed, retired, rot, future>>

None == [q \in Peer |-> 0]
Of(m) == {q \in Peer : m[q] # 0}
\* compactStaleGenerations
Compact(g, k) == [q \in Peer |-> IF k[q] # 0 THEN g[q] ELSE 0]
\* readStoreFile, parseConversationKeyDocument: bad is ordinary corruption, new is
\* version-too-new, foreign any failure of the storage identity
Readable(doc) == doc.st \in {"none", "ok"}
\* isVersionTooNew: a newer release wrote the document
Unsupported(doc) == doc.st = "new"
\* A missing document is empty, and so is a sidecar that is only read for the audit.
Content(doc) == IF doc.st = "ok" THEN doc.m ELSE None
\* readFresh, readKeysOrEmpty
Fresh == Content(keys)
\* parseConversationKeyGenerationsDocument
Labels == Content(gens)
\* What atomicWritePrivateFile leaves when it returns
Written(m) == [st |-> "ok", m |-> m]
\* rotationTargetDigest commits to the set of peers
Digest(m) == Of(m)

One == [q \in Peer |-> 1]
Cleared(pc, out) ==
    [pc |-> pc, all |-> FALSE, peer |-> 0, digest |-> {}, before |-> None, k |-> None, g |-> None, out |-> out]
Init ==
    /\ keys \in {[st |-> s, m |-> None] : s \in {"none", "ok", "bad", "new", "foreign"}} \cup {Written(One)}
    /\ gens \in {[st |-> s, m |-> None] : s \in {"none", "ok", "bad", "new"}} \cup {Written(One)}
    /\ handed = keys.m /\ made = 1
    /\ lock = 0 /\ temps = FALSE
    /\ gw = [pc |-> "down", loaded |-> FALSE, cache |-> None, peer |-> 0, next |-> None]
    /\ cli = [c \in Cli |-> Cleared("idle", "none")]
    /\ reviewed = {} /\ retired = {} /\ rot = None
    /\ future = {x \in {"keys", "gens"} : (IF x = "keys" THEN keys ELSE gens).st \in {"new", "foreign"}}

Busy(c) == cli[c].pc \notin {"idle", "done", "dead"}
Disk == <<keys, gens, lock, temps>>
Ghosts == <<reviewed, handed, retired, rot>>

(***************************************************************************)
(* The gateway.                                                            *)
(***************************************************************************)
NoFutureDocuments == ~Unsupported(keys) /\ ~Unsupported(gens)
\* createNatsAccountRuntime probes both documents: assertNoFutureDocuments
Start ==
    /\ gw.pc = "down" /\ \A c \in Cli : ~Busy(c)
    /\ NoFutureDocuments
    /\ gw' = [gw EXCEPT !.pc = "up", !.loaded = FALSE, !.cache = None]
    /\ UNCHANGED <<cli, made, future, Disk, Ghosts>>
\* A stop or a crash: the cache goes, and a write under way may leave its temporary file.
Down ==
    /\ gw.pc # "down"
    /\ gw' = [gw EXCEPT !.pc = "down", !.loaded = FALSE, !.cache = None, !.peer = 0, !.next = None]
    /\ temps' \in {temps, temps \/ gw.pc \in {"empty", "reset", "persist", "label"}}
    /\ UNCHANGED <<keys, gens, lock, cli, made, future, Ghosts>>

Gw(pc) == gw' = [gw EXCEPT !.pc = pc]
QuarantinesAnything(doc) == ~Readable(doc)       \* variant: any failure to parse is corruption
\* The failure that load treats as ordinary corruption
Quarantines(doc) == doc.st = "bad"
\* load
Load(q) ==
    /\ gw.pc = "up" /\ ~gw.loaded /\ ~Unsupported(gens)
    /\ IF Readable(keys)
       THEN gw' = [gw EXCEPT !.loaded = TRUE, !.cache = Fresh, !.pc = "look", !.peer = q]
       ELSE /\ Quarantines(keys)         \* any other failure is the caller's
            /\ gw' = [gw EXCEPT !.pc = "archive", !.peer = q]
    /\ UNCHANGED <<cli, made, future, Disk, Ghosts>>
\* archiveFileNoReplace.  What was in the file is lost to the store from here on.
Archive ==
    /\ gw.pc = "archive"
    /\ \/ Gw("up") /\ UNCHANGED <<keys, handed, rot>>
       \/ /\ keys' = [st |-> "none", m |-> None] /\ handed' = None /\ rot' = None
          /\ gw' = [gw EXCEPT !.pc = "empty", !.loaded = TRUE, !.cache = None]
    /\ UNCHANGED <<gens, lock, temps, cli, made, future, reviewed, retired>>
PersistEmpty ==
    /\ gw.pc = "empty"
    /\ \/ Gw("up") /\ UNCHANGED keys
       \/ Gw("reset") /\ keys' = Written(None)
    /\ UNCHANGED <<gens, lock, temps, cli, made, future, Ghosts>>
\* resetGenerationsAfterKeyQuarantine
ResetGenerations ==
    /\ gw.pc = "reset" /\ Gw("look")
    /\ gens' \in {gens, Written(None)}
    /\ UNCHANGED <<keys, lock, temps, cli, made, future, Ghosts>>

\* getOrCreate with the cache loaded: a key from it, or a fresh look at the disk
GetOrCreate(q) ==
    /\ gw.loaded /\ (gw.pc = "up" \/ (gw.pc = "look" /\ gw.peer = q))
    /\ IF gw.cache[q] # 0
       THEN Gw("up") /\ handed' = [handed EXCEPT ![q] = gw.cache[q]] /\ UNCHANGED made
       ELSE IF Cardinality(Of(gw.cache)) >= MaxKeys \/ ~Readable(keys)
       THEN Gw("up") /\ UNCHANGED <<handed, made>>
       ELSE LET fresh == Fresh IN
            IF fresh[q] # 0
            THEN /\ gw' = [gw EXCEPT !.pc = "up", !.cache = fresh]
                 /\ handed' = [handed EXCEPT ![q] = fresh[q]] /\ UNCHANGED made
            ELSE IF Cardinality(Of(fresh)) >= MaxKeys
            THEN gw' = [gw EXCEPT !.pc = "up", !.cache = fresh] /\ UNCHANGED <<handed, made>>
            ELSE /\ made < MaxMade /\ made' = made + 1 /\ UNCHANGED handed
                 /\ gw' = [gw EXCEPT !.pc = "persist", !.peer = q,
                             !.next = [fresh EXCEPT ![q] = made + 1]]
    /\ UNCHANGED <<cli, future, Disk, reviewed, retired, rot>>
Persist ==
    /\ gw.pc = "persist"
    /\ \/ Gw("up") /\ UNCHANGED <<keys, rot>>
       \/ /\ keys' = Written(gw.next) /\ rot' = [rot EXCEPT ![gw.peer] = 0]
          /\ gw' = [gw EXCEPT !.pc = "label", !.cache = gw.next, !.next = None]
    /\ UNCHANGED <<gens, lock, temps, cli, made, future, reviewed, handed, retired>>
\* recordInitialGenerationBestEffort, then getOrCreate returns the key
Label ==
    /\ gw.pc = "label" /\ Gw("up")
    /\ handed' = [handed EXCEPT ![gw.peer] = gw.cache[gw.peer]]
    /\ LET compact == Compact(Labels, Fresh) IN
       \/ UNCHANGED gens
       \/ /\ ~Unsupported(gens) /\ Labels[gw.peer] = 0
          /\ Cardinality(Of(compact)) < MaxKeys
          /\ gens' = Written([compact EXCEPT ![gw.peer] = 1])
    /\ UNCHANGED <<keys, lock, temps, cli, made, future, reviewed, retired, rot>>

(***************************************************************************)
(* The rotation command.                                                   *)
(***************************************************************************)
Report(c, out) == cli' = [cli EXCEPT ![c] = Cleared("done", out)]
\* execute: probeLiveTupleWriters unless the operator overrides it, then the target
Refused(ignore) == (temps /\ ~ignore) \/ ~Readable(keys)
\* previewRotation
DryRun(c) ==
    /\ cli[c].pc = "idle" /\ gw.pc = "down"
    /\ IF Refused(FALSE) \/ Of(Fresh) = {}
       THEN UNCHANGED reviewed
       ELSE reviewed' = reviewed \cup {Digest(Fresh)}
    /\ Report(c, "dry")
    /\ UNCHANGED <<gw, made, future, Disk, handed, retired, rot>>
\* assertApplyTargetExists; the operator passes a digest some dry run printed
Apply(c, all, q, digest, ignore) ==
    /\ cli[c].pc = "idle" /\ gw.pc = "down"
    /\ all => digest \in reviewed
    /\ IF Refused(ignore) \/ (IF all THEN Of(Fresh) = {} ELSE Fresh[q] = 0)
       THEN Report(c, "refused")
       ELSE cli' = [cli EXCEPT ![c].pc = "lock", ![c].all = all, ![c].peer = q, ![c].digest = digest]
    /\ UNCHANGED <<gw, made, future, Disk, Ghosts>>
LockIgnored == TRUE      \* variant: a command goes on although the lock file is there
\* acquireRotationLock: any lock file refuses
LockFree == lock = 0
AcquireLock(c) ==
    /\ cli[c].pc = "lock"
    /\ IF LockFree
       THEN lock' = c /\ cli' = [cli EXCEPT ![c].pc = "plan"]
       ELSE Report(c, "refused") /\ UNCHANGED lock
    /\ UNCHANGED <<keys, gens, temps, gw, made, future, Ghosts>>

\* rotate for one peer stops at a sidecar from the future; rotateAccountVerified,
\* whose own readGenerationsAuditOnly swallows every failure, does not.
Allowed(c, cur) ==
    IF cli[c].all
    THEN Of(cur) # {} /\ Digest(cur) = cli[c].digest /\ Cardinality(Of(cur)) <= MaxKeys
    ELSE /\ cur[cli[c].peer] # 0 /\ ~Unsupported(gens)
         /\ LET g == Compact(Labels, cur) IN
            IF g[cli[c].peer] # 0 THEN Cardinality(Of(g)) <= MaxKeys ELSE Cardinality(Of(g)) < MaxKeys
Targets(c, cur) == IF cli[c].all THEN Of(cur) ELSE {cli[c].peer}
\* rotatePeerVerified and rotate, rotateAccountVerified: both candidates in memory
Candidates(c) ==
    /\ cli[c].pc = "plan"
    /\ LET cur == Fresh IN
       IF Readable(keys) /\ Allowed(c, cur)
       THEN /\ made < MaxMade /\ made' = made + 1
            /\ cli' = [cli EXCEPT ![c].pc = "gens", ![c].before = cur,
                         ![c].k = [q \in Peer |-> IF q \in Targets(c, cur) THEN made + 1 ELSE cur[q]],
                         ![c].g = [q \in Peer |-> IF q \in Targets(c, cur) THEN Compact(Labels, cur)[q] + 1
                                                  ELSE Compact(Labels, cur)[q]]]
       ELSE cli' = [cli EXCEPT ![c].pc = "release", ![c].out = "failed"] /\ UNCHANGED made
    /\ UNCHANGED <<gw, future, Disk, Ghosts>>
Gives(c, pc, out) == cli' = [cli EXCEPT ![c].pc = pc, ![c].out = out]
\* persistSerializedGenerations
WriteGens(c) ==
    /\ cli[c].pc = "gens"
    /\ \/ Gives(c, "release", "failed") /\ UNCHANGED gens
       \/ Gives(c, "keys", "none") /\ gens' = Written(cli[c].g)
    /\ UNCHANGED <<keys, lock, temps, gw, made, future, Ghosts>>
\* persistSerializedKeys: the commit
WriteKeys(c) ==
    /\ cli[c].pc = "keys"
    /\ \/ Gives(c, "release", "failed") /\ UNCHANGED <<keys, retired, rot, handed>>
       \/ LET hit == Targets(c, cli[c].before) IN
          /\ Gives(c, "readback", "none")
          /\ keys' = Written(cli[c].k)
          /\ retired' = retired \cup {<<q, keys.m[q]>> : q \in hit}
          /\ rot' = [q \in Peer |-> IF q \in hit THEN cli[c].g[q] ELSE rot[q]]
          \* the devices of a rotated peer register again: the runbook's last step
          /\ handed' = [q \in Peer |-> IF q \in hit THEN 0 ELSE handed[q]]
    /\ UNCHANGED <<gens, lock, temps, gw, made, future, reviewed>>
\* verifyCompleteReadback
Readback(c) ==
    /\ cli[c].pc = "readback"
    /\ Gives(c, "release", IF keys = Written(cli[c].k) /\ gens = Written(cli[c].g) THEN "ok" ELSE "unverified")
    /\ UNCHANGED <<gw, made, future, Disk, Ghosts>>
\* readRotationLock: the file has this invocation's token
Ours(c) == lock = c
\* releaseRotationLock, and the outcome with it
ReleaseLock(c) ==
    /\ cli[c].pc = "release"
    /\ \/ Ours(c) /\ lock' = 0 /\ Report(c, cli[c].out)
       \/ Report(c, "cleanup") /\ UNCHANGED lock          \* not ours, or unlink failed
    /\ UNCHANGED <<keys, gens, temps, gw, made, future, Ghosts>>
CrashCli(c) ==
    /\ Busy(c) /\ cli' = [cli EXCEPT ![c] = Cleared("dead", "none")]
    /\ temps' \in {temps, temps \/ cli[c].pc \in {"gens", "keys"}}
    /\ UNCHANGED <<keys, gens, lock, gw, made, future, Ghosts>>
\* The operator inspects what was left behind, with every process stopped.
Inspected ==
    /\ gw.pc = "down" /\ \A c \in Cli : ~Busy(c)
    /\ lock # 0 \/ temps
    /\ lock' = 0 /\ temps' = FALSE
    /\ UNCHANGED <<keys, gens, gw, cli, made, future, Ghosts>>

Gateway ==
    \/ Start \/ Down \/ Archive \/ PersistEmpty \/ ResetGenerations \/ Persist \/ Label
    \/ \E q \in Peer : Load(q) \/ GetOrCreate(q)
\* parseInvocation: one peer, or all of them with a digest
Invoked(c) ==
    \E q \in Peer, ignore \in BOOLEAN :
        Apply(c, FALSE, q, {}, ignore) \/ \E digest \in reviewed : Apply(c, TRUE, q, digest, ignore)
Command(c) ==
    \/ DryRun(c) \/ AcquireLock(c) \/ Candidates(c) \/ WriteGens(c) \/ WriteKeys(c)
    \/ Readback(c) \/ ReleaseLock(c) \/ CrashCli(c) \/ Invoked(c)
Next == Gateway \/ Inspected \/ \E c \in Cli : Command(c)
Spec == Init /\ [][Next]_vars

(***************************************************************************)
(* Properties.                                                             *)
(***************************************************************************)
\* A key that a rotation replaced is in no document and in no cache again, whatever
\* process dies between whatever two writes; the key that replaced it has its
\* generation on record, so that the sidecar may be ahead and never behind; and the
\* readback of a command that holds the lock finds what the command wrote
\* (conversation-key-store.ts:354, rotate-conversation-key-cli.ts:426).
RotationIsFinal ==
    /\ \A q \in Peer : {<<q, keys.m[q]>>, <<q, gw.cache[q]>>} \cap retired = {}
    /\ \A q \in Peer : rot[q] > 0 => Labels[q] >= rot[q]
    /\ \A c \in Cli : cli[c].out # "unverified"
\* A key that a device holds stays the peer's key until a rotation or a quarantine
\* replaces it; no process writes over keys that a newer release or another tuple
\* left; and an account rotation replaces the keys of the reviewed peers, all of them
\* and no others (conversation-key-store.ts:37, rotate-conversation-key-cli.ts:403).
KeysSurvive ==
    /\ \A q \in Peer : handed[q] # 0 => keys.m[q] = handed[q]
    /\ "keys" \in future => keys.st \in {"new", "foreign"}
    /\ \A c \in Cli : cli[c].pc = "release" /\ cli[c].out = "ok" /\ cli[c].all =>
          {q \in Peer : keys.m[q] # cli[c].before[q]} = cli[c].digest
\* Whatever process dies between whatever two writes, a rotation is final for the
\* keys it replaced and touches no others.
KeysAreKept == RotationIsFinal /\ KeysSurvive
=============================================================================
