----------------------------- MODULE Migration -----------------------------
(***************************************************************************)
(* Migration of an account's v1 files to the v2 files of one tuple         *)
(* (packages/plugin/src/legacy-storage-migration.ts).                      *)
(*                                                                         *)
(* The v1 directory of an account names no tuple: its credential proves    *)
(* which tuple owns it, and with it the conversation keys.  A tuple whose  *)
(* configuration names an exact credential path brings the proof from      *)
(* there.  Processes run at the same time over one file system, for one    *)
(* tuple or for several; each may crash between two system calls, and a    *)
(* later one resumes from what it finds.  Inspection is one step: what it  *)
(* read is checked again after the claim.                                  *)
(***************************************************************************)
EXTENDS Naturals, FiniteSets

CONSTANTS
    Proc,           \* processes, by pid, from 1
    Tuple,          \* tuples (scopes) of the account
    TupleOf(_),     \* the tuple a process serves
    Preserve        \* processes of an offline rotation: ambiguous keys are left alone

VARIABLES
    legacy,     \* the v1 directory: [dir, cred, keys]; cred: none, bad or a tuple
    mutex,      \* the pid in the account's mutex file, 0 when there is none
    aside,      \* keys set aside as ambiguous
    tup,        \* each tuple's claim directory and v2 files
    proc        \* each process: pc, mode, what it inspected and whether that was archived
vars == <<legacy, mutex, aside, tup, proc>>

NoDir == [dir |-> FALSE, cred |-> 0, keys |-> "none"]
Bad == 99       \* a credential that cannot be read as any tuple's
\* What a tuple is to publish for keys that are there, unreadable or absent
Adopts(k) == IF k = "K" THEN "K" ELSE "empty"

Init ==
    /\ legacy \in {NoDir} \cup [dir : {TRUE}, cred : Tuple \cup {0, Bad}, keys : {"none", "bad", "K"}]
    /\ mutex = 0 /\ aside = FALSE
    \* cred: none, old (v1 content at the exact path) or v2; meta and arch: the journal
    \* and the archive of an exact source
    /\ \E exact \in SUBSET Tuple :
          tup = [s \in Tuple |-> [claimed |-> FALSE, claim |-> 0, src |-> NoDir, done |-> "no",
                    cred |-> IF s \in exact THEN "old" ELSE "none", keys |-> "none",
                    meta |-> FALSE, arch |-> FALSE]]
    /\ proc = [p \in Proc |-> [pc |-> "new", mode |-> "none", seen |-> NoDir, old |-> FALSE, keys |-> "none"]]

T(p) == tup[TupleOf(p)]
Alive(p) == proc[p].pc # "dead"
At(p, pc) == proc[p].pc = pc
Goto(p, pc) == proc' = [proc EXCEPT ![p].pc = pc]
\* StorageDocumentError: the process lives on, and may be asked again.
Fail(p) == Goto(p, "failed")
Same == UNCHANGED <<legacy, mutex, aside, tup>>

(***************************************************************************)
(* migrateLegacyTupleState up to the claim.                                *)
(***************************************************************************)
Plan(p, mode, seen, keys) ==
    proc' = [proc EXCEPT ![p] = [pc |-> "mutex", mode |-> mode, seen |-> seen, old |-> T(p).src.dir, keys |-> keys]]
OwnedByOtherIgnored(s) == FALSE      \* variant: another tuple's credential proves nothing
\* inspectLegacyCredential
OwnedByOther(s) == legacy.cred \in Tuple \ {s}
\* assertDestinationsCompatible
Compatible(t, k) == t.cred \in {"none", "v2"} /\ t.keys \in {"none", Adopts(k)}
InspectLegacy(p) ==
    LET s == TupleOf(p) IN
    IF OwnedByOther(s) THEN Goto(p, "done")          \* owned-by-other
    ELSE IF legacy.cred = s
    THEN IF Compatible(T(p), legacy.keys)
         THEN Plan(p, "move", legacy, Adopts(legacy.keys)) ELSE Fail(p)
    ELSE IF legacy.keys = "none" THEN Goto(p, "done")            \* not-needed
    ELSE IF p \in Preserve \/ T(p).keys = "K" THEN Fail(p)
    ELSE Plan(p, "setAside", legacy, "empty")
\* inspectLegacySourceDirectory: from the archive once it was moved there
LegacySource(t) == IF t.src.dir THEN t.src ELSE legacy
\* inspectExactLegacyCredential: the archive, or the live file before there is one
ExactOwned(t) == t.arch \/ t.cred = "old"
\* migrateExactCredentialSource up to the claim: the v1 directory may hold no
\* credential, or one of the same tuple.
InspectExact(p) ==
    LET t == T(p)
        from == LegacySource(t)
    IN  IF /\ t.arch => t.meta
           /\ ExactOwned(t)
           /\ from.cred \in {0, TupleOf(p)}
           /\ t.keys \in {"none", Adopts(from.keys)}
        THEN Plan(p, "exact", from, Adopts(from.keys)) ELSE Fail(p)
\* readCompletionFile, verifyExistingDestinations
Completed(t) == t.done # "no"
Inspect(p) ==
    /\ At(p, "new")
    /\ IF Completed(T(p)) THEN Goto(p, "done")
       ELSE IF T(p).meta \/ ExactOwned(T(p)) THEN InspectExact(p)
       ELSE IF T(p).src.dir THEN Plan(p, "resume", T(p).src, Adopts(T(p).src.keys))
       ELSE InspectLegacy(p)
    /\ Same

(***************************************************************************)
(* withAccountMutex, claimMigrationForAccount.                             *)
(***************************************************************************)
\* acquireAccountMutex: the file is created or its owner looked at.
AcquireMutex(p) ==
    /\ At(p, "mutex")
    /\ IF mutex = 0 THEN mutex' = p /\ Goto(p, "held")
       ELSE UNCHANGED mutex /\ IF Alive(mutex) THEN Fail(p) ELSE Goto(p, "stale")
    /\ UNCHANGED <<legacy, aside, tup>>
\* What is at the path by now is moved away, whoever owns it.
ArchiveStaleMutex(p) ==
    /\ At(p, "stale")
    /\ mutex' = 0
    /\ Goto(p, "mutex")
    /\ UNCHANGED <<legacy, aside, tup>>
\* assertNoLiveForeignClaim
ForeignClaim(s) == \E o \in Tuple \ {s} : tup[o].claimed /\ tup[o].done = "no"
\* claimMigration: the claim of a dead process is taken over.
Claim(p) ==
    LET s == TupleOf(p)
        free == T(p).claim \in {0, p} \/ ~Alive(T(p).claim)
    IN  /\ At(p, "held") /\ proc[p].mode # "setAside"
        /\ IF ForeignClaim(s) THEN UNCHANGED tup /\ Goto(p, "unlockFail")
           ELSE /\ tup' = [tup EXCEPT ![s].claimed = TRUE, ![s].claim = IF free THEN p ELSE @]
                /\ Goto(p, IF free THEN "unlock" ELSE "unlockFail")
        /\ UNCHANGED <<legacy, mutex, aside>>
\* releaseAccountMutex: throws when the file is no longer this process's.
ReleaseMutex(p) ==
    /\ proc[p].pc \in {"unlock", "unlockFail"}
    /\ mutex' = IF mutex = p THEN 0 ELSE mutex
    /\ IF mutex # p \/ At(p, "unlockFail") THEN Fail(p)
       ELSE Goto(p, IF proc[p].mode = "setAside" THEN "done" ELSE "claimed")
    /\ UNCHANGED <<legacy, aside, tup>>

(***************************************************************************)
(* Ambiguous keys: set aside under the mutex, and an empty v2 store.       *)
(***************************************************************************)
SetAside(p) ==
    /\ At(p, "held") /\ proc[p].mode = "setAside"
    /\ IF ForeignClaim(TupleOf(p)) \/ legacy # proc[p].seen
       THEN Goto(p, "unlockFail") /\ UNCHANGED <<legacy, aside>>
       ELSE /\ legacy' = [legacy EXCEPT !.keys = "none"]
            /\ aside' = (aside \/ legacy.keys = "K")
            /\ Goto(p, "empty")
    /\ UNCHANGED <<mutex, tup>>
\* publishEmptyConversationStore
PublishEmpty(p) ==
    /\ At(p, "empty")
    /\ tup' = [tup EXCEPT ![TupleOf(p)].keys = IF @ = "none" THEN "empty" ELSE @]
    /\ Goto(p, IF T(p).keys = "K" THEN "unlockFail" ELSE "unlock")
    /\ UNCHANGED <<legacy, mutex, aside>>

(***************************************************************************)
(* After the claim.                                                        *)
(***************************************************************************)
\* publishExactSourceFile
PublishJournal(p) ==
    /\ At(p, "claimed") /\ proc[p].mode = "exact"
    /\ IF proc[p].seen.dir /\ ~proc[p].old /\ legacy # proc[p].seen THEN Fail(p) /\ UNCHANGED tup
       ELSE tup' = [tup EXCEPT ![TupleOf(p)].meta = TRUE] /\ Goto(p, "archive")
    /\ UNCHANGED <<legacy, mutex, aside>>
\* assertLiveExactSource
LiveExact(t) == t.cred = "old"
\* archiveExactCredential: a link first, and only then is the live name removed.
ArchiveExact(p) ==
    /\ At(p, "archive")
    /\ IF T(p).arch THEN Goto(p, "unlink") /\ UNCHANGED tup
       ELSE IF ~LiveExact(T(p))
       THEN Fail(p) /\ tup' = [tup EXCEPT ![TupleOf(p)].meta = FALSE]
       ELSE tup' = [tup EXCEPT ![TupleOf(p)].arch = TRUE] /\ Goto(p, "unlink")
    /\ UNCHANGED <<legacy, mutex, aside>>
UnlinkExact(p) ==
    /\ At(p, "unlink")
    /\ tup' = [tup EXCEPT ![TupleOf(p)].cred = IF @ = "old" THEN "none" ELSE @]
    /\ Goto(p, "moving")
    /\ UNCHANGED <<legacy, mutex, aside>>
\* assertLegacySourceAtPath: what was inspected is still what is there.
MoveIsSafe(p) == legacy = proc[p].seen
\* The v1 directory becomes the claim's source, in one rename.
MoveSource(p) ==
    LET s == TupleOf(p)
        rename == IF proc[p].mode = "exact" THEN proc[p].seen.dir /\ ~proc[p].old ELSE ~T(p).src.dir
    IN  /\ At(p, "moving") \/ (At(p, "claimed") /\ proc[p].mode \in {"move", "resume"})
        /\ IF rename /\ ~(legacy.dir /\ MoveIsSafe(p)) THEN Fail(p) /\ UNCHANGED <<legacy, tup>>
           ELSE /\ tup' = IF rename THEN [tup EXCEPT ![s].src = legacy] ELSE tup
                /\ legacy' = IF rename THEN NoDir ELSE legacy
                /\ Goto(p, "credential")
        /\ UNCHANGED <<mutex, aside>>
\* migrateProvenArchive reads the archive again
Proven(p) == T(p).src.cred = TupleOf(p) /\ (proc[p].mode = "move" => T(p).src = proc[p].seen)
\* publishCredential
PublishCredential(p) ==
    LET exact == proc[p].mode = "exact"
    IN  /\ At(p, "credential")
        /\ IF (~exact /\ ~Proven(p)) \/ T(p).cred = "old" THEN Fail(p) /\ UNCHANGED tup
           ELSE /\ tup' = [tup EXCEPT ![TupleOf(p)].cred = "v2"]
                /\ proc' = [proc EXCEPT ![p].pc = "keys", ![p].keys = IF exact THEN @ ELSE Adopts(T(p).src.keys)]
        /\ UNCHANGED <<legacy, mutex, aside>>
\* publishConversationKeys: never over other keys
PublishKeys(p) ==
    /\ At(p, "keys")
    /\ tup' = [tup EXCEPT ![TupleOf(p)].keys = IF @ = "none" THEN proc[p].keys ELSE @]
    /\ IF T(p).keys \in {"none", proc[p].keys} THEN Goto(p, "verify") ELSE Fail(p)
    /\ UNCHANGED <<legacy, mutex, aside>>
\* verifyMigratedDestinations
Verified(p) == T(p).cred = "v2" /\ T(p).keys = proc[p].keys
\* The completion marker, and with it the result.
Complete(p) ==
    /\ At(p, "verify")
    /\ IF Verified(p)
       THEN /\ tup' = [tup EXCEPT ![TupleOf(p)].done = IF proc[p].keys = "K" THEN "migrated" ELSE "fresh"]
            /\ Goto(p, "done")
       ELSE Fail(p) /\ UNCHANGED tup
    /\ UNCHANGED <<legacy, mutex, aside>>

Crash(p) ==
    /\ proc[p].pc \notin {"dead", "new"}
    /\ proc' = [proc EXCEPT ![p] = [pc |-> "dead", mode |-> "none", seen |-> NoDir, old |-> FALSE, keys |-> "none"]]
    /\ Same
\* The account is started again in the same process.
Again(p) ==
    /\ At(p, "failed")
    /\ proc' = [proc EXCEPT ![p] = [pc |-> "new", mode |-> "none", seen |-> NoDir, old |-> FALSE, keys |-> "none"]]
    /\ Same

Next == \E p \in Proc :
    \/ Inspect(p) \/ AcquireMutex(p) \/ ArchiveStaleMutex(p) \/ Claim(p) \/ ReleaseMutex(p)
    \/ SetAside(p) \/ PublishEmpty(p) \/ PublishJournal(p) \/ ArchiveExact(p) \/ UnlinkExact(p)
    \/ MoveSource(p) \/ PublishCredential(p) \/ PublishKeys(p) \/ Complete(p) \/ Crash(p) \/ Again(p)
Spec == Init /\ [][Next]_vars

-----------------------------------------------------------------------------
\* Over any number of processes, crashes and resumed runs: keys whose directory
\* proves a tuple are never set aside, and no other store of that tuple is ever
\* published; keys are adopted by one tuple at most, and not once they were set
\* aside; a tuple's proof of identity is on disk until its v2 credential is; and a
\* completed migration has published what its source held.
MigrationKeeps ==
    /\ \A s \in Tuple :
          LET t == tup[s]
              from == LegacySource(t)
          IN  /\ from.cred = s /\ from.keys = "K" => t.keys \in {"none", "K"}
              /\ t.keys = "K" => t.src.keys = "K" /\ ~aside
              /\ t.keys = "K" => \A o \in Tuple \ {s} : tup[o].keys # "K"
              /\ t.meta \/ t.src.cred = s => t.cred # "none" \/ t.arch \/ t.src.cred = s
              /\ t.done # "no" => t.cred = "v2" /\ t.keys = Adopts(t.src.keys)
    /\ aside => /\ legacy.keys # "K" /\ legacy.cred \notin Tuple
                /\ \A s \in Tuple : tup[s].src.keys # "K" /\ tup[s].src.cred # s
=============================================================================
