------------------------------ MODULE Storage ------------------------------
(***************************************************************************)
(* What an account keeps on disk: its conversation keys and their rotation *)
(* (KeyStore), the migration of its legacy files (Migration), and its      *)
(* credentials from configuration to connection (Setup).  They share no    *)
(* state on the questions asked of them, so a behaviour runs one of them,  *)
(* and the state space is the sum of theirs and not the product.           *)
(***************************************************************************)
EXTENDS KeyStore

CONSTANTS
    Proc, Tuple, TupleOf(_), Preserve,
    Raw, Normal(_), Default, Tenant, Saas, Input, Starts, MaxEdits,
    Adder,      \* invocations of channels add
    MaxMinted   \* bound: identity keys they generate

VARIABLES
    part,
    legacy, mutex, aside, tup, proc,
    cfg, env, docs, oldCred, adding, issued, conn, verdict, minted, edits

M == INSTANCE Migration
A == INSTANCE Setup WITH Proc <- Adder, Start <- Starts, MaxKeys <- MaxMinted,
        legacy <- oldCred, proc <- adding, made <- minted

\* No tuple is one of the credential's two other values, and a process serves a tuple.
MigrationConstants ==
    /\ 0 \notin Tuple /\ M!Bad \notin Tuple
    /\ \A p \in Proc : TupleOf(p) \in Tuple
ASSUME MigrationAssumption == MigrationConstants

\* Configurations, as an operator may write them
OrUnset(S) == S \cup {A!Unset}
CredentialConfig == [there : BOOLEAN, mode : {"unset", "enrolled", "static"}, saas : OrUnset(Saas), own : BOOLEAN]
LeafConfig ==
    [there : BOOLEAN, off : BOOLEAN, tenant : OrUnset(Tenant), saas : OrUnset(Saas), cred : CredentialConfig,
     jwt : BOOLEAN]
Given == [tenant : OrUnset(Tenant), saas : OrUnset(Saas)]
AccountConfig == [top : Given, base : LeafConfig, acct : [Raw -> LeafConfig]]
\* An account that is not configured has no settings
Sane(c) == c \in AccountConfig /\ \A i \in Raw : ~c.acct[i].there => c.acct[i] = A!NoLeaf
\* Tenants and base URLs are not "unset" and hold the fallbacks; accounts
\* normalize to accounts; the operator passes, and starts from, what is well formed.
SetupConstants ==
    /\ A!Unset \notin Tenant \cup Saas /\ 1 \in Tenant \cap Saas
    /\ Default \in Raw /\ \A r \in Raw : Normal(r) \in Raw
    /\ Input \subseteq Given
    /\ \A x \in Starts : Sane(x.cfg)
ASSUME SetupAssumption == SetupConstants

migrateVars == <<legacy, mutex, aside, tup, proc>>
addVars == <<cfg, env, docs, oldCred, adding, issued, conn, verdict, minted, edits>>
storageVars == <<part, vars, migrateVars, addVars>>
\* The components that do not run in a behaviour stay in one of their initial states.
StorageInit ==
    /\ part \in {"migrate", "store", "add"}
    /\ M!Init /\ Init /\ A!Init
    /\ part # "migrate" => legacy = M!NoDir /\ \A s \in Tuple : tup[s].cred = "none"
    /\ part # "store" => keys.st = "none" /\ gens.st = "none"
    /\ part # "add" => cfg = (CHOOSE s \in Starts : TRUE).cfg
StorageNext ==
    \/ part = "migrate" /\ M!Next /\ UNCHANGED <<part, vars, addVars>>
    \/ part = "store" /\ Next /\ UNCHANGED <<part, migrateVars, addVars>>
    \/ part = "add" /\ A!Next /\ UNCHANGED <<part, migrateVars, vars>>
StorageSpec == StorageInit /\ [][StorageNext]_storageVars

\* Migration: a credential and its keys end with the tuple that owns them, whole.
MigrationKeeps == part = "migrate" => M!MigrationKeeps
\* Setup: an account is connected with what its own SaaS issued for it.
DialIsBound == part = "add" => A!DialIsBound
\* Setup: what channels add acquired is what the gateway finds, and so is what the
\* diagnoses call in order.
AcquiredIsServed == part = "add" => A!AcquiredIsServed
=============================================================================
