------------------------------- MODULE Setup -------------------------------
(***************************************************************************)
(* From the configuration of an account to the connection it is served on  *)
(* (packages/plugin/src/account-config.ts, setup.ts, setup-wizard.ts,      *)
(* acquire-credentials.ts, enrollment-client.ts, credential-document.ts,   *)
(* nats-credential-source.ts, consume-credentials.ts, multiplex.ts,        *)
(* doctor.ts, preflight.ts).                                               *)
(*                                                                         *)
(* `channels add` writes the configuration, resolves from it, its own      *)
(* input and the environment which credentials the account needs, and      *)
(* enrolls for them; the gateway resolves the same by its own path and     *)
(* dials.  An operator edits the configuration, the environment and the    *)
(* files meanwhile.  Migration is the module of that name; here it is one  *)
(* step that upgrades a legacy credential which names the tuple.           *)
(***************************************************************************)
EXTENDS Naturals, FiniteSets

CONSTANTS
    Raw,            \* account keys a configuration may have
    Normal(_),      \* the host's normalizeAccountId
    Default,        \* the account id of a flat configuration
    Tenant, Saas,   \* 1 is "default-tenant" and the fallback base URL
    Proc,           \* invocations of channels add
    Input,          \* what the operator passes: tenant and base URL, either may be unset
    Start,          \* configurations to start from, and accounts with a legacy credential
    MaxKeys,        \* bound: identity keys generated
    MaxEdits        \* bound: what the operator changes

VARIABLES
    cfg,        \* top level, channel level (base) and account level (acct)
    env,        \* WEBCHANNEL_SAAS_BASE_URL, and whether it holds static NATS credentials
    docs,       \* the credential document of each tuple
    legacy,     \* the legacy credential of each account, from before tuples
    proc,       \* each invocation
    issued,     \* what a SaaS issued: the SaaS, the tuple, the key
    conn,       \* the connection that was made last
    verdict,    \* the account that was found in order last, and by whom
    made, edits
vars == <<cfg, env, docs, legacy, proc, issued, conn, verdict, made, edits>>

Unset == 0
First(a, b) == IF a # Unset THEN a ELSE b
\* nats.credentials; `own`: a credsFile, userJwt or userSeed is in it
NoCred == [there |-> FALSE, mode |-> "unset", saas |-> Unset, own |-> FALSE]
\* `jwt`: the operator pinned an issuer (auth.jwt)
NoLeaf == [there |-> FALSE, off |-> FALSE, tenant |-> Unset, saas |-> Unset, cred |-> NoCred, jwt |-> FALSE]
NoDoc == [st |-> "none", tenant |-> Unset, acct |-> Default, saas |-> Unset, key |-> 0]
NoExp == [tenant |-> Unset, acct |-> Default, saas |-> Unset]
NoConn == [on |-> FALSE, exp |-> NoExp, key |-> 0]
NoVerdict == {}

(***************************************************************************)
(* Resolution of the configuration.                                        *)
(***************************************************************************)
\* mergeAccountConfig: objects merge one level deep, so an account's nats.credentials
\* hides the channel's
Merge(b, o) ==
    [tenant |-> First(o.tenant, b.tenant), saas |-> First(o.saas, b.saas),
     cred |-> IF o.cred.there THEN o.cred ELSE b.cred, jwt |-> o.jwt \/ b.jwt]
\* resolveWebchannelAccountConfig
Account(c, id) == Merge(c.base, c.acct[id])
Named(c) == {i \in Raw : c.acct[i].there}
\* inspectWebchannelAccountIds: keys that collide when normalized are all invalid
Collides(c, id) == \E j \in Named(c) : j # id /\ Normal(j) = Normal(id)
Listed(c) == IF Named(c) = {} THEN {Default} ELSE {i \in Named(c) : ~Collides(c, i)}
Enabled(c, id) == ~c.base.off /\ ~c.acct[id].off
\* resolveAcquisitionIdentity
Identity(c, id) ==
    LET a == Account(c, id)
        top == IF id = Default THEN c.top ELSE [tenant |-> Unset, saas |-> Unset] IN
    [tenant |-> First(a.tenant, First(top.tenant, 1)), saas |-> First(a.saas, top.saas)]
\* resolveEnrolledSaasBaseUrl
Resolve(cred, given, fallback) == First(env.saas, First(cred.saas, First(given, fallback)))
\* parseNatsCredentialMode: all that channels add and the wizard look at
Enrolled(c, id) == Account(c, id).cred.mode # "static"
\* resolveNatsCredentialSource: the gateway and the doctor refuse static credentials
\* wherever they find them
Dialable(c, id) == Enrolled(c, id) /\ ~Account(c, id).cred.own /\ ~env.own
\* planWebchannelAccount and resolveNatsCredentialSource, in the gateway and in the doctor
RuntimeExpects(c, id) ==
    [tenant |-> Identity(c, id).tenant, acct |-> id,
     saas |-> Resolve(Account(c, id).cred, First(Identity(c, id).saas, c.top.saas), 1)]
\* resolveSetupIdentity: what the operator passes comes before what is configured
Given(c, id, in) ==
    [tenant |-> First(in.tenant, Identity(c, id).tenant), saas |-> First(in.saas, Identity(c, id).saas)]
\* afterAccountConfigWritten: no fallback
SetupExpects(c, id, in) ==
    [tenant |-> Given(c, id, in).tenant, acct |-> id,
     saas |-> Resolve(Account(c, id).cred, Given(c, id, in).saas, Unset)]

(***************************************************************************)
(* Credential documents.                                                   *)
(***************************************************************************)
BoundToTuple(exp, doc) ==           \* variant: the binding forgets the SaaS
    doc.tenant = exp.tenant /\ doc.acct = exp.acct
\* inspectCredentialBindingIdentityV2, and the payload against the expectation
Bound(exp, doc) == doc.tenant = exp.tenant /\ doc.acct = exp.acct /\ doc.saas = exp.saas
\* parsePayload: the document has every field, and its private key derives its public one
Whole(doc) == doc.st # "junk"
\* evaluateCredentialDocument; "new" is thrown, the others are a status
Evaluate(exp, doc) ==
    CASE doc.st = "none" -> "absent"
      [] doc.st = "new" -> "new"
      [] ~Whole(doc) -> "invalid"
      [] doc.st = "old" -> "unbound"
      [] OTHER -> IF Bound(exp, doc) THEN "match" ELSE "mismatch"
At(exp) == docs[<<exp.tenant, exp.acct>>]
\* legacyCredentialProvesScope, upgradeLegacyCredentialDocument
Proves(exp, doc) == doc.st = "old" /\ doc.tenant = exp.tenant /\ doc.acct = exp.acct
Upgraded(doc) == [doc EXCEPT !.st = "ok"]
\* createCredentialBindingIdentityV2, around what the SaaS issued
Document(exp, key) == [st |-> "ok", tenant |-> exp.tenant, acct |-> exp.acct, saas |-> exp.saas, key |-> key]
\* loadPersistedCredentialDocument: what migration leaves at the tuple's path
Migrates(exp) == At(exp).st = "none" /\ Proves(exp, legacy[exp.acct])
Found(exp) == IF Migrates(exp) THEN Upgraded(legacy[exp.acct]) ELSE At(exp)
LoadPersisted(exp) ==
    /\ docs' = [docs EXCEPT ![<<exp.tenant, exp.acct>>] = Found(exp)]
    /\ legacy' = IF Migrates(exp) THEN [legacy EXCEPT ![exp.acct] = NoDoc] ELSE legacy

Cleared(pc, out) ==
    [pc |-> pc, id |-> Default, exp |-> NoExp, key |-> 0, out |-> out, fresh |-> FALSE, link |-> "no"]
Init ==
    /\ cfg \in {c.cfg : c \in Start}
    /\ env = [saas |-> Unset, own |-> FALSE]
    /\ docs = [k \in Tenant \X Raw |-> NoDoc]
    /\ legacy \in {[i \in Raw |-> IF i \in c.legacy THEN [st |-> "old", tenant |-> 1, acct |-> i, saas |-> 1, key |-> 0]
                                 ELSE NoDoc] : c \in {x \in Start : x.cfg = cfg}}
    /\ proc = [p \in Proc |-> Cleared("idle", "none")]
    /\ issued = {<<legacy[i].saas, legacy[i].tenant, i, 0>> : i \in {j \in Raw : legacy[j].st = "old"}}
    /\ conn = NoConn
    /\ verdict = NoVerdict
    /\ made = 0 /\ edits = 0

(***************************************************************************)
(* channels add.                                                           *)
(***************************************************************************)
\* buildFullAccountPatch with a base URL, buildAccountPatch without; mergePatch keeps
\* what the patch does not name, in nats.credentials too
Patched(leaf, existing, in) ==
    IF in.saas # Unset
    THEN [leaf EXCEPT !.there = TRUE, !.tenant = First(in.tenant, First(existing.tenant, 1)),
                      !.saas = in.saas, !.jwt = @ \/ existing.jwt,
                      !.cred = [there |-> TRUE, mode |-> "enrolled", saas |-> leaf.cred.saas, own |-> leaf.cred.own]]
    ELSE [leaf EXCEPT !.there = TRUE, !.tenant = First(in.tenant, leaf.tenant)]
\* writeAccountConfig: flat for the default account while no account has a name
Written(c, id, in) ==
    IF id = Default /\ Named(c) = {}
    THEN [c EXCEPT !.base = Patched(c.base, Account(c, id), in)]
    ELSE [c EXCEPT !.acct[id] = Patched(c.acct[id], Account(c, id), in)]
\* Nothing the operator or another invocation does leaves an earlier answer current.
Stale(ps) ==
    [p \in Proc |-> IF ps[p].pc = "done" /\ ps[p].link = "no" THEN Cleared("done", "none")
                    ELSE [ps[p] EXCEPT !.fresh = FALSE]]
\* applyAccountConfig, or the wizard's finalize, and what the hook after it resolves
Apply(p, raw, in) ==
    /\ proc[p].pc = "idle"
    /\ LET id == Normal(raw)
           c == Written(cfg, id, in) IN
       /\ cfg' = c
       /\ proc' = [Stale(proc) EXCEPT ![p] = [Cleared("inspect", "none") EXCEPT
                     !.id = id, !.exp = SetupExpects(c, id, in), !.fresh = TRUE]]
    /\ verdict' = NoVerdict
    /\ UNCHANGED <<env, docs, legacy, issued, conn, made, edits>>
Ends(p, out) ==
    proc' = [proc EXCEPT ![p] = IF out = "kept" THEN [@ EXCEPT !.pc = "done", !.out = out] ELSE Cleared("done", out)]
\* acquireCredentials returned: the preflight runs, on new credentials and on old ones
Probes(p, out) == proc' = [proc EXCEPT ![p].pc = "probe", ![p].out = out, ![p].link = "dialing"]
\* afterAccountConfigWritten up to acquireCredentials
Inspect(p) ==
    /\ proc[p].pc = "inspect"
    /\ IF ~Enrolled(cfg, proc[p].id) \/ proc[p].exp.saas = Unset
       THEN Ends(p, "refused") /\ UNCHANGED <<docs, legacy>>
       ELSE /\ LoadPersisted(proc[p].exp)
            /\ LET status == Evaluate(proc[p].exp, Found(proc[p].exp)) IN
               CASE status = "match" -> Ends(p, "kept")
                 [] status = "absent" -> proc' = [proc EXCEPT ![p].pc = "load"]
                 [] OTHER -> Ends(p, "refused")
    /\ UNCHANGED <<cfg, env, issued, conn, verdict, made, edits>>
\* EnrollmentClient.loadCredentials: an unbound document at the path is upgraded in place
Load(p) ==
    /\ proc[p].pc = "load"
    /\ LET exp == proc[p].exp
           there == IF Proves(exp, At(exp)) THEN Upgraded(At(exp)) ELSE Found(exp)
           status == Evaluate(exp, there) IN
       /\ docs' = [docs EXCEPT ![<<exp.tenant, exp.acct>>] = there]
       /\ legacy' = IF Migrates(exp) THEN [legacy EXCEPT ![exp.acct] = NoDoc] ELSE legacy
       /\ CASE status = "match" -> Probes(p, "kept") /\ UNCHANGED made
            [] status = "absent" ->
                 /\ made < MaxKeys /\ made' = made + 1
                 /\ proc' = [proc EXCEPT ![p].pc = "poll", ![p].key = made + 1]
            [] OTHER -> Ends(p, "refused") /\ UNCHANGED made
    /\ UNCHANGED <<cfg, env, issued, conn, verdict, edits>>
\* performEnrollment: the request or a poll fails, expires or is denied, or the SaaS
\* issues and the result is validated
Poll(p) ==
    /\ proc[p].pc = "poll"
    /\ \/ Ends(p, "failed") /\ UNCHANGED issued
       \/ LET exp == proc[p].exp IN
          /\ issued' = issued \cup {<<exp.saas, exp.tenant, exp.acct, proc[p].key>>}
          /\ proc' = [proc EXCEPT ![p].pc = "save"]
    /\ UNCHANGED <<cfg, env, docs, legacy, conn, verdict, made, edits>>
SaveReplaces(doc) == TRUE           \* variant: the write replaces what is there
\* saveCredentials: atomicWritePrivateFile with replace: false
MayWrite(doc) == doc.st = "none"
Save(p) ==
    /\ proc[p].pc = "save"
    /\ LET exp == proc[p].exp IN
       \/ Ends(p, "failed") /\ UNCHANGED docs
       \/ /\ MayWrite(At(exp))
          /\ docs' = [docs EXCEPT ![<<exp.tenant, exp.acct>>] = Document(exp, proc[p].key)]
          /\ Probes(p, "acquired")
    /\ UNCHANGED <<cfg, env, legacy, issued, conn, verdict, made, edits>>
\* runAddPreflight, dialRelayForPreflight: the dial answers, fails or runs out of time.
\* The probe disconnects what it opened, and withTimeout what opens late; a socket
\* whose relay stays silent is never closed, the residual that preflight.ts:474 names.
Probe(p) ==
    /\ proc[p].pc = "probe"
    /\ \/ proc' = [proc EXCEPT ![p].pc = "flush", ![p].link = "open"]
       \/ proc' = [proc EXCEPT ![p].pc = "done", ![p].link = "no"]
       \/ \E link \in {"dialing", "silent"} : proc' = [proc EXCEPT ![p].pc = "done", ![p].link = link]
    /\ UNCHANGED <<cfg, env, docs, legacy, issued, conn, verdict, made, edits>>
Flushed(p) ==
    /\ proc[p].pc = "flush" /\ proc' = [proc EXCEPT ![p].pc = "done", ![p].link = "no"]
    /\ UNCHANGED <<cfg, env, docs, legacy, issued, conn, verdict, made, edits>>
Late(p) ==
    /\ proc[p].pc = "done" /\ proc[p].link = "dialing"
    /\ proc' = [proc EXCEPT ![p].link = "no"]
    /\ UNCHANGED <<cfg, env, docs, legacy, issued, conn, verdict, made, edits>>
Dies(p) ==
    /\ proc[p].pc \notin {"idle", "done"}
    /\ proc' = [proc EXCEPT ![p] = Cleared("done", "failed")]
    /\ UNCHANGED <<cfg, env, docs, legacy, issued, conn, verdict, made, edits>>

(***************************************************************************)
(* The gateway, the doctor, the operator.                                  *)
(***************************************************************************)
\* hasWebchannelConfig
HasConfig(c) == c.base.there \/ Named(c) # {}
\* isWebchannelAccountConfigured, planWebchannelAccount
Served(c, id) == id \in Listed(c) /\ Enabled(c, id) /\ HasConfig(c)
\* consumeCredentialSource: a bound document is dialed, its own relay and credentials
Consumed(exp) ==
    IF Evaluate(exp, Found(exp)) = "match"
    THEN [on |-> TRUE, exp |-> exp, key |-> Found(exp).key] ELSE conn
\* The preflight of an account's start, and its dial
Serve(id) ==
    /\ Served(cfg, id) /\ Dialable(cfg, id)
    /\ LET exp == RuntimeExpects(cfg, id) IN
       /\ LoadPersisted(exp)
       /\ conn' = Consumed(exp)
    /\ UNCHANGED <<cfg, env, proc, issued, verdict, made, edits>>
InOrder(by, id) == {[by |-> by, id |-> id]}
\* They load, and so they migrate.
Judge(by, id, ok, exp) ==
    /\ IF ok
       THEN /\ LoadPersisted(exp)
            /\ verdict' = IF Evaluate(exp, Found(exp)) = "match" THEN InOrder(by, id) ELSE NoVerdict
       ELSE verdict' = NoVerdict /\ UNCHANGED <<docs, legacy>>
    /\ UNCHANGED <<cfg, env, proc, issued, conn, made, edits>>
\* evaluateWebchannelDoctor
Doctor(id) == Judge("doctor", id, Served(cfg, id) /\ Dialable(cfg, id), RuntimeExpects(cfg, id))
\* probeWebchannelAccount: the relay and the JWKS may fail what the document passes
ProbeAccount(id, reachable) ==
    /\ Served(cfg, id) /\ Dialable(cfg, id)
    /\ LET exp == RuntimeExpects(cfg, id) IN
       /\ LoadPersisted(exp)
       /\ verdict' = IF Evaluate(exp, Found(exp)) = "match" /\ reachable THEN InOrder("doctor", id) ELSE NoVerdict
    /\ UNCHANGED <<cfg, env, proc, issued, conn, made, edits>>
\* resolveConfigured of the wizard: resolved as channels add would without input; a
\* static account is configured if an issuer is pinned, and nothing is loaded for it
WizardStatus(id) ==
    LET exp == SetupExpects(cfg, id, [tenant |-> Unset, saas |-> Unset]) IN
    \/ Enrolled(cfg, id) /\ Judge("wizard", id, id \in Listed(cfg) /\ exp.saas # Unset, exp)
    \/ /\ ~Enrolled(cfg, id)
       /\ verdict' = IF id \in Listed(cfg) /\ Account(cfg, id).jwt THEN InOrder("wizard", id) ELSE NoVerdict
       /\ UNCHANGED <<cfg, env, docs, legacy, proc, issued, conn, made, edits>>

Edit == edits < MaxEdits /\ edits' = edits + 1 /\ verdict' = NoVerdict /\ proc' = Stale(proc)
EditConfig(id) ==
    /\ Edit
    /\ \/ cfg' = [cfg EXCEPT !.base.off = ~@]
       \/ /\ cfg.acct[id].there
          /\ \/ cfg' = [cfg EXCEPT !.acct[id] = NoLeaf]
             \/ \E s \in Saas, own \in BOOLEAN :
                   cfg' = [cfg EXCEPT !.acct[id].cred = [there |-> TRUE, mode |-> "unset", saas |-> s, own |-> own]]
             \/ \E pin \in BOOLEAN :
                   cfg' = [cfg EXCEPT !.acct[id].jwt = pin,
                                      !.acct[id].cred = [there |-> TRUE, mode |-> "static", saas |-> Unset, own |-> TRUE]]
             \/ \E t \in Tenant : cfg' = [cfg EXCEPT !.acct[id].tenant = t]
       \/ \E s \in Saas : cfg.base.there /\ cfg' = [cfg EXCEPT !.base.saas = s]
    /\ UNCHANGED <<env, docs, legacy, issued, conn, made>>
EditEnv ==
    /\ Edit /\ env' \in [saas : {Unset} \cup Saas, own : BOOLEAN]
    /\ UNCHANGED <<cfg, docs, legacy, issued, conn, made>>
\* A document is archived, copied over from another tuple, damaged, or put there by an
\* older or a newer release.
EditFile(t, id) ==
    /\ Edit
    /\ \/ docs' = [docs EXCEPT ![<<t, id>>] = NoDoc]
       \/ \E k \in Tenant \X Raw : docs[k].st # "none" /\ docs' = [docs EXCEPT ![<<t, id>>] = docs[k]]
       \/ \E st \in {"junk", "new", "old"} : docs' = [docs EXCEPT ![<<t, id>>] = [@ EXCEPT !.st = st]]
    /\ UNCHANGED <<cfg, env, legacy, issued, conn, made>>

Invocation(p) ==
    \/ Inspect(p) \/ Load(p) \/ Poll(p) \/ Save(p) \/ Probe(p) \/ Flushed(p) \/ Late(p) \/ Dies(p)
    \/ \E raw \in Raw, in \in Input : Apply(p, raw, in)
Next ==
    \/ \E p \in Proc : Invocation(p)
    \/ \E id \in Raw : Serve(id) \/ Doctor(id) \/ WizardStatus(id) \/ EditConfig(id)
    \/ \E id \in Raw, reachable \in BOOLEAN : ProbeAccount(id, reachable)
    \/ EditEnv
    \/ \E t \in Tenant, id \in Raw : EditFile(t, id)
Spec == Init /\ [][Next]_vars

(***************************************************************************)
(* Properties.                                                             *)
(***************************************************************************)
\* An account is connected with what the SaaS that its configuration and environment
\* named had issued for that tenant and that account, whatever was edited, copied or
\* left behind by an earlier configuration (consume-credentials.ts:203).
DialIsBound == conn.on => <<conn.exp.saas, conn.exp.tenant, conn.exp.acct, conn.key>> \in issued
\* What the gateway finds for an account, by its own path through the configuration
InPlace(id) == Evaluate(RuntimeExpects(cfg, id), At(RuntimeExpects(cfg, id))) = "match"
\* An account that channels add acquired or kept credentials for is one the gateway
\* lists, unless another spelling of it is configured too (account-config.ts:125: then
\* neither is), and the gateway finds the credentials; if they were acquired, they are
\* the ones on disk (setup.ts:440, nats-account-runtime.ts:460, enrollment-client.ts:608).
\* An account in order for the doctor or a probe is one the gateway dials (doctor.ts:177).
\* One in order for the wizard is listed and, unless it is static, has its credentials
\* in place (setup-wizard.ts:108-148).  All this until the configuration, the
\* environment or the files are edited, or channels add writes a configuration again.
AcquiredIsServed ==
    /\ \A p \in Proc : proc[p].fresh /\ proc[p].out \in {"acquired", "kept"} =>
          /\ proc[p].id \in Listed(cfg) \/ Collides(cfg, proc[p].id)
          /\ InPlace(proc[p].id)
          /\ proc[p].out = "acquired" => At(RuntimeExpects(cfg, proc[p].id)).key = proc[p].key
    /\ \A v \in verdict :
          /\ v.id \in Listed(cfg)
          /\ v.by = "doctor" => Served(cfg, v.id) /\ Dialable(cfg, v.id)
          /\ v.by = "doctor" \/ Enrolled(cfg, v.id) => InPlace(v.id)
=============================================================================
