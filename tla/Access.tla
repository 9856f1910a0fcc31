-------------------------------- MODULE Access --------------------------------
(***************************************************************************)
(* Who may do what: the credentials that attribute a connection to a       *)
(* tenant, the tenants and substituters an operator provisions, the        *)
(* capability secrets the frontends share through PostgreSQL and the       *)
(* rotation process replaces, the token a dispatched job carries, and the  *)
(* pre-signed URLs any frontend hands to whoever shows that token.         *)
(*                                                                         *)
(* Two frontends run: kubernix-sshd and kubernix-mtlsd.  Each caches the   *)
(* secrets it has read; the database is shared; a statement may fail.      *)
(* Time is counted in ticks of one capability cache lifetime.              *)
(***************************************************************************)
EXTENDS Integers, FiniteSets

CONSTANTS
    Tenants,     \* the tenants an operator may provision
    FirstTenant, \* the one that is provisioned when the frontends start
    SshKeys,     \* client keys, one identity each
    Cas,         \* client CAs, one tenant each
    Drvs,        \* derivations
    Paths,       \* store paths, outputs and inputs
    DrvOutputs,  \* DrvOutputs[d]: the output paths a derivation declares
    Slugs,       \* the hosts substituters are mirrored under
    CacheTtl,    \* CAPABILITY_SECRET_CACHE_TTL
    Retention,   \* KUBERNIX_ROTATE_RETENTION
    MaxTime,     \* bound: ticks of the clock
    MaxKid,      \* bound: secrets ever persisted
    MaxConns,    \* bound: connections open at a time
    MaxEvents    \* bound: rotations, restarts, failed statements and admin commands

ASSUME TimesAssumption ==
    /\ CacheTtl \in Nat \ {0} /\ Retention \in Nat /\ CacheTtl < Retention
    /\ MaxTime \in Nat /\ MaxKid \in Nat \ {0} /\ MaxEvents \in Nat /\ MaxConns \in Nat
ASSUME NamesAssumption ==
    /\ FirstTenant \in Tenants
    /\ "none" \notin Tenants \cup SshKeys \cup Cas \cup Drvs
    /\ "shared" \notin Tenants \cup Slugs /\ Tenants \cap Slugs = {}
\* Two derivations may declare the same output: fixed outputs with the same
\* content do, and an input-addressed path is taken as declared.
ASSUME DrvsAssumption == DrvOutputs \in [Drvs -> SUBSET Paths]

Sshd == 1
Mtlsd == 2
Frontends == {Sshd, Mtlsd}
Credentials == SshKeys \cup Cas
None == "none"
Never == -1

VARIABLES
    now,       \* the clock
    events,    \* events left of MaxEvents
    tenants,   \* rows of tenants
    subs,      \* tenant_substituters: the row of the default url, if any, per tenant
    seeding,   \* the tenant add_tenant has inserted and not yet seeded, or None
    bindings,  \* tenant_auth_bindings: the tenant a credential is bound to, or None
    secrets,   \* capability_secrets: kid -> when it was rotated out, or Never
    lastKid,   \* the BIGSERIAL sequence behind kid
    rotating,  \* the rotation's advisory lock is held: retired and minted, not yet pruned
    cache,     \* CapabilitySecretCache of each frontend
    roots,     \* the CAs mtlsd's published server config trusts
    conn,      \* the connection each frontend serves
    job        \* the job dispatched, with its token
vars == <<now, events, tenants, subs, seeding, bindings, secrets, lastKid,
          rotating, cache, roots, conn, job>>
admin == <<tenants, subs, seeding, bindings>>
secretRows == <<secrets, lastKid, rotating>>

NoCache == [current |-> 0, at |-> 0, byKid |-> {}]
Closed == [stage |-> "closed", key |-> None, tenant |-> None]
NoJob == [tenant |-> None, drv |-> None, kid |-> 0, at |-> 0]

Spend == events > 0 /\ events' = events - 1
\* A statement succeeds, or it fails at the cost of an event.
Works == UNCHANGED events
Fails == Spend

-----------------------------------------------------------------------------
(* Object keys: a name space, the tenant (or shared prefix) it is under,   *)
(* and the hash part of a store path.                                      *)
Shared == "shared"
ObjectKeys == [owner: Tenants \cup Slugs \cup {Shared}, hash: Paths,
               ns: {"nar", "untrusted/nar", "untrusted-substituted/nar"}]
                  \cup [owner: Tenants, hash: Drvs, ns: {"log"}]
key(owner, ns, hash) == [owner |-> owner, ns |-> ns, hash |-> hash]

nar_key(t, tier, p) ==
    CASE tier = "verified"    -> key(Shared, "nar", p)
      [] tier = "built"       -> key(t, "nar", p)
      [] tier = "quarantined" -> key(t, "untrusted/nar", p)
      [] OTHER                -> key(t, "untrusted-substituted/nar", p)
substituted_nar_key(slug, p) == key(slug, "nar", p)
log_key(t, d) == key(t, "log", d)
\* The worker's own formulas, in a crate of their own.
worker_nar_key(t, p) == key(t, "nar", p)
worker_log_key(t, d) == key(t, "log", d)

is_shared_verified_key(k) == k.owner = Shared /\ k.ns = "nar"
is_shared_substituted_key(k) == k.owner \in Slugs /\ k.ns = "nar"

key_is_permitted(k, download, t) ==
    \/ download /\ (is_shared_verified_key(k) \/ is_shared_substituted_key(k))
    \/ /\ k.owner = t
       /\ k.ns \in {"nar", "log"} \cup (IF download THEN {"untrusted/nar"} ELSE {})

-----------------------------------------------------------------------------
(* Capability secrets                                                      *)

\* Mutant: the current secret stays cached for good.
CachedForEver(f) == cache[f].current # 0
\* What current_capability_secret may answer without asking the database.
CachedCurrent(f) == cache[f].current # 0 /\ now - cache[f].at < CacheTtl

Highest(kid) == \A k \in DOMAIN secrets : k <= kid
LocalKid(f) == -f            \* a process-local kid, above i64::MAX in the code
Persisted(kid) == kid > 0
Remember(f, kid) ==
    cache' = [cache EXCEPT ![f] =
                [current |-> kid, at |-> now, byKid |-> @.byKid \cup {kid}]]

\* The claims of a token and the kid of the secret it is signed with.
Sign(t, d, kid) == [tenant |-> t, drv |-> d, kid |-> kid, at |-> now]
\* A job of the connection's own tenant is dispatched with its token.
Dispatch(f, d, kid) == job' = Sign(conn[f].tenant, d, kid)

MintCached(f) ==
    /\ conn[f].stage = "ready" /\ job = NoJob
    /\ CachedCurrent(f)
    /\ \E d \in Drvs : Dispatch(f, d, cache[f].current)
    /\ UNCHANGED <<now, events, admin, secretRows, cache, roots, conn>>

\* The SELECT of the highest kid: it names the current secret, or it finds
\* none or fails and the frontend goes on to insert one.
ReadCurrent(f) ==
    /\ conn[f].stage = "ready" /\ job = NoJob
    /\ ~CachedCurrent(f)
    /\ \/ /\ Works
          /\ \E kid \in DOMAIN secrets, d \in Drvs :
               Highest(kid) /\ Remember(f, kid) /\ Dispatch(f, d, kid)
          /\ UNCHANGED conn
       \/ /\ IF DOMAIN secrets = {} THEN Works ELSE Fails
          /\ conn' = [conn EXCEPT ![f].stage = "insert"]
          /\ UNCHANGED <<cache, job>>
    /\ UNCHANGED <<now, admin, secretRows, roots>>

\* The INSERT of a first secret, or a process-local one if it fails.
InsertCurrent(f) ==
    /\ conn[f].stage = "insert" /\ job = NoJob
    /\ conn' = [conn EXCEPT ![f].stage = "ready"]
    /\ \/ /\ lastKid < MaxKid /\ Works
          /\ lastKid' = lastKid + 1
          /\ secrets' = [k \in DOMAIN secrets \cup {lastKid'} |->
                            IF k = lastKid' THEN Never ELSE secrets[k]]
          /\ Remember(f, lastKid') /\ \E d \in Drvs : Dispatch(f, d, lastKid')
       \/ /\ Fails
          /\ Remember(f, LocalKid(f)) /\ \E d \in Drvs : Dispatch(f, d, LocalKid(f))
          /\ UNCHANGED <<lastKid, secrets>>
    /\ UNCHANGED <<now, admin, rotating, roots>>

\* capability_secret_db: the by_kid cache, then the database for a persisted kid.
SecretKnown(f, kid) ==
    \/ kid \in cache[f].byKid
    \/ Persisted(kid) /\ kid \in DOMAIN secrets

\* Capability::verify: a token whose kid resolves is the job's own.
Verify(f, token) == SecretKnown(f, token.kid)

-----------------------------------------------------------------------------
(* Rotation: one transaction retires and mints, a later statement prunes.  *)

\* rotate: another replica that holds the advisory lock makes a pass a no-op.
LockFree == ~rotating

RotateSecrets ==
    /\ LockFree /\ lastKid < MaxKid /\ Spend
    /\ lastKid' = lastKid + 1
    /\ secrets' = [k \in DOMAIN secrets \cup {lastKid'} |->
                      IF k = lastKid' THEN Never
                      ELSE IF secrets[k] = Never THEN now ELSE secrets[k]]
    /\ rotating' = TRUE
    /\ UNCHANGED <<now, admin, cache, roots, conn, job>>

Expired(k) == secrets[k] # Never /\ secrets[k] < now - Retention

PruneRetired ==
    /\ rotating
    /\ rotating' = FALSE
    /\ \/ /\ Works
          /\ secrets' = [k \in {k \in DOMAIN secrets : ~Expired(k)} |-> secrets[k]]
       \/ Fails /\ UNCHANGED secrets
    /\ UNCHANGED <<now, lastKid, admin, cache, roots, conn, job>>

-----------------------------------------------------------------------------
(* The URL service.  A request shows a token and names keys; the queue     *)
(* group gives it to any frontend.                                         *)

\* Mutant: uploads are confined to the tenant, not to the job.
AllowedInTenant(j) == {k \in ObjectKeys : k.owner = j.tenant}
\* The upload keys a capability stands for.
Allowed(j) ==
    {nar_key(j.tenant, "built", p) : p \in DrvOutputs[j.drv]}
        \cup {log_key(j.tenant, j.drv)}

\* What handle answers to the holder of job j's token when the database
\* answers: URLs for every key, or none.
Granted(f, j, keys, download) ==
    /\ Verify(f, j)
    /\ \A k \in keys : /\ key_is_permitted(k, download, j.tenant)
                       /\ download \/ k \in Allowed(j)

\* The keys the worker that runs job j asks for.
UploadKeys(j) == {worker_nar_key(j.tenant, p) : p \in DrvOutputs[j.drv]}
                     \cup {worker_log_key(j.tenant, j.drv)}
\* The keys of inputs the frontend names in a job: whatever tier they are in.
InputKeys(j) ==
    UNION {{nar_key(j.tenant, tier, p) : tier \in {"verified", "built", "quarantined"}}
               \cup {substituted_nar_key(s, p) : s \in Slugs} : p \in Paths}

\* One request: verification caches the secret it had to read.
HandleUrlRequest(f) ==
    /\ job # NoJob
    /\ ~ job.kid \in cache[f].byKid
    /\ Verify(f, job)
    /\ cache' = [cache EXCEPT ![f].byKid = @ \cup {job.kid}]
    /\ UNCHANGED <<now, events, admin, secretRows, roots, conn, job>>

\* The worker has reported and nobody holds the token any more.
JobReported ==
    /\ job # NoJob
    /\ job' = NoJob
    /\ UNCHANGED <<now, events, admin, secretRows, cache, roots, conn>>

-----------------------------------------------------------------------------
(* Connections: authenticate, register the tenant, serve.                  *)

MayConnect(f) ==
    conn[f] = Closed /\ Cardinality({g \in Frontends : conn[g] # Closed}) < MaxConns
Attributed(stage, k, t) == [stage |-> stage, key |-> k, tenant |-> t]
\* find_tenant_by_binding
Holder(k) == bindings[k]

\* The tenant is the one the key is bound to; an unbound key, or a lookup that
\* fails, is rejected.
AuthPublickey ==
    /\ MayConnect(Sshd)
    /\ \E k \in SshKeys :
         /\ Holder(k) # None
         /\ conn' = [conn EXCEPT ![Sshd] = Attributed("authenticated", k, Holder(k))]
    /\ UNCHANGED <<now, events, admin, secretRows, cache, roots, job>>

\* The exec of `--stdio` hands the channel to the RPC system; whoami, a shell
\* or any other command is answered and changes nothing.
ExecRequest ==
    /\ conn[Sshd].stage = "authenticated"
    /\ conn' = [conn EXCEPT ![Sshd].stage = "register"]
    /\ UNCHANGED <<now, events, admin, secretRows, cache, roots, job>>

\* serve and the handshake: the chain must end at a CA of the config that was
\* current when the connection was accepted.
TlsHandshake ==
    /\ MayConnect(Mtlsd)
    /\ \E ca \in roots :
         conn' = [conn EXCEPT ![Mtlsd] =
                    Attributed("attribute", ca, None)]
    /\ UNCHANGED <<now, events, admin, secretRows, cache, roots, job>>

\* tenant_for_chain: the binding is looked up after the handshake.
TlsAttribute ==
    /\ conn[Mtlsd].stage = "attribute"
    /\ LET t == Holder(conn[Mtlsd].key)
       IN  \/ /\ t # None /\ Works
              /\ conn' = [conn EXCEPT ![Mtlsd] = Attributed("register", @.key, t)]
           \/ /\ IF t = None THEN Works ELSE Fails
              /\ conn' = [conn EXCEPT ![Mtlsd] = Closed]
    /\ UNCHANGED <<now, admin, secretRows, cache, roots, job>>

\* init: ensure_tenant upserts the row, then seeds.  Either statement may
\* fail; the connection is served all the same.
RegisterTenant(f) ==
    /\ conn[f].stage = "register"
    /\ \/ /\ Works
          /\ tenants' = tenants \cup {conn[f].tenant}
          /\ conn' = [conn EXCEPT ![f].stage = "seed"]
       \/ /\ Fails
          /\ conn' = [conn EXCEPT ![f].stage = "ready"]
          /\ UNCHANGED tenants
    /\ UNCHANGED <<now, subs, seeding, bindings, secretRows, cache, roots, job>>

\* ON CONFLICT (tenant, url) DO NOTHING.
SeedDefault(t) == subs' = [subs EXCEPT ![t] = IF @ = None THEN "default" ELSE @]

SeedConnected(f) ==
    /\ conn[f].stage = "seed"
    /\ conn' = [conn EXCEPT ![f].stage = "ready"]
    /\ \/ Works /\ SeedDefault(conn[f].tenant)
       \/ Fails /\ UNCHANGED subs
    /\ UNCHANGED <<now, tenants, seeding, bindings, secretRows, cache, roots, job>>

\* The client hangs up, or the handshake times out.
CloseConnection(f) ==
    /\ conn[f] # Closed
    /\ conn' = [conn EXCEPT ![f] = Closed]
    /\ UNCHANGED <<now, events, admin, secretRows, cache, roots, job>>

BoundCas == {ca \in Cas : bindings[ca] # None}

\* Mutant: a CA once trusted stays in the config.
RefreshAdds ==
    /\ ~ BoundCas \subseteq roots
    /\ roots' = roots \cup BoundCas
    /\ UNCHANGED <<now, events, admin, secretRows, cache, conn, job>>
\* mtlsd's poll of the trusted CAs; a failed read keeps the previous config.
RefreshRoots ==
    /\ roots # BoundCas
    /\ \/ Works /\ roots' = BoundCas
       \/ Fails /\ UNCHANGED roots
    /\ UNCHANGED <<now, admin, secretRows, cache, conn, job>>

\* A frontend process dies and starts again, with its database, queue and
\* signer: what it cached is gone.
Restart(f) ==
    /\ Spend
    /\ cache' = [cache EXCEPT ![f] = NoCache]
    /\ conn' = [conn EXCEPT ![f] = Closed]
    /\ roots' = IF f = Mtlsd THEN {} ELSE roots
    /\ UNCHANGED <<now, admin, secretRows, job>>

-----------------------------------------------------------------------------
(* kubernix-admin: one command at a time, each refused when its row is     *)
(* there already or its tenant is not.                                     *)

AddTenant(t) ==
    /\ seeding = None /\ t \notin tenants /\ Spend
    /\ tenants' = tenants \cup {t}
    /\ seeding' = t
    /\ UNCHANGED <<now, subs, bindings, secretRows, cache, roots, conn, job>>

SeedAdded ==
    /\ seeding # None
    /\ seeding' = None
    /\ \/ Works /\ SeedDefault(seeding)
       \/ Fails /\ UNCHANGED subs
    /\ UNCHANGED <<now, tenants, bindings, secretRows, cache, roots, conn, job>>

AddSubstituter(t) ==
    /\ seeding = None /\ t \in tenants /\ subs[t] = None /\ Spend
    /\ subs' = [subs EXCEPT ![t] = "own"]
    /\ UNCHANGED <<now, tenants, seeding, bindings, secretRows, cache, roots, conn, job>>

RemoveSubstituter(t) ==
    /\ seeding = None /\ subs[t] # None /\ Spend
    /\ subs' = [subs EXCEPT ![t] = None]
    /\ UNCHANGED <<now, tenants, seeding, bindings, secretRows, cache, roots, conn, job>>

\* Mutant: the foreign key from a binding to its tenant is gone.
AddUnownedCredential(c, t) ==
    /\ seeding = None /\ bindings[c] = None /\ Spend
    /\ bindings' = [bindings EXCEPT ![c] = t]
    /\ UNCHANGED <<now, tenants, subs, seeding, secretRows, cache, roots, conn, job>>
AddCredential(c, t) ==
    /\ seeding = None /\ t \in tenants /\ bindings[c] = None /\ Spend
    /\ bindings' = [bindings EXCEPT ![c] = t]
    /\ UNCHANGED <<now, tenants, subs, seeding, secretRows, cache, roots, conn, job>>

DeleteCredential(c) ==
    /\ seeding = None /\ bindings[c] # None /\ Spend
    /\ bindings' = [bindings EXCEPT ![c] = None]
    /\ UNCHANGED <<now, tenants, subs, seeding, secretRows, cache, roots, conn, job>>

Tick ==
    /\ now < MaxTime
    /\ now' = now + 1
    /\ UNCHANGED <<events, admin, secretRows, cache, roots, conn, job>>

-----------------------------------------------------------------------------
\* A deployment with one tenant provisioned and seeded, whose ssh keys are
\* bound, no CA and no secret yet.
Init ==
    /\ now = 0 /\ events = MaxEvents
    /\ tenants = {FirstTenant}
    /\ subs = [t \in Tenants |-> IF t = FirstTenant THEN "default" ELSE None]
    /\ bindings = [c \in Credentials |-> IF c \in SshKeys THEN FirstTenant ELSE None]
    /\ seeding = None
    /\ secrets = [k \in {} |-> Never] /\ lastKid = 0 /\ rotating = FALSE
    /\ cache = [f \in Frontends |-> NoCache]
    /\ roots = {}
    /\ conn = [f \in Frontends |-> Closed]
    /\ job = NoJob

AdminCommand ==
    \/ \E t \in Tenants : AddTenant(t) \/ AddSubstituter(t) \/ RemoveSubstituter(t)
    \/ \E c \in Credentials : (\E t \in Tenants : AddCredential(c, t)) \/ DeleteCredential(c)
    \/ SeedAdded

FrontendStep(f) ==
    \/ MintCached(f) \/ ReadCurrent(f) \/ InsertCurrent(f) \/ HandleUrlRequest(f)
    \/ RegisterTenant(f) \/ SeedConnected(f) \/ CloseConnection(f) \/ Restart(f)

Next ==
    \/ AdminCommand
    \/ \E f \in Frontends : FrontendStep(f)
    \/ AuthPublickey \/ ExecRequest \/ TlsHandshake \/ TlsAttribute \/ RefreshRoots
    \/ RotateSecrets \/ PruneRetired \/ JobReported
    \/ Tick

Spec == Init /\ [][Next]_vars
\* mtlsd polls for as long as it runs.
FairSpec == Spec /\ WF_vars(RefreshRoots)

-----------------------------------------------------------------------------
Unattributed == {"closed", "attribute"}
Stages == Unattributed \cup {"authenticated", "register", "seed", "ready", "insert"}

AdminOK ==
    /\ tenants \subseteq Tenants /\ seeding \in tenants \cup {None}
    /\ subs \in [Tenants -> {None, "default", "own"}]
    /\ \A t \in Tenants : subs[t] # None => t \in tenants
    /\ bindings \in [Credentials -> tenants \cup {None}]
SecretsOK ==
    /\ now \in 0 .. MaxTime /\ events \in 0 .. MaxEvents
    /\ lastKid \in 0 .. MaxKid /\ rotating \in BOOLEAN
    /\ DOMAIN secrets \subseteq 1 .. lastKid
    /\ \A k \in DOMAIN secrets : secrets[k] \in {Never} \cup (0 .. now)
CacheOK ==
    /\ cache \in [Frontends -> [current: Int, at: 0 .. now, byKid: SUBSET Int]]
    /\ \A f \in Frontends :
         /\ cache[f].byKid \subseteq (1 .. lastKid) \cup {LocalKid(f)}
         /\ cache[f].current \in cache[f].byKid \cup {0}
ConnOK ==
    /\ roots \subseteq Cas
    /\ conn \in [Frontends -> [stage: Stages, key: Credentials \cup {None},
                               tenant: tenants \cup {None}]]
    /\ \A f \in Frontends :
         /\ conn[f].tenant = None <=> conn[f].stage \in Unattributed
         /\ conn[f].key = None <=> conn[f].stage = "closed"
JobOK ==
    \/ job = NoJob
    \/ /\ job \in [tenant: tenants, drv: Drvs, kid: Int, at: 0 .. now]
       /\ job.kid \in (1 .. lastKid) \cup {LocalKid(f) : f \in Frontends}

\* Rows, caches and connections are of the shape the frontends and the
\* administration write: only provisioned tenants are bound or have a
\* substituter, a cached persisted kid was drawn from the sequence, and a
\* connection being served, like a job's token, names a provisioned tenant.
TypeOK == AdminOK /\ SecretsOK /\ CacheOK /\ ConnOK /\ JobOK

\* The secret current_capability_secret would read, the one of the highest
\* kid, has never been rotated out: whatever the rotation is in the middle of,
\* a frontend does not start signing with a secret that is already expiring.
HighestIsCurrent ==
    \A kid \in DOMAIN secrets : Highest(kid) => secrets[kid] = Never

\* A secret that was current at time a is still there, and if it has been
\* rotated out since, then not before a; unless the retention has passed.
Kept(kid, a) ==
    \/ kid \in DOMAIN secrets /\ (secrets[kid] = Never \/ secrets[kid] >= a)
    \/ now > a + Retention

\* Why tokens are honoured: a frontend's cached secret was current when it was
\* read, and a job's secret was at most a cache lifetime before the dispatch.
SecretsKept ==
    /\ \A f \in Frontends :
         Persisted(cache[f].current) => Kept(cache[f].current, cache[f].at)
    /\ job # NoJob /\ Persisted(job.kid) => Kept(job.kid, job.at - CacheTtl)

\* A token signed with a persisted secret is honoured by every frontend,
\* restarted ones included, for at least the retention less the cache
\* lifetime: through rotations and prunings, the worker gets URLs for what it
\* uploads and for inputs of every tier.
TokenHonoured ==
    job # NoJob /\ Persisted(job.kid) /\ now - job.at <= Retention - CacheTtl =>
        \A f \in Frontends : /\ Granted(f, job, UploadKeys(job), FALSE)
                             /\ Granted(f, job, InputKeys(job), TRUE)

\* Who writes: jobs, by tenant and derivation; and the outputs two of them,
\* if of one tenant, have in common.
Writers == [tenant: Tenants, drv: Drvs]
Common(w, o) == IF w.tenant = o.tenant THEN DrvOutputs[w.drv] \cap DrvOutputs[o.drv] ELSE {}

\* Keys that others than w use: other jobs for their outputs and logs, the
\* frontends for what they stage, verify or pull through.
Foreign(w, k) ==
    \/ \E o \in Writers \ {w} :
         k \in Allowed(o) \ {nar_key(o.tenant, "built", p) : p \in Common(w, o)}
    \/ \E t \in Tenants, p \in Paths, tier \in {"verified", "quarantined"} :
         k = nar_key(t, tier, p)
    \/ \E s \in Slugs, p \in Paths : k = substituted_nar_key(s, p)

\* A job's token buys no upload URL for an object that something else writes,
\* of another tenant, another tier, or another job's log or outputs, but for
\* the outputs both jobs' derivations declare: for those, two jobs of a tenant
\* hold URLs to one object ("otherwise a worker could still overwrite some
\* other job's output within its own tenant", uploads.rs).
OwnArtifactsOnly ==
    job # NoJob =>
        \A f \in Frontends, k \in ObjectKeys :
            Granted(f, job, {k}, FALSE) => ~Foreign([tenant |-> job.tenant, drv |-> job.drv], k)

\* Once the operator stops changing credentials, mtlsd's config settles on
\* exactly the CAs that are bound: a new one is served, a deleted one is not.
RootsConverge == <>[](roots = BoundCas)

=============================================================================
