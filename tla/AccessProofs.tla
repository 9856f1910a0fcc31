----------------------------- MODULE AccessProofs -----------------------------
(***************************************************************************)
(* Proofs about Access, for every set of tenants, credentials and          *)
(* derivations, every retention and cache lifetime and every bound.        *)
(***************************************************************************)
EXTENDS Access, TLAPS

\* The secret minted last is there and has not been rotated out.  Inductive
\* where HighestIsCurrent is not: it says which row survives a pruning.
LatestCurrent ==
    lastKid > 0 => lastKid \in DOMAIN secrets /\ secrets[lastKid] = Never

\* The inductive invariant: that the latest secret is current is what makes a
\* secret read by a frontend one that is Kept.
IInv == TypeOK /\ LatestCurrent /\ SecretsKept

\* Kept in the state after a step.
KeptNext(kid, a) ==
    \/ kid \in DOMAIN secrets' /\ (secrets'[kid] = Never \/ secrets'[kid] >= a)
    \/ now' > a + Retention

USE DEF Frontends, Sshd, Mtlsd

-----------------------------------------------------------------------------
(* Types                                                                   *)

\* The deployment the frontends start from is well-formed.
LEMMA InitType == Init => TypeOK
  <1> SUFFICES ASSUME Init PROVE TypeOK
    OBVIOUS
  <1>1. AdminOK
    BY NamesAssumption DEF Init, AdminOK, None
  <1>2. SecretsOK
    <2>1. DOMAIN secrets = {} /\ rotating \in BOOLEAN
      BY DEF Init
    <2>2. now \in 0 .. MaxTime /\ events \in 0 .. MaxEvents /\ lastKid \in 0 .. MaxKid
      BY TimesAssumption DEF Init
    <2> QED BY <2>1, <2>2 DEF SecretsOK
  <1>3. CacheOK
    BY DEF Init, CacheOK, NoCache
  <1>4. ConnOK
    BY DEF Init, ConnOK, Closed, Stages, Unattributed
  <1>5. JobOK
    BY DEF Init, JobOK
  <1> QED BY <1>1, <1>2, <1>3, <1>4, <1>5 DEF TypeOK

\* Events are spent one at a time.
LEMMA SpendType ==
  ASSUME TypeOK, Spend
  PROVE  events' \in 0 .. MaxEvents
  BY TimesAssumption DEF TypeOK, SecretsOK, Spend

\* A served connection has a tenant.
LEMMA ServedTenant ==
  ASSUME TypeOK, NEW f \in Frontends, conn[f].stage \in Stages \ Unattributed
  PROVE  conn[f].tenant \in tenants
  BY DEF TypeOK, ConnOK, Unattributed

\* The token a frontend signs for a known kid is well-formed.
LEMMA DispatchType ==
  ASSUME TypeOK, NEW f \in Frontends, NEW d \in Drvs, NEW kid, Dispatch(f, d, kid),
         conn[f].stage \in {"ready", "insert"}, tenants' = tenants, now' = now,
         lastKid' \in Int,
         kid \in (1 .. lastKid') \cup {LocalKid(f)}
  PROVE  JobOK'
  <1>1. conn[f].tenant \in tenants
    BY ServedTenant DEF Stages, Unattributed
  <1>2. now \in 0 .. now
    BY DEF TypeOK, SecretsOK
  <1> QED BY <1>1, <1>2 DEF Dispatch, Sign, JobOK, LocalKid

\* A secret a frontend remembers is one it may verify with.
LEMMA RememberType ==
  ASSUME TypeOK, NEW f \in Frontends, NEW kid, Remember(f, kid), now' = now,
         lastKid' \in {lastKid, lastKid + 1},
         kid \in (1 .. lastKid') \cup {LocalKid(f)}
  PROVE  CacheOK'
  <1>1. now \in 0 .. now /\ lastKid \in Nat
    BY TimesAssumption DEF TypeOK, SecretsOK
  <1>2. kid \in Int
    BY <1>1 DEF LocalKid
  <1> QED BY <1>1, <1>2 DEF Remember, TypeOK, CacheOK, LocalKid

LEMMA MintCachedType ==
  ASSUME TypeOK, NEW f \in Frontends, MintCached(f)
  PROVE  TypeOK'
  <1>1. PICK d \in Drvs : Dispatch(f, d, cache[f].current)
    BY DEF MintCached
  <1>2. cache[f].current \in (1 .. lastKid) \cup {LocalKid(f)}
    BY DEF MintCached, CachedCurrent, TypeOK, CacheOK
  <1>3. JobOK'
    BY <1>1, <1>2, DispatchType DEF MintCached, admin, secretRows, TypeOK, SecretsOK
  <1>4. (AdminOK /\ SecretsOK /\ CacheOK /\ ConnOK)'
    BY DEF MintCached, TypeOK, AdminOK, SecretsOK, CacheOK, ConnOK, admin, secretRows
  <1> QED BY <1>3, <1>4 DEF TypeOK

LEMMA ReadType ==
  ASSUME TypeOK, NEW f \in Frontends, ReadCurrent(f)
  PROVE  TypeOK'
  <1>1. CASE /\ Works /\ UNCHANGED conn
             /\ \E kid \in DOMAIN secrets, d \in Drvs :
                  Highest(kid) /\ Remember(f, kid) /\ Dispatch(f, d, kid)
    <2>1. PICK kid \in DOMAIN secrets, d \in Drvs : Remember(f, kid) /\ Dispatch(f, d, kid)
      BY <1>1
    <2>2. kid \in 1 .. lastKid
      BY DEF TypeOK, SecretsOK
    <2>3. UNCHANGED <<now, tenants, lastKid>> /\ conn[f].stage = "ready" /\ lastKid \in Int
      BY DEF ReadCurrent, admin, secretRows, TypeOK, SecretsOK
    <2>4. JobOK'
      BY <2>1, <2>2, <2>3, DispatchType
    <2>5. CacheOK'
      BY <2>1, <2>2, <2>3, RememberType
    <2>6. (AdminOK /\ SecretsOK /\ ConnOK)'
      BY <1>1 DEF ReadCurrent, Works, TypeOK, AdminOK, SecretsOK, ConnOK, admin, secretRows
    <2> QED BY <2>4, <2>5, <2>6 DEF TypeOK
  <1>2. CASE /\ IF DOMAIN secrets = {} THEN Works ELSE Fails
             /\ conn' = [conn EXCEPT ![f].stage = "insert"]
             /\ UNCHANGED <<cache, job>>
    <2>1. ConnOK'
      BY <1>2, ServedTenant
      DEF ReadCurrent, TypeOK, ConnOK, admin, Stages, Unattributed
    <2>2. SecretsOK'
      BY <1>2, SpendType DEF ReadCurrent, TypeOK, SecretsOK, secretRows, Works, Fails
    <2>3. (AdminOK /\ CacheOK /\ JobOK)'
      BY <1>2 DEF ReadCurrent, TypeOK, AdminOK, CacheOK, JobOK, admin, secretRows
    <2> QED BY <2>1, <2>2, <2>3 DEF TypeOK
  <1> QED BY <1>1, <1>2 DEF ReadCurrent

LEMMA InsertType ==
  ASSUME TypeOK, NEW f \in Frontends, InsertCurrent(f)
  PROVE  TypeOK'
  <1>0. /\ UNCHANGED <<now, admin, rotating, roots>> /\ conn[f].stage = "insert"
        /\ conn' = [conn EXCEPT ![f].stage = "ready"] /\ lastKid \in Nat
    BY TimesAssumption DEF InsertCurrent, TypeOK, SecretsOK
  <1>1. ConnOK'
    BY <1>0, ServedTenant DEF TypeOK, ConnOK, admin, Stages, Unattributed
  <1>2. AdminOK'
    BY <1>0 DEF TypeOK, AdminOK, admin
  <1>3. CASE /\ lastKid < MaxKid /\ Works
             /\ lastKid' = lastKid + 1
             /\ secrets' = [k \in DOMAIN secrets \cup {lastKid'} |->
                               IF k = lastKid' THEN Never ELSE secrets[k]]
             /\ Remember(f, lastKid') /\ \E d \in Drvs : Dispatch(f, d, lastKid')
    <2>1. PICK d \in Drvs : Dispatch(f, d, lastKid')
      BY <1>3
    <2>2. lastKid' \in 1 .. lastKid' /\ lastKid' \in 0 .. MaxKid
      BY <1>0, <1>3, TimesAssumption
    <2>3. JobOK'
      BY <1>0, <2>1, <2>2, DispatchType DEF admin
    <2>4. CacheOK'
      BY <1>0, <1>3, <2>2, RememberType
    <2>5. SecretsOK'
      BY <1>0, <1>3, <2>2 DEF TypeOK, SecretsOK, Works
    <2> QED BY <1>1, <1>2, <2>3, <2>4, <2>5 DEF TypeOK
  <1>4. CASE /\ Fails
             /\ Remember(f, LocalKid(f)) /\ \E d \in Drvs : Dispatch(f, d, LocalKid(f))
             /\ UNCHANGED <<lastKid, secrets>>
    <2>1. PICK d \in Drvs : Dispatch(f, d, LocalKid(f))
      BY <1>4
    <2>2. JobOK'
      BY <1>0, <1>4, <2>1, DispatchType DEF admin
    <2>3. CacheOK'
      BY <1>0, <1>4, RememberType
    <2>4. SecretsOK'
      BY <1>0, <1>4, SpendType DEF TypeOK, SecretsOK, Fails
    <2> QED BY <1>1, <1>2, <2>2, <2>3, <2>4 DEF TypeOK
  <1> QED BY <1>3, <1>4 DEF InsertCurrent

LEMMA RotateType ==
  ASSUME TypeOK, RotateSecrets \/ PruneRetired
  PROVE  TypeOK'
  <1>0. UNCHANGED <<now, admin, cache, roots, conn, job>>
    BY DEF RotateSecrets, PruneRetired
  <1>1. (AdminOK /\ ConnOK)'
    BY <1>0 DEF TypeOK, AdminOK, ConnOK, admin
  <1>2. CASE RotateSecrets
    <2>1. lastKid' = lastKid + 1 /\ lastKid' \in 0 .. MaxKid /\ lastKid \in 0 .. MaxKid
      BY <1>2, TimesAssumption DEF RotateSecrets, TypeOK, SecretsOK
    <2>2. (CacheOK /\ JobOK)'
      BY <1>0, <2>1 DEF TypeOK, CacheOK, JobOK, admin
    <2>3. now \in 0 .. now
      BY DEF TypeOK, SecretsOK
    <2>4. SecretsOK'
      BY <1>0, <1>2, <2>1, <2>3, SpendType DEF RotateSecrets, TypeOK, SecretsOK
    <2> QED BY <1>1, <2>2, <2>4 DEF TypeOK
  <1>3. CASE PruneRetired
    <2>1. (CacheOK /\ JobOK)'
      BY <1>0, <1>3 DEF PruneRetired, TypeOK, CacheOK, JobOK, admin
    <2>2. SecretsOK'
      BY <1>0, <1>3, SpendType DEF PruneRetired, TypeOK, SecretsOK, Works, Fails
    <2> QED BY <1>1, <2>1, <2>2 DEF TypeOK
  <1> QED BY <1>2, <1>3

LEMMA UrlType ==
  ASSUME TypeOK, NEW f \in Frontends, HandleUrlRequest(f)
  PROVE  TypeOK'
  <1>1. job.kid \in 1 .. lastKid /\ job.kid \in Int
    BY DEF HandleUrlRequest, Verify, SecretKnown, Persisted, TypeOK, SecretsOK
  <1>2. CacheOK'
    BY <1>1 DEF HandleUrlRequest, TypeOK, CacheOK, secretRows
  <1> QED BY <1>2
    DEF HandleUrlRequest, TypeOK, AdminOK, SecretsOK, ConnOK, JobOK, admin, secretRows

\* Steps that change nothing but the connections.
LEMMA ConnectType ==
  ASSUME TypeOK, UNCHANGED <<now, admin, secretRows, cache, roots, job>>,
         events' \in 0 .. MaxEvents, ConnOK'
  PROVE  TypeOK'
  BY DEF TypeOK, AdminOK, SecretsOK, CacheOK, JobOK, admin, secretRows

LEMMA AuthType ==
  ASSUME TypeOK, AuthPublickey
  PROVE  TypeOK'
  <1>1. PICK k \in SshKeys :
          /\ bindings[k] # None
          /\ conn' = [conn EXCEPT ![Sshd] = Attributed("authenticated", k, bindings[k])]
    BY DEF AuthPublickey, Holder
  <1>2. k \in Credentials /\ k # None /\ bindings[k] \in tenants
    BY <1>1, NamesAssumption DEF TypeOK, AdminOK, Credentials, None
  <1>3. ConnOK'
    BY <1>1, <1>2 DEF AuthPublickey, Attributed, TypeOK, ConnOK, admin, Stages, Unattributed
  <1> QED BY <1>3, ConnectType DEF AuthPublickey, TypeOK, SecretsOK

LEMMA ExecType ==
  ASSUME TypeOK, ExecRequest
  PROVE  TypeOK'
  <1>1. ConnOK'
    BY DEF ExecRequest, TypeOK, ConnOK, admin, Stages, Unattributed
  <1> QED BY <1>1, ConnectType DEF ExecRequest, TypeOK, SecretsOK

LEMMA TlsType ==
  ASSUME TypeOK, TlsHandshake \/ TlsAttribute
  PROVE  TypeOK'
  <1>1. CASE TlsHandshake
    <2>1. PICK ca \in roots : conn' = [conn EXCEPT ![Mtlsd] =
                                 Attributed("attribute", ca, None)]
      BY <1>1 DEF TlsHandshake
    <2>2. ca \in Credentials /\ ca # None
      BY NamesAssumption DEF TypeOK, ConnOK, Credentials, None
    <2>3. ConnOK'
      BY <1>1, <2>1, <2>2 DEF TlsHandshake, Attributed, TypeOK, ConnOK, admin, Stages,
                                   Unattributed
    <2> QED BY <1>1, <2>3, ConnectType DEF TlsHandshake, TypeOK, SecretsOK
  <1>2. CASE TlsAttribute
    <2> DEFINE c == conn[Mtlsd].key
               t == bindings[c]
    <2>1. c \in Credentials \cup {None}
      BY DEF TypeOK, ConnOK
    <2>2. CASE t # None /\ Works /\ conn' = [conn EXCEPT ![Mtlsd] = Attributed("register", @.key, t)]
      <3>1. t \in tenants
        BY <1>2, <2>1, <2>2 DEF TlsAttribute, TypeOK, AdminOK, ConnOK
      <3>2. ConnOK'
        BY <1>2, <2>1, <2>2, <3>1
        DEF TlsAttribute, Attributed, TypeOK, ConnOK, admin, Stages, Unattributed
      <3> QED BY <1>2, <2>2, <3>2, ConnectType DEF TlsAttribute, TypeOK, SecretsOK, Works
    <2>3. CASE /\ IF t = None THEN Works ELSE Fails
               /\ conn' = [conn EXCEPT ![Mtlsd] = Closed]
      <3>1. ConnOK'
        BY <1>2, <2>3 DEF TlsAttribute, Closed, TypeOK, ConnOK, admin, Stages, Unattributed
      <3>2. events' \in 0 .. MaxEvents
        BY <2>3, SpendType DEF TypeOK, SecretsOK, Works, Fails
      <3> QED BY <1>2, <3>1, <3>2, ConnectType DEF TlsAttribute
    <2> QED BY <1>2, <2>2, <2>3 DEF TlsAttribute, Holder
  <1> QED BY <1>1, <1>2

LEMMA RegisterType ==
  ASSUME TypeOK, NEW f \in Frontends, RegisterTenant(f)
  PROVE  TypeOK'
  <1>1. conn[f].tenant \in tenants
    BY ServedTenant DEF RegisterTenant, Stages, Unattributed
  <1>2. tenants' = tenants /\ events' \in 0 .. MaxEvents
    BY <1>1, SpendType DEF RegisterTenant, TypeOK, SecretsOK, Works, Fails
  <1>3. PICK stage \in {"seed", "ready"} : conn' = [conn EXCEPT ![f].stage = stage]
    BY DEF RegisterTenant
  <1>4. ConnOK'
    BY <1>1, <1>2, <1>3 DEF RegisterTenant, TypeOK, ConnOK, Stages, Unattributed
  <1> QED BY <1>2, <1>4, ConnectType DEF RegisterTenant, admin

\* Seeding touches one row, of a provisioned tenant.
LEMMA SeedType ==
  ASSUME TypeOK, NEW t \in tenants, SeedDefault(t), UNCHANGED <<tenants, bindings>>,
         seeding' \in tenants \cup {None}
  PROVE  AdminOK'
  BY DEF SeedDefault, TypeOK, AdminOK

LEMMA SeedConnectedType ==
  ASSUME TypeOK, NEW f \in Frontends, SeedConnected(f)
  PROVE  TypeOK'
  <1>1. conn[f].tenant \in tenants
    BY ServedTenant DEF SeedConnected, Stages, Unattributed
  <1>2. AdminOK'
    BY <1>1, SeedType DEF SeedConnected, TypeOK, AdminOK
  <1>3. events' \in 0 .. MaxEvents
    BY SpendType DEF SeedConnected, TypeOK, SecretsOK, Works, Fails
  <1>4. ConnOK'
    BY <1>1 DEF SeedConnected, TypeOK, ConnOK, Stages, Unattributed
  <1> QED BY <1>2, <1>3, <1>4
    DEF SeedConnected, TypeOK, SecretsOK, CacheOK, JobOK, secretRows

LEMMA CloseType ==
  ASSUME TypeOK, NEW f \in Frontends, CloseConnection(f)
  PROVE  TypeOK'
  <1>1. ConnOK'
    BY DEF CloseConnection, Closed, TypeOK, ConnOK, admin, Stages, Unattributed
  <1> QED BY <1>1, ConnectType DEF CloseConnection, TypeOK, SecretsOK

LEMMA RestartType ==
  ASSUME TypeOK, NEW f \in Frontends, Restart(f)
  PROVE  TypeOK'
  <1>1. ConnOK'
    BY DEF Restart, Closed, TypeOK, ConnOK, admin, Stages, Unattributed
  <1>2. 0 \in 0 .. now
    BY TimesAssumption DEF TypeOK, SecretsOK
  <1>3. CacheOK'
    BY <1>2 DEF Restart, NoCache, TypeOK, CacheOK, secretRows
  <1> QED BY <1>1, <1>3, SpendType
    DEF Restart, TypeOK, AdminOK, SecretsOK, JobOK, admin, secretRows

LEMMA RefreshType ==
  ASSUME TypeOK, RefreshRoots
  PROVE  TypeOK'
  <1>1. ConnOK'
    BY DEF RefreshRoots, BoundCas, TypeOK, ConnOK, admin
  <1>2. events' \in 0 .. MaxEvents
    BY SpendType DEF RefreshRoots, TypeOK, SecretsOK, Works, Fails
  <1> QED BY <1>1, <1>2
    DEF RefreshRoots, TypeOK, AdminOK, SecretsOK, CacheOK, JobOK, admin, secretRows

\* The operator's commands leave well-formed rows, and tenants are never
\* removed, so what names one keeps naming one.
LEMMA AdminType ==
  ASSUME TypeOK, AdminCommand
  PROVE  TypeOK'
  <1>1. /\ UNCHANGED <<now, secretRows, cache, roots, conn, job>>
        /\ tenants \subseteq tenants' /\ events' \in 0 .. MaxEvents
    BY SpendType DEF AdminCommand, AddTenant, SeedAdded, AddSubstituter, RemoveSubstituter,
                     AddCredential, DeleteCredential, TypeOK, SecretsOK, Works, Fails
  <1>2. (SecretsOK /\ CacheOK /\ JobOK)'
    BY <1>1 DEF TypeOK, SecretsOK, CacheOK, JobOK, secretRows
  <1>3. ConnOK'
    BY <1>1, NamesAssumption DEF TypeOK, ConnOK
  <1>4. AdminOK'
    <2>1. ASSUME NEW t \in Tenants, AddTenant(t) PROVE AdminOK'
      BY <2>1 DEF AddTenant, TypeOK, AdminOK
    <2>2. ASSUME NEW t \in Tenants, AddSubstituter(t) \/ RemoveSubstituter(t) PROVE AdminOK'
      BY <2>2 DEF AddSubstituter, RemoveSubstituter, TypeOK, AdminOK
    <2>3. ASSUME NEW c \in Credentials, NEW t \in Tenants, AddCredential(c, t) PROVE AdminOK'
      BY <2>3 DEF AddCredential, TypeOK, AdminOK
    <2>4. ASSUME NEW c \in Credentials, DeleteCredential(c) PROVE AdminOK'
      BY <2>4 DEF DeleteCredential, TypeOK, AdminOK
    <2>5. CASE SeedAdded
      BY <2>5, SeedType DEF SeedAdded, TypeOK, AdminOK
    <2> QED BY <2>1, <2>2, <2>3, <2>4, <2>5 DEF AdminCommand
  <1> QED BY <1>2, <1>3, <1>4 DEF TypeOK

LEMMA TickType ==
  ASSUME TypeOK, Tick \/ JobReported
  PROVE  TypeOK'
  <1>1. CASE Tick
    <2>1. now \in Nat /\ now' = now + 1 /\ now' \in 0 .. MaxTime /\ 0 .. now \subseteq 0 .. now'
      BY <1>1, TimesAssumption DEF Tick, TypeOK, SecretsOK
    <2>2. SecretsOK'
      BY <1>1, <2>1 DEF Tick, TypeOK, SecretsOK, secretRows
    <2>3. (CacheOK /\ JobOK)'
      BY <1>1, <2>1 DEF Tick, TypeOK, CacheOK, JobOK, admin, secretRows
    <2> QED BY <1>1, <2>2, <2>3 DEF Tick, TypeOK, AdminOK, ConnOK, admin
  <1>2. CASE JobReported
    BY <1>2 DEF JobReported, TypeOK, AdminOK, SecretsOK, CacheOK, ConnOK, JobOK, admin, secretRows
  <1> QED BY <1>1, <1>2

LEMMA StepType ==
  ASSUME TypeOK, [Next]_vars
  PROVE  TypeOK'
  <1>1. ASSUME NEW f \in Frontends, FrontendStep(f) PROVE TypeOK'
    BY <1>1, MintCachedType, ReadType, InsertType, UrlType, RegisterType, SeedConnectedType,
       CloseType, RestartType DEF FrontendStep
  <1>2. CASE UNCHANGED vars
    BY <1>2 DEF vars, TypeOK, AdminOK, SecretsOK, CacheOK, ConnOK, JobOK
  <1> QED BY <1>1, <1>2, AdminType, AuthType, ExecType, TlsType, RefreshType, RotateType, TickType DEF Next

-----------------------------------------------------------------------------
(* Secrets                                                                 *)

\* What a frontend reads as the current secret is the one minted last.
LEMMA HighestIsLatest ==
  ASSUME TypeOK, LatestCurrent, NEW kid \in DOMAIN secrets, Highest(kid)
  PROVE  kid = lastKid /\ secrets[kid] = Never
  BY TimesAssumption DEF TypeOK, SecretsOK, LatestCurrent, Highest

\* Which steps touch the rows of secrets.
LEMMA SecretsChange ==
  ASSUME [Next]_vars
  PROVE  \/ UNCHANGED <<secrets, lastKid>> \/ RotateSecrets \/ PruneRetired
         \/ \E f \in Frontends : InsertCurrent(f)
  BY DEF Next, vars, FrontendStep, MintCached, ReadCurrent, HandleUrlRequest, RegisterTenant,
         SeedConnected, CloseConnection, Restart, AdminCommand, AddTenant, AddSubstituter,
         RemoveSubstituter, AddCredential, DeleteCredential, SeedAdded, AuthPublickey, ExecRequest,
         TlsHandshake, TlsAttribute, RefreshRoots, Tick, JobReported, secretRows

\* The latest secret stays current: whoever mints becomes the latest, and what
\* is pruned was rotated out.
LEMMA StepLatest ==
  ASSUME TypeOK, LatestCurrent, [Next]_vars
  PROVE  LatestCurrent'
  <1>1. CASE RotateSecrets
    BY <1>1 DEF RotateSecrets, LatestCurrent
  <1>2. CASE PruneRetired
    BY <1>2 DEF PruneRetired, LatestCurrent, Expired
  <1>3. ASSUME NEW f \in Frontends, InsertCurrent(f) PROVE LatestCurrent'
    BY <1>3 DEF InsertCurrent, LatestCurrent
  <1>4. CASE UNCHANGED <<secrets, lastKid>>
    BY <1>4 DEF LatestCurrent
  <1> QED BY <1>1, <1>2, <1>3, <1>4, SecretsChange

\* A secret that is Kept stays Kept: it is rotated out now, not before, and
\* pruned only when the retention has passed since.
LEMMA StepKept ==
  ASSUME TypeOK, TypeOK', [Next]_vars, NEW kid \in Int, NEW a \in Int, a <= now, Kept(kid, a)
  PROVE  KeptNext(kid, a)
  <1>0. now \in Int /\ now' \in Int /\ now <= now' /\ Retention \in Nat
    <2>1. now' = now \/ now' = now + 1
      BY DEF Next, vars, FrontendStep, MintCached, ReadCurrent, InsertCurrent, HandleUrlRequest,
             RegisterTenant, SeedConnected, CloseConnection, Restart, AdminCommand, AddTenant,
             AddSubstituter, RemoveSubstituter, AddCredential, DeleteCredential, SeedAdded,
             AuthPublickey, ExecRequest, TlsHandshake, TlsAttribute, RefreshRoots, Tick, JobReported,
             RotateSecrets, PruneRetired
    <2> QED BY <2>1, TimesAssumption DEF TypeOK, SecretsOK
  <1>1. CASE now > a + Retention
    BY <1>0, <1>1 DEF KeptNext
  <1>2. CASE kid \in DOMAIN secrets /\ (secrets[kid] = Never \/ secrets[kid] >= a)
    <2>1. CASE RotateSecrets
      BY <1>2, <2>1 DEF RotateSecrets, KeptNext, TypeOK, SecretsOK
    <2>2. CASE PruneRetired
      <3>1. CASE Expired(kid)
        <4>1. now > a + Retention
          BY <1>0, <1>2, <3>1 DEF Expired, TypeOK, SecretsOK, Never
        <4> QED BY <1>0, <4>1 DEF KeptNext
      <3>2. CASE ~Expired(kid)
        BY <1>2, <2>2, <3>2 DEF PruneRetired, KeptNext
      <3> QED BY <3>1, <3>2
    <2>3. ASSUME NEW f \in Frontends, InsertCurrent(f) PROVE KeptNext(kid, a)
      BY <1>2, <2>3 DEF InsertCurrent, KeptNext, TypeOK, SecretsOK
    <2>4. CASE UNCHANGED <<secrets, lastKid>>
      BY <1>2, <2>4 DEF KeptNext
    <2> QED BY <2>1, <2>2, <2>3, <2>4, SecretsChange
  <1> QED BY <1>1, <1>2 DEF Kept

\* A secret a frontend reads or inserts is current, so Kept since any time.
LEMMA FreshKept ==
  ASSUME TypeOK, LatestCurrent, NEW f \in Frontends, ReadCurrent(f) \/ InsertCurrent(f),
         cache' # cache \/ job' # job
  PROVE  \E kid : /\ Remember(f, kid) /\ \E d \in Drvs : Dispatch(f, d, kid)
                  /\ Persisted(kid) => \A a \in Int : KeptNext(kid, a)
  <1>1. CASE ReadCurrent(f)
    <2>1. PICK kid \in DOMAIN secrets, d \in Drvs :
            Highest(kid) /\ Remember(f, kid) /\ Dispatch(f, d, kid)
      BY <1>1 DEF ReadCurrent
    <2>2. secrets' = secrets /\ secrets[kid] = Never
      BY <1>1, <2>1, HighestIsLatest DEF ReadCurrent, secretRows
    <2> QED BY <2>1, <2>2 DEF KeptNext
  <1>2. CASE InsertCurrent(f)
    <2>1. CASE /\ lastKid' = lastKid + 1
               /\ secrets' = [k \in DOMAIN secrets \cup {lastKid'} |->
                                 IF k = lastKid' THEN Never ELSE secrets[k]]
               /\ Remember(f, lastKid') /\ \E d \in Drvs : Dispatch(f, d, lastKid')
      <3>1. \A a \in Int : KeptNext(lastKid', a)
        BY <2>1 DEF KeptNext
      <3> QED BY <2>1, <3>1
    <2>2. CASE Remember(f, LocalKid(f)) /\ \E d \in Drvs : Dispatch(f, d, LocalKid(f))
      BY <2>2 DEF LocalKid, Persisted
    <2> QED BY <1>2, <2>1, <2>2 DEF InsertCurrent
  <1> QED BY <1>1, <1>2

\* What a step does to a frontend's cached current secret.
LEMMA CacheChange ==
  ASSUME TypeOK, LatestCurrent, [Next]_vars, NEW g \in Frontends
  PROVE  \/ cache'[g].current = cache[g].current /\ cache'[g].at = cache[g].at
         \/ Persisted(cache'[g].current) => KeptNext(cache'[g].current, cache'[g].at)
  <1>0. cache \in [Frontends -> [current: Int, at: 0 .. now, byKid: SUBSET Int]] /\ now \in Int
    BY DEF TypeOK, CacheOK, SecretsOK
  <1>1. ASSUME NEW f \in Frontends, ReadCurrent(f) \/ InsertCurrent(f), cache' # cache
        PROVE  \/ cache'[g].current = cache[g].current /\ cache'[g].at = cache[g].at
               \/ Persisted(cache'[g].current) => KeptNext(cache'[g].current, cache'[g].at)
    <2>1. PICK kid : /\ Remember(f, kid)
                     /\ Persisted(kid) => \A a \in Int : KeptNext(kid, a)
      BY <1>1, FreshKept
    <2>2. CASE g = f
      BY <1>0, <2>1, <2>2 DEF Remember
    <2>3. CASE g # f
      BY <1>0, <2>1, <2>3 DEF Remember
    <2> QED BY <2>2, <2>3
  <1>2. ASSUME NEW f \in Frontends, HandleUrlRequest(f)
        PROVE  cache'[g].current = cache[g].current /\ cache'[g].at = cache[g].at
    BY <1>0, <1>2 DEF HandleUrlRequest
  <1>3. ASSUME NEW f \in Frontends, Restart(f)
        PROVE  \/ cache'[g].current = cache[g].current /\ cache'[g].at = cache[g].at
               \/ ~Persisted(cache'[g].current)
    BY <1>0, <1>3 DEF Restart, NoCache, Persisted
  <1>4. \/ cache' = cache
        \/ \E f \in Frontends : \/ ReadCurrent(f) \/ InsertCurrent(f)
                               \/ HandleUrlRequest(f) \/ Restart(f)
    BY DEF Next, vars, FrontendStep, MintCached, RegisterTenant, SeedConnected, CloseConnection,
           AdminCommand, AddTenant, AddSubstituter, RemoveSubstituter, AddCredential,
           DeleteCredential, SeedAdded, AuthPublickey, ExecRequest, TlsHandshake, TlsAttribute, RefreshRoots,
           Tick, JobReported, RotateSecrets, PruneRetired
  <1> QED BY <1>1, <1>2, <1>3, <1>4

\* What a step does to the job: a token minted from the cache names a secret
\* that was current less than a cache lifetime ago.
LEMMA JobChange ==
  ASSUME TypeOK, TypeOK', LatestCurrent, SecretsKept, [Next]_vars, job' # job, job' # NoJob,
         Persisted(job'.kid)
  PROVE  KeptNext(job'.kid, job'.at - CacheTtl)
  <1>0. now \in Int /\ CacheTtl \in Nat /\ Retention \in Nat
    BY TimesAssumption DEF TypeOK, SecretsOK
  <1>1. ASSUME NEW f \in Frontends, ReadCurrent(f) \/ InsertCurrent(f)
        PROVE  KeptNext(job'.kid, job'.at - CacheTtl)
    <2>1. PICK kid : /\ \E d \in Drvs : Dispatch(f, d, kid)
                     /\ Persisted(kid) => \A a \in Int : KeptNext(kid, a)
      BY <1>1, FreshKept
    <2>2. job'.kid = kid /\ job'.at - CacheTtl \in Int
      BY <1>0, <2>1 DEF Dispatch, Sign
    <2> QED BY <2>1, <2>2
  <1>2. ASSUME NEW f \in Frontends, MintCached(f)
        PROVE  KeptNext(job'.kid, job'.at - CacheTtl)
    <2> DEFINE at == cache[f].at
    <2>1. /\ job'.kid = cache[f].current /\ job'.at = now
          /\ UNCHANGED <<now, secrets>> /\ now - at < CacheTtl
      BY <1>2 DEF MintCached, Dispatch, Sign, CachedCurrent, secretRows
    <2>2. at \in Int /\ cache[f].current \in DOMAIN secrets => secrets[cache[f].current] \in Int
      BY DEF TypeOK, CacheOK, SecretsOK, Never
    <2>5. at \in Int
      BY DEF TypeOK, CacheOK
    <2>3. Kept(cache[f].current, at)
      BY <2>1 DEF SecretsKept
    <2>4. Kept(cache[f].current, now - CacheTtl)
      BY <1>0, <2>1, <2>2, <2>5, <2>3 DEF Kept
    <2> QED BY <2>1, <2>4 DEF Kept, KeptNext
  <1>3. \E f \in Frontends : ReadCurrent(f) \/ InsertCurrent(f) \/ MintCached(f)
    BY DEF Next, vars, FrontendStep, HandleUrlRequest, RegisterTenant, SeedConnected,
           CloseConnection, Restart, AdminCommand, AddTenant, AddSubstituter, RemoveSubstituter,
           AddCredential, DeleteCredential, SeedAdded, AuthPublickey, ExecRequest, TlsHandshake, TlsAttribute,
           RefreshRoots, Tick, JobReported, RotateSecrets, PruneRetired
  <1> QED BY <1>1, <1>2, <1>3

LEMMA StepSecretsKept ==
  ASSUME TypeOK, TypeOK', LatestCurrent, SecretsKept, [Next]_vars
  PROVE  SecretsKept'
  <1>1. ASSUME NEW f \in Frontends, Persisted(cache'[f].current)
        PROVE  KeptNext(cache'[f].current, cache'[f].at)
    <2>1. cache[f].current \in Int /\ cache[f].at \in Int /\ cache[f].at <= now
      BY DEF TypeOK, CacheOK, SecretsOK
    <2>2. CASE cache'[f].current = cache[f].current /\ cache'[f].at = cache[f].at
      <3>1. Kept(cache[f].current, cache[f].at)
        BY <1>1, <2>2 DEF SecretsKept
      <3> QED BY <2>1, <2>2, <3>1, StepKept
    <2> QED BY <1>1, <2>2, CacheChange
  <1>2. ASSUME job' # NoJob, Persisted(job'.kid)
        PROVE  KeptNext(job'.kid, job'.at - CacheTtl)
    <2>1. CASE job' = job
      <3>1. /\ job.kid \in Int /\ job.at - CacheTtl \in Int /\ job.at - CacheTtl <= now
            /\ Kept(job.kid, job.at - CacheTtl)
        BY <1>2, <2>1, TimesAssumption DEF TypeOK, JobOK, SecretsOK, SecretsKept
      <3> QED BY <2>1, <3>1, StepKept
    <2> QED BY <1>2, <2>1, JobChange
  <1> QED BY <1>1, <1>2 DEF SecretsKept, Kept, KeptNext, Persisted

-----------------------------------------------------------------------------
(* URLs                                                                    *)

\* The worker's formulas and the frontend's agree, and inputs of every tier
\* are within what a download may name.
LEMMA WorkerKeysPermitted ==
  ASSUME NEW j
  PROVE  /\ \A k \in UploadKeys(j) : key_is_permitted(k, FALSE, j.tenant) /\ k \in Allowed(j)
         /\ \A k \in InputKeys(j) : key_is_permitted(k, TRUE, j.tenant)
  <1>1. ASSUME NEW k \in UploadKeys(j)
        PROVE  key_is_permitted(k, FALSE, j.tenant) /\ k \in Allowed(j)
    <2>1. CASE k = worker_log_key(j.tenant, j.drv)
      BY <2>1 DEF worker_log_key, log_key, key, key_is_permitted, Allowed
    <2>2. ASSUME NEW p \in DrvOutputs[j.drv], k = worker_nar_key(j.tenant, p)
          PROVE  key_is_permitted(k, FALSE, j.tenant) /\ k \in Allowed(j)
      <3>1. k = nar_key(j.tenant, "built", p)
        BY <2>2 DEF worker_nar_key, nar_key, key
      <3>2. k.owner = j.tenant /\ k.ns = "nar"
        BY <2>2 DEF worker_nar_key, key
      <3> QED BY <3>1, <3>2 DEF key_is_permitted, Allowed
    <2> QED BY <1>1, <2>1, <2>2 DEF UploadKeys
  <1>2. ASSUME NEW k \in InputKeys(j)
        PROVE  key_is_permitted(k, TRUE, j.tenant)
    <2>1. ASSUME NEW s \in Slugs, NEW p \in Paths, k = substituted_nar_key(s, p)
          PROVE  key_is_permitted(k, TRUE, j.tenant)
      BY <2>1 DEF substituted_nar_key, key, key_is_permitted, is_shared_substituted_key
    <2>2. ASSUME NEW tier \in {"verified", "built", "quarantined"}, NEW p \in Paths,
                 k = nar_key(j.tenant, tier, p)
          PROVE  key_is_permitted(k, TRUE, j.tenant)
      <3>1. CASE tier = "verified"
        BY <2>2, <3>1 DEF nar_key, key, key_is_permitted, is_shared_verified_key
      <3>2. CASE tier = "built"
        BY <2>2, <3>2 DEF nar_key, key, key_is_permitted
      <3>3. CASE tier = "quarantined"
        BY <2>2, <3>3 DEF nar_key, key, key_is_permitted
      <3> QED BY <3>1, <3>2, <3>3
    <2> QED BY <1>2, <2>1, <2>2 DEF InputKeys
  <1> QED BY <1>1, <1>2

\* A kept secret within its window is in the database, so any frontend finds it.
LEMMA KeptHonoured ==
  ASSUME TypeOK, SecretsKept
  PROVE  TokenHonoured
  <1> SUFFICES ASSUME job # NoJob, Persisted(job.kid),
                      now - job.at <= Retention - CacheTtl, NEW f \in Frontends
               PROVE  /\ Granted(f, job, UploadKeys(job), FALSE)
                      /\ Granted(f, job, InputKeys(job), TRUE)
    BY DEF TokenHonoured
  <1>1. Kept(job.kid, job.at - CacheTtl)
    BY DEF SecretsKept
  <1>2. ~(now > job.at - CacheTtl + Retention)
    BY TimesAssumption DEF TypeOK, JobOK, SecretsOK
  <1>3. SecretKnown(f, job.kid)
    BY <1>1, <1>2 DEF Kept, SecretKnown
  <1> QED BY <1>3, WorkerKeysPermitted DEF Granted, Verify

\* What a capability stands for is nobody else's.
LEMMA AllowedIsOwn ==
  ASSUME TypeOK
  PROVE  OwnArtifactsOnly
  <1> DEFINE w == [tenant |-> job.tenant, drv |-> job.drv]
  <1> SUFFICES ASSUME job # NoJob, NEW f \in Frontends, NEW k \in ObjectKeys,
                      Foreign(w, k), k \in Allowed(job)
               PROVE  FALSE
    BY DEF OwnArtifactsOnly, Granted
  <1>0. job \in [tenant: tenants, drv: Drvs, kid: Int, at: 0 .. now] /\ job.tenant \in Tenants
    BY DEF TypeOK, JobOK, AdminOK
  <1>1. w \in Writers /\ w.tenant = job.tenant /\ w.drv = job.drv
    BY <1>0 DEF Writers
  <1>2. /\ k.owner = w.tenant
        /\ \/ k.ns = "log" /\ k.hash = w.drv
           \/ k.ns = "nar" /\ k.hash \in DrvOutputs[w.drv]
    BY DEF Allowed, nar_key, log_key, key
  <1> HIDE DEF w
  <1>3. ASSUME NEW o \in Writers \ {w},
               k \in Allowed(o) \ {nar_key(o.tenant, "built", p) : p \in Common(w, o)}
        PROVE  FALSE
    <2>1. /\ k.owner = o.tenant
          /\ \/ k.ns = "log" /\ k.hash = o.drv
             \/ k.ns = "nar" /\ k.hash \in DrvOutputs[o.drv]
      BY <1>3 DEF Allowed, nar_key, log_key, key
    <2>2. o.tenant = w.tenant => o.drv # w.drv
      BY <1>1 DEF Writers
    <2>3. k.ns = "nar" /\ k.hash \in Common(w, o)
      BY <1>2, <2>1, <2>2 DEF Common
    <2>4. k = nar_key(o.tenant, "built", k.hash)
      BY <2>1, <2>3 DEF ObjectKeys, nar_key, key
    <2> QED BY <1>3, <2>3, <2>4
  <1>4. ASSUME NEW t \in Tenants, NEW p \in Paths, NEW tier \in {"verified", "quarantined"},
               k = nar_key(t, tier, p)
        PROVE  FALSE
    BY <1>0, <1>1, <1>2, <1>4, NamesAssumption DEF nar_key, key, Shared
  <1>5. ASSUME NEW s \in Slugs, NEW p \in Paths, k = substituted_nar_key(s, p)
        PROVE  FALSE
    BY <1>0, <1>1, <1>2, <1>5, NamesAssumption DEF substituted_nar_key, key
  <1> QED BY <1>3, <1>4, <1>5 DEF Foreign

-----------------------------------------------------------------------------
(* Theorems                                                                *)

\* The inductive invariant holds from the start and through every step.
THEOREM Inductive == Spec => []IInv
  <1>1. Init => IInv
    <2> SUFFICES ASSUME Init PROVE IInv
      OBVIOUS
    <2>1. LatestCurrent
      BY DEF Init, LatestCurrent
    <2>2. SecretsKept
      BY DEF Init, SecretsKept, NoCache, Persisted
    <2> QED BY <2>1, <2>2, InitType DEF IInv
  <1>2. IInv /\ [Next]_vars => IInv'
    BY StepType, StepLatest, StepSecretsKept DEF IInv
  <1> QED BY <1>1, <1>2, PTL DEF Spec

\* Rows, caches, connections and tokens keep their shape; what is bound,
\* served or dispatched belongs to a provisioned tenant.
THEOREM TypeCorrect == Spec => []TypeOK
  <1>1. IInv => TypeOK
    BY DEF IInv
  <1> QED BY <1>1, Inductive, PTL

\* The secret a frontend reads as current has never been rotated out.
THEOREM CurrentSecret == Spec => []HighestIsCurrent
  <1>1. IInv => HighestIsCurrent
    BY HighestIsLatest DEF IInv, HighestIsCurrent
  <1> QED BY <1>1, Inductive, PTL

\* The secrets behind caches and tokens outlive their use.
THEOREM CachedSecretsKept == Spec => []SecretsKept
  <1>1. IInv => SecretsKept
    BY DEF IInv
  <1> QED BY <1>1, Inductive, PTL

\* A job's token is honoured by every frontend for the retention less the
\* cache lifetime.
THEOREM TokensHonoured == Spec => []TokenHonoured
  <1>1. IInv => TokenHonoured
    BY KeptHonoured DEF IInv
  <1> QED BY <1>1, Inductive, PTL

\* A job's token buys uploads of what its own derivation declares, and of its
\* log, only; whatever outputs derivations share.
THEOREM UploadsConfined == Spec => []OwnArtifactsOnly
  <1>1. IInv => OwnArtifactsOnly
    BY AllowedIsOwn DEF IInv
  <1> QED BY <1>1, Inductive, PTL
=============================================================================
