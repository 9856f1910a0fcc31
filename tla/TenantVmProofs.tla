--------------------------- MODULE TenantVmProofs ---------------------------
(***************************************************************************)
(* Proofs about TenantVm, for any jobs, tenants and inputs.                *)
(***************************************************************************)
EXTENDS TenantVm, TLAPS

(* A job is at hand between taking and reporting it; before the loop is    *)
(* left it has no outcome but a failure.                                   *)
AtHand ==
    /\ pc = "idle" <=> job = NoJob
    /\ pc \in Busy \ {"upload"} => outcome \in {"none", "failed", "guestHang"}

(* A warm VM sits on a formatted image, and only those hold paths.         *)
Images ==
    /\ warm \in Tenants => img[warm] = "formatted"
    /\ \A t \in Tenants : img[t] # "formatted" => store[t] = {}

(* Nothing is registered between a FRESH boot and the first inputs.        *)
FreshStore == pc \in {"key", "dial", "fetch"} /\ fresh => store[Tenant] = {}

(* The inputs stay where they were registered until a wipe.                *)
InputsKept ==
    pc \in {"reset", "build", "query", "reconnect"} /\ ~Rebooted
        => Inputs[job] \subseteq store[warm]

WipeIsFlagged == pc = "wipe" => Rebooted

Count(b) == IF b THEN 1 ELSE 0
Retries == Count(enospcRetried) + Count(oomLocalRetried) + Count(guestHangRetried)

(* One build per flag that is set, and the first.                          *)
AttemptsCounted ==
    /\ pc \in {"idle", "ensure", "dial", "fetch"} =>
          ~enospcRetried /\ ~oomLocalRetried /\ ~guestHangRetried
    /\ pc = "key" /\ ~Rebooted => ~oomLocalRetried
    /\ pc \in {"idle", "ensure", "key", "dial", "fetch", "reset", "wipe", "reconnect"} =>
          attempts = Retries
    /\ pc \in {"build", "query"} => attempts = Retries + 1

(* What the guest remembers is of its own tenant's jobs, and a build whose *)
(* RESET cleared everything can only meet its own.                         *)
Blame ==
    /\ warm = NoTenant => fault = NoFault /\ lingering = {}
    /\ pc = "key" => warm = NoTenant
    /\ fault # NoFault => TenantOf[fault.by] = warm
    /\ \A j \in lingering : TenantOf[j] = warm
    /\ pc \in {"build", "query"} =>
          /\ fault.by \in {job, NoJob} \/ carried
          /\ OthersLinger => carried

IInv ==
    /\ TypeOK
    /\ AtHand
    /\ OwnVm
    /\ Images
    /\ FreshStore
    /\ InputsKept
    /\ WipeIsFlagged
    /\ AttemptsCounted
    /\ Blame

(* What VerdictIsEarned says of a step.                                    *)
Earned ==
    outcome' # outcome /\ outcome' \in Exhausted =>
        \/ fault.by = job
        \/ carried /\ fault.by \in Jobs /\ TenantOf[fault.by] = Tenant
-----------------------------------------------------------------------------
LEMMA TakeJobPreserves ==
    ASSUME IInv, NEW j \in Jobs, TakeJob(j)
    PROVE  IInv' /\ Earned
<1> USE JobsAssumption, ConfigAssumption DEF IInv, TakeJob, Finish, Settle, Goto,
     Tenant, OnVm, Busy, poolVars, faultVars, retryVars
<1>1. TypeOK'
  BY DEF TypeOK, AtHand, OwnVm, AttemptsCounted, Retries, Count, Faults, Ooms, NoFault,
         Outcomes, Paths
<1>2. AtHand'
  BY DEF TypeOK, AtHand
<1>3. OwnVm'
  BY DEF TypeOK, AtHand, OwnVm, AttemptsCounted, WipeIsFlagged, Rebooted
<1>4. Images' /\ FreshStore'
  BY DEF TypeOK, OwnVm, Images, FreshStore, AttemptsCounted, Rebooted
<1>5. InputsKept' /\ WipeIsFlagged'
  BY DEF TypeOK, OwnVm, InputsKept, WipeIsFlagged, FreshStore, AttemptsCounted, Rebooted
<1>6. AttemptsCounted'
  BY DEF TypeOK, AtHand, AttemptsCounted, Retries, Count, Rebooted, WipeIsFlagged
<1>7. Blame'
  BY DEF TypeOK, AtHand, OwnVm, Blame, NoFault, OthersLinger
<1>8. Earned
  BY DEF TypeOK, AtHand, OwnVm, Blame, NoFault, Earned, Exhausted
<1> HIDE DEF TakeJob, Finish, Settle, Goto, Tenant, OnVm, Busy, poolVars,
     faultVars, retryVars
<1> QED BY <1>1, <1>2, <1>3, <1>4, <1>5, <1>6, <1>7, <1>8 DEF IInv

LEMMA ReuseVmPreserves ==
    ASSUME IInv, ReuseVm
    PROVE  IInv' /\ Earned
<1> USE JobsAssumption, ConfigAssumption DEF IInv, ReuseVm, Finish, Settle, Goto,
     Tenant, OnVm, Busy, poolVars, faultVars, retryVars
<1>1. TypeOK'
  BY DEF TypeOK, AtHand, OwnVm, AttemptsCounted, Retries, Count, Faults, Ooms, NoFault,
         Outcomes, Paths
<1>2. AtHand'
  BY DEF TypeOK, AtHand
<1>3. OwnVm'
  BY DEF TypeOK, AtHand, OwnVm, AttemptsCounted, WipeIsFlagged, Rebooted
<1>4. Images' /\ FreshStore'
  BY DEF TypeOK, OwnVm, Images, FreshStore, AttemptsCounted, Rebooted
<1>5. InputsKept' /\ WipeIsFlagged'
  BY DEF TypeOK, OwnVm, InputsKept, WipeIsFlagged, FreshStore, AttemptsCounted, Rebooted
<1>6. AttemptsCounted'
  BY DEF TypeOK, AtHand, AttemptsCounted, Retries, Count, Rebooted, WipeIsFlagged
<1>7. Blame'
  BY DEF TypeOK, AtHand, OwnVm, Blame, NoFault, OthersLinger
<1>8. Earned
  BY DEF TypeOK, AtHand, OwnVm, Blame, NoFault, Earned, Exhausted
<1> HIDE DEF ReuseVm, Finish, Settle, Goto, Tenant, OnVm, Busy, poolVars,
     faultVars, retryVars
<1> QED BY <1>1, <1>2, <1>3, <1>4, <1>5, <1>6, <1>7, <1>8 DEF IInv

LEMMA BootVmPreserves ==
    ASSUME IInv, BootVm
    PROVE  IInv' /\ Earned
<1> USE JobsAssumption, ConfigAssumption DEF IInv, BootVm, NewGuest, BootsOn,
     BootFailsOn, Booted, Finish, Settle, Goto, Tenant, OnVm, Busy, poolVars,
     faultVars, retryVars
<1>1. TypeOK'
  <2>1. /\ fresh' \in BOOLEAN /\ enospcRetried' \in BOOLEAN /\ carried' \in BOOLEAN
        /\ oomLocalRetried' \in BOOLEAN /\ guestHangRetried' \in BOOLEAN
    BY Zenon DEF TypeOK
  <2>2. /\ img' \in [Tenants -> {"absent", "blank", "formatted"}]
        /\ store' \in [Tenants -> SUBSET Paths]
        /\ warm' \in Tenants \cup {NoTenant} /\ guest' \in {"up", "hung", "dead"}
    BY DEF TypeOK, AtHand, OwnVm, Paths
  <2>3. fault' \in [kind : Faults, by : Jobs] \cup {NoFault} /\ lingering' \subseteq Jobs
    BY DEF TypeOK, Faults, Ooms
  <2>4. /\ job' \in Jobs \cup {NoJob} /\ pc' \in {"idle"} \cup Busy
        /\ pc' \in Busy => job' \in Jobs
        /\ outcome' \in Outcomes \cup {"none"} /\ done' \subseteq Jobs
    BY DEF TypeOK, AtHand, Outcomes
  <2>5. attempts' \in 0 .. 4 /\ restarts' \in Nat
    BY DEF TypeOK, AttemptsCounted, Retries, Count
  <2> QED BY <2>1, <2>2, <2>3, <2>4, <2>5 DEF TypeOK
<1>2. AtHand'
  BY DEF TypeOK, AtHand
<1>3. OwnVm'
  BY DEF TypeOK, AtHand, OwnVm, AttemptsCounted, WipeIsFlagged, Rebooted
<1>4. Images' /\ FreshStore'
  BY DEF TypeOK, OwnVm, Images, FreshStore, AttemptsCounted, Rebooted
<1>5. InputsKept' /\ WipeIsFlagged'
  BY DEF TypeOK, OwnVm, InputsKept, WipeIsFlagged, FreshStore, AttemptsCounted, Rebooted
<1>6. AttemptsCounted'
  BY DEF TypeOK, AtHand, AttemptsCounted, Retries, Count, Rebooted, WipeIsFlagged
<1>7. Blame'
  BY DEF TypeOK, AtHand, OwnVm, Blame, NoFault, OthersLinger
<1>8. Earned
  BY DEF TypeOK, AtHand, OwnVm, Blame, NoFault, Earned, Exhausted
<1> HIDE DEF BootVm, NewGuest, BootsOn, BootFailsOn, Booted, Finish, Settle, Goto,
     Tenant, OnVm, Busy, poolVars, faultVars, retryVars
<1> QED BY <1>1, <1>2, <1>3, <1>4, <1>5, <1>6, <1>7, <1>8 DEF IInv

LEMMA WipeFailsPreserves ==
    ASSUME IInv, WipeFails
    PROVE  IInv' /\ Earned
<1> USE JobsAssumption, ConfigAssumption DEF IInv, WipeFails, NewGuest, Finish,
     Settle, Goto, Tenant, OnVm, Busy, poolVars, faultVars, retryVars
<1>1. TypeOK'
  BY DEF TypeOK, AtHand, OwnVm, AttemptsCounted, Retries, Count, Faults, Ooms, NoFault,
         Outcomes, Paths
<1>2. AtHand'
  BY DEF TypeOK, AtHand
<1>3. OwnVm'
  BY DEF TypeOK, AtHand, OwnVm, AttemptsCounted, WipeIsFlagged, Rebooted
<1>4. Images' /\ FreshStore'
  BY DEF TypeOK, OwnVm, Images, FreshStore, AttemptsCounted, Rebooted
<1>5. InputsKept' /\ WipeIsFlagged'
  BY DEF TypeOK, OwnVm, InputsKept, WipeIsFlagged, FreshStore, AttemptsCounted, Rebooted
<1>6. AttemptsCounted'
  BY DEF TypeOK, AtHand, AttemptsCounted, Retries, Count, Rebooted, WipeIsFlagged
<1>7. Blame'
  BY DEF TypeOK, AtHand, OwnVm, Blame, NoFault, OthersLinger
<1>8. Earned
  BY DEF TypeOK, AtHand, OwnVm, Blame, NoFault, Earned, Exhausted
<1> HIDE DEF WipeFails, NewGuest, Finish, Settle, Goto, Tenant, OnVm, Busy,
     poolVars, faultVars, retryVars
<1> QED BY <1>1, <1>2, <1>3, <1>4, <1>5, <1>6, <1>7, <1>8 DEF IInv

LEMMA WipeAndRebootPreserves ==
    ASSUME IInv, WipeAndReboot
    PROVE  IInv' /\ Earned
<1> USE JobsAssumption, ConfigAssumption DEF IInv, WipeAndReboot, NewGuest,
     BootsOn, BootFailsOn, Booted, Finish, Settle, Goto, Tenant, OnVm, Busy,
     poolVars, faultVars, retryVars
<1>1. TypeOK'
  BY DEF TypeOK, AtHand, OwnVm, AttemptsCounted, Retries, Count, Faults, Ooms, NoFault,
         Outcomes, Paths
<1>2. AtHand'
  BY DEF TypeOK, AtHand
<1>3. OwnVm'
  BY DEF TypeOK, AtHand, OwnVm, AttemptsCounted, WipeIsFlagged, Rebooted
<1>4. Images' /\ FreshStore'
  BY DEF TypeOK, OwnVm, Images, FreshStore, AttemptsCounted, Rebooted
<1>5. InputsKept' /\ WipeIsFlagged'
  BY DEF TypeOK, OwnVm, InputsKept, WipeIsFlagged, FreshStore, AttemptsCounted, Rebooted
<1>6. AttemptsCounted'
  BY DEF TypeOK, AtHand, AttemptsCounted, Retries, Count, Rebooted, WipeIsFlagged
<1>7. Blame'
  BY DEF TypeOK, AtHand, OwnVm, Blame, NoFault, OthersLinger
<1>8. Earned
  BY DEF TypeOK, AtHand, OwnVm, Blame, NoFault, Earned, Exhausted
<1> HIDE DEF WipeAndReboot, NewGuest, BootsOn, BootFailsOn, Booted, Finish,
     Settle, Goto, Tenant, OnVm, Busy, poolVars, faultVars, retryVars
<1> QED BY <1>1, <1>2, <1>3, <1>4, <1>5, <1>6, <1>7, <1>8 DEF IInv

LEMMA PushKeyPreserves ==
    ASSUME IInv, PushKey
    PROVE  IInv' /\ Earned
<1> USE JobsAssumption, ConfigAssumption DEF IInv, PushKey, Rebooted, Finish,
     Settle, Goto, Tenant, OnVm, Busy, poolVars, faultVars, retryVars
<1>1. TypeOK'
  BY DEF TypeOK, AtHand, OwnVm, AttemptsCounted, Retries, Count, Faults, Ooms, NoFault,
         Outcomes, Paths
<1>2. AtHand'
  BY DEF TypeOK, AtHand
<1>3. OwnVm'
  BY DEF TypeOK, AtHand, OwnVm, AttemptsCounted, WipeIsFlagged, Rebooted
<1>4. Images' /\ FreshStore'
  BY DEF TypeOK, OwnVm, Images, FreshStore, AttemptsCounted, Rebooted
<1>5. InputsKept' /\ WipeIsFlagged'
  BY DEF TypeOK, OwnVm, InputsKept, WipeIsFlagged, FreshStore, AttemptsCounted, Rebooted
<1>6. AttemptsCounted'
  BY DEF TypeOK, AtHand, AttemptsCounted, Retries, Count, Rebooted, WipeIsFlagged
<1>7. Blame'
  BY DEF TypeOK, AtHand, OwnVm, Blame, NoFault, OthersLinger
<1>8. Earned
  BY DEF TypeOK, AtHand, OwnVm, Blame, NoFault, Earned, Exhausted
<1> HIDE DEF PushKey, Rebooted, Finish, Settle, Goto, Tenant, OnVm, Busy,
     poolVars, faultVars, retryVars
<1> QED BY <1>1, <1>2, <1>3, <1>4, <1>5, <1>6, <1>7, <1>8 DEF IInv

LEMMA KeyRejectedPreserves ==
    ASSUME IInv, KeyRejected
    PROVE  IInv' /\ Earned
<1> USE JobsAssumption, ConfigAssumption DEF IInv, KeyRejected, Rebooted,
     NewGuest, Finish, Settle, Goto, Tenant, OnVm, Busy, poolVars, faultVars,
     retryVars
<1>1. TypeOK'
  <2>1. /\ fresh' \in BOOLEAN /\ enospcRetried' \in BOOLEAN /\ carried' \in BOOLEAN
        /\ oomLocalRetried' \in BOOLEAN /\ guestHangRetried' \in BOOLEAN
    BY Zenon DEF TypeOK
  <2>2. /\ img' \in [Tenants -> {"absent", "blank", "formatted"}]
        /\ store' \in [Tenants -> SUBSET Paths]
        /\ warm' \in Tenants \cup {NoTenant} /\ guest' \in {"up", "hung", "dead"}
    BY DEF TypeOK, AtHand, OwnVm, Paths
  <2>3. fault' \in [kind : Faults, by : Jobs] \cup {NoFault} /\ lingering' \subseteq Jobs
    BY DEF TypeOK, Faults, Ooms
  <2>4. /\ job' \in Jobs \cup {NoJob} /\ pc' \in {"idle"} \cup Busy
        /\ pc' \in Busy => job' \in Jobs
        /\ outcome' \in Outcomes \cup {"none"} /\ done' \subseteq Jobs
    BY DEF TypeOK, AtHand, Outcomes
  <2>5. attempts' \in 0 .. 4 /\ restarts' \in Nat
    BY DEF TypeOK, AttemptsCounted, Retries, Count
  <2> QED BY <2>1, <2>2, <2>3, <2>4, <2>5 DEF TypeOK
<1>2. AtHand'
  BY DEF TypeOK, AtHand
<1>3. OwnVm'
  BY DEF TypeOK, AtHand, OwnVm, AttemptsCounted, WipeIsFlagged, Rebooted
<1>4. Images' /\ FreshStore'
  BY DEF TypeOK, OwnVm, Images, FreshStore, AttemptsCounted, Rebooted
<1>5. InputsKept' /\ WipeIsFlagged'
  BY DEF TypeOK, OwnVm, InputsKept, WipeIsFlagged, FreshStore, AttemptsCounted, Rebooted
<1>6. AttemptsCounted'
  BY DEF TypeOK, AtHand, AttemptsCounted, Retries, Count, Rebooted, WipeIsFlagged
<1>7. Blame'
  BY DEF TypeOK, AtHand, OwnVm, Blame, NoFault, OthersLinger
<1>8. Earned
  BY DEF TypeOK, AtHand, OwnVm, Blame, NoFault, Earned, Exhausted
<1> HIDE DEF KeyRejected, Rebooted, NewGuest, Finish, Settle, Goto, Tenant, OnVm,
     Busy, poolVars, faultVars, retryVars
<1> QED BY <1>1, <1>2, <1>3, <1>4, <1>5, <1>6, <1>7, <1>8 DEF IInv

LEMMA DialPreserves ==
    ASSUME IInv, Dial
    PROVE  IInv' /\ Earned
<1> USE JobsAssumption, ConfigAssumption DEF IInv, Dial, Finish, Settle, Goto,
     Tenant, OnVm, Busy, poolVars, faultVars, retryVars
<1>1. TypeOK'
  <2>1. /\ fresh' \in BOOLEAN /\ enospcRetried' \in BOOLEAN /\ carried' \in BOOLEAN
        /\ oomLocalRetried' \in BOOLEAN /\ guestHangRetried' \in BOOLEAN
    BY Zenon DEF TypeOK
  <2>2. /\ img' \in [Tenants -> {"absent", "blank", "formatted"}]
        /\ store' \in [Tenants -> SUBSET Paths]
        /\ warm' \in Tenants \cup {NoTenant} /\ guest' \in {"up", "hung", "dead"}
    BY DEF TypeOK, AtHand, OwnVm, Paths
  <2>3. fault' \in [kind : Faults, by : Jobs] \cup {NoFault} /\ lingering' \subseteq Jobs
    BY DEF TypeOK, Faults, Ooms
  <2>4. /\ job' \in Jobs \cup {NoJob} /\ pc' \in {"idle"} \cup Busy
        /\ pc' \in Busy => job' \in Jobs
        /\ outcome' \in Outcomes \cup {"none"} /\ done' \subseteq Jobs
    BY DEF TypeOK, AtHand, Outcomes
  <2>5. attempts' \in 0 .. 4 /\ restarts' \in Nat
    BY DEF TypeOK, AttemptsCounted, Retries, Count
  <2> QED BY <2>1, <2>2, <2>3, <2>4, <2>5 DEF TypeOK
<1>2. AtHand'
  BY DEF TypeOK, AtHand
<1>3. OwnVm'
  BY DEF TypeOK, AtHand, OwnVm, AttemptsCounted, WipeIsFlagged, Rebooted
<1>4. Images' /\ FreshStore'
  BY DEF TypeOK, OwnVm, Images, FreshStore, AttemptsCounted, Rebooted
<1>5. InputsKept' /\ WipeIsFlagged'
  BY DEF TypeOK, OwnVm, InputsKept, WipeIsFlagged, FreshStore, AttemptsCounted, Rebooted
<1>6. AttemptsCounted'
  BY DEF TypeOK, AtHand, AttemptsCounted, Retries, Count, Rebooted, WipeIsFlagged
<1>7. Blame'
  BY DEF TypeOK, AtHand, OwnVm, Blame, NoFault, OthersLinger
<1>8. Earned
  BY DEF TypeOK, AtHand, OwnVm, Blame, NoFault, Earned, Exhausted
<1> HIDE DEF Dial, Finish, Settle, Goto, Tenant, OnVm, Busy, poolVars, faultVars,
     retryVars
<1> QED BY <1>1, <1>2, <1>3, <1>4, <1>5, <1>6, <1>7, <1>8 DEF IInv

LEMMA FetchInputsPreserves ==
    ASSUME IInv, FetchInputs
    PROVE  IInv' /\ Earned
<1> USE JobsAssumption, ConfigAssumption DEF IInv, FetchInputs, Missing, Finish,
     Settle, Goto, Tenant, OnVm, Busy, poolVars, faultVars, retryVars
<1>1. TypeOK'
  <2>1. /\ fresh' \in BOOLEAN /\ enospcRetried' \in BOOLEAN /\ carried' \in BOOLEAN
        /\ oomLocalRetried' \in BOOLEAN /\ guestHangRetried' \in BOOLEAN
    BY Zenon DEF TypeOK
  <2>2. /\ img' \in [Tenants -> {"absent", "blank", "formatted"}]
        /\ store' \in [Tenants -> SUBSET Paths]
        /\ warm' \in Tenants \cup {NoTenant} /\ guest' \in {"up", "hung", "dead"}
    BY DEF TypeOK, AtHand, OwnVm, Paths
  <2>3. fault' \in [kind : Faults, by : Jobs] \cup {NoFault} /\ lingering' \subseteq Jobs
    BY DEF TypeOK, Faults, Ooms
  <2>4. /\ job' \in Jobs \cup {NoJob} /\ pc' \in {"idle"} \cup Busy
        /\ pc' \in Busy => job' \in Jobs
        /\ outcome' \in Outcomes \cup {"none"} /\ done' \subseteq Jobs
    BY DEF TypeOK, AtHand, Outcomes
  <2>5. attempts' \in 0 .. 4 /\ restarts' \in Nat
    BY DEF TypeOK, AttemptsCounted, Retries, Count
  <2> QED BY <2>1, <2>2, <2>3, <2>4, <2>5 DEF TypeOK
<1>2. AtHand'
  BY DEF TypeOK, AtHand
<1>3. OwnVm'
  BY DEF TypeOK, AtHand, OwnVm, AttemptsCounted, WipeIsFlagged, Rebooted
<1>4. Images' /\ FreshStore'
  BY DEF TypeOK, OwnVm, Images, FreshStore, AttemptsCounted, Rebooted
<1>5. InputsKept' /\ WipeIsFlagged'
  BY DEF TypeOK, OwnVm, InputsKept, WipeIsFlagged, FreshStore, AttemptsCounted, Rebooted
<1>6. AttemptsCounted'
  BY DEF TypeOK, AtHand, AttemptsCounted, Retries, Count, Rebooted, WipeIsFlagged
<1>7. Blame'
  BY DEF TypeOK, AtHand, OwnVm, Blame, NoFault, OthersLinger
<1>8. Earned
  BY DEF TypeOK, AtHand, OwnVm, Blame, NoFault, Earned, Exhausted
<1> HIDE DEF FetchInputs, Missing, Finish, Settle, Goto, Tenant, OnVm, Busy,
     poolVars, faultVars, retryVars
<1> QED BY <1>1, <1>2, <1>3, <1>4, <1>5, <1>6, <1>7, <1>8 DEF IInv

LEMMA ResetPreserves ==
    ASSUME IInv, Reset
    PROVE  IInv' /\ Earned
<1> USE JobsAssumption, ConfigAssumption DEF IInv, Reset, Finish, Settle, Goto,
     Tenant, OnVm, Busy, poolVars, faultVars, retryVars
<1>1. TypeOK'
  <2>1. /\ fresh' \in BOOLEAN /\ enospcRetried' \in BOOLEAN /\ carried' \in BOOLEAN
        /\ oomLocalRetried' \in BOOLEAN /\ guestHangRetried' \in BOOLEAN
    BY Zenon DEF TypeOK, OthersLinger
  <2>2. /\ img' \in [Tenants -> {"absent", "blank", "formatted"}]
        /\ store' \in [Tenants -> SUBSET Paths]
        /\ warm' \in Tenants \cup {NoTenant} /\ guest' \in {"up", "hung", "dead"}
    BY DEF TypeOK, AtHand, OwnVm, Paths
  <2>3. fault' \in [kind : Faults, by : Jobs] \cup {NoFault} /\ lingering' \subseteq Jobs
    BY DEF TypeOK, Faults, Ooms
  <2>4. /\ job' \in Jobs \cup {NoJob} /\ pc' \in {"idle"} \cup Busy
        /\ pc' \in Busy => job' \in Jobs
        /\ outcome' \in Outcomes \cup {"none"} /\ done' \subseteq Jobs
    BY DEF TypeOK, AtHand, Outcomes
  <2>5. attempts' \in 0 .. 4 /\ restarts' \in Nat
    BY DEF TypeOK, AttemptsCounted, Retries, Count
  <2> QED BY <2>1, <2>2, <2>3, <2>4, <2>5 DEF TypeOK
<1>2. AtHand'
  BY DEF TypeOK, AtHand
<1>3. OwnVm'
  BY DEF TypeOK, AtHand, OwnVm, AttemptsCounted, WipeIsFlagged, Rebooted
<1>4. Images' /\ FreshStore'
  BY DEF TypeOK, OwnVm, Images, FreshStore, AttemptsCounted, Rebooted
<1>5. InputsKept' /\ WipeIsFlagged'
  BY DEF TypeOK, OwnVm, InputsKept, WipeIsFlagged, FreshStore, AttemptsCounted, Rebooted
<1>6. AttemptsCounted'
  BY DEF TypeOK, AtHand, AttemptsCounted, Retries, Count, Rebooted, WipeIsFlagged
<1>7. Blame'
  <2>1. CASE guest = "up" /\ fault' = NoFault /\ carried' = OthersLinger
    BY <2>1 DEF TypeOK, AtHand, OwnVm, Blame, NoFault, OthersLinger
  <2>2. CASE UNCHANGED fault /\ carried' = (fault.by \notin {job, NoJob} \/ OthersLinger)
    BY <2>2 DEF TypeOK, AtHand, OwnVm, Blame, NoFault, OthersLinger
  <2> QED BY <2>1, <2>2
<1>8. Earned
  BY DEF TypeOK, AtHand, OwnVm, Blame, NoFault, Earned, Exhausted
<1> HIDE DEF Reset, Finish, Settle, Goto, Tenant, OnVm, Busy, poolVars, faultVars,
     retryVars
<1> QED BY <1>1, <1>2, <1>3, <1>4, <1>5, <1>6, <1>7, <1>8 DEF IInv

LEMMA CompletedPreserves ==
    ASSUME IInv, Completed
    PROVE  IInv' /\ Earned
<1> USE JobsAssumption, ConfigAssumption DEF IInv, Completed, CanBuild, MayLinger,
     Finish, Settle, Goto, Tenant, OnVm, Busy, poolVars, faultVars, retryVars
<1>1. TypeOK'
  BY DEF TypeOK, AtHand, OwnVm, AttemptsCounted, Retries, Count, Faults, Ooms, NoFault,
         Outcomes, Paths
<1>2. AtHand'
  BY DEF TypeOK, AtHand
<1>3. OwnVm'
  BY DEF TypeOK, AtHand, OwnVm, AttemptsCounted, WipeIsFlagged, Rebooted
<1>4. Images' /\ FreshStore'
  BY DEF TypeOK, OwnVm, Images, FreshStore, AttemptsCounted, Rebooted
<1>5. InputsKept' /\ WipeIsFlagged'
  BY DEF TypeOK, OwnVm, InputsKept, WipeIsFlagged, FreshStore, AttemptsCounted, Rebooted
<1>6. AttemptsCounted'
  BY DEF TypeOK, AtHand, AttemptsCounted, Retries, Count, Rebooted, WipeIsFlagged
<1>7. Blame'
  BY DEF TypeOK, AtHand, OwnVm, Blame, NoFault, OthersLinger
<1>8. Earned
  BY DEF TypeOK, AtHand, OwnVm, Blame, NoFault, Earned, Exhausted
<1> HIDE DEF Completed, CanBuild, MayLinger, Finish, Settle, Goto, Tenant, OnVm,
     Busy, poolVars, faultVars, retryVars
<1> QED BY <1>1, <1>2, <1>3, <1>4, <1>5, <1>6, <1>7, <1>8 DEF IInv

LEMMA FailedPreserves ==
    ASSUME IInv, Failed
    PROVE  IInv' /\ Earned
<1> USE JobsAssumption, ConfigAssumption DEF IInv, Failed, MayLinger, Finish,
     Settle, Goto, Tenant, OnVm, Busy, poolVars, faultVars, retryVars
<1>1. TypeOK'
  BY DEF TypeOK, AtHand, OwnVm, AttemptsCounted, Retries, Count, Faults, Ooms, NoFault,
         Outcomes, Paths
<1>2. AtHand'
  BY DEF TypeOK, AtHand
<1>3. OwnVm'
  BY DEF TypeOK, AtHand, OwnVm, AttemptsCounted, WipeIsFlagged, Rebooted
<1>4. Images' /\ FreshStore'
  BY DEF TypeOK, OwnVm, Images, FreshStore, AttemptsCounted, Rebooted
<1>5. InputsKept' /\ WipeIsFlagged'
  BY DEF TypeOK, OwnVm, InputsKept, WipeIsFlagged, FreshStore, AttemptsCounted, Rebooted
<1>6. AttemptsCounted'
  BY DEF TypeOK, AtHand, AttemptsCounted, Retries, Count, Rebooted, WipeIsFlagged
<1>7. Blame'
  BY DEF TypeOK, AtHand, OwnVm, Blame, NoFault, OthersLinger
<1>8. Earned
  BY DEF TypeOK, AtHand, OwnVm, Blame, NoFault, Earned, Exhausted
<1> HIDE DEF Failed, MayLinger, Finish, Settle, Goto, Tenant, OnVm, Busy,
     poolVars, faultVars, retryVars
<1> QED BY <1>1, <1>2, <1>3, <1>4, <1>5, <1>6, <1>7, <1>8 DEF IInv

LEMMA GuestHungPreserves ==
    ASSUME IInv, GuestHung
    PROVE  IInv' /\ Earned
<1> USE JobsAssumption, ConfigAssumption DEF IInv, GuestHung, MayLinger, Finish,
     Settle, Goto, Tenant, OnVm, Busy, poolVars, faultVars, retryVars
<1>1. TypeOK'
  BY DEF TypeOK, AtHand, OwnVm, AttemptsCounted, Retries, Count, Faults, Ooms, NoFault,
         Outcomes, Paths
<1>2. AtHand'
  BY DEF TypeOK, AtHand
<1>3. OwnVm'
  BY DEF TypeOK, AtHand, OwnVm, AttemptsCounted, WipeIsFlagged, Rebooted
<1>4. Images' /\ FreshStore'
  BY DEF TypeOK, OwnVm, Images, FreshStore, AttemptsCounted, Rebooted
<1>5. InputsKept' /\ WipeIsFlagged'
  BY DEF TypeOK, OwnVm, InputsKept, WipeIsFlagged, FreshStore, AttemptsCounted, Rebooted
<1>6. AttemptsCounted'
  BY DEF TypeOK, AtHand, AttemptsCounted, Retries, Count, Rebooted, WipeIsFlagged
<1>7. Blame'
  BY DEF TypeOK, AtHand, OwnVm, Blame, NoFault, OthersLinger
<1>8. Earned
  BY DEF TypeOK, AtHand, OwnVm, Blame, NoFault, Earned, Exhausted
<1> HIDE DEF GuestHung, MayLinger, Finish, Settle, Goto, Tenant, OnVm, Busy,
     poolVars, faultVars, retryVars
<1> QED BY <1>1, <1>2, <1>3, <1>4, <1>5, <1>6, <1>7, <1>8 DEF IInv

LEMMA QueryFailsPreserves ==
    ASSUME IInv, QueryFails
    PROVE  IInv' /\ Earned
<1> USE JobsAssumption, ConfigAssumption DEF IInv, QueryFails, Finish, Settle,
     Goto, Tenant, OnVm, Busy, poolVars, faultVars, retryVars
<1>1. TypeOK'
  BY DEF TypeOK, AtHand, OwnVm, AttemptsCounted, Retries, Count, Faults, Ooms, NoFault,
         Outcomes, Paths
<1>2. AtHand'
  BY DEF TypeOK, AtHand
<1>3. OwnVm'
  BY DEF TypeOK, AtHand, OwnVm, AttemptsCounted, WipeIsFlagged, Rebooted
<1>4. Images' /\ FreshStore'
  BY DEF TypeOK, OwnVm, Images, FreshStore, AttemptsCounted, Rebooted
<1>5. InputsKept' /\ WipeIsFlagged'
  BY DEF TypeOK, OwnVm, InputsKept, WipeIsFlagged, FreshStore, AttemptsCounted, Rebooted
<1>6. AttemptsCounted'
  BY DEF TypeOK, AtHand, AttemptsCounted, Retries, Count, Rebooted, WipeIsFlagged
<1>7. Blame'
  BY DEF TypeOK, AtHand, OwnVm, Blame, NoFault, OthersLinger
<1>8. Earned
  BY DEF TypeOK, AtHand, OwnVm, Blame, NoFault, Earned, Exhausted
<1> HIDE DEF QueryFails, Finish, Settle, Goto, Tenant, OnVm, Busy, poolVars,
     faultVars, retryVars
<1> QED BY <1>1, <1>2, <1>3, <1>4, <1>5, <1>6, <1>7, <1>8 DEF IInv

LEMMA NextActionPreserves ==
    ASSUME IInv, NextAction
    PROVE  IInv' /\ Earned
<1> USE JobsAssumption, ConfigAssumption DEF IInv, NextAction, GiveUp, OnDiskFull,
     OnOtherOom, OnBuilderOom, Finish, Settle, Goto, Tenant, OnVm, Busy, poolVars,
     faultVars, retryVars
<1>1. TypeOK'
  <2>1. /\ fresh' \in BOOLEAN /\ enospcRetried' \in BOOLEAN /\ carried' \in BOOLEAN
        /\ oomLocalRetried' \in BOOLEAN /\ guestHangRetried' \in BOOLEAN
    BY Zenon DEF TypeOK
  <2>2. /\ img' \in [Tenants -> {"absent", "blank", "formatted"}]
        /\ store' \in [Tenants -> SUBSET Paths]
        /\ warm' \in Tenants \cup {NoTenant} /\ guest' \in {"up", "hung", "dead"}
    BY DEF TypeOK, AtHand, OwnVm, Paths
  <2>3. fault' \in [kind : Faults, by : Jobs] \cup {NoFault} /\ lingering' \subseteq Jobs
    BY DEF TypeOK, Faults, Ooms
  <2>4. /\ job' \in Jobs \cup {NoJob} /\ pc' \in {"idle"} \cup Busy
        /\ pc' \in Busy => job' \in Jobs
        /\ outcome' \in Outcomes \cup {"none"} /\ done' \subseteq Jobs
    BY DEF TypeOK, AtHand, Outcomes
  <2>5. attempts' \in 0 .. 4 /\ restarts' \in Nat
    BY DEF TypeOK, AttemptsCounted, Retries, Count
  <2> QED BY <2>1, <2>2, <2>3, <2>4, <2>5 DEF TypeOK
<1>2. AtHand'
  BY DEF TypeOK, AtHand
<1>3. OwnVm'
  BY DEF TypeOK, AtHand, OwnVm, AttemptsCounted, WipeIsFlagged, Rebooted
<1>4. Images' /\ FreshStore'
  BY DEF TypeOK, OwnVm, Images, FreshStore, AttemptsCounted, Rebooted
<1>5. InputsKept' /\ WipeIsFlagged'
  BY DEF TypeOK, OwnVm, InputsKept, WipeIsFlagged, FreshStore, AttemptsCounted, Rebooted
<1>6. AttemptsCounted'
  BY DEF TypeOK, AtHand, AttemptsCounted, Retries, Count, Rebooted, WipeIsFlagged
<1>7. Blame'
  BY DEF TypeOK, AtHand, OwnVm, Blame, NoFault, OthersLinger
<1>8. Earned
  BY DEF TypeOK, AtHand, OwnVm, Blame, NoFault, Earned, Exhausted
<1> HIDE DEF NextAction, GiveUp, OnDiskFull, OnOtherOom, OnBuilderOom, Finish,
     Settle, Goto, Tenant, OnVm, Busy, poolVars, faultVars, retryVars
<1> QED BY <1>1, <1>2, <1>3, <1>4, <1>5, <1>6, <1>7, <1>8 DEF IInv

LEMMA ReconnectPreserves ==
    ASSUME IInv, Reconnect
    PROVE  IInv' /\ Earned
<1> USE JobsAssumption, ConfigAssumption DEF IInv, Reconnect, Finish, Settle,
     Goto, Tenant, OnVm, Busy, poolVars, faultVars, retryVars
<1>1. TypeOK'
  BY DEF TypeOK, AtHand, OwnVm, AttemptsCounted, Retries, Count, Faults, Ooms, NoFault,
         Outcomes, Paths
<1>2. AtHand'
  BY DEF TypeOK, AtHand
<1>3. OwnVm'
  BY DEF TypeOK, AtHand, OwnVm, AttemptsCounted, WipeIsFlagged, Rebooted
<1>4. Images' /\ FreshStore'
  BY DEF TypeOK, OwnVm, Images, FreshStore, AttemptsCounted, Rebooted
<1>5. InputsKept' /\ WipeIsFlagged'
  BY DEF TypeOK, OwnVm, InputsKept, WipeIsFlagged, FreshStore, AttemptsCounted, Rebooted
<1>6. AttemptsCounted'
  BY DEF TypeOK, AtHand, AttemptsCounted, Retries, Count, Rebooted, WipeIsFlagged
<1>7. Blame'
  BY DEF TypeOK, AtHand, OwnVm, Blame, NoFault, OthersLinger
<1>8. Earned
  BY DEF TypeOK, AtHand, OwnVm, Blame, NoFault, Earned, Exhausted
<1> HIDE DEF Reconnect, Finish, Settle, Goto, Tenant, OnVm, Busy, poolVars,
     faultVars, retryVars
<1> QED BY <1>1, <1>2, <1>3, <1>4, <1>5, <1>6, <1>7, <1>8 DEF IInv

LEMMA UploadPreserves ==
    ASSUME IInv, Upload
    PROVE  IInv' /\ Earned
<1> USE JobsAssumption, ConfigAssumption DEF IInv, Upload, Finish, Settle, Goto,
     Tenant, OnVm, Busy, poolVars, faultVars, retryVars
<1>1. TypeOK'
  <2>1. /\ fresh' \in BOOLEAN /\ enospcRetried' \in BOOLEAN /\ carried' \in BOOLEAN
        /\ oomLocalRetried' \in BOOLEAN /\ guestHangRetried' \in BOOLEAN
    BY Zenon DEF TypeOK
  <2>2. /\ img' \in [Tenants -> {"absent", "blank", "formatted"}]
        /\ store' \in [Tenants -> SUBSET Paths]
        /\ warm' \in Tenants \cup {NoTenant} /\ guest' \in {"up", "hung", "dead"}
    BY DEF TypeOK, AtHand, OwnVm, Paths
  <2>3. fault' \in [kind : Faults, by : Jobs] \cup {NoFault} /\ lingering' \subseteq Jobs
    BY DEF TypeOK, Faults, Ooms
  <2>4. /\ job' \in Jobs \cup {NoJob} /\ pc' \in {"idle"} \cup Busy
        /\ pc' \in Busy => job' \in Jobs
        /\ outcome' \in Outcomes \cup {"none"} /\ done' \subseteq Jobs
    BY DEF TypeOK, AtHand, Outcomes
  <2>5. attempts' \in 0 .. 4 /\ restarts' \in Nat
    BY DEF TypeOK, AttemptsCounted, Retries, Count
  <2> QED BY <2>1, <2>2, <2>3, <2>4, <2>5 DEF TypeOK
<1>2. AtHand'
  BY DEF TypeOK, AtHand
<1>3. OwnVm'
  BY DEF TypeOK, AtHand, OwnVm, AttemptsCounted, WipeIsFlagged, Rebooted
<1>4. Images' /\ FreshStore'
  BY DEF TypeOK, OwnVm, Images, FreshStore, AttemptsCounted, Rebooted
<1>5. InputsKept' /\ WipeIsFlagged'
  BY DEF TypeOK, OwnVm, InputsKept, WipeIsFlagged, FreshStore, AttemptsCounted, Rebooted
<1>6. AttemptsCounted'
  BY DEF TypeOK, AtHand, AttemptsCounted, Retries, Count, Rebooted, WipeIsFlagged
<1>7. Blame'
  BY DEF TypeOK, AtHand, OwnVm, Blame, NoFault, OthersLinger
<1>8. Earned
  BY DEF TypeOK, AtHand, OwnVm, Blame, NoFault, Earned, Exhausted
<1> HIDE DEF Upload, Finish, Settle, Goto, Tenant, OnVm, Busy, poolVars,
     faultVars, retryVars
<1> QED BY <1>1, <1>2, <1>3, <1>4, <1>5, <1>6, <1>7, <1>8 DEF IInv

LEMMA ExhaustsPreserves ==
    ASSUME IInv, NEW j \in Jobs, NEW f \in Faults, Exhausts(j, f)
    PROVE  IInv' /\ Earned
<1> USE JobsAssumption, ConfigAssumption DEF IInv, Exhausts, CanBuild, Finish,
     Settle, Goto, Tenant, OnVm, Busy, poolVars, faultVars, retryVars
<1>1. TypeOK'
  BY DEF TypeOK, AtHand, OwnVm, AttemptsCounted, Retries, Count, Faults, Ooms, NoFault,
         Outcomes, Paths
<1>2. AtHand'
  BY DEF TypeOK, AtHand
<1>3. OwnVm'
  BY DEF TypeOK, AtHand, OwnVm, AttemptsCounted, WipeIsFlagged, Rebooted
<1>4. Images' /\ FreshStore'
  BY DEF TypeOK, OwnVm, Images, FreshStore, AttemptsCounted, Rebooted
<1>5. InputsKept' /\ WipeIsFlagged'
  BY DEF TypeOK, OwnVm, InputsKept, WipeIsFlagged, FreshStore, AttemptsCounted, Rebooted
<1>6. AttemptsCounted'
  BY DEF TypeOK, AtHand, AttemptsCounted, Retries, Count, Rebooted, WipeIsFlagged
<1>7. Blame'
  BY DEF TypeOK, AtHand, OwnVm, Blame, NoFault, OthersLinger
<1>8. Earned
  BY DEF TypeOK, AtHand, OwnVm, Blame, NoFault, Earned, Exhausted
<1> HIDE DEF Exhausts, CanBuild, Finish, Settle, Goto, Tenant, OnVm, Busy,
     poolVars, faultVars, retryVars
<1> QED BY <1>1, <1>2, <1>3, <1>4, <1>5, <1>6, <1>7, <1>8 DEF IInv

LEMMA LingeringEndsPreserves ==
    ASSUME IInv, NEW j \in Jobs, LingeringEnds(j)
    PROVE  IInv' /\ Earned
<1> USE JobsAssumption, ConfigAssumption DEF IInv, LingeringEnds, Finish, Settle,
     Goto, Tenant, OnVm, Busy, poolVars, faultVars, retryVars
<1>1. TypeOK'
  BY DEF TypeOK, AtHand, OwnVm, AttemptsCounted, Retries, Count, Faults, Ooms, NoFault,
         Outcomes, Paths
<1>2. AtHand'
  BY DEF TypeOK, AtHand
<1>3. OwnVm'
  BY DEF TypeOK, AtHand, OwnVm, AttemptsCounted, WipeIsFlagged, Rebooted
<1>4. Images' /\ FreshStore'
  BY DEF TypeOK, OwnVm, Images, FreshStore, AttemptsCounted, Rebooted
<1>5. InputsKept' /\ WipeIsFlagged'
  BY DEF TypeOK, OwnVm, InputsKept, WipeIsFlagged, FreshStore, AttemptsCounted, Rebooted
<1>6. AttemptsCounted'
  BY DEF TypeOK, AtHand, AttemptsCounted, Retries, Count, Rebooted, WipeIsFlagged
<1>7. Blame'
  BY DEF TypeOK, AtHand, OwnVm, Blame, NoFault, OthersLinger
<1>8. Earned
  BY DEF TypeOK, AtHand, OwnVm, Blame, NoFault, Earned, Exhausted
<1> HIDE DEF LingeringEnds, Finish, Settle, Goto, Tenant, OnVm, Busy, poolVars,
     faultVars, retryVars
<1> QED BY <1>1, <1>2, <1>3, <1>4, <1>5, <1>6, <1>7, <1>8 DEF IInv

LEMMA GuestFailsPreserves ==
    ASSUME IInv, NEW how \in {"hung", "dead"}, GuestFails(how)
    PROVE  IInv' /\ Earned
<1> USE JobsAssumption, ConfigAssumption DEF IInv, GuestFails, Finish, Settle,
     Goto, Tenant, OnVm, Busy, poolVars, faultVars, retryVars
<1>1. TypeOK'
  BY DEF TypeOK, AtHand, OwnVm, AttemptsCounted, Retries, Count, Faults, Ooms, NoFault,
         Outcomes, Paths
<1>2. AtHand'
  BY DEF TypeOK, AtHand
<1>3. OwnVm'
  BY DEF TypeOK, AtHand, OwnVm, AttemptsCounted, WipeIsFlagged, Rebooted
<1>4. Images' /\ FreshStore'
  BY DEF TypeOK, OwnVm, Images, FreshStore, AttemptsCounted, Rebooted
<1>5. InputsKept' /\ WipeIsFlagged'
  BY DEF TypeOK, OwnVm, InputsKept, WipeIsFlagged, FreshStore, AttemptsCounted, Rebooted
<1>6. AttemptsCounted'
  BY DEF TypeOK, AtHand, AttemptsCounted, Retries, Count, Rebooted, WipeIsFlagged
<1>7. Blame'
  BY DEF TypeOK, AtHand, OwnVm, Blame, NoFault, OthersLinger
<1>8. Earned
  BY DEF TypeOK, AtHand, OwnVm, Blame, NoFault, Earned, Exhausted
<1> HIDE DEF GuestFails, Finish, Settle, Goto, Tenant, OnVm, Busy, poolVars,
     faultVars, retryVars
<1> QED BY <1>1, <1>2, <1>3, <1>4, <1>5, <1>6, <1>7, <1>8 DEF IInv

LEMMA RestartPreserves ==
    ASSUME IInv, Restart
    PROVE  IInv' /\ Earned
<1> USE JobsAssumption, ConfigAssumption DEF IInv, Restart, NewGuest, Finish,
     Settle, Goto, Tenant, OnVm, Busy, poolVars, faultVars, retryVars
<1>1. TypeOK'
  <2>1. /\ fresh' \in BOOLEAN /\ enospcRetried' \in BOOLEAN /\ carried' \in BOOLEAN
        /\ oomLocalRetried' \in BOOLEAN /\ guestHangRetried' \in BOOLEAN
    BY Zenon DEF TypeOK
  <2>2. /\ img' \in [Tenants -> {"absent", "blank", "formatted"}]
        /\ store' \in [Tenants -> SUBSET Paths]
        /\ warm' \in Tenants \cup {NoTenant} /\ guest' \in {"up", "hung", "dead"}
    BY DEF TypeOK, AtHand, OwnVm, Paths
  <2>3. fault' \in [kind : Faults, by : Jobs] \cup {NoFault} /\ lingering' \subseteq Jobs
    BY DEF TypeOK, Faults, Ooms
  <2>4. /\ job' \in Jobs \cup {NoJob} /\ pc' \in {"idle"} \cup Busy
        /\ pc' \in Busy => job' \in Jobs
        /\ outcome' \in Outcomes \cup {"none"} /\ done' \subseteq Jobs
    BY DEF TypeOK, AtHand, Outcomes
  <2>5. attempts' \in 0 .. 4 /\ restarts' \in Nat
    BY DEF TypeOK, AttemptsCounted, Retries, Count
  <2> QED BY <2>1, <2>2, <2>3, <2>4, <2>5 DEF TypeOK
<1>2. AtHand'
  BY DEF TypeOK, AtHand
<1>3. OwnVm'
  BY DEF TypeOK, AtHand, OwnVm, AttemptsCounted, WipeIsFlagged, Rebooted
<1>4. Images' /\ FreshStore'
  BY DEF TypeOK, OwnVm, Images, FreshStore, AttemptsCounted, Rebooted
<1>5. InputsKept' /\ WipeIsFlagged'
  BY DEF TypeOK, OwnVm, InputsKept, WipeIsFlagged, FreshStore, AttemptsCounted, Rebooted
<1>6. AttemptsCounted'
  BY DEF TypeOK, AtHand, AttemptsCounted, Retries, Count, Rebooted, WipeIsFlagged
<1>7. Blame'
  BY DEF TypeOK, AtHand, OwnVm, Blame, NoFault, OthersLinger
<1>8. Earned
  BY DEF TypeOK, AtHand, OwnVm, Blame, NoFault, Earned, Exhausted
<1> HIDE DEF Restart, NewGuest, Finish, Settle, Goto, Tenant, OnVm, Busy,
     poolVars, faultVars, retryVars
<1> QED BY <1>1, <1>2, <1>3, <1>4, <1>5, <1>6, <1>7, <1>8 DEF IInv

-----------------------------------------------------------------------------
LEMMA InitIInv == Init => IInv
<1> SUFFICES ASSUME Init PROVE IInv
  OBVIOUS
<1> USE JobsAssumption DEF Init
<1>1. TypeOK
  <2>1. attempts \in 0 .. 4 /\ restarts \in Nat
    OBVIOUS
  <2> QED BY <2>1, Zenon DEF TypeOK, Busy, OnVm, Outcomes
<1>2. AtHand /\ OwnVm /\ Images /\ FreshStore /\ InputsKept /\ WipeIsFlagged
  BY DEF AtHand, Busy, OwnVm, OnVm, Images, FreshStore, InputsKept, WipeIsFlagged
<1>3. AttemptsCounted /\ Blame
  BY DEF AttemptsCounted, Retries, Count, Blame, NoFault
<1> QED BY <1>1, <1>2, <1>3 DEF IInv

LEMMA StutterPreserves == IInv /\ UNCHANGED vars => IInv' /\ Earned
BY DEF IInv, vars, TypeOK, AtHand, OwnVm, Tenant, Images, FreshStore, InputsKept,
       WipeIsFlagged, AttemptsCounted, Retries, Rebooted, Blame, OthersLinger, Earned

LEMMA NextIInv == IInv /\ [Next]_vars => IInv' /\ Earned
<1> SUFFICES ASSUME IInv, [Next]_vars PROVE IInv' /\ Earned
  OBVIOUS
<1>1. CASE JobStep
  BY <1>1, ReuseVmPreserves, BootVmPreserves, WipeFailsPreserves, WipeAndRebootPreserves,
     PushKeyPreserves, KeyRejectedPreserves, DialPreserves, FetchInputsPreserves,
     ResetPreserves, QueryFailsPreserves, NextActionPreserves, ReconnectPreserves,
     UploadPreserves DEF JobStep
<1>2. CASE BuildStep
  BY <1>2, CompletedPreserves, FailedPreserves, GuestHungPreserves DEF BuildStep
<1>3. CASE GuestStep
  BY <1>3, ExhaustsPreserves, LingeringEndsPreserves, GuestFailsPreserves DEF GuestStep
<1>4. CASE \E j \in Jobs : TakeJob(j)
  BY <1>4, TakeJobPreserves
<1>5. CASE Restart
  BY <1>5, RestartPreserves
<1>6. CASE UNCHANGED vars
  BY <1>6, StutterPreserves
<1> QED BY <1>1, <1>2, <1>3, <1>4, <1>5, <1>6 DEF Next

(* The inductive invariant holds of every behaviour of the job loop.       *)
THEOREM Invariance == Spec => []IInv
BY InitIInv, NextIInv, PTL DEF Spec

(* Every variable keeps its type, and no job is built more than four times *)
(* per delivery.                                                           *)
THEOREM TypeCorrect == Spec => []TypeOK
<1>1. IInv => TypeOK BY DEF IInv
<1> QED BY Invariance, <1>1, PTL

(* No job ever runs on another tenant's VM.                                *)
THEOREM OwnVmHolds == Spec => []OwnVm
<1>1. IInv => OwnVm BY DEF IInv
<1> QED BY Invariance, <1>1, PTL

(* fresh is only reported for a store that holds nothing.                  *)
THEOREM FreshMeansEmptyHolds == Spec => []FreshMeansEmpty
<1>1. IInv => FreshMeansEmpty BY DEF IInv, FreshStore, FreshMeansEmpty, OwnVm, OnVm
<1> QED BY Invariance, <1>1, PTL

(* Until a wipe, every build of a job finds all of the job's inputs, though*)
(* fetch_inputs skips what it believes valid.                              *)
THEOREM FirstBuildHasInputsHolds == Spec => []FirstBuildHasInputs
<1>1. IInv => FirstBuildHasInputs BY DEF IInv, InputsKept, FirstBuildHasInputs, Rebooted
<1> QED BY Invariance, <1>1, PTL

(* Resource-exhaustion verdicts and escalations are about a fault in the   *)
(* job's own time, or, where RESET was got around, of an earlier job of    *)
(* the same tenant; failing RESETs and leftover builds included.           *)
THEOREM VerdictIsEarnedHolds == Spec => VerdictIsEarned
<1>1. IInv /\ [Next]_vars => [Earned]_vars BY NextIInv
<1> QED BY Invariance, <1>1, PTL DEF Spec, VerdictIsEarned, Earned
=============================================================================
