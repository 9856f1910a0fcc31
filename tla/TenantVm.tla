------------------------------ MODULE TenantVm ------------------------------
(***************************************************************************)
(* One worker between accepting a job and reporting it: VmPool, which      *)
(* keeps one warm VM and an encrypted store image per tenant, the guest's  *)
(* failure detection, and the retry loop around run_build.  WorkQueue sees *)
(* the same steps from the outside.                                        *)
(*                                                                         *)
(* Jobs are handled one at a time, each at most once; a redelivery is      *)
(* another member of Jobs.  A guest may hang or its process die at any     *)
(* step; one that hangs refuses connections or leaves a call without an    *)
(* answer.  Every tenant's key lives as long as the process, like its      *)
(* image, so keys are left out.                                            *)
(***************************************************************************)
EXTENDS Integers, FiniteSets

CONSTANTS
    Jobs,
    Tenants,
    TenantOf,      \* the tenant of each job
    Inputs,        \* the store paths staged for each job
    BigParallel,   \* already_on_big_parallel
    MaxRestarts,   \* bound: restarts of the worker process
    NoJob,
    NoTenant

ASSUME JobsAssumption ==
    /\ TenantOf \in [Jobs -> Tenants]
    /\ NoJob \notin Jobs /\ NoTenant \notin Tenants
ASSUME ConfigAssumption ==
    /\ BigParallel \in BOOLEAN
    /\ MaxRestarts \in Nat

Paths == UNION {Inputs[j] : j \in Jobs}
Ooms == {"oomBuilder", "oomOther"}
Faults == Ooms \cup {"diskFull"}
Exhausted == {"outOfMemory", "diskFull", "escalated"}
Outcomes == {"completed", "failed", "outOfMemory", "diskFull", "guestHang", "escalated"}

VARIABLES
    img,        \* each tenant's store.img: absent, blank (no file system) or formatted
    store,      \* the paths its file system registers as valid
    warm,       \* the tenant of the warm VM
    guest,      \* that VM's guest: up, hung (the process lives) or dead
    fault,      \* what STATUS? reports, and the job in whose time it happened
    lingering,  \* the jobs reported or retried that the guest is not done with
    job,        \* the job at hand
    pc,
    fresh,      \* original_boot_was_fresh
    enospcRetried,
    oomLocalRetried,
    guestHangRetried,
    outcome,    \* of the job at hand, or what was reported for the last one
    done,       \* the jobs reported
    carried,    \* history: this attempt's RESET left something of another job's
    attempts,   \* history: builds started for the job at hand
    restarts

poolVars == <<img, store, warm, guest>>
faultVars == <<fault, lingering>>
retryVars == <<enospcRetried, oomLocalRetried, guestHangRetried>>
vars == <<img, store, warm, guest, fault, lingering, job, pc, fresh, enospcRetried,
          oomLocalRetried, guestHangRetried, outcome, done, carried, attempts, restarts>>

NoFault == [kind |-> "none", by |-> NoJob]
OnVm == {"dial", "fetch", "reset", "build", "query", "reconnect"}
Busy == OnVm \cup {"ensure", "key", "wipe", "upload"}

(* Types; and "retry once" is a hard bound for each of the three reasons:  *)
(* four builds of a delivery at most, one per reason and the first.        *)
TypeOK ==
    /\ img \in [Tenants -> {"absent", "blank", "formatted"}]
    /\ store \in [Tenants -> SUBSET Paths]
    /\ warm \in Tenants \cup {NoTenant}
    /\ guest \in {"up", "hung", "dead"}
    /\ fault \in [kind : Faults, by : Jobs] \cup {NoFault}
    /\ lingering \subseteq Jobs
    /\ job \in Jobs \cup {NoJob}
    /\ pc \in {"idle"} \cup Busy
    /\ pc \in Busy => job \in Jobs
    /\ fresh \in BOOLEAN
    /\ enospcRetried \in BOOLEAN /\ oomLocalRetried \in BOOLEAN
    /\ guestHangRetried \in BOOLEAN
    /\ outcome \in Outcomes \cup {"none"}
    /\ done \subseteq Jobs
    /\ carried \in BOOLEAN
    /\ attempts \in 0 .. 4
    /\ restarts \in Nat

Init ==
    /\ img = [t \in Tenants |-> "absent"]
    /\ store = [t \in Tenants |-> {}]
    /\ warm = NoTenant
    /\ guest = "dead"
    /\ fault = NoFault /\ lingering = {}
    /\ job = NoJob
    /\ pc = "idle"
    /\ fresh = FALSE
    /\ enospcRetried = FALSE /\ oomLocalRetried = FALSE /\ guestHangRetried = FALSE
    /\ outcome = "none"
    /\ done = {}
    /\ carried = FALSE
    /\ attempts = 0
    /\ restarts = 0

-----------------------------------------------------------------------------
Tenant == TenantOf[job]

(* Report o and wait for the next job.  The VM stays warm.                 *)
Finish(o) ==
    /\ done' = done \cup {job}
    /\ outcome' = o
    /\ job' = NoJob
    /\ pc' = "idle"
    /\ fresh' = FALSE
    /\ enospcRetried' = FALSE /\ oomLocalRetried' = FALSE /\ guestHangRetried' = FALSE
    /\ carried' = FALSE /\ attempts' = 0

(* Break out of the retry loop with o: the uploads come next.              *)
Settle(o) ==
    /\ outcome' = o
    /\ pc' = "upload"
    /\ UNCHANGED <<job, done, fresh, retryVars, carried, attempts>>

(* Go on with this job.                                                    *)
Goto(where) ==
    /\ pc' = where
    /\ UNCHANGED <<job, done, fresh, retryVars, outcome, carried, attempts>>

TakeJob(j) ==
    /\ pc = "idle"
    /\ j \notin done
    /\ job' = j
    /\ pc' = "ensure"
    /\ outcome' = "none"
    /\ UNCHANGED <<poolVars, faultVars, fresh, retryVars, done, carried, attempts, restarts>>

-----------------------------------------------------------------------------
(* VmPool.                                                                 *)

(* What a launcher.boot that returns makes of an image: passt or the VM    *)
(* never starts, or the image is created first and the guest reached or    *)
(* not.                                                                    *)
Booted(image) == IF image = "absent" THEN "blank" ELSE image

(* Whatever the evicted guest held in memory is gone with it.              *)
NewGuest == warm' = NoTenant /\ fault' = NoFault /\ lingering' = {}

(* A boot on image; the VM is not kept before push_key.                    *)
BootsOn(image) ==
    /\ img' = [img EXCEPT ![Tenant] = Booted(image)]
    /\ guest' = "up"
    /\ pc' = "key"
    /\ UNCHANGED <<job, done, retryVars, outcome, carried, attempts>>

BootFailsOn(image) ==
    /\ img' \in {[img EXCEPT ![Tenant] = i] : i \in {image, Booted(image)}}
    /\ guest' = "dead"

(* Mutant: any live VM will do.                                            *)
ReuseAnyVm ==
    /\ pc = "ensure"
    /\ warm # NoTenant /\ guest # "dead"
    /\ fresh' = FALSE
    /\ pc' = "dial"
    /\ UNCHANGED <<poolVars, faultVars, job, done, retryVars, outcome, carried, attempts,
                   restarts>>

(* ensure_vm_for: the warm VM is this tenant's and its process lives.      *)
ReuseVm ==
    /\ pc = "ensure"
    /\ warm = Tenant /\ guest # "dead"
    /\ fresh' = FALSE
    /\ pc' = "dial"
    /\ UNCHANGED <<poolVars, faultVars, job, done, retryVars, outcome, carried, attempts,
                   restarts>>

(* ensure_vm_for: evict, and boot FRESH or REUSE.                          *)
BootVm ==
    /\ pc = "ensure"
    /\ ~(warm = Tenant /\ guest # "dead")
    /\ NewGuest
    /\ \/ BootsOn(img[Tenant]) /\ fresh' = (img[Tenant] = "absent")
       \/ BootFailsOn(img[Tenant]) /\ Finish("failed")
    /\ UNCHANGED <<store, restarts>>

(* wipe_and_reboot; the image may resist its removal.                      *)
WipeFails ==
    /\ pc = "wipe"
    /\ NewGuest /\ guest' = "dead"
    /\ Settle(outcome)
    /\ UNCHANGED <<img, store, restarts>>

WipeAndReboot ==
    /\ pc = "wipe"
    /\ store' = [store EXCEPT ![Tenant] = {}]
    /\ NewGuest
    /\ \/ BootsOn("absent") /\ UNCHANGED fresh
       \/ BootFailsOn("absent") /\ Settle(outcome)
    /\ UNCHANGED restarts

(* Whether this boot is a retry's, which found no image.                   *)
Rebooted == enospcRetried \/ guestHangRetried

(* push_key: the guest formats a FRESH image and mounts it; a REUSE of one *)
(* without a file system cannot be mounted.  Only then the VM is kept.     *)
PushKey ==
    /\ pc = "key"
    /\ guest = "up"
    /\ fresh \/ Rebooted \/ img[Tenant] = "formatted"
    /\ img' = [img EXCEPT ![Tenant] = "formatted"]
    /\ warm' = Tenant
    /\ Goto(IF Rebooted THEN "reconnect" ELSE "dial")
    /\ UNCHANGED <<store, guest, faultVars, restarts>>

(* The guest is not reached or rejects the key (modprobe, cryptsetup, mkfs *)
(* or mount failed), and the VM is stopped.                                *)
KeyRejected ==
    /\ pc = "key"
    /\ \/ UNCHANGED img
       \/ (fresh \/ Rebooted) /\ img' = [img EXCEPT ![Tenant] = "formatted"]
    /\ NewGuest /\ guest' = "dead"
    /\ IF Rebooted THEN Settle(outcome) ELSE Finish("failed")
    /\ UNCHANGED <<store, restarts>>

-----------------------------------------------------------------------------
(* Up to the build.                                                        *)

(* Mutant: a connection that cannot be opened is waited for.               *)
DialForEver ==
    /\ pc = "dial"
    /\ guest = "up" /\ Goto("fetch")
    /\ UNCHANGED <<poolVars, faultVars, restarts>>

(* The daemon connection; the VM stays warm when it cannot be opened.      *)
Dial ==
    /\ pc = "dial"
    /\ \/ guest = "up" /\ Goto("fetch")
       \/ Finish("failed")
    /\ UNCHANGED <<poolVars, faultVars, restarts>>

(* Mutant: a fresh store is taken for a complete one.                      *)
MissingUnlessFresh == IF fresh THEN {} ELSE Inputs[job] \ store[warm]

(* skip_already_valid                                                      *)
Missing == IF fresh THEN Inputs[job] ELSE Inputs[job] \ store[warm]

(* fetch_inputs registers one input after the other, then the derivation   *)
(* is parsed; whatever was registered before a failure stays.              *)
FetchInputs ==
    /\ pc = "fetch"
    /\ \E got \in SUBSET Missing :
          /\ got # {} => guest = "up"
          /\ store' = [store EXCEPT ![warm] = @ \cup got]
          /\ \/ got = Missing /\ Goto("reset")
             \/ Finish("failed")
    /\ UNCHANGED <<img, warm, guest, faultVars, restarts>>

-----------------------------------------------------------------------------
(* The retry loop.                                                         *)

(* Whether an earlier job's build could still trip the detection.          *)
OthersLinger == lingering \ {job} # {}

(* Mutant: STATUS? is not scoped to the build.                             *)
NoReset ==
    /\ pc = "reset"
    /\ carried' = OthersLinger
    /\ attempts' = attempts + 1
    /\ pc' = "build"
    /\ UNCHANGED <<poolVars, faultVars, job, done, fresh, retryVars, outcome, restarts>>

(* reset_job_status clears the detection state, or what there is stays: a  *)
(* failure is only logged and the build goes ahead, and the agent's poller *)
(* may put back the victim it was looking at (GuestVm).                    *)
Reset ==
    /\ pc = "reset"
    /\ \/ guest = "up" /\ fault' = NoFault /\ carried' = OthersLinger
       \/ UNCHANGED fault /\ carried' = (fault.by \notin {job, NoJob} \/ OthersLinger)
    /\ attempts' = attempts + 1
    /\ pc' = "build"
    /\ UNCHANGED <<poolVars, lingering, job, done, fresh, retryVars, outcome, restarts>>

(* The guest's nix-daemon builds only what it has the inputs of.           *)
CanBuild == guest = "up" /\ Inputs[job] \subseteq store[warm]

(* After run_build a live guest may still have the job's processes, or one *)
(* of their OOM kills to attribute.                                        *)
MayLinger == lingering' \in {lingering, lingering \cup (IF guest = "up" THEN {job} ELSE {})}

Completed ==
    /\ pc = "build"
    /\ CanBuild
    /\ MayLinger
    /\ Settle("completed")
    /\ UNCHANGED <<poolVars, fault, restarts>>

(* run_build returned Failed, or lost its connection.                      *)
Failed ==
    /\ pc = "build"
    /\ MayLinger
    /\ outcome' = "failed"
    /\ pc' = "query"
    /\ UNCHANGED <<poolVars, fault, job, done, fresh, retryVars, carried, attempts, restarts>>

(* guest_heartbeat_monitor gave the guest up, rightly or because its own   *)
(* connection failed; the second time the VM stays as it is.               *)
GuestHung ==
    /\ pc = "build"
    /\ \/ /\ guestHangRetried
          /\ MayLinger
          /\ Settle("guestHang")
       \/ /\ ~guestHangRetried
          /\ guestHangRetried' = TRUE
          /\ outcome' = "guestHang"
          /\ pc' = "wipe"
          /\ UNCHANGED <<lingering, job, done, fresh, enospcRetried, oomLocalRetried,
                         carried, attempts>>
    /\ UNCHANGED <<poolVars, fault, restarts>>

(* query_status failed: report the build failure as it is.                 *)
QueryFails ==
    /\ pc = "query"
    /\ Settle(outcome)
    /\ UNCHANGED <<poolVars, faultVars, restarts>>

(* next_action on what STATUS? answered.                                   *)
GiveUp == fault = NoFault /\ Settle(outcome)

OnDiskFull ==
    /\ fault.kind = "diskFull"
    /\ \/ (enospcRetried \/ fresh) /\ Settle("diskFull")
       \/ /\ ~(enospcRetried \/ fresh)
          /\ enospcRetried' = TRUE
          /\ pc' = "wipe"
          /\ UNCHANGED <<job, done, fresh, oomLocalRetried, guestHangRetried, outcome,
                         carried, attempts>>

(* Mutant: the same tier is tried again and again.                         *)
RetryOomAlways ==
    /\ fault.kind = "oomOther"
    /\ oomLocalRetried' = TRUE
    /\ pc' = "reconnect"
    /\ UNCHANGED <<job, done, fresh, enospcRetried, guestHangRetried, outcome, carried,
                   attempts>>

OnOtherOom ==
    /\ fault.kind = "oomOther"
    /\ \/ oomLocalRetried /\ Settle("outOfMemory")
       \/ /\ ~oomLocalRetried
          /\ oomLocalRetried' = TRUE
          /\ pc' = "reconnect"
          /\ UNCHANGED <<job, done, fresh, enospcRetried, guestHangRetried, outcome,
                         carried, attempts>>

(* An escalation is published and acked at once, with no upload.           *)
OnBuilderOom ==
    /\ fault.kind = "oomBuilder"
    /\ IF BigParallel THEN Settle("outOfMemory") ELSE Finish("escalated")

NextAction ==
    /\ pc = "query"
    /\ guest = "up"
    /\ GiveUp \/ OnDiskFull \/ OnOtherOom \/ OnBuilderOom
    /\ UNCHANGED <<poolVars, faultVars, restarts>>

(* A new daemon connection, to the same VM after an OOM and to the new one *)
(* after a wipe.                                                           *)
Reconnect ==
    /\ pc = "reconnect"
    /\ \/ guest = "up" /\ Goto("reset")
       \/ Settle(outcome)
    /\ UNCHANGED <<poolVars, faultVars, restarts>>

(* upload_artifacts: the log, and what a completed build left in the VM.   *)
Upload ==
    /\ pc = "upload"
    /\ \/ (outcome = "completed" => guest = "up") /\ Finish(outcome)
       \/ Finish("failed")
    /\ UNCHANGED <<poolVars, faultVars, restarts>>

-----------------------------------------------------------------------------
(* The environment.                                                        *)

(* DetectionState::status reports an OOM before a full disk.               *)
Exhausts(j, f) ==
    /\ guest = "up"
    /\ \/ j \in lingering
       \/ j = job /\ pc = "fetch" /\ f # "oomBuilder"
       \/ j = job /\ pc = "build" /\ CanBuild
    /\ fault' = IF f = "diskFull" /\ fault.kind \in Ooms THEN fault
                ELSE [kind |-> f, by |-> j]
    /\ Goto(pc)
    /\ UNCHANGED <<poolVars, lingering, restarts>>

(* Its processes are gone, and the poller has looked at them.              *)
LingeringEnds(j) ==
    /\ guest = "up" /\ j \in lingering
    /\ lingering' = lingering \ {j}
    /\ Goto(pc)
    /\ UNCHANGED <<poolVars, fault, restarts>>

GuestFails(how) ==
    /\ warm # NoTenant \/ pc = "key"
    /\ guest = "up" \/ (guest = "hung" /\ how = "dead")
    /\ guest' = how
    /\ Goto(pc)
    /\ UNCHANGED <<img, store, warm, faultVars, restarts>>

(* A new process: wipe_orphaned_store_images before any job.  The job at   *)
(* hand is redelivered, to be handled anew.                                *)
Restart ==
    /\ restarts < MaxRestarts
    /\ restarts' = restarts + 1
    /\ img' = [t \in Tenants |-> "absent"]
    /\ store' = [t \in Tenants |-> {}]
    /\ NewGuest /\ guest' = "dead"
    /\ job' = NoJob /\ pc' = "idle" /\ fresh' = FALSE /\ outcome' = "none"
    /\ enospcRetried' = FALSE /\ oomLocalRetried' = FALSE /\ guestHangRetried' = FALSE
    /\ carried' = FALSE /\ attempts' = 0
    /\ UNCHANGED done

JobStep ==
    \/ ReuseVm \/ BootVm \/ WipeFails \/ WipeAndReboot \/ PushKey \/ KeyRejected
    \/ Dial \/ FetchInputs \/ Reset \/ QueryFails \/ NextAction \/ Reconnect \/ Upload

BuildStep == Completed \/ Failed \/ GuestHung

GuestStep ==
    \/ \E j \in Jobs, f \in Faults : Exhausts(j, f)
    \/ \E j \in Jobs : LingeringEnds(j)
    \/ \E how \in {"hung", "dead"} : GuestFails(how)

Next ==
    \/ \E j \in Jobs : TakeJob(j)
    \/ JobStep \/ BuildStep \/ GuestStep
    \/ Restart

Spec == Init /\ [][Next]_vars

(* The worker waits for the guest with no deadline: push_key, the pushes   *)
(* and the daemon's greeting, the inputs' imports, RESET, STATUS?, the     *)
(* dump of the outputs.                                                    *)
AwaitsGuest ==
    \/ pc \in {"key", "dial", "fetch", "reset", "query", "reconnect"}
    \/ pc = "upload" /\ outcome = "completed"

(* Boots and the heartbeat have deadlines; any other call returns unless   *)
(* the guest hangs in it.  A build may take for ever.  Nobody has to queue *)
(* a job.                                                                  *)
FairSpec ==
    /\ Spec
    /\ WF_vars(~(guest = "hung" /\ AwaitsGuest) /\ JobStep)
    /\ WF_vars(guest # "up" /\ GuestHung)

-----------------------------------------------------------------------------
(* Properties.                                                             *)

(* A job only ever touches a VM booted for its own tenant, through reuse,  *)
(* eviction, death, wipe and restart (VmPool::ensure_vm_for).              *)
OwnVm == pc \in OnVm \/ (pc = "upload" /\ outcome = "completed") => warm = Tenant

(* FRESH means nothing can be registered in the store yet, which is what   *)
(* lets skip_already_valid skip its queries.                               *)
FreshMeansEmpty == pc \in {"dial", "fetch"} /\ fresh => store[warm] = {}

(* Whatever was skipped as already valid and whatever earlier jobs left    *)
(* half imported, a build on the image the job was given has its inputs.   *)
FirstBuildHasInputs ==
    pc \in {"reset", "build"} /\ ~enospcRetried /\ ~guestHangRetried =>
        Inputs[job] \subseteq store[warm]

(* Every build has the closure it needs, retries included.                 *)
BuildHasInputs == pc = "build" => Inputs[job] \subseteq store[warm]

(* A resource-exhaustion verdict, and an escalation, is about a fault in   *)
(* the job's own time.  reset_job_status says STATUS? "is scoped to *this* *)
(* build"; there are two ways around it, a RESET that did not clear and a  *)
(* build the guest was not done with, and even then the fault is of an     *)
(* earlier job of the same tenant: no wipe, reboot or eviction carries it. *)
VerdictIsEarned ==
    [][outcome' # outcome /\ outcome' \in Exhausted =>
          \/ fault.by = job
          \/ carried /\ fault.by \in Jobs /\ TenantOf[fault.by] = Tenant]_vars

(* Every job that is taken is reported, or dies with the process: no failed*)
(* boot, wipe, dead guest or chain of retries keeps the loop from the next *)
(* one.  What may is a build that does not end, and a guest that hangs     *)
(* outside a build, where the worker waits with no deadline.               *)
JobReported ==
    \/ []<>(pc = "idle")
    \/ <>[]((pc = "build" /\ guest = "up") \/ (guest = "hung" /\ AwaitsGuest))
=============================================================================
