------------------------------- MODULE GuestVm -------------------------------
(***************************************************************************)
(* A worker and the guest agent of its VM: the boot handshake, the pushes  *)
(* over the control port, the nix-daemon spawned for each connection, and  *)
(* the failure detection with its two eBPF maps, its poller and its RESET. *)
(* TenantVm has the store images and the inputs; here they are only        *)
(* present or not.                                                         *)
(*                                                                         *)
(* Process ids are never reused.  A guest that is frozen refuses new       *)
(* connections or never answers them; one whose agent hangs accepts them   *)
(* and answers nothing; neither moves a connection that is open.  The      *)
(* worker dies with its VM, so it does not restart here.                   *)
(***************************************************************************)
EXTENDS Integers, FiniteSets

CONSTANTS
    Jobs,
    Tenants,
    TenantOf,      \* the tenant of each job
    UidCeiling,    \* how many uids lie between UID_BASE and the ceiling
    MaxFaults,     \* bound: OOM kills and full disks in the guests
    NoJob,
    NoTenant,
    None

ASSUME JobsAssumption ==
    /\ TenantOf \in [Jobs -> Tenants]
    /\ NoJob \notin Jobs /\ NoTenant \notin Tenants
ASSUME BoundsAssumption == UidCeiling \in Nat /\ MaxFaults \in Nat

VARIABLES
    taken,        \* the jobs delivered so far
    job, pc,
    fresh,        \* original_boot_was_fresh
    retried,      \* the reasons this job was retried for
    conn,         \* the nix-daemon behind vm_conn
    images,       \* the tenants with a store.img
    uid,          \* UidAllocator: the uid of each tenant, 0 for none
    warm,         \* the tenant of the warm VM
    guest,        \* that VM, from off over its boot stages to up or broken
    agent,        \* the agent's configuration
    detection,    \* whether the eBPF programs are attached
    abandoned,    \* builds that may go on though their client is gone
    victim,       \* OOM_VICTIM_PID
    enospc,       \* ENOSPC_FLAG
    attribution,  \* oom_attribution
    poller,       \* the victim whose cgroup the poller is reading
    lastSeen,     \* the poller's last_seen
    faults,       \* how many there were; numbers the processes killed
    acked,        \* history: whether this guest acknowledged the job's substituters
    reset         \* history: how this attempt's RESET went

jobVars == <<taken, job, pc, fresh, retried>>
poolVars == <<images, uid, warm, guest>>
agentVars == <<agent, detection>>
faultVars == <<victim, enospc, attribution, poller, lastSeen, faults>>
historyVars == <<acked, reset>>
vars == <<taken, job, pc, fresh, retried, conn, images, uid, warm, guest, agent,
          detection, abandoned, victim, enospc, attribution, poller, lastSeen, faults, acked, reset>>

Booting == {"kernel", "agent", "daemonPort"}
Resetting == {"reset", "resetAttribution", "resetEnospc"}
OnGuest == {"subst", "ca", "connect", "reconnect", "fetch", "build", "query", "upload"}
             \cup Resetting
Origins == {"own", "other", "outside"}
Victims == [pid : Nat, by : Origins, stale : BOOLEAN]
FullDisks == [by : Origins, stale : BOOLEAN]
Daemons == [subst : Jobs \cup {NoJob}, onStore : BOOLEAN]

(* Types; and no two store images on disk have an owner in common ("a     *)
(* later tenant assigned the same recycled number could open it", uid.rs). *)
TypeOK ==
    /\ taken \subseteq Jobs
    /\ job \in taken \cup {NoJob}
    /\ pc \in {"idle", "ensure", "boot", "key", "wipe"} \cup OnGuest
    /\ (pc = "idle") = (job = NoJob)
    /\ fresh \in BOOLEAN
    /\ retried \subseteq {"enospc", "oom", "hang"}
    /\ conn \in Daemons \cup {None}
    /\ images \subseteq Tenants
    /\ uid \in [Tenants -> 0 .. UidCeiling]
    /\ \A t, u \in images : t # u => uid[t] # uid[u]
    /\ warm \in Tenants \cup {NoTenant}
    /\ guest \in {"off", "up", "frozen", "agentHung", "dead"} \cup Booting
    /\ agent \in [mounted : BOOLEAN, subst : Jobs \cup {NoJob}]
    /\ detection \in BOOLEAN
    /\ abandoned \subseteq {"own", "other"}
    /\ {victim, poller} \subseteq Victims \cup {None}
    /\ enospc \in FullDisks \cup {None}
    /\ attribution \in [builder : BOOLEAN, by : Origins, stale : BOOLEAN] \cup {None}
    /\ lastSeen \in 0 .. faults
    /\ faults \in 0 .. MaxFaults
    /\ acked \in BOOLEAN
    /\ reset \in [done : BOOLEAN, carried : BOOLEAN, overlap : BOOLEAN]

NewAgent == [mounted |-> FALSE, subst |-> NoJob]
NoReset == [done |-> FALSE, carried |-> FALSE, overlap |-> FALSE]

Init ==
    /\ taken = {} /\ job = NoJob /\ pc = "idle" /\ fresh = FALSE /\ retried = {} /\ conn = None
    /\ images = {} /\ uid = [t \in Tenants |-> 0]
    /\ warm = NoTenant /\ guest = "off" /\ agent = NewAgent /\ detection = FALSE
    /\ abandoned = {} /\ victim = None /\ enospc = None /\ attribution = None
    /\ poller = None /\ lastSeen = 0 /\ faults = 0
    /\ acked = FALSE /\ reset = NoReset

-----------------------------------------------------------------------------
Tenant == TenantOf[job]

Goto(where) == pc' = where /\ UNCHANGED <<taken, job, fresh, retried>>

(* The job is reported; its connection closes.                             *)
Finish ==
    /\ job' = NoJob /\ pc' = "idle" /\ fresh' = FALSE /\ retried' = {} /\ conn' = None
    /\ acked' = FALSE /\ reset' = NoReset /\ UNCHANGED taken

(* Whatever a guest held in memory is gone with it.                        *)
GuestGone ==
    /\ agent' = NewAgent /\ detection' = FALSE /\ abandoned' = {}
    /\ victim' = None /\ enospc' = None /\ attribution' = None
    /\ poller' = None /\ lastSeen' = 0 /\ UNCHANGED faults

(* launcher.stop and evict.                                                *)
StopVm == warm' = NoTenant /\ guest' = "off" /\ GuestGone

(* A new call of the worker may return, with an answer or an error: the    *)
(* connection is refused, or closed.  There is no deadline.                *)
CallReturns == guest # "agentHung"

TakeJob(j) ==
    /\ pc = "idle" /\ j \notin taken
    /\ taken' = taken \cup {j} /\ job' = j /\ pc' = "ensure"
    /\ UNCHANGED <<fresh, retried, conn, poolVars, agentVars, abandoned, faultVars,
                   historyVars>>

-----------------------------------------------------------------------------
(* Booting, from both sides.                                               *)

ReuseVm ==
    /\ pc = "ensure"
    /\ warm = Tenant /\ guest \notin {"off", "dead"}
    /\ pc' = "subst" /\ fresh' = FALSE /\ UNCHANGED <<taken, job, retried>>
    /\ UNCHANGED <<conn, poolVars, agentVars, abandoned, faultVars, historyVars>>

(* Mutant: eviction frees the uid although the image stays.                *)
AllocateEvicted(t) ==
    LET held == Cardinality({u \in Tenants : uid[u] # 0})
    IN  IF uid[t] # 0 THEN uid[t]
        ELSE IF warm # NoTenant THEN uid[warm] ELSE IF held < UidCeiling THEN held + 1 ELSE 0

(* UidAllocator::allocate; 0 when the range is exhausted.  Nothing calls   *)
(* release, so no uid is recycled.                                         *)
Allocate(t) ==
    LET held == Cardinality({u \in Tenants : uid[u] # 0})
    IN  IF uid[t] # 0 THEN uid[t] ELSE IF held < UidCeiling THEN held + 1 ELSE 0

(* ensure_vm_for evicts, allocates the uid and launches passt and the VM;  *)
(* the hypervisor's child creates a missing image before it runs.          *)
StartVm ==
    /\ pc = "ensure"
    /\ ~(warm = Tenant /\ guest \notin {"off", "dead"})
    /\ warm' = NoTenant /\ GuestGone
    /\ uid' = [uid EXCEPT ![Tenant] = Allocate(Tenant)]
    /\ Allocate(Tenant) # 0
    /\ images' = images \cup {Tenant} /\ guest' = "kernel"
    /\ fresh' = IF retried = {} THEN Tenant \notin images ELSE fresh
    /\ pc' = "boot" /\ conn' = None /\ UNCHANGED <<taken, job, retried, historyVars>>

(* The tenant's directory, uid, passt or hypervisor cannot be had.         *)
StartFails ==
    /\ pc = "ensure"
    /\ ~(warm = Tenant /\ guest \notin {"off", "dead"})
    /\ images' \in {images, images \cup {Tenant}}
    /\ uid' \in {uid, [uid EXCEPT ![Tenant] = Allocate(Tenant)]}
    /\ Tenant \in images' => uid'[Tenant] # 0
    /\ StopVm /\ Finish

(* guest-init's loop mount and switch_root; die() ends the guest.          *)
GuestInit ==
    /\ guest = "kernel"
    /\ guest' \in {"agent", "dead"}
    /\ UNCHANGED <<jobVars, conn, images, uid, warm, agentVars, abandoned, faultVars,
                   historyVars>>

(* DetectionState::setup attaches the three programs or none.              *)
DetectionSetup == detection' \in BOOLEAN

(* Mounts, build cgroup, detection and network are best effort; then the   *)
(* daemon port is bound.                                                   *)
AgentSetup ==
    /\ guest = "agent"
    /\ DetectionSetup
    /\ guest' \in {"daemonPort", "dead"}
    /\ UNCHANGED <<jobVars, conn, images, uid, warm, agent, abandoned, faultVars,
                   historyVars>>

(* The control and log ports, and the accept loops.                        *)
BindControl ==
    /\ guest = "daemonPort"
    /\ guest' \in {"up", "dead"}
    /\ UNCHANGED <<jobVars, conn, images, uid, warm, agentVars, abandoned, faultVars,
                   historyVars>>

(* wait_for_vsock_ready: the daemon port answers.                          *)
Ready ==
    /\ pc = "boot"
    /\ guest \in {"daemonPort", "up"}
    /\ Goto("key")
    /\ UNCHANGED <<conn, poolVars, agentVars, abandoned, faultVars, historyVars>>

(* Mutant: a guest that never answers is waited for.                       *)
WaitForEver == FALSE /\ UNCHANGED vars

(* boot_timeout elapsed or the handshake failed for good.                  *)
BootFails ==
    /\ pc = "boot"
    /\ StopVm /\ Finish
    /\ UNCHANGED <<images, uid>>

(* push_key, unlock_and_mount; the store is mounted before the VM is kept. *)
PushKey ==
    /\ pc = "key"
    /\ guest = "up"
    /\ agent' = [agent EXCEPT !.mounted = TRUE]
    /\ warm' = Tenant
    /\ Goto(IF retried = {} THEN "subst" ELSE "reconnect")
    /\ UNCHANGED <<conn, images, uid, guest, detection, abandoned, faultVars, historyVars>>

(* The guest rejects the key, or its control port is not bound yet: the    *)
(* readiness poll only saw the daemon port, and nothing dials twice.       *)
KeyRejected ==
    /\ pc = "key"
    /\ CallReturns
    /\ StopVm /\ Finish
    /\ UNCHANGED <<images, uid>>

-----------------------------------------------------------------------------
(* The pushes, and the daemon of a connection.                             *)

(* A frame that is too long for the server's buffer, or a connection lost. *)
PushLost == UNCHANGED <<agent, acked>>

(* handle_push_substituters replaces the list.                             *)
HandlePushSubstituters == agent' = [agent EXCEPT !.subst = job] /\ acked' = TRUE

(* Mutant: a warm guest is not told the job's substituters.                *)
PushToNewGuests ==
    /\ pc = "subst"
    /\ CallReturns
    /\ \/ guest = "up" /\ agent.subst = NoJob /\ HandlePushSubstituters
       \/ guest = "up" /\ agent.subst # NoJob /\ acked' = TRUE /\ UNCHANGED agent
       \/ PushLost
    /\ Goto("ca")
    /\ UNCHANGED <<conn, poolVars, detection, abandoned, faultVars, reset>>

(* push_substituters; a failure is only logged.                            *)
PushSubstituters ==
    /\ pc = "subst"
    /\ CallReturns
    /\ (guest = "up" /\ HandlePushSubstituters) \/ PushLost
    /\ Goto("ca")
    /\ UNCHANGED <<conn, poolVars, detection, abandoned, faultVars, reset>>

(* push_ca_cert, likewise.  The bytes are the same for every job.          *)
PushCaCert ==
    /\ pc = "ca"
    /\ CallReturns
    /\ Goto("connect")
    /\ UNCHANGED <<conn, poolVars, agentVars, abandoned, faultVars, historyVars>>

(* spawn_nix_daemon                                                        *)
NixDaemon == [subst |-> agent.subst, onStore |-> agent.mounted]

(* serve: a nix-daemon with the configuration of this moment, moved into   *)
(* the build cgroup.  VmConn::open waits for its greeting.                 *)
Serve ==
    /\ pc \in {"connect", "reconnect"}
    /\ guest = "up"
    /\ conn' = NixDaemon
    /\ Goto(IF pc = "connect" THEN "fetch" ELSE "reset")
    /\ UNCHANGED <<poolVars, agentVars, abandoned, faultVars, historyVars>>

(* Refused, no daemon, or no greeting: the job fails, the VM stays warm.   *)
ConnectFails ==
    /\ pc \in {"connect", "reconnect"}
    /\ CallReturns
    /\ Finish
    /\ UNCHANGED <<poolVars, agentVars, abandoned, faultVars>>

(* fetch_inputs over the open connection; a download may fail whatever the *)
(* guest does.                                                             *)
FetchInputs ==
    /\ pc = "fetch"
    /\ \/ guest = "up" /\ Goto("reset") /\ UNCHANGED <<conn, historyVars>>
       \/ Finish
    /\ UNCHANGED <<poolVars, agentVars, abandoned, faultVars>>

-----------------------------------------------------------------------------
(* Failure detection.                                                      *)

(* Whom a fault may hit: the job's build, an abandoned one of this attempt *)
(* or of an earlier one, or any other process of the guest.                *)
Culprits ==
    {"outside"} \cup (IF pc = "build" THEN {"own"} ELSE {})
                \cup abandoned

(* oom_mark_victim: the latest victim is the one the map holds.            *)
OomKill ==
    /\ guest = "up" /\ detection
    /\ faults < MaxFaults
    /\ \E c \in Culprits : victim' = [pid |-> faults + 1, by |-> c, stale |-> FALSE]
    /\ faults' = faults + 1
    /\ UNCHANGED <<jobVars, conn, poolVars, agentVars, abandoned, enospc, attribution,
                   poller, lastSeen, historyVars>>

(* vfs_write_ret and errseq_set.                                           *)
DiskFull ==
    /\ guest = "up" /\ detection
    /\ faults < MaxFaults
    /\ \E c \in Culprits : enospc' = [by |-> c, stale |-> FALSE]
    /\ faults' = faults + 1
    /\ UNCHANGED <<jobVars, conn, poolVars, agentVars, abandoned, victim, attribution,
                   poller, lastSeen, historyVars>>

(* The poller reads the map and, for a victim it has not seen, looks at    *)
(* the build cgroup with no lock held.                                     *)
PollRead ==
    /\ guest = "up" /\ poller = None
    /\ lastSeen # (IF victim = None THEN 0 ELSE victim.pid)
    /\ lastSeen' = IF victim = None THEN 0 ELSE victim.pid
    /\ poller' = victim
    /\ UNCHANGED <<jobVars, conn, poolVars, agentVars, abandoned, victim, enospc,
                   attribution, faults, historyVars>>

(* is_in_build_cgroup reads build/cgroup.procs alone: a victim that could  *)
(* not be moved there, has left it or was put in a cgroup below it by Lix  *)
(* is not found.                                                           *)
InBuildCgroup(v) == {FALSE, v.by # "outside"}

PollStore ==
    /\ guest = "up" /\ poller # None
    /\ \E builder \in InBuildCgroup(poller) :
          attribution' = [builder |-> builder, by |-> poller.by, stale |-> poller.stale]
    /\ poller' = None
    /\ UNCHANGED <<jobVars, conn, poolVars, agentVars, abandoned, victim, enospc,
                   lastSeen, faults, historyVars>>

(* What was recorded before this attempt, and the builds left from then.   *)
Stale(f) == IF f = None THEN None ELSE [f EXCEPT !.stale = TRUE]
LeftOver == IF abandoned = {} THEN {} ELSE {"other"}

(* Mutant: the victim stays in the map.                                    *)
VictimKept ==
    /\ pc = "reset"
    /\ guest = "up" /\ detection
    /\ victim' = Stale(victim)
    /\ enospc' = Stale(enospc) /\ attribution' = Stale(attribution)
    /\ poller' = Stale(poller)
    /\ abandoned' = LeftOver
    /\ reset' = [NoReset EXCEPT !.overlap = abandoned # {}]
    /\ Goto("resetAttribution")
    /\ UNCHANGED <<conn, poolVars, agentVars, lastSeen, faults, acked>>

(* DetectionState::reset clears the map, the attribution and the flag one  *)
(* after the other, and the poller may run between them.                   *)
ResetVictim ==
    /\ pc = "reset"
    /\ guest = "up" /\ detection
    /\ victim' = None
    /\ enospc' = Stale(enospc) /\ attribution' = Stale(attribution)
    /\ poller' = Stale(poller)
    /\ abandoned' = LeftOver
    /\ reset' = [NoReset EXCEPT !.overlap = abandoned # {}]
    /\ Goto("resetAttribution")
    /\ UNCHANGED <<conn, poolVars, agentVars, lastSeen, faults, acked>>

ResetAttribution ==
    /\ pc = "resetAttribution"
    /\ guest = "up"
    /\ attribution' = None
    /\ reset' = [reset EXCEPT !.carried = poller # None /\ poller.stale]
    /\ Goto("resetEnospc")
    /\ UNCHANGED <<conn, poolVars, agentVars, abandoned, victim, enospc, poller,
                   lastSeen, faults, acked>>

ResetEnospc ==
    /\ pc = "resetEnospc"
    /\ guest = "up"
    /\ enospc' = None
    /\ reset' = [reset EXCEPT !.done = TRUE]
    /\ Goto("build")
    /\ UNCHANGED <<conn, poolVars, agentVars, abandoned, victim, attribution, poller,
                   lastSeen, faults, acked>>

(* No detection, or no answer: logged, and the build goes ahead.           *)
ResetFails ==
    /\ pc \in Resetting
    /\ CallReturns
    /\ reset' = NoReset
    /\ Goto("build")
    /\ UNCHANGED <<conn, poolVars, agentVars, abandoned, faultVars, acked>>

-----------------------------------------------------------------------------
(* The build and the retry loop.                                           *)

Completed ==
    /\ pc = "build"
    /\ guest = "up"
    /\ Goto("upload")
    /\ UNCHANGED <<conn, poolVars, agentVars, abandoned, faultVars, historyVars>>

(* upload_output dumps each output over the same connection.               *)
Upload ==
    /\ pc = "upload"
    /\ Finish
    /\ UNCHANGED <<poolVars, agentVars, abandoned, faultVars>>

(* The client of the job's build is gone; a guest that is up may build on. *)
Abandon == abandoned' = abandoned \cup (IF guest = "up" THEN {"own"} ELSE {})

(* run_build failed, or lost its connection.                               *)
Failed ==
    /\ pc = "build"
    /\ guest \in {"up", "dead"}
    /\ UNCHANGED abandoned \/ Abandon
    /\ Goto("query")
    /\ UNCHANGED <<conn, poolVars, agentVars, faultVars, historyVars>>

(* Mutant: the monitor waits for the VM's process to die.                  *)
HungOnceDead ==
    /\ pc = "build"
    /\ guest = "dead"
    /\ Finish
    /\ UNCHANGED <<poolVars, agentVars, abandoned, faultVars>>

(* guest_heartbeat_monitor gave up.  The first time the VM is wiped; the   *)
(* second time the job ends, and the guest may still be building for it.   *)
GuestHung ==
    /\ pc = "build"
    /\ \/ /\ "hang" \notin retried
          /\ retried' = retried \cup {"hang"} /\ pc' = "wipe"
          /\ UNCHANGED <<taken, job, fresh, conn, abandoned, historyVars>>
       \/ /\ "hang" \in retried
          /\ Abandon
          /\ Finish
    /\ UNCHANGED <<poolVars, agentVars, faultVars>>

(* The daemon of an abandoned build notices the closed connection.         *)
AbandonedExits ==
    /\ guest = "up"
    /\ \E c \in abandoned : abandoned' = abandoned \ {c}
    /\ UNCHANGED <<jobVars, conn, poolVars, agentVars, faultVars, historyVars>>

QueryFails ==
    /\ pc = "query"
    /\ CallReturns
    /\ Finish
    /\ UNCHANGED <<poolVars, agentVars, abandoned, faultVars>>

(* DetectionState::status: an OOM hides a full disk.                       *)
Status == IF attribution # None THEN attribution ELSE enospc

Retry(reason, where) ==
    /\ retried' = retried \cup {reason} /\ pc' = where
    /\ UNCHANGED <<taken, job, fresh, conn, historyVars>>

(* query_status and next_action.                                           *)
NextAction ==
    /\ pc = "query"
    /\ guest = "up" /\ detection
    /\ \/ /\ attribution # None /\ ~attribution.builder /\ "oom" \notin retried
          /\ Retry("oom", "reconnect")
       \/ /\ attribution = None /\ enospc # None /\ "enospc" \notin retried /\ ~fresh
          /\ Retry("enospc", "wipe")
       \/ /\ \/ Status = None
             \/ attribution # None /\ (attribution.builder \/ "oom" \in retried)
             \/ attribution = None /\ ("enospc" \in retried \/ fresh)
          /\ Finish
    /\ UNCHANGED <<poolVars, agentVars, abandoned, faultVars>>

(* wipe_and_reboot: evict, remove the image, boot again.  Nothing is       *)
(* pushed to the new guest but the key.                                    *)
Wipe ==
    /\ pc = "wipe"
    /\ StopVm
    /\ images' = images \ {Tenant} /\ UNCHANGED uid
    /\ pc' = "ensure" /\ conn' = None /\ acked' = FALSE /\ reset' = NoReset
    /\ UNCHANGED <<taken, job, fresh, retried>>

(* The image cannot be removed; the VM is gone all the same.               *)
WipeFails ==
    /\ pc = "wipe"
    /\ StopVm /\ Finish
    /\ UNCHANGED <<images, uid>>

-----------------------------------------------------------------------------
(* Nothing reads the memory of a guest that failed.                        *)
GuestFails(how) ==
    /\ guest \in {"up", "frozen", "agentHung"} /\ guest # how
    /\ guest = "up" \/ how = "dead"
    /\ guest' = how
    /\ GuestGone
    /\ UNCHANGED <<jobVars, conn, images, uid, warm, historyVars>>

JobStep ==
    \/ ReuseVm \/ StartVm \/ StartFails \/ Ready \/ BootFails \/ PushKey \/ KeyRejected
    \/ PushSubstituters \/ PushCaCert \/ Serve \/ ConnectFails \/ FetchInputs
    \/ ResetVictim \/ ResetAttribution \/ ResetEnospc \/ ResetFails
    \/ QueryFails \/ NextAction \/ Wipe \/ WipeFails \/ Upload

BuildStep == Completed \/ Failed

GuestStep ==
    \/ GuestInit \/ AgentSetup \/ BindControl
    \/ OomKill \/ DiskFull \/ PollRead \/ PollStore
    \/ AbandonedExits
    \/ \E how \in {"frozen", "agentHung", "dead"} : GuestFails(how)

Next ==
    \/ \E j \in Jobs : TakeJob(j)
    \/ JobStep \/ BuildStep \/ GuestHung \/ GuestStep

Spec == Init /\ [][Next]_vars

(* Nothing but a boot or a wipe ends for a guest that froze or hangs: the  *)
(* worker sits in a call that has no deadline.                             *)
Stuck == guest \in {"frozen", "agentHung"} /\ pc \in {"key"} \cup OnGuest

(* The worker's loop goes on wherever it is answered, refused or timed     *)
(* out; a build may take for ever.  The heartbeat deadline is the          *)
(* monitor's own timer.                                                    *)
FairSpec ==
    /\ Spec
    /\ WF_vars(~Stuck /\ JobStep)
    /\ WF_vars(guest # "up" /\ GuestHung)

-----------------------------------------------------------------------------
(* Properties.                                                             *)

(* The daemon a job talks to runs on the unlocked store of the job's own   *)
(* tenant, whatever raced during the boot (push_key before the VM is       *)
(* kept), and substitutes from the job's own list once the guest           *)
(* acknowledged it, else from none or from an earlier list of the same     *)
(* tenant, never another's (serve reads it when it accepts).               *)
OwnDaemon ==
    pc \in OnGuest /\ conn # None =>
        /\ conn.onStore /\ warm = Tenant
        /\ acked => conn.subst = job
        /\ conn.subst # NoJob => TenantOf[conn.subst] = Tenant

(* What STATUS? reports of a build whose RESET went through happened       *)
(* during that build, and to it or to a process outside builds.  There are *)
(* just two ways around RESET: a victim the poller was looking at when the *)
(* attribution was cleared, and an abandoned build of an earlier job or    *)
(* attempt.                                                                *)
StatusIsThisBuilds ==
    pc = "query" /\ reset.done /\ Status # None =>
        \/ ~Status.stale /\ Status.by \in {"own", "outside"}
        \/ reset.carried \/ reset.overlap

(* A worker never waits for ever for a guest that is building and gone,    *)
(* whether it froze, died or only its agent hangs                          *)
(* (guest_heartbeat_monitor).                                              *)
HangNoticed == pc = "build" /\ guest # "up" ~> pc # "build"

(* Outside the build a job gets on, through failed boots, dead guests,     *)
(* refused connections and retries, unless the guest froze or its agent    *)
(* hangs there: only the build has a deadline (guest_heartbeat_monitor).   *)
JobGetsOn ==
    []<>(pc = "idle") \/ <>[]((pc = "build" /\ guest = "up") \/ (pc # "build" /\ Stuck))
=============================================================================
