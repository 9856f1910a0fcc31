--------------------------- MODULE GuestVmProofs ---------------------------
(***************************************************************************)
(* Proofs about GuestVm, for any jobs, tenants and number of faults.       *)
(*                                                                         *)
(* OwnDaemon rests on when a VM is kept: only after push_key mounted the   *)
(* store of the tenant it was booted for, and whatever a guest was told    *)
(* goes with it (OwnVm, OwnList, OwnConn).  StatusIsThisBuilds follows     *)
(* RESET through its three steps, between which the poller may run: each   *)
(* step makes one more of the records this attempt's (Recorded).           *)
(***************************************************************************)
EXTENDS GuestVm, FiniteSetTheorems, TLAPS

Held == {t \in Tenants : uid[t] # 0}

(* Uids are handed out in order and none twice; an image on disk has one.  *)
Owners ==
    /\ IsFiniteSet(Held)
    /\ \A t \in Tenants : uid[t] <= Cardinality(Held)
    /\ \A t, u \in Held : t # u => uid[t] # uid[u]
    /\ images \subseteq Held

(* The map holds a process that was killed.                                *)
Pids == victim # None => victim.pid <= faults

BeforeDaemon == {"idle", "ensure", "boot", "key", "subst", "ca", "connect"}

(* The VM a job uses is its tenant's, and a guest is kept once its store   *)
(* is mounted and not before it finished booting.                          *)
OwnVm ==
    /\ pc \in OnGuest \cup {"wipe"} => warm = Tenant
    /\ pc \in {"boot", "key"} \/ guest \in Booting => warm = NoTenant
    /\ warm # NoTenant /\ guest = "up" => agent.mounted

(* The guest's substituters are those of a job of its tenant, and of this  *)
(* job if it acknowledged them.                                            *)
OwnList ==
    /\ agent.subst # NoJob => warm # NoTenant /\ TenantOf[agent.subst] = warm
    /\ acked => pc \in (OnGuest \cup {"wipe"}) \ {"subst"}
    /\ acked /\ guest = "up" => agent.subst = job

(* The daemon connected to is one that OwnDaemon allows, in every phase.   *)
OwnConn ==
    /\ pc \in BeforeDaemon => conn = None
    /\ conn # None =>
          /\ conn.onStore
          /\ acked => conn.subst = job
          /\ conn.subst # NoJob => TenantOf[conn.subst] = Tenant

(* From where RESET has cleared the victim, the attribution, the flag.     *)
Settled == pc \in {"build", "query"} /\ reset.done
VictimCleared == pc \in {"resetAttribution", "resetEnospc"} \/ Settled
AttributionCleared == pc = "resetEnospc" \/ Settled

(* Not the work of a build that an earlier job abandoned.                  *)
Ours(f) == f.by = "other" => reset.overlap

(* What is recorded from there on is of this attempt, but for the victim   *)
(* the poller carries over.                                                *)
Recorded ==
    /\ VictimCleared =>
          /\ "other" \in abandoned => reset.overlap
          /\ victim # None => ~victim.stale /\ Ours(victim)
          /\ poller # None => poller.stale \/ Ours(poller)
    /\ AttributionCleared =>
          /\ poller # None /\ poller.stale => reset.carried
          /\ attribution # None =>
                reset.carried \/ (~attribution.stale /\ Ours(attribution))
    /\ Settled /\ enospc # None => ~enospc.stale /\ Ours(enospc)

IInv ==
    /\ TypeOK
    /\ Owners
    /\ Pids
    /\ OwnVm
    /\ OwnList
    /\ OwnConn
    /\ Recorded
-----------------------------------------------------------------------------
(* TypeOK in two parts: the flags and what they are fields of, the rest.   *)
Flags ==
    /\ {fresh, detection, acked} \subseteq BOOLEAN
    /\ conn \in Daemons \cup {None}
    /\ agent \in [mounted : BOOLEAN, subst : Jobs \cup {NoJob}]
    /\ victim \in Victims \cup {None}
    /\ poller \in Victims \cup {None}
    /\ enospc \in FullDisks \cup {None}
    /\ attribution \in [builder : BOOLEAN, by : Origins, stale : BOOLEAN] \cup {None}
    /\ reset \in [done : BOOLEAN, carried : BOOLEAN, overlap : BOOLEAN]

Plain ==
    /\ taken \subseteq Jobs
    /\ job \in taken \cup {NoJob}
    /\ pc \in {"idle", "ensure", "boot", "key", "wipe"} \cup OnGuest
    /\ (pc = "idle") = (job = NoJob)
    /\ retried \subseteq {"enospc", "oom", "hang"}
    /\ images \subseteq Tenants
    /\ uid \in [Tenants -> 0 .. UidCeiling]
    /\ warm \in Tenants \cup {NoTenant}
    /\ guest \in {"off", "up", "frozen", "agentHung", "dead"} \cup Booting
    /\ abandoned \subseteq {"own", "other"}
    /\ lastSeen \in 0 .. faults
    /\ faults \in 0 .. MaxFaults

LEMMA TypeParts == Flags /\ Plain /\ Owners => TypeOK
BY DEF Flags, Plain, Owners, Held, TypeOK

LEMMA TypeHasParts == TypeOK => Flags /\ Plain
BY DEF Flags, Plain, TypeOK

LEMMA AllocateType ==
    ASSUME Plain, Owners, NEW t \in Tenants
    PROVE  Allocate(t) \in 0 .. UidCeiling
<1>1. Cardinality(Held) \in Nat
  BY FS_CardinalityType DEF Owners
<1> QED BY <1>1, BoundsAssumption DEF Allocate, Held, Plain

(* No pid the poller has seen is newer than the last fault.                *)
LEMMA PlainStep ==
    ASSUME Plain, Flags, Owners, Pids, [Next]_vars
    PROVE  Plain' /\ Pids'
<1> USE JobsAssumption, BoundsAssumption DEF Plain, Pids, Flags, Victims, OnGuest,
   Resetting, Booting, Tenant, jobVars, poolVars, agentVars, faultVars, historyVars
<1>1. ASSUME NEW j \in Jobs, TakeJob(j) PROVE Plain' /\ Pids'
  BY <1>1 DEF TakeJob
<1>2. ASSUME ReuseVm PROVE Plain' /\ Pids'
  BY <1>2 DEF ReuseVm
<1>3. ASSUME StartVm PROVE Plain' /\ Pids'
  BY <1>3, AllocateType DEF StartVm, GuestGone, NewAgent
<1>4. ASSUME StartFails PROVE Plain' /\ Pids'
  BY <1>4, AllocateType DEF StartFails, Finish, NoReset, StopVm, GuestGone, NewAgent
<1>5. ASSUME GuestInit PROVE Plain' /\ Pids'
  BY <1>5 DEF GuestInit
<1>6. ASSUME AgentSetup PROVE Plain' /\ Pids'
  BY <1>6 DEF AgentSetup, DetectionSetup
<1>7. ASSUME BindControl PROVE Plain' /\ Pids'
  BY <1>7 DEF BindControl
<1>8. ASSUME Ready PROVE Plain' /\ Pids'
  BY <1>8 DEF Ready, Goto
<1>9. ASSUME BootFails PROVE Plain' /\ Pids'
  BY <1>9 DEF BootFails, Finish, NoReset, StopVm, GuestGone, NewAgent
<1>10. ASSUME PushKey PROVE Plain' /\ Pids'
  BY <1>10 DEF PushKey, Goto
<1>11. ASSUME KeyRejected PROVE Plain' /\ Pids'
  BY <1>11 DEF KeyRejected, Finish, NoReset, StopVm, GuestGone, NewAgent, CallReturns
<1>12. ASSUME PushSubstituters PROVE Plain' /\ Pids'
  BY <1>12 DEF PushSubstituters, Goto, PushLost, HandlePushSubstituters, CallReturns
<1>13. ASSUME PushCaCert PROVE Plain' /\ Pids'
  BY <1>13 DEF PushCaCert, Goto, CallReturns
<1>14. ASSUME Serve PROVE Plain' /\ Pids'
  BY <1>14 DEF Serve, Goto, NixDaemon
<1>15. ASSUME ConnectFails PROVE Plain' /\ Pids'
  BY <1>15 DEF ConnectFails, Finish, NoReset, CallReturns
<1>16. ASSUME FetchInputs PROVE Plain' /\ Pids'
  BY <1>16 DEF FetchInputs, Goto, Finish, NoReset, CallReturns
<1>17. ASSUME OomKill PROVE Plain' /\ Pids'
  BY <1>17 DEF OomKill, Culprits
<1>18. ASSUME DiskFull PROVE Plain' /\ Pids'
  BY <1>18 DEF DiskFull, Culprits
<1>19. ASSUME PollRead PROVE Plain' /\ Pids'
  BY <1>19 DEF PollRead
<1>20. ASSUME PollStore PROVE Plain' /\ Pids'
  BY <1>20 DEF PollStore, InBuildCgroup
<1>21. ASSUME ResetVictim PROVE Plain' /\ Pids'
  BY <1>21 DEF ResetVictim, Goto, Stale, LeftOver, NoReset
<1>22. ASSUME ResetAttribution PROVE Plain' /\ Pids'
  BY <1>22 DEF ResetAttribution, Goto
<1>23. ASSUME ResetEnospc PROVE Plain' /\ Pids'
  BY <1>23 DEF ResetEnospc, Goto
<1>24. ASSUME ResetFails PROVE Plain' /\ Pids'
  BY <1>24 DEF ResetFails, Goto, CallReturns, NoReset
<1>25. ASSUME Completed PROVE Plain' /\ Pids'
  BY <1>25 DEF Completed, Goto
<1>26. ASSUME Failed PROVE Plain' /\ Pids'
  BY <1>26 DEF Failed, Goto, Abandon
<1>27. ASSUME GuestHung PROVE Plain' /\ Pids'
  BY <1>27 DEF GuestHung, Abandon, Finish, NoReset
<1>28. ASSUME AbandonedExits PROVE Plain' /\ Pids'
  BY <1>28 DEF AbandonedExits
<1>29. ASSUME QueryFails PROVE Plain' /\ Pids'
  BY <1>29 DEF QueryFails, Finish, NoReset, CallReturns
<1>30. ASSUME NextAction PROVE Plain' /\ Pids'
  BY <1>30 DEF NextAction, Finish, NoReset, Status, Retry
<1>31. ASSUME Wipe PROVE Plain' /\ Pids'
  BY <1>31 DEF Wipe, StopVm, GuestGone, NewAgent, NoReset
<1>32. ASSUME WipeFails PROVE Plain' /\ Pids'
  BY <1>32 DEF WipeFails, Finish, NoReset, StopVm, GuestGone, NewAgent
<1>33. ASSUME NEW how \in {"frozen", "agentHung", "dead"}, GuestFails(how) PROVE Plain' /\ Pids'
  BY <1>33 DEF GuestFails, GuestGone, NewAgent
<1>35. ASSUME Upload PROVE Plain' /\ Pids'
  BY <1>35 DEF Upload, Finish, NoReset
<1>34. CASE UNCHANGED vars
  BY <1>34 DEF vars
<1> QED BY <1>1, <1>2, <1>3, <1>4, <1>5, <1>6, <1>7, <1>8, <1>9, <1>10, <1>11, <1>12, <1>13,
   <1>14, <1>15, <1>16, <1>17, <1>18, <1>19, <1>20, <1>21, <1>22, <1>23, <1>24, <1>25,
   <1>26, <1>27, <1>28, <1>29, <1>30, <1>31, <1>32, <1>33, <1>34,
   <1>35 DEF Next, JobStep,
   BuildStep, GuestStep

(* Most steps leave the flags alone, or end the job.                       *)
LEMMA QuietFlags ==
    ASSUME Flags, UNCHANGED <<fresh, conn, agentVars, faultVars, historyVars>>
    PROVE  Flags'
BY Zenon DEF Flags, agentVars, faultVars, historyVars

LEMMA FinishFlags ==
    ASSUME Flags, Finish, UNCHANGED <<agentVars, faultVars>>
    PROVE  Flags'
BY Zenon DEF Flags, Finish, NoReset, agentVars, faultVars

LEMMA FlagsStep ==
    ASSUME Plain, Flags, [Next]_vars
    PROVE  Flags'
<1> USE JobsAssumption, BoundsAssumption DEF Flags, jobVars, poolVars, agentVars, faultVars,
   historyVars
<1>1. ASSUME NEW j \in Jobs, TakeJob(j) PROVE Flags'
  BY <1>1, QuietFlags DEF TakeJob
<1>2. ASSUME ReuseVm PROVE Flags'
  BY <1>2, Zenon DEF ReuseVm, Tenant
<1>3. ASSUME StartVm PROVE Flags'
  BY <1>3, Zenon DEF StartVm, GuestGone, NewAgent, Tenant
<1>4. ASSUME StartFails PROVE Flags'
  BY <1>4, Zenon DEF StartFails, Finish, NoReset, StopVm, GuestGone, NewAgent, Tenant
<1>5. ASSUME GuestInit PROVE Flags'
  BY <1>5, QuietFlags DEF GuestInit
<1>6. ASSUME AgentSetup PROVE Flags'
  BY <1>6, ZenonT(40) DEF AgentSetup, DetectionSetup
<1>7. ASSUME BindControl PROVE Flags'
  BY <1>7, QuietFlags DEF BindControl
<1>8. ASSUME Ready PROVE Flags'
  BY <1>8, QuietFlags DEF Ready, Goto
<1>9. ASSUME BootFails PROVE Flags'
  BY <1>9, Zenon DEF BootFails, Finish, NoReset, StopVm, GuestGone, NewAgent
<1>10. ASSUME PushKey PROVE Flags'
  BY <1>10, Zenon DEF PushKey, Goto, Tenant
<1>11. ASSUME KeyRejected PROVE Flags'
  BY <1>11, Zenon DEF KeyRejected, Finish, NoReset, StopVm, GuestGone, NewAgent, CallReturns
<1>12. ASSUME PushSubstituters PROVE Flags'
  BY <1>12, Zenon DEF PushSubstituters, Goto, PushLost, HandlePushSubstituters, CallReturns,
     Plain
<1>13. ASSUME PushCaCert PROVE Flags'
  BY <1>13, QuietFlags DEF PushCaCert, Goto
<1>14. ASSUME Serve PROVE Flags'
  BY <1>14, Zenon DEF Serve, Goto, NixDaemon, Daemons
<1>15. ASSUME ConnectFails PROVE Flags'
  BY <1>15, FinishFlags DEF ConnectFails
<1>16. ASSUME FetchInputs PROVE Flags'
  BY <1>16, QuietFlags, FinishFlags DEF FetchInputs, Goto
<1>17. ASSUME OomKill PROVE Flags'
  <2> PICK c \in Culprits : victim' = [pid |-> faults + 1, by |-> c, stale |-> FALSE]
    BY <1>17 DEF OomKill
  <2>1. faults + 1 \in Nat /\ c \in Origins
    BY DEF Plain, Culprits, Origins
  <2>2. victim' \in Victims
    BY <2>1, Zenon DEF Victims
  <2> QED BY <1>17, <2>2, Zenon DEF OomKill
<1>18. ASSUME DiskFull PROVE Flags'
  <2> PICK c \in Culprits : enospc' = [by |-> c, stale |-> FALSE]
    BY <1>18 DEF DiskFull
  <2>1. c \in Origins
    BY DEF Plain, Culprits, Origins
  <2>2. enospc' \in FullDisks
    BY <2>1, Zenon DEF FullDisks
  <2> QED BY <1>18, <2>2, Zenon DEF DiskFull
<1>19. ASSUME PollRead PROVE Flags'
  BY <1>19, Zenon DEF PollRead
<1>20. ASSUME PollStore PROVE Flags'
  <2> PICK b \in InBuildCgroup(poller) :
             attribution' = [builder |-> b, by |-> poller.by, stale |-> poller.stale]
    BY <1>20 DEF PollStore
  <2>1. b \in BOOLEAN /\ poller.by \in Origins /\ poller.stale \in BOOLEAN
    BY <1>20, Zenon DEF PollStore, InBuildCgroup, Victims
  <2>2. attribution' \in [builder : BOOLEAN, by : Origins, stale : BOOLEAN]
    BY <2>1, Zenon
  <2> QED BY <1>20, <2>2, Zenon DEF PollStore
<1>21. ASSUME ResetVictim PROVE Flags'
  BY <1>21, Zenon DEF ResetVictim, Goto, Stale, LeftOver, NoReset, Victims, FullDisks
<1>22. ASSUME ResetAttribution PROVE Flags'
  BY <1>22, Zenon DEF ResetAttribution, Goto, Victims
<1>23. ASSUME ResetEnospc PROVE Flags'
  BY <1>23, Zenon DEF ResetEnospc, Goto
<1>24. ASSUME ResetFails PROVE Flags'
  BY <1>24, Zenon DEF ResetFails, Goto, CallReturns, NoReset
<1>25. ASSUME Completed PROVE Flags'
  BY <1>25, QuietFlags DEF Completed, Goto
<1>26. ASSUME Failed PROVE Flags'
  BY <1>26, QuietFlags DEF Failed, Goto
<1>27. ASSUME GuestHung PROVE Flags'
  <2>1. CASE "hang" \notin retried
    BY <1>27, <2>1, QuietFlags DEF GuestHung
  <2>2. CASE "hang" \in retried
    <3>1. Finish /\ UNCHANGED <<agentVars, faultVars>>
      BY <1>27, <2>2, Zenon DEF GuestHung
    <3> QED BY <3>1, FinishFlags
  <2> QED BY <2>1, <2>2
<1>28. ASSUME AbandonedExits PROVE Flags'
  BY <1>28, Zenon DEF AbandonedExits
<1>29. ASSUME QueryFails PROVE Flags'
  BY <1>29, FinishFlags DEF QueryFails
<1>30. ASSUME NextAction PROVE Flags'
  <2>1. CASE Finish
    BY <1>30, <2>1, FinishFlags DEF NextAction
  <2>2. CASE Retry("oom", "reconnect") \/ Retry("enospc", "wipe")
    BY <1>30, <2>2, QuietFlags DEF NextAction, Retry
  <2> QED BY <1>30, <2>1, <2>2 DEF NextAction
<1>31. ASSUME Wipe PROVE Flags'
  BY <1>31, Zenon DEF Wipe, StopVm, GuestGone, NewAgent, NoReset, Tenant
<1>32. ASSUME WipeFails PROVE Flags'
  BY <1>32, Zenon DEF WipeFails, Finish, NoReset, StopVm, GuestGone, NewAgent
<1>33. ASSUME NEW how \in {"frozen", "agentHung", "dead"}, GuestFails(how) PROVE Flags'
  BY <1>33, Zenon DEF GuestFails, GuestGone, NewAgent
<1>35. ASSUME Upload PROVE Flags'
  BY <1>35, FinishFlags DEF Upload
<1>34. CASE UNCHANGED vars
  BY <1>34 DEF vars
<1> QED BY <1>1, <1>2, <1>3, <1>4, <1>5, <1>6, <1>7, <1>8, <1>9, <1>10, <1>11, <1>12, <1>13,
   <1>14, <1>15, <1>16, <1>17, <1>18, <1>19, <1>20, <1>21, <1>22, <1>23, <1>24, <1>25,
   <1>26, <1>27, <1>28, <1>29, <1>30, <1>31, <1>32, <1>33, <1>34,
   <1>35 DEF Next, JobStep,
   BuildStep, GuestStep

(* A tenant is given the next uid, or keeps its own, or gets none.         *)
LEMMA AllocateOwners ==
    ASSUME Plain, Owners, NEW t \in Tenants, uid' = [uid EXCEPT ![t] = Allocate(t)]
    PROVE  /\ IsFiniteSet(Held')
           /\ \A u \in Tenants : uid'[u] <= Cardinality(Held')
           /\ \A u, v \in Held' : u # v => uid'[u] # uid'[v]
           /\ Held \subseteq Held'
           /\ t \in Held' <=> Allocate(t) # 0
<1> DEFINE n == Cardinality(Held)
<1>1. n \in Nat
  BY FS_CardinalityType DEF Owners
<1>2. uid \in [Tenants -> 0 .. UidCeiling]
  BY DEF Plain
<1>3. Held' = {u \in Tenants : uid'[u] # 0}
  BY DEF Held
<1>4. CASE Allocate(t) = uid[t]
  <2>1. uid' = uid
    BY <1>2, <1>4
  <2> QED BY <1>4, <2>1 DEF Owners, Held
<1>5. CASE Allocate(t) # uid[t]
  <2>1. uid[t] = 0 /\ Allocate(t) = n + 1
    BY <1>5 DEF Allocate, Held
  <2>2. t \notin Held /\ Held' = Held \cup {t}
    BY <1>1, <1>2, <1>3, <2>1 DEF Held
  <2>3. IsFiniteSet(Held') /\ Cardinality(Held') = n + 1
    BY <2>2, FS_AddElement DEF Owners
  <2>4. \A u \in Tenants : uid[u] <= n /\ uid[u] \in Nat
    BY <1>2, BoundsAssumption DEF Owners
  <2>5. ASSUME NEW u \in Tenants PROVE uid'[u] <= n + 1
    BY <1>1, <1>2, <2>1, <2>4
  <2>6. ASSUME NEW u \in Held', NEW v \in Held', u # v PROVE uid'[u] # uid'[v]
    <3>1. u \in Tenants /\ v \in Tenants
      BY <1>3
    <3>2. CASE u # t /\ v # t
      BY <1>2, <2>2, <2>6, <3>2 DEF Owners
    <3>3. CASE u = t \/ v = t
      BY <1>1, <1>2, <2>1, <2>4, <2>6, <3>1, <3>3
    <3> QED BY <3>2, <3>3
  <2> HIDE DEF n
  <2>7. Allocate(t) # 0
    BY <1>1, <2>1
  <2> QED BY <2>2, <2>3, <2>5, <2>6, <2>7
<1> QED BY <1>4, <1>5

LEMMA OwnersStep ==
    ASSUME Plain, Owners, [Next]_vars
    PROVE  Owners'
<1> USE JobsAssumption
<1>1. ASSUME uid' = uid, images' \subseteq images PROVE Owners'
  BY <1>1 DEF Owners, Held
<1>2. ASSUME StartVm PROVE Owners'
  <2>1. Tenant \in Tenants
    BY <1>2 DEF StartVm, Plain, Tenant
  <2> QED BY <1>2, <2>1, AllocateOwners DEF StartVm, Owners
<1>3. ASSUME StartFails PROVE Owners'
  <2>1. Tenant \in Tenants
    BY <1>3 DEF StartFails, Plain, Tenant
  <2>2. CASE uid' = uid
    <3>1. images' \subseteq Held
      BY <1>3, <2>1, <2>2 DEF StartFails, Owners, Held
    <3> QED BY <2>2, <3>1 DEF Owners, Held
  <2>3. CASE uid' = [uid EXCEPT ![Tenant] = Allocate(Tenant)]
    <3>1. Tenant \in images' => Tenant \in Held'
      BY <1>3, <2>1 DEF StartFails, Held
    <3> QED BY <1>3, <2>1, <2>3, <3>1, AllocateOwners DEF StartFails, Owners
  <2> QED BY <1>3, <2>2, <2>3 DEF StartFails
<1>4. ASSUME Wipe PROVE Owners'
  BY <1>1, <1>4 DEF Wipe
<1>5. ASSUME \/ \E j \in Jobs : TakeJob(j)
             \/ ReuseVm \/ Ready \/ BootFails \/ PushKey \/ KeyRejected
             \/ PushSubstituters \/ PushCaCert \/ Serve \/ ConnectFails \/ FetchInputs
             \/ ResetVictim \/ ResetAttribution \/ ResetEnospc \/ ResetFails
             \/ QueryFails \/ NextAction \/ WipeFails \/ Upload
      PROVE  UNCHANGED <<uid, images>>
  BY <1>5 DEF TakeJob, ReuseVm, Ready, BootFails, PushKey, KeyRejected, PushSubstituters,
     PushCaCert, Serve, ConnectFails, FetchInputs, ResetVictim, ResetAttribution,
     ResetEnospc, ResetFails, QueryFails, NextAction, WipeFails, Upload, poolVars
<1>6. ASSUME BuildStep \/ GuestHung \/ GuestStep \/ UNCHANGED vars
      PROVE  UNCHANGED <<uid, images>>
  BY <1>6 DEF BuildStep, Completed, Failed, GuestHung, GuestStep, GuestInit, AgentSetup,
     BindControl, OomKill, DiskFull, PollRead, PollStore, AbandonedExits, GuestFails,
     poolVars, vars
<1> QED BY <1>1, <1>2, <1>3, <1>4, <1>5, <1>6 DEF Next, JobStep

LEMMA DaemonStep ==
    ASSUME Plain, Flags, OwnVm, OwnList, OwnConn, [Next]_vars
    PROVE  OwnVm' /\ OwnList' /\ OwnConn'
<1> USE JobsAssumption, BoundsAssumption DEF OwnVm, OwnList, OwnConn, Plain, Flags,
   BeforeDaemon, Tenant, OnGuest, Resetting, Booting, jobVars, poolVars, agentVars,
   faultVars, historyVars
<1>1. ASSUME NEW j \in Jobs, TakeJob(j) PROVE OwnVm' /\ OwnList' /\ OwnConn'
  BY <1>1 DEF TakeJob
<1>2. ASSUME ReuseVm PROVE OwnVm' /\ OwnList' /\ OwnConn'
  BY <1>2 DEF ReuseVm
<1>3. ASSUME StartVm PROVE OwnVm' /\ OwnList' /\ OwnConn'
  BY <1>3 DEF StartVm, GuestGone, NewAgent
<1>4. ASSUME StartFails PROVE OwnVm' /\ OwnList' /\ OwnConn'
  BY <1>4 DEF StartFails, Finish, NoReset, StopVm, GuestGone, NewAgent
<1>5. ASSUME GuestInit PROVE OwnVm' /\ OwnList' /\ OwnConn'
  BY <1>5 DEF GuestInit
<1>6. ASSUME AgentSetup PROVE OwnVm' /\ OwnList' /\ OwnConn'
  BY <1>6 DEF AgentSetup, DetectionSetup
<1>7. ASSUME BindControl PROVE OwnVm' /\ OwnList' /\ OwnConn'
  BY <1>7 DEF BindControl
<1>8. ASSUME Ready PROVE OwnVm' /\ OwnList' /\ OwnConn'
  BY <1>8 DEF Ready, Goto
<1>9. ASSUME BootFails PROVE OwnVm' /\ OwnList' /\ OwnConn'
  BY <1>9 DEF BootFails, Finish, NoReset, StopVm, GuestGone, NewAgent
<1>10. ASSUME PushKey PROVE OwnVm' /\ OwnList' /\ OwnConn'
  BY <1>10 DEF PushKey, Goto
<1>11. ASSUME KeyRejected PROVE OwnVm' /\ OwnList' /\ OwnConn'
  BY <1>11 DEF KeyRejected, Finish, NoReset, StopVm, GuestGone, NewAgent, CallReturns
<1>12. ASSUME PushSubstituters PROVE OwnVm' /\ OwnList' /\ OwnConn'
  BY <1>12 DEF PushSubstituters, Goto, PushLost, HandlePushSubstituters, CallReturns
<1>13. ASSUME PushCaCert PROVE OwnVm' /\ OwnList' /\ OwnConn'
  BY <1>13 DEF PushCaCert, Goto, CallReturns
<1>14. ASSUME Serve PROVE OwnVm' /\ OwnList' /\ OwnConn'
  BY <1>14 DEF Serve, Goto, NixDaemon
<1>15. ASSUME ConnectFails PROVE OwnVm' /\ OwnList' /\ OwnConn'
  BY <1>15 DEF ConnectFails, Finish, NoReset, CallReturns
<1>16. ASSUME FetchInputs PROVE OwnVm' /\ OwnList' /\ OwnConn'
  BY <1>16 DEF FetchInputs, Goto, Finish, NoReset, CallReturns
<1>17. ASSUME OomKill PROVE OwnVm' /\ OwnList' /\ OwnConn'
  BY <1>17 DEF OomKill, Culprits
<1>18. ASSUME DiskFull PROVE OwnVm' /\ OwnList' /\ OwnConn'
  BY <1>18 DEF DiskFull, Culprits
<1>19. ASSUME PollRead PROVE OwnVm' /\ OwnList' /\ OwnConn'
  BY <1>19 DEF PollRead
<1>20. ASSUME PollStore PROVE OwnVm' /\ OwnList' /\ OwnConn'
  BY <1>20 DEF PollStore, InBuildCgroup
<1>21. ASSUME ResetVictim PROVE OwnVm' /\ OwnList' /\ OwnConn'
  BY <1>21 DEF ResetVictim, Goto, Stale, LeftOver, NoReset
<1>22. ASSUME ResetAttribution PROVE OwnVm' /\ OwnList' /\ OwnConn'
  BY <1>22 DEF ResetAttribution, Goto
<1>23. ASSUME ResetEnospc PROVE OwnVm' /\ OwnList' /\ OwnConn'
  BY <1>23 DEF ResetEnospc, Goto
<1>24. ASSUME ResetFails PROVE OwnVm' /\ OwnList' /\ OwnConn'
  BY <1>24 DEF ResetFails, Goto, CallReturns, NoReset
<1>25. ASSUME Completed PROVE OwnVm' /\ OwnList' /\ OwnConn'
  BY <1>25 DEF Completed, Goto
<1>26. ASSUME Failed PROVE OwnVm' /\ OwnList' /\ OwnConn'
  BY <1>26 DEF Failed, Goto, Abandon
<1>27. ASSUME GuestHung PROVE OwnVm' /\ OwnList' /\ OwnConn'
  BY <1>27 DEF GuestHung, Abandon, Finish, NoReset
<1>28. ASSUME AbandonedExits PROVE OwnVm' /\ OwnList' /\ OwnConn'
  BY <1>28 DEF AbandonedExits
<1>29. ASSUME QueryFails PROVE OwnVm' /\ OwnList' /\ OwnConn'
  BY <1>29 DEF QueryFails, Finish, NoReset, CallReturns
<1>30. ASSUME NextAction PROVE OwnVm' /\ OwnList' /\ OwnConn'
  BY <1>30 DEF NextAction, Finish, NoReset, Status, Retry
<1>31. ASSUME Wipe PROVE OwnVm' /\ OwnList' /\ OwnConn'
  BY <1>31 DEF Wipe, StopVm, GuestGone, NewAgent, NoReset
<1>32. ASSUME WipeFails PROVE OwnVm' /\ OwnList' /\ OwnConn'
  BY <1>32 DEF WipeFails, Finish, NoReset, StopVm, GuestGone, NewAgent
<1>33. ASSUME NEW how \in {"frozen", "agentHung", "dead"}, GuestFails(how) PROVE OwnVm' /\ OwnList' /\ OwnConn'
  BY <1>33 DEF GuestFails, GuestGone, NewAgent
<1>35. ASSUME Upload PROVE OwnVm' /\ OwnList' /\ OwnConn'
  BY <1>35 DEF Upload, Finish, NoReset
<1>34. CASE UNCHANGED vars
  BY <1>34 DEF vars
<1> QED BY <1>1, <1>2, <1>3, <1>4, <1>5, <1>6, <1>7, <1>8, <1>9, <1>10, <1>11, <1>12, <1>13,
   <1>14, <1>15, <1>16, <1>17, <1>18, <1>19, <1>20, <1>21, <1>22, <1>23, <1>24, <1>25,
   <1>26, <1>27, <1>28, <1>29, <1>30, <1>31, <1>32, <1>33, <1>34,
   <1>35 DEF Next, JobStep,
   BuildStep, GuestStep

LEMMA RecordedStep ==
    ASSUME Plain, Flags, Recorded, [Next]_vars
    PROVE  Recorded'
<1> USE JobsAssumption, BoundsAssumption DEF Recorded, VictimCleared, AttributionCleared,
   Settled, Ours, Plain, Flags, OnGuest, Resetting, jobVars, poolVars, agentVars, faultVars,
   historyVars
<1>1. ASSUME NEW j \in Jobs, TakeJob(j) PROVE Recorded'
  BY <1>1 DEF TakeJob
<1>2. ASSUME ReuseVm PROVE Recorded'
  BY <1>2 DEF ReuseVm, Tenant
<1>3. ASSUME StartVm PROVE Recorded'
  BY <1>3 DEF StartVm, GuestGone, NewAgent, Tenant
<1>4. ASSUME StartFails PROVE Recorded'
  BY <1>4 DEF StartFails, Finish, NoReset, StopVm, GuestGone, NewAgent, Tenant
<1>5. ASSUME GuestInit PROVE Recorded'
  BY <1>5 DEF GuestInit
<1>6. ASSUME AgentSetup PROVE Recorded'
  BY <1>6 DEF AgentSetup, DetectionSetup
<1>7. ASSUME BindControl PROVE Recorded'
  BY <1>7 DEF BindControl
<1>8. ASSUME Ready PROVE Recorded'
  BY <1>8 DEF Ready, Goto
<1>9. ASSUME BootFails PROVE Recorded'
  BY <1>9 DEF BootFails, Finish, NoReset, StopVm, GuestGone, NewAgent
<1>10. ASSUME PushKey PROVE Recorded'
  BY <1>10 DEF PushKey, Goto, Tenant
<1>11. ASSUME KeyRejected PROVE Recorded'
  BY <1>11 DEF KeyRejected, Finish, NoReset, StopVm, GuestGone, NewAgent, CallReturns
<1>12. ASSUME PushSubstituters PROVE Recorded'
  BY <1>12 DEF PushSubstituters, Goto, PushLost, HandlePushSubstituters, CallReturns
<1>13. ASSUME PushCaCert PROVE Recorded'
  BY <1>13 DEF PushCaCert, Goto, CallReturns
<1>14. ASSUME Serve PROVE Recorded'
  BY <1>14 DEF Serve, Goto, NixDaemon
<1>15. ASSUME ConnectFails PROVE Recorded'
  BY <1>15 DEF ConnectFails, Finish, NoReset, CallReturns
<1>16. ASSUME FetchInputs PROVE Recorded'
  BY <1>16 DEF FetchInputs, Goto, Finish, NoReset, CallReturns
<1>17. ASSUME OomKill PROVE Recorded'
  BY <1>17 DEF OomKill, Culprits
<1>18. ASSUME DiskFull PROVE Recorded'
  BY <1>18 DEF DiskFull, Culprits
<1>19. ASSUME PollRead PROVE Recorded'
  BY <1>19 DEF PollRead
<1>20. ASSUME PollStore PROVE Recorded'
  BY <1>20 DEF PollStore, InBuildCgroup
<1>21. ASSUME ResetVictim PROVE Recorded'
  <2>1. pc' = "resetAttribution" /\ victim' = None
    BY <1>21 DEF ResetVictim, Goto
  <2>2. reset'.overlap <=> abandoned # {}
    BY <1>21 DEF ResetVictim, NoReset
  <2>3. "other" \in abandoned' => reset'.overlap
    BY <1>21, <2>2 DEF ResetVictim, LeftOver
  <2>4. poller' # None => poller'.stale
    BY <1>21, Zenon DEF ResetVictim, Stale, Victims
  <2> QED BY <2>1, <2>3, <2>4
<1>22. ASSUME ResetAttribution PROVE Recorded'
  BY <1>22 DEF ResetAttribution, Goto
<1>23. ASSUME ResetEnospc PROVE Recorded'
  BY <1>23 DEF ResetEnospc, Goto
<1>24. ASSUME ResetFails PROVE Recorded'
  BY <1>24 DEF ResetFails, Goto, CallReturns, NoReset
<1>25. ASSUME Completed PROVE Recorded'
  BY <1>25 DEF Completed, Goto
<1>26. ASSUME Failed PROVE Recorded'
  BY <1>26 DEF Failed, Goto, Abandon
<1>27. ASSUME GuestHung PROVE Recorded'
  BY <1>27 DEF GuestHung, Abandon, Finish, NoReset
<1>28. ASSUME AbandonedExits PROVE Recorded'
  BY <1>28 DEF AbandonedExits
<1>29. ASSUME QueryFails PROVE Recorded'
  BY <1>29 DEF QueryFails, Finish, NoReset, CallReturns
<1>30. ASSUME NextAction PROVE Recorded'
  BY <1>30 DEF NextAction, Finish, NoReset, Status, Retry
<1>31. ASSUME Wipe PROVE Recorded'
  BY <1>31 DEF Wipe, StopVm, GuestGone, NewAgent, NoReset, Tenant
<1>32. ASSUME WipeFails PROVE Recorded'
  BY <1>32 DEF WipeFails, Finish, NoReset, StopVm, GuestGone, NewAgent
<1>33. ASSUME NEW how \in {"frozen", "agentHung", "dead"}, GuestFails(how) PROVE Recorded'
  BY <1>33 DEF GuestFails, GuestGone, NewAgent
<1>35. ASSUME Upload PROVE Recorded'
  BY <1>35 DEF Upload, Finish, NoReset
<1>34. CASE UNCHANGED vars
  BY <1>34 DEF vars
<1> QED BY <1>1, <1>2, <1>3, <1>4, <1>5, <1>6, <1>7, <1>8, <1>9, <1>10, <1>11, <1>12, <1>13,
   <1>14, <1>15, <1>16, <1>17, <1>18, <1>19, <1>20, <1>21, <1>22, <1>23, <1>24, <1>25,
   <1>26, <1>27, <1>28, <1>29, <1>30, <1>31, <1>32, <1>33, <1>34,
   <1>35 DEF Next, JobStep,
   BuildStep, GuestStep
-----------------------------------------------------------------------------
LEMMA InitIInv == Init => IInv
<1> SUFFICES ASSUME Init PROVE IInv
  OBVIOUS
<1> USE JobsAssumption, BoundsAssumption
<1>1. Flags
  BY Zenon DEF Init, Flags, NewAgent, NoReset
<1>2. Plain
  BY DEF Init, Plain
<1>3. Owners
  <2>1. Held = {}
    BY DEF Init, Held
  <2> QED BY <2>1, FS_EmptySet DEF Init, Owners
<1>4. Pids /\ OwnVm /\ OwnList /\ OwnConn
  BY DEF Init, Pids, OwnVm, OwnList, OwnConn, OnGuest, Resetting, Booting, NewAgent
<1>5. Recorded
  BY DEF Init, Recorded, VictimCleared, AttributionCleared, Settled
<1> QED BY <1>1, <1>2, <1>3, <1>4, <1>5, TypeParts DEF IInv

LEMMA NextIInv == IInv /\ [Next]_vars => IInv'
<1> SUFFICES ASSUME IInv, [Next]_vars PROVE IInv'
  OBVIOUS
<1>1. Flags /\ Plain
  BY TypeHasParts DEF IInv
<1>2. Flags' /\ Plain' /\ Owners' /\ Pids'
  BY <1>1, FlagsStep, PlainStep, OwnersStep DEF IInv
<1>3. TypeOK'
  BY <1>2, TypeParts DEF Flags, Plain, Owners, Held, TypeOK
<1>4. OwnVm' /\ OwnList' /\ OwnConn' /\ Recorded'
  BY <1>1, DaemonStep, RecordedStep DEF IInv
<1> QED BY <1>2, <1>3, <1>4 DEF IInv

(* The inductive invariant holds of every behaviour of a worker and its    *)
(* guests.                                                                 *)
THEOREM Invariance == Spec => []IInv
BY InitIInv, NextIInv, PTL DEF Spec

(* Every variable keeps its type, and no two store images ever have the    *)
(* same owner, however many tenants there are and wherever the range of    *)
(* UidAllocator ends.                                                      *)
THEOREM TypeCorrect == Spec => []TypeOK
<1>1. IInv => TypeOK
  BY DEF IInv
<1> QED BY <1>1, Invariance, PTL

(* A job only ever talks to a daemon on its own tenant's unlocked store,   *)
(* with its own substituters once the guest acknowledged them and never    *)
(* with another tenant's, whatever warm VM, retry or reboot it came by.    *)
THEOREM OwnDaemonHolds == Spec => []OwnDaemon
<1>1. IInv => OwnDaemon
  BY DEF IInv, OwnVm, OwnConn, OwnDaemon
<1> QED BY <1>1, Invariance, PTL

(* After a RESET that went through, STATUS? reports only what happened     *)
(* during this build, save by the two ways around it: a victim the poller  *)
(* was carrying, and an abandoned build of an earlier job or attempt.      *)
THEOREM StatusIsThisBuildsHolds == Spec => []StatusIsThisBuilds
<1>1. ASSUME IInv PROVE StatusIsThisBuilds
  <2> SUFFICES ASSUME pc = "query", reset.done, Status # None
               PROVE  \/ ~Status.stale /\ Status.by \in {"own", "outside"}
                      \/ reset.carried \/ reset.overlap
    BY DEF StatusIsThisBuilds
  <2>1. Settled /\ AttributionCleared
    BY DEF Settled, AttributionCleared
  <2>2. reset.carried \/ (~Status.stale /\ (Status.by = "other" => reset.overlap))
    BY <1>1, <2>1 DEF IInv, Recorded, Status, Ours
  <2>3. Status.by \in Origins
    BY <1>1, Zenon DEF IInv, TypeOK, Status, FullDisks
  <2> QED BY <2>2, <2>3 DEF Origins
<1> QED BY <1>1, Invariance, PTL
=============================================================================
