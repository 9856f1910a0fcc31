----------------------------- MODULE WorkQueue -----------------------------
(***************************************************************************)
(* The workers' side of a build: the JetStream work queue kubernix_jobs,   *)
(* its durable consumers, and the job loop of each worker from the pull of *)
(* a message to its ack.                                                   *)
(*                                                                         *)
(* queue[j] holds every message ever published for job j: the frontend's   *)
(* submission and one more per OOM escalation.  A message is ready, then   *)
(* pending (delivered, not acked), and ends acked or, once it has been     *)
(* delivered max_deliver times, dead: JetStream keeps it and never         *)
(* delivers it again.  JetStream matches acks, naks and heartbeats to the  *)
(* message and not to one delivery of it, so a worker that lost a message  *)
(* to redelivery can still ack it.                                         *)
(*                                                                         *)
(* The retry loop around run_build is reduced to what the queue can tell:  *)
(* a build runs under the ack heartbeat, a wipe-and-reboot between two     *)
(* attempts does not.                                                      *)
(***************************************************************************)
EXTENDS Integers, Sequences, FiniteSets

CONSTANTS
    Jobs,
    Workers,
    Classes,         \* the capability classes of each worker, probe included
    Exclusive,       \* workers with KUBERNIX_WORKER_EXCLUSIVE_CLASSES
    Required,        \* requiredSystemFeatures of each job
    Undecodable,     \* jobs whose message decode_job refuses (version skew)
    MaxDeliver,      \* MAX_JOB_DELIVER
    MaxAckPending,   \* KUBERNIX_WORKER_MAX_CONCURRENT
    FailingPublishes, \* the phases whose publish to JetStream may fail
    MaxCopies,       \* bound: messages published for one job
    MaxRetries,      \* rebuilds of one delivery: three, each for its own reason once
    MaxFaults,       \* bound: no worker dies after so many faults
    NoJob

Features == {"kvm", "big-parallel"}
Subjects == {"plain"} \cup Features
WorkerResults == {"completed", "failed", "exhausted"}

ASSUME FleetAssumption ==
    /\ Classes \in [Workers -> SUBSET Features]
    /\ Exclusive \subseteq Workers
    /\ Required \in [Jobs -> SUBSET Features]
    /\ Undecodable \subseteq Jobs
    /\ NoJob \notin Jobs
ASSUME BoundAssumption ==
    /\ MaxDeliver \in Nat \ {0} /\ MaxAckPending \in Nat \ {0}
    /\ MaxCopies \in Nat \ {0} /\ MaxRetries \in Nat /\ MaxFaults \in Nat
ASSUME PublishAssumption ==
    FailingPublishes \subseteq {"publish", "publishEarly", "escalate"}

(* jobs_subject: kvm wins over big-parallel.                               *)
JobsSubject(j) ==
    IF "kvm" \in Required[j] THEN "kvm"
    ELSE IF "big-parallel" \in Required[j] THEN "big-parallel"
    ELSE "plain"

(* worker_subjects_and_consumer: what w subscribes to, and the durable     *)
(* consumer it shares with every worker that computes the same name.       *)
WorkerSubjects(w) == (IF w \in Exclusive THEN {} ELSE {"plain"}) \cup Classes[w]
DurableName(w) == IF w \in Exclusive THEN Classes[w] ELSE {"shared"}
Durables == {DurableName(w) : w \in Workers}

WorkerCapabilitiesSatisfy(w, j) == Required[j] \subseteq Classes[w]

VARIABLES
    queue,      \* the messages of each job
    filter,     \* filter_subjects of each durable consumer, {} before it exists
    wpc,        \* where each worker is in its job loop
    held,       \* the job and message index it works on
    seen,       \* message.info().delivered of that delivery
    outcome,    \* the outcome it will report
    retries,    \* rebuilds of this delivery so far
    published,  \* results published for each job, oldest first
    uploaded,   \* jobs whose outputs are all in the object store
    faults      \* worker deaths and failed publishes after a build, so far

workerVars == <<wpc, held, seen, outcome, retries>>
vars == <<queue, filter, wpc, held, seen, outcome, retries,
          published, uploaded, faults>>

(* Phases that run under a HeartbeatGuard.                                 *)
Heartbeating == {"fetch", "build"}
Holding == {"check", "boot", "upload", "reboot", "publish", "publishEarly",
            "escalate", "ack"} \cup Heartbeating

Message == [subject : Subjects, state : {"ready", "pending", "acked", "dead"},
            delivered : 0 .. MaxDeliver]
Nothing == [job |-> NoJob, msg |-> 0]

TypeOK ==
    /\ queue \in [Jobs -> Seq(Message)]
    /\ filter \in [Durables -> SUBSET Subjects]
    /\ wpc \in [Workers -> {"down", "idle"} \cup Holding]
    /\ held \in [Workers -> [job : Jobs \cup {NoJob}, msg : Nat]]
    /\ \A w \in Workers :
          wpc[w] \in Holding =>
              held[w].job \in Jobs /\ held[w].msg \in DOMAIN queue[held[w].job]
    /\ seen \in [Workers -> 0 .. MaxDeliver]
    /\ outcome \in [Workers -> WorkerResults \cup {"none"}]
    /\ retries \in [Workers -> 0 .. MaxRetries]
    /\ published \in [Jobs -> Seq(WorkerResults)]
    /\ uploaded \subseteq Jobs
    /\ faults \in Nat

Init ==
    /\ queue = [j \in Jobs |-> <<>>]
    /\ filter = [d \in Durables |-> {}]
    /\ wpc = [w \in Workers |-> "down"]
    /\ held = [w \in Workers |-> Nothing]
    /\ seen = [w \in Workers |-> 0]
    /\ outcome = [w \in Workers |-> "none"]
    /\ retries = [w \in Workers |-> 0]
    /\ published = [j \in Jobs |-> <<>>]
    /\ uploaded = {}
    /\ faults = 0

-----------------------------------------------------------------------------
(* The stream and its consumers.                                           *)

NewMessage(subject) == [subject |-> subject, state |-> "ready", delivered |-> 0]
SetState(j, i, s) == queue' = [queue EXCEPT ![j][i].state = s]

Pending(d) ==
    {m \in UNION {{<<j, i>> : i \in DOMAIN queue[j]} : j \in Jobs} :
        /\ queue[m[1]][m[2]].state = "pending"
        /\ queue[m[1]][m[2]].subject \in filter[d]}

(* What JetStream does with an undone delivery: offer the message again,   *)
(* or give it up at max_deliver.                                           *)
Redeliver(j, i) ==
    IF queue[j][i].state = "pending"
    THEN SetState(j, i, IF queue[j][i].delivered < MaxDeliver THEN "ready" ELSE "dead")
    ELSE UNCHANGED queue

(* JobQueue::submit.                                                       *)
Enqueue(j) ==
    /\ queue[j] = <<>>
    /\ queue' = [queue EXCEPT ![j] = <<NewMessage(JobsSubject(j))>>]
    /\ UNCHANGED <<filter, workerVars, published, uploaded, faults>>

(* ack_wait passed with no ack, nak or heartbeat.                          *)
AckWaitExpires(j, i) ==
    /\ i \in DOMAIN queue[j]
    /\ queue[j][i].state = "pending"
    /\ \A w \in Workers :
          ~(wpc[w] \in Heartbeating /\ held[w] = [job |-> j, msg |-> i])
    /\ Redeliver(j, i)
    /\ UNCHANGED <<filter, workerVars, published, uploaded, faults>>

-----------------------------------------------------------------------------
(* A worker.                                                               *)

Goto(w, where) == wpc' = [wpc EXCEPT ![w] = where]

Release(w) ==
    /\ held' = [held EXCEPT ![w] = Nothing]
    /\ seen' = [seen EXCEPT ![w] = 0]
    /\ outcome' = [outcome EXCEPT ![w] = "none"]
    /\ retries' = [retries EXCEPT ![w] = 0]

(* Start-up: create_consumer, which creates the durable or overwrites its  *)
(* filter.  A work-queue stream refuses consumers whose filters overlap.   *)
Start(w) ==
    /\ wpc[w] = "down"
    /\ WorkerSubjects(w) # {}
    /\ \A d \in Durables \ {DurableName(w)} : filter[d] \cap WorkerSubjects(w) = {}
    /\ filter' = [filter EXCEPT ![DurableName(w)] = WorkerSubjects(w)]
    /\ Goto(w, "idle")
    /\ UNCHANGED <<queue, held, seen, outcome, retries, published, uploaded, faults>>

Pull(w, j, i) ==
    /\ wpc[w] = "idle"
    /\ i \in DOMAIN queue[j]
    /\ queue[j][i].state = "ready"
    /\ queue[j][i].delivered < MaxDeliver
    /\ queue[j][i].subject \in filter[DurableName(w)]
    /\ Cardinality(Pending(DurableName(w))) < MaxAckPending
    /\ queue' = [queue EXCEPT ![j][i].state = "pending", ![j][i].delivered = @ + 1]
    /\ held' = [held EXCEPT ![w] = [job |-> j, msg |-> i]]
    /\ seen' = [seen EXCEPT ![w] = queue[j][i].delivered + 1]
    /\ Goto(w, "check")
    /\ UNCHANGED <<filter, outcome, retries, published, uploaded, faults>>

(* decode_job failed: the message is acked and nobody is told.             *)
DropUndecodable(w) ==
    /\ wpc[w] = "check"
    /\ held[w].job \in Undecodable
    /\ Goto(w, "ack")
    /\ UNCHANGED <<queue, filter, held, seen, outcome, retries,
                   published, uploaded, faults>>

(* The job's features against the worker's classes.                        *)
Accept(w) ==
    /\ wpc[w] = "check"
    /\ held[w].job \notin Undecodable
    /\ WorkerCapabilitiesSatisfy(w, held[w].job)
    /\ Goto(w, "boot")
    /\ UNCHANGED <<queue, filter, held, seen, outcome, retries,
                   published, uploaded, faults>>

(* Mutant: the last delivery is naked like any other.                      *)
NakEveryDelivery(w) ==
    /\ wpc[w] = "check"
    /\ held[w].job \notin Undecodable
    /\ ~WorkerCapabilitiesSatisfy(w, held[w].job)
    /\ Redeliver(held[w].job, held[w].msg)
    /\ Release(w)
    /\ Goto(w, "idle")
    /\ UNCHANGED <<filter, published, uploaded, faults>>

(* Not satisfied, deliveries left: nak.  A nak that fails is only logged.  *)
NakForRedelivery(w) ==
    /\ wpc[w] = "check"
    /\ held[w].job \notin Undecodable
    /\ ~WorkerCapabilitiesSatisfy(w, held[w].job)
    /\ seen[w] < MaxDeliver
    /\ \/ Redeliver(held[w].job, held[w].msg)
       \/ UNCHANGED queue
    /\ Release(w)
    /\ Goto(w, "idle")
    /\ UNCHANGED <<filter, published, uploaded, faults>>

Fail(w, result, where) ==
    /\ outcome' = [outcome EXCEPT ![w] = result]
    /\ Goto(w, where)

(* Not satisfied on the last delivery: report it.                          *)
RejectLastDelivery(w) ==
    /\ wpc[w] = "check"
    /\ held[w].job \notin Undecodable
    /\ ~WorkerCapabilitiesSatisfy(w, held[w].job)
    /\ seen[w] >= MaxDeliver
    /\ Fail(w, "failed", "publishEarly")
    /\ UNCHANGED <<queue, filter, held, seen, retries, published, uploaded, faults>>

(* The tenant's VM is booted and dialed; no heartbeat yet.                 *)
Boot(w) ==
    /\ wpc[w] = "boot"
    /\ \/ Goto(w, "fetch") /\ UNCHANGED outcome
       \/ Fail(w, "failed", "publishEarly")
    /\ UNCHANGED <<queue, filter, held, seen, retries, published, uploaded, faults>>

(* fetch_inputs, then declared_outputs.                                    *)
FetchInputs(w) ==
    /\ wpc[w] = "fetch"
    /\ \/ Goto(w, "build") /\ UNCHANGED outcome
       \/ Fail(w, "failed", "publishEarly")
    /\ UNCHANGED <<queue, filter, held, seen, retries, published, uploaded, faults>>

(* run_build settles the outcome ...                                       *)
RunBuild(w) ==
    /\ wpc[w] = "build"
    /\ \E result \in WorkerResults : Fail(w, result, "upload")
    /\ UNCHANGED <<queue, filter, held, seen, retries, published, uploaded, faults>>

(* Mutant: the retry loop does not look whether it retried already.        *)
RetryAlways(w) ==
    /\ wpc[w] = "build"
    /\ retries' = [retries EXCEPT ![w] = @ + 1]
    /\ Goto(w, "reboot")
    /\ UNCHANGED <<queue, filter, held, seen, outcome, published, uploaded, faults>>

(* ... or is tried again, after a wipe-and-reboot or a reconnect ...       *)
Retry(w) ==
    /\ wpc[w] = "build"
    /\ retries[w] < MaxRetries
    /\ retries' = [retries EXCEPT ![w] = @ + 1]
    /\ Goto(w, "reboot")
    /\ UNCHANGED <<queue, filter, held, seen, outcome, published, uploaded, faults>>

(* ... or ran out of memory on a worker that is not big-parallel.          *)
DecideEscalation(w) ==
    /\ wpc[w] = "build"
    /\ "big-parallel" \notin Classes[w]
    /\ Len(queue[held[w].job]) < MaxCopies
    /\ Goto(w, "escalate")
    /\ UNCHANGED <<queue, filter, held, seen, outcome, retries,
                   published, uploaded, faults>>

Reboot(w) ==
    /\ wpc[w] = "reboot"
    /\ \/ Goto(w, "build") /\ UNCHANGED outcome
       \/ \E result \in {"failed", "exhausted"} : Fail(w, result, "upload")
    /\ UNCHANGED <<queue, filter, held, seen, retries, published, uploaded, faults>>

(* Mutant: a failed upload is only logged.                                 *)
UploadArtifactsLogged(w) ==
    /\ wpc[w] = "upload"
    /\ uploaded' \in {uploaded, uploaded \cup {held[w].job}}
    /\ Goto(w, "publish")
    /\ UNCHANGED <<queue, filter, held, seen, outcome, retries, published, faults>>

(* upload_artifacts: a failed upload fails the build.                      *)
UploadArtifacts(w) ==
    /\ wpc[w] = "upload"
    /\ \/ /\ uploaded' = uploaded \cup
                 (IF outcome[w] = "completed" THEN {held[w].job} ELSE {})
          /\ Goto(w, "publish")
          /\ UNCHANGED outcome
       \/ /\ Fail(w, "failed", "publish")
          /\ UNCHANGED uploaded
    /\ UNCHANGED <<queue, filter, held, seen, retries, published, faults>>

Publish(w) ==
    published' = [published EXCEPT ![held[w].job] = Append(@, outcome[w])]

(* publish_result after a build.                                           *)
PublishResult(w) ==
    /\ wpc[w] = "publish"
    /\ Publish(w)
    /\ Goto(w, "ack")
    /\ UNCHANGED <<queue, filter, held, seen, outcome, retries, uploaded, faults>>

(* Mutant: a failed publish is tried again in place.                       *)
PublishAgain(w) ==
    /\ wpc[w] = "publish"
    /\ "publish" \in FailingPublishes
    /\ faults' = faults + 1
    /\ Publish(w) \/ UNCHANGED published
    /\ UNCHANGED <<queue, filter, workerVars, uploaded>>

(* It failed, though the message may be stored: no ack, the job will come  *)
(* back.                                                                   *)
PublishResultFails(w) ==
    /\ wpc[w] = "publish"
    /\ "publish" \in FailingPublishes
    /\ faults' = faults + 1
    /\ Publish(w) \/ UNCHANGED published
    /\ Release(w)
    /\ Goto(w, "idle")
    /\ UNCHANGED <<queue, filter, uploaded>>

(* publish_result on the four early exits: acked whether it failed or not. *)
PublishEarly(w) ==
    /\ wpc[w] = "publishEarly"
    /\ \/ Publish(w)
       \/ "publishEarly" \in FailingPublishes /\ UNCHANGED published
    /\ Goto(w, "ack")
    /\ UNCHANGED <<queue, filter, held, seen, outcome, retries, uploaded, faults>>

(* Mutant: acked without being published again.                            *)
EscalateNowhere(w) ==
    /\ wpc[w] = "escalate"
    /\ Goto(w, "ack")
    /\ UNCHANGED <<queue, filter, held, seen, outcome, retries,
                   published, uploaded, faults>>

(* EscalateOom: the same payload on the big-parallel subject, acked        *)
(* whether it was stored or not; no result.                                *)
EscalateOom(w) ==
    /\ wpc[w] = "escalate"
    /\ \/ queue' = [queue EXCEPT ![held[w].job] = Append(@, NewMessage("big-parallel"))]
       \/ "escalate" \in FailingPublishes /\ UNCHANGED queue
    /\ Goto(w, "ack")
    /\ UNCHANGED <<filter, held, seen, outcome, retries, published, uploaded, faults>>

(* message.ack(); a failure is logged and the next job pulled.             *)
Ack(w) ==
    /\ wpc[w] = "ack"
    /\ \/ SetState(held[w].job, held[w].msg, "acked")
       \/ UNCHANGED queue
    /\ Release(w)
    /\ Goto(w, "idle")
    /\ UNCHANGED <<filter, published, uploaded, faults>>

(* The process dies, at any point of the loop.                             *)
Crash(w) ==
    /\ wpc[w] # "down"
    /\ faults < MaxFaults
    /\ faults' = faults + 1
    /\ Release(w)
    /\ Goto(w, "down")
    /\ UNCHANGED <<queue, filter, published, uploaded>>

WorkerStep(w) ==
    \/ DropUndecodable(w) \/ Accept(w) \/ NakForRedelivery(w) \/ RejectLastDelivery(w)
    \/ Boot(w) \/ FetchInputs(w) \/ RunBuild(w) \/ Retry(w) \/ DecideEscalation(w)
    \/ Reboot(w) \/ UploadArtifacts(w) \/ PublishResult(w) \/ PublishResultFails(w)
    \/ PublishEarly(w) \/ EscalateOom(w) \/ Ack(w)

PullAny(w) == \E j \in Jobs : \E i \in DOMAIN queue[j] : Pull(w, j, i)
Expiry == \E j \in Jobs : \E i \in DOMAIN queue[j] : AckWaitExpires(j, i)

Next ==
    \/ \E j \in Jobs : Enqueue(j)
    \/ \E w \in Workers : Start(w) \/ PullAny(w) \/ WorkerStep(w) \/ Crash(w)
    \/ Expiry

Spec == Init /\ [][Next]_vars

(* Kubernetes restarts workers, a worker's loop makes progress, JetStream  *)
(* delivers and its timers fire.  Nobody has to ask for a build.           *)
Fairness ==
    /\ \A w \in Workers : WF_vars(Start(w)) /\ WF_vars(PullAny(w)) /\ WF_vars(WorkerStep(w))
    /\ WF_vars(Expiry)

FairSpec == Spec /\ Fairness

-----------------------------------------------------------------------------
(* Properties.                                                             *)

(* A job that can be decoded is never silently lost: it has a result, or   *)
(* some message of it is still in the stream (an ack comes only after the  *)
(* result or the escalated copy, and a late ack of a redelivered message   *)
(* does no harm).  The publish after a build may fail; it does not hold if *)
(* those of the exits that ack anyway may.                                 *)
NoJobLost ==
    \A j \in Jobs \ Undecodable :
        queue[j] # <<>> =>
            \/ published[j] # <<>>
            \/ \E i \in DOMAIN queue[j] : queue[j][i].state # "acked"

(* A completed result implies fetchable artifacts: they are uploaded       *)
(* before the result is published, by whichever delivery published it.     *)
CompletedIsUploaded ==
    \A j \in Jobs :
        \A i \in DOMAIN published[j] : published[j][i] = "completed" => j \in uploaded

(* A worker only builds a job whose features it has, whichever subject and *)
(* consumer brought it.                                                    *)
BuiltOnCapableWorker ==
    \A w \in Workers :
        wpc[w] \in Holding \ {"check", "publishEarly", "ack"} =>
            WorkerCapabilitiesSatisfy(w, held[w].job)

(* The deliveries of job j, over all its messages.                         *)
Deliveries(j) ==
    UNION {{<<i, d>> : d \in 1 .. queue[j][i].delivered} : i \in DOMAIN queue[j]}

(* Worker w holds job j and has not reported it.                           *)
Unreported(w, j) == wpc[w] \in Holding \ {"ack"} /\ held[w].job = j

(* Work is paid for by deliveries: the results of a job, and the workers   *)
(* at it now, are never more than its messages were delivered, at most     *)
(* MAX_JOB_DELIVER times each.  Boot, reboot and upload run without a      *)
(* heartbeat, so a message is redelivered under a live worker and several  *)
(* of them may be at one job, each to report it.                           *)
WorkIsPaidFor ==
    \A j \in Jobs :
        Len(published[j]) + Cardinality({w \in Workers : Unreported(w, j)})
            <= Cardinality(Deliveries(j))

(* A message of job j is on a subject of a worker that cannot build it:    *)
(* the worker naks it, and the naks use up deliveries.                     *)
Refusable(j) ==
    \E i \in DOMAIN queue[j], w \in Workers :
        queue[j][i].subject \in WorkerSubjects(w) /\ ~WorkerCapabilitiesSatisfy(w, j)

(* Every job that is queued and can be decoded is answered in the end,     *)
(* though workers die and publishes fail, if that happens less often than  *)
(* a message is delivered (max_deliver of the consumer); a job that some   *)
(* worker has to refuse is answered if it does not happen at all.          *)
EveryJobAnswered ==
    \A j \in Jobs \ Undecodable :
        queue[j] # <<>> ~>
            published[j] # <<>> \/ faults >= MaxDeliver \/ (Refusable(j) /\ faults > 0)
=============================================================================
