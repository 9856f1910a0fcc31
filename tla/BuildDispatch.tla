--------------------------- MODULE BuildDispatch ---------------------------
(***************************************************************************)
(* The frontend's side of a build: the buildDerivation call of the daemon  *)
(* protocol, the `jobs` rows that deduplicate concurrent builds of one     *)
(* derivation, and the results stream every watcher of a job replays.      *)
(*                                                                         *)
(* A call draws a fresh job id (Uuid::now_v7), so a job is identified with *)
(* the call that drew it: Calls names both.  A key is the pair (tenant,    *)
(* derivation path) the reservation index is over.                         *)
(*                                                                         *)
(* Workers appear only through what they do to the results stream: a       *)
(* submitted job may get any result, at any time, more than once (the job  *)
(* is redelivered).  WorkQueue models how they come to do it, BuildService *)
(* puts the two together.                                                  *)
(*                                                                         *)
(* Time is discrete.  A frontend's own steps take milliseconds while       *)
(* retention and timeout are hours, so Tick waits for every step that is   *)
(* due; only idle calls and calls that wait for a result see time pass.    *)
(***************************************************************************)
EXTENDS Integers, Sequences

CONSTANTS
    Calls,           \* buildDerivation calls, and the job id each one draws
    Keys,            \* (tenant, derivation path) pairs
    KeyOf,           \* the key each call asks for
    Substitutable,   \* keys whose outputs a trusted substituter holds
    Retention,       \* jobs.resultsRetention: max_age of results and of a reservation
    ResultTimeout,   \* JobQueue::result_timeout
    DbMayFail,       \* whether the frontend's database statements may fail
    LastStart,       \* bound: no call starts after this time
    MaxTime,         \* bound: the clock stops here
    MaxResults,      \* bound: results published for one job
    WorkerOutcomes,  \* bound: the outcomes workers report
    NoCall           \* the job of a call that has none yet

Outcomes == {"completed", "bogus", "failed", "exhausted"}
Statuses == {"none", "running", "completed", "failed"}
Replies == {"none", "built", "permanent", "transient", "error"}

ASSUME CallsAssumption ==
    /\ KeyOf \in [Calls -> Keys]
    /\ Substitutable \subseteq Keys
    /\ WorkerOutcomes \subseteq Outcomes
    /\ NoCall \notin Calls
ASSUME TimeAssumption ==
    /\ Retention \in Nat /\ ResultTimeout \in Nat
    /\ LastStart \in Nat /\ MaxTime \in Nat /\ MaxResults \in Nat
ASSUME FailureAssumption == DbMayFail \in BOOLEAN

VARIABLES
    now,        \* the clock of the database and of JetStream
    status,     \* jobs.status by job id, "none" where there is no row
    created,    \* jobs.created_at by job id
    pc,         \* where each call is in build_derivation
    attempt,    \* reserve_job_db's loop counter; 2 once it went on without a row
    job,        \* effective_job_id of each call
    since,      \* when the call began to wait for a result, 0 if it is not waiting
    got,        \* the outcome the call received
    reply,      \* what the client was told
    submitted,  \* jobs published to the jobs stream
    stream,     \* the results stream, by job
    valid,      \* keys whose outputs are recorded in the store
    missed      \* calls one of whose best-effort writes failed (it is only logged)

rowVars == <<status, created>>
callVars == <<pc, attempt, job, since, got, reply>>
vars == <<now, status, created, pc, attempt, job, since, got, reply,
          submitted, stream, valid, missed>>

(* Before a call dispatches or attaches; while it waits; after it.         *)
Reserving == {"insert", "select", "won", "attach"}
Settling == {"received", "recorded"}
Ended == {"done", "gone"}
Active == Reserving \cup {"watch"} \cup Settling

Result == [outcome : Outcomes, at : Nat]

TypeOK ==
    /\ now \in Nat
    /\ status \in [Calls -> Statuses]
    /\ created \in [Calls -> Nat]
    /\ pc \in [Calls -> {"idle"} \cup Active \cup Ended]
    /\ attempt \in [Calls -> 0..2]
    /\ job \in [Calls -> Calls \cup {NoCall}]
    /\ since \in [Calls -> Nat]
    /\ got \in [Calls -> Outcomes \cup {"none"}]
    /\ reply \in [Calls -> Replies]
    /\ submitted \subseteq Calls
    /\ stream \in [Calls -> Seq(Result)]
    /\ valid \subseteq Keys
    /\ missed \subseteq Calls

Init ==
    /\ now = 0
    /\ status = [c \in Calls |-> "none"]
    /\ created = [c \in Calls |-> 0]
    /\ pc = [c \in Calls |-> "idle"]
    /\ attempt = [c \in Calls |-> 0]
    /\ job = [c \in Calls |-> NoCall]
    /\ since = [c \in Calls |-> 0]
    /\ got = [c \in Calls |-> "none"]
    /\ reply = [c \in Calls |-> "none"]
    /\ submitted = {}
    /\ stream = [c \in Calls |-> <<>>]
    /\ valid = {}
    /\ missed = {}

-----------------------------------------------------------------------------
(* Rows and results.                                                       *)

(* The rows the partial unique index jobs_tenant_drv_running holds for k.  *)
Running(k) == {c \in Calls : status[c] = "running" /\ KeyOf[c] = k}

(* created_at < NOW() - retention                                          *)
Stale(c) == now - created[c] > Retention

(* Mutant: results live shorter than reservations.                         *)
ReplayableTooShort(c, i) == now - stream[c][i].at < Retention

(* The i-th result of job c has not been evicted by the stream's max_age.  *)
Replayable(c, i) == now - stream[c][i].at <= Retention

HasResult(c) == \E i \in DOMAIN stream[c] : Replayable(c, i)

Goto(c, where) == pc' = [pc EXCEPT ![c] = where]

(* await_outcome's timer runs from WaitFrom(now) to StopWaiting.           *)
WaitFrom(c, t) == since' = [since EXCEPT ![c] = t]
StopWaiting(c) == WaitFrom(c, 0)

-----------------------------------------------------------------------------
(* build_derivation up to the reservation.                                 *)

(* all_outputs_available holds: Built is answered and no job is made.      *)
ServedWithoutBuild(c) ==
    /\ pc[c] = "idle" /\ now <= LastStart
    /\ KeyOf[c] \in valid \cup Substitutable
    /\ valid' = valid \cup {KeyOf[c]}
    /\ reply' = [reply EXCEPT ![c] = "built"]
    /\ Goto(c, "done")
    /\ UNCHANGED <<now, rowVars, attempt, job, since, got, submitted, stream, missed>>

(* The outputs are not all there, or the client turned substitution off.   *)
BuildDerivation(c) ==
    /\ pc[c] = "idle" /\ now <= LastStart
    /\ Goto(c, "insert")
    /\ UNCHANGED <<now, rowVars, attempt, job, since, got, reply,
                   submitted, stream, valid, missed>>

(* Mutant: a plain INSERT, without the unique index.                       *)
InsertRowAlways(c) ==
    /\ status' = [status EXCEPT ![c] = "running"]
    /\ created' = [created EXCEPT ![c] = now]

(* The row reserve_job_db's INSERT .. ON CONFLICT DO UPDATE leaves: a new  *)
(* one, or the stale one given to this job (its old id names no row then). *)
InsertRow(c) ==
    LET old == Running(KeyOf[c])
    IN /\ \A d \in old : Stale(d)
       /\ status' = [d \in Calls |-> IF d = c THEN "running"
                                     ELSE IF d \in old THEN "none"
                                     ELSE status[d]]
       /\ created' = [created EXCEPT ![c] = now]

ReserveInsert(c) ==
    /\ pc[c] = "insert"
    /\ \/ InsertRow(c) /\ Goto(c, "won")
       \/ /\ \E d \in Running(KeyOf[c]) : ~Stale(d)
          /\ Goto(c, "select")
          /\ UNCHANGED rowVars
    /\ UNCHANGED <<now, attempt, job, since, got, reply, submitted, stream, valid, missed>>

(* The SELECT that follows a conflict, not atomic with the INSERT.         *)
ReserveSelect(c) ==
    /\ pc[c] = "select"
    /\ \/ \E d \in Running(KeyOf[c]) :
             /\ job' = [job EXCEPT ![c] = d]
             /\ Goto(c, "attach")
             /\ UNCHANGED attempt
       \/ /\ Running(KeyOf[c]) = {}
          /\ attempt' = [attempt EXCEPT ![c] = @ + 1]
          /\ Goto(c, IF attempt[c] = 0 THEN "insert" ELSE "won")
          /\ UNCHANGED job
    /\ UNCHANGED <<now, rowVars, since, got, reply, submitted, stream, valid, missed>>

(* Any database error: dispatch without a reservation.  An error of the    *)
(* commit itself may leave the row behind.                                 *)
ReserveDbError(c) ==
    /\ DbMayFail
    /\ pc[c] \in {"insert", "select"}
    /\ \/ UNCHANGED rowVars
       \/ pc[c] = "insert" /\ InsertRow(c)
    /\ attempt' = [attempt EXCEPT ![c] = 2]
    /\ Goto(c, "won")
    /\ UNCHANGED <<now, job, since, got, reply, submitted, stream, valid, missed>>

-----------------------------------------------------------------------------
(* Dispatching, attaching, watching.                                       *)

(* JobQueue::dispatch up to the acked publish; the log subscription and    *)
(* the result consumer exist by then.                                      *)
Submit(c) ==
    /\ pc[c] = "won"
    /\ submitted' = submitted \cup {c}
    /\ job' = [job EXCEPT ![c] = c]
    /\ WaitFrom(c, now)
    /\ Goto(c, "watch")
    /\ UNCHANGED <<now, rowVars, attempt, got, reply, stream, valid, missed>>

(* Subscribing, creating the consumer or publishing failed; the publish    *)
(* may have been stored although its ack never came.                       *)
SubmitFail(c) ==
    /\ pc[c] = "won"
    /\ submitted' \in {submitted, submitted \cup {c}}
    /\ reply' = [reply EXCEPT ![c] = "error"]
    /\ Goto(c, "done")
    /\ UNCHANGED <<now, rowVars, attempt, job, since, got, stream, valid, missed>>

(* Reservation::Lost: watch the job that holds the key.                    *)
Attach(c) ==
    /\ pc[c] = "attach"
    /\ WaitFrom(c, now)
    /\ Goto(c, "watch")
    /\ UNCHANGED <<now, rowVars, attempt, job, got, reply, submitted, stream, valid, missed>>

(* Mutant: the consumer starts at the last message.                        *)
ReceiveLast(c) ==
    /\ pc[c] = "watch"
    /\ \E i \in DOMAIN stream[job[c]] :
          /\ Replayable(job[c], i)
          /\ i = Len(stream[job[c]])
          /\ got' = [got EXCEPT ![c] = stream[job[c]][i].outcome]
    /\ Goto(c, "received")
    /\ StopWaiting(c)
    /\ UNCHANGED <<now, rowVars, attempt, job, reply, submitted, stream, valid, missed>>

(* await_outcome takes the first message its consumer still finds.         *)
Receive(c) ==
    /\ pc[c] = "watch"
    /\ \E i \in DOMAIN stream[job[c]] :
          /\ Replayable(job[c], i)
          /\ \A k \in 1 .. i - 1 : ~Replayable(job[c], k)
          /\ got' = [got EXCEPT ![c] = stream[job[c]][i].outcome]
    /\ Goto(c, "received")
    /\ StopWaiting(c)
    /\ UNCHANGED <<now, rowVars, attempt, job, reply, submitted, stream, valid, missed>>

(* Mutant: only the dispatcher's wait is timed.                            *)
TimeoutOfDispatcher(c) ==
    /\ pc[c] = "watch" /\ job[c] = c
    /\ now - since[c] >= ResultTimeout
    /\ reply' = [reply EXCEPT ![c] = "error"]
    /\ Goto(c, "done")
    /\ StopWaiting(c)
    /\ UNCHANGED <<now, rowVars, attempt, job, got, submitted, stream, valid, missed>>

(* result_timeout: the client gets an error, the reservation stays.        *)
Timeout(c) ==
    /\ pc[c] = "watch"
    /\ now - since[c] >= ResultTimeout
    /\ reply' = [reply EXCEPT ![c] = "error"]
    /\ Goto(c, "done")
    /\ StopWaiting(c)
    /\ UNCHANGED <<now, rowVars, attempt, job, got, submitted, stream, valid, missed>>

-----------------------------------------------------------------------------
(* After the outcome.                                                      *)

StatusOf(outcome) ==
    IF outcome \in {"completed", "bogus"} THEN "completed" ELSE "failed"

(* Mutant: the row of the call's own id, not of the effective one.         *)
RecordOutcomeOfOwnId(c) ==
    /\ pc[c] = "received"
    /\ status' = [status EXCEPT ![c] = StatusOf(got[c])]
    /\ Goto(c, "recorded")
    /\ UNCHANGED <<now, created, attempt, job, since, got, reply,
                   submitted, stream, valid, missed>>

(* record_job_outcome_db: upserts the row of the effective job id, best    *)
(* effort; created_at is set only where there was no row.                  *)
RecordOutcome(c) ==
    /\ pc[c] = "received"
    /\ \/ /\ status' = [status EXCEPT ![job[c]] = StatusOf(got[c])]
          /\ created' = [created EXCEPT
                ![job[c]] = IF status[job[c]] = "none" THEN now ELSE @]
          /\ UNCHANGED missed
       \/ DbMayFail /\ UNCHANGED rowVars /\ missed' = missed \cup {c}
    /\ Goto(c, "recorded")
    /\ UNCHANGED <<now, attempt, job, since, got, reply, submitted, stream, valid>>

(* Mutant: the row's status is passed on as the reply.                     *)
ReplyOfStatus(outcome) == StatusOf(outcome)

ReplyOf(outcome) ==
    CASE outcome = "completed" -> "built"
      [] outcome = "exhausted" -> "transient"
      [] OTHER -> "permanent"

(* Mutant: record_outputs is called whatever the outcome was.              *)
AnswerRecordsAlways(c) ==
    /\ pc[c] = "recorded"
    /\ valid' = valid \cup {KeyOf[c]}
    /\ reply' = [reply EXCEPT ![c] = ReplyOf(got[c])]
    /\ Goto(c, "done")
    /\ UNCHANGED <<now, rowVars, attempt, job, since, got, submitted, stream, missed>>

(* record_outputs, all or nothing against the expected set, then the       *)
(* answer.  A record_path that fails is logged and changes nothing else.   *)
Answer(c) ==
    /\ pc[c] = "recorded"
    /\ \/ /\ got[c] = "completed"
          /\ valid' = valid \cup {KeyOf[c]}
          /\ UNCHANGED missed
       \/ got[c] # "completed" /\ UNCHANGED <<valid, missed>>
       \/ /\ got[c] = "completed" /\ DbMayFail
          /\ missed' = missed \cup {c}
          /\ UNCHANGED valid
    /\ reply' = [reply EXCEPT ![c] = ReplyOf(got[c])]
    /\ Goto(c, "done")
    /\ UNCHANGED <<now, rowVars, attempt, job, since, got, submitted, stream>>

(* Attaching or watching fails: NATS, an unreadable result or its ack, or  *)
(* the client's log stream.  The reservation stays.                        *)
WatchFail(c) ==
    /\ pc[c] \in {"attach", "watch"}
    /\ reply' = [reply EXCEPT ![c] = "error"]
    /\ Goto(c, "done")
    /\ StopWaiting(c)
    /\ UNCHANGED <<now, rowVars, attempt, job, got, submitted, stream, valid, missed>>

(* The client disconnects or the frontend dies: the future is dropped.     *)
Drop(c) ==
    /\ pc[c] \in Active
    /\ Goto(c, "gone")
    /\ StopWaiting(c)
    /\ UNCHANGED <<now, rowVars, attempt, job, got, reply,
                   submitted, stream, valid, missed>>

-----------------------------------------------------------------------------
(* The rest of the system.                                                 *)

(* A worker publishes a result of a job it was delivered.                  *)
PublishResult(c, outcome) ==
    /\ c \in submitted
    /\ Len(stream[c]) < MaxResults
    /\ stream' = [stream EXCEPT ![c] = Append(@, [outcome |-> outcome, at |-> now])]
    /\ UNCHANGED <<now, rowVars, callVars, submitted, valid, missed>>

(* Mutant: the status filter is inverted.                                  *)
ReclaimSettled ==
    /\ \E c \in Calls : status[c] = "completed" /\ Stale(c)
    /\ status' = [c \in Calls |-> IF status[c] = "completed" /\ Stale(c)
                                  THEN "failed" ELSE status[c]]
    /\ UNCHANGED <<now, created, callVars, submitted, stream, valid, missed>>

(* Mutant: only jobs that reported something are reclaimed.                *)
ReclaimReported ==
    /\ \E c \in Calls : status[c] = "running" /\ Stale(c) /\ stream[c] # <<>>
    /\ status' = [c \in Calls |-> IF status[c] = "running" /\ Stale(c) /\ stream[c] # <<>>
                                  THEN "failed" ELSE status[c]]
    /\ UNCHANGED <<now, created, callVars, submitted, stream, valid, missed>>

(* The collector's reclaim_stuck_running_jobs, one UPDATE over all rows.   *)
Reclaim ==
    /\ \E c \in Calls : status[c] = "running" /\ Stale(c)
    /\ status' = [c \in Calls |-> IF status[c] = "running" /\ Stale(c)
                                  THEN "failed" ELSE status[c]]
    /\ UNCHANGED <<now, created, callVars, submitted, stream, valid, missed>>

(* A step of call c is due.                                                *)
Due(c) ==
    \/ pc[c] \in Reserving \cup Settling
    \/ pc[c] = "watch" /\ (HasResult(job[c]) \/ now - since[c] >= ResultTimeout)

Tick ==
    /\ now < MaxTime
    /\ \A c \in Calls : ~Due(c)
    /\ now' = now + 1
    /\ UNCHANGED <<rowVars, callVars, submitted, stream, valid, missed>>

Step(c) ==
    \/ ReserveInsert(c) \/ ReserveSelect(c) \/ ReserveDbError(c)
    \/ Submit(c) \/ SubmitFail(c) \/ Attach(c)
    \/ Receive(c) \/ Timeout(c) \/ RecordOutcome(c) \/ Answer(c)

Next ==
    \/ \E c \in Calls :
          \/ ServedWithoutBuild(c) \/ BuildDerivation(c)
          \/ Step(c) \/ WatchFail(c) \/ Drop(c)
          \/ \E o \in WorkerOutcomes : PublishResult(c, o)
    \/ Reclaim
    \/ Tick

Spec == Init /\ [][Next]_vars

(* A frontend keeps running its futures, the collector runs on an interval *)
(* and time passes.  Clients and workers promise nothing.                  *)
Fairness ==
    /\ \A c \in Calls : WF_vars(Step(c))
    /\ WF_vars(Reclaim)
    /\ WF_vars(Tick)

FairSpec == Spec /\ Fairness
-----------------------------------------------------------------------------
(* Properties.                                                             *)

(* A reservation never outlives the evidence that would resolve it: while  *)
(* it is fresh enough to attach to, the first result of its job can still  *)
(* be replayed (JobQueue::results_retention, one value for both ages).     *)
ReplayWindow ==
    \A c \in Calls :
        status[c] = "running" /\ ~Stale(c) /\ stream[c] # <<>> => Replayable(c, 1)

(* Every watcher of a job, dispatcher or attacher, on any frontend and     *)
(* however late, ends up with the same outcome, although a redelivered job *)
(* publishes several results (JobQueue::watch).                            *)
Agreement ==
    \A c, d \in Calls :
        got[c] # "none" /\ got[d] # "none" /\ job[c] = job[d] => got[c] = got[d]

(* Two jobs of one key are in flight together, no result out for either,   *)
(* only if one of them is past its retention or was dispatched without a   *)
(* reservation by reserve_job_db's fail-open exits.                        *)
InFlightOnce ==
    \A c, d \in submitted :
        /\ c # d /\ KeyOf[c] = KeyOf[d]
        /\ stream[c] = <<>> /\ stream[d] = <<>>
        => \E x \in {c, d} : Stale(x) \/ attempt[x] = 2

(* Outputs are recorded for a tenant's derivation only on the word of the  *)
(* first result of a job of that same tenant and derivation, or because a  *)
(* trusted substituter had them: attaching never crosses keys.             *)
ValidIsBacked ==
    \A k \in valid :
        \/ k \in Substitutable
        \/ \E d \in Calls :
              /\ KeyOf[d] = k
              /\ stream[d] # <<>>
              /\ stream[d][1].outcome = "completed"

(* Results are persisted before they are returned: a client told Built     *)
(* finds its outputs recorded and its job's row completed, for good, save  *)
(* a call whose own record_job_outcome or record_outputs failed.           *)
PersistedBeforeReturned ==
    \A c \in Calls \ missed :
        reply[c] = "built" =>
            /\ KeyOf[c] \in valid
            /\ job[c] # NoCall => status[job[c]] = "completed"

(* record_job_outcome may run once per watcher, in any order, and must be  *)
(* idempotent: a row that says completed says so for ever.                 *)
CompletedIsFinal ==
    [][\A c \in Calls : status[c] = "completed" => status'[c] = "completed"]_vars

(* Every call ends, whatever workers do: by an outcome or by its timeout.  *)
CallEnds == \A c \in Calls : pc[c] \in Active ~> pc[c] \in Ended

(* No reservation is held for ever: it is completed, stolen or reclaimed.  *)
ReservationReleased ==
    \A c \in Calls : status[c] = "running" ~> status[c] # "running"

(* An attached call waits for a job that was dispatched, or that is about  *)
(* to be.                                                                  *)
AttachedJobIsDispatched ==
    \A c \in Calls :
        pc[c] = "watch" => job[c] \in submitted \/ pc[job[c]] = "won"
=============================================================================
