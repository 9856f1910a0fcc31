---------------------------- MODULE BuildService ----------------------------
(***************************************************************************)
(* Frontends and workers together: BuildDispatch and WorkQueue joined at   *)
(* the two streams they share.  A call's submission is the enqueueing of   *)
(* its message, and the result a worker publishes is the one that appears  *)
(* in the results stream; every other step belongs to one side.            *)
(***************************************************************************)
EXTENDS Integers, Sequences, FiniteSets

CONSTANTS
    Calls, Keys, KeyOf, Substitutable, Retention, ResultTimeout, DbMayFail,
    LastStart, MaxTime, MaxResults, NoCall,
    Workers, Classes, Exclusive, Required, Undecodable, MaxDeliver,
    MaxAckPending, FailingPublishes, MaxCopies, MaxRetries, MaxFaults

VARIABLES
    now, status, created, pc, attempt, job, since, got, reply,
    submitted, stream, valid, missed,
    queue, filter, wpc, held, seen, outcome, retries, published, uploaded, faults

WQ == INSTANCE WorkQueue WITH Jobs <- Calls, NoJob <- NoCall
BD == INSTANCE BuildDispatch WITH WorkerOutcomes <- WQ!WorkerResults

(* What the two sides assume of the constants they share and of their own. *)
ASSUME FleetAssumption ==
    WQ!FleetAssumption /\ WQ!BoundAssumption /\ WQ!PublishAssumption
ASSUME FrontendAssumption ==
    BD!CallsAssumption /\ BD!TimeAssumption /\ BD!FailureAssumption

frontVars == <<now, status, created, pc, attempt, job, since, got, reply,
               submitted, stream, valid, missed>>
fleetVars == <<queue, filter, wpc, held, seen, outcome, retries,
               published, uploaded, faults>>
vars == <<frontVars, fleetVars>>

Init == BD!Init /\ WQ!Init

(* A publish of JobQueue::submit that reached the jobs stream, acked or    *)
(* not.                                                                    *)
SubmitJob(c) ==
    /\ BD!Submit(c) \/ BD!SubmitFail(c)
    /\ c \in submitted'
    /\ WQ!Enqueue(c)

(* A worker's publish_result that reached the results stream.              *)
ReportResult(w) ==
    /\ WQ!WorkerStep(w)
    /\ published' # published
    /\ BD!PublishResult(held[w].job, outcome[w])

FrontendStep ==
    /\ BD!Next
    /\ UNCHANGED <<submitted, stream>>
    /\ UNCHANGED fleetVars

FleetStep ==
    /\ WQ!Next
    /\ \A c \in Calls : queue[c] = <<>> => queue'[c] = <<>>
    /\ UNCHANGED published
    /\ UNCHANGED frontVars

Next ==
    \/ \E c \in Calls : SubmitJob(c)
    \/ \E w \in Workers : ReportResult(w)
    \/ FrontendStep
    \/ FleetStep

Spec == Init /\ [][Next]_vars

-----------------------------------------------------------------------------
(* Properties.                                                             *)

(* A client told Built by way of a job can fetch what that job built: its  *)
(* outputs were in the object store before any result said so, and the     *)
(* outcome is the one recorded, whoever dispatched and whoever built.      *)
BuiltIsFetchable ==
    \A c \in Calls :
        reply[c] = "built" /\ job[c] # NoCall =>
            job[c] \in uploaded /\ status[job[c]] = "completed"

(* However often a job is redelivered and whatever its deliveries report,  *)
(* all its watchers are given the same outcome (JobQueue::watch).          *)
Agreement == BD!Agreement

(* The service keeps BuildPromise: a job's verdict is the first result a   *)
(* worker published of it, what is stored is what workers uploaded, and    *)
(* the job a call was answered by is its effective one.                    *)
VerdictOf(j) == IF published[j] = <<>> THEN "none" ELSE Head(published[j])
AnsweredBy(c) == IF reply[c] \in {"none", "error"} THEN NoCall ELSE job[c]

P == INSTANCE BuildPromise
        WITH verdict <- [j \in Calls |-> VerdictOf(j)], stored <- uploaded,
             told <- reply, by <- [c \in Calls |-> AnsweredBy(c)]

(* Through replays, redelivered builds, stolen and reclaimed reservations  *)
(* and lost answers, no call is told anything but an error or the settled  *)
(* verdict on its own tenant's derivation, and Built only with artifacts.  *)
KeepsPromise == P!Spec
=============================================================================
