------------------------- MODULE BuildServiceProofs -------------------------
(***************************************************************************)
(* Proofs about BuildService: what is proved of the frontends and of the   *)
(* fleet, each alone, holds of the two together.                           *)
(*                                                                         *)
(* A step of the whole is a step of each side or leaves that side alone    *)
(* (BothSides), so the whole inherits the invariants of both.  What        *)
(* neither side can say is that they speak of the same results:            *)
(* SameResults, that the stream the frontends replay is what the workers   *)
(* published.  The last theorem is that the whole keeps BuildPromise.      *)
(***************************************************************************)
EXTENDS BuildService, TLAPS

WQP == INSTANCE WorkQueueProofs WITH Jobs <- Calls, NoJob <- NoCall
BDP == INSTANCE BuildDispatchProofs WITH WorkerOutcomes <- WQ!WorkerResults

SameResults ==
    \A c \in Calls :
        /\ Len(stream[c]) = Len(published[c])
        /\ \A i \in DOMAIN stream[c] : stream[c][i].outcome = published[c][i]

IInv ==
    /\ BDP!IInv
    /\ BDP!PInv
    /\ BDP!ValidIsBacked
    /\ WQP!IInv
    /\ SameResults
-----------------------------------------------------------------------------
(* WQ and WQP, and BD and BDP, instantiate the same definitions.           *)

LEMMA FleetInstance ==
    /\ WQP!FleetAssumption /\ WQP!BoundAssumption /\ WQP!PublishAssumption
    /\ WQ!Init => WQP!Init
    /\ WQP!vars = WQ!vars
BY FleetAssumption, SMTT(40)
   DEF WQ!FleetAssumption, WQP!FleetAssumption, WQ!BoundAssumption, WQP!BoundAssumption,
       WQ!PublishAssumption, WQP!PublishAssumption, WQ!Features, WQP!Features,
       WQ!Init, WQP!Init, WQ!Durables, WQP!Durables, WQ!DurableName, WQP!DurableName,
       WQ!Nothing, WQP!Nothing, WQ!vars, WQP!vars

LEMMA FleetNext == WQ!Next => WQP!Next
BY DEF WQ!Next, WQ!Enqueue, WQ!Start, WQ!PullAny, WQ!WorkerStep, WQ!Crash, WQ!Expiry,
       WQ!Pull, WQ!Pending, WQ!NewMessage, WQ!SetState, WQ!JobsSubject, WQ!Redeliver,
       WQ!AckWaitExpires, WQ!Goto, WQ!Release, WQ!DurableName, WQ!Durables,
       WQ!WorkerSubjects, WQ!workerVars, WQ!vars, WQ!DropUndecodable, WQ!Accept,
       WQ!NakForRedelivery, WQ!RejectLastDelivery, WQ!Boot, WQ!FetchInputs, WQ!RunBuild,
       WQ!Retry, WQ!DecideEscalation, WQ!Reboot, WQ!UploadArtifacts, WQ!PublishResult,
       WQ!PublishResultFails, WQ!PublishEarly, WQ!EscalateOom, WQ!Ack, WQ!Publish,
       WQ!Fail, WQ!WorkerCapabilitiesSatisfy, WQ!Heartbeating, WQ!Nothing,
       WQ!WorkerResults, WQ!Cardinality,
       WQP!Next, WQP!Enqueue, WQP!Start, WQP!PullAny, WQP!WorkerStep, WQP!Crash,
       WQP!Expiry, WQP!Pull, WQP!Pending, WQP!NewMessage, WQP!SetState, WQP!JobsSubject,
       WQP!Redeliver, WQP!AckWaitExpires, WQP!Goto, WQP!Release, WQP!DurableName,
       WQP!Durables, WQP!WorkerSubjects, WQP!workerVars, WQP!vars, WQP!DropUndecodable,
       WQP!Accept, WQP!NakForRedelivery, WQP!RejectLastDelivery, WQP!Boot,
       WQP!FetchInputs, WQP!RunBuild, WQP!Retry, WQP!DecideEscalation, WQP!Reboot,
       WQP!UploadArtifacts, WQP!PublishResult, WQP!PublishResultFails, WQP!PublishEarly,
       WQP!EscalateOom, WQP!Ack, WQP!Publish, WQP!Fail, WQP!WorkerCapabilitiesSatisfy,
       WQP!Heartbeating, WQP!Nothing, WQP!WorkerResults, WQP!Cardinality

LEMMA FrontendInstance ==
    /\ BDP!CallsAssumption /\ BDP!TimeAssumption /\ BDP!FailureAssumption
    /\ BD!Init => BDP!Init
    /\ BDP!vars = BD!vars
BY FrontendAssumption, SMTT(40)
   DEF BD!CallsAssumption, BDP!CallsAssumption, BD!TimeAssumption, BDP!TimeAssumption,
       BD!FailureAssumption, BDP!FailureAssumption, BD!Outcomes, BDP!Outcomes,
       BD!Init, BDP!Init, BD!vars, BDP!vars

LEMMA FrontendNext == BD!Next => BDP!Next
BY DEF BD!Next, BD!Step, BD!ServedWithoutBuild, BD!BuildDerivation, BD!WatchFail, BD!Drop,
       BD!PublishResult, BD!Reclaim, BD!Tick, BD!ReserveInsert, BD!ReserveSelect,
       BD!ReserveDbError, BD!Submit, BD!SubmitFail, BD!Attach, BD!Receive, BD!Timeout,
       BD!RecordOutcome, BD!Answer, BD!Goto, BD!WaitFrom, BD!StopWaiting, BD!Running,
       BD!Stale, BD!Replayable, BD!HasResult, BD!InsertRow, BD!Due, BD!StatusOf,
       BD!ReplyOf, BD!rowVars, BD!callVars, BD!Reserving, BD!Settling, BD!Active,
       BDP!Next, BDP!Step, BDP!ServedWithoutBuild, BDP!BuildDerivation, BDP!WatchFail,
       BDP!Drop, BDP!PublishResult, BDP!Reclaim, BDP!Tick, BDP!ReserveInsert,
       BDP!ReserveSelect, BDP!ReserveDbError, BDP!Submit, BDP!SubmitFail, BDP!Attach,
       BDP!Receive, BDP!Timeout, BDP!RecordOutcome, BDP!Answer, BDP!Goto, BDP!WaitFrom,
       BDP!StopWaiting, BDP!Running, BDP!Stale, BDP!Replayable, BDP!HasResult,
       BDP!InsertRow, BDP!Due, BDP!StatusOf, BDP!ReplyOf, BDP!rowVars, BDP!callVars,
       BDP!Reserving, BDP!Settling, BDP!Active
-----------------------------------------------------------------------------
(* A worker that publishes holds a job of Calls and has an outcome.        *)
LEMMA PublisherReports ==
    ASSUME WQP!IInv, NEW w \in Workers, WQ!WorkerStep(w), published' # published
    PROVE  /\ held[w].job \in Calls
           /\ outcome[w] \in WQ!WorkerResults
           /\ published' = [published EXCEPT ![held[w].job] = Append(@, outcome[w])]
<1>1. wpc[w] \in {"publish", "publishEarly"} /\ WQ!Publish(w)
  BY DEF WQ!WorkerStep, WQ!DropUndecodable, WQ!Accept, WQ!NakForRedelivery,
         WQ!RejectLastDelivery, WQ!Boot, WQ!FetchInputs, WQ!RunBuild, WQ!Retry,
         WQ!DecideEscalation, WQ!Reboot, WQ!UploadArtifacts, WQ!PublishResult,
         WQ!PublishResultFails, WQ!PublishEarly, WQ!EscalateOom, WQ!Ack
<1>2. held[w].job \in Calls
  BY <1>1 DEF WQP!IInv, WQP!TypeOK, WQP!Holding
<1>3. outcome[w] \in WQ!WorkerResults
  BY <1>1 DEF WQP!IInv, WQP!TypeOK, WQP!Reportable, WQP!WorkerResults, WQ!WorkerResults
<1> QED BY <1>1, <1>2, <1>3 DEF WQ!Publish

(* Every step is a step of each side, or leaves that side alone.           *)
LEMMA BothSides ==
    ASSUME IInv, [Next]_vars
    PROVE  [BD!Next]_(BD!vars) /\ [WQ!Next]_(WQ!vars)
<1>1. ASSUME NEW c \in Calls, SubmitJob(c) PROVE BD!Next /\ WQ!Next
  BY <1>1 DEF SubmitJob, BD!Next, BD!Step, WQ!Next
<1>2. ASSUME NEW w \in Workers, ReportResult(w) PROVE BD!Next /\ WQ!Next
  BY <1>2, PublisherReports DEF ReportResult, IInv, BD!Next, WQ!Next
<1>3. ASSUME FrontendStep PROVE BD!Next /\ UNCHANGED WQ!vars
  BY <1>3 DEF FrontendStep, fleetVars, WQ!vars
<1>4. ASSUME FleetStep PROVE WQ!Next /\ UNCHANGED BD!vars
  BY <1>4 DEF FleetStep, frontVars, BD!vars
<1>5. ASSUME UNCHANGED vars PROVE UNCHANGED BD!vars /\ UNCHANGED WQ!vars
  BY <1>5 DEF vars, frontVars, fleetVars, BD!vars, WQ!vars
<1> QED BY <1>1, <1>2, <1>3, <1>4, <1>5 DEF Next

(* The two streams grow together.                                          *)
LEMMA SameResultsKept ==
    ASSUME IInv, [Next]_vars
    PROVE  SameResults'
<1>1. CASE UNCHANGED <<stream, published>>
  BY <1>1 DEF IInv, SameResults
<1>2. ASSUME NEW w \in Workers, ReportResult(w) PROVE SameResults'
  <2> DEFINE j == held[w].job
             r == [outcome |-> outcome[w], at |-> now]
  <2>1. /\ j \in Calls
        /\ published' = [published EXCEPT ![j] = Append(@, outcome[w])]
        /\ stream' = [stream EXCEPT ![j] = Append(@, r)]
    BY <1>2, PublisherReports DEF IInv, ReportResult, BD!PublishResult
  <2>2. /\ stream \in [Calls -> Seq(BDP!Result)]
        /\ published \in [Calls -> Seq(WQP!WorkerResults)]
    BY DEF IInv, BDP!IInv, BDP!TypeOK, WQP!IInv, WQP!TypeOK
  <2>3. r.outcome = outcome[w]
    OBVIOUS
  <2> HIDE DEF r, j
  <2>4. ASSUME NEW c \in Calls, c # j
        PROVE  stream'[c] = stream[c] /\ published'[c] = published[c]
    BY <2>1, <2>2, <2>4
  <2>5. stream'[j] = Append(stream[j], r) /\ published'[j] = Append(published[j], outcome[w])
    BY <2>1, <2>2
  <2>6. /\ Len(stream'[j]) = Len(published'[j])
        /\ \A i \in DOMAIN stream'[j] : stream'[j][i].outcome = published'[j][i]
    <3>1. /\ stream[j] \in Seq(BDP!Result) /\ published[j] \in Seq(WQP!WorkerResults)
          /\ Len(stream[j]) = Len(published[j])
          /\ \A i \in DOMAIN stream[j] : stream[j][i].outcome = published[j][i]
      BY <2>1, <2>2 DEF IInv, SameResults
    <3>2. Len(stream'[j]) = Len(stream[j]) + 1 /\ Len(published'[j]) = Len(published[j]) + 1
      BY <2>5, <3>1
    <3>3. ASSUME NEW i \in DOMAIN stream'[j] PROVE stream'[j][i].outcome = published'[j][i]
      <4>1. CASE i \in DOMAIN stream[j]
        <5>1. stream'[j][i] = stream[j][i] /\ published'[j][i] = published[j][i]
          BY <2>5, <3>1, <4>1
        <5> QED BY <3>1, <4>1, <5>1
      <4>2. CASE i \notin DOMAIN stream[j]
        <5>1. stream'[j][i] = r /\ published'[j][i] = outcome[w]
          BY <2>5, <3>1, <3>2, <3>3, <4>2
        <5> QED BY <2>3, <5>1
      <4> QED BY <4>1, <4>2
    <3> QED BY <3>1, <3>2, <3>3
  <2> QED BY <2>4, <2>6 DEF IInv, SameResults
<1>3. ASSUME NEW c \in Calls, SubmitJob(c) PROVE UNCHANGED <<stream, published>>
  BY <1>3 DEF SubmitJob, BD!Submit, BD!SubmitFail, WQ!Enqueue
<1>4. ASSUME FrontendStep \/ FleetStep PROVE UNCHANGED <<stream, published>>
  BY <1>4 DEF FrontendStep, FleetStep, frontVars, fleetVars
<1> QED BY <1>1, <1>2, <1>3, <1>4 DEF Next, vars, frontVars, fleetVars

LEMMA InitIInv == Init => IInv
<1> SUFFICES ASSUME Init PROVE IInv
  OBVIOUS
<1>1. BDP!IInv /\ BDP!PInv /\ BDP!ValidIsBacked
  BY FrontendInstance, BDP!InitIInv, BDP!InitPInv, BDP!InitValidIsBacked
     DEF Init, BDP!CallsAssumption, BDP!TimeAssumption, BDP!FailureAssumption
<1>2. WQP!IInv
  BY FleetInstance, WQP!InitIInv
     DEF Init, WQP!FleetAssumption, WQP!BoundAssumption, WQP!PublishAssumption
<1>3. SameResults
  BY DEF Init, BD!Init, WQ!Init, SameResults
<1> QED BY <1>1, <1>2, <1>3 DEF IInv

LEMMA NextIInv == IInv /\ [Next]_vars => IInv'
<1> SUFFICES ASSUME IInv, [Next]_vars PROVE IInv'
  OBVIOUS
<1>1. [BDP!Next]_(BDP!vars) /\ [WQP!Next]_(WQP!vars)
  BY BothSides, FleetNext, FrontendNext, FleetInstance, FrontendInstance
     DEF BD!vars, BDP!vars, WQ!vars, WQP!vars
<1>2. BDP!IInv' /\ BDP!PInv' /\ BDP!ValidIsBacked'
  BY <1>1, FrontendInstance, BDP!NextIInv, BDP!PInvStep, BDP!ValidIsBackedStep
     DEF IInv, BDP!CallsAssumption, BDP!TimeAssumption, BDP!FailureAssumption
<1>3. WQP!IInv'
  BY <1>1, FleetInstance, WQP!NextIInv
     DEF IInv, WQP!FleetAssumption, WQP!BoundAssumption, WQP!PublishAssumption
<1>4. SameResults'
  BY SameResultsKept
<1> QED BY <1>2, <1>3, <1>4 DEF IInv
-----------------------------------------------------------------------------
(* The inductive invariants of both sides hold of the whole, and the       *)
(* results the frontends replay are those the workers published.           *)
THEOREM Invariance == Spec => []IInv
BY InitIInv, NextIInv, PTL DEF Spec

(* All watchers of a job are given the same outcome, however the fleet     *)
(* redelivers, escalates and reports it (JobQueue::watch).                 *)
THEOREM AgreementHolds == Spec => []Agreement
<1>1. IInv => Agreement
  <2> SUFFICES ASSUME IInv, NEW c \in Calls, NEW d \in Calls,
                      got[c] # "none", got[d] # "none", job[c] = job[d]
               PROVE  got[c] = got[d]
    BY DEF Agreement, BD!Agreement
  <2> QED BY DEF IInv, BDP!IInv, BDP!GotIsFirst
<1> QED BY <1>1, Invariance, PTL

(* What the workers uploaded is what a client told Built looks for.        *)
BuiltIsUploaded ==
    \A c \in Calls :
        reply[c] = "built" /\ job[c] # NoCall =>
            /\ job[c] \in uploaded
            /\ c \notin missed => status[job[c]] = "completed"

LEMMA BuiltByUpload == IInv => BuiltIsUploaded
<1> SUFFICES ASSUME IInv, NEW c \in Calls, reply[c] = "built", job[c] # NoCall
             PROVE  /\ job[c] \in uploaded
                    /\ c \notin missed => status[job[c]] = "completed"
  BY DEF BuiltIsUploaded
<1>1. got[c] = "completed"
  BY DEF IInv, BDP!PInv
<1>2. job[c] \in Calls /\ stream[job[c]] # <<>> /\ stream[job[c]][1].outcome = "completed"
  BY <1>1 DEF IInv, BDP!IInv, BDP!GotIsFirst, BDP!JobOfSameKey
<1>3. 1 \in DOMAIN stream[job[c]] /\ 1 \in DOMAIN published[job[c]]
  <2>1. /\ stream[job[c]] \in Seq(BDP!Result)
        /\ published[job[c]] \in Seq(WQP!WorkerResults)
        /\ Len(stream[job[c]]) = Len(published[job[c]])
    BY <1>2 DEF IInv, BDP!IInv, BDP!TypeOK, WQP!IInv, WQP!TypeOK, SameResults
  <2> QED BY <1>2, <2>1
<1>4. published[job[c]][1] = "completed"
  BY <1>2, <1>3 DEF IInv, SameResults
<1>5. job[c] \in uploaded
  BY <1>2, <1>3, <1>4 DEF IInv, WQP!IInv, WQP!CompletedIsUploaded
<1>6. c \notin missed => status[job[c]] = "completed"
  BY DEF IInv, BDP!PInv, BDP!PersistedBeforeReturned
<1> QED BY <1>5, <1>6

(* Whether or not the frontends' database fails, a client told Built by    *)
(* way of a job can fetch what it built: artifacts are uploaded before     *)
(* their result is published, and a frontend answers Built only on the     *)
(* first result.  The row says completed too, unless writing it failed.    *)
THEOREM BuiltIsUploadedHolds == Spec => []BuiltIsUploaded
BY BuiltByUpload, Invariance, PTL

(* Where the database statements succeed, the outcome is recorded as well, *)
(* for every client told Built.                                            *)
THEOREM BuiltIsFetchableHolds ==
    ASSUME DbMayFail = FALSE
    PROVE  Spec => []BuiltIsFetchable
<1>1. Init => missed = {}
  BY DEF Init, BD!Init
<1>2. IInv /\ missed = {} /\ [Next]_vars => (missed = {})'
  <2>1. [BD!Next]_(BD!vars) /\ missed = {} => missed' = {}
    BY DEF BD!Next, BD!Step, BD!ServedWithoutBuild, BD!BuildDerivation, BD!WatchFail,
           BD!Drop, BD!PublishResult, BD!Reclaim, BD!Tick, BD!ReserveInsert,
           BD!ReserveSelect, BD!ReserveDbError, BD!Submit, BD!SubmitFail, BD!Attach,
           BD!Receive, BD!Timeout, BD!RecordOutcome, BD!Answer, BD!vars
  <2> QED BY <2>1, BothSides
<1>3. IInv /\ missed = {} => BuiltIsFetchable
  BY BuiltByUpload DEF BuiltIsUploaded, BuiltIsFetchable
<1> QED BY <1>1, <1>2, <1>3, Invariance, PTL DEF Spec
-----------------------------------------------------------------------------
(* The refinement.  Verdicts, artifacts and answers move one at a time,    *)
(* each by its own kind of step.                                           *)
SameVerdicts == [j \in Calls |-> VerdictOf(j)]' = [j \in Calls |-> VerdictOf(j)]
SameAnswerers == [c \in Calls |-> AnsweredBy(c)]' = [c \in Calls |-> AnsweredBy(c)]

LEMMA UnansweredFacts ==
    ASSUME IInv
    PROVE  /\ reply \in [Calls -> BDP!Replies] /\ job \in [Calls -> Calls \cup {NoCall}]
           /\ \A c \in Calls : pc[c] \in {"idle"} \cup BD!Active => reply[c] = "none"
           /\ \A c \in Calls : pc[c] = "idle" => job[c] = NoCall
BY DEF IInv, BDP!IInv, BDP!TypeOK, BDP!PInv, BDP!Active, BDP!Reserving, BDP!Settling,
       BD!Active, BD!Reserving, BD!Settling

(* What a frontend's step does to the answers, job of one unanswered call  *)
(* apart.                                                                  *)
LEMMA ReplyUnchanged ==
    ASSUME IInv, reply' = reply, NEW c \in Calls, reply[c] = "none",
           \A d \in Calls \ {c} : job'[d] = job[d]
    PROVE  SameAnswerers
BY UnansweredFacts DEF SameAnswerers, AnsweredBy

LEMMA ErrorGivesUp ==
    ASSUME IInv, NEW c \in Calls, reply[c] = "none", job' = job,
           reply' = [reply EXCEPT ![c] = "error"], SameVerdicts, UNCHANGED uploaded
    PROVE  P!Next
<1>1. SameAnswerers
  BY UnansweredFacts DEF SameAnswerers, AnsweredBy
<1>2. P!GiveUp(c)
  BY <1>1 DEF P!GiveUp, SameAnswerers, SameVerdicts
<1> QED BY <1>2 DEF P!Next

(* The first result of a job is its verdict.                               *)
LEMMA VerdictIsFirst ==
    ASSUME IInv, NEW j \in Calls, stream[j] # <<>>
    PROVE  VerdictOf(j) = stream[j][1].outcome /\ VerdictOf(j) \in WQ!WorkerResults
<1>1. /\ stream[j] \in Seq(BDP!Result) /\ published[j] \in Seq(WQP!WorkerResults)
      /\ Len(stream[j]) = Len(published[j])
      /\ \A i \in DOMAIN stream[j] : stream[j][i].outcome = published[j][i]
  BY DEF IInv, BDP!IInv, BDP!TypeOK, WQP!IInv, WQP!TypeOK, SameResults
<1>2. 1 \in DOMAIN stream[j] /\ published[j] # <<>> /\ Head(published[j]) = published[j][1]
  BY <1>1
<1>3. published[j][1] \in WQP!WorkerResults
  BY <1>1, <1>2
<1> QED BY <1>1, <1>2, <1>3 DEF VerdictOf, WQP!WorkerResults, WQ!WorkerResults

LEMMA FrontendKeepsPromise ==
    ASSUME IInv, BD!Next, SameVerdicts, UNCHANGED uploaded, UNCHANGED stream
    PROVE  [P!Next]_(P!vars)
<1>1. ASSUME reply' = reply, SameAnswerers PROVE UNCHANGED P!vars
  BY <1>1 DEF P!vars, SameAnswerers, SameVerdicts
<1>2. ASSUME UNCHANGED <<reply, job>> PROVE UNCHANGED P!vars
  BY <1>1, <1>2 DEF SameAnswerers, AnsweredBy
<1>3. ASSUME NEW c \in Calls, BD!ServedWithoutBuild(c) PROVE P!Next
  <2>1. /\ reply[c] = "none" /\ job[c] = NoCall /\ job' = job
        /\ reply' = [reply EXCEPT ![c] = "built"]
        /\ KeyOf[c] \in valid \cup Substitutable
    BY <1>3, UnansweredFacts DEF BD!ServedWithoutBuild
  <2>2. SameAnswerers
    BY <2>1, UnansweredFacts DEF SameAnswerers, AnsweredBy
  <2>3. P!Available(KeyOf[c])
    <3>1. CASE KeyOf[c] \in Substitutable
      BY <3>1 DEF P!Available
    <3>2. CASE KeyOf[c] \notin Substitutable
      <4>1. PICK d \in Calls : /\ KeyOf[d] = KeyOf[c] /\ stream[d] # <<>>
                               /\ stream[d][1].outcome = "completed"
        BY <2>1, <3>2 DEF IInv, BDP!ValidIsBacked
      <4>2. VerdictOf(d) = "completed"
        BY <4>1, VerdictIsFirst
      <4> QED BY <4>1, <4>2 DEF P!Available
    <3> QED BY <3>1, <3>2
  <2>4. P!AnswerAvailable(c)
    BY <2>1, <2>2, <2>3 DEF P!AnswerAvailable, SameAnswerers, SameVerdicts
  <2> QED BY <2>4 DEF P!Next
<1>4. ASSUME NEW c \in Calls, BD!Answer(c) PROVE P!Next
  <2>1. /\ reply[c] = "none" /\ job' = job
        /\ reply' = [reply EXCEPT ![c] = BD!ReplyOf(got[c])]
    BY <1>4, UnansweredFacts DEF BD!Answer, BD!Active, BD!Settling
  <2>2. /\ job[c] \in Calls /\ KeyOf[job[c]] = KeyOf[c] /\ stream[job[c]] # <<>>
        /\ got[c] = stream[job[c]][1].outcome
    BY <1>4 DEF BD!Answer, IInv, BDP!IInv, BDP!JobOfSameKey, BDP!GotIsFirst, BDP!Settling
  <2>3. VerdictOf(job[c]) = got[c] /\ got[c] \in {"completed", "failed", "exhausted"}
    BY <2>2, VerdictIsFirst DEF WQ!WorkerResults
  <2>4. BD!ReplyOf(got[c]) = P!Meaning(VerdictOf(job[c]))
        /\ BD!ReplyOf(got[c]) \notin {"none", "error"}
    BY <2>3 DEF BD!ReplyOf, P!Meaning
  <2>5. [d \in Calls |-> AnsweredBy(d)]' =
            [[d \in Calls |-> AnsweredBy(d)] EXCEPT ![c] = job[c]]
    BY <2>1, <2>4, UnansweredFacts DEF AnsweredBy
  <2>6. P!Answer(c, job[c])
    BY <2>1, <2>2, <2>3, <2>4, <2>5 DEF P!Answer, SameVerdicts
  <2> QED BY <2>2, <2>6 DEF P!Next
<1>5. ASSUME NEW c \in Calls, BD!SubmitFail(c) \/ BD!Timeout(c) \/ BD!WatchFail(c)
      PROVE  P!Next
  <2>1. reply[c] = "none" /\ job' = job /\ reply' = [reply EXCEPT ![c] = "error"]
    BY <1>5, UnansweredFacts DEF BD!SubmitFail, BD!Timeout, BD!WatchFail, BD!Active,
       BD!Reserving
  <2> QED BY <2>1, ErrorGivesUp
<1>6. ASSUME NEW c \in Calls, BD!Submit(c) \/ BD!ReserveSelect(c) PROVE UNCHANGED P!vars
  <2>1. /\ reply[c] = "none" /\ reply' = reply
        /\ \A d \in Calls \ {c} : job'[d] = job[d]
    BY <1>6, UnansweredFacts DEF BD!Submit, BD!ReserveSelect, BD!Active, BD!Reserving
  <2> QED BY <1>1, <2>1, ReplyUnchanged
<1>7. ASSUME NEW c \in Calls,
             \/ BD!BuildDerivation(c) \/ BD!ReserveInsert(c) \/ BD!ReserveDbError(c)
             \/ BD!Attach(c) \/ BD!Receive(c) \/ BD!RecordOutcome(c) \/ BD!Drop(c)
      PROVE  UNCHANGED P!vars
  BY <1>2, <1>7 DEF BD!BuildDerivation, BD!ReserveInsert, BD!ReserveDbError, BD!Attach,
     BD!Receive, BD!RecordOutcome, BD!Drop
<1>8. ASSUME \/ BD!Reclaim \/ BD!Tick
             \/ \E c \in Calls : \E o \in WQ!WorkerResults : BD!PublishResult(c, o)
      PROVE  UNCHANGED P!vars
  BY <1>2, <1>8 DEF BD!Reclaim, BD!Tick, BD!PublishResult, BD!callVars
<1> QED BY <1>3, <1>4, <1>5, <1>6, <1>7, <1>8 DEF BD!Next, BD!Step

LEMMA FleetKeepsPromise ==
    ASSUME IInv, FleetStep
    PROVE  [P!Next]_(P!vars)
<1>1. SameVerdicts /\ SameAnswerers /\ reply' = reply
  BY DEF FleetStep, frontVars, SameVerdicts, SameAnswerers, VerdictOf, AnsweredBy
<1>2. CASE UNCHANGED uploaded
  BY <1>1, <1>2 DEF P!vars, SameVerdicts, SameAnswerers
<1>3. ASSUME NEW w \in Workers, WQ!UploadArtifacts(w), uploaded' # uploaded PROVE P!Next
  <2>1. held[w].job \in Calls
    BY <1>3 DEF WQ!UploadArtifacts, IInv, WQP!IInv, WQP!TypeOK, WQP!Holding
  <2>2. uploaded' = uploaded \cup {held[w].job}
    BY <1>3 DEF WQ!UploadArtifacts
  <2>3. P!Store(held[w].job)
    BY <1>1, <2>2 DEF P!Store, SameVerdicts, SameAnswerers
  <2> QED BY <2>1, <2>3 DEF P!Next
<1>4. ASSUME NEW w \in Workers, WQ!WorkerStep(w)
      PROVE  WQ!UploadArtifacts(w) \/ UNCHANGED uploaded
  BY <1>4 DEF WQ!WorkerStep, WQ!DropUndecodable, WQ!Accept, WQ!NakForRedelivery,
     WQ!RejectLastDelivery, WQ!Boot, WQ!FetchInputs, WQ!RunBuild, WQ!Retry,
     WQ!DecideEscalation, WQ!Reboot, WQ!PublishResult, WQ!PublishResultFails,
     WQ!PublishEarly, WQ!EscalateOom, WQ!Ack
<1>5. ASSUME \/ \E j \in Calls : WQ!Enqueue(j)
             \/ \E w \in Workers : WQ!Start(w) \/ WQ!PullAny(w) \/ WQ!Crash(w)
             \/ WQ!Expiry
      PROVE  UNCHANGED uploaded
  BY <1>5 DEF WQ!Enqueue, WQ!Start, WQ!PullAny, WQ!Pull, WQ!Crash, WQ!Expiry,
     WQ!AckWaitExpires
<1> QED BY <1>2, <1>3, <1>4, <1>5 DEF FleetStep, WQ!Next

(* A worker's first result of a job settles it; later ones change nothing. *)
LEMMA ReportKeepsPromise ==
    ASSUME IInv, IInv', NEW w \in Workers, ReportResult(w)
    PROVE  [P!Next]_(P!vars)
<1>1. PICK j \in Calls :
         /\ outcome[w] \in WQ!WorkerResults
         /\ published' = [published EXCEPT ![j] = Append(@, outcome[w])]
         /\ published \in [Calls -> Seq(WQP!WorkerResults)]
  BY PublisherReports DEF ReportResult, IInv, WQP!IInv, WQP!TypeOK
<1>2. uploaded' = uploaded
  BY DEF ReportResult, WQ!WorkerStep, WQ!DropUndecodable, WQ!Accept, WQ!NakForRedelivery,
     WQ!RejectLastDelivery, WQ!Boot, WQ!FetchInputs, WQ!RunBuild, WQ!Retry,
     WQ!DecideEscalation, WQ!Reboot, WQ!UploadArtifacts, WQ!PublishResult,
     WQ!PublishResultFails, WQ!PublishEarly, WQ!EscalateOom, WQ!Ack
<1>3. reply' = reply /\ SameAnswerers
  BY DEF ReportResult, BD!PublishResult, BD!callVars, SameAnswerers, AnsweredBy
<1>4. \A d \in Calls \ {j} : VerdictOf(d)' = VerdictOf(d)
  BY <1>1 DEF VerdictOf
<1>5. published'[j] = Append(published[j], outcome[w]) /\ published[j] \in Seq(WQP!WorkerResults)
  BY <1>1
<1>6. CASE published[j] = <<>>
  <2>1. published'[j] # <<>> /\ Head(published'[j]) = outcome[w] /\ 1 \in DOMAIN published'[j]
        /\ published'[j][1] = outcome[w]
    BY <1>5, <1>6
  <2>2. VerdictOf(j) = "none" /\ VerdictOf(j)' = outcome[w]
    BY <1>6, <2>1 DEF VerdictOf
  <2>3. outcome[w] = "completed" => j \in uploaded
    BY <1>1, <1>2, <2>1 DEF IInv, WQP!IInv, WQP!CompletedIsUploaded
  <2>4. [d \in Calls |-> VerdictOf(d)]' = [[d \in Calls |-> VerdictOf(d)] EXCEPT ![j] = outcome[w]]
    BY <1>1, <1>4, <2>2
  <2>5. P!Settle(j, outcome[w])
    BY <1>1, <1>2, <1>3, <2>2, <2>3, <2>4 DEF P!Settle, SameAnswerers
  <2> QED BY <1>1, <2>5 DEF P!Next, P!Verdicts, WQ!WorkerResults
<1>7. CASE published[j] # <<>>
  <2>1. published'[j] # <<>> /\ Head(published'[j]) = Head(published[j])
    BY <1>5, <1>7
  <2>2. VerdictOf(j)' = VerdictOf(j)
    BY <1>7, <2>1 DEF VerdictOf
  <2>3. SameVerdicts
    BY <1>4, <2>2 DEF SameVerdicts
  <2> QED BY <1>2, <1>3, <2>3 DEF P!vars, SameVerdicts, SameAnswerers
<1> QED BY <1>6, <1>7

(* The service keeps its promise to clients, whatever the fleet, the       *)
(* number of calls and the faults: a job is settled once, as completed     *)
(* only with artifacts in the store, and a call is told an error, its own  *)
(* derivation's settled verdict, or Built because one such job completed.  *)
THEOREM PromiseKept == Spec => KeepsPromise
<1>1. Init => P!Init
  BY DEF Init, BD!Init, WQ!Init, P!Init, VerdictOf, AnsweredBy
<1>2. IInv /\ IInv' /\ [Next]_vars => [P!Next]_(P!vars)
  <2> SUFFICES ASSUME IInv, IInv', [Next]_vars PROVE [P!Next]_(P!vars)
    OBVIOUS
  <2>1. ASSUME NEW c \in Calls, SubmitJob(c) PROVE [P!Next]_(P!vars)
    <3>1. BD!Next /\ UNCHANGED <<stream, uploaded>> /\ SameVerdicts
      BY <2>1 DEF SubmitJob, BD!Next, BD!Step, BD!Submit, BD!SubmitFail, WQ!Enqueue,
         SameVerdicts, VerdictOf
    <3> QED BY <3>1, FrontendKeepsPromise
  <2>2. ASSUME FrontendStep PROVE [P!Next]_(P!vars)
    <3>1. BD!Next /\ UNCHANGED <<stream, uploaded>> /\ SameVerdicts
      BY <2>2 DEF FrontendStep, fleetVars, SameVerdicts, VerdictOf
    <3> QED BY <3>1, FrontendKeepsPromise
  <2>3. CASE UNCHANGED vars
    BY <2>3 DEF vars, frontVars, fleetVars, P!vars, VerdictOf, AnsweredBy
  <2> QED BY <2>1, <2>2, <2>3, FleetKeepsPromise, ReportKeepsPromise DEF Next
<1> QED BY <1>1, <1>2, Invariance, PTL DEF Spec, KeepsPromise, P!Spec
=============================================================================
