-------------------------- MODULE WorkQueueProofs --------------------------
(***************************************************************************)
(* Proofs about WorkQueue, for any fleet, jobs and bounds.                 *)
(*                                                                         *)
(* NoJobLost is not inductive: an ack that is still to come must already   *)
(* be harmless.  Handoff says so of every worker about to ack and of every *)
(* message acked: the job has a result, or a later copy of it is queued.   *)
(***************************************************************************)
EXTENDS WorkQueue, TLAPS

(* Message i of job j may go.                                              *)
Handed(j, i) == j \in Undecodable \/ published[j] # <<>> \/ i < Len(queue[j])

Handoff ==
    /\ \A w \in Workers : wpc[w] = "ack" => Handed(held[w].job, held[w].msg)
    /\ \A j \in Jobs : \A i \in DOMAIN queue[j] :
          queue[j][i].state = "acked" => Handed(j, i)

(* No publish fails on an exit that acks anyway.                           *)
AckedPublishesSucceed == FailingPublishes \subseteq {"publish"}

(* A worker about to publish has an outcome, and a completed one only with *)
(* its artifacts uploaded.                                                 *)
Reportable ==
    \A w \in Workers :
        /\ wpc[w] \in {"upload", "publish", "publishEarly"} => outcome[w] # "none"
        /\ wpc[w] = "publishEarly" => outcome[w] = "failed"
        /\ wpc[w] = "publish" /\ outcome[w] = "completed" => held[w].job \in uploaded

IInv ==
    /\ TypeOK
    /\ AckedPublishesSucceed => Handoff
    /\ Reportable
    /\ CompletedIsUploaded
    /\ BuiltOnCapableWorker
-----------------------------------------------------------------------------
(* What the operations on the stream do to the messages: none disappears,  *)
(* and only those in acked become acked.                                   *)
QueueOK(q) == q \in [Jobs -> Seq(Message)]

Evolves(acked) ==
    /\ QueueOK(queue')
    /\ \A k \in Jobs : Len(queue[k]) <= Len(queue'[k])
    /\ \A k \in Jobs : \A m \in DOMAIN queue'[k] :
          queue'[k][m].state = "acked" =>
              \/ <<k, m>> \in acked
              \/ m \in DOMAIN queue[k] /\ queue[k][m].state = "acked"

LEMMA UnchangedEvolves ==
    ASSUME QueueOK(queue), UNCHANGED queue
    PROVE  Evolves({})
BY DEF Evolves, QueueOK

(* One message replaced in place.                                          *)
LEMMA ReplaceEvolves ==
    ASSUME QueueOK(queue), NEW j \in Jobs, NEW i \in DOMAIN queue[j], NEW x \in Message,
           NEW acked, x.state = "acked" => <<j, i>> \in acked,
           queue' = [queue EXCEPT ![j] = [queue[j] EXCEPT ![i] = x]]
    PROVE  Evolves(acked)
<1>1. queue[j] \in Seq(Message)
  BY DEF QueueOK
<1>2. [queue[j] EXCEPT ![i] = x] \in Seq(Message)
  BY <1>1
<1>3. QueueOK(queue')
  BY <1>2 DEF QueueOK
<1>4. \A k \in Jobs : Len(queue'[k]) = Len(queue[k]) /\ Len(queue[k]) \in Nat
  BY <1>1 DEF QueueOK
<1>5. \A k \in Jobs : DOMAIN queue'[k] = DOMAIN queue[k]
  BY <1>1 DEF QueueOK
<1>6. ASSUME NEW k \in Jobs, NEW m \in DOMAIN queue[k], queue'[k][m] # queue[k][m]
      PROVE  k = j /\ m = i /\ queue'[k][m] = x
  BY <1>1, <1>6 DEF QueueOK
<1>7. ASSUME NEW k \in Jobs, NEW m \in DOMAIN queue'[k], queue'[k][m].state = "acked"
      PROVE  \/ <<k, m>> \in acked
             \/ m \in DOMAIN queue[k] /\ queue[k][m].state = "acked"
  <2>1. m \in DOMAIN queue[k]
    BY <1>5
  <2>2. CASE queue'[k][m] = queue[k][m]
    BY <1>7, <2>1, <2>2
  <2>3. CASE queue'[k][m] # queue[k][m]
    BY <1>6, <1>7, <2>1, <2>3
  <2> QED BY <2>2, <2>3
<1> QED BY <1>3, <1>4, <1>7 DEF Evolves

LEMMA SetStateEvolves ==
    ASSUME QueueOK(queue), NEW j \in Jobs, NEW i \in DOMAIN queue[j],
           NEW s \in {"ready", "pending", "acked", "dead"}, SetState(j, i, s),
           NEW acked, s = "acked" => <<j, i>> \in acked
    PROVE  Evolves(acked)
<1> DEFINE x == [queue[j][i] EXCEPT !.state = s]
<1>1. queue[j] \in Seq(Message) /\ queue[j][i] \in Message
  BY DEF QueueOK
<1>2. x \in Message /\ x.state = s
  BY <1>1 DEF Message
<1>3. queue' = [queue EXCEPT ![j] = [queue[j] EXCEPT ![i] = x]]
  BY DEF SetState, QueueOK
<1> HIDE DEF x
<1> QED BY <1>2, <1>3, ReplaceEvolves

LEMMA RedeliverEvolves ==
    ASSUME QueueOK(queue), NEW j \in Jobs, NEW i \in DOMAIN queue[j], Redeliver(j, i)
    PROVE  Evolves({})
<1>1. CASE queue[j][i].state = "pending"
  <2> DEFINE s == IF queue[j][i].delivered < MaxDeliver THEN "ready" ELSE "dead"
  <2>1. SetState(j, i, s)
    BY <1>1 DEF Redeliver
  <2>2. s \in {"ready", "pending", "acked", "dead"} /\ s # "acked"
    OBVIOUS
  <2> HIDE DEF s
  <2> QED BY <2>1, <2>2, SetStateEvolves
<1>2. CASE queue[j][i].state # "pending"
  BY <1>2, UnchangedEvolves DEF Redeliver
<1> QED BY <1>1, <1>2

(* A message published at the end of its job's list.                       *)
LEMMA AppendEvolves ==
    ASSUME QueueOK(queue), NEW j \in Jobs, NEW subject \in Subjects,
           queue' = [queue EXCEPT ![j] = Append(queue[j], NewMessage(subject))]
    PROVE  Evolves({}) /\ Len(queue[j]) < Len(queue'[j])
<1> DEFINE x == NewMessage(subject)
<1>1. x \in Message /\ x.state = "ready"
  BY BoundAssumption DEF NewMessage, Message
<1>2. queue[j] \in Seq(Message)
  BY DEF QueueOK
<1> HIDE DEF x
<1>3. queue' = [queue EXCEPT ![j] = Append(queue[j], x)]
  BY DEF x
<1>4. QueueOK(queue') /\ Len(queue'[j]) = Len(queue[j]) + 1
  BY <1>1, <1>2, <1>3 DEF QueueOK
<1>5. \A k \in Jobs : Len(queue[k]) <= Len(queue'[k])
  BY <1>1, <1>2, <1>3 DEF QueueOK
<1>6. ASSUME NEW k \in Jobs, NEW m \in DOMAIN queue'[k], queue'[k][m].state = "acked"
      PROVE  m \in DOMAIN queue[k] /\ queue[k][m].state = "acked"
  BY <1>1, <1>2, <1>3, <1>6 DEF QueueOK
<1> QED BY <1>2, <1>4, <1>5, <1>6 DEF Evolves

(* Results are never taken back, so what was handed over stays so ...      *)
Monotone == \A j \in Jobs : published[j] # <<>> => published'[j] # <<>>

LEMMA HandedKept ==
    ASSUME QueueOK(queue), NEW acked, Evolves(acked), Monotone,
           NEW j \in Jobs, NEW i \in Nat, Handed(j, i)
    PROVE  Handed(j, i)'
<1>1. Len(queue[j]) \in Nat /\ Len(queue'[j]) \in Nat /\ Len(queue[j]) <= Len(queue'[j])
  BY DEF QueueOK, Evolves
<1> QED BY <1>1 DEF Handed, Monotone

(* ... and Handoff too, if those who come to ack may.                      *)
LEMMA HandoffKept ==
    ASSUME QueueOK(queue), NEW acked, Evolves(acked), Monotone, Handoff,
           \A j \in Jobs : \A i \in Nat : <<j, i>> \in acked => Handed(j, i),
           \A w \in Workers : wpc'[w] = "ack" => Handed(held[w].job, held[w].msg)'
    PROVE  Handoff'
<1>1. ASSUME NEW j \in Jobs, NEW i \in DOMAIN queue'[j], queue'[j][i].state = "acked"
      PROVE  Handed(j, i)'
  <2>1. i \in Nat
    BY DEF Evolves, QueueOK
  <2>2. Handed(j, i)
    BY <1>1, <2>1 DEF Evolves, Handoff
  <2> QED BY <2>1, <2>2, HandedKept
<1> QED BY <1>1 DEF Handoff

(* A worker that did not come to ack with this step acks as before.        *)
LEMMA OthersKept ==
    ASSUME QueueOK(queue), NEW acked, Evolves(acked), Monotone, Handoff, TypeOK,
           NEW w \in Workers, wpc[w] = "ack", UNCHANGED <<held[w].job, held[w].msg>>
    PROVE  Handed(held[w].job, held[w].msg)'
<1>1. held[w].job \in Jobs /\ held[w].msg \in Nat
  BY DEF TypeOK, Holding
<1>2. Handed(held[w].job, held[w].msg)
  BY DEF Handoff
<1>3. Handed(held[w].job, held[w].msg)' <=>
        \/ held[w].job \in Undecodable
        \/ published'[held[w].job] # <<>>
        \/ held[w].msg < Len(queue'[held[w].job])
  BY DEF Handed
<1> QED BY <1>1, <1>2, <1>3, HandedKept DEF Handed

(* What publish_result adds.                                               *)
LEMMA PublishFacts ==
    ASSUME TypeOK, NEW w \in Workers, held[w].job \in Jobs, outcome[w] # "none",
         Publish(w)
    PROVE  /\ published' \in [Jobs -> Seq(WorkerResults)]
           /\ published'[held[w].job] # <<>>
           /\ Monotone
           /\ \A j \in Jobs : \A i \in DOMAIN published'[j] :
                 \/ i \in DOMAIN published[j] /\ published'[j][i] = published[j][i]
                 \/ j = held[w].job /\ published'[j][i] = outcome[w]
<1> DEFINE k == held[w].job
           o == outcome[w]
<1>1. o \in WorkerResults /\ published \in [Jobs -> Seq(WorkerResults)] /\ k \in Jobs
  BY DEF TypeOK
<1>2. published' = [published EXCEPT ![k] = Append(published[k], o)]
  BY <1>1 DEF Publish
<1> HIDE DEF k, o
<1>3. published[k] \in Seq(WorkerResults)
  BY <1>1
<1>4. Append(published[k], o) \in Seq(WorkerResults) /\ Append(published[k], o) # <<>>
  BY <1>1, <1>3
<1>5. published' \in [Jobs -> Seq(WorkerResults)] /\ published'[k] # <<>> /\ Monotone
  BY <1>1, <1>2, <1>4 DEF Monotone
<1>6. ASSUME NEW j \in Jobs, NEW i \in DOMAIN published'[j]
      PROVE  \/ i \in DOMAIN published[j] /\ published'[j][i] = published[j][i]
             \/ j = k /\ published'[j][i] = o
  BY <1>1, <1>2, <1>3
<1> QED BY <1>5, <1>6 DEF k, o
-----------------------------------------------------------------------------
LEMMA StartPreserves ==
    ASSUME IInv, NEW w \in Workers, Start(w)
    PROVE  IInv'
<1> USE FleetAssumption, BoundAssumption DEF IInv
<1>1. QueueOK(queue)
  BY DEF TypeOK, QueueOK
<1>2. Evolves({})
  BY <1>1, UnchangedEvolves DEF Start
<1>3. TypeOK'
  <2>1. WorkerSubjects(w) \in SUBSET Subjects /\ DurableName(w) \in Durables
    BY DEF WorkerSubjects, Subjects, Durables
  <2>2. filter' \in [Durables -> SUBSET Subjects]
    BY <2>1 DEF Start, TypeOK
  <2> QED BY <1>2, <2>2 DEF TypeOK, Start, Goto, Holding, Heartbeating
<1>4. AckedPublishesSucceed => Handoff'
  BY <1>1, <1>2 DEF Evolves, QueueOK, TypeOK, Handoff, Handed, Holding, Heartbeating,
       Start, Goto
<1>5. Reportable' /\ CompletedIsUploaded'
  BY DEF TypeOK, Reportable, CompletedIsUploaded, WorkerResults, Holding,
       Heartbeating, Start, Goto
<1>6. BuiltOnCapableWorker'
  BY DEF TypeOK, BuiltOnCapableWorker, WorkerCapabilitiesSatisfy, Holding,
       Heartbeating, Start, Goto
<1> QED BY <1>3, <1>4, <1>5, <1>6 DEF IInv

LEMMA DropUndecodablePreserves ==
    ASSUME IInv, NEW w \in Workers, DropUndecodable(w)
    PROVE  IInv'
<1> USE FleetAssumption, BoundAssumption DEF IInv
<1>1. QueueOK(queue)
  BY DEF TypeOK, QueueOK
<1>2. Evolves({})
  BY <1>1, UnchangedEvolves DEF DropUndecodable
<1>3. TypeOK'
  BY <1>2 DEF Evolves, QueueOK, TypeOK, Holding, Heartbeating, WorkerResults,
       DropUndecodable, Goto
<1>4. AckedPublishesSucceed => Handoff'
  BY <1>1, <1>2 DEF Evolves, QueueOK, TypeOK, Handoff, Handed, Holding, Heartbeating,
       DropUndecodable, Goto
<1>5. Reportable' /\ CompletedIsUploaded'
  BY DEF TypeOK, Reportable, CompletedIsUploaded, WorkerResults, Holding,
       Heartbeating, DropUndecodable, Goto
<1>6. BuiltOnCapableWorker'
  BY DEF TypeOK, BuiltOnCapableWorker, WorkerCapabilitiesSatisfy, Holding,
       Heartbeating, DropUndecodable, Goto
<1> QED BY <1>3, <1>4, <1>5, <1>6 DEF IInv

LEMMA AcceptPreserves ==
    ASSUME IInv, NEW w \in Workers, Accept(w)
    PROVE  IInv'
<1> USE FleetAssumption, BoundAssumption DEF IInv
<1>1. QueueOK(queue)
  BY DEF TypeOK, QueueOK
<1>2. Evolves({})
  BY <1>1, UnchangedEvolves DEF Accept
<1>3. TypeOK'
  BY <1>2 DEF Evolves, QueueOK, TypeOK, Holding, Heartbeating, WorkerResults, Accept,
       Goto
<1>4. AckedPublishesSucceed => Handoff'
  BY <1>1, <1>2 DEF Evolves, QueueOK, TypeOK, Handoff, Handed, Holding, Heartbeating,
       Accept, Goto
<1>5. Reportable' /\ CompletedIsUploaded'
  BY DEF TypeOK, Reportable, CompletedIsUploaded, WorkerResults, Holding,
       Heartbeating, Accept, Goto
<1>6. BuiltOnCapableWorker'
  BY DEF TypeOK, BuiltOnCapableWorker, WorkerCapabilitiesSatisfy, Holding,
       Heartbeating, Accept, Goto
<1> QED BY <1>3, <1>4, <1>5, <1>6 DEF IInv

LEMMA NakForRedeliveryPreserves ==
    ASSUME IInv, NEW w \in Workers, NakForRedelivery(w)
    PROVE  IInv'
<1> USE FleetAssumption, BoundAssumption DEF IInv
<1>1. QueueOK(queue)
  BY DEF TypeOK, QueueOK
<1>2. Evolves({})
  BY <1>1, UnchangedEvolves, RedeliverEvolves DEF TypeOK, Holding, NakForRedelivery
<1>3. TypeOK'
  <2>1. queue' \in [Jobs -> Seq(Message)]
    BY <1>2 DEF Evolves, QueueOK
  <2>2. held' \in [Workers -> [job : Jobs \cup {NoJob}, msg : Nat]]
    BY DEF TypeOK, NakForRedelivery, Release, Nothing
  <2>3. ASSUME NEW v \in Workers, wpc'[v] \in Holding
        PROVE  held'[v].job \in Jobs /\ held'[v].msg \in DOMAIN queue'[held'[v].job]
    <3>1. wpc[v] \in Holding /\ held'[v] = held[v]
      BY <2>3 DEF TypeOK, Holding, Heartbeating, NakForRedelivery, Goto, Release
    <3> QED BY <1>1, <1>2, <3>1 DEF TypeOK, QueueOK, Evolves
  <2>4. /\ wpc' \in [Workers -> {"down", "idle"} \cup Holding]
        /\ seen' \in [Workers -> 0 .. MaxDeliver]
        /\ outcome' \in [Workers -> WorkerResults \cup {"none"}]
        /\ retries' \in [Workers -> 0 .. MaxRetries]
    BY DEF TypeOK, NakForRedelivery, Goto, Release
  <2> QED BY <2>1, <2>2, <2>3, <2>4 DEF TypeOK, NakForRedelivery
<1>4. ASSUME AckedPublishesSucceed
      PROVE  Handoff'
  <2>1. Monotone
    BY DEF NakForRedelivery, Monotone
  <2>2. Handoff /\ TypeOK
    BY <1>4
  <2>3. ASSUME NEW v \in Workers, wpc'[v] = "ack"
        PROVE  Handed(held[v].job, held[v].msg)'
    <3>1. wpc[v] = "ack" /\ held'[v] = held[v]
      BY <2>3 DEF NakForRedelivery, Goto, Release, TypeOK
    <3> QED BY <1>1, <1>2, <2>1, <2>2, <3>1, OthersKept
  <2> QED BY <1>1, <1>2, <2>1, <2>2, <2>3, HandoffKept
<1>5. Reportable' /\ CompletedIsUploaded'
  BY DEF TypeOK, Reportable, CompletedIsUploaded, WorkerResults, Holding,
       Heartbeating, NakForRedelivery, Goto, Release, Nothing
<1>6. BuiltOnCapableWorker'
  BY DEF TypeOK, BuiltOnCapableWorker, WorkerCapabilitiesSatisfy, Holding,
       Heartbeating, NakForRedelivery, Goto, Release, Nothing
<1> QED BY <1>3, <1>4, <1>5, <1>6 DEF IInv

LEMMA RejectLastDeliveryPreserves ==
    ASSUME IInv, NEW w \in Workers, RejectLastDelivery(w)
    PROVE  IInv'
<1> USE FleetAssumption, BoundAssumption DEF IInv
<1>1. QueueOK(queue)
  BY DEF TypeOK, QueueOK
<1>2. Evolves({})
  BY <1>1, UnchangedEvolves DEF RejectLastDelivery
<1>3. TypeOK'
  BY <1>2 DEF Evolves, QueueOK, TypeOK, Holding, Heartbeating, WorkerResults,
       RejectLastDelivery, Goto, Fail
<1>4. AckedPublishesSucceed => Handoff'
  BY <1>1, <1>2 DEF Evolves, QueueOK, TypeOK, Handoff, Handed, Holding, Heartbeating,
       RejectLastDelivery, Goto, Fail
<1>5. Reportable' /\ CompletedIsUploaded'
  BY DEF TypeOK, Reportable, CompletedIsUploaded, WorkerResults, Holding,
       Heartbeating, RejectLastDelivery, Goto, Fail
<1>6. BuiltOnCapableWorker'
  BY DEF TypeOK, BuiltOnCapableWorker, WorkerCapabilitiesSatisfy, Holding,
       Heartbeating, RejectLastDelivery, Goto, Fail
<1> QED BY <1>3, <1>4, <1>5, <1>6 DEF IInv

LEMMA BootPreserves ==
    ASSUME IInv, NEW w \in Workers, Boot(w)
    PROVE  IInv'
<1> USE FleetAssumption, BoundAssumption DEF IInv
<1>1. QueueOK(queue)
  BY DEF TypeOK, QueueOK
<1>2. Evolves({})
  BY <1>1, UnchangedEvolves DEF Boot
<1>3. TypeOK'
  BY <1>2, ZenonT(40) DEF Evolves, QueueOK, TypeOK, Holding, Heartbeating, WorkerResults, Boot,
       Goto, Fail
<1>4. AckedPublishesSucceed => Handoff'
  BY <1>1, <1>2 DEF Evolves, QueueOK, TypeOK, Handoff, Handed, Holding, Heartbeating,
       Boot, Goto, Fail
<1>5. Reportable' /\ CompletedIsUploaded'
  BY DEF TypeOK, Reportable, CompletedIsUploaded, WorkerResults, Holding,
       Heartbeating, Boot, Goto, Fail
<1>6. BuiltOnCapableWorker'
  BY ZenonT(40) DEF TypeOK, BuiltOnCapableWorker, WorkerCapabilitiesSatisfy, Holding,
       Heartbeating, Boot, Goto, Fail
<1> QED BY <1>3, <1>4, <1>5, <1>6 DEF IInv

LEMMA FetchInputsPreserves ==
    ASSUME IInv, NEW w \in Workers, FetchInputs(w)
    PROVE  IInv'
<1> USE FleetAssumption, BoundAssumption DEF IInv
<1>1. QueueOK(queue)
  BY DEF TypeOK, QueueOK
<1>2. Evolves({})
  BY <1>1, UnchangedEvolves DEF FetchInputs
<1>3. TypeOK'
  BY <1>2, ZenonT(40) DEF Evolves, QueueOK, TypeOK, Holding, Heartbeating, WorkerResults,
       FetchInputs, Goto, Fail
<1>4. AckedPublishesSucceed => Handoff'
  BY <1>1, <1>2 DEF Evolves, QueueOK, TypeOK, Handoff, Handed, Holding, Heartbeating,
       FetchInputs, Goto, Fail
<1>5. Reportable' /\ CompletedIsUploaded'
  BY DEF TypeOK, Reportable, CompletedIsUploaded, WorkerResults, Holding,
       Heartbeating, FetchInputs, Goto, Fail
<1>6. BuiltOnCapableWorker'
  BY DEF TypeOK, BuiltOnCapableWorker, WorkerCapabilitiesSatisfy, Holding,
       Heartbeating, FetchInputs, Goto, Fail
<1> QED BY <1>3, <1>4, <1>5, <1>6 DEF IInv

LEMMA RunBuildPreserves ==
    ASSUME IInv, NEW w \in Workers, RunBuild(w)
    PROVE  IInv'
<1> USE FleetAssumption, BoundAssumption DEF IInv
<1>1. QueueOK(queue)
  BY DEF TypeOK, QueueOK
<1>2. Evolves({})
  BY <1>1, UnchangedEvolves DEF RunBuild
<1>3. TypeOK'
  BY <1>2 DEF Evolves, QueueOK, TypeOK, Holding, Heartbeating, WorkerResults,
       RunBuild, Goto, Fail
<1>4. AckedPublishesSucceed => Handoff'
  BY <1>1, <1>2 DEF Evolves, QueueOK, TypeOK, Handoff, Handed, Holding, Heartbeating,
       RunBuild, Goto, Fail
<1>5. Reportable' /\ CompletedIsUploaded'
  BY DEF TypeOK, Reportable, CompletedIsUploaded, WorkerResults, Holding,
       Heartbeating, RunBuild, Goto, Fail
<1>6. BuiltOnCapableWorker'
  BY DEF TypeOK, BuiltOnCapableWorker, WorkerCapabilitiesSatisfy, Holding,
       Heartbeating, RunBuild, Goto, Fail
<1> QED BY <1>3, <1>4, <1>5, <1>6 DEF IInv

LEMMA RetryPreserves ==
    ASSUME IInv, NEW w \in Workers, Retry(w)
    PROVE  IInv'
<1> USE FleetAssumption, BoundAssumption DEF IInv
<1>1. QueueOK(queue)
  BY DEF TypeOK, QueueOK
<1>2. Evolves({})
  BY <1>1, UnchangedEvolves DEF Retry
<1>3. TypeOK'
  BY <1>2 DEF Evolves, QueueOK, TypeOK, Holding, Heartbeating, WorkerResults, Retry,
       Goto
<1>4. AckedPublishesSucceed => Handoff'
  BY <1>1, <1>2 DEF Evolves, QueueOK, TypeOK, Handoff, Handed, Holding, Heartbeating,
       Retry, Goto
<1>5. Reportable' /\ CompletedIsUploaded'
  BY DEF TypeOK, Reportable, CompletedIsUploaded, WorkerResults, Holding,
       Heartbeating, Retry, Goto
<1>6. BuiltOnCapableWorker'
  BY DEF TypeOK, BuiltOnCapableWorker, WorkerCapabilitiesSatisfy, Holding,
       Heartbeating, Retry, Goto
<1> QED BY <1>3, <1>4, <1>5, <1>6 DEF IInv

LEMMA DecideEscalationPreserves ==
    ASSUME IInv, NEW w \in Workers, DecideEscalation(w)
    PROVE  IInv'
<1> USE FleetAssumption, BoundAssumption DEF IInv
<1>1. QueueOK(queue)
  BY DEF TypeOK, QueueOK
<1>2. Evolves({})
  BY <1>1, UnchangedEvolves DEF DecideEscalation
<1>3. TypeOK'
  BY <1>2 DEF Evolves, QueueOK, TypeOK, Holding, Heartbeating, WorkerResults,
       DecideEscalation, Goto
<1>4. AckedPublishesSucceed => Handoff'
  BY <1>1, <1>2 DEF Evolves, QueueOK, TypeOK, Handoff, Handed, Holding, Heartbeating,
       DecideEscalation, Goto
<1>5. Reportable' /\ CompletedIsUploaded'
  BY DEF TypeOK, Reportable, CompletedIsUploaded, WorkerResults, Holding,
       Heartbeating, DecideEscalation, Goto
<1>6. BuiltOnCapableWorker'
  BY DEF TypeOK, BuiltOnCapableWorker, WorkerCapabilitiesSatisfy, Holding,
       Heartbeating, DecideEscalation, Goto
<1> QED BY <1>3, <1>4, <1>5, <1>6 DEF IInv

LEMMA RebootPreserves ==
    ASSUME IInv, NEW w \in Workers, Reboot(w)
    PROVE  IInv'
<1> USE FleetAssumption, BoundAssumption DEF IInv
<1>1. QueueOK(queue)
  BY DEF TypeOK, QueueOK
<1>2. Evolves({})
  BY <1>1, UnchangedEvolves DEF Reboot
<1>3. TypeOK'
  BY <1>2, ZenonT(40) DEF Evolves, QueueOK, TypeOK, Holding, Heartbeating, WorkerResults, Reboot,
       Goto, Fail
<1>4. AckedPublishesSucceed => Handoff'
  BY <1>1, <1>2 DEF Evolves, QueueOK, TypeOK, Handoff, Handed, Holding, Heartbeating,
       Reboot, Goto, Fail
<1>5. Reportable' /\ CompletedIsUploaded'
  BY DEF TypeOK, Reportable, CompletedIsUploaded, WorkerResults, Holding,
       Heartbeating, Reboot, Goto, Fail
<1>6. BuiltOnCapableWorker'
  BY DEF TypeOK, BuiltOnCapableWorker, WorkerCapabilitiesSatisfy, Holding,
       Heartbeating, Reboot, Goto, Fail
<1> QED BY <1>3, <1>4, <1>5, <1>6 DEF IInv

LEMMA UploadArtifactsPreserves ==
    ASSUME IInv, NEW w \in Workers, UploadArtifacts(w)
    PROVE  IInv'
<1> USE FleetAssumption, BoundAssumption DEF IInv
<1>1. QueueOK(queue)
  BY DEF TypeOK, QueueOK
<1>2. Evolves({})
  BY <1>1, UnchangedEvolves DEF UploadArtifacts
<1>3. TypeOK'
  BY <1>2, ZenonT(40) DEF Evolves, QueueOK, TypeOK, Holding, Heartbeating, WorkerResults,
       UploadArtifacts, Goto, Fail
<1>4. AckedPublishesSucceed => Handoff'
  BY <1>1, <1>2 DEF Evolves, QueueOK, TypeOK, Handoff, Handed, Holding, Heartbeating,
       UploadArtifacts, Goto, Fail
<1>5. Reportable' /\ CompletedIsUploaded'
  BY DEF TypeOK, Reportable, CompletedIsUploaded, WorkerResults, Holding,
       Heartbeating, UploadArtifacts, Goto, Fail
<1>6. BuiltOnCapableWorker'
  BY DEF TypeOK, BuiltOnCapableWorker, WorkerCapabilitiesSatisfy, Holding,
       Heartbeating, UploadArtifacts, Goto, Fail
<1> QED BY <1>3, <1>4, <1>5, <1>6 DEF IInv

LEMMA PublishResultPreserves ==
    ASSUME IInv, NEW w \in Workers, PublishResult(w)
    PROVE  IInv'
<1> USE FleetAssumption, BoundAssumption DEF IInv
<1>1. QueueOK(queue)
  BY DEF TypeOK, QueueOK
<1>2. Evolves({})
  BY <1>1, UnchangedEvolves DEF PublishResult
<1>3. /\ published' \in [Jobs -> Seq(WorkerResults)]
       /\ published'[held[w].job] # <<>>
       /\ Monotone
       /\ \A j \in Jobs : \A i \in DOMAIN published'[j] :
             \/ i \in DOMAIN published[j] /\ published'[j][i] = published[j][i]
             \/ j = held[w].job /\ published'[j][i] = outcome[w]
  <2>1. held[w].job \in Jobs /\ outcome[w] # "none" /\ Publish(w) /\ TypeOK
    BY DEF PublishResult, TypeOK, Holding, Reportable
  <2> QED BY <2>1, PublishFacts
<1>4. TypeOK'
  BY <1>2, <1>3 DEF Evolves, QueueOK, TypeOK, Holding, Heartbeating, PublishResult, Goto
<1>5. ASSUME AckedPublishesSucceed
      PROVE  Handoff'
  <2>1. Monotone
    BY <1>3
  <2>2. Handoff /\ TypeOK
    BY <1>5
  <2>3. ASSUME NEW v \in Workers, wpc'[v] = "ack"
        PROVE  Handed(held[v].job, held[v].msg)'
    <3>1. CASE v = w
      BY <1>3, <3>1 DEF Handed, PublishResult
    <3>2. CASE v # w
      <4>1. wpc[v] = "ack" /\ held'[v] = held[v]
        BY <2>3, <3>2 DEF PublishResult, Goto, TypeOK
      <4> QED BY <1>1, <1>2, <2>1, <2>2, <4>1, OthersKept
    <3> QED BY <3>1, <3>2
  <2> QED BY <1>1, <1>2, <2>1, <2>2, <2>3, HandoffKept
<1>6. Reportable' /\ CompletedIsUploaded'
  <2>1. Reportable'
    BY DEF TypeOK, Reportable, PublishResult, Goto
  <2>2. CompletedIsUploaded'
    BY <1>3 DEF Reportable, CompletedIsUploaded, PublishResult
  <2> QED BY <2>1, <2>2
<1>7. BuiltOnCapableWorker'
  BY DEF TypeOK, BuiltOnCapableWorker, WorkerCapabilitiesSatisfy, Holding,
       Heartbeating, PublishResult, Goto, Publish
<1> QED BY <1>4, <1>5, <1>6, <1>7 DEF IInv

LEMMA PublishResultFailsPreserves ==
    ASSUME IInv, NEW w \in Workers, PublishResultFails(w)
    PROVE  IInv'
<1> USE FleetAssumption, BoundAssumption DEF IInv
<1>1. QueueOK(queue)
  BY DEF TypeOK, QueueOK
<1>2. Evolves({})
  BY <1>1, UnchangedEvolves DEF PublishResultFails
<1>3. /\ published' \in [Jobs -> Seq(WorkerResults)]
       /\ Monotone
       /\ \A j \in Jobs : \A i \in DOMAIN published'[j] :
             \/ i \in DOMAIN published[j] /\ published'[j][i] = published[j][i]
             \/ j = held[w].job /\ published'[j][i] = outcome[w]
  <2>1. held[w].job \in Jobs /\ outcome[w] # "none" /\ TypeOK
    BY DEF PublishResultFails, TypeOK, Holding, Reportable
  <2>2. CASE Publish(w)
    BY <2>1, <2>2, PublishFacts
  <2>3. CASE UNCHANGED published
    BY <2>1, <2>3 DEF TypeOK, Monotone
  <2> QED BY <2>2, <2>3 DEF PublishResultFails
<1>4. TypeOK'
  BY <1>2, <1>3 DEF Evolves, QueueOK, TypeOK, Holding, Heartbeating,
       PublishResultFails, Goto, Release, Nothing
<1>5. ASSUME AckedPublishesSucceed
      PROVE  Handoff'
  <2>1. Monotone
    BY <1>3
  <2>2. Handoff /\ TypeOK
    BY <1>5
  <2>3. ASSUME NEW v \in Workers, wpc'[v] = "ack"
        PROVE  Handed(held[v].job, held[v].msg)'
    <3>1. wpc[v] = "ack" /\ held'[v] = held[v]
      BY <2>3 DEF PublishResultFails, Goto, Release, TypeOK
    <3> QED BY <1>1, <1>2, <2>1, <2>2, <3>1, OthersKept
  <2> QED BY <1>1, <1>2, <2>1, <2>2, <2>3, HandoffKept
<1>6. Reportable' /\ CompletedIsUploaded'
  <2>1. Reportable'
    BY DEF TypeOK, Reportable, PublishResultFails, Goto, Release
  <2>2. CompletedIsUploaded'
    BY <1>3 DEF Reportable, CompletedIsUploaded, PublishResultFails
  <2> QED BY <2>1, <2>2
<1>7. BuiltOnCapableWorker'
  BY DEF TypeOK, BuiltOnCapableWorker, WorkerCapabilitiesSatisfy, Holding,
       Heartbeating, PublishResultFails, Goto, Release, Publish, Nothing
<1> QED BY <1>4, <1>5, <1>6, <1>7 DEF IInv

LEMMA PublishEarlyPreserves ==
    ASSUME IInv, NEW w \in Workers, PublishEarly(w)
    PROVE  IInv'
<1> USE FleetAssumption, BoundAssumption DEF IInv
<1>1. QueueOK(queue)
  BY DEF TypeOK, QueueOK
<1>2. Evolves({})
  BY <1>1, UnchangedEvolves DEF PublishEarly
<1>3. /\ published' \in [Jobs -> Seq(WorkerResults)]
       /\ Monotone
       /\ \A j \in Jobs : \A i \in DOMAIN published'[j] :
             \/ i \in DOMAIN published[j] /\ published'[j][i] = published[j][i]
             \/ j = held[w].job /\ published'[j][i] = outcome[w]
  <2>1. held[w].job \in Jobs /\ outcome[w] # "none" /\ TypeOK
    BY DEF PublishEarly, TypeOK, Holding, Reportable
  <2>2. CASE Publish(w)
    BY <2>1, <2>2, PublishFacts
  <2>3. CASE UNCHANGED published
    BY <2>1, <2>3 DEF TypeOK, Monotone
  <2> QED BY <2>2, <2>3 DEF PublishEarly
<1>4. TypeOK'
  BY <1>2, <1>3 DEF Evolves, QueueOK, TypeOK, Holding, Heartbeating, PublishEarly, Goto
<1>5. ASSUME AckedPublishesSucceed
      PROVE  Handoff'
  <2>1. Monotone
    BY <1>3
  <2>2. Handoff /\ TypeOK
    BY <1>5
  <2>3. ASSUME NEW v \in Workers, wpc'[v] = "ack"
        PROVE  Handed(held[v].job, held[v].msg)'
    <3>1. CASE v = w
      <4>1. Publish(w)
        BY <1>5 DEF PublishEarly, AckedPublishesSucceed
      <4>2. published'[held[w].job] # <<>>
        BY <4>1, PublishFacts DEF PublishEarly, TypeOK, Holding, Reportable
      <4> QED BY <3>1, <4>2 DEF Handed, PublishEarly
    <3>2. CASE v # w
      <4>1. wpc[v] = "ack" /\ held'[v] = held[v]
        BY <2>3, <3>2 DEF PublishEarly, Goto, TypeOK
      <4> QED BY <1>1, <1>2, <2>1, <2>2, <4>1, OthersKept
    <3> QED BY <3>1, <3>2
  <2> QED BY <1>1, <1>2, <2>1, <2>2, <2>3, HandoffKept
<1>6. Reportable' /\ CompletedIsUploaded'
  <2>1. Reportable'
    BY DEF TypeOK, Reportable, PublishEarly, Goto
  <2>2. CompletedIsUploaded'
    BY <1>3 DEF Reportable, CompletedIsUploaded, PublishEarly
  <2> QED BY <2>1, <2>2
<1>7. BuiltOnCapableWorker'
  BY DEF TypeOK, BuiltOnCapableWorker, WorkerCapabilitiesSatisfy, Holding,
       Heartbeating, PublishEarly, Goto, Publish
<1> QED BY <1>4, <1>5, <1>6, <1>7 DEF IInv

LEMMA EscalateOomPreserves ==
    ASSUME IInv, NEW w \in Workers, EscalateOom(w)
    PROVE  IInv'
<1> USE FleetAssumption, BoundAssumption DEF IInv
<1>1. QueueOK(queue)
  BY DEF TypeOK, QueueOK
<1>2. Evolves({}) /\ (AckedPublishesSucceed => held[w].msg < Len(queue'[held[w].job]))
  <2>1. held[w].job \in Jobs /\ held[w].msg \in DOMAIN queue[held[w].job]
    BY DEF TypeOK, Holding, EscalateOom
  <2>2. "big-parallel" \in Subjects
    BY DEF Subjects, Features
  <2>3. CASE queue' = [queue EXCEPT ![held[w].job] =
                           Append(queue[held[w].job], NewMessage("big-parallel"))]
    <3>1. Evolves({}) /\ Len(queue[held[w].job]) < Len(queue'[held[w].job])
      BY <1>1, <2>1, <2>2, <2>3, AppendEvolves
    <3>2. held[w].msg \in Nat /\ held[w].msg <= Len(queue[held[w].job])
          /\ Len(queue[held[w].job]) \in Nat /\ Len(queue'[held[w].job]) \in Nat
      BY <1>1, <2>1, <3>1 DEF QueueOK, Evolves
    <3> QED BY <3>1, <3>2
  <2>4. CASE "escalate" \in FailingPublishes /\ UNCHANGED queue
    BY <1>1, <2>4, UnchangedEvolves DEF AckedPublishesSucceed
  <2> QED BY <1>1, <2>1, <2>3, <2>4 DEF EscalateOom, QueueOK
<1>3. TypeOK'
  BY <1>2 DEF Evolves, QueueOK, TypeOK, Holding, Heartbeating, WorkerResults,
       EscalateOom, Goto
<1>4. ASSUME AckedPublishesSucceed
      PROVE  Handoff'
  <2>1. Monotone
    BY DEF EscalateOom, Monotone
  <2>2. Handoff /\ TypeOK
    BY <1>4
  <2>3. ASSUME NEW v \in Workers, wpc'[v] = "ack"
        PROVE  Handed(held[v].job, held[v].msg)'
    <3>1. CASE v = w
      BY <1>2, <1>4, <3>1 DEF Handed, EscalateOom
    <3>2. CASE v # w
      <4>1. wpc[v] = "ack" /\ held'[v] = held[v]
        BY <2>3, <3>2 DEF EscalateOom, Goto, TypeOK
      <4> QED BY <1>1, <1>2, <2>1, <2>2, <4>1, OthersKept
    <3> QED BY <3>1, <3>2
  <2> QED BY <1>1, <1>2, <2>1, <2>2, <2>3, HandoffKept
<1>5. Reportable' /\ CompletedIsUploaded'
  BY DEF TypeOK, Reportable, CompletedIsUploaded, WorkerResults, Holding,
       Heartbeating, EscalateOom, Goto
<1>6. BuiltOnCapableWorker'
  BY DEF TypeOK, BuiltOnCapableWorker, WorkerCapabilitiesSatisfy, Holding,
       Heartbeating, EscalateOom, Goto
<1> QED BY <1>3, <1>4, <1>5, <1>6 DEF IInv

LEMMA AckPreserves ==
    ASSUME IInv, NEW w \in Workers, Ack(w)
    PROVE  IInv'
<1> USE FleetAssumption, BoundAssumption DEF IInv
<1>1. QueueOK(queue)
  BY DEF TypeOK, QueueOK
<1>2. Evolves({<<held[w].job, held[w].msg>>})
  <2>1. held[w].job \in Jobs /\ held[w].msg \in DOMAIN queue[held[w].job]
    BY DEF TypeOK, Holding, Ack
  <2>2. CASE SetState(held[w].job, held[w].msg, "acked")
    BY <1>1, <2>1, <2>2, SetStateEvolves
  <2>3. CASE UNCHANGED queue
    BY <1>1, <2>3, UnchangedEvolves DEF Evolves
  <2> QED BY <2>2, <2>3 DEF Ack
<1>3. TypeOK'
  BY <1>2, SMTT(30) DEF Evolves, QueueOK, TypeOK, Holding, Heartbeating, WorkerResults, Ack,
       Goto, Release, Nothing
<1>4. ASSUME AckedPublishesSucceed
      PROVE  Handoff'
  <2>1. Monotone
    BY DEF Ack, Monotone
  <2>2. Handoff /\ TypeOK
    BY <1>4
  <2>3. ASSUME NEW v \in Workers, wpc'[v] = "ack"
        PROVE  Handed(held[v].job, held[v].msg)'
    <3>1. wpc[v] = "ack" /\ held'[v] = held[v]
      BY <2>3 DEF Ack, Goto, Release, TypeOK
    <3> QED BY <1>1, <1>2, <2>1, <2>2, <3>1, OthersKept
  <2>4. Handed(held[w].job, held[w].msg)
    BY <2>2 DEF Ack, Handoff
  <2> QED BY <1>1, <1>2, <2>1, <2>2, <2>3, <2>4, HandoffKept
<1>5. Reportable' /\ CompletedIsUploaded'
  BY DEF TypeOK, Reportable, CompletedIsUploaded, WorkerResults, Holding,
       Heartbeating, Ack, Goto, Release, Nothing
<1>6. BuiltOnCapableWorker'
  BY DEF TypeOK, BuiltOnCapableWorker, WorkerCapabilitiesSatisfy, Holding,
       Heartbeating, Ack, Goto, Release, Nothing
<1> QED BY <1>3, <1>4, <1>5, <1>6 DEF IInv

LEMMA CrashPreserves ==
    ASSUME IInv, NEW w \in Workers, Crash(w)
    PROVE  IInv'
<1> USE FleetAssumption, BoundAssumption DEF IInv
<1>1. QueueOK(queue)
  BY DEF TypeOK, QueueOK
<1>2. Evolves({})
  BY <1>1, UnchangedEvolves DEF Crash
<1>3. TypeOK'
  BY <1>2 DEF Evolves, QueueOK, TypeOK, Holding, Heartbeating, WorkerResults, Crash,
       Goto, Release, Nothing
<1>4. AckedPublishesSucceed => Handoff'
  BY <1>1, <1>2 DEF Evolves, QueueOK, TypeOK, Handoff, Handed, Holding, Heartbeating,
       Crash, Goto, Release, Nothing
<1>5. Reportable' /\ CompletedIsUploaded'
  BY DEF TypeOK, Reportable, CompletedIsUploaded, WorkerResults, Holding,
       Heartbeating, Crash, Goto, Release, Nothing
<1>6. BuiltOnCapableWorker'
  BY DEF TypeOK, BuiltOnCapableWorker, WorkerCapabilitiesSatisfy, Holding,
       Heartbeating, Crash, Goto, Release, Nothing
<1> QED BY <1>3, <1>4, <1>5, <1>6 DEF IInv

LEMMA EnqueuePreserves ==
    ASSUME IInv, NEW j \in Jobs, Enqueue(j)
    PROVE  IInv'
<1> USE FleetAssumption, BoundAssumption DEF IInv
<1>1. QueueOK(queue)
  BY DEF TypeOK, QueueOK
<1>2. Evolves({})
  <2>1. queue' = [queue EXCEPT ![j] = Append(queue[j], NewMessage(JobsSubject(j)))]
    BY <1>1 DEF Enqueue, QueueOK
  <2>2. JobsSubject(j) \in Subjects
    BY DEF JobsSubject, Subjects, Features
  <2> QED BY <1>1, <2>1, <2>2, AppendEvolves
<1>3. TypeOK'
  BY <1>2 DEF Evolves, QueueOK, TypeOK, Holding, Heartbeating, WorkerResults,
       Enqueue, workerVars
<1>4. AckedPublishesSucceed => Handoff'
  BY <1>1, <1>2 DEF Evolves, QueueOK, TypeOK, Handoff, Handed, Holding, Heartbeating,
       Enqueue, workerVars
<1>5. Reportable' /\ CompletedIsUploaded'
  BY DEF TypeOK, Reportable, CompletedIsUploaded, WorkerResults, Holding,
       Heartbeating, Enqueue, workerVars
<1>6. BuiltOnCapableWorker'
  BY DEF TypeOK, BuiltOnCapableWorker, WorkerCapabilitiesSatisfy, Holding,
       Heartbeating, Enqueue, workerVars
<1> QED BY <1>3, <1>4, <1>5, <1>6 DEF IInv

LEMMA AckWaitExpiresPreserves ==
    ASSUME IInv, NEW j \in Jobs, NEW i \in DOMAIN queue[j], AckWaitExpires(j, i)
    PROVE  IInv'
<1> USE FleetAssumption, BoundAssumption DEF IInv
<1>1. QueueOK(queue)
  BY DEF TypeOK, QueueOK
<1>2. Evolves({})
  BY <1>1, RedeliverEvolves DEF AckWaitExpires
<1>3. TypeOK'
  BY <1>2 DEF Evolves, QueueOK, TypeOK, Holding, Heartbeating, WorkerResults,
       AckWaitExpires, workerVars
<1>4. ASSUME AckedPublishesSucceed
      PROVE  Handoff'
  <2>1. Monotone
    BY DEF AckWaitExpires, Monotone
  <2>2. Handoff /\ TypeOK
    BY <1>4
  <2>3. ASSUME NEW v \in Workers, wpc'[v] = "ack"
        PROVE  Handed(held[v].job, held[v].msg)'
    <3>1. wpc[v] = "ack" /\ held'[v] = held[v]
      BY <2>3 DEF AckWaitExpires, workerVars, TypeOK
    <3> QED BY <1>1, <1>2, <2>1, <2>2, <3>1, OthersKept
  <2> QED BY <1>1, <1>2, <2>1, <2>2, <2>3, HandoffKept
<1>5. Reportable' /\ CompletedIsUploaded'
  BY DEF TypeOK, Reportable, CompletedIsUploaded, WorkerResults, Holding,
       Heartbeating, AckWaitExpires, workerVars
<1>6. BuiltOnCapableWorker'
  BY DEF TypeOK, BuiltOnCapableWorker, WorkerCapabilitiesSatisfy, Holding,
       Heartbeating, AckWaitExpires, workerVars
<1> QED BY <1>3, <1>4, <1>5, <1>6 DEF IInv

LEMMA PullPreserves ==
    ASSUME IInv, NEW w \in Workers, NEW j \in Jobs, NEW i \in DOMAIN queue[j],
         Pull(w, j, i)
    PROVE  IInv'
<1> USE FleetAssumption, BoundAssumption DEF IInv
<1>1. QueueOK(queue)
  BY DEF TypeOK, QueueOK
<1>2. Evolves({})
  <2> DEFINE x == [queue[j][i] EXCEPT !.state = "pending", !.delivered = @ + 1]
  <2>1. queue[j] \in Seq(Message) /\ queue[j][i] \in Message
    BY <1>1 DEF QueueOK
  <2>2. x \in Message /\ x.state = "pending"
    <3>1. queue[j][i].delivered \in 0 .. MaxDeliver /\ queue[j][i].delivered < MaxDeliver
      BY <2>1 DEF Pull, Message
    <3>2. queue[j][i].delivered + 1 \in 0 .. MaxDeliver
      BY <3>1
    <3> QED BY <2>1, <3>2 DEF Message
  <2>3. queue' = [queue EXCEPT ![j] = [queue[j] EXCEPT ![i] = x]]
    BY <1>1 DEF Pull, QueueOK
  <2> HIDE DEF x
  <2> QED BY <1>1, <2>2, <2>3, ReplaceEvolves
<1>3. TypeOK'
  <2>0. queue[j][i] \in Message
    BY <1>1 DEF QueueOK
  <2>1. queue[j][i].delivered + 1 \in 0 .. MaxDeliver
    <3>1. queue[j][i].delivered \in 0 .. MaxDeliver /\ queue[j][i].delivered < MaxDeliver
      BY <2>0 DEF Pull, Message
    <3> QED BY <3>1
  <2>2. seen' \in [Workers -> 0 .. MaxDeliver] /\ i \in Nat
    BY <1>1, <2>1 DEF Pull, TypeOK, QueueOK
  <2>3. held' \in [Workers -> [job : Jobs \cup {NoJob}, msg : Nat]]
    BY <2>2 DEF Pull, TypeOK
  <2>4. wpc' \in [Workers -> {"down", "idle"} \cup Holding]
    BY DEF Pull, Goto, TypeOK, Holding
  <2>5. ASSUME NEW v \in Workers, wpc'[v] \in Holding
        PROVE  held'[v].job \in Jobs /\ held'[v].msg \in DOMAIN queue'[held'[v].job]
    <3>1. \A k \in Jobs : DOMAIN queue[k] \subseteq DOMAIN queue'[k]
      BY <1>1, <1>2 DEF Evolves, QueueOK
    <3>2. CASE v = w
      BY <3>1, <3>2 DEF Pull, TypeOK
    <3>3. CASE v # w
      <4>1. wpc[v] \in Holding /\ held'[v] = held[v]
        BY <2>5, <3>3 DEF Pull, Goto, TypeOK
      <4> QED BY <3>1, <4>1 DEF TypeOK
    <3> QED BY <3>2, <3>3
  <2> QED BY <1>2, <2>2, <2>3, <2>4, <2>5 DEF Evolves, QueueOK, TypeOK, Pull
<1>4. ASSUME AckedPublishesSucceed
      PROVE  Handoff'
  <2>1. Monotone
    BY DEF Pull, Monotone
  <2>2. Handoff /\ TypeOK
    BY <1>4
  <2>3. ASSUME NEW v \in Workers, wpc'[v] = "ack"
        PROVE  Handed(held[v].job, held[v].msg)'
    <3>1. wpc[v] = "ack" /\ held'[v] = held[v]
      BY <2>3 DEF Pull, Goto, TypeOK
    <3> QED BY <1>1, <1>2, <2>1, <2>2, <3>1, OthersKept
  <2> QED BY <1>1, <1>2, <2>1, <2>2, <2>3, HandoffKept
<1>5. Reportable' /\ CompletedIsUploaded'
  BY DEF TypeOK, Reportable, CompletedIsUploaded, WorkerResults, Holding,
       Heartbeating, Pull, Goto, Message
<1>6. BuiltOnCapableWorker'
  BY DEF TypeOK, BuiltOnCapableWorker, WorkerCapabilitiesSatisfy, Holding,
       Heartbeating, Pull, Goto, Message
<1> QED BY <1>3, <1>4, <1>5, <1>6 DEF IInv

-----------------------------------------------------------------------------
LEMMA InitIInv == Init => IInv
<1> SUFFICES ASSUME Init PROVE IInv
  OBVIOUS
<1> USE FleetAssumption, BoundAssumption DEF Init
<1>1. TypeOK
  <2>1. queue \in [Jobs -> Seq(Message)] /\ published \in [Jobs -> Seq(WorkerResults)]
    OBVIOUS
  <2> QED BY <2>1 DEF TypeOK, Nothing, Holding, Heartbeating
<1>2. Handoff
  BY DEF Handoff
<1>3. Reportable /\ CompletedIsUploaded /\ BuiltOnCapableWorker
  BY DEF Reportable, CompletedIsUploaded, BuiltOnCapableWorker, Holding, Heartbeating
<1> QED BY <1>1, <1>2, <1>3 DEF IInv

LEMMA StutterPreserves == IInv /\ UNCHANGED vars => IInv'
BY DEF IInv, vars, TypeOK, Handoff, Handed, Reportable, CompletedIsUploaded,
       BuiltOnCapableWorker

LEMMA NextIInv == IInv /\ [Next]_vars => IInv'
<1> SUFFICES ASSUME IInv, [Next]_vars PROVE IInv'
  OBVIOUS
<1>1. CASE \E j \in Jobs : Enqueue(j)
  BY <1>1, EnqueuePreserves
<1>2. ASSUME NEW w \in Workers, WorkerStep(w)
      PROVE  IInv'
  BY <1>2, DropUndecodablePreserves, AcceptPreserves, NakForRedeliveryPreserves,
     RejectLastDeliveryPreserves, BootPreserves, FetchInputsPreserves,
     RunBuildPreserves, RetryPreserves, DecideEscalationPreserves,
     RebootPreserves, UploadArtifactsPreserves, PublishResultPreserves,
     PublishResultFailsPreserves, PublishEarlyPreserves,
     EscalateOomPreserves, AckPreserves DEF WorkerStep
<1>3. ASSUME NEW w \in Workers, Start(w) \/ PullAny(w) \/ Crash(w)
      PROVE  IInv'
  BY <1>3, StartPreserves, PullPreserves, CrashPreserves DEF PullAny
<1>4. CASE Expiry
  BY <1>4, AckWaitExpiresPreserves DEF Expiry
<1>5. CASE UNCHANGED vars
  BY <1>5, StutterPreserves
<1> QED BY <1>1, <1>2, <1>3, <1>4, <1>5 DEF Next

(* The inductive invariant holds of every behaviour of queue and workers.  *)
THEOREM Invariance == Spec => []IInv
BY InitIInv, NextIInv, PTL DEF Spec

(* Every variable keeps its type: no message is delivered more often than  *)
(* max_deliver or rebuilt more often than the retry loop allows, and a     *)
(* worker always holds a message that exists.                              *)
THEOREM TypeCorrect == Spec => []TypeOK
<1>1. IInv => TypeOK BY DEF IInv
<1> QED BY Invariance, <1>1, PTL

(* As long as the publishes of the exits that ack anyway succeed, no job   *)
(* is lost, whatever fleet serves it and however its messages are          *)
(* redelivered, escalated, acked late, dropped by dying workers or left    *)
(* unacked by a publish that failed.                                       *)
THEOREM NoJobLostHolds ==
    ASSUME AckedPublishesSucceed
    PROVE  Spec => []NoJobLost
<1>1. ASSUME IInv PROVE NoJobLost
  <2> SUFFICES ASSUME NEW j \in Jobs \ Undecodable, queue[j] # <<>>,
                      published[j] = <<>>,
                      \A i \in DOMAIN queue[j] : queue[j][i].state = "acked"
               PROVE  FALSE
    BY DEF NoJobLost
  <2>1. queue[j] \in Seq(Message) /\ Len(queue[j]) \in DOMAIN queue[j] /\ Len(queue[j]) \in Nat
    BY <1>1 DEF IInv, TypeOK
  <2>2. Handed(j, Len(queue[j]))
    BY <1>1, <2>1 DEF IInv, Handoff
  <2> QED BY <2>1, <2>2 DEF Handed
<1> QED BY Invariance, <1>1, PTL

(* A completed result is only ever published with its artifacts stored.    *)
THEOREM CompletedIsUploadedHolds == Spec => []CompletedIsUploaded
<1>1. IInv => CompletedIsUploaded BY DEF IInv
<1> QED BY Invariance, <1>1, PTL

(* A job is only built where its required features are.                    *)
THEOREM BuiltOnCapableWorkerHolds == Spec => []BuiltOnCapableWorker
<1>1. IInv => BuiltOnCapableWorker BY DEF IInv
<1> QED BY Invariance, <1>1, PTL
=============================================================================
