------------------------ MODULE BuildDispatchProofs ------------------------
(***************************************************************************)
(* Proofs about BuildDispatch, for any set of calls and keys and any       *)
(* retention and timeout.                                                  *)
(*                                                                         *)
(* Everything rests on one inductive invariant, IInv.  Its heart is that a *)
(* call that waits for job d still finds d's first result in the stream if *)
(* d ever published one (FirstIsReplayable): attaching is only possible    *)
(* while the reservation is fresh (NoStaleConflict, with OneRunning), a    *)
(* result is never older than the reservation (ResultAfterRow), and time   *)
(* does not pass over a result that is due.                                *)
(***************************************************************************)
EXTENDS BuildDispatch, TLAPS

BeforeSubmit == {"idle", "insert", "select", "won", "attach"}

(* Calls that have not submitted: no message, hence no result.             *)
NotSubmitted ==
    \A c \in Calls :
        /\ pc[c] \in BeforeSubmit => c \notin submitted
        /\ c \notin submitted => stream[c] = <<>>

AttemptBound ==
    /\ \A c \in Calls : pc[c] = "idle" => attempt[c] = 0
    /\ \A c \in Calls : pc[c] \in {"insert", "select"} => attempt[c] \in 0..1

RowsInThePast == \A c \in Calls : created[c] <= now

ResultAfterRow ==
    \A c \in Calls : status[c] = "running" =>
        \A i \in DOMAIN stream[c] : created[c] <= stream[c][i].at

OneRunning ==
    \A c, d \in Calls :
        status[c] = "running" /\ status[d] = "running" /\ KeyOf[c] = KeyOf[d] => c = d

NoStaleConflict ==
    \A c \in Calls : pc[c] = "select" => \A d \in Running(KeyOf[c]) : ~Stale(d)

JobOfSameKey ==
    \A c \in Calls :
        pc[c] \in {"attach", "watch"} \/ got[c] # "none" =>
            job[c] \in Calls /\ KeyOf[job[c]] = KeyOf[c]

FirstIsReplayable ==
    \A c \in Calls :
        pc[c] \in {"attach", "watch"} /\ stream[job[c]] # <<>> => Replayable(job[c], 1)

GotIsFirst ==
    \A c \in Calls :
        /\ pc[c] \in BeforeSubmit \cup {"watch"} => got[c] = "none"
        /\ pc[c] \in Settling => got[c] # "none"
        /\ got[c] # "none" => /\ stream[job[c]] # <<>>
                              /\ got[c] = stream[job[c]][1].outcome

CompletedHasResult ==
    \A c \in Calls : status[c] = "completed" =>
        stream[c] # <<>> /\ StatusOf(stream[c][1].outcome) = "completed"

HeldUntilResolved ==
    \A c \in Calls :
        pc[c] = "won" \/ c \in submitted =>
            \/ attempt[c] = 2 \/ stream[c] # <<>>
            \/ status[c] = "running" \/ Stale(c)

IInv ==
    /\ TypeOK
    /\ NotSubmitted
    /\ AttemptBound
    /\ RowsInThePast
    /\ ResultAfterRow
    /\ OneRunning
    /\ NoStaleConflict
    /\ JobOfSameKey
    /\ FirstIsReplayable
    /\ GotIsFirst
    /\ CompletedHasResult
    /\ HeldUntilResolved
-----------------------------------------------------------------------------
LEMMA ServedWithoutBuildPreserves ==
    ASSUME NEW c \in Calls, IInv, ServedWithoutBuild(c) PROVE IInv'
<1> USE CallsAssumption, TimeAssumption
    DEF IInv, TypeOK, ServedWithoutBuild, Goto, rowVars
<1>1. TypeOK'
  BY DEF BeforeSubmit, Active, Reserving, Settling, Ended, Statuses, Replies, Result,
       Outcomes
<1>2. (RowsInThePast /\ ResultAfterRow /\ OneRunning /\ CompletedHasResult)'
  BY DEF RowsInThePast, ResultAfterRow, OneRunning, CompletedHasResult
<1>3. (NotSubmitted /\ AttemptBound /\ HeldUntilResolved)'
  BY DEF NotSubmitted, AttemptBound, HeldUntilResolved, Stale, BeforeSubmit, Active,
       Reserving, Settling
<1>4. (NoStaleConflict /\ FirstIsReplayable)'
  BY DEF NoStaleConflict, Running, Stale, FirstIsReplayable, Replayable,
         NotSubmitted, BeforeSubmit, Active, Reserving, Settling
<1>5. (JobOfSameKey /\ GotIsFirst)'
  BY DEF JobOfSameKey, GotIsFirst, BeforeSubmit, Active, Reserving, Settling
<1> QED BY <1>1, <1>2, <1>3, <1>4, <1>5

LEMMA BuildDerivationPreserves ==
    ASSUME NEW c \in Calls, IInv, BuildDerivation(c) PROVE IInv'
<1> USE CallsAssumption, TimeAssumption
    DEF IInv, TypeOK, BuildDerivation, Goto, rowVars
<1>1. TypeOK'
  BY DEF BeforeSubmit, Active, Reserving, Settling, Ended, Statuses, Replies, Result,
       Outcomes
<1>2. (RowsInThePast /\ ResultAfterRow /\ OneRunning /\ CompletedHasResult)'
  BY DEF RowsInThePast, ResultAfterRow, OneRunning, CompletedHasResult
<1>3. (NotSubmitted /\ AttemptBound /\ HeldUntilResolved)'
  BY DEF NotSubmitted, AttemptBound, HeldUntilResolved, Stale, BeforeSubmit, Active,
       Reserving, Settling
<1>4. (NoStaleConflict /\ FirstIsReplayable)'
  BY DEF NoStaleConflict, Running, Stale, FirstIsReplayable, Replayable,
         NotSubmitted, BeforeSubmit, Active, Reserving, Settling
<1>5. (JobOfSameKey /\ GotIsFirst)'
  BY DEF JobOfSameKey, GotIsFirst, BeforeSubmit, Active, Reserving, Settling
<1> QED BY <1>1, <1>2, <1>3, <1>4, <1>5

LEMMA SubmitPreserves ==
    ASSUME NEW c \in Calls, IInv, Submit(c) PROVE IInv'
<1> USE CallsAssumption, TimeAssumption
    DEF IInv, TypeOK, Submit, Goto, WaitFrom, StopWaiting, rowVars
<1>1. TypeOK'
  BY DEF BeforeSubmit, Active, Reserving, Settling, Ended, Statuses, Replies, Result,
       Outcomes
<1>2. (RowsInThePast /\ ResultAfterRow /\ OneRunning /\ CompletedHasResult)'
  BY DEF RowsInThePast, ResultAfterRow, OneRunning, CompletedHasResult
<1>3. (NotSubmitted /\ AttemptBound /\ HeldUntilResolved)'
  BY DEF NotSubmitted, AttemptBound, HeldUntilResolved, Stale, BeforeSubmit, Active,
       Reserving, Settling
<1>4. (NoStaleConflict /\ FirstIsReplayable)'
  BY DEF NoStaleConflict, Running, Stale, FirstIsReplayable, Replayable,
         NotSubmitted, BeforeSubmit, Active, Reserving, Settling
<1>5. (JobOfSameKey /\ GotIsFirst)'
  BY DEF JobOfSameKey, GotIsFirst, BeforeSubmit, Active, Reserving, Settling
<1> QED BY <1>1, <1>2, <1>3, <1>4, <1>5

LEMMA SubmitFailPreserves ==
    ASSUME NEW c \in Calls, IInv, SubmitFail(c) PROVE IInv'
<1> USE CallsAssumption, TimeAssumption
    DEF IInv, TypeOK, SubmitFail, Goto, rowVars
<1>1. TypeOK'
  BY DEF BeforeSubmit, Active, Reserving, Settling, Ended, Statuses, Replies, Result,
       Outcomes
<1>2. (RowsInThePast /\ ResultAfterRow /\ OneRunning /\ CompletedHasResult)'
  BY DEF RowsInThePast, ResultAfterRow, OneRunning, CompletedHasResult
<1>3. (NotSubmitted /\ AttemptBound /\ HeldUntilResolved)'
  BY DEF NotSubmitted, AttemptBound, HeldUntilResolved, Stale, BeforeSubmit, Active,
       Reserving, Settling
<1>4. (NoStaleConflict /\ FirstIsReplayable)'
  BY DEF NoStaleConflict, Running, Stale, FirstIsReplayable, Replayable,
         NotSubmitted, BeforeSubmit, Active, Reserving, Settling
<1>5. (JobOfSameKey /\ GotIsFirst)'
  BY DEF JobOfSameKey, GotIsFirst, BeforeSubmit, Active, Reserving, Settling
<1> QED BY <1>1, <1>2, <1>3, <1>4, <1>5

LEMMA AttachPreserves ==
    ASSUME NEW c \in Calls, IInv, Attach(c) PROVE IInv'
<1> USE CallsAssumption, TimeAssumption
    DEF IInv, TypeOK, Attach, Goto, WaitFrom, StopWaiting, rowVars
<1>1. TypeOK'
  BY DEF BeforeSubmit, Active, Reserving, Settling, Ended, Statuses, Replies, Result,
       Outcomes
<1>2. (RowsInThePast /\ ResultAfterRow /\ OneRunning /\ CompletedHasResult)'
  BY DEF RowsInThePast, ResultAfterRow, OneRunning, CompletedHasResult
<1>3. (NotSubmitted /\ AttemptBound /\ HeldUntilResolved)'
  BY DEF NotSubmitted, AttemptBound, HeldUntilResolved, Stale, BeforeSubmit, Active,
       Reserving, Settling
<1>4. (NoStaleConflict /\ FirstIsReplayable)'
  BY DEF NoStaleConflict, Running, Stale, FirstIsReplayable, Replayable,
         NotSubmitted, BeforeSubmit, Active, Reserving, Settling
<1>5. (JobOfSameKey /\ GotIsFirst)'
  BY DEF JobOfSameKey, GotIsFirst, BeforeSubmit, Active, Reserving, Settling
<1> QED BY <1>1, <1>2, <1>3, <1>4, <1>5

LEMMA TimeoutPreserves ==
    ASSUME NEW c \in Calls, IInv, Timeout(c) PROVE IInv'
<1> USE CallsAssumption, TimeAssumption
    DEF IInv, TypeOK, Timeout, Goto, WaitFrom, StopWaiting, rowVars
<1>1. TypeOK'
  BY DEF BeforeSubmit, Active, Reserving, Settling, Ended, Statuses, Replies, Result,
       Outcomes
<1>2. (RowsInThePast /\ ResultAfterRow /\ OneRunning /\ CompletedHasResult)'
  BY DEF RowsInThePast, ResultAfterRow, OneRunning, CompletedHasResult
<1>3. (NotSubmitted /\ AttemptBound /\ HeldUntilResolved)'
  BY DEF NotSubmitted, AttemptBound, HeldUntilResolved, Stale, BeforeSubmit, Active,
       Reserving, Settling
<1>4. (NoStaleConflict /\ FirstIsReplayable)'
  BY DEF NoStaleConflict, Running, Stale, FirstIsReplayable, Replayable,
         NotSubmitted, BeforeSubmit, Active, Reserving, Settling
<1>5. (JobOfSameKey /\ GotIsFirst)'
  BY DEF JobOfSameKey, GotIsFirst, BeforeSubmit, Active, Reserving, Settling
<1> QED BY <1>1, <1>2, <1>3, <1>4, <1>5

LEMMA AnswerPreserves ==
    ASSUME NEW c \in Calls, IInv, Answer(c) PROVE IInv'
<1> USE CallsAssumption, TimeAssumption
    DEF IInv, TypeOK, Answer, Goto, rowVars
<1>1. TypeOK'
  <2>1. ReplyOf(got[c]) \in Replies
    BY DEF ReplyOf, Replies
  <2>2. valid' \subseteq Keys
    <3>1. KeyOf[c] \in Keys /\ valid \subseteq Keys
      OBVIOUS
    <3>2. valid' = valid \cup {KeyOf[c]} \/ valid' = valid
      BY Zenon
    <3> HIDE DEF IInv, TypeOK, Answer
    <3> QED BY <3>1, <3>2
  <2> QED BY <2>1, <2>2 DEF BeforeSubmit, Active, Reserving, Settling, Ended
<1>2. (RowsInThePast /\ ResultAfterRow /\ OneRunning /\ CompletedHasResult)'
  BY DEF RowsInThePast, ResultAfterRow, OneRunning, CompletedHasResult
<1>3. (NotSubmitted /\ AttemptBound /\ HeldUntilResolved)'
  BY DEF NotSubmitted, AttemptBound, HeldUntilResolved, Stale, BeforeSubmit, Active,
       Reserving, Settling
<1>4. (NoStaleConflict /\ FirstIsReplayable)'
  BY DEF NoStaleConflict, Running, Stale, FirstIsReplayable, Replayable,
         NotSubmitted, BeforeSubmit, Active, Reserving, Settling
<1>5. (JobOfSameKey /\ GotIsFirst)'
  BY DEF JobOfSameKey, GotIsFirst, BeforeSubmit, Active, Reserving, Settling
<1> QED BY <1>1, <1>2, <1>3, <1>4, <1>5

LEMMA WatchFailPreserves ==
    ASSUME NEW c \in Calls, IInv, WatchFail(c) PROVE IInv'
<1> USE CallsAssumption, TimeAssumption
    DEF IInv, TypeOK, WatchFail, Goto, WaitFrom, StopWaiting, rowVars
<1>1. TypeOK'
  BY DEF BeforeSubmit, Active, Reserving, Settling, Ended, Statuses, Replies, Result,
       Outcomes
<1>2. (RowsInThePast /\ ResultAfterRow /\ OneRunning /\ CompletedHasResult)'
  BY DEF RowsInThePast, ResultAfterRow, OneRunning, CompletedHasResult
<1>3. (NotSubmitted /\ AttemptBound /\ HeldUntilResolved)'
  BY DEF NotSubmitted, AttemptBound, HeldUntilResolved, Stale, BeforeSubmit, Active,
       Reserving, Settling
<1>4. (NoStaleConflict /\ FirstIsReplayable)'
  BY DEF NoStaleConflict, Running, Stale, FirstIsReplayable, Replayable,
         NotSubmitted, BeforeSubmit, Active, Reserving, Settling
<1>5. (JobOfSameKey /\ GotIsFirst)'
  BY DEF JobOfSameKey, GotIsFirst, BeforeSubmit, Active, Reserving, Settling
<1> QED BY <1>1, <1>2, <1>3, <1>4, <1>5

LEMMA DropPreserves ==
    ASSUME NEW c \in Calls, IInv, Drop(c) PROVE IInv'
<1> USE CallsAssumption, TimeAssumption
    DEF IInv, TypeOK, Drop, Goto, WaitFrom, StopWaiting, rowVars
<1>1. TypeOK'
  BY DEF BeforeSubmit, Active, Reserving, Settling, Ended, Statuses, Replies, Result,
       Outcomes
<1>2. (RowsInThePast /\ ResultAfterRow /\ OneRunning /\ CompletedHasResult)'
  BY DEF RowsInThePast, ResultAfterRow, OneRunning, CompletedHasResult
<1>3. (NotSubmitted /\ AttemptBound /\ HeldUntilResolved)'
  BY DEF NotSubmitted, AttemptBound, HeldUntilResolved, Stale, BeforeSubmit, Active,
       Reserving, Settling
<1>4. (NoStaleConflict /\ FirstIsReplayable)'
  BY DEF NoStaleConflict, Running, Stale, FirstIsReplayable, Replayable,
         NotSubmitted, BeforeSubmit, Active, Reserving, Settling
<1>5. (JobOfSameKey /\ GotIsFirst)'
  BY DEF JobOfSameKey, GotIsFirst, BeforeSubmit, Active, Reserving, Settling
<1> QED BY <1>1, <1>2, <1>3, <1>4, <1>5

LEMMA FirstElement ==
    ASSUME NEW S, NEW s \in Seq(S), s # <<>> PROVE 1 \in DOMAIN s /\ s[1] \in S
OBVIOUS

(* The row InsertRow leaves is fresh and alone for its key; every other    *)
(* row keeps its created_at and is either untouched or a stolen stale one. *)
LEMMA InsertRowFacts ==
    ASSUME NEW c \in Calls, IInv, InsertRow(c), UNCHANGED now
    PROVE  /\ status' \in [Calls -> Statuses] /\ created' \in [Calls -> Nat]
           /\ status'[c] = "running" /\ created'[c] = now
           /\ \A d \in Calls : d # c =>
                 /\ created'[d] = created[d]
                 /\ \/ status'[d] = status[d]
                    \/ status[d] = "running" /\ status'[d] = "none" /\ Stale(d)
                 /\ status'[d] = "running" => KeyOf[d] # KeyOf[c]
BY CallsAssumption DEF IInv, TypeOK, InsertRow, Running, Statuses, Stale

(* Hence it keeps the facts about rows, and no key gains a stale one.       *)
LEMMA InsertRowPreserves ==
    ASSUME NEW c \in Calls, IInv, InsertRow(c), UNCHANGED <<now, stream>>,
           pc[c] = "insert"
    PROVE  /\ status' \in [Calls -> Statuses] /\ created' \in [Calls -> Nat]
           /\ (RowsInThePast /\ ResultAfterRow /\ OneRunning /\ CompletedHasResult)'
           /\ \A d \in Calls : status'[d] = "running" /\ Stale(d)' =>
                 status[d] = "running" /\ Stale(d)
<1>1. /\ status' \in [Calls -> Statuses] /\ created' \in [Calls -> Nat]
      /\ status'[c] = "running" /\ created'[c] = now
      /\ \A d \in Calls : d # c =>
            /\ created'[d] = created[d]
            /\ \/ status'[d] = status[d]
               \/ status[d] = "running" /\ status'[d] = "none" /\ Stale(d)
            /\ status'[d] = "running" => KeyOf[d] # KeyOf[c]
  BY InsertRowFacts
<1>2. now' = now /\ stream' = stream /\ now \in Nat /\ created \in [Calls -> Nat]
  BY DEF IInv, TypeOK
<1>3. stream[c] = <<>>
  BY DEF IInv, NotSubmitted, BeforeSubmit
<1>4. RowsInThePast /\ ResultAfterRow /\ OneRunning /\ CompletedHasResult
  BY DEF IInv
<1> HIDE DEF IInv, InsertRow
<1>5. RowsInThePast'
  <2> SUFFICES ASSUME NEW d \in Calls PROVE created'[d] <= now
    BY <1>2 DEF RowsInThePast
  <2>1. CASE d = c BY <1>1, <1>2, <2>1
  <2>2. CASE d # c
    <3>1. created'[d] = created[d] BY <1>1, <2>2
    <3> QED BY <1>4, <3>1 DEF RowsInThePast
  <2> QED BY <2>1, <2>2
<1>6. ResultAfterRow'
  <2> SUFFICES ASSUME NEW d \in Calls, status'[d] = "running",
                      NEW i \in DOMAIN stream[d]
               PROVE  created'[d] <= stream[d][i].at
    BY <1>2 DEF ResultAfterRow
  <2>1. d # c BY <1>3
  <2>2. created'[d] = created[d] /\ status[d] = "running" BY <1>1, <2>1
  <2> QED BY <1>4, <2>2 DEF ResultAfterRow
<1>7. OneRunning'
  <2> SUFFICES ASSUME NEW d \in Calls, NEW e \in Calls, status'[d] = "running",
                      status'[e] = "running", KeyOf[d] = KeyOf[e]
               PROVE  d = e
    BY DEF OneRunning
  <2>1. CASE d = c \/ e = c BY <1>1, <2>1
  <2>2. CASE d # c /\ e # c
    <3>1. status[d] = "running" /\ status[e] = "running" BY <1>1, <2>2
    <3> QED BY <1>4, <3>1 DEF OneRunning
  <2> QED BY <2>1, <2>2
<1>8. CompletedHasResult'
  <2> SUFFICES ASSUME NEW d \in Calls, status'[d] = "completed"
               PROVE  stream[d] # <<>> /\ StatusOf(stream[d][1].outcome) = "completed"
    BY <1>2 DEF CompletedHasResult
  <2>1. status[d] = "completed" BY <1>1
  <2> QED BY <1>4, <2>1 DEF CompletedHasResult
<1>9. \A d \in Calls : status'[d] = "running" /\ Stale(d)' => status[d] = "running" /\ Stale(d)
  <2> SUFFICES ASSUME NEW d \in Calls, status'[d] = "running", Stale(d)'
               PROVE  status[d] = "running" /\ Stale(d)
    OBVIOUS
  <2>1. now - created'[d] > Retention BY <1>2 DEF Stale
  <2>2. d # c BY <1>1, <1>2, <2>1, TimeAssumption
  <2>3. created'[d] = created[d] /\ status[d] = "running" BY <1>1, <2>2
  <2> QED BY <2>1, <2>3 DEF Stale
<1> QED BY <1>1, <1>5, <1>6, <1>7, <1>8, <1>9

LEMMA ReserveInsertPreserves ==
    ASSUME NEW c \in Calls, IInv, ReserveInsert(c) PROVE IInv'
<1> USE CallsAssumption, TimeAssumption DEF IInv, TypeOK
<1>1. CASE InsertRow(c) /\ Goto(c, "won")
  <2>1. /\ pc[c] = "insert" /\ pc' = [pc EXCEPT ![c] = "won"]
        /\ UNCHANGED <<now, attempt, job, since, got, reply, submitted, stream, valid, missed>>
    BY <1>1 DEF ReserveInsert, Goto
  <2>2. /\ status' \in [Calls -> Statuses] /\ created' \in [Calls -> Nat]
        /\ (RowsInThePast /\ ResultAfterRow /\ OneRunning /\ CompletedHasResult)'
        /\ \A d \in Calls : status'[d] = "running" /\ Stale(d)' =>
              status[d] = "running" /\ Stale(d)
    BY <1>1, <2>1, InsertRowPreserves
  <2>3. TypeOK'
    BY <2>1, <2>2 DEF Active, Reserving, Settling
  <2>4. (NotSubmitted /\ AttemptBound)'
    BY <2>1 DEF NotSubmitted, AttemptBound, BeforeSubmit
  <2>5. HeldUntilResolved'
    BY <1>1, <2>1, InsertRowFacts DEF HeldUntilResolved, NotSubmitted, BeforeSubmit,
         Stale
  <2>6. NoStaleConflict'
    <3> SUFFICES ASSUME NEW x \in Calls, pc'[x] = "select",
                        NEW d \in Calls, status'[d] = "running", KeyOf[d] = KeyOf[x]
                 PROVE  ~Stale(d)'
      BY DEF NoStaleConflict, Running
    <3>1. pc[x] = "select" BY <2>1
    <3>2. NoStaleConflict OBVIOUS
    <3> QED BY <2>2, <3>1, <3>2 DEF NoStaleConflict, Running
  <2>7. (FirstIsReplayable /\ JobOfSameKey /\ GotIsFirst)'
    BY <2>1 DEF FirstIsReplayable, Replayable, JobOfSameKey, GotIsFirst,
                BeforeSubmit, Settling
  <2> QED BY <2>2, <2>3, <2>4, <2>5, <2>6, <2>7
<1>2. CASE /\ \E d \in Running(KeyOf[c]) : ~Stale(d)
           /\ Goto(c, "select")
           /\ UNCHANGED rowVars
  <2> USE <1>2 DEF ReserveInsert, Goto, rowVars
  <2>1. \A d \in Running(KeyOf[c]) : ~Stale(d)
    BY DEF OneRunning, Running
  <2>2. TypeOK'
    BY DEF Active, Reserving, Settling
  <2>3. (RowsInThePast /\ ResultAfterRow /\ OneRunning /\ CompletedHasResult)'
    BY DEF RowsInThePast, ResultAfterRow, OneRunning, CompletedHasResult
  <2>4. (NotSubmitted /\ AttemptBound /\ HeldUntilResolved)'
    BY DEF NotSubmitted, AttemptBound, HeldUntilResolved, Stale, BeforeSubmit
  <2>5. NoStaleConflict'
    BY <2>1 DEF NoStaleConflict, Running, Stale
  <2>6. (FirstIsReplayable /\ JobOfSameKey /\ GotIsFirst)'
    BY DEF FirstIsReplayable, Replayable, JobOfSameKey, GotIsFirst,
           BeforeSubmit, Settling
  <2> QED BY <2>2, <2>3, <2>4, <2>5, <2>6
<1> QED BY <1>1, <1>2 DEF ReserveInsert

LEMMA ReserveSelectPreserves ==
    ASSUME NEW c \in Calls, IInv, ReserveSelect(c) PROVE IInv'
<1> USE CallsAssumption, TimeAssumption DEF IInv, TypeOK, ReserveSelect, Goto, rowVars
<1>1. (RowsInThePast /\ ResultAfterRow /\ OneRunning /\ CompletedHasResult)'
  BY DEF RowsInThePast, ResultAfterRow, OneRunning, CompletedHasResult
<1>2. CASE \E d \in Running(KeyOf[c]) :
              /\ job' = [job EXCEPT ![c] = d]
              /\ Goto(c, "attach")
              /\ UNCHANGED attempt
  <2>1. PICK d \in Running(KeyOf[c]) :
              /\ job' = [job EXCEPT ![c] = d]
              /\ pc' = [pc EXCEPT ![c] = "attach"]
              /\ UNCHANGED attempt
    BY <1>2
  <2>2. d \in Calls /\ KeyOf[d] = KeyOf[c] /\ status[d] = "running" /\ ~Stale(d)
    BY <2>1 DEF Running, NoStaleConflict
  <2>3. stream[d] # <<>> => Replayable(d, 1)
    <3> HAVE stream[d] # <<>>
    <3>1. 1 \in DOMAIN stream[d] /\ stream[d][1] \in Result
      BY <2>2, FirstElement
    <3>2. created[d] <= stream[d][1].at /\ stream[d][1].at \in Nat
      BY <2>2, <3>1 DEF ResultAfterRow, Result
    <3> QED BY <2>2, <3>2 DEF Replayable, Stale
  <2>4. TypeOK'
    BY <2>1, <2>2 DEF Active, Reserving, Settling
  <2>5. (NotSubmitted /\ AttemptBound /\ HeldUntilResolved)'
    BY <2>1 DEF NotSubmitted, AttemptBound, HeldUntilResolved, Stale, BeforeSubmit
  <2>6. (NoStaleConflict /\ FirstIsReplayable)'
    BY <2>1, <2>2, <2>3 DEF NoStaleConflict, Running, Stale, FirstIsReplayable,
         Replayable
  <2>7. (JobOfSameKey /\ GotIsFirst)'
    BY <2>1, <2>2 DEF JobOfSameKey, GotIsFirst, BeforeSubmit, Settling
  <2> QED BY <1>1, <2>4, <2>5, <2>6, <2>7
<1>3. CASE /\ Running(KeyOf[c]) = {}
           /\ attempt' = [attempt EXCEPT ![c] = @ + 1]
           /\ Goto(c, IF attempt[c] = 0 THEN "insert" ELSE "won")
           /\ UNCHANGED job
  <2> USE <1>3
  <2>1. attempt[c] \in 0..1 BY DEF AttemptBound
  <2>2. TypeOK'
    BY <2>1 DEF Active, Reserving, Settling
  <2>3. (NotSubmitted /\ AttemptBound /\ HeldUntilResolved)'
    BY <2>1 DEF NotSubmitted, AttemptBound, HeldUntilResolved, Stale, BeforeSubmit
  <2>4. (NoStaleConflict /\ FirstIsReplayable)'
    BY DEF NoStaleConflict, Running, Stale, FirstIsReplayable, Replayable
  <2>5. (JobOfSameKey /\ GotIsFirst)'
    BY DEF JobOfSameKey, GotIsFirst, BeforeSubmit, Settling
  <2> QED BY <1>1, <2>2, <2>3, <2>4, <2>5
<1> QED BY <1>2, <1>3

LEMMA ReserveDbErrorPreserves ==
    ASSUME NEW c \in Calls, IInv, ReserveDbError(c) PROVE IInv'
<1> USE CallsAssumption, TimeAssumption DEF IInv, TypeOK
<1>1. /\ pc[c] \in {"insert", "select"} /\ pc' = [pc EXCEPT ![c] = "won"]
      /\ attempt' = [attempt EXCEPT ![c] = 2]
      /\ UNCHANGED <<now, job, since, got, reply, submitted, stream, valid, missed>>
  BY DEF ReserveDbError, Goto
<1>2. /\ status' \in [Calls -> Statuses] /\ created' \in [Calls -> Nat]
      /\ (RowsInThePast /\ ResultAfterRow /\ OneRunning /\ CompletedHasResult)'
      /\ \A d \in Calls : status'[d] = "running" /\ Stale(d)' =>
            status[d] = "running" /\ Stale(d)
  <2>1. CASE pc[c] = "insert" /\ InsertRow(c)
    BY <1>1, <2>1, InsertRowPreserves
  <2>2. CASE UNCHANGED rowVars
    BY <1>1, <2>2 DEF rowVars, Stale,
       RowsInThePast, ResultAfterRow, OneRunning, CompletedHasResult
  <2> QED BY <2>1, <2>2 DEF ReserveDbError
<1>3. TypeOK'
  <2>1. pc' \in [Calls -> {"idle"} \cup Active \cup Ended]
    BY <1>1 DEF Active, Reserving, Settling
  <2>2. attempt' \in [Calls -> 0..2]
    BY <1>1
  <2> QED BY <1>1, <1>2, <2>1, <2>2
<1>4. (NotSubmitted /\ AttemptBound)'
  BY <1>1 DEF NotSubmitted, AttemptBound, BeforeSubmit
<1>5. HeldUntilResolved'
  <2>1. CASE UNCHANGED rowVars
    BY <1>1, <2>1 DEF HeldUntilResolved, NotSubmitted, BeforeSubmit, Stale, rowVars
  <2>2. CASE InsertRow(c)
    BY <1>1, <2>2, InsertRowFacts DEF HeldUntilResolved, NotSubmitted, BeforeSubmit,
         Stale
  <2> QED BY <2>1, <2>2 DEF ReserveDbError
<1>6. NoStaleConflict'
  <2> SUFFICES ASSUME NEW x \in Calls, pc'[x] = "select",
                      NEW d \in Calls, status'[d] = "running", KeyOf[d] = KeyOf[x]
               PROVE  ~Stale(d)'
    BY DEF NoStaleConflict, Running
  <2>1. pc[x] = "select" BY <1>1
  <2>2. NoStaleConflict OBVIOUS
  <2> QED BY <1>2, <2>1, <2>2 DEF NoStaleConflict, Running
<1>7. (FirstIsReplayable /\ JobOfSameKey /\ GotIsFirst)'
  BY <1>1 DEF FirstIsReplayable, Replayable, JobOfSameKey, GotIsFirst,
         BeforeSubmit, Settling
<1> QED BY <1>2, <1>3, <1>4, <1>5, <1>6, <1>7

LEMMA ReceivePreserves ==
    ASSUME NEW c \in Calls, IInv, Receive(c) PROVE IInv'
<1> USE CallsAssumption, TimeAssumption
    DEF IInv, TypeOK, Receive, Goto, WaitFrom, StopWaiting, rowVars
<1>1. PICK i \in DOMAIN stream[job[c]] :
          /\ Replayable(job[c], i)
          /\ \A k \in 1 .. i - 1 : ~Replayable(job[c], k)
          /\ got' = [got EXCEPT ![c] = stream[job[c]][i].outcome]
  OBVIOUS
<1>2. job[c] \in Calls BY DEF JobOfSameKey
<1>3. i = 1 /\ stream[job[c]] # <<>>
  BY <1>1, <1>2 DEF FirstIsReplayable, Result
<1>4. got' = [got EXCEPT ![c] = stream[job[c]][1].outcome]
      /\ stream[job[c]][1].outcome \in Outcomes
  <2>1. stream[job[c]][1] \in Result
    BY <1>2, <1>3, FirstElement
  <2> QED BY <1>1, <1>3, <2>1 DEF Result
<1>5. TypeOK'
  BY <1>4 DEF Active, Reserving, Settling
<1>6. (RowsInThePast /\ ResultAfterRow /\ OneRunning /\ CompletedHasResult)'
  BY DEF RowsInThePast, ResultAfterRow, OneRunning, CompletedHasResult
<1>7. (NotSubmitted /\ AttemptBound /\ HeldUntilResolved)'
  BY DEF NotSubmitted, AttemptBound, HeldUntilResolved, Stale, BeforeSubmit
<1>8. (NoStaleConflict /\ FirstIsReplayable)'
  BY DEF NoStaleConflict, Running, Stale, FirstIsReplayable, Replayable
<1>9. JobOfSameKey'
  BY <1>2, <1>4 DEF JobOfSameKey
<1>10. GotIsFirst'
  <2>1. got'[c] # "none"
    BY <1>4 DEF Outcomes
  <2> QED BY <1>3, <1>4, <2>1 DEF GotIsFirst, BeforeSubmit, Settling
<1> QED BY <1>5, <1>6, <1>7, <1>8, <1>9, <1>10

LEMMA RecordOutcomePreserves ==
    ASSUME NEW c \in Calls, IInv, RecordOutcome(c) PROVE IInv'
<1> USE CallsAssumption, TimeAssumption DEF IInv, TypeOK, RecordOutcome, Goto
<1>1. /\ job[c] \in Calls /\ stream[job[c]] # <<>>
      /\ StatusOf(got[c]) = StatusOf(stream[job[c]][1].outcome)
  BY DEF JobOfSameKey, GotIsFirst, Settling
<1>2. StatusOf(got[c]) \in {"completed", "failed"}
  BY DEF StatusOf
<1>3. /\ status' \in [Calls -> Statuses] /\ created' \in [Calls -> Nat]
      /\ \A d \in Calls : \/ status'[d] = status[d] /\ created'[d] = created[d]
                          \/ /\ d = job[c]
                             /\ status'[d] = StatusOf(got[c])
                             /\ created'[d] \in {created[d], now}
  <2>1. CASE UNCHANGED rowVars BY <2>1 DEF rowVars
  <2>2. CASE /\ status' = [status EXCEPT ![job[c]] = StatusOf(got[c])]
             /\ created' = [created EXCEPT
                   ![job[c]] = IF status[job[c]] = "none" THEN now ELSE @]
    BY <1>1, <1>2, <2>2 DEF Statuses
  <2> QED BY <2>1, <2>2
<1>4. TypeOK'
  BY <1>3 DEF Active, Reserving, Settling
<1>5. RowsInThePast'
  <2> SUFFICES ASSUME NEW d \in Calls PROVE created'[d] <= now
    BY DEF RowsInThePast
  <2>1. created[d] <= now /\ now \in Nat BY DEF RowsInThePast
  <2>2. created'[d] \in {created[d], now} BY <1>3
  <2> HIDE DEF IInv, TypeOK, RecordOutcome
  <2> QED BY <2>1, <2>2
<1>6. (ResultAfterRow /\ OneRunning)'
  BY <1>2, <1>3 DEF ResultAfterRow, OneRunning
<1>7. CompletedHasResult'
  BY <1>1, <1>3 DEF CompletedHasResult
<1>8. (NotSubmitted /\ AttemptBound)'
  BY DEF NotSubmitted, AttemptBound, BeforeSubmit
<1>9. HeldUntilResolved'
  BY <1>1, <1>3 DEF HeldUntilResolved, Stale
<1>10. NoStaleConflict'
  BY <1>2, <1>3 DEF NoStaleConflict, Running, Stale
<1>11. (FirstIsReplayable /\ JobOfSameKey /\ GotIsFirst)'
  BY DEF FirstIsReplayable, Replayable, JobOfSameKey, GotIsFirst,
         BeforeSubmit, Settling
<1> QED BY <1>4, <1>5, <1>6, <1>7, <1>8, <1>9, <1>10, <1>11

LEMMA PublishResultPreserves ==
    ASSUME NEW c \in Calls, NEW o \in Outcomes, IInv, PublishResult(c, o) PROVE IInv'
<1> USE CallsAssumption, TimeAssumption
    DEF IInv, TypeOK, PublishResult, rowVars, callVars
<1> DEFINE r == [outcome |-> o, at |-> now]
<1>1. r \in Result BY DEF Result
<1>2. /\ stream' \in [Calls -> Seq(Result)]
      /\ \A d \in Calls : d # c => stream'[d] = stream[d]
      /\ stream'[c] # <<>>
      /\ stream[c] # <<>> => stream'[c][1] = stream[c][1]
      /\ stream[c] = <<>> => stream'[c][1] = r
      /\ DOMAIN stream'[c] = 1 .. Len(stream[c]) + 1
      /\ \A i \in DOMAIN stream'[c] :
            stream'[c][i] = IF i = Len(stream[c]) + 1 THEN r ELSE stream[c][i]
  <2>1. stream \in [Calls -> Seq(Result)] /\ stream' = [stream EXCEPT ![c] = Append(@, r)]
    OBVIOUS
  <2>2. stream[c] \in Seq(Result) /\ stream'[c] = Append(stream[c], r)
    BY ONLY <2>1, c \in Calls
  <2>3. \A d \in Calls : d # c => stream'[d] = stream[d]
    BY ONLY <2>1, c \in Calls
  <2>4. stream' \in [Calls -> Seq(Result)]
    BY ONLY <1>1, <2>1, <2>2, c \in Calls
  <2>5. /\ Len(stream[c]) \in Nat
        /\ stream[c] # <<>> => Len(stream[c]) >= 1
        /\ DOMAIN stream[c] = 1 .. Len(stream[c])
    BY ONLY <2>2
  <2> QED BY ONLY <1>1, <2>2, <2>3, <2>4, <2>5, c \in Calls
<1>3. TypeOK'
  BY <1>2
<1>4. (NotSubmitted /\ AttemptBound)'
  BY <1>2 DEF NotSubmitted, AttemptBound, BeforeSubmit
<1>5. (RowsInThePast /\ OneRunning /\ NoStaleConflict /\ JobOfSameKey)'
  BY DEF RowsInThePast, OneRunning, NoStaleConflict, Running, Stale, JobOfSameKey
<1>6. ResultAfterRow'
  BY <1>2 DEF ResultAfterRow, RowsInThePast
<1>7. FirstIsReplayable'
  BY <1>2 DEF FirstIsReplayable, JobOfSameKey, Replayable
<1>8. (GotIsFirst /\ CompletedHasResult)'
  BY <1>2 DEF GotIsFirst, JobOfSameKey, CompletedHasResult
<1>9. HeldUntilResolved'
  BY <1>2 DEF HeldUntilResolved, Stale
<1> QED BY <1>3, <1>4, <1>5, <1>6, <1>7, <1>8, <1>9

LEMMA ReclaimPreserves ==
    ASSUME IInv, Reclaim PROVE IInv'
<1> USE CallsAssumption, TimeAssumption DEF IInv, TypeOK, Reclaim, callVars
<1>1. TypeOK'
  BY DEF Statuses
<1>2. (RowsInThePast /\ ResultAfterRow /\ OneRunning /\ CompletedHasResult)'
  BY DEF RowsInThePast, ResultAfterRow, OneRunning, CompletedHasResult
<1>3. (NotSubmitted /\ AttemptBound /\ HeldUntilResolved)'
  BY DEF NotSubmitted, AttemptBound, HeldUntilResolved, Stale
<1>4. (NoStaleConflict /\ FirstIsReplayable)'
  BY DEF NoStaleConflict, Running, Stale, FirstIsReplayable, Replayable
<1>5. (JobOfSameKey /\ GotIsFirst)'
  BY DEF JobOfSameKey, GotIsFirst
<1> QED BY <1>1, <1>2, <1>3, <1>4, <1>5

LEMMA TickPreserves ==
    ASSUME IInv, Tick PROVE IInv'
<1> USE CallsAssumption, TimeAssumption DEF IInv, TypeOK, Tick, rowVars, callVars
<1>1. TypeOK'
  OBVIOUS
<1>2. (RowsInThePast /\ ResultAfterRow /\ OneRunning /\ CompletedHasResult)'
  BY DEF RowsInThePast, ResultAfterRow, OneRunning, CompletedHasResult
<1>3. (NotSubmitted /\ AttemptBound /\ HeldUntilResolved)'
  BY DEF NotSubmitted, AttemptBound, HeldUntilResolved, Stale
<1>4. \A c \in Calls : pc[c] \notin {"select", "attach"}
  BY DEF Due, Reserving
<1>5. \A c \in Calls : pc[c] = "watch" => stream[job[c]] = <<>>
  BY DEF Due, HasResult, FirstIsReplayable, JobOfSameKey
<1>6. (NoStaleConflict /\ FirstIsReplayable)'
  BY <1>4, <1>5 DEF NoStaleConflict, FirstIsReplayable
<1>7. (JobOfSameKey /\ GotIsFirst)'
  BY DEF JobOfSameKey, GotIsFirst
<1> QED BY <1>1, <1>2, <1>3, <1>6, <1>7

-----------------------------------------------------------------------------
LEMMA InitIInv == Init => IInv
<1> SUFFICES ASSUME Init PROVE IInv
  OBVIOUS
<1> USE CallsAssumption, TimeAssumption DEF Init
<1>1. TypeOK
  BY DEF TypeOK, Statuses, Replies, Outcomes
<1>2. NotSubmitted /\ AttemptBound /\ RowsInThePast /\ ResultAfterRow
  BY DEF NotSubmitted, AttemptBound, RowsInThePast, ResultAfterRow
<1>3. OneRunning /\ NoStaleConflict /\ JobOfSameKey /\ FirstIsReplayable
  BY DEF OneRunning, NoStaleConflict, JobOfSameKey, FirstIsReplayable
<1>4. GotIsFirst /\ CompletedHasResult /\ HeldUntilResolved
  BY DEF GotIsFirst, CompletedHasResult, HeldUntilResolved, BeforeSubmit, Settling
<1> QED BY <1>1, <1>2, <1>3, <1>4 DEF IInv

LEMMA NextIInv == IInv /\ [Next]_vars => IInv'
<1> SUFFICES ASSUME IInv, [Next]_vars PROVE IInv'
  OBVIOUS
<1>1. ASSUME NEW c \in Calls, Step(c) PROVE IInv'
  BY <1>1, ReserveInsertPreserves, ReserveSelectPreserves, ReserveDbErrorPreserves,
     SubmitPreserves, SubmitFailPreserves, AttachPreserves,
     ReceivePreserves, TimeoutPreserves, RecordOutcomePreserves, AnswerPreserves
     DEF Step
<1>2. ASSUME NEW c \in Calls, ServedWithoutBuild(c) \/ BuildDerivation(c)
                              \/ WatchFail(c) \/ Drop(c)
      PROVE  IInv'
  BY <1>2, ServedWithoutBuildPreserves, BuildDerivationPreserves,
     WatchFailPreserves, DropPreserves
<1>3. ASSUME NEW c \in Calls, NEW o \in WorkerOutcomes, PublishResult(c, o) PROVE IInv'
  <2>1. o \in Outcomes BY CallsAssumption
  <2> QED BY <1>3, <2>1, PublishResultPreserves
<1>4. CASE UNCHANGED vars
  <2> USE <1>4 DEF vars, IInv
  <2>1. TypeOK' BY DEF TypeOK
  <2>2. (NotSubmitted /\ AttemptBound /\ RowsInThePast /\ ResultAfterRow)'
    BY DEF NotSubmitted, AttemptBound, RowsInThePast, ResultAfterRow
  <2>3. (OneRunning /\ NoStaleConflict /\ JobOfSameKey /\ FirstIsReplayable)'
    BY DEF OneRunning, NoStaleConflict, Running, Stale, JobOfSameKey,
           FirstIsReplayable, Replayable
  <2>4. (GotIsFirst /\ CompletedHasResult /\ HeldUntilResolved)'
    BY DEF GotIsFirst, CompletedHasResult, HeldUntilResolved, Stale
  <2> QED BY <2>1, <2>2, <2>3, <2>4
<1> QED BY <1>1, <1>2, <1>3, <1>4, ReclaimPreserves, TickPreserves DEF Next

(* The inductive invariant holds of every behaviour of build_derivation's  *)
(* calls, the rows and the results stream.                                 *)
THEOREM Invariance == Spec => []IInv
BY InitIInv, NextIInv, PTL DEF Spec

(* Every variable keeps its type; the loop of reserve_job_db ends within   *)
(* its two attempts.                                                       *)
THEOREM TypeCorrect == Spec => []TypeOK
<1>1. IInv => TypeOK BY DEF IInv
<1> QED BY <1>1, Invariance, PTL

(* All watchers of a job return the same outcome, however many results its *)
(* redeliveries publish and however late a watcher attaches.               *)
THEOREM AgreementHolds == Spec => []Agreement
<1>1. IInv => Agreement
  <2> SUFFICES ASSUME IInv, NEW c \in Calls, NEW d \in Calls,
                      got[c] # "none", got[d] # "none", job[c] = job[d]
               PROVE  got[c] = got[d]
    BY DEF Agreement
  <2> QED BY DEF IInv, GotIsFirst
<1> QED BY <1>1, Invariance, PTL

(* A reservation that can still be attached to never outlives the first    *)
(* result of its job.                                                      *)
THEOREM ReplayWindowHolds == Spec => []ReplayWindow
<1>1. IInv => ReplayWindow
  <2> SUFFICES ASSUME IInv, NEW c \in Calls, status[c] = "running", ~Stale(c),
                      stream[c] # <<>>
               PROVE  Replayable(c, 1)
    BY DEF ReplayWindow
  <2>1. 1 \in DOMAIN stream[c] /\ stream[c][1] \in Result
    BY FirstElement DEF IInv, TypeOK
  <2>2. created[c] <= stream[c][1].at /\ stream[c][1].at \in Nat
    BY <2>1 DEF IInv, ResultAfterRow, Result
  <2>3. now \in Nat /\ created[c] \in Nat
    BY DEF IInv, TypeOK
  <2> QED BY <2>2, <2>3, TimeAssumption DEF Stale, Replayable
<1> QED BY <1>1, Invariance, PTL

(* One key has two unanswered jobs in flight only past the retention or    *)
(* after reserve_job_db failed open.                                       *)
THEOREM InFlightOnceHolds == Spec => []InFlightOnce
<1>1. IInv => InFlightOnce
  <2> SUFFICES ASSUME IInv, NEW c \in submitted, NEW d \in submitted, c # d,
                      KeyOf[c] = KeyOf[d], stream[c] = <<>>, stream[d] = <<>>,
                      ~Stale(c), ~Stale(d), attempt[c] # 2, attempt[d] # 2
               PROVE  FALSE
    BY DEF InFlightOnce
  <2>1. c \in Calls /\ d \in Calls
    BY DEF IInv, TypeOK
  <2>2. status[c] = "running" /\ status[d] = "running"
    BY <2>1 DEF IInv, HeldUntilResolved
  <2> QED BY <2>1, <2>2 DEF IInv, OneRunning
<1> QED BY <1>1, Invariance, PTL

(* No order of watchers, reclaims and steals takes a completed row back.   *)
LEMMA CompletedKept ==
    ASSUME IInv, [Next]_vars, NEW d \in Calls, status[d] = "completed"
    PROVE  status'[d] = "completed"
<1>1. /\ status \in [Calls -> Statuses] /\ stream[d] # <<>>
      /\ StatusOf(stream[d][1].outcome) = "completed"
  BY DEF IInv, TypeOK, CompletedHasResult
<1>2. ASSUME NEW c \in Calls, pc[c] = "insert", InsertRow(c)
      PROVE  status'[d] = "completed"
  <2>1. c # d BY <1>1, <1>2 DEF IInv, NotSubmitted, BeforeSubmit
  <2> QED BY <1>1, <1>2, <2>1 DEF InsertRow, Running
<1>3. ASSUME NEW c \in Calls, RecordOutcome(c) PROVE status'[d] = "completed"
  <2>1. job[c] \in Calls /\ got[c] = stream[job[c]][1].outcome
    BY <1>3 DEF IInv, JobOfSameKey, GotIsFirst, RecordOutcome, Settling
  <2> QED BY <1>1, <1>3, <2>1 DEF RecordOutcome, rowVars
<1>4. CASE Reclaim BY <1>1, <1>4 DEF Reclaim
<1>5. CASE Tick BY <1>5 DEF Tick, rowVars
<1>6. ASSUME NEW c \in Calls, ReserveInsert(c) \/ ReserveDbError(c)
      PROVE  status'[d] = "completed"
  BY <1>2, <1>6 DEF ReserveInsert, ReserveDbError, rowVars
<1>7. ASSUME NEW c \in Calls,
             \/ ServedWithoutBuild(c) \/ BuildDerivation(c) \/ Drop(c)
             \/ ReserveSelect(c) \/ Submit(c) \/ SubmitFail(c) \/ Attach(c)
             \/ WatchFail(c) \/ Receive(c) \/ Timeout(c) \/ Answer(c)
             \/ \E o \in WorkerOutcomes : PublishResult(c, o)
      PROVE  status'[d] = "completed"
  BY <1>7 DEF ServedWithoutBuild, BuildDerivation, Drop, ReserveSelect, Submit,
     SubmitFail, Attach, WatchFail, Receive, Timeout, Answer, PublishResult, rowVars
<1> QED BY <1>3, <1>4, <1>5, <1>6, <1>7 DEF Next, Step, vars

(* record_job_outcome is idempotent: a row that says completed says so for *)
(* ever.                                                                   *)
THEOREM CompletedIsFinalHolds == Spec => CompletedIsFinal
<1>1. IInv /\ [Next]_vars =>
          [\A c \in Calls : status[c] = "completed" => status'[c] = "completed"]_vars
  BY CompletedKept
<1> QED BY <1>1, Invariance, PTL DEF Spec, CompletedIsFinal

(* What record_job_outcome leaves for the answer, and what an answered     *)
(* call no longer touches.                                                 *)
PInv ==
    /\ \A c \in Calls : pc[c] \in {"idle"} \cup Active => reply[c] = "none"
    /\ \A c \in Calls : pc[c] = "idle" => job[c] = NoCall
    /\ \A c \in Calls \ missed :
          pc[c] = "recorded" /\ got[c] = "completed" => status[job[c]] = "completed"
    /\ \A c \in Calls : reply[c] = "built" /\ job[c] # NoCall => got[c] = "completed"
    /\ PersistedBeforeReturned

(* The part of PInv that is about one call.                              *)
POf(c) ==
    /\ pc[c] \in {"idle"} \cup Active => reply[c] = "none"
    /\ pc[c] = "idle" => job[c] = NoCall
    /\ reply[c] = "built" /\ job[c] # NoCall => got[c] = "completed"
    /\ c \notin missed =>
          /\ pc[c] = "recorded" /\ got[c] = "completed" => status[job[c]] = "completed"
          /\ reply[c] = "built" =>
                /\ KeyOf[c] \in valid
                /\ job[c] # NoCall => status[job[c]] = "completed"

LEMMA PInvByCall == PInv <=> \A c \in Calls : POf(c)
BY DEF PInv, POf, PersistedBeforeReturned

LEMMA PInvUntouched ==
    ASSUME IInv, [Next]_vars, NEW d \in Calls, POf(d),
           pc'[d] = pc[d], job'[d] = job[d], got'[d] = got[d], reply'[d] = reply[d],
           d \in missed => d \in missed', valid \subseteq valid'
    PROVE  POf(d)'
<1>1. job[d] \in Calls \/ job[d] = NoCall BY DEF IInv, TypeOK
<1>2. pc[d] = "recorded" => job[d] \in Calls
  BY DEF IInv, JobOfSameKey, GotIsFirst, Settling
<1> QED BY <1>1, <1>2, CompletedKept DEF POf

LEMMA PInvStep == IInv /\ PInv /\ [Next]_vars => PInv'
<1> SUFFICES ASSUME IInv, PInv, [Next]_vars, NEW d \in Calls PROVE POf(d)'
  BY DEF PInv, POf, PersistedBeforeReturned
<1>1. /\ POf(d) /\ pc \in [Calls -> {"idle"} \cup Active \cup Ended]
      /\ reply \in [Calls -> Replies] /\ status \in [Calls -> Statuses]
      /\ job \in [Calls -> Calls \cup {NoCall}] /\ got \in [Calls -> Outcomes \cup {"none"}]
  BY PInvByCall DEF IInv, TypeOK
<1>2. ASSUME pc'[d] = pc[d], job'[d] = job[d], got'[d] = got[d], reply'[d] = reply[d],
             d \in missed => d \in missed', valid \subseteq valid'
      PROVE  POf(d)'
  BY <1>1, <1>2, PInvUntouched
<1>3. ASSUME NEW c \in Calls, ServedWithoutBuild(c) PROVE POf(d)'
  BY <1>1, <1>2, <1>3 DEF ServedWithoutBuild, Goto, POf, Active, Reserving, Settling
<1>4. ASSUME NEW c \in Calls, \/ BuildDerivation(c) \/ ReserveInsert(c) \/ ReserveSelect(c)
                              \/ ReserveDbError(c) \/ Submit(c) \/ SubmitFail(c) \/ Attach(c)
      PROVE  POf(d)'
  <2>1. CASE c = d
    BY <1>1, <1>4, <2>1 DEF BuildDerivation, ReserveInsert, ReserveSelect, ReserveDbError,
       Submit, SubmitFail, Attach, Goto, POf, Active, Reserving, Settling
  <2>2. CASE c # d
    BY <1>1, <1>2, <1>4, <2>2 DEF BuildDerivation, ReserveInsert, ReserveSelect,
       ReserveDbError, Submit, SubmitFail, Attach, Goto
  <2> QED BY <2>1, <2>2
<1>5. ASSUME NEW c \in Calls, Receive(c) \/ Timeout(c) \/ WatchFail(c) \/ Drop(c)
      PROVE  POf(d)'
  <2>1. CASE c = d
    BY <1>1, <1>5, <2>1 DEF Receive, Timeout, WatchFail, Drop, Goto, POf, Active,
       Reserving, Settling
  <2>2. CASE c # d
    BY <1>1, <1>2, <1>5, <2>2 DEF Receive, Timeout, WatchFail, Drop, Goto
  <2> QED BY <2>1, <2>2
<1>6. ASSUME NEW c \in Calls, RecordOutcome(c) PROVE POf(d)'
  <2>1. CASE c = d
    <3>1. job[d] \in Calls
      BY <1>6, <2>1 DEF RecordOutcome, IInv, JobOfSameKey, GotIsFirst, Settling
    <3> QED BY <1>1, <1>6, <2>1, <3>1 DEF RecordOutcome, Goto, POf, Active, Reserving,
               Settling, StatusOf
  <2>2. CASE c # d
    BY <1>1, <1>2, <1>6, <2>2 DEF RecordOutcome, Goto
  <2> QED BY <2>1, <2>2
<1>7. ASSUME NEW c \in Calls, Answer(c) PROVE POf(d)'
  <2>1. CASE c = d
    BY <1>1, <1>7, <2>1 DEF Answer, Goto, POf, Active, Reserving, Settling, ReplyOf, rowVars
  <2>2. CASE c # d
    BY <1>1, <1>2, <1>7, <2>2 DEF Answer, Goto
  <2> QED BY <2>1, <2>2
<1>8. ASSUME UNCHANGED <<callVars, valid, missed>> PROVE POf(d)'
  BY <1>2, <1>8 DEF callVars
<1> QED BY <1>3, <1>4, <1>5, <1>6, <1>7, <1>8
        DEF Next, Step, PublishResult, Reclaim, Tick, vars, callVars

LEMMA InitPInv == Init => PInv
BY DEF Init, PInv, PersistedBeforeReturned, Active, Reserving, Settling

(* Results are persisted before they are returned, however reservations    *)
(* were stolen or reclaimed meanwhile: a client told Built finds its       *)
(* outputs and its job's row, unless its own writes failed.                *)
THEOREM PersistedHolds == Spec => []PersistedBeforeReturned
<1>1. PInv => PersistedBeforeReturned
  BY DEF PInv
<1> QED BY <1>1, InitPInv, PInvStep, Invariance, PTL DEF Spec

LEMMA InitValidIsBacked == Init => ValidIsBacked
BY DEF Init, ValidIsBacked

LEMMA ValidIsBackedStep == IInv /\ ValidIsBacked /\ [Next]_vars => ValidIsBacked'
<1> SUFFICES ASSUME IInv, ValidIsBacked, [Next]_vars PROVE ValidIsBacked'
  OBVIOUS
<1>1. CASE UNCHANGED <<valid, stream>>
  BY <1>1 DEF ValidIsBacked
<1>2. ASSUME NEW c \in Calls, ServedWithoutBuild(c) PROVE ValidIsBacked'
  BY <1>2 DEF ServedWithoutBuild, ValidIsBacked
<1>3. ASSUME NEW c \in Calls, Answer(c) PROVE ValidIsBacked'
  <2>1. CASE got[c] = "completed" /\ valid' = valid \cup {KeyOf[c]}
    <3>1. /\ job[c] \in Calls /\ KeyOf[job[c]] = KeyOf[c] /\ stream[job[c]] # <<>>
          /\ stream[job[c]][1].outcome = "completed"
      BY <2>1 DEF IInv, JobOfSameKey, GotIsFirst
    <3>2. stream' = stream BY <1>3 DEF Answer
    <3> QED BY <2>1, <3>1, <3>2 DEF ValidIsBacked
  <2>2. CASE UNCHANGED valid
    BY <1>3, <2>2 DEF Answer, ValidIsBacked
  <2> QED BY <1>3, <2>1, <2>2 DEF Answer
<1>4. ASSUME NEW c \in Calls, NEW o \in WorkerOutcomes, PublishResult(c, o)
      PROVE  ValidIsBacked'
  <2>1. valid' = valid BY <1>4 DEF PublishResult
  <2>2. \A d \in Calls : stream[d] # <<>> =>
           stream'[d] # <<>> /\ stream'[d][1] = stream[d][1]
    BY <1>4 DEF PublishResult, IInv, TypeOK
  <2> QED BY <2>1, <2>2 DEF ValidIsBacked
<1>5. ASSUME NEW c \in Calls,
             \/ BuildDerivation(c) \/ Drop(c)
             \/ ReserveInsert(c) \/ ReserveSelect(c) \/ ReserveDbError(c)
             \/ Submit(c) \/ SubmitFail(c) \/ Attach(c) \/ WatchFail(c)
             \/ Receive(c) \/ Timeout(c) \/ RecordOutcome(c)
      PROVE  ValidIsBacked'
  BY <1>1, <1>5 DEF BuildDerivation, Drop, ReserveInsert, ReserveSelect,
     ReserveDbError, Submit, SubmitFail, Attach, WatchFail, Receive, Timeout,
     RecordOutcome
<1> QED BY <1>1, <1>2, <1>3, <1>4, <1>5 DEF Next, Step, Reclaim, Tick, vars

(* Outputs are valid for a key only through a substituter or a job of that *)
(* key that completed: neither deduplication nor replay lets one tenant's  *)
(* result vouch for another's outputs.                                     *)
THEOREM ValidIsBackedHolds == Spec => []ValidIsBacked
BY InitValidIsBacked, ValidIsBackedStep, Invariance, PTL DEF Spec
=============================================================================
