---------------------------- MODULE BuildPromise ----------------------------
(***************************************************************************)
(* What a client of buildDerivation is promised, whatever frontends,       *)
(* workers and streams do behind it.  A job is settled once and for all;   *)
(* it is settled as completed only when what it built can be fetched; and  *)
(* a call is answered once, with an error, with what a job of its own      *)
(* tenant and derivation was settled as, or, without a job of its own,     *)
(* with Built because such a job completed or a substituter has it.        *)
(***************************************************************************)
CONSTANTS
    Calls,          \* calls, and the job each one may dispatch
    KeyOf,          \* the (tenant, derivation) each one asks for
    Substitutable,  \* those a trusted substituter holds
    NoCall

VARIABLES
    verdict,  \* what each job was settled as
    stored,   \* jobs whose artifacts can be fetched
    told,     \* the answer to each call
    by        \* the job it was answered by

vars == <<verdict, stored, told, by>>

Verdicts == {"completed", "failed", "exhausted"}

(* BuildResult's status for an outcome.                                    *)
Meaning(v) ==
    CASE v = "completed" -> "built"
      [] v = "failed" -> "permanent"
      [] v = "exhausted" -> "transient"

Init ==
    /\ verdict = [j \in Calls |-> "none"]
    /\ stored = {}
    /\ told = [c \in Calls |-> "none"]
    /\ by = [c \in Calls |-> NoCall]

Store(j) ==
    /\ stored' = stored \cup {j}
    /\ UNCHANGED <<verdict, told, by>>

Settle(j, v) ==
    /\ verdict[j] = "none"
    /\ v = "completed" => j \in stored
    /\ verdict' = [verdict EXCEPT ![j] = v]
    /\ UNCHANGED <<stored, told, by>>

Answer(c, j) ==
    /\ told[c] = "none"
    /\ KeyOf[j] = KeyOf[c]
    /\ verdict[j] # "none"
    /\ told' = [told EXCEPT ![c] = Meaning(verdict[j])]
    /\ by' = [by EXCEPT ![c] = j]
    /\ UNCHANGED <<verdict, stored>>

Available(k) ==
    k \in Substitutable \/ \E j \in Calls : KeyOf[j] = k /\ verdict[j] = "completed"

AnswerAvailable(c) ==
    /\ told[c] = "none"
    /\ Available(KeyOf[c])
    /\ told' = [told EXCEPT ![c] = "built"]
    /\ UNCHANGED <<verdict, stored, by>>

GiveUp(c) ==
    /\ told[c] = "none"
    /\ told' = [told EXCEPT ![c] = "error"]
    /\ UNCHANGED <<verdict, stored, by>>

Next ==
    \E c \in Calls :
        \/ Store(c)
        \/ \E v \in Verdicts : Settle(c, v)
        \/ \E j \in Calls : Answer(c, j)
        \/ AnswerAvailable(c)
        \/ GiveUp(c)

Spec == Init /\ [][Next]_vars
=============================================================================
