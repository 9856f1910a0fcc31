------------------------------ MODULE Transfer ------------------------------
(***************************************************************************)
(* One job on one worker, seen as the transfer of its artifacts: inputs    *)
(* are downloaded in parallel and registered in order, the build is run    *)
(* and its log kept, outputs are dumped, stored and reported.  With a VM   *)
(* everything goes over one connection to the guest's nix-daemon, whose    *)
(* words DaemonWire reads; without one every operation is a child process. *)
(*                                                                         *)
(* Inputs are the indices of the job's list, in the order of the wire.     *)
(* References to paths outside the list are left out: the code ignores     *)
(* them.  TenantVm and GuestVm have the VM and the reasons for a retry.    *)
(***************************************************************************)
EXTENDS DaemonWire, FiniteSets

CONSTANTS
    NumInputs,
    NumOutputs,
    MaxParallel,   \* max_parallel_input_fetches
    Graphs,        \* bound: the reference graphs of the inputs
    Trees,         \* bound: the NARs a build may make
    None

ASSUME CountsAssumption ==
    /\ NumInputs \in Nat /\ NumOutputs \in Nat
    /\ MaxParallel \in Nat \ {0}

Index == 1 .. NumInputs
Outputs == 1 .. NumOutputs

ASSUME GraphsAssumption == Graphs \subseteq [Index -> SUBSET Index]

VARIABLES
    mode,       \* "vm" or "serve"
    fresh,      \* vm_store_fresh
    refs,       \* the references of each input among the inputs
    store,      \* the bytes of each input in the store: absent, recorded or other
    pc,
    order,      \* the inputs still to be handled, in order
    todo,       \* the ones skip_already_valid leaves to fetch
    task,       \* the download task of each input
    spool,      \* what each download spooled
    channel,    \* the results sent to fetch_inputs
    ready,      \* the spools received ahead of their turn
    asked,      \* the operation whose reply is being read
    owed,       \* the requests the daemon has still to answer
    stream,     \* the words sent by the daemon and not yet read
    closed,     \* whether the connection ends after them
    retried,    \* the once-only retries the job has used up
    outcome,
    log,
    printed,    \* history: the lines the last build printed
    built,      \* the outputs in the store
    spooled,    \* the output dumped and waiting for its PUT
    objects,    \* the outputs in the object store
    logObject,
    logKey,     \* whether a log key goes into the result
    artifacts,  \* the OutputArtifacts collected so far
    result      \* the JobResult published

jobVars == <<mode, fresh, refs>>
fetchVars == <<order, todo, task, spool, channel, ready>>
connVars == <<asked, owed, stream, closed>>
buildVars == <<retried, outcome, log, printed>>
uploadVars == <<spooled, objects, logObject, logKey, artifacts>>
vars == <<mode, fresh, refs, store, pc, order, todo, task, spool, channel, ready, asked, owed,
          stream, closed, retried, outcome, log, printed, built, spooled, objects, logObject,
          logKey, artifacts, result>>

Nars == {NarOf(t) : t \in Trees}

(* The trees are ones the worker's copier takes whole and takes no part of. *)
ASSUME TreesAssumption ==
    /\ Trees \subseteq Seq(NarWords)
    /\ \A nar \in Nars :
         /\ CopyNar(nar) = Got(nar, <<>>)
         /\ \A n \in 0 .. Len(nar) - 1 : ~ CopyNar(SubSeq(nar, 1, n)).ok

Ops == {"open", "setOptions", "query", "add", "build", "nar"}
ReadsReply == {"open", "options", "check", "register", "build", "reopen", "reoptions", "dump",
               "metadata"}
Bytes == {"absent", "recorded", "other"}
Message == <<"infraFailure">>
Retries == {"oom", "enospc", "hang"}

ASSUME NoneAssumption ==
    None \notin Ops \cup Nars \cup [nar : Nars, metadata : BOOLEAN]

TypeOK ==
    /\ mode \in {"vm", "serve"} /\ fresh \in BOOLEAN
    /\ refs \in [Index -> SUBSET Index]
    /\ store \in [Index -> Bytes]
    /\ pc \in {"sort", "urls", "fetch", "outputs", "failed", "uploadUrls", "log", "put", "report", "done"}
              \cup ReadsReply
    /\ \A q \in {order, todo} : Len(q) <= NumInputs /\ \A k \in 1 .. Len(q) : q[k] \in Index
    /\ task \in [Index -> {"none", "queued", "running"}]
    /\ Cardinality({i \in Index : task[i] = "running"}) <= MaxParallel
    /\ spool \in [Index -> Bytes]
    /\ Len(channel) <= NumInputs /\ ready \subseteq Index
    /\ asked \in Ops \cup {None}
    /\ {closed, logKey} \subseteq BOOLEAN /\ retried \subseteq Retries
    /\ outcome \in {"none", "completed", "failed"}
    /\ LET nars == Nars IN
         /\ {built, spooled, objects} \subseteq [Outputs -> nars \cup {None}]
         /\ artifacts \in [Outputs -> [nar : nars, metadata : BOOLEAN] \cup {None}]
    /\ result \in {"none", "completed", "failed"}

Nothing == [o \in Outputs |-> None]

(* A store a job meets is closed under references.                         *)
ClosedStores(r) ==
    {s \in [Index -> {"absent", "recorded"}] :
        \A i \in Index : s[i] = "recorded" => \A j \in r[i] : s[j] = "recorded"}

Init ==
    /\ mode \in {"vm", "serve"} /\ fresh \in BOOLEAN
    /\ refs \in Graphs
    /\ store \in IF mode = "serve" \/ fresh THEN {[i \in Index |-> "absent"]}
                 ELSE ClosedStores(refs)
    /\ mode = "serve" => ~ fresh
    /\ pc = IF mode = "vm" THEN "open" ELSE "sort"
    /\ order = <<>> /\ todo = <<>>
    /\ task = [i \in Index |-> "none"] /\ spool = [i \in Index |-> "absent"]
    /\ channel = <<>> /\ ready = {}
    /\ asked = None /\ owed = <<>> /\ stream = <<>> /\ closed = FALSE
    /\ retried = {} /\ outcome = "none" /\ log = <<>> /\ printed = <<>>
    /\ built = Nothing /\ spooled = Nothing /\ objects = Nothing
    /\ logObject = <<>> /\ logKey = FALSE /\ artifacts = Nothing /\ result = "none"

-----------------------------------------------------------------------------
(* The connection.                                                         *)

(* A request is written whole, then its reply is waited for.               *)
Ask(op, arg) ==
    /\ asked' = op /\ owed' = Append(owed, [op |-> op, arg |-> arg])
    /\ UNCHANGED <<stream, closed>>

(* The reply to the operation asked for, as the worker reads it.           *)
Reply == Read(asked, stream)
Readable == asked # None /\ (stream # <<>> \/ closed)
TakeReply(reply) == asked' = None /\ stream' = reply.rest /\ UNCHANGED <<owed, closed>>

(* A new connection to the guest: what the old one still carries is gone.  *)
Reconnect == asked' = "open" /\ owed' = <<[op |-> "open", arg |-> 0]>>
             /\ stream' = <<>> /\ closed' = FALSE

(* A reply, which a guest that goes away leaves incomplete.                *)
Send(reply) ==
    /\ owed' = Tail(owed) /\ UNCHANGED asked
    /\ \E n \in 0 .. Len(reply) :
         /\ stream' = stream \o SubSeq(reply, 1, n)
         /\ closed' = (n < Len(reply))

Asked(op) == owed # <<>> /\ ~ closed /\ Head(owed).op = op
Arg == Head(owed).arg

(* The daemon checks the references of a path and registers it, runs the   *)
(* build, or answers from its store.                                       *)
DaemonAdds ==
    /\ Asked("add")
    /\ \/ /\ \A j \in refs[Arg] \ {Arg} : store[j] # "absent"
          /\ store' = [store EXCEPT ![Arg] = spool[Arg]] /\ Send(<<"last">>)
       \/ Send(Remote) /\ UNCHANGED store
    /\ UNCHANGED <<built, printed>>

DaemonBuilds ==
    /\ Asked("build")
    /\ \E reply \in BuildReplies :
         /\ Send(reply)
         /\ printed' = Keep(reply, {"next", "logLine"})
         /\ built' \in IF \E k \in 1 .. Len(reply) : reply[k] = "succeeded"
                       THEN [Outputs -> Nars] ELSE {built}
    /\ UNCHANGED store

DaemonReads ==
    /\ \/ Asked("open") /\ \E reply \in OpenReplies : Send(reply)
       \/ Asked("setOptions") /\ \E reply \in SetOptionsReplies : Send(reply)
       \/ /\ Asked("query")
          /\ \E reply \in QueryReplies(pc = "metadata" \/ store[Arg] # "absent") : Send(reply)
       \/ Asked("nar") /\ (Send(<<"last">> \o built[Arg]) \/ Send(Remote))
    /\ UNCHANGED <<store, built, printed>>

DaemonAnswers ==
    /\ DaemonAdds \/ DaemonBuilds \/ DaemonReads
    /\ UNCHANGED <<jobVars, pc, fetchVars, retried, outcome, log, uploadVars, result>>

(* The job ends early with nothing to show.                                *)
Abort == outcome' = "failed" /\ pc' = "report" /\ UNCHANGED <<retried, log, printed>>

-----------------------------------------------------------------------------
(* Opening the connection.                                                 *)

(* open, then the mandatory SetOptions.                                    *)
Connect ==
    /\ mode = "vm" /\ asked = None
    /\ \/ pc = "open" /\ Ask("open", 0)
       \/ pc \in {"options", "reoptions"} /\ Ask("setOptions", 0)
    /\ UNCHANGED <<jobVars, store, pc, fetchVars, buildVars, built, uploadVars, result>>

Opened ==
    /\ pc \in {"open", "options"} /\ Readable
    /\ LET reply == Reply IN
         /\ TakeReply(reply)
         /\ \/ ~ reply.ok /\ Abort
            \/ /\ reply.ok /\ pc' = IF pc = "open" THEN "options" ELSE "sort"
               /\ UNCHANGED buildVars
    /\ UNCHANGED <<jobVars, store, fetchVars, built, uploadVars, result>>

(* For a retry: the outcome of the failed build stands if this fails.      *)
Reopened ==
    /\ pc \in {"reopen", "reoptions"} /\ Readable
    /\ LET reply == Reply IN
         /\ TakeReply(reply)
         /\ \/ ~ reply.ok /\ pc' = "uploadUrls"
            \/ reply.ok /\ pc' = IF pc = "reopen" THEN "reoptions" ELSE "build"
    /\ UNCHANGED <<jobVars, store, fetchVars, buildVars, built, uploadVars, result>>

-----------------------------------------------------------------------------
(* fetch_inputs.                                                           *)

Ascending(S) == Keep([i \in Index |-> i], S)
Deps(i) == refs[i] \ {i}

(* Mutant: the order of the wire is kept.                                  *)
TopoSortWire == [i \in Index |-> i]

(* Kahn's algorithm: inputs without references queue first, and each one   *)
(* taken frees those it was the last unsorted reference of.                *)
KahnStart == [queue |-> Ascending({i \in Index : Deps(i) = {}}), order |-> <<>>]

KahnStep(s) ==
    LET sorted == Append(s.order, Head(s.queue))
        before == {sorted[k] : k \in 1 .. Len(sorted)}
        freed == {d \in Index : Head(s.queue) \in Deps(d) /\ Deps(d) \subseteq before}
    IN  IF s.queue = <<>> THEN s
        ELSE [queue |-> Tail(s.queue) \o Ascending(freed), order |-> sorted]

(* Shorter than the list of inputs if there is a cycle.                    *)
TopoSortInputs ==
    LET step[n \in 0 .. NumInputs] == IF n = 0 THEN KahnStart ELSE KahnStep(step[n - 1])
    IN  step[NumInputs].order

SortInputs ==
    /\ pc = "sort"
    /\ \/ /\ NumInputs = 0
          /\ pc' = "outputs" /\ UNCHANGED <<order, todo, outcome>>
       \/ /\ NumInputs # 0 /\ Len(TopoSortInputs) # NumInputs
          /\ outcome' = "failed" /\ pc' = "report" /\ UNCHANGED <<order, todo>>
       \/ /\ NumInputs # 0 /\ Len(TopoSortInputs) = NumInputs
          /\ order' = TopoSortInputs
          /\ IF mode = "vm" /\ ~ fresh THEN pc' = "check" /\ todo' = <<>>
             ELSE pc' = "urls" /\ todo' = TopoSortInputs
          /\ UNCHANGED outcome
    /\ UNCHANGED <<jobVars, store, task, spool, channel, ready, connVars, retried, log, printed,
                   built, uploadVars, result>>

(* path_is_valid of the next input.                                        *)
AskValid ==
    /\ pc = "check" /\ asked = None /\ order # <<>>
    /\ Ask("query", Head(order))
    /\ UNCHANGED <<jobVars, store, pc, fetchVars, buildVars, built, uploadVars, result>>

(* skip_already_valid.                                                     *)
SkipAlreadyValid ==
    /\ pc = "check" /\ Readable
    /\ LET reply == Reply IN
         /\ TakeReply(reply)
         /\ \/ ~ reply.ok /\ Abort /\ UNCHANGED <<order, todo>>
            \/ /\ reply.ok
               /\ order' = Tail(order)
               /\ todo' = IF reply.answer = "valid" THEN todo ELSE Append(todo, Head(order))
               /\ UNCHANGED <<pc, buildVars>>
    /\ UNCHANGED <<jobVars, store, task, spool, channel, ready, built, uploadVars, result>>

Checked ==
    /\ pc = "check" /\ order = <<>>
    /\ IF todo = <<>> THEN pc' = "outputs" /\ order' = order
       ELSE pc' = "urls" /\ order' = todo
    /\ UNCHANGED <<jobVars, store, todo, task, spool, channel, ready, connVars, buildVars, built,
                   uploadVars, result>>

(* One round trip for every key; refused, lost, or with a task per input.  *)
RequestDownloadUrls ==
    /\ pc = "urls"
    /\ \/ Abort /\ UNCHANGED task
       \/ /\ task' = [i \in Index |-> IF \E k \in 1 .. Len(todo) : todo[k] = i THEN "queued"
                                      ELSE "none"]
          /\ pc' = "fetch" /\ UNCHANGED buildVars
    /\ UNCHANGED <<jobVars, store, order, todo, spool, channel, ready, connVars, built,
                   uploadVars, result>>

(* Mutant: the permit goes with the spool and comes back once it is registered. *)
PermitHeld(i) ==
    /\ pc \in {"fetch", "register"} /\ task[i] = "queued"
    /\ Cardinality({j \in Index : task[j] = "running" \/
                      (spool[j] # "absent" /\ store[j] = "absent")}) < MaxParallel
    /\ task' = [task EXCEPT ![i] = "running"]
    /\ UNCHANGED <<jobVars, store, pc, order, todo, spool, channel, ready, connVars, buildVars,
                   built, uploadVars, result>>

(* Mutant: no permit is asked for.                                         *)
NoPermit(i) ==
    /\ pc \in {"fetch", "register"} /\ task[i] = "queued"
    /\ task' = [task EXCEPT ![i] = "running"]
    /\ UNCHANGED <<jobVars, store, pc, order, todo, spool, channel, ready, connVars, buildVars,
                   built, uploadVars, result>>

(* The tasks race for the permits.  They outlive a failed fetch, when      *)
(* nobody listens any more.                                                *)
AcquirePermit(i) ==
    /\ pc \in {"fetch", "register"} /\ task[i] = "queued"
    /\ Cardinality({j \in Index : task[j] = "running"}) < MaxParallel
    /\ task' = [task EXCEPT ![i] = "running"]
    /\ UNCHANGED <<jobVars, store, pc, order, todo, spool, channel, ready, connVars, buildVars,
                   built, uploadVars, result>>

(* What came decoded has the recorded hash and size.                       *)
Verified(got) == got = "recorded"

(* A download lands; anything but an error status and a full body of the   *)
(* recorded hash and size is a failed result.                              *)
DownloadToSpool(i) ==
    /\ pc \in {"fetch", "register"} /\ task[i] = "running"
    /\ \E got \in Bytes :
         /\ spool' = [spool EXCEPT ![i] = got]
         /\ channel' = Append(channel, [input |-> i, ok |-> Verified(got)])
    /\ task' = [task EXCEPT ![i] = "none"]
    /\ UNCHANGED <<jobVars, store, pc, order, todo, ready, connVars, buildVars, built, uploadVars,
                   result>>

(* The first failed result ends the fetch, whichever input it is of.       *)
Receive ==
    /\ pc = "fetch" /\ order # <<>> /\ Head(order) \notin ready /\ channel # <<>>
    /\ channel' = Tail(channel)
    /\ \/ ~ Head(channel).ok /\ Abort /\ UNCHANGED ready
       \/ /\ Head(channel).ok /\ ready' = ready \cup {Head(channel).input}
          /\ UNCHANGED <<pc, buildVars>>
    /\ UNCHANGED <<jobVars, store, order, todo, task, spool, connVars, built, uploadVars, result>>

(* register_input: AddToStoreNar of the spooled bytes.                     *)
RegisterInput ==
    /\ pc = "fetch" /\ mode = "vm" /\ order # <<>> /\ Head(order) \in ready
    /\ ready' = ready \ {Head(order)}
    /\ Ask("add", Head(order)) /\ pc' = "register"
    /\ UNCHANGED <<jobVars, store, order, todo, task, spool, channel, buildVars, built, uploadVars,
                   result>>

Registered ==
    /\ pc = "register" /\ Readable
    /\ LET reply == Reply IN
         /\ TakeReply(reply)
         /\ \/ ~ reply.ok /\ Abort /\ UNCHANGED order
            \/ reply.ok /\ order' = Tail(order) /\ pc' = "fetch" /\ UNCHANGED buildVars
    /\ UNCHANGED <<jobVars, store, todo, task, spool, channel, ready, built, uploadVars, result>>

(* import_spooled: a nix-store --import of the NAR in its export wrapping. *)
ImportSpooled ==
    /\ pc = "fetch" /\ mode = "serve" /\ order # <<>> /\ Head(order) \in ready
    /\ ready' = ready \ {Head(order)}
    /\ LET i == Head(order) IN
         \/ /\ \A j \in Deps(i) : store[j] # "absent"
            /\ store' = [store EXCEPT ![i] = spool[i]] /\ order' = Tail(order)
            /\ UNCHANGED <<pc, buildVars>>
         \/ Abort /\ UNCHANGED <<store, order>>
    /\ UNCHANGED <<jobVars, todo, task, spool, channel, connVars, built, uploadVars, result>>

(* fetch_inputs returns.                                                   *)
Fetched ==
    /\ pc = "fetch" /\ order = <<>> /\ pc' = "outputs"
    /\ todo' = <<>> /\ spool' = [i \in Index |-> "absent"]
    /\ UNCHANGED <<jobVars, store, order, task, channel, ready, connVars, buildVars, built, uploadVars, result>>

-----------------------------------------------------------------------------
(* run_build.                                                              *)

(* declared_outputs: the derivation may not parse.                         *)
DeclaredOutputs ==
    /\ pc = "outputs"
    /\ \/ Abort
       \/ pc' = "build" /\ UNCHANGED buildVars
    /\ UNCHANGED <<jobVars, store, fetchVars, connVars, built, uploadVars, result>>

AskBuild ==
    /\ pc = "build" /\ mode = "vm" /\ asked = None
    /\ Ask("build", 0)
    /\ UNCHANGED <<jobVars, store, pc, fetchVars, buildVars, built, uploadVars, result>>

(* The log is what pump_channel collected, or the message of an error.     *)
BuildDone ==
    /\ pc = "build" /\ mode = "vm" /\ Readable
    /\ LET reply == Reply IN
         /\ TakeReply(reply)
         /\ \/ /\ reply.ok /\ reply.answer.status = "succeeded"
               /\ outcome' = "completed" /\ log' = reply.answer.log /\ pc' = "uploadUrls"
            \/ /\ reply.ok /\ reply.answer.status = "unsuccessful"
               /\ outcome' = "failed" /\ log' = reply.answer.log /\ pc' = "failed"
            \/ /\ ~ reply.ok
               /\ outcome' = "failed" /\ log' = Message /\ pc' = "failed"
    /\ UNCHANGED <<jobVars, store, fetchVars, retried, printed, built, uploadVars, result>>

(* nix-store --serve: cannot be started; or runs, and its log is read up   *)
(* to the end or to a line that is not text.                               *)
ServeFails ==
    /\ pc = "build" /\ mode = "serve"
    /\ outcome' = "failed" /\ log' = Message /\ pc' = "failed"
    /\ UNCHANGED <<jobVars, store, fetchVars, connVars, retried, printed, built, uploadVars,
                   result>>

ServeBuild ==
    /\ pc = "build" /\ mode = "serve"
    /\ \E l \in BuildLogs, succeeded \in BOOLEAN :
         /\ printed' = LogOf(l)
         /\ \E n \in 0 .. Len(LogOf(l)) : log' = SubSeq(LogOf(l), 1, n)
         /\ outcome' = IF succeeded THEN "completed" ELSE "failed"
         /\ pc' = IF succeeded THEN "uploadUrls" ELSE "failed"
         /\ built' \in IF succeeded THEN [Outputs -> Nars] ELSE {built}
    /\ UNCHANGED <<jobVars, store, fetchVars, connVars, retried, uploadVars, result>>

GiveUp ==
    /\ pc = "failed" /\ pc' = "uploadUrls"
    /\ UNCHANGED <<jobVars, store, fetchVars, connVars, buildVars, built, uploadVars, result>>

(* An OOM kill of something else is retried on the same guest and store, a *)
(* full disk that the job did not start empty after a wipe; each once.     *)
Retry ==
    /\ pc = "failed" /\ mode = "vm"
    /\ \/ "oom" \notin retried /\ retried' = retried \cup {"oom"} /\ UNCHANGED store
       \/ /\ "enospc" \notin retried /\ ~ fresh /\ retried' = retried \cup {"enospc"}
          /\ store' = [i \in Index |-> "absent"]
    /\ Reconnect /\ pc' = "reopen"
    /\ UNCHANGED <<jobVars, fetchVars, outcome, log, printed, built, uploadVars, result>>

(* The build is abandoned in the middle of its reply and tried once more   *)
(* on a wiped store; a second time, or when the wipe fails, the job fails  *)
(* with an empty log.                                                      *)
GuestHung ==
    /\ pc = "build" /\ mode = "vm" /\ asked # None
    /\ log' = <<>> /\ outcome' = "failed" /\ retried' = retried \cup {"hang"}
    /\ \/ asked' = None /\ pc' = "uploadUrls" /\ UNCHANGED <<store, owed, stream, closed>>
       \/ /\ "hang" \notin retried /\ pc' = "reopen" /\ Reconnect
          /\ store' = [i \in Index |-> "absent"]
    /\ UNCHANGED <<jobVars, fetchVars, printed, built, uploadVars, result>>

-----------------------------------------------------------------------------
(* upload_artifacts.                                                       *)

(* The next output of the derivation to be uploaded.                       *)
Current == CHOOSE o \in Outputs : artifacts[o] = None /\ \A p \in 1 .. o - 1 : artifacts[p] # None

(* Mutant: the result of a build survives its failed upload.               *)
UploadLost ==
    /\ artifacts' = Nothing /\ logKey' = FALSE /\ pc' = "report" /\ UNCHANGED buildVars

(* A failed upload fails the job, whatever was uploaded before.            *)
UploadFails ==
    /\ outcome' = "failed" /\ artifacts' = Nothing /\ logKey' = FALSE /\ pc' = "report"
    /\ UNCHANGED <<retried, log, printed>>

RequestUploadUrls ==
    /\ pc = "uploadUrls"
    /\ \/ UploadFails
       \/ pc' = "log" /\ UNCHANGED <<buildVars, artifacts, logKey>>
    /\ UNCHANGED <<jobVars, store, fetchVars, connVars, built, spooled, objects, logObject, result>>

(* An empty log is not uploaded.                                           *)
UploadLog ==
    /\ pc = "log"
    /\ \/ log # <<>> /\ UploadFails /\ UNCHANGED logObject
       \/ /\ logObject' = log /\ logKey' = (log # <<>>)
          /\ pc' = IF outcome = "completed" /\ NumOutputs # 0 THEN "dump" ELSE "report"
          /\ UNCHANGED <<buildVars, artifacts>>
    /\ UNCHANGED <<jobVars, store, fetchVars, connVars, built, spooled, objects, result>>

AskNar ==
    /\ pc = "dump" /\ mode = "vm" /\ asked = None
    /\ Ask("nar", Current)
    /\ UNCHANGED <<jobVars, store, pc, fetchVars, buildVars, built, uploadVars, result>>

(* The NAR is hashed and compressed into the spool as it is read.          *)
Dumped ==
    /\ pc = "dump" /\ mode = "vm" /\ Readable
    /\ LET reply == Reply IN
         /\ TakeReply(reply)
         /\ \/ ~ reply.ok /\ UploadFails /\ UNCHANGED spooled
            \/ /\ reply.ok /\ spooled' = [spooled EXCEPT ![Current] = reply.answer]
               /\ pc' = "put" /\ UNCHANGED <<buildVars, artifacts, logKey>>
    /\ UNCHANGED <<jobVars, store, fetchVars, built, objects, logObject, result>>

(* nix store dump-path.                                                    *)
DumpPath ==
    /\ pc = "dump" /\ mode = "serve"
    /\ \/ UploadFails /\ UNCHANGED spooled
       \/ /\ spooled' = [spooled EXCEPT ![Current] = built[Current]]
          /\ pc' = "put" /\ UNCHANGED <<buildVars, artifacts, logKey>>
    /\ UNCHANGED <<jobVars, store, fetchVars, connVars, built, objects, logObject, result>>

(* The PUT of the spool, whose length is known.                            *)
PutOutput ==
    /\ pc = "put"
    /\ \/ UploadFails /\ UNCHANGED objects
       \/ /\ objects' = [objects EXCEPT ![Current] = spooled[Current]]
          /\ pc' = "metadata" /\ UNCHANGED <<buildVars, artifacts, logKey>>
    /\ UNCHANGED <<jobVars, store, fetchVars, connVars, built, spooled, logObject, result>>

Collect(metadata) ==
    /\ artifacts' = [artifacts EXCEPT ![Current] = [nar |-> spooled[Current],
                                                    metadata |-> metadata]]
    /\ pc' = IF Current = NumOutputs THEN "report" ELSE "dump"
    /\ UNCHANGED <<buildVars, logKey>>

AskMetadata ==
    /\ pc = "metadata" /\ mode = "vm" /\ asked = None
    /\ Ask("query", Current)
    /\ UNCHANGED <<jobVars, store, pc, fetchVars, buildVars, built, uploadVars, result>>

(* path_metadata: an output the daemon does not know is an error.          *)
PathMetadata ==
    /\ pc = "metadata" /\ mode = "vm" /\ Readable
    /\ LET reply == Reply IN
         /\ TakeReply(reply)
         /\ \/ (~ reply.ok \/ reply.answer # "valid") /\ UploadFails
            \/ reply.ok /\ reply.answer = "valid" /\ Collect(TRUE)
    /\ UNCHANGED <<jobVars, store, fetchVars, built, spooled, objects, logObject, result>>

(* nix-store --query, twice: that of the references may fail unnoticed.    *)
QueryPathMetadata ==
    /\ pc = "metadata" /\ mode = "serve"
    /\ \/ UploadFails
       \/ \E complete \in BOOLEAN : Collect(complete)
    /\ UNCHANGED <<jobVars, store, fetchVars, connVars, built, spooled, objects, logObject, result>>

PublishResult ==
    /\ pc = "report" /\ result' = outcome /\ pc' = "done"
    /\ UNCHANGED <<jobVars, store, fetchVars, connVars, buildVars, built, uploadVars>>

-----------------------------------------------------------------------------
Downloads == \E i \in Index : AcquirePermit(i) \/ DownloadToSpool(i)

Worker ==
    \/ Connect \/ Opened \/ Reopened
    \/ SortInputs \/ AskValid \/ SkipAlreadyValid \/ Checked \/ RequestDownloadUrls
    \/ Receive \/ RegisterInput \/ Registered \/ ImportSpooled \/ Fetched
    \/ DeclaredOutputs \/ AskBuild \/ BuildDone \/ ServeFails \/ ServeBuild
    \/ GiveUp \/ Retry \/ GuestHung
    \/ RequestUploadUrls \/ UploadLog \/ AskNar \/ Dumped \/ DumpPath \/ PutOutput
    \/ AskMetadata \/ PathMetadata \/ QueryPathMetadata \/ PublishResult

Next == Downloads \/ Worker \/ DaemonAnswers

Spec == Init /\ [][Next]_vars

(* As long as the tasks, the worker's loop, the object store or the guest   *)
(* can go on, one of them does: the latter two answer or close the         *)
(* connection.  The code puts no deadline on either.                       *)
FairSpec == Spec /\ WF_vars(Next)

-----------------------------------------------------------------------------
(* The input next to be registered refers to nothing its store still       *)
(* lacks: whatever order the wire had, whatever downloads land first and   *)
(* whatever inputs were skipped as valid, no store is asked to validate a  *)
(* path before its references.  And what it registers is what the server   *)
(* recorded of the path (topo_sort_inputs, download_to_spool).             *)
OrderRespected ==
    /\ \A i \in Index : store[i] # "other"
    /\ pc \in {"fetch", "register"} /\ order # <<>> =>
          \A j \in Deps(Head(order)) : store[j] # "absent"

(* No request is sent while words of an earlier reply are unread or still  *)
(* to come: an operation never takes another one's reply for its own,      *)
(* after failures, abandoned builds and retries too.                       *)
InSync == Len(owed) <= 1 /\ (owed # <<>> => stream = <<>>)

(* A completed result reports every declared output, with the bytes the    *)
(* build made, stored before, and with metadata the daemon gave.           *)
ArtifactsAsBuilt ==
    result = "completed" =>
        \A o \in Outputs :
            /\ artifacts[o] # None /\ artifacts[o].nar = built[o] /\ objects[o] = built[o]
            /\ mode = "vm" => artifacts[o].metadata

(* The log of a build whose result the worker read is every line the build *)
(* and the daemon printed, in order; a lost one is replaced by a message.  *)
LogComplete ==
    result # "none" /\ logKey /\ mode = "vm" => logObject \in {printed, Message}

(* A fetch ends: with the inputs registered, or with the job failed.  The  *)
(* permits and the order of registration never wait for each other.        *)
FetchEnds == pc = "fetch" ~> pc \in {"outputs", "report"}
=============================================================================
