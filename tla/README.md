# Kubernix in TLA+

Kubernix is a distributed remote builder for Lix. A client asks a frontend for a derivation, the
frontend turns the request into a job on a JetStream work queue, a worker builds it inside its
tenant's VM, and the outputs end up in an object store that PostgreSQL indexes and a garbage
collector prunes. This directory models the parts of that which are concurrent, fail half way or
keep state between requests; it checks them with TLC on small instances and proves the main safety
properties with TLAPS for every instance.

Paths below are relative to `crates/` in the repository unless they begin with another directory.

## 1. The system

| part | state | operations | hard because |
|---|---|---|---|
| **build dispatch** (`server/src/daemon_rpc.rs` `build_derivation`, `server/src/jobs.rs`, `server/src/postgres_store.rs`) | the `jobs` rows, the results stream, one future per call | reserve, dispatch, attach, watch, record the outcome and the outputs, answer | many frontends race for one derivation; INSERT and SELECT are two statements; a client may leave at any await; results come several times, late or never |
| **work queue and job loop** (`worker/src/main.rs`) | the jobs stream, its durable consumers, the loop of every worker | pull, check, boot, fetch, build, retry, escalate, upload, publish, ack or nak | at-least-once delivery, acks per message, heartbeats, workers that die, a different exit for each failure |
| **tenant VMs** (`worker/src/vm.rs`, `worker/src/main.rs`, `guest-agent/`) | one warm VM, an encrypted store image per tenant, the guest's failure state, retry flags | reuse, evict, boot, wipe, fetch inputs, reset, build, query, retry | a guest hangs or dies at any step; state outlives the job that made it |
| **path store** (`server/src/postgres_store.rs`, `store.rs`, `tenant_view.rs`, `daemon_rpc.rs` `NarSink`, `substitute.rs`, `http.rs`) | `store_paths`, `objects`, `path_access`, the bucket | push, record outputs, share, pull through, read | rows and bytes are separate systems; tenants share objects |
| **garbage collector** (`server/src/gc.rs`, `bin/kubernix-gc.rs`) | none of its own but an advisory lock | drain accesses, mark, sweep, reap, expire job logs, reclaim reservations | runs beside all of the above and may stop after any statement |
| **guest** (`guest-agent/`, `guest-init/`, `worker/src/vm.rs`, `worker/src/uid.rs`) | the agent's configuration, two eBPF maps, the attribution, one nix-daemon per connection | boot, bind, push key, substituters and CA, serve, RESET, STATUS?, poll | the poller races RESET; ports are bound one after the other; builds outlive the job that gave up on them |
| **artifact transfer** (`worker/src/main.rs`, `input_fetch.rs`, `upload.rs`, `vm_ops.rs`, `daemon-protocol/`) | download tasks, spools, one connection to the guest's daemon | sort, skip, download, register, build, dump, upload | downloads land in any order; every reply must be read to its last word |
| **access** (`server/src/uploads.rs`, `capability.rs`, `rotate.rs`, `ssh.rs`, `tls.rs`, `admin.rs`) | capability secrets and each frontend's cache of them, tenants, bindings, substituters, trusted CAs | sign, verify, presign, rotate, prune, authenticate, administer | a token signed by one process is verified by another, maybe after rotations; caches and polls are stale |
| substituter existence cache (`server/src/substitute.rs`) | negative and positive answers with a lifetime | HEAD, cache | stale answers |
| store path encoding, hashing, signing | none | encode and decode | sequential, covered by unit tests |

They meet in five places. A frontend's publish is the message a worker pulls. A worker's
`publish_result` is the message every watcher replays. A worker's upload is the object whose row the
frontend writes after the result arrived. The collector reads and deletes the rows and bytes
the others write, with no lock between them. And the token a frontend puts into a job comes back to
any frontend when the worker asks for URLs. Frontends never talk to each other, nor do workers.

What makes each part correct, in one line:

* dispatch: one job in flight per derivation, everybody who waits for it is told the same, what is
  reported is persisted first, every call ends;
* queue: no job is lost, artifacts precede results, a job is built only where it can be and no
  oftener than it was delivered, every job is answered;
* VMs: a tenant sees only its own VM, a build has its inputs, verdicts are about the build they
  name, retries are bounded;
* guest: a job's daemon runs on its tenant's unlocked store with its own configuration, `STATUS?` is
  about the build it was asked about, a hung build is given up;
* transfer: a path is registered after what it refers to and with the recorded bytes, requests and
  replies stay in step, a completed result is complete;
* access: a job's token works wherever and as long as the job needs it, and for nothing else;
* store and collector: bytes of a path in use stay, bytes nobody uses do not pile up, what a live
  path refers to stays.

## 2. Modules

| module | what it models | code |
|---|---|---|
| `BuildDispatch` | `build_derivation` and the `jobs` rows | `daemon_rpc.rs`, `jobs.rs`, `postgres_store.rs`, `gc.rs` (reclaim) |
| `WorkQueue` | JetStream as the workers use it, and the job loop | `worker/src/main.rs` |
| `BuildService` | the two composed at the jobs and results streams | |
| `BuildPromise` | what a client of `buildDerivation` is promised, which `BuildService` implements | |
| `TenantVm` | one worker between accepting a job and reporting it | `vm.rs`, `main.rs`, `guest-agent` |
| `StorePaths` | rows, objects, bytes, recordings, the collector's pass | `gc.rs`, `postgres_store.rs`, `daemon_rpc.rs`, `substitute.rs`, `http.rs` |
| `GuestVm` | the same worker against its guest's agent: boot, pushes, daemons, failure detection | `vm.rs`, `uid.rs`, `guest-agent`, `guest-init` |
| `DaemonWire` | what the worker reads of a nix-daemon's replies, as operators | `daemon-protocol` |
| `Transfer` | one job's inputs, log and outputs, over `DaemonWire` or child processes | `worker/src/*.rs` |
| `Access` | secrets, tokens, URLs, credentials, administration | `uploads.rs`, `capability.rs`, `rotate.rs`, `ssh.rs`, `tls.rs`, `admin.rs` |
| `MC*` | fleets, tenants and keys for TLC | |
| `*Proofs` | inductive invariants and theorems of the component of that name, for all of the above (`DaemonWire`'s are in `TransferProofs`) | |

Definitions keep the names of the code in TLA+'s spelling: `ReserveInsert` is the INSERT of
`reserve_job_db`, `EscalateOom` is `NextAction::EscalateOom`, `guestHangRetried` is
`guest_hang_retried`. `PROJECT.json` maps every definition to the lines it stands for. A definition
under a comment that begins "Mutant:" is not part of the specification: it is a plausible mistake in
the definition after it, kept so that each property can be shown to notice one.

### BuildDispatch

A call draws a fresh job id, so `Calls` names calls and jobs. `status` and `created` are the `jobs`
rows, `pc`, `attempt`, `job`, `got`, `reply` the local state of a call's future, `stream` the
results stream and `valid` the derivations whose outputs are recorded. Each database statement and
each NATS request is a step: `ReserveInsert` and `ReserveSelect` are separate because the code's
are. `Drop` is a dropped future (disconnect or frontend death) at any await point. Workers are
whatever `PublishResult` allows: any outcome, any number of times. "bogus" is a completed result
whose artifacts do not match the derivation's outputs; `record_outputs` refuses it although the row
already says completed. `missed` remembers the calls one of whose best-effort writes failed, which
the code only logs. `DbMayFail` lets every statement fail, the commit of the INSERT included, which
takes the code's fail-open exits.

Time is a counter. `Tick` waits until no call has a step that is `Due`: the steps of a future take
milliseconds, retention and timeouts are hours. Without that assumption a frontend could sleep for
the whole retention between two statements, and properties of the retention would say nothing.

### WorkQueue

`queue[j]` is the list of messages of a job, one more for each escalation. A message is ready,
pending, acked or dead. Acks, naks and heartbeats name the message and not the delivery, as in
JetStream, so a worker that lost its message to redelivery still acks it for everyone. `filter` is
shared by all workers that compute the same durable name, and `Start` overwrites it. The early exits
(`publishEarly`) ack whatever their publish did; the main exit does not. `FailingPublishes` names
the phases whose publish may fail, stored or not. `faults` counts worker deaths and failed publishes
after a build, the two things that use up a delivery without an answer. `MaxCopies` bounds
escalations, `MaxRetries` stands for the three retries TenantVm details.

### BuildService

`SubmitJob` joins `Submit` with `Enqueue` and `ReportResult` joins a worker's publish with
`PublishResult`; every other step is one side's alone.

`BuildPromise` is the abstract specification: verdicts, stored artifacts and answers, with no row,
stream, worker or retry. A job is settled once; as completed only when its artifacts are stored; a
call is answered once, with an error, with the verdict of a settled job of its own tenant and
derivation, or with Built because such a job completed or a substituter has the outputs.
`KeepsPromise` is that the composition implements it, with a job's verdict the first result that was
published of it and the job of an answer the one the call dispatched or attached to.

### TenantVm

One worker, one warm VM. `img` and `store` are a tenant's image and what its Nix database calls
valid; `guest` is the guest's health and `fault` what `STATUS?` answers, with the job in whose time
it happened. `BootVm` ends with a VM that is up or not, `PushKey` and `KeyRejected` with one that is
kept or stopped; each says what it leaves of the image. The retry loop is the code's: `Reset`, a
build that completes, fails or hangs, then `NextAction` on the fault, with `WipeAndReboot` or
`Reconnect` before the next round, and `Upload` before the report. `Reset` may leave the fault where
it is: the code only logs a RESET that failed, and GuestVm shows how a victim gets past one that
worked. `lingering` are the jobs whose builds may go on in a guest that is up after the worker has
left them; they may exhaust it in another job's time. `carried` and `attempts` are history
variables. `Restart` is a new process, which wipes orphaned images first.

### StorePaths

A row is a (tenant, path) pair; a key is what `nar_key` computes, so verified and substituted
objects are shared between tenants and the others are not. Each SQL statement or transaction is a
step and each bucket request another, which is what exposes the windows between them. The advisory
lock admits one collector, so there is one; `Abort` is a pass that breaks off at any point, with the
lock released by the closing connection. Cutoffs are one bit per row (`idle`) that time may set and
an access may clear. Substituters are one source. `uploaded`, `raced`, `settled` and `strays` are
history variables that say which recordings put bytes themselves, which met a sweep, which rows
stem from an upload that met none, and which bytes an abandoned upload left.

### GuestVm

Both sides of the vsock. The agent mounts, attaches its eBPF programs or not, binds the daemon port
and then the control port; the worker polls the first and dials the second once. `agent` is the
configuration the pushes replace, `conn` the nix-daemon spawned with the configuration of that
moment. `victim` and `enospc` are the eBPF maps, `poller` and `lastSeen` the poller that reads a
victim and stores its attribution two steps later, and RESET clears the three places one by one. A
guest that is frozen answers nobody, one in `agentHung` accepts connections and answers nothing.
`abandoned` says whether builds of this attempt, or older ones, go on without their client. A fault
carries whose process it hit and whether it is older than this attempt's RESET: these fields are
history, `reset` and `acked` too.

### DaemonWire and Transfer

A reply is a sequence of words. The readers of `DaemonWire` take the words still to be read and
return the answer and the words they leave, so that a reader that stops early or late leaves the
next one something to misread. NARs have no length of their own and are read by their grammar;
`TreesAssumption`, which TLC evaluates, says that the NARs a build may make are read whole by it and
that none of their prefixes is. In
`Transfer` a reply may end anywhere, with the connection; a retry opens a new one. Downloads race
for the permits, land in any order with the recorded bytes, others or none, and are registered in
the order `TopoSortInputs` gives. With `mode = "serve"` there is no VM: each operation is a child
process.

### Access

Two frontends, each with its secret cache, one database, one rotation, one operator. Object keys are
records of name space, owner and hash, computed by the frontend's formulas and, separately, by the
worker's. `Granted` is what `handle` answers. Derivations of a tenant may declare the same output,
as fixed-output derivations do. A kid drawn from the sequence is positive, a process-local one
negative. One connection per frontend shows every stage: authenticate, register the tenant, seed,
serve, mint. Any statement may fail at the cost of one of `MaxEvents`.

## 3. Runs

Each run takes less than three minutes. `CHECK_DEADLOCK FALSE` appears everywhere because every
system may stop: clients need not ask, and the bounds exhaust what they can ask.

| run | instance | checks |
|---|---|---|
| `dispatch` | two calls for one derivation, failing database, fair | `TypeOK`, `InFlightOnce`, `PersistedBeforeReturned`, `ReplayWindow`, `CompletedIsFinal`, `CallEnds`, `ReservationReleased` |
| `queue` | two kvm workers, an exclusive big-parallel one without kvm, a kvm job, an undecodable one, two deliveries, one death, a publish after the build that may fail, fair | `TypeOK`, `NoJobLost`, `CompletedIsUploaded`, `WorkIsPaidFor`, `EveryJobAnswered` |
| `service` | dispatcher and attacher, one worker that cannot decode one of their jobs, two deliveries, failing publishes | `BuiltIsFetchable`, `Agreement`, `KeepsPromise` |
| `vm_jobs` | three jobs of two tenants, a restart, fair | `TypeOK`, `OwnVm`, `FirstBuildHasInputs`, `VerdictIsEarned`, `JobReported` |
| `guest` | three jobs of two tenants, two faults, guests that freeze, die or hang, fair | `TypeOK`, `OwnDaemon`, `StatusIsThisBuilds`, `HangNoticed`, `JobGetsOn` |
| `transfer` | three inputs in eleven reference graphs, two permits, two outputs, with and without a VM, fair | `TypeOK`, `OrderRespected`, `InSync`, `ArtifactsAsBuilt`, `LogComplete`, `FetchEnds` |
| `access` | two tenants, two derivations with a fixed output in common, one with another of its own, a key and a CA, two secrets, three events, fair | `TypeOK`, `TokenHonoured`, `OwnArtifactsOnly`, `RootsConverge` |
| `store_gc` | two tenants with a shared path, one of them with a path that refers to it; two recordings, one queued access, one failure, fair | `TypeOK`, `UploadedIsKept`, `BytesAreNamed`, `ReferencedIsKept`, `LimboEnds` |
| `ghost_reservation` | a dispatcher and an attacher | violated: `AttachedJobIsDispatched` |
| `lost_job` | one worker whose publishes on the exits that ack anyway may fail | violated: `NoJobLost` |
| `retry_without_inputs` | one job | violated: `BuildHasInputs` |
| `lost_bytes` | two recordings, one at a time, of a path two tenants share | violated: `LiveHasBytes` |

Why the bounds are enough:

* Two calls per key are what a race needs; `LastStart = 2` with `Retention = 1` lets a second call
  start before, at and after the moment the first one's reservation becomes stale, and `MaxTime` is
  late enough for the reclaim of the last reservation.
* One result per job suffices where only its presence matters. `service` allows two, from two
  deliveries, so that watchers could disagree.
* With one job and two workers behind one consumer, redelivery to the other worker, to the same one
  and, once escalated, to one that cannot build it all happen; with two deliveries the last one is
  reached after one fault. The escalated copy is the second message. One death in `queue` is the
  property's assumption, not only a bound: see section 6.
* Three jobs are one tenant's job, the same tenant's next one on a warm VM, and another tenant's
  between or around them. The retry flags need no more than one job.
* In `store_gc` two recordings overlap each other and the pass, which may break off once, anywhere;
  one queued access is what it takes to resurrect a marked row. Three rows are the least with a
  shared object and a reference.

* In `guest` two faults are what it takes for one to be carried past a RESET or to hide another;
  three jobs are a job, its tenant's next one on the same guest and another tenant's.
* Three inputs have chains in every order of the wire, forks, a reference to itself and a cycle;
  with two permits a download waits for another. Two outputs let the second fail after the first.
* In `access` a retention of two cache lifetimes is the least that leaves a token any time; three
  ticks reach past it. Two secrets let one be rotated out and pruned. Three events are a rotation, a
  second one that prunes, and a failure or restart; or an operator's change, its reversal and a
  failed poll.

No run uses symmetry. One derivation in `dispatch` cannot show that keys are kept apart, and three
calls are out of TLC's reach; `ValidIsBackedHolds` proves it for any number of keys.

Fairness, and why the code justifies it:

* `BuildDispatch`: a frontend polls its futures, so a call whose next statement or request can be
  made makes it, and `tokio::time::timeout` fires; the collector reclaims on every interval
  (`kubernix-gc.rs`); time passes. Nothing is assumed of clients, who may leave, or of workers, who
  may never answer.
* `WorkQueue`: Kubernetes restarts a worker, each step of the job loop returns, JetStream delivers
  what is ready and its `ack_wait` timers fire. Crashes, naks and failures are never forced.
* `TenantVm`: weak fairness of the loop as a whole, except where it waits for a guest that hangs.
  Boots have a deadline and a build has the heartbeat monitor's; nothing else has: `push_key`, the
  other pushes, the daemon's greeting, the import of the inputs, RESET, `STATUS?` and the dump of
  the outputs return when the guest answers or is gone. Fairness says nothing about how.
* `GuestVm`: the same, with every call to a frozen guest or a hung agent (`Stuck`) left without
  fairness. A build may take for ever; the heartbeat monitor has its own timer. Nothing is assumed
  of the guest, neither that it boots nor that its poller runs.
* `Transfer`: something goes on as long as anything can. The object store and the guest answer or
  close the connection; the code has no deadline on either, so this is an assumption about them.
* `Access`: mtlsd polls for its CAs as long as it runs.
* `StorePaths`: weak fairness of the pass as a whole. The collector starts one every interval and a
  failed one is followed by another; that only finitely many fail is the bound `MaxFailures`.

## 4. What the properties say

**BuildDispatch.** `InFlightOnce` is the point of the reservation: two jobs of one key without a
result are in flight together only if one is past its retention or was dispatched on a fail-open
exit. `PersistedBeforeReturned` orders the answer after the row and the recorded outputs, for every
watcher and after a steal or a reclaim, with a failing database: only a call whose own write failed
is excepted. `ReplayWindow` is why results and reservations share one retention: whoever may still
attach can still find the first result. `Agreement` says that dispatcher and attachers never tell
their clients different things. `CompletedIsFinal`, `CallEnds` and `ReservationReleased` are about
the rows and calls of the same runs. `ValidIsBacked`, a theorem, says that attaching never crosses
tenants or derivations.

**WorkQueue.** `NoJobLost` relates acks to results: a message goes only after something replaces it.
`CompletedIsUploaded` is about the order of upload and publish. `WorkIsPaidFor` bounds the work on a
job, results and workers at it together, by its deliveries, although messages are redelivered under
live workers in the phases without a heartbeat. `EveryJobAnswered` says exactly when max_deliver may
end a job in silence: after as many faults as deliveries, or after one if some worker has to refuse
the job. `BuiltOnCapableWorker`, a theorem, holds whatever filter the shared consumer happens to
have.

**BuildService.** `BuiltIsFetchable` is end to end: a client told Built by way of a job can fetch
what that job built. `KeepsPromise` is the refinement described above: a watcher
that answers with a later result than the first, or a frontend that records the outputs of a failed
job and tells the next caller Built, takes no step of `BuildPromise`.

**TenantVm.** `OwnVm` and `VerdictIsEarned` are about state that outlives its job. The latter is
what is true of "scoped to *this* build": a resource verdict or an escalation is about a fault in
the job's own time, or else a RESET left something or a build went on, and even then the fault is an
earlier job's of the same tenant. `FirstBuildHasInputs` is about what earlier jobs left half
imported; `JobReported` about the three kinds of retry in any mixture, and about the two ways a job
may be held up: a build that does not end, and a guest that hangs where the worker has no deadline.
`TypeOK` includes that a delivery is built four times at most. `FreshMeansEmpty` is a theorem.

**GuestVm.** `OwnDaemon` survives the race between the ports and every failed push.
`StatusIsThisBuilds` takes RESET apart, which TenantVm has as one step: there are two ways around a
RESET that went through and no third. `HangNoticed` and `JobGetsOn` say that a hung or frozen guest
is given up in a build, and can hold a worker only outside one, in a call without a deadline.
`TypeOK` includes that no two images on disk have the same owner.

**Transfer.** `OrderRespected` holds for every graph and arrival order, with skipped inputs.
`InSync` is about readers that must consume a reply exactly, retries and abandoned builds included.
`ArtifactsAsBuilt` and `LogComplete` say what a completed result and a log key stand for.
`FetchEnds` is that the permits and the order of registration do not wait for each other.

**Access.** `TokenHonoured` composes the cache lifetime, the rotation, the pruning, the restarts and
the two crates' key formulas: a persisted secret's token works at every frontend for the retention
less one cache lifetime. `OwnArtifactsOnly` is the other direction, with the one exception the
code has: an output that two derivations of a tenant both declare. `RootsConverge` is about
polling.

**StorePaths.** `UploadedIsKept` is the collector's safety for rows whose bytes were uploaded with
no sweep in between. The restriction is where the code's guarantee ends: `LiveHasBytes`, without it,
is violated. `BytesAreNamed` is the order of the sweep, bytes before row, since nothing lists the
bucket. `ReferencedIsKept` is the closure of `mark_expired`. `LimboEnds` is that broken-off passes
are made up for.

## 5. Proofs

`tlapm` checks, for every value of the constants that satisfies the named assumptions:

| module | theorems | assumptions used |
|---|---|---|
| `BuildDispatchProofs` | `TypeCorrect`, `AgreementHolds`, `ReplayWindowHolds`, `InFlightOnceHolds`, `CompletedIsFinalHolds`, `ValidIsBackedHolds`, `PersistedHolds` | `CallsAssumption`, `TimeAssumption`, `FailureAssumption` |
| `WorkQueueProofs` | `TypeCorrect`, `NoJobLostHolds`, `CompletedIsUploadedHolds`, `BuiltOnCapableWorkerHolds` | `FleetAssumption`, `BoundAssumption`; `NoJobLostHolds` where only the publish after a build may fail |
| `BuildServiceProofs` | `AgreementHolds`, `BuiltIsUploadedHolds`, `BuiltIsFetchableHolds`, `PromiseKept` | `FrontendAssumption`, `FleetAssumption` (the assumptions of both sides); `BuiltIsFetchableHolds` for `DbMayFail = FALSE` |
| `TenantVmProofs` | `TypeCorrect`, `OwnVmHolds`, `FreshMeansEmptyHolds`, `FirstBuildHasInputsHolds`, `VerdictIsEarnedHolds` | `JobsAssumption`, `ConfigAssumption` |
| `GuestVmProofs` | `TypeCorrect`, `OwnDaemonHolds`, `StatusIsThisBuildsHolds` | `JobsAssumption`, `BoundsAssumption` |
| `TransferProofs` | `TypeCorrect`, `TopoSorted`, `RefusesCycles`, `OrderRespectedHolds`, `InSyncHolds`, `ArtifactsAsBuiltHolds`, `LogCompleteHolds` | `CountsAssumption`, `GraphsAssumption`, `TreesAssumption`, `NoneAssumption` |
| `AccessProofs` | `TypeCorrect`, `CurrentSecret`, `CachedSecretsKept`, `TokensHonoured`, `UploadsConfined` | `TimesAssumption` (the cache lifetime is shorter than the retention), `NamesAssumption`, `DrvsAssumption` (each derivation has a set of outputs; they may overlap) |
| `StorePathsProofs` | `TypeCorrect`, `UploadedIsKeptHolds`, `BytesAreNamedHolds`, `ReferencedIsKeptHolds` | `RowsAssumption`, `LimitAssumption` |

Each module has one inductive invariant `IInv`, which TLC checked before it was proved, lemmas that
each action, or each step for one part of it, preserves it, and theorems that read a property off
it.

* **BuildDispatch.** None of the properties is inductive. `Agreement` needs that every outcome a
  call received is the *first* result of its job (`GotIsFirst`), hence that the first one is
  replayable for whoever is attached (`FirstIsReplayable`), hence that nobody attaches to a stale
  row (`NoStaleConflict`, which is where Tick's urgency enters) and that a row is older than its
  results (`ResultAfterRow`, `RowsInThePast`). `CompletedIsFinal` follows from the same fact: a
  completed row's job has a first result that says so (`CompletedHasResult`), and every later
  recording is of that result. `InFlightOnce` needs `OneRunning`, the partial unique index, and
  `HeldUntilResolved`: a job without a result has its row unless staleness took it. `NotSubmitted`,
  `AttemptBound` and `JobOfSameKey` are bookkeeping. `PersistedBeforeReturned` has an invariant of
  its own on top, `PInv`: a call that has recorded a completed outcome, and whose write worked, has
  its job's row completed, and completed rows stay (`CompletedKept`). `PInvByCall` splits it by
  call, so that a step is checked for the call it is of and `PInvUntouched` does the others.
* **WorkQueue.** An ack still to come must already be harmless: `Handoff` says of every worker about
  to ack and of every acked message that the job has a result or a later copy. `Reportable` says the
  same of a worker about to publish and the uploaded artifacts. The lemmas `*Evolves` describe once
  what each operation may do to the messages, so that late acks of redelivered messages need no
  special case.
* **BuildService.** `BothSides`: each step of the whole is a step of the frontends or leaves them
  alone, and the same of the fleet, so both sides' invariants hold of the whole. What neither side
  can say is `SameResults`: the stream the frontends replay is, result by result, what the workers
  published. Built means that the first result said completed (`GotIsFirst`), a completed result
  means uploaded artifacts (`CompletedIsUploaded`), and the row is the one `PersistedBeforeReturned`
  promises, unless its write failed: with a failing database `BuiltIsUploadedHolds` says what is
  left. `PromiseKept` maps each step: a first result settles its job, and needs
  `CompletedIsUploaded`; an answer needs `GotIsFirst` for its verdict, and `ValidIsBacked` when it
  is Built with no job.
* **TenantVm.** `Images` (only formatted images hold paths), `InputsKept`, `WipeIsFlagged` (a wipe
  only after a flag was set), `AttemptsCounted` (attempts equal the flags that are set, plus one
  during a build). `Blame`: whatever the guest reports or may still do is a job's of the tenant the
  VM is booted for, and unless this attempt is marked as carrying something it is the job at hand's.
* **GuestVm.** `Owners`: uids are handed out in order, so that no two are the same as long as the
  range lasts, and an image on disk has one. `OwnVm` and `OwnList` follow the tenant from the boot
  through every push, `OwnConn` keeps what a daemon took over when it was spawned. `Recorded` is
  what RESET achieves as it goes: each of the three places it clears holds, from its own step on,
  nothing older than this attempt, except what the poller carries across (`carried`) and what an
  abandoned build does (`overlap`); `Status` reads these places.
* **Transfer.** First what the operators compute, for every input. Kahn's algorithm: after any
  number of steps everything taken comes after its references, everything queued has its references
  taken, nothing was queued or taken twice, and an input whose references are taken is there
  (`Kahn`). After as many steps as there are inputs nothing is queued, so what is left over is a set
  in which each input refers to another (`RefusesCycles`). The readers: a whole reply is read to its
  end, and of a reply cut short at any word nothing is taken for an answer (`Whole`, one lemma per
  operation). The invariant rests on `Wire`: either no reply is due and none of an earlier one is
  left, or the one asked for is, and if it can be read then what it says is so (`Faithful`): a path
  reported valid or added is in the store, a build reported as succeeded has its outputs, the log is
  what was printed, the NAR is what was built. Only a job that has failed leaves words or a request
  behind, and it never asks again. From `Faithful` follow `Ordered` (each input left to register
  comes after its references, or the store has them), `Uploading` (what is collected was dumped,
  stored and described in turn) and `Logged`. `Fetching` and `Bounded` are about the downloads:
  only bytes that were recorded wait to be registered, and pending tasks and results together never
  outnumber the inputs.
* **Access.** `LatestCurrent` says which row survives a pruning: the last kid drawn, if any is left,
  was never rotated out. `SecretsKept` gives every secret that is cached, or that a job was signed
  with, the time it was last known to be current: it is in the database, or the retention has passed
  since. A rotation stamps the present on it, a pruning only takes what was stamped a retention ago,
  and a cached secret signs for one cache lifetime. `TokenHonoured` is arithmetic from there, and
  `WorkerKeysPermitted` for the keys. `OwnArtifactsOnly` rests on `AllowedIsOwn`: what a
  token allows is the log and the declared outputs of its own job.
* **StorePaths.** `ForeignKey` and `Backed` are about rows at rest, and marked rows must be backed
  too, because a drain may resurrect them. During a sweep, `NotChosen` keeps the sweep's choice
  apart from settled live rows and `Tombstoned` makes a resurrection impossible once the bytes are
  being deleted. `Disturbed` and `Undisturbed` connect the sweep with recordings under way. `Named`
  and `Reappeared` are the counterpart for bytes. `ReferencedIsKept` needs only that a reachable set
  is closed (`ReachFacts`) and that nothing but `MarkExpired` marks (`OnlyMarking`).

Recursion. The library's induction schemes take an operator as a parameter and cannot be used with
these provers, but `WFMin`, that every set of naturals has a least element, has none: `LeastOf`,
`SetInduction` and `Recursion` in `TransferProofs` derive from it induction over a set and the
existence of a function defined by its value at 0 and its step. `Keep` and `TopoSortInputs` are such
functions. No module that is proved about uses RECURSIVE: `Reach` is the least closed superset
instead of a recursion over `refs`, which is also what SQL's `UNION` computes.

Only model-checked: everything temporal under fairness (`CallEnds`, `ReservationReleased`,
`EveryJobAnswered`, `JobReported`, `HangNoticed`, `JobGetsOn`, `FetchEnds`, `RootsConverge`,
`LimboEnds`), which this prover does not reach; and `TreesAssumption`, that `CopyNar` takes the NARs
of a build whole and none of their prefixes. It is a statement about a recursion through directories
of any depth; TLC evaluates it for the trees of the instance. So is `WorkIsPaidFor`, which
counts workers and results. Every other invariant and action property of a passing run, and the
refinement `KeepsPromise`, has a theorem.

## 6. Where the code and its documentation disagree

Four runs end in a violation; each shows a short behaviour of the code as it is.

* `ghost_reservation`: a reservation is committed, then the dispatch fails or the client leaves.
  The row stays `running` for a job nobody submitted, and until the retention passes every later
  call attaches to it and waits for its timeout. `postgres_store.rs:1120`: "a dedup optimization
  must never itself be the reason a build cannot be dispatched".
* `lost_job`: the early exits and the escalation log a failed publish and ack the message.
  `worker/src/main.rs:1065`, of the main exit: "Not acked: let it be redelivered rather than lose
  the job".
* `retry_without_inputs`: `wipe_and_reboot` empties the store and the loop goes straight to
  `run_build`. `worker/src/main.rs:160`: "the whole point is that a worker on another machine has
  the closure it needs".
* `lost_bytes`: a worker uploads an output once and two watchers of its job record it. Between the
  two recordings the row expires, is marked, and the sweep chooses the object; the second recording
  makes the row live again, and the sweep, which does not look again, deletes its bytes
  (`gc.rs:345`). `gc.rs:307`: "at no instant is a client looking at a path whose bytes are being
  removed". The same window is open to a share, and to a push that skips its upload because
  `object_known` said so (`store.rs:276`).

Others that were met while modelling and have no run of their own:

* A result may be younger than its reservation, so a stale reservation can still have a replayable
  result; `store.rs:412-416` says "any result it could have produced would already be evicted from
  NATS by then". The steal then builds a second time.
* A `record_path` that fails is only logged (`daemon_rpc.rs:483`) and the client is still told
  Built. `PersistedBeforeReturned` excepts exactly these calls.
* `max_deliver` is also used up by deaths and by naks of workers that cannot build the job; a
  message that ends this way is never reported, although `worker/src/main.rs:623-626` promises a
  reported failure "instead of a silently exhausted consumer". A kvm job escalated to a big-parallel
  worker without kvm is the sharp case: its naks use up the deliveries, and then one death is
  enough.
* A nak names the message, not the delivery, so a worker that lacks a feature and naks late
  (`worker/src/main.rs:663`) reopens a message another worker is building.
* Workers with different classes that share the durable consumer overwrite each other's filter;
  `worker/src/main.rs:1163` says "classes only ever widen what's handled". The chart's comment
  (`charts/kubernix/templates/_worker.tpl:132-135`) knows this of `max_ack_pending` only.
* A redelivered job may be escalated twice, against "the one kvm->big-parallel escalation hop"
  (`protocol/kubernix.capnp:14`), and nothing checks that some worker serves the subject a job is
  escalated to (`worker/src/main.rs:1035-1037`).
* "Scoped to *this* build" (`vm.rs:1016-1018`) can fail in three ways: a failed RESET is only logged
  and the build goes ahead (`worker/src/main.rs:846-850`); a victim the poller was looking up may be
  stored after RESET cleared the attribution; and a build whose client is gone goes on beside the
  next. `VerdictIsEarned` and `StatusIsThisBuilds` state what is left.
* Only the fetch and the build have an ack heartbeat, so a boot, a reboot or an upload that outlasts
  `ack_wait` has its job given to a second worker while the first is alive.
  `worker/src/main.rs:10-12` says redelivery "only actually happens once the worker itself has gone
  quiet", and 854-856 that "a live worker never loses the job to redelivery".
* A guest that hangs outside a build holds its worker for good: none of the calls there has a
  deadline, and in the fetch the ack heartbeat keeps the message from every other worker meanwhile
  (`worker/src/main.rs:793-804`).
* Two fixed-output derivations of a tenant may declare the same output (`daemon_rpc.rs:1193-1213`),
  and then two jobs may be given upload URLs for one object, where `uploads.rs:369-372` says "one of
  this job's own verified outputs [...] otherwise a worker could still overwrite some other job's
  output within its own tenant". Input-addressed paths are taken as the derivation declares them.
* A FRESH boot that fails before the guest formats the image leaves a file that every later boot
  takes for a formatted one (`vm.rs:1422`), so every later job of the tenant fails at `push_key`
  until the worker restarts and wipes the image; `guest-agent/src/main.rs:605` says "Present already
  on `REUSE` (persisted in the ext4 filesystem from a prior `FRESH`)".
* The readiness poll dials the daemon port, which the agent binds before the control port;
  `push_key` dials the latter once, so a boot may fail for a guest that is fine.
* A failed push of substituters leaves the guest with the previous job's, where the log says "it
  will substitute from none" (`worker/src/main.rs:730`); and after `wipe_and_reboot` nothing but the
  key is pushed again.
* `is_in_build_cgroup` reads `build/cgroup.procs` alone, so a builder that Lix puts in a cgroup
  below it counts as a process outside builds. `ebpf.rs:65-68` calls a failed attachment fatal; the
  caller goes on without detection.
* The HTTP transfers have no deadline either; the agent's receive buffer has 4096 bytes while a
  frame may have 1 MiB; `UidAllocator::release` is never called.
* When the result of a build cannot be read, its collected log is replaced by the error
  (`worker/src/main.rs:1609-1617`, against 1477-1478); without a VM the log ends at the first line
  that is not UTF-8, and `query_path_metadata` ignores the exit status of its second query
  (`upload.rs:426-484`). No heartbeat runs during `upload_artifacts`, and a redelivered job
  overwrites the same `nar_key`.
* A secret stays in `by_kid` for the life of the process, so a frontend honours tokens past the
  retention; `kubernix-rotate-capability-secret.rs:19` says otherwise. A transient error of the
  SELECT makes a frontend insert one more current secret. Tokens signed with a process-local secret
  are honoured only by the frontend that minted them. Sessions outlive the deletion of their
  credential, and the URL service is not restarted when it stops.
* Connecting re-seeds the default substituter an operator removed (`daemon_rpc.rs:314`,
  `postgres_store.rs:337-387`), although `postgres_store.rs:353-356` and `admin.rs:118-124` say it
  is never re-inserted.
* The upstream route's pull-through (`http.rs:376`, `substitute.rs:190`) overwrites a verified or
  built row with a substituted one, against "A path we already vouch for must not be demoted"
  (`daemon_rpc.rs:1591`). `VouchedStaysVouched` states it and does not hold.
* `mark_expired` has no cutoff for the substituted tier (`gc.rs:264-268`): such rows never expire,
  and neither do they protect what they refer to. `ReferencedIsKept` leaves them out.
* An access recorded between the drain and the mark does not help in that pass;
  `daemon_rpc.rs:784-787` says it is recorded "so a path is not collected in the window between the
  two".
* A live row whose `object_key` a race set to NULL is marked in the end but never purged or reaped:
  the sweep starts from objects, and the reap from purging rows. `LimboEnds` is stated for rows with
  a key.
* The HTTP `nar` route rebuilds `{tenant}/nar/{file}` (`http.rs:292`) while a verified path's object
  is `nar/{hash}.nar.zst` (`store.rs:625`). Routes are not modelled.
* A job log's key is shared by all builds of a tenant's derivation, so expiring an old job's log
  deletes a newer one's (`gc.rs:407`). Not modelled.

## 7. Not modelled

* Store path encoding, hashing, signing of narinfo, compression: functions of single values.
* The HTTP routes, the stdio proxy, `auth_none` and `AcceptAll`: the last two are for development
  (`KUBERNIX_SSH_ACCEPT_ALL`) and take a client's user name for its tenant, unverified.
* Row-level security and `MemoryStore`: the first is a property of SQL text, the second the
  in-memory store of the tests.
* Log publishing and relaying while a build runs: lossy by design, decides nothing.
* Job log retention, and the substituters' HEAD cache, whose answers are a free choice where they
  are used.
* `KUBERNIX_RESET_STREAMS`, a manual operation on the whole stream.
* The guest's page cache: a VM that is killed may lose what its store database calls valid.
* Framing and lengths of words; the hypervisor's, passt's and cryptsetup's command lines.

## 8. Plan

Done, in the order of the build's own path through the system: BuildDispatch, WorkQueue, TenantVm,
BuildService, StorePaths, then GuestVm, DaemonWire and Transfer, and Access; proofs of all of them.
What is left, in order:

1. `TreesAssumption` for every tree: NARs by depth, and `CopyNode` by induction over it.
2. `WorkIsPaidFor` for every fleet, which takes a bijection between deliveries and holders;
   `GuestVm` as a refinement of `TenantVm`, with RESET's three steps mapped to one.
3. `JobLogs`: `record_job_outcome`'s log key against `mark_expired_job_logs` and `sweep_job_logs`;
   the substituters' existence cache.
4. Abstract specifications: a job queue that answers each job at least once, for WorkQueue to
   implement; a store in which a path is present or absent, for StorePaths without races.
