----------------------------- MODULE StorePaths -----------------------------
(***************************************************************************)
(* The path store and its garbage collector: the tables store_paths,       *)
(* objects and path_access, the bucket that holds the bytes, everything    *)
(* that records a path (a client's push, a build's outputs, a path shared  *)
(* from another tenant or pulled through from a substituter), and the pass *)
(* kubernix-gc runs beside all of that.                                    *)
(*                                                                         *)
(* A row is a (tenant, path) pair.  Each SQL statement or transaction is   *)
(* one step, each request to the bucket another.  The advisory lock lets   *)
(* one collector work at a time, so there is one.                          *)
(*                                                                         *)
(* Cutoffs are reduced to one bit per row: idle says that last_access is   *)
(* past the cutoff of the row's tier.  Substituters are one source.        *)
(***************************************************************************)
EXTENDS Integers, Sequences, FiniteSets

CONSTANTS
    Rows,          \* (tenant, path) pairs
    Refs,          \* the references of each path
    Ingests,       \* recordings that may be under way at once
    BatchSize,     \* KUBERNIX_GC_BATCH
    MaxMarks,      \* bound: queued access marks
    MaxIngests,    \* bound: recordings begun
    MaxFailures,   \* bound: passes that break off and deletions that fail
    AnyTenant,     \* the tenant of a key that carries none
    NoKey          \* object_key IS NULL

Tenants == {r[1] : r \in Rows}
Paths == {r[2] : r \in Rows}
Tiers == {"verified", "built", "quarantined", "substituted"}
Vouchable == {"verified", "built"}

(* nar_key and substituted_nar_key: two tiers share objects across tenants *)
SharedTiers == {"verified", "substituted"}
Key(r, tier) ==
    [tier |-> tier, path |-> r[2],
     tenant |-> IF tier \in SharedTiers THEN AnyTenant ELSE r[1]]
Keys == {Key(r, tier) : r \in Rows, tier \in Tiers}

ASSUME RowsAssumption ==
    /\ \A r \in Rows : r = <<r[1], r[2]>>
    /\ Refs \in [Paths -> SUBSET Paths]
    /\ NoKey \notin Keys
ASSUME LimitAssumption ==
    /\ BatchSize \in Nat \ {0}
    /\ MaxMarks \in Nat /\ MaxIngests \in Nat /\ MaxFailures \in Nat

VARIABLES
    row,       \* store_paths: state ("none" where there is no row), tier, key
    idle,      \* whether last_access is past the cutoff
    marks,     \* path_access, oldest first
    objects,   \* the objects table
    bytes,     \* what the bucket holds
    ipc,       \* where each recording is
    item,      \* the row and tier it records, under which key
    begun,     \* recordings begun so far
    gpc,       \* where the collector is in its pass
    todo,      \* candidates it has not handled
    current,   \* the candidate at hand
    failures,
    uploaded,  \* history: recordings that put their bytes themselves
    raced,     \* history: recordings that met a sweep
    settled,   \* history: rows last recorded by an upload that met no sweep
    strays     \* history: keys of uploads that were given up or met a sweep

rowVars == <<row, idle, marks>>
ingestVars == <<ipc, item, begun, uploaded>>
gcVars == <<gpc, todo, current, failures>>
historyVars == <<raced, settled, strays>>
vars == <<row, idle, marks, objects, bytes, ipc, item, begun, gpc, todo,
          current, failures, uploaded, raced, settled, strays>>

Row == [state : {"none", "live", "marked", "purging"}, tier : Tiers,
        key : Keys \cup {NoKey}]
NoRow == [state |-> "none", tier |-> "quarantined", key |-> NoKey]
Item == [row : Rows, tier : Tiers, key : Keys]
Sweeping == {"sweep", "delete", "drop"}

TypeOK ==
    /\ row \in [Rows -> Row]
    /\ idle \in [Rows -> BOOLEAN]
    /\ marks \in Seq(Rows)
    /\ objects \subseteq Keys /\ bytes \subseteq Keys
    /\ ipc \in [Ingests -> {"idle", "check", "upload", "record"}]
    /\ item \in [Ingests -> Item \cup {NoKey}]
    /\ \A i \in Ingests : ipc[i] # "idle" => item[i] \in Item
    /\ gpc \in {"idle", "mark", "select"} \cup Sweeping
    /\ todo \subseteq Keys
    /\ gpc \in {"delete", "drop"} => current \in Keys
    /\ begun \in Nat /\ failures \in Nat
    /\ uploaded \subseteq Ingests /\ raced \subseteq Ingests
    /\ settled \subseteq Rows /\ strays \subseteq Keys

Init ==
    /\ row = [r \in Rows |-> NoRow]
    /\ idle = [r \in Rows |-> FALSE]
    /\ marks = <<>>
    /\ objects = {} /\ bytes = {}
    /\ ipc = [i \in Ingests |-> "idle"]
    /\ item = [i \in Ingests |-> NoKey]
    /\ gpc = "idle" /\ todo = {} /\ current = NoKey
    /\ begun = 0 /\ failures = 0
    /\ uploaded = {} /\ raced = {} /\ settled = {} /\ strays = {}

Live(r) == row[r].state = "live"
SetState(S, state) == row' = [r \in Rows |-> IF r \in S THEN [row[r] EXCEPT !.state = state]
                                             ELSE row[r]]

-----------------------------------------------------------------------------
(* Recording a path.                                                       *)

Start(i, r, tier, key, where) ==
    /\ ipc[i] = "idle"
    /\ begun < MaxIngests
    /\ begun' = begun + 1
    /\ ipc' = [ipc EXCEPT ![i] = where]
    /\ item' = [item EXCEPT ![i] = [row |-> r, tier |-> tier, key |-> key]]
    /\ raced' = IF gpc \in Sweeping THEN raced \cup {i} ELSE raced
    /\ UNCHANGED <<rowVars, objects, bytes, uploaded, gcVars, settled, strays>>

(* addToStoreNar: NarSink::finalize settled the tier, the content address  *)
(* checked or the tenant accepting unverified pushes.                      *)
Push(i, r) ==
    \E tier \in {"verified", "quarantined"} : Start(i, r, tier, Key(r, tier), "check")

(* A worker begins to upload an output of a job.                           *)
UploadOutput(i, r) == Start(i, r, "built", Key(r, "built"), "upload")

(* upstream_narinfo serves a live substituted row as it is.                *)
Cached(r) == Live(r) /\ row[r].tier = "substituted" /\ row[r].key \in objects

(* resolve_from_one, on the daemon protocol or the upstream route: no      *)
(* shared row to take, or recording it failed, so fetch_one pulls the path *)
(* through.                                                                *)
Fetch(i, r) == ~Cached(r) /\ Start(i, r, "substituted", Key(r, "substituted"), "upload")

(* find_verified_by_hash_part, find_substituted_by_hash_part: some         *)
(* tenant's live row of that tier with an object behind it.                *)
Find(r, tier) ==
    {s \in Rows : s[2] = r[2] /\ Live(s) /\ row[s].tier = tier /\ row[s].key \in objects}

(* resolve_verified, or resolve_from_one's shared hit.                     *)
Share(i, r) ==
    \E tier \in SharedTiers : \E s \in Find(r, tier) :
        /\ IF tier = "verified" THEN ~Live(r) ELSE ~Cached(r)
        /\ Start(i, r, tier, row[s].key, "record")

Goto(i, where) ==
    /\ ipc' = [ipc EXCEPT ![i] = where]
    /\ UNCHANGED <<item, begun, raced>>

(* The recording is over.                                                  *)
End(i) ==
    /\ ipc' = [ipc EXCEPT ![i] = "idle"]
    /\ item' = [item EXCEPT ![i] = NoKey]
    /\ uploaded' = uploaded \ {i}
    /\ raced' = raced \ {i}
    /\ UNCHANGED begun

(* finalize before the upload: a vouched-for path is not demoted, ...      *)
KeepVouched(i) ==
    /\ ipc[i] = "check"
    /\ item[i].tier = "quarantined"
    /\ Live(item[i].row) /\ row[item[i].row].tier \in Vouchable
    /\ End(i)
    /\ UNCHANGED <<rowVars, objects, bytes, gcVars, settled, strays>>

(* ... and a verified object that is known is not uploaded again.          *)
DecideUpload(i) ==
    /\ ipc[i] = "check"
    /\ ~(/\ item[i].tier = "quarantined"
         /\ Live(item[i].row) /\ row[item[i].row].tier \in Vouchable)
    /\ Goto(i, IF item[i].tier = "verified" /\ item[i].key \in objects
               THEN "record" ELSE "upload")
    /\ UNCHANGED <<rowVars, objects, bytes, uploaded, gcVars, settled, strays>>

Upload(i) ==
    /\ ipc[i] = "upload"
    /\ bytes' = bytes \cup {item[i].key}
    /\ uploaded' = uploaded \cup {i}
    /\ Goto(i, "record")
    /\ UNCHANGED <<rowVars, objects, gcVars, settled, strays>>

(* upsert_path_inner, one transaction: the row is live again, whatever GC  *)
(* made of it.                                                             *)
Upsert(r, tier, key) ==
    /\ row' = [row EXCEPT ![r] = [state |-> "live", tier |-> tier, key |-> key]]
    /\ idle' = [idle EXCEPT ![r] = FALSE]
    /\ objects' = objects \cup {key}

Record(i) ==
    /\ ipc[i] = "record"
    /\ Upsert(item[i].row, item[i].tier, item[i].key)
    /\ settled' = IF i \in uploaded \ raced THEN settled \cup {item[i].row}
                                            ELSE settled \ {item[i].row}
    /\ strays' = IF i \in raced THEN strays \cup {item[i].key} ELSE strays
    /\ UNCHANGED <<marks, bytes, gcVars>>

RecordPath(i) == Record(i) /\ End(i)

(* record_outputs: every watcher of a job records what the worker uploaded *)
(* once, and this is not the last of them.                                 *)
RecordForWatcher(i) ==
    /\ ipc[i] = "record"
    /\ item[i].tier = "built"
    /\ begun < MaxIngests
    /\ begun' = begun + 1
    /\ Record(i)
    /\ UNCHANGED <<ipc, item, uploaded, raced>>

(* The upload or the transaction failed, the client or frontend is gone,   *)
(* or the job's result was not one to record.                              *)
Abandon(i) ==
    /\ ipc[i] # "idle"
    /\ strays' = IF i \in uploaded THEN strays \cup {item[i].key} ELSE strays
    /\ End(i)
    /\ UNCHANGED <<rowVars, objects, bytes, gcVars, settled>>

-----------------------------------------------------------------------------
(* Reading a path, and time.                                               *)

(* narinfo, queryPathInfo or narFromPath found the row live; by the time   *)
(* the access is recorded it may be marked.                                *)
RecordAccess(r) ==
    /\ row[r].state # "none"
    /\ Len(marks) < MaxMarks
    /\ marks' = Append(marks, r)
    /\ UNCHANGED <<row, idle, objects, bytes, ingestVars, gcVars, historyVars>>

(* The row's last_access falls behind its cutoff.                          *)
Expire(r) ==
    /\ row[r].state # "none" /\ ~idle[r]
    /\ idle' = [idle EXCEPT ![r] = TRUE]
    /\ UNCHANGED <<row, marks, objects, bytes, ingestVars, gcVars, historyVars>>

-----------------------------------------------------------------------------
(* run_gc_pass.                                                            *)

(* drain_access_queue: the oldest marks are folded into last_access and a  *)
(* marked row is resurrected.  A mark may itself be past the cutoff.       *)
Drain ==
    /\ gpc = "idle"
    /\ LET n == IF Len(marks) < BatchSize THEN Len(marks) ELSE BatchSize
           claimed == {marks[m] : m \in 1 .. n}
       IN /\ marks' = SubSeq(marks, n + 1, Len(marks))
          /\ SetState({r \in claimed : row[r].state = "marked"}, "live")
          /\ \E old \in SUBSET claimed :
                idle' = [r \in Rows |-> idle[r] /\ (r \in claimed => r \in old)]
    /\ gpc' = "mark"
    /\ UNCHANGED <<objects, bytes, ingestVars, todo, current, failures, historyVars>>

(* Rows with a cutoff: mark_expired lists three tiers.                     *)
Aging(r) == row[r].tier \in {"verified", "built", "quarantined"}

(* The rows a set of rows reaches through refs, within each tenant.  Rows  *)
(* of any state are walked.                                                *)
Closed(S) ==
    \A r \in S : row[r].state # "none" =>
        \A s \in Rows : s[1] = r[1] /\ s[2] \in Refs[r[2]] => s \in S
Reach(S) == {r \in Rows : \A T \in SUBSET Rows : S \subseteq T /\ Closed(T) => r \in T}

(* Mutant: only a row's own last_access counts.                            *)
FreshOwnAccess == {r \in Rows : Live(r) /\ Aging(r) /\ ~idle[r]}

Fresh == Reach({r \in Rows : Live(r) /\ Aging(r) /\ ~idle[r]})

MarkExpired ==
    /\ gpc = "mark"
    /\ SetState({r \in Rows \ Fresh : Live(r) /\ Aging(r) /\ idle[r]}, "marked")
    /\ gpc' = "select"
    /\ UNCHANGED <<idle, marks, objects, bytes, ingestVars, todo, current, failures,
                   historyVars>>

(* Mutant: a marked referrer is enough.                                    *)
CandidatesMarked == {k \in objects : \E r \in Rows : row[r].key = k /\ row[r].state = "marked"}

(* sweep_and_reap: the objects without a live referrer ...                 *)
Candidates == {k \in objects : \A r \in Rows : row[r].key = k => ~Live(r)}

Select ==
    /\ gpc = "select"
    /\ todo' = Candidates
    /\ gpc' = "sweep"
    /\ raced' = raced \cup {i \in Ingests : ipc[i] # "idle"}
    /\ UNCHANGED <<rowVars, objects, bytes, ingestVars, current, failures,
                   settled, strays>>

(* ... are handled one after the other: the tombstone, ...                 *)
Tombstone(k) ==
    /\ gpc = "sweep"
    /\ k \in todo
    /\ SetState({r \in Rows : row[r].key = k /\ row[r].state = "marked"}, "purging")
    /\ todo' = todo \ {k}
    /\ current' = k
    /\ gpc' = "delete"
    /\ UNCHANGED <<idle, marks, objects, bytes, ingestVars, failures, historyVars>>

(* Mutant: the row goes before the bytes.                                  *)
DeleteRowFirst ==
    /\ gpc = "delete"
    /\ objects' = objects \ {current}
    /\ gpc' = "drop"
    /\ UNCHANGED <<rowVars, bytes, ingestVars, todo, current, failures, historyVars>>

(* ... the bytes, ...                                                      *)
DeleteObject ==
    /\ gpc = "delete"
    /\ bytes' = bytes \ {current}
    /\ strays' = strays \ {current}
    /\ gpc' = "drop"
    /\ UNCHANGED <<rowVars, objects, ingestVars, todo, current, failures, raced, settled>>

(* ... which may fail, done or not: the next pass tries again.             *)
DeleteObjectFails ==
    /\ gpc = "delete"
    /\ failures < MaxFailures
    /\ failures' = failures + 1
    /\ bytes' \in {bytes, bytes \ {current}}
    /\ gpc' = "sweep"
    /\ current' = NoKey
    /\ UNCHANGED <<rowVars, objects, ingestVars, todo, historyVars>>

(* ... and the objects row; ON DELETE SET NULL.                            *)
DropObject ==
    /\ gpc = "drop"
    /\ objects' = objects \ {current}
    /\ row' = [r \in Rows |-> IF row[r].key = current
                              THEN [row[r] EXCEPT !.key = NoKey] ELSE row[r]]
    /\ gpc' = "sweep"
    /\ current' = NoKey
    /\ UNCHANGED <<idle, marks, bytes, ingestVars, todo, failures, historyVars>>

(* Mutant: the wrong state is reaped.                                      *)
ReapMarked ==
    /\ gpc = "sweep"
    /\ todo = {}
    /\ row' = [r \in Rows |-> IF row[r].state = "marked" /\ row[r].key \notin objects
                              THEN NoRow ELSE row[r]]
    /\ idle' = [r \in Rows |-> idle[r] /\ row'[r].state # "none"]
    /\ gpc' = "idle"
    /\ UNCHANGED <<marks, objects, bytes, ingestVars, todo, current, failures, historyVars>>

(* The last step: purging rows whose object is gone.                       *)
Reap ==
    /\ gpc = "sweep"
    /\ todo = {}
    /\ row' = [r \in Rows |-> IF row[r].state = "purging" /\ row[r].key \notin objects
                              THEN NoRow ELSE row[r]]
    /\ idle' = [r \in Rows |-> idle[r] /\ row'[r].state # "none"]
    /\ gpc' = "idle"
    /\ UNCHANGED <<marks, objects, bytes, ingestVars, todo, current, failures, historyVars>>

(* Mutant: the lock survives the pass in a pooled connection.              *)
AbortKeepsLock ==
    /\ gpc # "idle"
    /\ failures < MaxFailures
    /\ failures' = failures + 1
    /\ gpc' = "leaked"
    /\ UNCHANGED <<rowVars, objects, bytes, ingestVars, todo, current, historyVars>>

(* A statement fails or the collector dies; the lock goes with the         *)
(* connection.                                                             *)
Abort ==
    /\ gpc # "idle"
    /\ failures < MaxFailures
    /\ failures' = failures + 1
    /\ gpc' = "idle"
    /\ todo' = {} /\ current' = NoKey
    /\ UNCHANGED <<rowVars, objects, bytes, ingestVars, historyVars>>

Pass ==
    \/ Drain \/ MarkExpired \/ Select
    \/ (\E k \in Keys : Tombstone(k)) \/ DeleteObject \/ DropObject \/ Reap

Next ==
    \/ \E i \in Ingests :
          \/ \E r \in Rows : Push(i, r) \/ UploadOutput(i, r) \/ Fetch(i, r) \/ Share(i, r)
          \/ KeepVouched(i) \/ DecideUpload(i) \/ Upload(i)
          \/ RecordPath(i) \/ RecordForWatcher(i) \/ Abandon(i)
    \/ \E r \in Rows : RecordAccess(r) \/ Expire(r)
    \/ Pass \/ DeleteObjectFails \/ Abort

Spec == Init /\ [][Next]_vars

(* kubernix-gc runs a pass every interval and its calls return.            *)
FairSpec == Spec /\ WF_vars(Pass)

-----------------------------------------------------------------------------
(* Properties.                                                             *)

(* Nothing takes the bytes of a path in use away: a live row whose bytes   *)
(* were uploaded with no sweep in between keeps its object and its bytes,  *)
(* through sharing between tenants, resurrection, failed deletions and     *)
(* passes that break off (sweep_and_reap).                                 *)
UploadedIsKept ==
    \A r \in settled : Live(r) => row[r].key \in objects \cap bytes

(* Every live row has bytes behind it, however it was recorded: pushed     *)
(* with an upload or without, built, shared or pulled through              *)
(* (NarSink::finalize, resolve_verified).  It does not hold.               *)
LiveHasBytes == \A r \in Rows : Live(r) => row[r].key \in bytes

(* The collector never loses track of bytes, wherever a pass breaks off:   *)
(* what the bucket holds has an objects row, or is being uploaded, or was  *)
(* left by an upload that was given up or met a sweep.                     *)
BytesAreNamed ==
    bytes \subseteq objects \cup strays
                    \cup {item[i].key : i \in {x \in uploaded : ipc[x] = "record"}}

(* What mark_expired marks is not referenced by a row it leaves live: the  *)
(* closure of the fresh rows is kept, through rows that are idle           *)
(* themselves.  Rows of the substituted tier, which has no cutoff, do not  *)
(* protect what they refer to.                                             *)
ReferencedIsKept ==
    [][\A r, s \in Rows :
          /\ Live(r) /\ row'[r].state = "marked"
          /\ s[1] = r[1] /\ r[2] \in Refs[s[2]] /\ row'[s].state = "live"
          => ~Aging(s)]_vars

(* A row that is on its way out goes, or is live again, or shares its      *)
(* object with a row in use: broken-off passes and failed deletions are    *)
(* made up for (the reap of sweep_and_reap, AdvisoryLock).                 *)
LimboEnds ==
    \A r \in Rows :
        row[r].state \in {"marked", "purging"} /\ row[r].key # NoKey ~>
            \/ row[r].state \in {"none", "live"}
            \/ \E s \in Rows : Live(s) /\ row[s].key = row[r].key

(* A path the frontend vouches for is not demoted by a later recording     *)
(* (NarSink::finalize).  It does not hold: resolve_from_one overwrites the *)
(* row on the upstream route, and two pushes race.                         *)
VouchedStaysVouched ==
    [][\A r \in Rows :
          Live(r) /\ row'[r].state = "live" /\ row[r].tier \in Vouchable =>
              row'[r].tier \in Vouchable]_vars
=============================================================================
