-------------------------- MODULE StorePathsProofs --------------------------
(***************************************************************************)
(* Proofs about StorePaths: for any rows, references, recordings and       *)
(* bounds, what was uploaded undisturbed is kept, the collector loses no   *)
(* bytes, and what a live row refers to is not marked.                     *)
(***************************************************************************)
EXTENDS StorePaths, TLAPS

(* store_paths.object_key references objects.                              *)
ForeignKey == \A r \in Rows : row[r].key # NoKey => row[r].key \in objects

(* A settled row that is live or may still be resurrected has its bytes.   *)
Backed ==
    \A r \in settled :
        row[r].state \in {"live", "marked"} => row[r].key \in objects \cap bytes

(* What the sweep has chosen is no live settled row's, ...                 *)
NotChosen ==
    \A r \in settled :
        Live(r) /\ gpc \in Sweeping =>
            /\ row[r].key \notin todo
            /\ gpc \in {"delete", "drop"} => row[r].key # current

(* ... and behind the tombstone no marked row is left to resurrect.        *)
Tombstoned ==
    gpc \in {"delete", "drop"} =>
        \A r \in Rows : row[r].state = "marked" => row[r].key # current

(* A sweep disturbs every recording it meets, ...                          *)
Disturbed == gpc \in Sweeping => \A i \in Ingests : ipc[i] # "idle" => i \in raced

(* ... and an undisturbed upload is still there when it is recorded.       *)
Undisturbed ==
    \A i \in uploaded : ipc[i] = "record" /\ (i \notin raced => item[i].key \in bytes)

InFlight == {item[i].key : i \in uploaded}

(* Bytes that come back behind a deletion are somebody's.                  *)
Reappeared == gpc = "drop" /\ current \in bytes => current \in strays \cup InFlight

Named == bytes \subseteq objects \cup strays \cup InFlight

(* The inductive invariant.                                                *)
IInv ==
    /\ TypeOK
    /\ ForeignKey /\ Backed /\ NotChosen /\ Tombstoned
    /\ Disturbed /\ Undisturbed
    /\ Named /\ Reappeared

LEMMA KeyIsKey ==
    ASSUME NEW r \in Rows, NEW tier \in Tiers
    PROVE  Key(r, tier) \in Keys
BY DEF Keys

LEMMA InitIInv == Init => IInv
<1> SUFFICES ASSUME Init PROVE IInv
  OBVIOUS
<1> QED
  BY DEF Init, IInv, TypeOK, Row, NoRow, Tiers, ForeignKey, Backed, NotChosen,
         Tombstoned,
         Disturbed, Undisturbed, Named, Reappeared, Sweeping

(* A recording begins.                                                     *)
LEMMA StartStep ==
    ASSUME IInv, NEW i \in Ingests, NEW r \in Rows,
           NEW tier \in Tiers, NEW key \in Keys,
           NEW where \in {"check", "upload", "record"}, Start(i, r, tier, key, where)
    PROVE  IInv'
<1>1. TypeOK'
  BY DEF IInv, TypeOK, Item, Start, rowVars, gcVars
<1>2. ForeignKey'
  BY DEF IInv, ForeignKey, Start, rowVars
<1>3. Backed'
  BY DEF IInv, Backed, Start, rowVars
<1>4. NotChosen'
  BY DEF IInv, NotChosen, Live, Start, rowVars, gcVars
<1>5. Tombstoned'
  BY DEF IInv, Tombstoned, Start, rowVars, gcVars
<1>6. Disturbed'
  BY DEF IInv, Disturbed, Start, gcVars
<1>7. Undisturbed'
  BY DEF IInv, Undisturbed, Start
<1>8. Named'
  BY DEF IInv, Named, InFlight, Undisturbed, Start
<1>9. Reappeared'
  BY DEF IInv, InFlight, Undisturbed, Reappeared, Start, gcVars
<1> QED  BY <1>1, <1>2, <1>3, <1>4, <1>5, <1>6, <1>7, <1>8, <1>9 DEF IInv

(* A quarantined push of a vouched-for path is dropped.                    *)
LEMMA KeepVouchedStep ==
    ASSUME IInv, NEW i \in Ingests, KeepVouched(i)
    PROVE  IInv'
<1>1. TypeOK'
  BY DEF IInv, TypeOK, KeepVouched, End, rowVars, gcVars
<1>2. ForeignKey'
  BY DEF IInv, ForeignKey, KeepVouched, rowVars
<1>3. Backed'
  BY DEF IInv, Backed, KeepVouched, rowVars
<1>4. NotChosen'
  BY DEF IInv, NotChosen, Live, KeepVouched, rowVars, gcVars
<1>5. Tombstoned'
  BY DEF IInv, Tombstoned, KeepVouched, rowVars, gcVars
<1>6. Disturbed'
  BY DEF IInv, TypeOK, Disturbed, KeepVouched, End, gcVars
<1>7. Undisturbed'
  BY DEF IInv, Undisturbed, KeepVouched, End
<1>8. Named'
  BY DEF IInv, Named, InFlight, Undisturbed, KeepVouched, End
<1>9. Reappeared'
  BY DEF IInv, InFlight, Undisturbed, Reappeared, KeepVouched, End, gcVars
<1> QED  BY <1>1, <1>2, <1>3, <1>4, <1>5, <1>6, <1>7, <1>8, <1>9 DEF IInv

(* The upload is skipped or not.                                           *)
LEMMA DecideUploadStep ==
    ASSUME IInv, NEW i \in Ingests, DecideUpload(i)
    PROVE  IInv'
<1>1. TypeOK'
  BY DEF IInv, TypeOK, DecideUpload, Goto, rowVars, gcVars
<1>2. ForeignKey'
  BY DEF IInv, ForeignKey, DecideUpload, rowVars
<1>3. Backed'
  BY DEF IInv, Backed, DecideUpload, rowVars
<1>4. NotChosen'
  BY DEF IInv, NotChosen, Live, DecideUpload, rowVars, gcVars
<1>5. Tombstoned'
  BY DEF IInv, Tombstoned, DecideUpload, rowVars, gcVars
<1>6. Disturbed'
  BY DEF IInv, Disturbed, DecideUpload, Goto, gcVars
<1>7. Undisturbed'
  BY DEF IInv, Undisturbed, DecideUpload, Goto
<1>8. Named'
  BY DEF IInv, Named, InFlight, DecideUpload, Goto
<1>9. Reappeared'
  BY DEF IInv, InFlight, Reappeared, DecideUpload, Goto, gcVars
<1> QED  BY <1>1, <1>2, <1>3, <1>4, <1>5, <1>6, <1>7, <1>8, <1>9 DEF IInv

(* Bytes are put.                                                          *)
LEMMA UploadStep ==
    ASSUME IInv, NEW i \in Ingests, Upload(i)
    PROVE  IInv'
<1>1. TypeOK'
  BY DEF IInv, TypeOK, Item, Upload, Goto, rowVars, gcVars
<1>2. ForeignKey'
  BY DEF IInv, ForeignKey, Upload, rowVars
<1>3. Backed'
  BY DEF IInv, Backed, Upload, rowVars
<1>4. NotChosen'
  BY DEF IInv, NotChosen, Live, Upload, rowVars, gcVars
<1>5. Tombstoned'
  BY DEF IInv, Tombstoned, Upload, rowVars, gcVars
<1>6. Disturbed'
  BY DEF IInv, Disturbed, Upload, Goto, gcVars
<1>7. Undisturbed'
  BY DEF IInv, TypeOK, Undisturbed, Upload, Goto
<1>8. Named'
  BY DEF IInv, Named, InFlight, Upload, Goto
<1>9. Reappeared'
  BY DEF IInv, InFlight, Reappeared, Upload, Goto, gcVars
<1> QED  BY <1>1, <1>2, <1>3, <1>4, <1>5, <1>6, <1>7, <1>8, <1>9 DEF IInv

(* The row is written and the recording ends, ...                          *)
LEMMA RecordPathStep ==
    ASSUME IInv, NEW i \in Ingests, RecordPath(i)
    PROVE  IInv'
<1>1. TypeOK'
  BY DEF IInv, TypeOK, Row, Item, RecordPath, Record, Upsert, End, gcVars
<1>2. ForeignKey'
  BY DEF IInv, ForeignKey, RecordPath, Record, Upsert
<1>3. Backed'
  BY DEF IInv, TypeOK, Row, Item, Backed, Undisturbed, RecordPath, Record, Upsert
<1>4. NotChosen'
  BY DEF IInv, NotChosen, Disturbed, Live, RecordPath, Record, Upsert, gcVars
<1>5. Tombstoned'
  BY DEF IInv, Tombstoned, RecordPath, Record, Upsert, gcVars
<1>6. Disturbed'
  BY DEF IInv, TypeOK, Disturbed, RecordPath, Record, End, gcVars
<1>7. Undisturbed'
  BY DEF IInv, Undisturbed, RecordPath, Record, End
<1>8. Named'
  BY DEF IInv, Named, InFlight, RecordPath, Record, Upsert, End
<1>9. Reappeared'
  BY DEF IInv, TypeOK, InFlight, Disturbed, Reappeared, RecordPath, Record, End,
         gcVars
<1> QED  BY <1>1, <1>2, <1>3, <1>4, <1>5, <1>6, <1>7, <1>8, <1>9 DEF IInv

(* ... or goes on for another watcher.                                     *)
LEMMA RecordForWatcherStep ==
    ASSUME IInv, NEW i \in Ingests, RecordForWatcher(i)
    PROVE  IInv'
<1>1. TypeOK'
  BY DEF IInv, TypeOK, Row, Item, RecordForWatcher, Record, Upsert, gcVars
<1>2. ForeignKey'
  BY DEF IInv, ForeignKey, RecordForWatcher, Record, Upsert
<1>3. Backed'
  BY DEF IInv, TypeOK, Item, Backed, Undisturbed, RecordForWatcher, Record, Upsert
<1>4. NotChosen'
  BY DEF IInv, NotChosen, Disturbed, Live, RecordForWatcher, Record, Upsert, gcVars
<1>5. Tombstoned'
  BY DEF IInv, Tombstoned, RecordForWatcher, Record, Upsert, gcVars
<1>6. Disturbed'
  BY DEF IInv, Disturbed, RecordForWatcher, Record, gcVars
<1>7. Undisturbed'
  BY DEF IInv, Undisturbed, RecordForWatcher, Record
<1>8. Named'
  BY DEF IInv, Named, InFlight, RecordForWatcher, Record, Upsert
<1>9. Reappeared'
  BY DEF IInv, InFlight, Reappeared, RecordForWatcher, Record, gcVars
<1> QED  BY <1>1, <1>2, <1>3, <1>4, <1>5, <1>6, <1>7, <1>8, <1>9 DEF IInv

(* A recording is given up.                                                *)
LEMMA AbandonStep ==
    ASSUME IInv, NEW i \in Ingests, Abandon(i)
    PROVE  IInv'
<1>1. TypeOK'
  BY DEF IInv, TypeOK, Item, Abandon, End, rowVars, gcVars
<1>2. ForeignKey'
  BY DEF IInv, ForeignKey, Abandon, rowVars
<1>3. Backed'
  BY DEF IInv, Backed, Abandon, rowVars
<1>4. NotChosen'
  BY DEF IInv, NotChosen, Live, Abandon, rowVars, gcVars
<1>5. Tombstoned'
  BY DEF IInv, Tombstoned, Abandon, rowVars, gcVars
<1>6. Disturbed'
  BY DEF IInv, TypeOK, Disturbed, Abandon, End, gcVars
<1>7. Undisturbed'
  BY DEF IInv, Undisturbed, Abandon, End
<1>8. Named'
  BY DEF IInv, Named, InFlight, Abandon, End
<1>9. Reappeared'
  BY DEF IInv, InFlight, Reappeared, Abandon, End, gcVars
<1> QED  BY <1>1, <1>2, <1>3, <1>4, <1>5, <1>6, <1>7, <1>8, <1>9 DEF IInv

(* An access is queued.                                                    *)
LEMMA RecordAccessStep ==
    ASSUME IInv, NEW r \in Rows, RecordAccess(r)
    PROVE  IInv'
<1>1. TypeOK'
  BY DEF IInv, TypeOK, RecordAccess, ingestVars, gcVars, historyVars
<1>2. ForeignKey'
  BY DEF IInv, ForeignKey, RecordAccess
<1>3. Backed'
  BY DEF IInv, Backed, RecordAccess, historyVars
<1>4. NotChosen'
  BY DEF IInv, NotChosen, Live, RecordAccess, gcVars, historyVars
<1>5. Tombstoned'
  BY DEF IInv, Tombstoned, RecordAccess, gcVars
<1>6. Disturbed'
  BY DEF IInv, Disturbed, RecordAccess, ingestVars, gcVars, historyVars
<1>7. Undisturbed'
  BY DEF IInv, Undisturbed, RecordAccess, ingestVars, historyVars
<1>8. Named'
  BY DEF IInv, Named, InFlight, RecordAccess, ingestVars, historyVars
<1>9. Reappeared'
  BY DEF IInv, InFlight, Reappeared, RecordAccess, ingestVars, gcVars, historyVars
<1> QED  BY <1>1, <1>2, <1>3, <1>4, <1>5, <1>6, <1>7, <1>8, <1>9 DEF IInv

(* Time passes.                                                            *)
LEMMA ExpireStep ==
    ASSUME IInv, NEW r \in Rows, Expire(r)
    PROVE  IInv'
<1>1. TypeOK'
  BY DEF IInv, TypeOK, Expire, ingestVars, gcVars, historyVars
<1>2. ForeignKey'
  BY DEF IInv, ForeignKey, Expire
<1>3. Backed'
  BY DEF IInv, Backed, Expire, historyVars
<1>4. NotChosen'
  BY DEF IInv, NotChosen, Live, Expire, gcVars, historyVars
<1>5. Tombstoned'
  BY DEF IInv, Tombstoned, Expire, gcVars
<1>6. Disturbed'
  BY DEF IInv, Disturbed, Expire, ingestVars, gcVars, historyVars
<1>7. Undisturbed'
  BY DEF IInv, Undisturbed, Expire, ingestVars, historyVars
<1>8. Named'
  BY DEF IInv, Named, InFlight, Expire, ingestVars, historyVars
<1>9. Reappeared'
  BY DEF IInv, InFlight, Reappeared, Expire, ingestVars, gcVars, historyVars
<1> QED  BY <1>1, <1>2, <1>3, <1>4, <1>5, <1>6, <1>7, <1>8, <1>9 DEF IInv

(* Marked rows are resurrected.                                            *)
LEMMA DrainStep ==
    ASSUME IInv, Drain
    PROVE  IInv'
<1> DEFINE n == IF Len(marks) < BatchSize THEN Len(marks) ELSE BatchSize
           claimed == {marks[m] : m \in 1 .. n}
<1>0. n \in 0 .. Len(marks) /\ claimed \subseteq Rows
  BY LimitAssumption DEF IInv, TypeOK
<1>1. TypeOK'
  <2>1. marks' \in Seq(Rows)
    <3>1. marks' = SubSeq(marks, n + 1, Len(marks))
      BY DEF Drain
    <3>2. \A m \in n + 1 .. Len(marks) : marks[m] \in Rows
      BY <1>0 DEF IInv, TypeOK
    <3> QED  BY <1>0, <3>1, <3>2
  <2>2. row' \in [Rows -> Row]
    <3>1. \A r \in Rows : row[r] \in Row /\ [row[r] EXCEPT !.state = "live"] \in Row
      BY DEF IInv, TypeOK, Row
    <3>2. PICK S : SetState(S, "live")
      BY DEF Drain
    <3> QED  BY <3>1, <3>2 DEF SetState
  <2>3. idle' \in [Rows -> BOOLEAN]
    BY Zenon DEF Drain
  <2> QED
    BY <2>1, <2>2, <2>3 DEF IInv, TypeOK, Drain, ingestVars, historyVars
<1>2. ForeignKey'
  BY DEF IInv, ForeignKey, Drain, SetState
<1>3. Backed'
  BY DEF IInv, TypeOK, Backed, Drain, SetState, historyVars
<1>4. NotChosen'
  BY DEF NotChosen, Sweeping, Drain
<1>5. Tombstoned'
  BY DEF Tombstoned, Drain
<1>6. Disturbed'
  BY DEF Disturbed, Sweeping, Drain
<1>7. Undisturbed'
  BY DEF IInv, Undisturbed, Drain, ingestVars, historyVars
<1>8. Named'
  BY DEF IInv, Named, InFlight, Drain, ingestVars, historyVars
<1>9. Reappeared'
  BY DEF Reappeared, Drain
<1> QED  BY <1>1, <1>2, <1>3, <1>4, <1>5, <1>6, <1>7, <1>8, <1>9 DEF IInv

(* Idle rows are marked.                                                   *)
LEMMA MarkExpiredStep ==
    ASSUME IInv, MarkExpired
    PROVE  IInv'
<1>1. TypeOK'
  BY DEF IInv, TypeOK, Row, Item, MarkExpired, SetState, ingestVars, historyVars
<1>2. ForeignKey'
  BY DEF IInv, ForeignKey, MarkExpired, SetState
<1>3. Backed'
  BY DEF IInv, TypeOK, Backed, Live, MarkExpired, SetState, historyVars
<1>4. NotChosen'
  BY DEF NotChosen, Sweeping, MarkExpired
<1>5. Tombstoned'
  BY DEF Tombstoned, MarkExpired
<1>6. Disturbed'
  BY DEF Disturbed, Sweeping, MarkExpired
<1>7. Undisturbed'
  BY DEF IInv, Undisturbed, MarkExpired, ingestVars, historyVars
<1>8. Named'
  BY DEF IInv, Named, InFlight, MarkExpired, ingestVars, historyVars
<1>9. Reappeared'
  BY DEF Reappeared, MarkExpired
<1> QED  BY <1>1, <1>2, <1>3, <1>4, <1>5, <1>6, <1>7, <1>8, <1>9 DEF IInv

(* The sweep chooses its candidates, and meets every recording under way.  *)
LEMMA SelectStep ==
    ASSUME IInv, Select
    PROVE  IInv'
<1>1. TypeOK'
  BY DEF IInv, TypeOK, Sweeping, Select, rowVars, ingestVars, Candidates
<1>2. ForeignKey'
  BY DEF IInv, ForeignKey, Select, rowVars
<1>3. Backed'
  BY DEF IInv, Backed, Select, rowVars
<1>4. NotChosen'
  BY DEF IInv, TypeOK, NotChosen, Live, Select, rowVars, Candidates
<1>5. Tombstoned'
  BY DEF Tombstoned, Select
<1>6. Disturbed'
  BY DEF Disturbed, Select, ingestVars
<1>7. Undisturbed'
  BY DEF IInv, Undisturbed, Select, ingestVars
<1>8. Named'
  BY DEF IInv, Named, InFlight, Select, ingestVars
<1>9. Reappeared'
  BY DEF Reappeared, Select
<1> QED  BY <1>1, <1>2, <1>3, <1>4, <1>5, <1>6, <1>7, <1>8, <1>9 DEF IInv

(* A candidate's marked rows are put out of reach.                         *)
LEMMA TombstoneStep ==
    ASSUME IInv, NEW k \in Keys, Tombstone(k)
    PROVE  IInv'
<1>1. TypeOK'
  BY DEF IInv, TypeOK, Row, Sweeping, Tombstone, SetState, ingestVars, historyVars
<1>2. ForeignKey'
  BY DEF IInv, ForeignKey, Tombstone, SetState
<1>3. Backed'
  BY DEF IInv, TypeOK, Backed, Tombstone, SetState, historyVars
<1>4. NotChosen'
  BY DEF IInv, TypeOK, NotChosen, Live, Tombstone, SetState, historyVars
<1>5. Tombstoned'
  BY DEF Tombstoned, Tombstone, SetState
<1>6. Disturbed'
  BY DEF IInv, TypeOK, Disturbed, Tombstone, ingestVars, historyVars
<1>7. Undisturbed'
  BY DEF IInv, Undisturbed, Tombstone, ingestVars, historyVars
<1>8. Named'
  BY DEF IInv, Named, InFlight, Tombstone, ingestVars, historyVars
<1>9. Reappeared'
  BY DEF Reappeared, Tombstone
<1> QED  BY <1>1, <1>2, <1>3, <1>4, <1>5, <1>6, <1>7, <1>8, <1>9 DEF IInv

(* Its bytes go, ...                                                       *)
LEMMA DeleteObjectStep ==
    ASSUME IInv, DeleteObject
    PROVE  IInv'
<1>1. TypeOK'
  BY DEF IInv, TypeOK, Sweeping, DeleteObject, rowVars, ingestVars
<1>2. ForeignKey'
  BY DEF IInv, ForeignKey, DeleteObject, rowVars
<1>3. Backed'
  BY DEF IInv, TypeOK, Backed, NotChosen, Tombstoned, Live, DeleteObject, rowVars
<1>4. NotChosen'
  BY DEF IInv, TypeOK, NotChosen, Live, DeleteObject, rowVars
<1>5. Tombstoned'
  BY DEF IInv, Tombstoned, DeleteObject, rowVars
<1>6. Disturbed'
  BY DEF IInv, TypeOK, Disturbed, DeleteObject, ingestVars
<1>7. Undisturbed'
  BY DEF IInv, TypeOK, Undisturbed, Disturbed, DeleteObject, ingestVars
<1>8. Named'
  BY DEF IInv, Named, InFlight, DeleteObject, ingestVars
<1>9. Reappeared'
  BY DEF Reappeared, DeleteObject
<1> QED  BY <1>1, <1>2, <1>3, <1>4, <1>5, <1>6, <1>7, <1>8, <1>9 DEF IInv

(* ... or may have gone, ...                                               *)
LEMMA DeleteObjectFailsStep ==
    ASSUME IInv, DeleteObjectFails
    PROVE  IInv'
<1>1. TypeOK'
  BY DEF IInv, TypeOK, Sweeping, DeleteObjectFails, rowVars, ingestVars, historyVars
<1>2. ForeignKey'
  BY DEF IInv, ForeignKey, DeleteObjectFails, rowVars
<1>3. Backed'
  BY DEF IInv, TypeOK, Backed, NotChosen, Tombstoned, Live, DeleteObjectFails,
         rowVars, historyVars
<1>4. NotChosen'
  BY DEF IInv, TypeOK, NotChosen, Live, DeleteObjectFails, rowVars, historyVars
<1>5. Tombstoned'
  BY DEF Tombstoned, DeleteObjectFails
<1>6. Disturbed'
  BY DEF IInv, TypeOK, Disturbed, DeleteObjectFails, ingestVars, historyVars
<1>7. Undisturbed'
  BY DEF IInv, TypeOK, Undisturbed, Disturbed, DeleteObjectFails, ingestVars,
         historyVars
<1>8. Named'
  BY DEF IInv, Named, InFlight, DeleteObjectFails, ingestVars, historyVars
<1>9. Reappeared'
  BY DEF Reappeared, DeleteObjectFails
<1> QED  BY <1>1, <1>2, <1>3, <1>4, <1>5, <1>6, <1>7, <1>8, <1>9 DEF IInv

(* ... and then its row.                                                   *)
LEMMA DropObjectStep ==
    ASSUME IInv, DropObject
    PROVE  IInv'
<1>1. TypeOK'
  <2>1. row' \in [Rows -> Row]
    <3>1. \A r \in Rows : row[r] \in Row /\ [row[r] EXCEPT !.key = NoKey] \in Row
      BY DEF IInv, TypeOK, Row
    <3> QED  BY <3>1 DEF DropObject
  <2> QED  BY <2>1 DEF IInv, TypeOK, Sweeping, DropObject, ingestVars, historyVars
<1>2. ForeignKey'
  BY RowsAssumption DEF IInv, ForeignKey, DropObject
<1>3. Backed'
  BY RowsAssumption DEF IInv, TypeOK, Backed, NotChosen, Tombstoned, Live,
         DropObject, historyVars
<1>4. NotChosen'
  BY RowsAssumption DEF IInv, TypeOK, NotChosen, Live, DropObject, historyVars
<1>5. Tombstoned'
  BY RowsAssumption DEF Tombstoned, DropObject
<1>6. Disturbed'
  BY RowsAssumption DEF IInv, TypeOK, Disturbed, DropObject, ingestVars, historyVars
<1>7. Undisturbed'
  BY RowsAssumption DEF IInv, Undisturbed, DropObject, ingestVars, historyVars
<1>8. Named'
  BY RowsAssumption DEF IInv, Named, InFlight, Reappeared, DropObject, ingestVars,
         historyVars
<1>9. Reappeared'
  BY RowsAssumption DEF Reappeared, DropObject
<1> QED  BY <1>1, <1>2, <1>3, <1>4, <1>5, <1>6, <1>7, <1>8, <1>9 DEF IInv

(* What is left of it is reaped.                                           *)
LEMMA ReapStep ==
    ASSUME IInv, Reap
    PROVE  IInv'
<1>1. TypeOK'
  BY DEF IInv, TypeOK, Row, NoRow, Reap, ingestVars, historyVars, Tiers
<1>2. ForeignKey'
  BY DEF IInv, NoRow, ForeignKey, Reap
<1>3. Backed'
  BY DEF IInv, TypeOK, NoRow, Backed, Reap, historyVars
<1>4. NotChosen'
  BY DEF NotChosen, Reap
<1>5. Tombstoned'
  BY DEF Tombstoned, Reap
<1>6. Disturbed'
  BY DEF Disturbed, Sweeping, Reap
<1>7. Undisturbed'
  BY DEF IInv, Undisturbed, Reap, ingestVars, historyVars
<1>8. Named'
  BY DEF IInv, Named, InFlight, Reap, ingestVars, historyVars
<1>9. Reappeared'
  BY DEF Reappeared, Reap
<1> QED  BY <1>1, <1>2, <1>3, <1>4, <1>5, <1>6, <1>7, <1>8, <1>9 DEF IInv

(* A pass breaks off.                                                      *)
LEMMA AbortStep ==
    ASSUME IInv, Abort
    PROVE  IInv'
<1>1. TypeOK'
  BY DEF IInv, TypeOK, Abort, rowVars, ingestVars, historyVars
<1>2. ForeignKey'
  BY DEF IInv, ForeignKey, Abort, rowVars
<1>3. Backed'
  BY DEF IInv, Backed, Abort, rowVars, historyVars
<1>4. NotChosen'
  BY DEF NotChosen, Abort
<1>5. Tombstoned'
  BY DEF Tombstoned, Abort
<1>6. Disturbed'
  BY DEF Disturbed, Sweeping, Abort
<1>7. Undisturbed'
  BY DEF IInv, Undisturbed, Abort, ingestVars, historyVars
<1>8. Named'
  BY DEF IInv, Named, InFlight, Abort, ingestVars, historyVars
<1>9. Reappeared'
  BY DEF Reappeared, Abort
<1> QED  BY <1>1, <1>2, <1>3, <1>4, <1>5, <1>6, <1>7, <1>8, <1>9 DEF IInv

-----------------------------------------------------------------------------
LEMMA NextIInv == IInv /\ [Next]_vars => IInv'
<1> SUFFICES ASSUME IInv, [Next]_vars PROVE IInv'
  OBVIOUS
<1>1. CASE UNCHANGED vars
  BY <1>1 DEF vars, IInv, TypeOK, ForeignKey, Backed, NotChosen, Tombstoned,
         Disturbed,
              Undisturbed, Named, InFlight, Reappeared, Live
<1>2. ASSUME NEW i \in Ingests, NEW r \in Rows,
             Push(i, r) \/ UploadOutput(i, r) \/ Fetch(i, r) \/ Share(i, r)
      PROVE  IInv'
  <2>1. PICK tier \in Tiers, key \in Keys, where \in {"check", "upload", "record"} :
            Start(i, r, tier, key, where)
    <3>1. CASE Push(i, r)
      BY <3>1, KeyIsKey DEF Push, Tiers
    <3>2. CASE UploadOutput(i, r)
      BY <3>2, KeyIsKey DEF UploadOutput, Tiers
    <3>3. CASE Fetch(i, r)
      BY <3>3, KeyIsKey DEF Fetch, Tiers
    <3>4. CASE Share(i, r)
      BY <3>4 DEF Share, Find, SharedTiers, Tiers, IInv, TypeOK
    <3> QED  BY <1>2, <3>1, <3>2, <3>3, <3>4
  <2> QED  BY <2>1, StartStep
<1>3. ASSUME NEW i \in Ingests,
             \/ KeepVouched(i) \/ DecideUpload(i) \/ Upload(i)
             \/ RecordPath(i) \/ RecordForWatcher(i) \/ Abandon(i)
      PROVE  IInv'
  BY <1>3, KeepVouchedStep, DecideUploadStep, UploadStep, RecordPathStep,
     RecordForWatcherStep, AbandonStep
<1>4. ASSUME NEW r \in Rows, RecordAccess(r) \/ Expire(r)
      PROVE  IInv'
  BY <1>4, RecordAccessStep, ExpireStep
<1>5. CASE Pass
  BY <1>5, DrainStep, MarkExpiredStep, SelectStep, TombstoneStep, DeleteObjectStep,
     DropObjectStep, ReapStep DEF Pass
<1>6. CASE DeleteObjectFails \/ Abort
  BY <1>6, DeleteObjectFailsStep, AbortStep
<1> QED  BY <1>1, <1>2, <1>3, <1>4, <1>5, <1>6 DEF Next

(* The inductive invariant holds in every reachable state.                 *)
THEOREM Invariance == Spec => []IInv
BY InitIInv, NextIInv, PTL DEF Spec

(* Every variable of the store and the collector keeps its type.           *)
THEOREM TypeCorrect == Spec => []TypeOK
<1>1. IInv => TypeOK
  BY DEF IInv
<1> QED  BY <1>1, Invariance, PTL

(* The bytes of a live path that were uploaded with no sweep in between    *)
(* are never taken away, whichever tenants share them.                     *)
THEOREM UploadedIsKeptHolds == Spec => []UploadedIsKept
<1>1. IInv => UploadedIsKept
  BY DEF IInv, Backed, UploadedIsKept, Live
<1> QED  BY <1>1, Invariance, PTL

(* No pass, complete or broken off, leaves bytes that nothing names.       *)
THEOREM BytesAreNamedHolds == Spec => []BytesAreNamed
<1>1. IInv => BytesAreNamed
  BY DEF IInv, Named, InFlight, Undisturbed, BytesAreNamed
<1> QED  BY <1>1, Invariance, PTL

-----------------------------------------------------------------------------
(* Reach(S) holds S and is closed under the references of existing rows.   *)
LEMMA ReachFacts ==
    ASSUME NEW S \in SUBSET Rows
    PROVE  /\ S \subseteq Reach(S)
           /\ \A s \in Reach(S), r \in Rows :
                 row[s].state # "none" /\ r[1] = s[1] /\ r[2] \in Refs[s[2]]
                     => r \in Reach(S)
BY DEF Reach, Closed

(* Only mark_expired takes a row from live to marked.                      *)
LEMMA OnlyMarking ==
    ASSUME IInv, Next, NEW r \in Rows, Live(r), row'[r].state = "marked"
    PROVE  MarkExpired
<1>1. ASSUME NEW i \in Ingests, NEW s \in Rows,
             Push(i, s) \/ UploadOutput(i, s) \/ Fetch(i, s) \/ Share(i, s)
      PROVE  row' = row
  BY <1>1 DEF Push, UploadOutput, Fetch, Share, Start, rowVars
<1>2. ASSUME NEW i \in Ingests,
             KeepVouched(i) \/ DecideUpload(i) \/ Upload(i) \/ Abandon(i)
      PROVE  row' = row
  BY <1>2 DEF KeepVouched, DecideUpload, Upload, Abandon, rowVars
<1>3. ASSUME NEW i \in Ingests, RecordPath(i) \/ RecordForWatcher(i)
      PROVE  FALSE
  BY <1>3 DEF RecordPath, RecordForWatcher, Record, Upsert, IInv, TypeOK, Live
<1>4. ASSUME NEW s \in Rows, RecordAccess(s) \/ Expire(s)
      PROVE  row' = row
  BY <1>4 DEF RecordAccess, Expire
<1>5. CASE Pass
  <2>1. Drain => row'[r].state = "live"
    BY DEF Drain, SetState, Live
  <2>2. ASSUME NEW k \in Keys, Tombstone(k)
        PROVE  row'[r] = row[r]
    BY <2>2 DEF Tombstone, SetState, Live
  <2>3. Select \/ DeleteObject => row' = row
    BY DEF Select, DeleteObject, rowVars
  <2>4. DropObject => row'[r].state = row[r].state
    BY DEF DropObject
  <2>5. Reap => row'[r] = row[r]
    BY DEF Reap, Live
  <2> QED  BY <1>5, <2>1, <2>2, <2>3, <2>4, <2>5 DEF Pass, Live
<1>6. DeleteObjectFails \/ Abort => row' = row
  BY DEF DeleteObjectFails, Abort, rowVars
<1> QED  BY <1>1, <1>2, <1>3, <1>4, <1>5, <1>6 DEF Next, Live

(* mark_expired never marks what a live row with a cutoff refers to.       *)
THEOREM ReferencedIsKeptHolds == Spec => ReferencedIsKept
<1> DEFINE Kept == \A r, s \in Rows :
                      /\ Live(r) /\ row'[r].state = "marked"
                      /\ s[1] = r[1] /\ r[2] \in Refs[s[2]] /\ row'[s].state = "live"
                      => ~Aging(s)
<1>1. IInv /\ [Next]_vars => [Kept]_vars
  <2> SUFFICES ASSUME IInv, Next, NEW r \in Rows, NEW s \in Rows,
                      Live(r), row'[r].state = "marked", s[1] = r[1],
                      r[2] \in Refs[s[2]], row'[s].state = "live", Aging(s)
               PROVE  FALSE
    OBVIOUS
  <2> DEFINE Base == {x \in Rows : Live(x) /\ Aging(x) /\ ~idle[x]}
             Marked == {x \in Rows \ Fresh : Live(x) /\ Aging(x) /\ idle[x]}
  <2>1. MarkExpired
    BY OnlyMarking
  <2>2. r \notin Fresh
    BY <2>1 DEF MarkExpired, SetState, Live
  <2>3. Live(s) /\ s \notin Marked
    <3>1. row'[s] = IF s \in Marked THEN [row[s] EXCEPT !.state = "marked"] ELSE row[s]
      BY <2>1 DEF MarkExpired, SetState
    <3> HIDE DEF Marked
    <3>2. row[s] \in Row
      BY DEF IInv, TypeOK
    <3> QED  BY <3>1, <3>2 DEF Live, Row
  <2>4. Base \subseteq Fresh
    BY ReachFacts DEF Fresh
  <2>5. s \in Fresh
    BY <2>3, <2>4
  <2>6. row[s].state # "none"
    BY <2>3 DEF Live
  <2>7. r \in Fresh
    BY <2>5, <2>6, ReachFacts DEF Fresh
  <2> QED  BY <2>2, <2>7
<1> QED  BY <1>1, Invariance, PTL DEF Spec, ReferencedIsKept
=============================================================================
