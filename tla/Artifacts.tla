------------------------------ MODULE Artifacts ------------------------------
(***************************************************************************)
(* The uploaded files of one workspace: what is kept of them in the        *)
(* artifact store (a directory or an S3 bucket), the rows that account for *)
(* it (artifacts.go), the uploads and sets that need it (application/      *)
(* ingestion), and the sources and discovery runs that read it.            *)
(*                                                                         *)
(* A content is named by its digest, so that several uploads and several   *)
(* sources share one object.  Every transaction takes the workspace's lock *)
(* and is one step, but for the two that delete an object: they hold the   *)
(* lock while they call the store, which no rollback undoes.  An upload    *)
(* writes to the store between its transactions, without the lock.         *)
(*                                                                         *)
(* Deadlines count down: 0 is due, and NoDeadline is NULL.                 *)
(***************************************************************************)
EXTENDS Integers, FiniteSets, FiniteSetsExt

CONSTANTS
    Content,      \* digests
    Key,          \* idempotency keys of uploads
    Source,
    Handler,      \* requests that upload at the same time
    Unset,
    Cleaner,      \* the cleanup loop, as the owner of a transaction
    Mixes,        \* the ways to give the keys their files
    MaxObjects,   \* MaxWorkspaceObjects, 10000 in the code; here one for each mix
    Reservation,  \* what a reservation lasts: an hour
    Retention,    \* SEMLIA_ARTIFACT_RETENTION: a day or more
    MaxVersion,   \* bound: versions of a source
    MaxCount      \* bound: reservations of one object

\* What a key is used for: the fingerprint of a request binds it.  A file for
\* the first set of a source is uploaded without a source, which it then makes.
Files == [content: Content, source: Source, first: BOOLEAN]

ASSUME ArtifactAssumption ==
    /\ Unset \notin Content \union Key \union Source \union Handler \union {Cleaner}
    /\ Cleaner \notin Handler
    /\ Mixes \subseteq [Key -> Files]
    /\ MaxObjects \in [Mixes -> Nat \ {0}]
    /\ Reservation \in Nat \ {0}
    /\ Retention \in Nat /\ Retention > Reservation
    /\ MaxVersion \in Nat \ {0}
    /\ MaxCount \in Nat \ {0}

VARIABLES
    file,     \* what each key is used for
    at,       \* where the request of each handler is
    upload,   \* source_artifacts, by idempotency key
    row,      \* artifact_object_retention
    used,     \* workspace_artifact_usage.active_object_count
    store,    \* the contents that are in the artifact store
    source,   \* source_connections, with the contents of their sets
    pins,     \* what the queued or running discovery run of a source pins
    history,  \* what the source revisions of snapshots pin
    set,      \* the request that finalizes a set of uploads
    erasing,  \* the transaction that deletes an object
    doubtful  \* contents that met one of the cases ContentIsThere excepts

sourceVars == <<source, pins, history>>
filesVars == <<file, at, upload, row, used, store, source, pins, history, set, erasing, doubtful>>

NoDeadline == -1
Later(a, b) == Max({a, b})

Steps == {"idle", "reserve", "put", "create", "release", "erasing"}
Idle == [step |-> "idle", key |-> Unset, version |-> 0]
NoUpload == [state |-> "none", until |-> NoDeadline]
NoRow == [state |-> "none", count |-> 0, until |-> NoDeadline]
NoSource == [state |-> "none", version |-> 0, current |-> {}, past |-> {}]
NoSet == [keys |-> {}, source |-> Unset, version |-> 0]
NotErasing == [by |-> Unset, content |-> Unset, gone |-> FALSE]

FileOf(h) == file[at[h].key]
ContentOf(h) == FileOf(h).content
ContentsOf(keys) == {file[k].content : k \in keys}

FilesInit ==
    /\ file \in Mixes
    /\ at = [h \in Handler |-> Idle]
    /\ upload = [k \in Key |-> NoUpload]
    /\ row = [d \in Content |-> NoRow]
    /\ used = 0
    /\ store = {}
    /\ source = [s \in Source |-> NoSource]
    /\ pins = [s \in Source |-> {}]
    /\ history = {}
    /\ set = NoSet
    /\ erasing = NotErasing
    /\ doubtful = {}

\* lockArtifactWorkspace, which every transaction here begins with.
LockFree == erasing = NotErasing

-----------------------------------------------------------------------------
(* Who needs a content.                                                    *)

Pending(d) == \E k \in Key : upload[k].state = "uploaded" /\ file[k].content = d
InActiveSet(d) == \E s \in Source : source[s].state = "active" /\ d \in source[s].current
\* Bug: what a run still has to read is not protected.
BugInActiveRun(d) == FALSE
InActiveRun(d) == \E s \in Source : d \in pins[s]

\* Bug: an object without a deadline does not get one.
BugExtended(until, to) == IF until = NoDeadline THEN NoDeadline ELSE Later(until, to)
\* A deadline moved by GREATEST, which passes over NULL.
Extended(until, to) == Later(until, to)

\* expires_at of the objects of a source that it no longer uses.
Retire(r, contents) ==
    [d \in Content |-> IF d \in contents /\ r[d].state = "retained"
                       THEN [r[d] EXCEPT !.until = Extended(@, Retention)]
                       ELSE r[d]]

-----------------------------------------------------------------------------
(* Uploads: Service.Stage.                                                 *)

GoTo(h, step) == at' = [at EXCEPT ![h].step = step]
GoIdle(h) == at' = [at EXCEPT ![h] = Idle]

\* validateArtifactSource
SourceFits(h) ==
    LET f == FileOf(h) IN
    f.first \/ (source[f.source].state = "active" /\ source[f.source].version = at[h].version)

\* The request, the check of its content, and FindArtifactByIdempotency: the
\* upload may be there already.
Stage(h, k) ==
    /\ at[h].step = "idle"
    /\ upload[k].state = "none"
    /\ file[k].first \/ source[file[k].source].state # "none"
    /\ at' = [at EXCEPT ![h] = [step |-> "reserve", key |-> k,
                                version |-> IF file[k].first THEN 0
                                            ELSE source[file[k].source].version]]
    /\ UNCHANGED <<file, upload, row, used, store, sourceVars, set, erasing, doubtful>>

\* RecordRejectedArtifact: the content is not valid, and nothing is stored.
Reject(h) ==
    /\ at[h].step = "reserve"
    /\ LockFree
    /\ upload' = IF upload[at[h].key].state = "none" /\ SourceFits(h)
                 THEN [upload EXCEPT ![at[h].key].state = "rejected"] ELSE upload
    /\ GoIdle(h)
    /\ UNCHANGED <<file, row, used, store, sourceVars, set, erasing, doubtful>>

\* The row after ReserveArtifactObject.
Reserved(h, hour) ==
    LET r == row[ContentOf(h)] IN
    CASE r.state \in {"none", "deleted"} -> [state |-> "reserved", count |-> 1, until |-> hour]
      [] r.state = "reserved" -> [r EXCEPT !.count = @ + 1, !.until = Extended(@, hour)]
      [] r.state = "retained" /\ r.until # NoDeadline -> [r EXCEPT !.until = Extended(@, hour)]
      [] OTHER -> r

\* Bug: an object that comes back is not counted again.
BugNeedsQuota(d) == row[d].state = "none"
NeedsQuota(d) == row[d].state \in {"none", "deleted"}

Reserve(h) ==
    /\ at[h].step = "reserve"
    /\ LockFree
    /\ SourceFits(h)
    /\ NeedsQuota(ContentOf(h)) => used < MaxObjects[file]
    /\ row[ContentOf(h)].count < MaxCount
    /\ \E hour \in 0..Reservation : row' = [row EXCEPT ![ContentOf(h)] = Reserved(h, hour)]
    /\ used' = IF NeedsQuota(ContentOf(h)) THEN used + 1 ELSE used
    /\ GoTo(h, "put")
    /\ UNCHANGED <<file, upload, store, sourceVars, set, erasing, doubtful>>

NotReserved(h) ==
    /\ at[h].step = "reserve"
    /\ LockFree
    /\ ~SourceFits(h) \/ (NeedsQuota(ContentOf(h)) /\ used >= MaxObjects[file])
    /\ GoIdle(h)
    /\ UNCHANGED <<file, upload, row, used, store, sourceVars, set, erasing, doubtful>>

\* ArtifactStore.Put, which an object that is there already satisfies.
Put(h) ==
    /\ at[h].step = "put"
    /\ store' = store \union {ContentOf(h)}
    /\ GoTo(h, "create")
    /\ UNCHANGED <<file, upload, row, used, sourceVars, set, erasing, doubtful>>

\* A Put that reports an error may have written the object.
PutFails(h) ==
    /\ at[h].step = "put"
    /\ store' \in {store, store \union {ContentOf(h)}}
    /\ GoTo(h, "release")
    /\ UNCHANGED <<file, upload, row, used, sourceVars, set, erasing, doubtful>>

\* Bug: the reservations are not reset.
BugRetained(h, deadline) == [row[ContentOf(h)] EXCEPT !.state = "retained", !.until = deadline]
\* The row after the update of CreateArtifact.
Retained(h, deadline) ==
    LET r == row[ContentOf(h)] IN
    [state |-> "retained", count |-> 0,
     until |-> IF r.state = "retained" /\ r.until = NoDeadline THEN NoDeadline
               ELSE Extended(r.until, deadline)]

MayRetain(d) == row[d].state \in {"reserved", "retained"}

\* CreateArtifact.  The commit may succeed and be reported as an error.
Create(h) ==
    /\ at[h].step = "create"
    /\ LockFree
    /\ upload[at[h].key].state = "none"
    /\ SourceFits(h)
    /\ MayRetain(ContentOf(h))
    /\ \E deadline \in 0..Retention :
          /\ row' = [row EXCEPT ![ContentOf(h)] = Retained(h, deadline)]
          /\ upload' = [upload EXCEPT ![at[h].key] = [state |-> "uploaded", until |-> deadline]]
    /\ GoIdle(h) \/ GoTo(h, "release")
    /\ UNCHANGED <<file, used, store, sourceVars, set, erasing, doubtful>>

\* A request with the same key was faster; its upload is the answer.
CreatedBefore(h) ==
    /\ at[h].step = "create"
    /\ LockFree
    /\ upload[at[h].key].state # "none"
    /\ GoIdle(h)
    /\ UNCHANGED <<file, upload, row, used, store, sourceVars, set, erasing, doubtful>>

\* The source or the reservation is no longer what it was, or the database fails.
NotCreated(h) ==
    /\ at[h].step = "create"
    /\ LockFree
    /\ GoTo(h, "release")
    /\ UNCHANGED <<file, upload, row, used, store, sourceVars, set, erasing, doubtful>>

\* ReleaseArtifactObjectReservation.  Of several reservations of an object one
\* is given back; the last takes the object with it, if no upload refers to it.
Referenced(d) ==
    \E k \in Key : upload[k].state \in {"uploaded", "validated"} /\ file[k].content = d

Release(h) ==
    LET d == ContentOf(h) IN
    /\ at[h].step = "release"
    /\ LockFree
    /\ row[d].state = "reserved" /\ row[d].count > 1
    /\ row' = [row EXCEPT ![d].count = @ - 1]
    /\ GoIdle(h)
    /\ UNCHANGED <<file, upload, used, store, sourceVars, set, erasing, doubtful>>

ReleaseLast(h) ==
    LET d == ContentOf(h) IN
    /\ at[h].step = "release"
    /\ LockFree
    /\ row[d].state = "reserved" /\ row[d].count = 1
    /\ ~Referenced(d)
    /\ erasing' = [by |-> h, content |-> d, gone |-> FALSE]
    /\ GoTo(h, "erasing")
    /\ UNCHANGED <<file, upload, row, used, store, sourceVars, set, doubtful>>

NothingToRelease(h) ==
    LET d == ContentOf(h) IN
    /\ at[h].step = "release"
    /\ LockFree
    /\ row[d].state = "reserved" => row[d].count = 1 /\ Referenced(d)
    /\ GoIdle(h)
    /\ UNCHANGED <<file, upload, row, used, store, sourceVars, set, erasing, doubtful>>

\* The process dies, or an error ends the request where nothing is cleaned up.
\* The transaction it may be in is rolled back.
Abandon(h) ==
    /\ at[h].step # "idle"
    /\ GoIdle(h)
    /\ erasing' = IF erasing.by = h THEN NotErasing ELSE erasing
    /\ doubtful' = IF erasing.by = h /\ erasing.gone
                   THEN doubtful \union {erasing.content} ELSE doubtful
    /\ UNCHANGED <<file, upload, row, used, store, sourceVars, set>>

Request(h) ==
    \/ Reserve(h) \/ NotReserved(h) \/ Put(h) \/ PutFails(h)
    \/ Create(h) \/ CreatedBefore(h) \/ NotCreated(h)
    \/ Release(h) \/ ReleaseLast(h) \/ NothingToRelease(h)

-----------------------------------------------------------------------------
(* Cleanup: CleanupArtifactObjects, and the end of a deletion.             *)

Overdue(d) == {k \in Key : upload[k] = [state |-> "uploaded", until |-> 0] /\ file[k].content = d}

\* The first query of cleanupArtifactObject.
Candidate(d) ==
    /\ \/ row[d].state = "reserved" /\ row[d].until = 0
       \/ row[d].state = "retained" /\ row[d].until = 0 /\ ~InActiveSet(d) /\ ~InActiveRun(d)
       \/ Overdue(d) # {}
    /\ d \notin history

\* The check after the uploads that are overdue were rejected.
Protected(d) ==
    \/ InActiveSet(d) \/ InActiveRun(d) \/ d \in history
    \/ \E k \in Key \ Overdue(d) : upload[k].state = "uploaded" /\ file[k].content = d

StillRetained(d) == row[d].state = "retained" /\ row[d].until # 0

Expired(d) ==
    [k \in Key |-> IF k \in Overdue(d) THEN [state |-> "rejected", until |-> NoDeadline] ELSE upload[k]]

\* Its uploads expire, and the object stays.
CleanUploads(d) ==
    /\ LockFree
    /\ Candidate(d)
    /\ Protected(d) \/ StillRetained(d)
    /\ upload' = Expired(d)
    /\ UNCHANGED <<file, at, row, used, store, sourceVars, set, erasing, doubtful>>

CleanObject(d) ==
    /\ LockFree
    /\ Candidate(d)
    /\ ~Protected(d) /\ ~StillRetained(d)
    /\ erasing' = [by |-> Cleaner, content |-> d, gone |-> FALSE]
    /\ UNCHANGED <<file, at, upload, row, used, store, sourceVars, set, doubtful>>

\* An upload of this content is under way: the reservation it had is over.
Outlived(d) ==
    \E h \in Handler : at[h].step \in {"put", "create", "release"} /\ ContentOf(h) = d

\* ArtifactStore.Delete, within the transaction.
Erase ==
    LET d == erasing.content IN
    /\ ~LockFree /\ ~erasing.gone
    /\ store' = store \ {d}
    /\ erasing' = [erasing EXCEPT !.gone = TRUE]
    /\ doubtful' = IF Outlived(d) THEN doubtful \union {d} ELSE doubtful
    /\ UNCHANGED <<file, at, upload, row, used, sourceVars, set>>

EraseCommits ==
    LET d == erasing.content IN
    /\ erasing.gone
    /\ row' = [row EXCEPT ![d] = [state |-> "deleted", count |-> 0, until |-> NoDeadline]]
    /\ used' = used - 1
    /\ IF erasing.by = Cleaner
       THEN upload' = Expired(d) /\ UNCHANGED at
       ELSE GoIdle(erasing.by) /\ UNCHANGED upload
    /\ erasing' = NotErasing
    /\ UNCHANGED <<file, store, sourceVars, set, doubtful>>

\* The store does not answer, or the commit fails: the rows stay as they were,
\* and cleanup tries again later (deferArtifactCleanup).
EraseFails ==
    /\ erasing.by = Cleaner
    /\ doubtful' = IF erasing.gone THEN doubtful \union {erasing.content} ELSE doubtful
    /\ erasing' = NotErasing
    /\ UNCHANGED <<file, at, upload, row, used, store, sourceVars, set>>

-----------------------------------------------------------------------------
(* Sets and sources: Service.Finalize, UpdateDiscoverySource.              *)

\* The reads of finalizeAuthorized: every member is there, in the store too.  An
\* upload bound to a source goes into a set of that source, any other into the
\* first set of a new one.
ReadMembers(keys, s) ==
    /\ set = NoSet
    /\ \A k \in keys :
          /\ upload[k].state = "uploaded"
          /\ file[k].source = s /\ file[k].first = (source[s].state = "none")
    /\ ContentsOf(keys) \subseteq store
    /\ set' = [keys |-> keys, source |-> s, version |-> source[s].version]
    /\ UNCHANGED <<file, at, upload, row, used, store, sourceVars, erasing, doubtful>>

\* FinalizeArtifactSet.  It looks at no deadline, and the table's check admits
\* no reservations on a row that is retained.
MayFinalize ==
    LET s == set.source IN
    /\ source[s].state \in {"none", "active"}
    /\ source[s].version = set.version
    /\ \A k \in set.keys : upload[k].state = "uploaded" /\ row[file[k].content].count = 0

FinalizeSet ==
    LET s == set.source
        members == ContentsOf(set.keys)
        kept == [d \in Content |-> IF d \in members
                                   THEN [row[d] EXCEPT !.state = "retained", !.until = NoDeadline]
                                   ELSE row[d]]
    IN
    /\ set # NoSet
    /\ LockFree
    /\ MayFinalize
    /\ set.version < MaxVersion
    /\ upload' = [k \in Key |-> IF k \in set.keys
                                THEN [state |-> "validated", until |-> NoDeadline] ELSE upload[k]]
    /\ row' = Retire(kept, source[s].past \ members)
    /\ source' = [source EXCEPT ![s] =
                      [state |-> "active", version |-> set.version + 1,
                       current |-> members, past |-> @.past \union members]]
    /\ set' = NoSet
    /\ UNCHANGED <<file, at, used, store, pins, history, erasing, doubtful>>

\* A conflict, an error, or the end of the process.
NotFinalized ==
    /\ set # NoSet
    /\ set' = NoSet
    /\ UNCHANGED <<file, at, upload, row, used, store, sourceVars, erasing, doubtful>>

\* The sets of a deleted source lose their protection in time.
DeleteSource(s) ==
    /\ LockFree
    /\ source[s].state # "none" /\ source[s].version < MaxVersion
    /\ source' = [source EXCEPT ![s].state = "deleted", ![s].version = @ + 1]
    /\ row' = Retire(row, source[s].past)
    /\ UNCHANGED <<file, at, upload, used, store, pins, history, set, erasing, doubtful>>

\* UpdateDiscoverySource gives any source the status that is asked for.
RestoreSource(s) ==
    /\ LockFree
    /\ source[s].state = "deleted" /\ source[s].version < MaxVersion
    /\ source' = [source EXCEPT ![s].state = "active", ![s].version = @ + 1]
    /\ doubtful' = doubtful \union (source[s].current \ store)
    /\ UNCHANGED <<file, at, upload, row, used, store, pins, history, set, erasing>>

\* createQueuedDiscoveryRunTx: a source has one queued or running run, which
\* pins its active set.
QueueRun(s) ==
    /\ LockFree
    /\ source[s].state = "active" /\ pins[s] = {}
    /\ pins' = [pins EXCEPT ![s] = source[s].current]
    /\ UNCHANGED <<file, at, upload, row, used, store, source, history, set, erasing, doubtful>>

\* A run that ends, well or not, leaves a source revision with a snapshot,
\* which pins what it read.  If it shows what an earlier one showed, the
\* revision is that one, with the pins it has.
EndRun(s) ==
    /\ LockFree
    /\ pins[s] # {}
    /\ \/ history' = history \union pins[s]
       \/ source[s].past \intersect history # {} /\ UNCHANGED history
    /\ pins' = [pins EXCEPT ![s] = {}]
    /\ UNCHANGED <<file, at, upload, row, used, store, source, set, erasing, doubtful>>

-----------------------------------------------------------------------------
(* Time.  A deletion is given 15 seconds, or 10: no deadline here passes   *)
(* meanwhile.  An upload may last any time.                                *)

Less(until) == IF until > 0 THEN until - 1 ELSE until

TimePasses ==
    /\ LockFree
    /\ row' = [d \in Content |-> [row[d] EXCEPT !.until = Less(@)]]
    /\ upload' = [k \in Key |-> [upload[k] EXCEPT !.until = Less(@)]]
    /\ UNCHANGED <<file, at, used, store, sourceVars, set, erasing, doubtful>>

-----------------------------------------------------------------------------

Clean == \E d \in Content : CleanUploads(d) \/ CleanObject(d)

FilesNext ==
    \/ \E h \in Handler : Request(h) \/ Reject(h) \/ Abandon(h) \/ \E k \in Key : Stage(h, k)
    \/ Clean \/ Erase \/ EraseCommits \/ EraseFails
    \/ \E keys \in (SUBSET Key) \ {{}}, s \in Source : ReadMembers(keys, s)
    \/ FinalizeSet \/ NotFinalized
    \/ \E s \in Source : DeleteSource(s) \/ RestoreSource(s) \/ QueueRun(s) \/ EndRun(s)
    \/ TimePasses

FilesSpec == FilesInit /\ [][FilesNext]_filesVars

-----------------------------------------------------------------------------
(* Properties.                                                             *)

Deadlines == {NoDeadline} \union 0..Retention

\* The rows of the database are of the shapes its checks admit.
FilesTypeOK ==
    /\ file \in Mixes
    /\ at \in [Handler -> [step: Steps, key: Key \union {Unset}, version: 0..MaxVersion]]
    /\ upload \in [Key -> [state: {"none", "uploaded", "validated", "rejected"}, until: Deadlines]]
    /\ \A d \in Content :
          \/ row[d] \in [state: {"reserved"}, count: 1..MaxCount, until: 0..Retention]
          \/ row[d] \in [state: {"retained"}, count: {0}, until: Deadlines]
          \/ row[d] \in [state: {"none", "deleted"}, count: {0}, until: {NoDeadline}]
    /\ used \in 0..MaxObjects[file]
    /\ store \subseteq Content
    /\ source \in [Source -> [state: {"none", "active", "deleted"}, version: 0..MaxVersion,
                              current: SUBSET Content, past: SUBSET Content]]
    /\ pins \in [Source -> SUBSET Content]
    /\ history \subseteq Content
    /\ set.keys \subseteq Key
    /\ doubtful \subseteq Content

Held(d) == InActiveSet(d) \/ InActiveRun(d) \/ d \in history
Charged(d) == row[d].state \in {"reserved", "retained"}

\* ContentIsThere: what an upload, the active set of a source, an unfinished
\* discovery run or a snapshot refers to is in the store, although uploads,
\* failed uploads, cleanup and several sources share one object.  It holds
\* whenever no deletion of that object is under way, with three exceptions: a deletion that was done in the store and rolled back in
\* the database, an upload that outlived its reservation, and a deleted source
\* that was brought back after its content had expired.
ContentIsThere ==
    \A d \in Content \ (doubtful \union {erasing.content}) : Pending(d) \/ Held(d) => d \in store

\* QuotaIsHonest: the usage counter is the number of rows that hold an object,
\* and every object in the store has such a row: whatever fails, the store
\* never holds more than the quota (but for an upload that outlived its
\* reservation).  Nor does the quota fill with what nobody uses: an object that
\* is kept without a deadline is in the active set of a source, and whatever
\* else is charged has a deadline at which cleanup takes it up, whoever used
\* it and left it and in whatever order.
QuotaIsHonest ==
    /\ used = Cardinality({d \in Content : Charged(d)})
    /\ \A d \in store \ doubtful : Charged(d)
    /\ \A d \in Content : Charged(d) /\ row[d].until = NoDeadline => InActiveSet(d)

=============================================================================
