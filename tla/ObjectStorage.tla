---------------------------- MODULE ObjectStorage ----------------------------
(***************************************************************************)
(* Buckets and objects of one application: the metadata rows in PostgreSQL *)
(* and the payloads in S3, under concurrent requests that may fail         *)
(* anywhere between the two.                                               *)
(*                                                                         *)
(* A slot is a (bucket, user, key): it has at most one row and one S3      *)
(* payload, each known by the size of what was uploaded.  bucket and row   *)
(* are committed; what a request has flushed is in req and in the locks it *)
(* holds until it ends.  Names, keys, content types and what the handlers  *)
(* refuse before they touch anything are left out.                         *)
(***************************************************************************)
EXTENDS Integers, FiniteSets

CONSTANTS
    Slot, Bucket, User, Worker,
    BucketOf,      \* the bucket of a slot
    UserOf,        \* the user of a slot
    Size,          \* bound: the sizes uploaded to each slot
    AppLimit,      \* object_storage_limit_bytes
    Limits,        \* bound: the max_size_bytes and max_size_bytes_per_user of each bucket
    Ops,           \* bound: the operations each worker carries out
    MaxParted,     \* bound: slots set apart by accidents at a time
    NoLimit, NoRow, NoBlob, NoWorker, NoSlot, NoBucket, Unused, Gone

AllOps == {"create", "update", "deletebucket", "put", "delete"}

ASSUME ObjectStorageAssumption ==
    /\ IsFiniteSet(Slot)
    /\ BucketOf \in [Slot -> Bucket] /\ UserOf \in [Slot -> User]
    /\ Size \in [Slot -> SUBSET Nat] /\ AppLimit \in Nat
    /\ \A b \in Bucket : \A l \in Limits[b] :
          {l.max, l.user} \subseteq (Nat \ {0}) \union {NoLimit}
    /\ MaxParted \in Nat
    /\ NoLimit \notin Nat /\ NoRow \notin Nat /\ NoBlob \notin Nat
    /\ NoWorker \notin Worker /\ NoSlot \notin Slot /\ NoBucket \notin Bucket
    /\ \A b \in Bucket : {Unused, Gone} \intersect Limits[b] = {}
    /\ Unused # Gone
    /\ Ops \in [Worker -> SUBSET AllOps]

VARIABLES
    bucket,     \* committed buckets: their limits
    row,        \* committed storage_objects: their sizes
    blob,       \* payloads in S3: their sizes
    pc,         \* where each request is
    req,        \* what it was asked, has read and will write
    bucketLock, \* the request that holds each bucket row
    rowLock,    \* the request that holds each object row
    parted      \* slots whose row and payload an accident has set apart

database == <<bucket, row>>
locks == <<bucketLock, rowLock>>
vars == <<bucket, row, blob, pc, req, bucketLock, rowLock, parted>>

NoRequest ==
    [op |-> "none", bucket |-> NoBucket, slot |-> NoSlot, size |-> 0,
     delta |-> 0,         \* what it adds to the usage
     limits |-> Unused,   \* what it sets the limits to
     found |-> FALSE,     \* the row it loaded has not been deleted since
     missed |-> {},       \* sums that lack the row whose size delta leaves out
     late |-> FALSE]      \* the application has grown since it was summed up

Live == {b \in Bucket : bucket[b] \in Limits[b]}
SlotsOf(b) == {s \in Slot : BucketOf[s] = b}

\* SUM(size_bytes) over committed rows, counted byte by byte; a request sums before
\* it writes.
Usage(S) == Cardinality(UNION {{s} \X (1..row[s]) : s \in {t \in S : row[t] # NoRow}})

\* The slots one of the three limits is about.
Counted(level, s) ==
    CASE level = "app" -> Slot
      [] level = "bucket" -> SlotsOf(BucketOf[s])
      [] level = "user" -> {t \in SlotsOf(BucketOf[s]) : UserOf[t] = UserOf[s]}

LimitOf(level, b) ==
    CASE level = "app" -> AppLimit
      [] level = "bucket" -> bucket[b].max
      [] level = "user" -> bucket[b].user

Within(used, limit) == limit # NoLimit => used <= limit

Init ==
    /\ bucket = [b \in Bucket |-> Unused]
    /\ row = [s \in Slot |-> NoRow]
    /\ blob = [s \in Slot |-> NoBlob]
    /\ pc = [w \in Worker |-> "idle"]
    /\ req = [w \in Worker |-> NoRequest]
    /\ bucketLock = [b \in Bucket |-> NoWorker]
    /\ rowLock = [s \in Slot |-> NoWorker]
    /\ parted = {}

-----------------------------------------------------------------------------
(* Requests and locks.                                                     *)

At(w, op, stage) == req[w].op = op /\ pc[w] = stage
Go(w, stage) == pc' = [pc EXCEPT ![w] = stage]

\* A request arrives.
Begin(w, r, stage) ==
    /\ pc[w] = "idle" /\ r.op \in Ops[w]
    /\ req' = [req EXCEPT ![w] = r]
    /\ Go(w, stage)
    /\ UNCHANGED <<database, blob, locks, parted>>

BucketFree(b, w) == bucketLock[b] \in {NoWorker, w}
RowFree(s, w) == rowLock[s] \in {NoWorker, w}

\* The sums a put has not made yet.
ToSum(stage) ==
    CASE stage = "app" -> {"app", "bucket", "user"}
      [] stage = "bucket" -> {"bucket", "user"}
      [] stage = "user" -> {"user"}
      [] OTHER -> {}

\* The request ends and its locks go; deleted are the rows it has deleted, and
\* grown whether it has added to the usage: others may have read before.
End(w, deleted, grown) ==
    /\ Go(w, "idle")
    /\ req' = [v \in Worker |->
           IF v = w THEN NoRequest
           ELSE [req[v] EXCEPT
                   !.found = @ /\ req[v].slot \notin deleted,
                   !.missed = @ \union
                       (IF req[v].slot \in deleted THEN ToSum(pc[v]) ELSE {}),
                   !.late = @ \/ (grown /\ req[v].op = "put"
                                  /\ pc[v] \notin {"lock", "replaced", "app"})]]
    /\ bucketLock' = [b \in Bucket |->
           IF bucketLock[b] = w THEN NoWorker ELSE bucketLock[b]]
    /\ rowLock' = [s \in Slot |-> IF rowLock[s] = w THEN NoWorker ELSE rowLock[s]]

\* A deletion of the bucket that has already counted or removed the payloads.
Swept(b) ==
    \E v \in Worker : /\ req[v].op = "deletebucket" /\ req[v].bucket = b
                      /\ pc[v] \in {"rows", "drop", "commit"}

\* Slots whose S3 payload a request has changed while its rows are not committed.
Touched(w) ==
    CASE pc[w] # "commit" /\ pc[w] \notin {"rows", "drop"} -> {}
      [] req[w].op \in {"put", "delete"} -> {req[w].slot}
      [] req[w].op = "deletebucket" -> SlotsOf(req[w].bucket)
      [] OTHER -> {}

\* An accident sets slots apart.
Part(S) == parted' = parted \union S /\ Cardinality(parted \union S) <= MaxParted

\* An error, a lost connection, a deadlock that PostgreSQL breaks, a crash: the
\* database forgets the request and S3 does not.
Abort(w) ==
    /\ pc[w] # "idle"
    /\ Part(Touched(w))
    /\ End(w, {}, FALSE)
    /\ UNCHANGED <<database, blob>>

-----------------------------------------------------------------------------
(* Buckets.                                                                *)

\* Nobody sees the row before the commit, so the request is one step.
CreateBucket(w) ==
    /\ pc[w] = "idle" /\ "create" \in Ops[w]
    /\ \E b \in Bucket : \E l \in Limits[b] :
          bucket[b] = Unused /\ bucket' = [bucket EXCEPT ![b] = l]
    /\ UNCHANGED <<row, blob, pc, req, locks, parted>>

\* update_bucket reads the bucket without a lock.
BeginUpdate(w) ==
    \E b \in Live : \E l \in Limits[b] \ {bucket[b]} :
       Begin(w, [NoRequest EXCEPT !.op = "update", !.bucket = b, !.limits = l], "flush")

\* The UPDATE waits for the row; a bucket deleted meanwhile is a stale row error.
FlushUpdate(w) ==
    LET b == req[w].bucket IN
    /\ At(w, "update", "flush") /\ BucketFree(b, w) /\ b \in Live
    /\ bucketLock' = [bucketLock EXCEPT ![b] = w]
    /\ Go(w, "commit")
    /\ UNCHANGED <<database, blob, req, rowLock, parted>>

CommitUpdate(w) ==
    /\ At(w, "update", "commit")
    /\ bucket' = [bucket EXCEPT ![req[w].bucket] = req[w].limits]
    /\ End(w, {}, FALSE)
    /\ UNCHANGED <<row, blob, parted>>

BeginDeleteBucket(w) ==
    \E b \in Live : Begin(w, [NoRequest EXCEPT !.op = "deletebucket", !.bucket = b], "count")

\* delete_bucket counts the objects; without any it leaves S3 alone, and an
\* upload under way keeps its payload.
Count(w) ==
    LET S == SlotsOf(req[w].bucket)
        empty == \A s \in S : row[s] = NoRow IN
    /\ At(w, "deletebucket", "count") /\ req[w].bucket \in Live
    /\ Go(w, IF empty THEN "rows" ELSE "sweep")
    /\ Part(IF empty THEN {s \in S : blob[s] # NoBlob} ELSE {})
    /\ UNCHANGED <<database, blob, req, locks>>

\* _delete_s3_prefix: S3 answers a batch with the keys it could not delete,
\* which the code does not look at; or it fails after some pages.
Sweep(w) ==
    LET S == {s \in SlotsOf(req[w].bucket) : blob[s] # NoBlob} IN
    /\ At(w, "deletebucket", "sweep")
    /\ \E left \in SUBSET S :
          /\ blob' = [s \in Slot |-> IF s \in S \ left THEN NoBlob ELSE blob[s]]
          /\ \/ /\ Go(w, "rows")
                /\ Part(left)
                /\ UNCHANGED <<req, locks>>
             \/ /\ Part(S \ left)
                /\ End(w, {}, FALSE)
    /\ UNCHANGED database

\* db.delete(bucket) deletes the objects it loads, which takes their locks ...
FlushRows(w) ==
    LET S == {s \in SlotsOf(req[w].bucket) : row[s] # NoRow} IN
    /\ At(w, "deletebucket", "rows")
    /\ \A s \in S : RowFree(s, w)
    /\ rowLock' = [s \in Slot |-> IF s \in S THEN w ELSE rowLock[s]]
    /\ Go(w, "drop")
    /\ UNCHANGED <<database, blob, req, bucketLock, parted>>

\* ... then the bucket, and the foreign key the objects stored since.
FlushDrop(w) ==
    LET b == req[w].bucket
        S == {s \in SlotsOf(b) : row[s] # NoRow} IN
    /\ At(w, "deletebucket", "drop")
    /\ BucketFree(b, w) /\ \A s \in S : RowFree(s, w)
    /\ bucketLock' = [bucketLock EXCEPT ![b] = w]
    /\ rowLock' = [s \in Slot |-> IF s \in S THEN w ELSE rowLock[s]]
    /\ Go(w, "commit")
    /\ UNCHANGED <<database, blob, req, parted>>

CommitDeleteBucket(w) ==
    LET b == req[w].bucket IN
    /\ At(w, "deletebucket", "commit")
    /\ bucket' = [bucket EXCEPT ![b] = Gone]
    /\ row' = [s \in Slot |-> IF s \in SlotsOf(b) THEN NoRow ELSE row[s]]
    /\ End(w, SlotsOf(b), FALSE)
    /\ UNCHANGED <<blob, parted>>

-----------------------------------------------------------------------------
(* Objects.                                                                *)

\* A user stores an object of his own, or an administrator one of a named user's.
BeginPut(w) ==
    \E s \in Slot : \E n \in Size[s] :
       /\ BucketOf[s] \in Live
       /\ Begin(w, [NoRequest EXCEPT !.op = "put", !.slot = s, !.size = n], "lock")

\* _lock_bucket waits for who has the row; a bucket deleted meanwhile is not found.
LockBucket(w) ==
    LET b == BucketOf[req[w].slot] IN
    /\ At(w, "put", "lock") /\ b \in Live /\ BucketFree(b, w)
    /\ bucketLock' = [bucketLock EXCEPT ![b] = w]
    /\ Go(w, "replaced")
    /\ UNCHANGED <<database, blob, req, rowLock, parted>>

\* The key is missing from the WHERE clause.
ReadAllOfUser(w) ==                                                  \* (fault)
    /\ At(w, "put", "replaced")
    /\ req' = [req EXCEPT ![w].delta =
                  req[w].size - Usage({s \in Slot : UserOf[s] = UserOf[req[w].slot]})]
    /\ Go(w, "app")
    /\ UNCHANGED <<database, blob, locks, parted>>

\* The size of the row to be replaced ...
ReadReplaced(w) ==
    /\ At(w, "put", "replaced")
    /\ req' = [req EXCEPT ![w].delta = req[w].size - Usage({req[w].slot})]
    /\ Go(w, "app")
    /\ UNCHANGED <<database, blob, locks, parted>>

\* ... and then each of the three sums is a statement that sees what has been
\* committed by then; a request over a limit is refused.
CheckLimit(w) ==
    LET s == req[w].slot
        level == pc[w] IN
    /\ req[w].op = "put" /\ level \in {"app", "bucket", "user"}
    /\ Within(Usage(Counted(level, s)) + req[w].delta, LimitOf(level, BucketOf[s]))
    /\ Go(w, CASE level = "app" -> "bucket" [] level = "bucket" -> "user"
               [] level = "user" -> "upsert")
    /\ UNCHANGED <<database, blob, req, locks, parted>>

\* The row is sent to the database after the payload.
UpsertUnflushed(w) ==                                                \* (fault)
    /\ At(w, "put", "upsert")
    /\ Go(w, "s3")
    /\ UNCHANGED <<database, blob, req, locks, parted>>

\* The upsert waits for who is deleting the row it replaces.
Upsert(w) ==
    LET s == req[w].slot IN
    /\ At(w, "put", "upsert") /\ RowFree(s, w)
    /\ rowLock' = [rowLock EXCEPT ![s] = w]
    /\ Go(w, "s3")
    /\ UNCHANGED <<database, blob, req, bucketLock, parted>>

\* The payload goes to S3.  An error rolls back, whether or not S3 has stored it.
Store(w) ==
    LET s == req[w].slot IN
    /\ At(w, "put", "s3")
    /\ blob' = [blob EXCEPT ![s] = req[w].size]
    /\ \/ /\ Go(w, "commit")
          /\ IF Swept(BucketOf[s]) THEN Part({s}) ELSE parted' = parted \ {s}
          /\ UNCHANGED <<req, locks>>
       \/ /\ Part({s})
          /\ End(w, {}, FALSE)
    /\ UNCHANGED database

CommitPut(w) ==
    /\ At(w, "put", "commit")
    /\ row' = [row EXCEPT ![req[w].slot] = req[w].size]
    /\ End(w, {}, req[w].size > Usage({req[w].slot}))
    /\ UNCHANGED <<bucket, blob, parted>>

BeginDelete(w) ==
    \E s \in Slot :
       /\ row[s] # NoRow
       /\ Begin(w, [NoRequest EXCEPT !.op = "delete", !.slot = s], "load")

\* delete_object loads the row without a lock.
Load(w) ==
    /\ At(w, "delete", "load") /\ row[req[w].slot] # NoRow
    /\ req' = [req EXCEPT ![w].found = TRUE]
    /\ Go(w, "flush")
    /\ UNCHANGED <<database, blob, locks, parted>>

\* The DELETE is by id: it waits for the row, and one that has gone, even if
\* another has taken its place, is only a warning.
FlushDelete(w) ==
    LET s == req[w].slot IN
    /\ At(w, "delete", "flush")
    /\ req[w].found => RowFree(s, w)
    /\ rowLock' = IF req[w].found THEN [rowLock EXCEPT ![s] = w] ELSE rowLock
    /\ Go(w, "s3")
    /\ UNCHANGED <<database, blob, req, bucketLock, parted>>

\* The payload of the slot goes, whoever stored it.
Remove(w) ==
    LET s == req[w].slot IN
    /\ At(w, "delete", "s3")
    /\ blob' = [blob EXCEPT ![s] = NoBlob]
    /\ \/ /\ Go(w, "commit")
          /\ Part(IF req[w].found \/ blob[s] = NoBlob THEN {} ELSE {s})
          /\ UNCHANGED <<req, locks>>
       \/ /\ Part({s})
          /\ End(w, {}, FALSE)
    /\ UNCHANGED database

CommitDelete(w) ==
    LET S == IF req[w].found THEN {req[w].slot} ELSE {} IN
    /\ At(w, "delete", "commit")
    /\ row' = [s \in Slot |-> IF s \in S THEN NoRow ELSE row[s]]
    /\ End(w, S, FALSE)
    /\ UNCHANGED <<bucket, blob, parted>>

\* open_object: the row, and the payload that is there for it.
Download(s) == [stated |-> row[s], body |-> blob[s]]

Next ==
    \E w \in Worker :
       \/ CreateBucket(w)
       \/ BeginUpdate(w) \/ FlushUpdate(w) \/ CommitUpdate(w)
       \/ BeginDeleteBucket(w) \/ Count(w) \/ Sweep(w) \/ FlushRows(w) \/ FlushDrop(w)
       \/ CommitDeleteBucket(w)
       \/ BeginPut(w) \/ LockBucket(w) \/ ReadReplaced(w) \/ CheckLimit(w)
       \/ Upsert(w) \/ Store(w) \/ CommitPut(w)
       \/ BeginDelete(w) \/ Load(w) \/ FlushDelete(w) \/ Remove(w) \/ CommitDelete(w)
       \/ Abort(w)

Spec == Init /\ [][Next]_vars

-----------------------------------------------------------------------------
(* Properties.                                                             *)

\* Types, and that a request holds its locks from the flush to the end.
TypeOK ==
    /\ \A b \in Bucket : bucket[b] \in Limits[b] \union {Unused, Gone}
    /\ \A s \in Slot : row[s] \in Size[s] \union {NoRow} /\ blob[s] \in Size[s] \union {NoBlob}
    /\ \A s \in Slot : row[s] # NoRow => BucketOf[s] \in Live
    /\ \A w \in Worker :
          /\ pc[w] \in {"idle", "load", "flush", "count", "sweep", "rows", "drop", "lock",
                        "replaced", "app", "bucket", "user", "upsert", "s3", "commit"}
          /\ At(w, "put", pc[w]) /\ pc[w] # "lock" => bucketLock[BucketOf[req[w].slot]] = w
          /\ pc[w] = "idle" => \A s \in Slot : rowLock[s] # w
    /\ parted \subseteq Slot

\* services/objects.py:8-11 "a failed upload rolls back ... and leaves no orphaned
\* row.  Deletes run in the same order": once no request holds an object, it can be
\* downloaded as it is described, and nothing is stored that is not listed, except
\* after one of the accidents that parted records: S3 answered with an error or the
\* request failed after S3 had done its part, a deletion of an object that had
\* already been deleted and stored anew, an upload beside the deletion of its bucket.
StoreMatchesRows ==
    \A s \in Slot :
       rowLock[s] = NoWorker /\ s \notin parted /\ ~Swept(BucketOf[s]) =>
          \/ Download(s) = [stated |-> NoRow, body |-> NoBlob]
          \/ row[s] # NoRow /\ Download(s).stated = Download(s).body

\* services/objects.py:11-15: an upload that adds to the usage leaves the bucket, the
\* user and the application within their limits, "so concurrent uploads queue instead
\* of all admitting themselves against the same stale figure".  It holds of a sum made
\* while the object replaced was still there, and of the application as long as no
\* upload to another bucket was admitted meanwhile.
QuotaKept ==
    [][\A w \in Worker, s \in Slot :
          At(w, "put", "commit") /\ req[w].slot = s /\ row'[s] # row[s] =>
             \A level \in {"app", "bucket", "user"} :
                \/ Within(Usage(Counted(level, s))', LimitOf(level, BucketOf[s]))
                \/ level \in req[w].missed
                \/ level = "app" /\ req[w].late]_vars
=============================================================================
