----------------------------- MODULE FileStore ------------------------------
(***************************************************************************)
(* Uploads and downloads over MinIO: file_service.upload puts the bytes in *)
(* the object store and then records the file in PostgreSQL, in that order *)
(* and with nothing that undoes the first when the second fails; download  *)
(* reads the record and then the object.  MinioStorage creates its bucket  *)
(* on first use, in threads of the default executor, so that several       *)
(* requests may run _ensure_bucket at the same time.                       *)
(*                                                                         *)
(* An upload is named by its object key, which is drawn at random.  The    *)
(* checks of name and size change nothing and are left out, and so is      *)
(* FakeObjectStorage, whose objects live as long as the process.           *)
(***************************************************************************)
EXTENDS Naturals

CONSTANTS Keys,          \* uploads, by object key
          Readers,       \* tasks that serve downloads
          MaxRestarts    \* bound: restarts of the process

ASSUME RequestsAssumption == Keys \intersect Readers = {}
ASSUME MaxAssumption == MaxRestarts \in Nat

VARIABLES
  bucket,     \* the bucket exists
  ready,      \* _bucket_ready
  objects,    \* keys of the stored objects
  files,      \* keys of the committed rows of files
  step,       \* step[r]: where the upload or download r stands
  wanted,     \* wanted[r]: the keys of the record a download has read
  restarts

vars == <<bucket, ready, objects, files, step, wanted, restarts>>

Requests == Keys \union Readers
Answers == {"ok", "failed", "not_found", "lost"}
Resting == Answers \union {"idle"}
Goto(r, s) == step' = [step EXCEPT ![r] = s]

Init ==
  /\ bucket = FALSE /\ ready = FALSE
  /\ objects = {} /\ files = {}
  /\ step = [r \in Requests |-> "idle"]
  /\ wanted = [r \in Readers |-> {}]
  /\ restarts = 0

-----------------------------------------------------------------------------
\* MinioStorage._ensure_bucket, which put_object and get_object call first.

Ensured(r) == IF r \in Keys THEN "put" ELSE "get"

MutantCheckBucket(r) ==        \* the flag is set before the bucket is made
  /\ step[r] = "ensure"
  /\ ready' = TRUE
  /\ Goto(r, IF ready \/ bucket THEN Ensured(r) ELSE "make")
  /\ UNCHANGED <<bucket, objects, files, wanted, restarts>>
\* The flag, and bucket_exists unless it is set.
CheckBucket(r) ==
  /\ step[r] = "ensure"
  /\ ready' = (ready \/ bucket)
  /\ Goto(r, IF ready \/ bucket THEN Ensured(r) ELSE "make")
  /\ UNCHANGED <<bucket, objects, files, wanted, restarts>>

\* make_bucket raises when another thread has made the bucket meanwhile.
MakeBucket(r) ==
  /\ step[r] = "make"
  /\ bucket' = TRUE
  /\ ready' = (ready \/ ~bucket)
  /\ Goto(r, IF bucket THEN "failed" ELSE Ensured(r))
  /\ UNCHANGED <<objects, files, wanted, restarts>>

-----------------------------------------------------------------------------
\* file_service.upload

BeginUpload(k) ==
  /\ step[k] = "idle"
  /\ Goto(k, "ensure")
  /\ UNCHANGED <<bucket, ready, objects, files, wanted, restarts>>

PutObject(k) ==
  /\ step[k] = "put"
  /\ objects' = objects \union {k}
  /\ Goto(k, "record")
  /\ UNCHANGED <<bucket, ready, files, wanted, restarts>>

MutantRecordFile(k) ==         \* commit() forgotten
  /\ step[k] = "record"
  /\ Goto(k, "ok")
  /\ UNCHANGED <<bucket, ready, objects, files, wanted, restarts>>
\* FileRepo.create and commit
RecordFile(k) ==
  /\ step[k] = "record"
  /\ files' = files \union {k}
  /\ Goto(k, "ok")
  /\ UNCHANGED <<bucket, ready, objects, wanted, restarts>>

-----------------------------------------------------------------------------
\* download

ReadRecord(r) ==
  /\ step[r] \in Resting
  /\ \/ \E k \in files : wanted' = [wanted EXCEPT ![r] = {k}] /\ Goto(r, "ensure")
     \/ Goto(r, "not_found") /\ UNCHANGED wanted
  /\ UNCHANGED <<bucket, ready, objects, files, restarts>>

GetObject(r) ==
  /\ step[r] = "get"
  /\ Goto(r, IF wanted[r] \subseteq objects THEN "ok" ELSE "lost")
  /\ UNCHANGED <<bucket, ready, objects, files, wanted, restarts>>

-----------------------------------------------------------------------------
MutantFails(r) ==              \* the file is recorded before it is stored
  /\ step[r] \notin Resting
  /\ Goto(r, "failed")
  /\ files' = IF r \in Keys THEN files \union {r} ELSE files
  /\ UNCHANGED <<bucket, ready, objects, wanted, restarts>>
\* The store or the database refuses the call the request stands at.
Fails(r) ==
  /\ step[r] \notin Resting
  /\ Goto(r, "failed")
  /\ UNCHANGED <<bucket, ready, objects, files, wanted, restarts>>

\* The call took effect but its answer was lost.
PutAnswerLost(k) ==
  /\ step[k] = "put"
  /\ objects' = objects \union {k}
  /\ Goto(k, "failed")
  /\ UNCHANGED <<bucket, ready, files, wanted, restarts>>

CommitAnswerLost(k) ==
  /\ step[k] = "record"
  /\ files' = files \union {k}
  /\ Goto(k, "failed")
  /\ UNCHANGED <<bucket, ready, objects, wanted, restarts>>

\* The process restarts: requests are gone, the flag is cleared.
Restart ==
  /\ restarts < MaxRestarts
  /\ restarts' = restarts + 1
  /\ ready' = FALSE
  /\ step' = [r \in Requests |-> IF step[r] \in Resting THEN step[r] ELSE "failed"]
  /\ UNCHANGED <<bucket, objects, files, wanted>>

-----------------------------------------------------------------------------
EnsureBucket(r) == CheckBucket(r) \/ MakeBucket(r)
Upload(k) == BeginUpload(k) \/ PutObject(k) \/ RecordFile(k)
Download(r) == ReadRecord(r) \/ GetObject(r)

Next ==
  \/ \E k \in Keys : Upload(k) \/ PutAnswerLost(k) \/ CommitAnswerLost(k)
  \/ \E r \in Readers : Download(r)
  \/ \E r \in Requests : EnsureBucket(r) \/ Fails(r)
  \/ Restart

Spec == Init /\ [][Next]_vars

-----------------------------------------------------------------------------
\* Besides types: the cached flag is never ahead of the store, and a request
\* that talks to the store has found or made its bucket.
TypeOK ==
  /\ bucket \in BOOLEAN /\ ready \in BOOLEAN
  /\ ready => bucket
  /\ objects \in SUBSET Keys /\ files \in SUBSET Keys
  /\ step \in [Requests -> Resting \union {"ensure", "make", "put", "record", "get"}]
  /\ wanted \in [Readers -> SUBSET Keys]
  /\ \A r \in Requests : step[r] \in {"put", "record", "get"} => bucket
  /\ restarts \in Nat

\* A file that is recorded can be downloaded: its object was stored before,
\* whatever failed or was restarted in between (file_service.py:39-49).
RecordHasObject == files \subseteq objects /\ \A r \in Readers : step[r] # "lost"

\* An object nobody can name comes from an upload that failed or that is
\* still going on: an upload that was answered left none behind.
OrphanIsFailure == \A k \in objects \ files : step[k] \in {"record", "failed"}
=============================================================================
