----------------------------- MODULE Attachments -----------------------------
(***************************************************************************)
(* Files: rows in PostgreSQL that refer to objects in S3, written by       *)
(* files.service.ts with no transaction across the two, and the lazily     *)
(* created bucket of s3-storage.service.ts.                                *)
(*                                                                         *)
(* One task's attachments and one user's avatar.  S3 itself is external: a *)
(* call that fails may have taken effect.                                  *)
(***************************************************************************)
EXTENDS Naturals

CONSTANTS Reqs,      \* request slots: how many requests are in flight at once
          Keys,      \* object keys; every upload makes up a new one
          MaxFaults  \* bound: failed calls, crashes, deletions of the task

NoKey == "no key"

ASSUME KeysAssumption == NoKey \notin Keys
ASSUME FaultsAssumption == MaxFaults \in Nat

VARIABLES task,     \* the task is there
          rows,     \* the keys of the task's Attachment rows
          avatar,   \* User.avatarKey
          req,      \* the requests
          bucket,   \* the bucket is there
          ready,    \* bucketReady: "unset", "pending", "ok", "failed"
          objects,  \* the stored objects
          used,     \* keys that have been made up
          left,     \* history: objects nobody will delete, and why
          faults    \* how many of MaxFaults have happened

db == <<task, rows, avatar>>
s3 == <<bucket, objects>>
vars == <<db, req, s3, ready, used, left, faults>>

-----------------------------------------------------------------------------
Idle == [at |-> "idle", op |-> "none", key |-> NoKey, old |-> NoKey]

Init == /\ task = TRUE /\ rows = {} /\ avatar = NoKey
        /\ req = [r \in Reqs |-> Idle]
        /\ bucket = FALSE /\ ready = "unset" /\ objects = {}
        /\ used = {} /\ left = {} /\ faults = 0

Fault == faults < MaxFaults /\ faults' = faults + 1

Goto(r, at) == req' = [req EXCEPT ![r].at = at]

\* What clients are given URLs of.
listAttachments == rows
getAvatarUrl == {avatar} \ {NoKey}

Referenced == listAttachments \cup getAvatarUrl

Finish(r) == req' = [req EXCEPT ![r] = Idle]

\* Of the objects in S, those there are stay for good.
LeftBehind(S, why) == left' = left \cup {<<k, why>> : k \in S \cap objects'}

-----------------------------------------------------------------------------
\* buildKey: every upload makes up a new key; `old` is to be deleted afterwards.
Upload(r, op, k, old) ==
  /\ req[r] = Idle /\ k \notin used
  /\ req' = [req EXCEPT ![r] = [at |-> "ensure", op |-> op, key |-> k, old |-> old]]
  /\ used' = used \cup {k}
  /\ UNCHANGED <<db, s3, ready, left, faults>>

\* POST tasks/:taskId/attachments, past requireTask, assertCanWrite and the validators.
addAttachment(r, k) == task /\ Upload(r, "attach", k, NoKey)

\* POST users/me/avatar: the user's row is read first.
setAvatar(r, k) == Upload(r, "avatar", k, avatar)

\* The row is there, and its task with it.
requireAttachment(k) == k \in rows

\* DELETE attachments/:attachmentId, past assertCanWrite.
AskDetach(r, k) ==
  /\ req[r] = Idle /\ requireAttachment(k)
  /\ req' = [req EXCEPT ![r] = [at |-> "detach", op |-> "detach", key |-> NoKey, old |-> k]]
  /\ UNCHANGED <<db, s3, ready, used, left, faults>>

-----------------------------------------------------------------------------
\* ensureBucket: the first upload asks, all of them wait for one answer.
ensureBucket(r) ==
  /\ req[r].at = "ensure"
  /\ \/ ready = "unset" /\ ready' = "pending" /\ UNCHANGED req
     \/ ready = "ok" /\ Goto(r, "put") /\ UNCHANGED ready
     \/ ready = "failed" /\ Finish(r) /\ UNCHANGED ready
  /\ UNCHANGED <<db, s3, used, left, faults>>

\* HeadBucket, and CreateBucket if that fails.
BucketAnswers ==
  /\ ready = "pending"
  /\ bucket' = TRUE /\ ready' = "ok"
  /\ UNCHANGED <<db, req, objects, used, left, faults>>

\* Both have failed; the rejected promise is kept.
BucketFails(created) ==
  /\ ready = "pending" /\ Fault
  /\ bucket' = (bucket \/ created) /\ ready' = "failed"
  /\ UNCHANGED <<db, req, objects, used, left>>

Put(r) ==
  /\ req[r].at = "put"
  /\ objects' = objects \cup {req[r].key}
  /\ Goto(r, "row")
  /\ UNCHANGED <<db, bucket, ready, used, left, faults>>

PutFails(r, stored) ==
  /\ req[r].at = "put" /\ Fault
  /\ objects' = objects \cup {k \in {req[r].key} : stored}
  /\ LeftBehind({req[r].key}, "put failed")
  /\ Finish(r)
  /\ UNCHANGED <<db, bucket, ready, used>>

-----------------------------------------------------------------------------
\* A bug to catch: an upload that writes the row first.
RowFirst(r) == req[r].at \in {"ensure", "row"}

IsStored(r) == req[r].at = "row"

\* The foreign key taskId.
TaskIsThere == task

\* addAttachment's transaction: the row, and an activity record.
AttachRow(r) ==
  /\ IsStored(r) /\ req[r].op = "attach" /\ TaskIsThere
  /\ rows' = rows \cup {req[r].key}
  /\ Finish(r)
  /\ UNCHANGED <<task, avatar, s3, ready, used, left, faults>>

\* The task is gone, or the database: the upload fails, its object stays.
RowFails(r) ==
  /\ IsStored(r)
  /\ IF req[r].op = "attach" /\ ~task THEN UNCHANGED faults ELSE Fault
  /\ UNCHANGED <<db, s3, ready, used>>
  /\ LeftBehind({req[r].key}, "no row")
  /\ Finish(r)

\* A bug to catch: the key to delete is not remembered.
Nothing(r) == NoKey

\* existing?.avatarKey
Superseded(r) == req[r].old

\* Another upload's key, committed since this one read, is overwritten unseen.
AvatarRow(r) ==
  /\ IsStored(r) /\ req[r].op = "avatar"
  /\ avatar' = req[r].key
  /\ req' = [req EXCEPT ![r] = IF Superseded(r) = NoKey THEN Idle
                               ELSE [@ EXCEPT !.at = "delete", !.old = Superseded(r)]]
  /\ UNCHANGED objects
  /\ LeftBehind({avatar} \ {req[r].old}, "overwritten")
  /\ UNCHANGED <<task, rows, bucket, ready, used, faults>>

\* deleteAttachment's transaction; of two, one finds the row.
DetachRow(r) ==
  /\ req[r].at = "detach" /\ req[r].old \in rows
  /\ rows' = rows \ {req[r].old}
  /\ Goto(r, "delete")
  /\ UNCHANGED <<task, avatar, s3, ready, used, left, faults>>

\* The row is gone, or the database.
DetachFails(r) ==
  /\ req[r].at = "detach"
  /\ IF req[r].old \in rows THEN Fault ELSE UNCHANGED faults
  /\ Finish(r)
  /\ UNCHANGED <<db, s3, ready, used, left>>

\* storage.delete: of an object that is gone, too.
DeleteObject(r) ==
  /\ req[r].at = "delete"
  /\ objects' = objects \ {req[r].old}
  /\ Finish(r)
  /\ UNCHANGED <<db, bucket, ready, used, left, faults>>

\* .catch(() => undefined)
DeleteFails(r) ==
  /\ req[r].at = "delete" /\ Fault
  /\ UNCHANGED objects
  /\ LeftBehind({req[r].old}, "delete failed")
  /\ Finish(r)
  /\ UNCHANGED <<db, bucket, ready, used>>

-----------------------------------------------------------------------------
\* TasksService.delete: the rows go with the task, the objects do not.
DeleteTask ==
  /\ task /\ Fault
  /\ task' = FALSE /\ rows' = {}
  /\ UNCHANGED objects
  /\ LeftBehind(rows, "task deleted")
  /\ UNCHANGED <<avatar, req, bucket, ready, used>>

\* The process dies and starts again; a put under way may still be carried out.
Crash ==
  /\ Fault
  /\ \E S \in SUBSET {r \in Reqs : req[r].at = "put"} :
       objects' = objects \cup {req[r].key : r \in S}
  /\ LeftBehind(UNION {IF req[r].at = "delete" THEN {req[r].old} ELSE {req[r].key}
                         : r \in Reqs}, "crash")
  /\ req' = [r \in Reqs |-> Idle] /\ ready' = "unset"
  /\ UNCHANGED <<db, bucket, used>>

Next ==
  \/ \E r \in Reqs :
       \/ \E k \in Keys : addAttachment(r, k) \/ setAvatar(r, k) \/ AskDetach(r, k)
       \/ ensureBucket(r) \/ Put(r)
       \/ AttachRow(r) \/ RowFails(r) \/ AvatarRow(r)
       \/ DetachRow(r) \/ DetachFails(r) \/ DeleteObject(r) \/ DeleteFails(r)
       \/ \E stored \in BOOLEAN : PutFails(r, stored)
  \/ BucketAnswers \/ DeleteTask \/ Crash
  \/ \E created \in BOOLEAN : BucketFails(created)

Spec == Init /\ [][Next]_vars

-----------------------------------------------------------------------------
(***************************************************************************)
(* Properties                                                              *)
(***************************************************************************)
Reasons == {"put failed", "no row", "overwritten", "delete failed", "task deleted", "crash"}

Request == [at: {"idle", "ensure", "put", "row", "detach", "delete"},
            op: {"none", "attach", "avatar", "detach"},
            key: Keys \cup {NoKey}, old: Keys \cup {NoKey}]

TypeOK ==
  /\ task \in BOOLEAN
  /\ rows \subseteq Keys /\ (~task => rows = {})
  /\ avatar \in Keys \cup {NoKey}
  /\ req \in [Reqs -> Request]
  /\ bucket \in BOOLEAN
  /\ ready \in {"unset", "pending", "ok", "failed"}
  /\ objects \subseteq used /\ used \subseteq Keys
  /\ left \in SUBSET (Keys \X Reasons)
  /\ faults \in 0 .. MaxFaults

\* An attachment that is listed, and the avatar that is shown, can be downloaded:
\* whichever of the two systems fails between the steps.
RowsHaveObjects == Referenced \subseteq objects

Held(r) == {req[r].key, req[r].old}

\* An object that no row refers to belongs to a request that is running, or was left
\* behind by one of six accidents (there is no job that collects them).
OrphansHaveAReason ==
  \A k \in objects \ Referenced :
    \/ \E r \in Reqs : k \in Held(r)
    \/ \E why \in Reasons : <<k, why>> \in left
=============================================================================
