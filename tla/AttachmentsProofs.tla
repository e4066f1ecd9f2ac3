------------------------- MODULE AttachmentsProofs -------------------------
(***************************************************************************)
(* Proofs about Attachments, for any number of requests and keys.          *)
(*                                                                         *)
(* That a deletion never hits an object which is referred to rests on who  *)
(* may still hold a key: the key of an upload is nobody else's (`KeysOK`), *)
(* and the object a request is about to delete has left both tables for    *)
(* good.                                                                   *)
(***************************************************************************)
EXTENDS Attachments, TLAPS

USE DEF listAttachments, getAvatarUrl

Uploading(r) == req[r].at \in {"ensure", "put", "row"}

\* Keys in use have been made up, and attachments and avatars share none.
TablesOK ==
  /\ rows \subseteq used
  /\ avatar \in used \cup {NoKey}
  /\ avatar \notin rows

\* What the request in slot r knows: the key of an upload is its own, and the key it
\* is going to delete is no attachment, or no avatar, any more.
RequestOK(r) ==
  /\ req[r].key \in used \cup {NoKey}
  /\ req[r].old \in used \cup {NoKey}
  /\ Uploading(r) => /\ req[r].key # NoKey
                     /\ req[r].key \notin Referenced
                     /\ req[r].old \notin rows
                     /\ \A q \in Reqs : /\ req[q].old # req[r].key
                                        /\ q # r => req[q].key # req[r].key
  /\ req[r].at = "row" => req[r].key \in objects
  /\ req[r].at \in {"detach", "delete"} => req[r].old # avatar
  /\ req[r].at = "delete" => req[r].old \notin rows

KeysOK == TablesOK /\ \A r \in Reqs : RequestOK(r)

\* The object is that of a request which has yet to write its row, or to delete it.
Awaited(k) ==
  \E r \in Reqs : \/ req[r].at = "row" /\ req[r].key = k
                  \/ req[r].at = "delete" /\ req[r].old = k

Explained(k) == \E why \in Reasons : <<k, why>> \in left

OrphansAccounted == \A k \in objects \ Referenced : Awaited(k) \/ Explained(k)

IInv == TypeOK /\ KeysOK /\ RowsHaveObjects /\ OrphansAccounted

-----------------------------------------------------------------------------
\* What LeftBehind records is of its type, and explains the objects it is about.
LEMMA Recorded ==
  ASSUME NEW S, NEW why \in Reasons, left \in SUBSET (Keys \X Reasons),
         LeftBehind(S, why), objects' \subseteq Keys
  PROVE  /\ left' \in SUBSET (Keys \X Reasons)
         /\ \A k : Explained(k) => Explained(k)'
         /\ \A k \in S : k \in objects' => Explained(k)'
<1>1. left' = left \cup {<<k, why>> : k \in S \cap objects'}
  BY DEF LeftBehind
<1>2. left' \in SUBSET (Keys \X Reasons)
  BY <1>1
<1>3. ASSUME NEW k, Explained(k)  PROVE Explained(k)'
  BY <1>1, <1>3 DEF Explained
<1>4. ASSUME NEW k \in S, k \in objects'  PROVE Explained(k)'
  <2>1. <<k, why>> \in left'
    BY <1>1, <1>4
  <2>2. QED  BY <2>1 DEF Explained
<1>5. QED  BY <1>2, <1>3, <1>4

\* The number of faults stays within its bound.
LEMMA FaultCounted ==
  ASSUME TypeOK, Fault
  PROVE  faults' \in 0 .. MaxFaults
<1>1. faults \in 0 .. MaxFaults /\ faults < MaxFaults /\ faults' = faults + 1
  BY DEF TypeOK, Fault
<1>2. QED  BY <1>1, FaultsAssumption

\* Nothing is stored or referred to at first.
LEMMA InitOK == Init => IInv
<1> SUFFICES ASSUME Init  PROVE IInv
  OBVIOUS
<1>1. TypeOK
  <2>1. req \in [Reqs -> Request]
    BY DEF Init, Request, Idle
  <2>2. left \in SUBSET (Keys \X Reasons) /\ 0 \in 0 .. MaxFaults
    BY FaultsAssumption DEF Init
  <2>3. QED  BY <2>1, <2>2 DEF Init, TypeOK
<1>2. KeysOK
  BY DEF Init, KeysOK, TablesOK, RequestOK, Uploading, Idle
<1>3. RowsHaveObjects /\ OrphansAccounted
  BY DEF Init, RowsHaveObjects, OrphansAccounted, Referenced
<1>4. QED  BY <1>1, <1>2, <1>3 DEF IInv

\* An upload begins: its key is new.
LEMMA UploadOK ==
  ASSUME IInv, NEW r \in Reqs, NEW k \in Keys, NEW op \in {"attach", "avatar"},
         NEW old \in {NoKey, avatar}, Upload(r, op, k, old)
  PROVE  IInv'
<1> USE DEF Upload, db, s3
<1>1. /\ req' = [req EXCEPT ![r] = [at |-> "ensure", op |-> op, key |-> k, old |-> old]]
      /\ used' = used \cup {k} /\ k \notin used
      /\ UNCHANGED <<task, rows, avatar, bucket, objects, ready, left, faults>>
  OBVIOUS
<1>2. TypeOK'
  BY <1>1 DEF IInv, TypeOK, Request
<1>3. TablesOK'
  BY <1>1 DEF IInv, KeysOK, TablesOK
<1>4. ASSUME NEW q \in Reqs  PROVE RequestOK(q)'
  <2>1. CASE q = r
    BY <1>1, <2>1, KeysAssumption DEF IInv, TypeOK, KeysOK, TablesOK, RequestOK, Uploading, Referenced
  <2>2. CASE q # r
    BY <1>1, <2>2, KeysAssumption DEF IInv, TypeOK, KeysOK, TablesOK, RequestOK, Uploading, Referenced
  <2>3. QED  BY <2>1, <2>2
<1>5. RowsHaveObjects'
  BY <1>1 DEF IInv, RowsHaveObjects, Referenced
<1>6. OrphansAccounted'
  BY <1>1 DEF Upload, Idle, IInv, TypeOK, OrphansAccounted, Referenced, Awaited, Explained
<1>7. QED  BY <1>2, <1>3, <1>4, <1>5, <1>6 DEF IInv, KeysOK

\* The attachment that a deletion asks for is no avatar.
LEMMA DetachOK ==
  ASSUME IInv, NEW r \in Reqs, NEW k \in Keys, AskDetach(r, k)
  PROVE  IInv'
<1>1. /\ req[r] = Idle /\ k \in rows
      /\ req' = [req EXCEPT ![r] = [at |-> "detach", op |-> "detach", key |-> NoKey, old |-> k]]
      /\ UNCHANGED <<task, rows, avatar, bucket, objects, ready, used, left, faults>>
  BY DEF AskDetach, requireAttachment, db, s3
<1>2. TypeOK'
  BY <1>1, FaultsAssumption DEF IInv, TypeOK, KeysOK, RequestOK, Uploading, Request, Idle
<1>3. TablesOK'
  BY <1>1, KeysAssumption DEF IInv, TypeOK, KeysOK, TablesOK, RequestOK, Uploading, Referenced
<1>4. ASSUME NEW q \in Reqs  PROVE RequestOK(q)'
  <2>1. CASE q = r
    BY <1>1, <2>1, KeysAssumption
       DEF IInv, TypeOK, KeysOK, TablesOK, RequestOK, Uploading, Referenced, Idle
  <2>2. CASE q # r
    BY <1>1, <2>2, KeysAssumption
       DEF IInv, TypeOK, KeysOK, TablesOK, RequestOK, Uploading, Referenced, Idle
  <2>3. QED  BY <2>1, <2>2
<1>5. RowsHaveObjects'
  BY <1>1, KeysAssumption DEF IInv, TypeOK, KeysOK, RequestOK, Uploading, RowsHaveObjects, Referenced
<1>6. ASSUME NEW o \in objects' \ Referenced'  PROVE Awaited(o)' \/ Explained(o)'
  BY <1>1, <1>6 DEF IInv, TypeOK, OrphansAccounted, Referenced, Awaited, Explained, Idle
<1>7. QED  BY <1>2, <1>3, <1>4, <1>5, <1>6 DEF IInv, KeysOK, OrphansAccounted

\* Requests that wait for the bucket have stored nothing.
LEMMA BucketWaitOK ==
  ASSUME IInv, NEW r \in Reqs, NEW at \in {"ensure", "put"}, req[r].at = "ensure", req' = [req EXCEPT ![r].at = at],
         ready' \in {"unset", "pending", "ok", "failed"}, UNCHANGED <<db, s3, used, left, faults>>
  PROVE  IInv'
<1>1. /\ req[r].at = "ensure"
      /\ req' = [req EXCEPT ![r].at = at]
      /\ ready' \in {"unset", "pending", "ok", "failed"}
      /\ UNCHANGED <<task, rows, avatar, bucket, objects, used, left, faults>>
  BY DEF db, s3
<1>2. TypeOK'
  BY <1>1, FaultsAssumption DEF IInv, TypeOK, KeysOK, RequestOK, Uploading, Request, Idle
<1>3. TablesOK'
  BY <1>1, KeysAssumption DEF IInv, TypeOK, KeysOK, TablesOK, RequestOK, Uploading, Referenced
<1>4. ASSUME NEW q \in Reqs  PROVE RequestOK(q)'
  <2>1. CASE q = r
    BY <1>1, <2>1, KeysAssumption
       DEF IInv, TypeOK, KeysOK, TablesOK, RequestOK, Uploading, Referenced, Idle
  <2>2. CASE q # r
    BY <1>1, <2>2, KeysAssumption
       DEF IInv, TypeOK, KeysOK, TablesOK, RequestOK, Uploading, Referenced, Idle
  <2>3. QED  BY <2>1, <2>2
<1>5. RowsHaveObjects'
  BY <1>1, KeysAssumption DEF IInv, TypeOK, KeysOK, RequestOK, Uploading, RowsHaveObjects, Referenced
<1>6. ASSUME NEW k \in objects' \ Referenced'  PROVE Awaited(k)' \/ Explained(k)'
  BY <1>1, <1>6 DEF IInv, TypeOK, OrphansAccounted, Referenced, Awaited, Explained, Idle
<1>7. QED  BY <1>2, <1>3, <1>4, <1>5, <1>6 DEF IInv, KeysOK, OrphansAccounted

\* The bucket could not be made.
LEMMA BucketGoneOK ==
  ASSUME IInv, NEW r \in Reqs, req[r].at = "ensure", req' = [req EXCEPT ![r] = Idle],
         UNCHANGED <<db, s3, ready, used, left, faults>>
  PROVE  IInv'
<1>1. /\ req[r].at = "ensure"
      /\ req' = [req EXCEPT ![r] = Idle]
      /\ UNCHANGED <<task, rows, avatar, bucket, objects, ready, used, left, faults>>
  BY DEF db, s3
<1>2. TypeOK'
  BY <1>1, FaultsAssumption DEF IInv, TypeOK, KeysOK, RequestOK, Uploading, Request, Idle
<1>3. TablesOK'
  BY <1>1, KeysAssumption DEF IInv, TypeOK, KeysOK, TablesOK, RequestOK, Uploading, Referenced
<1>4. ASSUME NEW q \in Reqs  PROVE RequestOK(q)'
  <2>1. CASE q = r
    BY <1>1, <2>1, KeysAssumption
       DEF IInv, TypeOK, KeysOK, TablesOK, RequestOK, Uploading, Referenced, Idle
  <2>2. CASE q # r
    BY <1>1, <2>2, KeysAssumption
       DEF IInv, TypeOK, KeysOK, TablesOK, RequestOK, Uploading, Referenced, Idle
  <2>3. QED  BY <2>1, <2>2
<1>5. RowsHaveObjects'
  BY <1>1, KeysAssumption DEF IInv, TypeOK, KeysOK, RequestOK, Uploading, RowsHaveObjects, Referenced
<1>6. ASSUME NEW k \in objects' \ Referenced'  PROVE Awaited(k)' \/ Explained(k)'
  BY <1>1, <1>6 DEF IInv, TypeOK, OrphansAccounted, Referenced, Awaited, Explained, Idle
<1>7. QED  BY <1>2, <1>3, <1>4, <1>5, <1>6 DEF IInv, KeysOK, OrphansAccounted

\* The three answers of ensureBucket.
LEMMA BucketOK ==
  ASSUME IInv, NEW r \in Reqs, ensureBucket(r)
  PROVE  IInv'
<1> USE DEF ensureBucket
<1>1. CASE req' = [req EXCEPT ![r] = Idle] /\ ready' = ready
  BY <1>1, BucketGoneOK
<1>2. CASE req' = [req EXCEPT ![r].at = "put"] /\ ready' = ready
  BY <1>2, BucketWaitOK DEF IInv, TypeOK
<1>3. CASE req' = req /\ ready' = "pending"
  <2>1. req' = [req EXCEPT ![r].at = "ensure"]
    BY <1>3 DEF IInv, TypeOK, Request
  <2>2. QED  BY <1>3, <2>1, BucketWaitOK
<1>4. QED  BY <1>1, <1>2, <1>3 DEF Goto, Finish

\* The bucket is there, or is not.
LEMMA BucketStepOK ==
  ASSUME IInv, BucketAnswers \/ \E created \in BOOLEAN : BucketFails(created)
  PROVE  IInv'
<1>1. /\ ready' \in {"unset", "pending", "ok", "failed"} /\ bucket' \in BOOLEAN
      /\ faults' \in 0 .. MaxFaults
      /\ UNCHANGED <<task, rows, avatar, req, objects, used, left>>
  BY FaultCounted DEF BucketAnswers, BucketFails, db, IInv, TypeOK
<1>2. TypeOK'
  BY <1>1, FaultsAssumption DEF IInv, TypeOK, KeysOK, RequestOK, Uploading, Request, Idle
<1>3. TablesOK'
  BY <1>1, KeysAssumption DEF IInv, TypeOK, KeysOK, TablesOK, RequestOK, Uploading, Referenced
<1>4. ASSUME NEW q \in Reqs  PROVE RequestOK(q)'
  BY <1>1, KeysAssumption
     DEF IInv, TypeOK, KeysOK, TablesOK, RequestOK, Uploading, Referenced, Idle
<1>5. RowsHaveObjects'
  BY <1>1, KeysAssumption DEF IInv, TypeOK, KeysOK, RequestOK, Uploading, RowsHaveObjects, Referenced
<1>6. ASSUME NEW k \in objects' \ Referenced'  PROVE Awaited(k)' \/ Explained(k)'
  BY <1>1, <1>6 DEF IInv, TypeOK, OrphansAccounted, Referenced, Awaited, Explained, Idle
<1>7. QED  BY <1>2, <1>3, <1>4, <1>5, <1>6 DEF IInv, KeysOK, OrphansAccounted

\* A stored object is awaited by its request.
LEMMA PutOK ==
  ASSUME IInv, NEW r \in Reqs, Put(r)
  PROVE  IInv'
<1>1. /\ req[r].at = "put"
      /\ objects' = objects \cup {req[r].key}
      /\ req' = [req EXCEPT ![r].at = "row"]
      /\ UNCHANGED <<task, rows, avatar, bucket, ready, used, left, faults>>
  BY DEF Put, Goto, db
<1>2. TypeOK'
  BY <1>1, FaultsAssumption DEF IInv, TypeOK, KeysOK, RequestOK, Uploading, Request, Idle
<1>3. TablesOK'
  BY <1>1, KeysAssumption DEF IInv, TypeOK, KeysOK, TablesOK, RequestOK, Uploading, Referenced
<1>4. ASSUME NEW q \in Reqs  PROVE RequestOK(q)'
  <2>1. CASE q = r
    BY <1>1, <2>1, KeysAssumption
       DEF IInv, TypeOK, KeysOK, TablesOK, RequestOK, Uploading, Referenced, Idle
  <2>2. CASE q # r
    BY <1>1, <2>2, KeysAssumption
       DEF IInv, TypeOK, KeysOK, TablesOK, RequestOK, Uploading, Referenced, Idle
  <2>3. QED  BY <2>1, <2>2
<1>5. RowsHaveObjects'
  BY <1>1, KeysAssumption DEF IInv, TypeOK, KeysOK, RequestOK, Uploading, RowsHaveObjects, Referenced
<1>6. ASSUME NEW k \in objects' \ Referenced'  PROVE Awaited(k)' \/ Explained(k)'
  BY <1>1, <1>6 DEF IInv, TypeOK, OrphansAccounted, Referenced, Awaited, Explained, Idle
<1>7. QED  BY <1>2, <1>3, <1>4, <1>5, <1>6 DEF IInv, KeysOK, OrphansAccounted

\* A put that fails may leave its object.
LEMMA PutFailsOK ==
  ASSUME IInv, NEW r \in Reqs, NEW stored \in BOOLEAN, PutFails(r, stored)
  PROVE  IInv'
<1>1. /\ req[r].at = "put" /\ faults' \in 0 .. MaxFaults
      /\ objects' = objects \cup {k \in {req[r].key} : stored}
      /\ req' = [req EXCEPT ![r] = Idle]
      /\ UNCHANGED <<task, rows, avatar, bucket, ready, used>>
  BY FaultCounted DEF PutFails, Finish, db, IInv, TypeOK
<1>2. objects' \subseteq Keys
  BY <1>1 DEF IInv, TypeOK, KeysOK, RequestOK, Uploading
<1>3. /\ left' \in SUBSET (Keys \X Reasons)
      /\ \A k : Explained(k) => Explained(k)'
      /\ \A k \in {req[r].key} : k \in objects' => Explained(k)'
  <2>1. "put failed" \in Reasons /\ left \in SUBSET (Keys \X Reasons)
    BY DEF Reasons, IInv, TypeOK
  <2>2. LeftBehind({req[r].key}, "put failed")
    BY DEF PutFails
  <2>3. QED  BY <1>2, <2>1, <2>2, Recorded
<1>4. TypeOK'
  BY <1>1, <1>3, FaultsAssumption DEF IInv, TypeOK, KeysOK, RequestOK, Uploading, Request, Idle
<1>5. TablesOK'
  BY <1>1, KeysAssumption DEF IInv, TypeOK, KeysOK, TablesOK, RequestOK, Uploading, Referenced
<1>6. ASSUME NEW q \in Reqs  PROVE RequestOK(q)'
  <2>1. CASE q = r
    BY <1>1, <2>1, KeysAssumption
       DEF IInv, TypeOK, KeysOK, TablesOK, RequestOK, Uploading, Referenced, Idle
  <2>2. CASE q # r
    BY <1>1, <2>2, KeysAssumption
       DEF IInv, TypeOK, KeysOK, TablesOK, RequestOK, Uploading, Referenced, Idle
  <2>3. QED  BY <2>1, <2>2
<1>7. RowsHaveObjects'
  BY <1>1, KeysAssumption DEF IInv, TypeOK, KeysOK, RequestOK, Uploading, RowsHaveObjects, Referenced
<1>8. ASSUME NEW k \in objects' \ Referenced'  PROVE Awaited(k)' \/ Explained(k)'
  BY <1>1, <1>3, <1>8 DEF IInv, TypeOK, OrphansAccounted, Referenced, Awaited, Idle
<1>9. QED  BY <1>4, <1>5, <1>6, <1>7, <1>8 DEF IInv, KeysOK, OrphansAccounted

\* The row of an object that has been stored.
LEMMA AttachRowOK ==
  ASSUME IInv, NEW r \in Reqs, AttachRow(r)
  PROVE  IInv'
<1>1. /\ req[r].at = "row" /\ task
      /\ rows' = rows \cup {req[r].key}
      /\ req' = [req EXCEPT ![r] = Idle]
      /\ UNCHANGED <<task, avatar, bucket, objects, ready, used, left, faults>>
  BY DEF AttachRow, IsStored, TaskIsThere, Finish, s3
<1>2. TypeOK'
  BY <1>1, FaultsAssumption DEF IInv, TypeOK, KeysOK, RequestOK, Uploading, Request, Idle
<1>3. TablesOK'
  BY <1>1, KeysAssumption DEF IInv, TypeOK, KeysOK, TablesOK, RequestOK, Uploading, Referenced
<1>4. ASSUME NEW q \in Reqs  PROVE RequestOK(q)'
  <2>1. CASE q = r
    BY <1>1, <2>1, KeysAssumption
       DEF IInv, TypeOK, KeysOK, TablesOK, RequestOK, Uploading, Referenced, Idle
  <2>2. CASE q # r
    BY <1>1, <2>2, KeysAssumption
       DEF IInv, TypeOK, KeysOK, TablesOK, RequestOK, Uploading, Referenced, Idle
  <2>3. QED  BY <2>1, <2>2
<1>5. RowsHaveObjects'
  BY <1>1, KeysAssumption DEF IInv, TypeOK, KeysOK, RequestOK, Uploading, RowsHaveObjects, Referenced
<1>6. ASSUME NEW k \in objects' \ Referenced'  PROVE Awaited(k)' \/ Explained(k)'
  BY <1>1, <1>6 DEF IInv, TypeOK, OrphansAccounted, Referenced, Awaited, Explained, Idle
<1>7. QED  BY <1>2, <1>3, <1>4, <1>5, <1>6 DEF IInv, KeysOK, OrphansAccounted

\* An object without a row.
LEMMA RowFailsOK ==
  ASSUME IInv, NEW r \in Reqs, RowFails(r)
  PROVE  IInv'
<1>1. /\ req[r].at = "row" /\ faults' \in 0 .. MaxFaults
      /\ req' = [req EXCEPT ![r] = Idle]
      /\ UNCHANGED <<task, rows, avatar, bucket, objects, ready, used>>
  BY FaultCounted DEF RowFails, IsStored, Finish, db, s3, IInv, TypeOK
<1>2. objects' \subseteq Keys
  BY <1>1 DEF IInv, TypeOK, KeysOK, RequestOK, Uploading
<1>3. /\ left' \in SUBSET (Keys \X Reasons)
      /\ \A k : Explained(k) => Explained(k)'
      /\ \A k \in {req[r].key} : k \in objects' => Explained(k)'
  <2>1. "no row" \in Reasons /\ left \in SUBSET (Keys \X Reasons)
    BY DEF Reasons, IInv, TypeOK
  <2>2. LeftBehind({req[r].key}, "no row")
    BY DEF RowFails
  <2>3. QED  BY <1>2, <2>1, <2>2, Recorded
<1>4. TypeOK'
  BY <1>1, <1>3, FaultsAssumption DEF IInv, TypeOK, KeysOK, RequestOK, Uploading, Request, Idle
<1>5. TablesOK'
  BY <1>1, KeysAssumption DEF IInv, TypeOK, KeysOK, TablesOK, RequestOK, Uploading, Referenced
<1>6. ASSUME NEW q \in Reqs  PROVE RequestOK(q)'
  <2>1. CASE q = r
    BY <1>1, <2>1, KeysAssumption
       DEF IInv, TypeOK, KeysOK, TablesOK, RequestOK, Uploading, Referenced, Idle
  <2>2. CASE q # r
    BY <1>1, <2>2, KeysAssumption
       DEF IInv, TypeOK, KeysOK, TablesOK, RequestOK, Uploading, Referenced, Idle
  <2>3. QED  BY <2>1, <2>2
<1>7. RowsHaveObjects'
  BY <1>1, KeysAssumption DEF IInv, TypeOK, KeysOK, RequestOK, Uploading, RowsHaveObjects, Referenced
<1>8. ASSUME NEW k \in objects' \ Referenced'  PROVE Awaited(k)' \/ Explained(k)'
  BY <1>1, <1>3, <1>8 DEF IInv, TypeOK, OrphansAccounted, Referenced, Awaited, Idle
<1>9. QED  BY <1>4, <1>5, <1>6, <1>7, <1>8 DEF IInv, KeysOK, OrphansAccounted

\* The new avatar; the old one is what the request read, or was overwritten unseen.
LEMMA AvatarRowOK ==
  ASSUME IInv, NEW r \in Reqs, AvatarRow(r)
  PROVE  IInv'
<1>1. /\ req[r].at = "row"
      /\ avatar' = req[r].key
      /\ req' = [req EXCEPT ![r] = IF req[r].old = NoKey THEN Idle
                              ELSE [req[r] EXCEPT !.at = "delete", !.old = req[r].old]]
      /\ UNCHANGED <<task, rows, bucket, objects, ready, used, faults>>
  BY DEF AvatarRow, IsStored, Superseded
<1>2. objects' \subseteq Keys
  BY <1>1 DEF IInv, TypeOK, KeysOK, RequestOK, Uploading
<1>3. /\ left' \in SUBSET (Keys \X Reasons)
      /\ \A k : Explained(k) => Explained(k)'
      /\ \A k \in {avatar} \ {req[r].old} : k \in objects' => Explained(k)'
  <2>1. "overwritten" \in Reasons /\ left \in SUBSET (Keys \X Reasons)
    BY DEF Reasons, IInv, TypeOK
  <2>2. LeftBehind({avatar} \ {req[r].old}, "overwritten")
    BY DEF AvatarRow
  <2>3. QED  BY <1>2, <2>1, <2>2, Recorded
<1>4. TypeOK'
  <2>1. CASE req[r].old = NoKey
    BY <1>1, <1>3, <2>1 DEF IInv, TypeOK, KeysOK, RequestOK, Uploading, Request, Idle
  <2>2. CASE req[r].old # NoKey
    <3>1. [req[r] EXCEPT !.at = "delete", !.old = req[r].old] \in Request
      BY DEF IInv, TypeOK, Request
    <3>2. req' \in [Reqs -> Request]
      BY <1>1, <2>2, <3>1 DEF IInv, TypeOK
    <3>3. avatar' \in Keys
      BY <1>1 DEF IInv, TypeOK, KeysOK, RequestOK, Uploading
    <3>4. QED  BY <1>1, <1>3, <3>2, <3>3 DEF IInv, TypeOK
  <2>3. QED  BY <2>1, <2>2
<1>5. TablesOK'
  BY <1>1, KeysAssumption DEF IInv, TypeOK, KeysOK, TablesOK, RequestOK, Uploading, Referenced
<1>6. ASSUME NEW q \in Reqs  PROVE RequestOK(q)'
  <2>1. CASE q = r
    BY <1>1, <2>1, KeysAssumption
       DEF IInv, TypeOK, KeysOK, TablesOK, RequestOK, Uploading, Referenced, Idle
  <2>2. CASE q # r
    BY <1>1, <2>2, KeysAssumption
       DEF IInv, TypeOK, KeysOK, TablesOK, RequestOK, Uploading, Referenced, Idle
  <2>3. QED  BY <2>1, <2>2
<1>7. RowsHaveObjects'
  BY <1>1, KeysAssumption DEF IInv, TypeOK, KeysOK, RequestOK, Uploading, RowsHaveObjects, Referenced
<1>8. ASSUME NEW k \in objects' \ Referenced'  PROVE Awaited(k)' \/ Explained(k)'
  <2>1. CASE k = avatar /\ k # req[r].old
    BY <1>1, <1>3, <1>8, <2>1
  <2>2. CASE k = req[r].old
    BY <1>1, <2>2, <1>8, KeysAssumption DEF IInv, TypeOK, Request, Awaited
  <2>3. CASE k # avatar /\ k # req[r].old
    <3>1. k \in objects \ Referenced
      BY <1>1, <1>8, <2>3 DEF Referenced
    <3>2. CASE Explained(k)
      BY <1>3, <3>2
    <3>3. CASE Awaited(k)
      <4>1. PICK q \in Reqs : (req[q].at = "row" /\ req[q].key = k)
                              \/ (req[q].at = "delete" /\ req[q].old = k)
        BY <3>3 DEF Awaited
      <4>2. q # r
        BY <1>1, <1>8, <4>1 DEF IInv, TypeOK, Referenced, KeysOK, RequestOK, Uploading
      <4>3. req'[q] = req[q]
        BY <1>1, <4>2 DEF IInv, TypeOK
      <4>4. QED  BY <4>1, <4>3 DEF Awaited
    <3>4. QED  BY <3>1, <3>2, <3>3 DEF IInv, OrphansAccounted
  <2>4. QED  BY <2>1, <2>2, <2>3
<1>9. QED  BY <1>4, <1>5, <1>6, <1>7, <1>8 DEF IInv, KeysOK, OrphansAccounted

\* From here on no row has the key to be deleted.
LEMMA DetachRowOK ==
  ASSUME IInv, NEW r \in Reqs, DetachRow(r)
  PROVE  IInv'
<1>1. /\ req[r].at = "detach" /\ req[r].old \in rows
      /\ rows' = rows \ {req[r].old}
      /\ req' = [req EXCEPT ![r].at = "delete"]
      /\ UNCHANGED <<task, avatar, bucket, objects, ready, used, left, faults>>
  BY DEF DetachRow, Goto, s3
<1>2. TypeOK'
  BY <1>1, FaultsAssumption DEF IInv, TypeOK, KeysOK, RequestOK, Uploading, Request, Idle
<1>3. TablesOK'
  BY <1>1, KeysAssumption DEF IInv, TypeOK, KeysOK, TablesOK, RequestOK, Uploading, Referenced
<1>4. ASSUME NEW q \in Reqs  PROVE RequestOK(q)'
  <2>1. CASE q = r
    BY <1>1, <2>1, KeysAssumption
       DEF IInv, TypeOK, KeysOK, TablesOK, RequestOK, Uploading, Referenced, Idle
  <2>2. CASE q # r
    BY <1>1, <2>2, KeysAssumption
       DEF IInv, TypeOK, KeysOK, TablesOK, RequestOK, Uploading, Referenced, Idle
  <2>3. QED  BY <2>1, <2>2
<1>5. RowsHaveObjects'
  BY <1>1, KeysAssumption DEF IInv, TypeOK, KeysOK, RequestOK, Uploading, RowsHaveObjects, Referenced
<1>6. ASSUME NEW k \in objects' \ Referenced'  PROVE Awaited(k)' \/ Explained(k)'
  <2>1. CASE k = req[r].old
    BY <1>1, <2>1 DEF IInv, TypeOK, Awaited
  <2>2. CASE k # req[r].old
    <3>1. k \in objects \ Referenced
      BY <1>1, <1>6, <2>2 DEF Referenced
    <3>2. CASE Explained(k)
      BY <1>1, <3>2 DEF Explained
    <3>3. CASE Awaited(k)
      BY <1>1, <3>3 DEF IInv, TypeOK, Awaited
    <3>4. QED  BY <3>1, <3>2, <3>3 DEF IInv, OrphansAccounted
  <2>3. QED  BY <2>1, <2>2
<1>7. QED  BY <1>2, <1>3, <1>4, <1>5, <1>6 DEF IInv, KeysOK, OrphansAccounted

\* Somebody else has deleted it, or the database refuses.
LEMMA DetachFailsOK ==
  ASSUME IInv, NEW r \in Reqs, DetachFails(r)
  PROVE  IInv'
<1>1. /\ req[r].at = "detach" /\ faults' \in 0 .. MaxFaults
      /\ req' = [req EXCEPT ![r] = Idle]
      /\ UNCHANGED <<task, rows, avatar, bucket, objects, ready, used, left>>
  BY FaultCounted DEF DetachFails, Finish, db, s3, IInv, TypeOK
<1>2. TypeOK'
  BY <1>1 DEF IInv, TypeOK, KeysOK, RequestOK, Uploading, Request, Idle
<1>3. TablesOK'
  BY <1>1, KeysAssumption DEF IInv, TypeOK, KeysOK, TablesOK, RequestOK, Uploading, Referenced
<1>4. ASSUME NEW q \in Reqs  PROVE RequestOK(q)'
  <2>1. CASE q = r
    BY <1>1, <2>1, KeysAssumption
       DEF IInv, TypeOK, KeysOK, TablesOK, RequestOK, Uploading, Referenced, Idle
  <2>2. CASE q # r
    BY <1>1, <2>2, KeysAssumption
       DEF IInv, TypeOK, KeysOK, TablesOK, RequestOK, Uploading, Referenced, Idle
  <2>3. QED  BY <2>1, <2>2
<1>5. RowsHaveObjects'
  BY <1>1, KeysAssumption DEF IInv, TypeOK, KeysOK, RequestOK, Uploading, RowsHaveObjects, Referenced
<1>6. ASSUME NEW k \in objects' \ Referenced'  PROVE Awaited(k)' \/ Explained(k)'
  BY <1>1, <1>6 DEF IInv, TypeOK, OrphansAccounted, Referenced, Awaited, Explained, Idle
<1>7. QED  BY <1>2, <1>3, <1>4, <1>5, <1>6 DEF IInv, KeysOK, OrphansAccounted

\* What is deleted has left both tables.
LEMMA DeleteObjectOK ==
  ASSUME IInv, NEW r \in Reqs, DeleteObject(r)
  PROVE  IInv'
<1>1. /\ req[r].at = "delete"
      /\ objects' = objects \ {req[r].old}
      /\ req' = [req EXCEPT ![r] = Idle]
      /\ UNCHANGED <<task, rows, avatar, bucket, ready, used, left, faults>>
  BY DEF DeleteObject, Finish, db
<1>2. TypeOK'
  BY <1>1, FaultsAssumption DEF IInv, TypeOK, KeysOK, RequestOK, Uploading, Request, Idle
<1>3. TablesOK'
  BY <1>1, KeysAssumption DEF IInv, TypeOK, KeysOK, TablesOK, RequestOK, Uploading, Referenced
<1>4. ASSUME NEW q \in Reqs  PROVE RequestOK(q)'
  <2>1. CASE q = r
    BY <1>1, <2>1, KeysAssumption
       DEF IInv, TypeOK, KeysOK, TablesOK, RequestOK, Uploading, Referenced, Idle
  <2>2. CASE q # r
    BY <1>1, <2>2, KeysAssumption
       DEF IInv, TypeOK, KeysOK, TablesOK, RequestOK, Uploading, Referenced, Idle
  <2>3. QED  BY <2>1, <2>2
<1>5. RowsHaveObjects'
  BY <1>1, KeysAssumption DEF IInv, TypeOK, KeysOK, RequestOK, Uploading, RowsHaveObjects, Referenced
<1>6. ASSUME NEW k \in objects' \ Referenced'  PROVE Awaited(k)' \/ Explained(k)'
  BY <1>1, <1>6 DEF IInv, TypeOK, OrphansAccounted, Referenced, Awaited, Explained, Idle
<1>7. QED  BY <1>2, <1>3, <1>4, <1>5, <1>6 DEF IInv, KeysOK, OrphansAccounted

\* The object stays.
LEMMA DeleteFailsOK ==
  ASSUME IInv, NEW r \in Reqs, DeleteFails(r)
  PROVE  IInv'
<1>1. /\ req[r].at = "delete" /\ faults' \in 0 .. MaxFaults
      /\ req' = [req EXCEPT ![r] = Idle]
      /\ UNCHANGED <<task, rows, avatar, bucket, objects, ready, used>>
  BY FaultCounted DEF DeleteFails, Finish, db, IInv, TypeOK
<1>2. objects' \subseteq Keys
  BY <1>1 DEF IInv, TypeOK, KeysOK, RequestOK, Uploading
<1>3. /\ left' \in SUBSET (Keys \X Reasons)
      /\ \A k : Explained(k) => Explained(k)'
      /\ \A k \in {req[r].old} : k \in objects' => Explained(k)'
  <2>1. "delete failed" \in Reasons /\ left \in SUBSET (Keys \X Reasons)
    BY DEF Reasons, IInv, TypeOK
  <2>2. LeftBehind({req[r].old}, "delete failed")
    BY DEF DeleteFails
  <2>3. QED  BY <1>2, <2>1, <2>2, Recorded
<1>4. TypeOK'
  BY <1>1, <1>3, FaultsAssumption DEF IInv, TypeOK, KeysOK, RequestOK, Uploading, Request, Idle
<1>5. TablesOK'
  BY <1>1, KeysAssumption DEF IInv, TypeOK, KeysOK, TablesOK, RequestOK, Uploading, Referenced
<1>6. ASSUME NEW q \in Reqs  PROVE RequestOK(q)'
  <2>1. CASE q = r
    BY <1>1, <2>1, KeysAssumption
       DEF IInv, TypeOK, KeysOK, TablesOK, RequestOK, Uploading, Referenced, Idle
  <2>2. CASE q # r
    BY <1>1, <2>2, KeysAssumption
       DEF IInv, TypeOK, KeysOK, TablesOK, RequestOK, Uploading, Referenced, Idle
  <2>3. QED  BY <2>1, <2>2
<1>7. RowsHaveObjects'
  BY <1>1, KeysAssumption DEF IInv, TypeOK, KeysOK, RequestOK, Uploading, RowsHaveObjects, Referenced
<1>8. ASSUME NEW k \in objects' \ Referenced'  PROVE Awaited(k)' \/ Explained(k)'
  BY <1>1, <1>3, <1>8 DEF IInv, TypeOK, OrphansAccounted, Referenced, Awaited, Idle
<1>9. QED  BY <1>4, <1>5, <1>6, <1>7, <1>8 DEF IInv, KeysOK, OrphansAccounted

\* All rows go at once.
LEMMA DeleteTaskOK ==
  ASSUME IInv, DeleteTask
  PROVE  IInv'
<1>1. /\ task' = FALSE /\ rows' = {} /\ faults' \in 0 .. MaxFaults
      /\ UNCHANGED <<avatar, req, bucket, objects, ready, used>>
  BY FaultCounted DEF DeleteTask, IInv, TypeOK
<1>2. objects' \subseteq Keys
  BY <1>1 DEF IInv, TypeOK, KeysOK, RequestOK, Uploading
<1>3. /\ left' \in SUBSET (Keys \X Reasons)
      /\ \A k : Explained(k) => Explained(k)'
      /\ \A k \in rows : k \in objects' => Explained(k)'
  <2>1. "task deleted" \in Reasons /\ left \in SUBSET (Keys \X Reasons)
    BY DEF Reasons, IInv, TypeOK
  <2>2. LeftBehind(rows, "task deleted")
    BY DEF DeleteTask
  <2>3. QED  BY <1>2, <2>1, <2>2, Recorded
<1>4. TypeOK'
  BY <1>1, <1>3, FaultsAssumption DEF IInv, TypeOK, KeysOK, RequestOK, Uploading, Request, Idle
<1>5. TablesOK'
  BY <1>1, KeysAssumption DEF IInv, TypeOK, KeysOK, TablesOK, RequestOK, Uploading, Referenced
<1>6. ASSUME NEW q \in Reqs  PROVE RequestOK(q)'
  BY <1>1, KeysAssumption
     DEF IInv, TypeOK, KeysOK, TablesOK, RequestOK, Uploading, Referenced, Idle
<1>7. RowsHaveObjects'
  BY <1>1, KeysAssumption DEF IInv, TypeOK, KeysOK, RequestOK, Uploading, RowsHaveObjects, Referenced
<1>8. ASSUME NEW k \in objects' \ Referenced'  PROVE Awaited(k)' \/ Explained(k)'
  BY <1>1, <1>3, <1>8 DEF IInv, TypeOK, OrphansAccounted, Referenced, Awaited, Idle
<1>9. QED  BY <1>4, <1>5, <1>6, <1>7, <1>8 DEF IInv, KeysOK, OrphansAccounted

\* Whatever requests would have referred to, or deleted, is left behind.
LEMMA CrashOK ==
  ASSUME IInv, Crash
  PROVE  IInv'
<1> DEFINE held == UNION {IF req[r].at = "delete" THEN {req[r].old} ELSE {req[r].key} : r \in Reqs}
<1>1. PICK S \in SUBSET {r \in Reqs : req[r].at = "put"} :
        objects' = objects \cup {req[r].key : r \in S}
  BY DEF Crash
<1>2. /\ req' = [r \in Reqs |-> Idle] /\ ready' = "unset" /\ faults' \in 0 .. MaxFaults
      /\ UNCHANGED <<task, rows, avatar, bucket, used>>
  BY FaultCounted DEF Crash, db, IInv, TypeOK
<1>3. \A r \in S : req[r].key \in held /\ req[r].key \in used
  BY KeysAssumption DEF IInv, KeysOK, RequestOK, Uploading
<1>4. /\ \A r \in Reqs : req[r].at = "row" => req[r].key \in held
      /\ \A r \in Reqs : req[r].at = "delete" => req[r].old \in held
  OBVIOUS
<1>5. objects' \subseteq used /\ objects' \subseteq Keys
  BY <1>1, <1>3 DEF IInv, TypeOK
<1>6. /\ left' \in SUBSET (Keys \X Reasons)
      /\ \A k : Explained(k) => Explained(k)'
      /\ \A k \in held : k \in objects' => Explained(k)'
  <2>1. "crash" \in Reasons /\ left \in SUBSET (Keys \X Reasons)
    BY DEF Reasons, IInv, TypeOK
  <2>2. LeftBehind(held, "crash")
    BY DEF Crash
  <2> HIDE DEF held
  <2>3. QED  BY <1>5, <2>1, <2>2, Recorded
<1> HIDE DEF held
<1>7. TypeOK'
  BY <1>2, <1>5, <1>6 DEF IInv, TypeOK, Request, Idle
<1>8. TablesOK' /\ \A q \in Reqs : RequestOK(q)'
  BY <1>2, KeysAssumption DEF IInv, KeysOK, TablesOK, RequestOK, Uploading, Idle
<1>9. RowsHaveObjects'
  BY <1>1, <1>2 DEF IInv, RowsHaveObjects, Referenced
<1>10. ASSUME NEW k \in objects' \ Referenced'  PROVE Explained(k)'
  <2>1. CASE k \in objects
    BY <1>2, <1>4, <1>6, <1>10, <2>1 DEF IInv, OrphansAccounted, Awaited, Referenced
  <2>2. CASE k \notin objects
    BY <1>1, <1>3, <1>6, <1>10, <2>2
  <2>3. QED  BY <2>1, <2>2
<1>11. QED  BY <1>7, <1>8, <1>9, <1>10 DEF IInv, KeysOK, OrphansAccounted

-----------------------------------------------------------------------------
\* Every step preserves the invariant.
LEMMA StepOK == IInv /\ [Next]_vars => IInv'
<1> SUFFICES ASSUME IInv, [Next]_vars  PROVE IInv'
  OBVIOUS
<1>1. ASSUME NEW r \in Reqs, NEW k \in Keys, addAttachment(r, k)  PROVE IInv'
  BY <1>1, UploadOK DEF addAttachment
<1>2. ASSUME NEW r \in Reqs, NEW k \in Keys, setAvatar(r, k)  PROVE IInv'
  BY <1>2, UploadOK DEF setAvatar
<1>3. ASSUME UNCHANGED vars  PROVE IInv'
  BY <1>3 DEF vars, db, s3, IInv, TypeOK, KeysOK, TablesOK, RequestOK, Uploading,
     RowsHaveObjects, OrphansAccounted, Awaited, Explained, Referenced
<1>4. QED
  BY <1>1, <1>2, <1>3, DetachOK, BucketOK, BucketStepOK, PutOK, PutFailsOK, AttachRowOK,
     RowFailsOK, AvatarRowOK, DetachRowOK, DetachFailsOK, DeleteObjectOK, DeleteFailsOK,
     DeleteTaskOK, CrashOK DEF Next

\* The invariant above holds in every reachable state, for any number of requests,
\* uploads and failures.
THEOREM Invariance == Spec => []IInv
<1>1. Init => IInv
  BY InitOK
<1>2. IInv /\ [Next]_vars => IInv'
  BY StepOK
<1>3. QED  BY <1>1, <1>2, PTL DEF Spec

\* Rows, objects and the requests in flight keep their types.
THEOREM TypeCorrect == Spec => []TypeOK
<1>1. IInv => TypeOK
  BY DEF IInv
<1>2. QED  BY <1>1, Invariance, PTL

\* What is listed can be downloaded: no failure of S3, of the database or of the process
\* between their steps takes the object of a row away.
THEOREM NothingListedIsMissing == Spec => []RowsHaveObjects
<1>1. IInv => RowsHaveObjects
  BY DEF IInv
<1>2. QED  BY <1>1, Invariance, PTL

\* Every object without a row is in the hands of a request or was left behind by one of
\* the six accidents.
THEOREM OrphansAreExplained == Spec => []OrphansHaveAReason
<1>1. IInv => OrphansHaveAReason
  BY DEF IInv, OrphansAccounted, OrphansHaveAReason, Awaited, Explained, Held
<1>2. QED  BY <1>1, Invariance, PTL
=============================================================================
