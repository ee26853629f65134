----------------------------- MODULE UploadSlots -----------------------------
(***************************************************************************)
(* The upload sessions of one owner in the cloud control plane             *)
(* (infra/lambda/control_plane/handler.py): a session reserves one of a    *)
(* fixed number of slots, the client posts its file to a staging bucket,   *)
(* and the completion copies it to the versioned data bucket and publishes *)
(* the version.                                                            *)
(*                                                                         *)
(* Requests run concurrently and each remote call is a step of its own:    *)
(* a DynamoDB read, a DynamoDB transaction, an S3 call.  A request can end *)
(* between any two of them (Lambda timeout).  DynamoDB removes items some  *)
(* time after their expires_at, S3 removes staged files after a day.       *)
(***************************************************************************)
EXTENDS Naturals, Sequences, FiniteSets, FiniteSetsExt

CONSTANTS
  Upload,         \* identifiers of upload sessions (each with its dataset)
  NoUpload,       \* no session
  Request,        \* concurrent requests of the owner
  NumSlots,       \* MAX_DATASETS_PER_OWNER
  MaxUploadBytes, \* MAX_UPLOAD_BYTES
  MaxTotalBytes,  \* MAX_TOTAL_BYTES_PER_OWNER
  Size,           \* the declared size of each session's file
  MaxCopies       \* bound on the copies made of one upload

ASSUME SlotAssumption == NumSlots \in Nat \ {0}

ASSUME NoUploadAssumption == NoUpload \notin Upload

\* The limits handler.py checks when it is loaded.
ASSUME PolicyAssumption ==
  /\ MaxUploadBytes \in Nat \ {0}
  /\ MaxTotalBytes \in Nat
  /\ MaxUploadBytes * NumSlots <= MaxTotalBytes
  /\ Size \in [Upload -> 1 .. MaxUploadBytes]

ASSUME CopyAssumption == MaxCopies \in Nat

VARIABLES
  slot,     \* the SLOT# items
  upload,   \* the UPLOAD# items
  dataset,  \* the DATASET# items, one per upload
  lapsed,   \* uploads whose items have an expires_at in the past
  posting,  \* uploads whose presigned POST is still valid
  staged,   \* the object at the staging key: none, or whether its size is right
  copies,   \* the versions of the object in the data bucket
  call      \* where each request is

vars == <<slot, upload, dataset, lapsed, posting, staged, copies, call>>
items == <<slot, upload, dataset, lapsed>>
store == <<posting, staged, copies>>

Slots == 0 .. NumSlots - 1

\* "absent" stands for an item that was never written or that DynamoDB removed.
SlotItem ==
  [status : {"absent", "pending", "released"}, upload : Upload \cup {NoUpload}]

\* An identifier is unused until a transaction writes its items.
UploadItem ==
  [status : {"unused", "pending", "completed", "absent"}, slot : Slots]

DatasetItem ==
  [status : {"absent", "upload_pending", "uploaded"}, version : Nat]

Points ==
  {"idle", "reserving", "presigning", "copying", "sizing", "committing",
   "rechecking", "cleaning"}

\* Only the answer a property speaks of is kept.
Answers == {"none", "upload_missing"}

Call ==
  [pc : Points, upload : Upload \cup {NoUpload}, slot : Slots,
   version : Nat, answer : Answers]

Idle(answer) ==
  [pc |-> "idle", upload |-> NoUpload, slot |-> 0, version |-> 0,
   answer |-> answer]

TypeOK ==
  /\ slot \in [Slots -> SlotItem]
  /\ upload \in [Upload -> UploadItem]
  /\ dataset \in [Upload -> DatasetItem]
  /\ lapsed \subseteq Upload
  /\ posting \subseteq Upload
  /\ staged \in [Upload -> {"none", "exact", "other"}]
  /\ copies \in [Upload -> Seq({"exact", "other", "deleted"})]
  /\ call \in [Request -> Call]

Init ==
  /\ slot = [s \in Slots |-> [status |-> "absent", upload |-> NoUpload]]
  /\ upload = [u \in Upload |-> [status |-> "unused", slot |-> 0]]
  /\ dataset = [u \in Upload |-> [status |-> "absent", version |-> 0]]
  /\ lapsed = {}
  /\ posting = {}
  /\ staged = [u \in Upload |-> "none"]
  /\ copies = [u \in Upload |-> <<>>]
  /\ call = [r \in Request |-> Idle("none")]

-----------------------------------------------------------------------------
(* POST /api/upload-sessions *)

\* _slot_is_reserved
Reserved(s) ==
  /\ slot[s].status = "pending"
  /\ slot[s].upload \notin lapsed

ReservedBytes ==
  MapThenSumSet(LAMBDA s : Size[slot[s].upload], {s \in Slots : Reserved(s)})

\* The request reads the slots, checks both quotas and picks the first slot that
\* is free.  The identifiers it draws are fresh.
ChooseSlot(r, u) ==
  /\ call[r].pc = "idle"
  /\ upload[u].status = "unused"
  /\ \A q \in Request : call[q].upload # u
  /\ ReservedBytes + Size[u] <= MaxTotalBytes
  /\ \E s \in Slots :
       /\ ~Reserved(s)
       /\ \A t \in Slots : t < s => Reserved(t)
       /\ call' = [call EXCEPT ![r] =
            [pc |-> "reserving", upload |-> u, slot |-> s, version |-> 0,
             answer |-> "none"]]
  /\ UNCHANGED <<items, store>>

\* The ConditionExpression on the slot
MayReserveBlind(s) == TRUE      \* mutant: the slot that was free is taken
MayReserve(s) == ~Reserved(s)

\* The transaction of _create_upload_session: slot, dataset and upload together,
\* or "upload_slot_busy".
Reserve(r) ==
  LET u == call[r].upload
      s == call[r].slot
  IN /\ call[r].pc = "reserving"
     /\ \/ /\ MayReserve(s)
           /\ slot' = [slot EXCEPT ![s] = [status |-> "pending", upload |-> u]]
           /\ dataset' = [dataset EXCEPT ![u] =
                [status |-> "upload_pending", version |-> 0]]
           /\ upload' = [upload EXCEPT ![u] = [status |-> "pending", slot |-> s]]
           /\ call' = [call EXCEPT ![r].pc = "presigning"]
        \/ /\ ~MayReserve(s)
           /\ call' = [call EXCEPT ![r] = Idle("none")]
           /\ UNCHANGED <<slot, dataset, upload>>
     /\ UNCHANGED <<lapsed, store>>

\* The answer carries a POST that is valid for 15 minutes.
Presign(r) ==
  /\ call[r].pc = "presigning"
  /\ posting' = posting \cup {call[r].upload}
  /\ call' = [call EXCEPT ![r] = Idle("none")]
  /\ UNCHANGED <<items, staged, copies>>

-----------------------------------------------------------------------------
(* POST /api/upload-sessions/{upload_id}/complete *)

\* A completed upload is answered at once, one that is gone with 404; only a
\* pending one goes on.
CompleteLook(r, u) ==
  /\ call[r].pc = "idle"
  /\ upload[u].status = "pending"
  /\ call' = [call EXCEPT ![r] =
       [pc |-> "copying", upload |-> u, slot |-> upload[u].slot,
        version |-> 0, answer |-> "none"]]
  /\ UNCHANGED <<items, store>>

\* copy_object: each copy is a new version of the final object (MaxCopies bounds
\* them).
Copy(r) ==
  LET u == call[r].upload
  IN /\ call[r].pc = "copying"
     /\ \/ /\ staged[u] = "none"
           /\ call' = [call EXCEPT ![r] = Idle("upload_missing")]
           /\ UNCHANGED copies
        \/ /\ staged[u] # "none"
           /\ Len(copies[u]) < MaxCopies
           /\ copies' = [copies EXCEPT ![u] = Append(copies[u], staged[u])]
           /\ call' = [call EXCEPT ![r].pc = "sizing",
                                   ![r].version = Len(copies[u]) + 1]
     /\ UNCHANGED <<items, posting, staged>>

\* head_object asks for the copied version.
HeadLatest(u, v) == copies[u][Len(copies[u])]   \* mutant: without VersionId
HeadObject(u, v) == copies[u][v]

\* The size of the copy is compared; a copy of the wrong size is deleted, or
\* left behind when S3 refuses the deletion.
CheckSize(r) ==
  LET u == call[r].upload
      v == call[r].version
  IN /\ call[r].pc = "sizing"
     /\ \/ /\ HeadObject(u, v) = "exact"
           /\ call' = [call EXCEPT ![r].pc = "committing"]
           /\ UNCHANGED copies
        \/ /\ HeadObject(u, v) # "exact"
           /\ call' = [call EXCEPT ![r] = Idle("none")]
           /\ \/ copies' = [copies EXCEPT ![u] =
                              [copies[u] EXCEPT ![v] = "deleted"]]
              \/ UNCHANGED copies
     /\ UNCHANGED <<items, posting, staged>>

\* Mutants: without the condition on the upload, or on the slot.
MayCommitAgain(u, s) == dataset[u].status # "absent" /\ slot[s].upload = u
MayCommitAnySlot(u, s) ==
  upload[u].status = "pending" /\ dataset[u].status # "absent"

\* The three ConditionExpressions of the completing transaction
MayCommit(u, s) ==
  /\ upload[u].status = "pending"
  /\ dataset[u].status # "absent"
  /\ slot[s].upload = u

\* Mutant: the status is not set.
PublishedPending(v) == [status |-> "upload_pending", version |-> v]

\* The dataset item as the transaction leaves it
Published(v) == [status |-> "uploaded", version |-> v]

\* The transaction commits, or is cancelled: for a condition that does not hold,
\* or for a conflict with another transaction.
Commit(r) ==
  LET u == call[r].upload
      s == call[r].slot
  IN /\ call[r].pc = "committing"
     /\ \/ /\ MayCommit(u, s)
           /\ upload' = [upload EXCEPT ![u].status = "completed"]
           /\ dataset' = [dataset EXCEPT ![u] = Published(call[r].version)]
           /\ slot' = [slot EXCEPT ![s].status = "released"]
           /\ lapsed' = lapsed \ {u}
           /\ call' = [call EXCEPT ![r].pc = "cleaning"]
        \/ /\ call' = [call EXCEPT ![r].pc = "rechecking"]
           /\ UNCHANGED items
     /\ UNCHANGED store

\* After a cancelled transaction: another request may have completed the upload.
CompletedUnchecked(u) == TRUE   \* mutant: taken for granted
Completed(u) == upload[u].status = "completed"
Recheck(r) ==
  /\ call[r].pc = "rechecking"
  /\ call' = [call EXCEPT ![r] =
       IF Completed(call[r].upload)
         THEN [call[r] EXCEPT !.pc = "cleaning"]
         ELSE Idle("none")]
  /\ UNCHANGED <<items, store>>

\* The staged file is deleted, or left to the lifecycle rule.
Clean(r) ==
  /\ call[r].pc = "cleaning"
  /\ staged' \in {staged, [staged EXCEPT ![call[r].upload] = "none"]}
  /\ call' = [call EXCEPT ![r] = Idle("none")]
  /\ UNCHANGED <<items, posting, copies>>

\* The Lambda invocation ends in the middle.
Stop(r) ==
  /\ call[r].pc # "idle"
  /\ call' = [call EXCEPT ![r] = Idle("none")]
  /\ UNCHANGED <<items, store>>

-----------------------------------------------------------------------------
(* The client, S3, DynamoDB and time *)

\* The client posts its file, possibly again.  The POST policy fixes the size,
\* and the completion checks it all the same.
PostFile(u) ==
  /\ u \in posting
  /\ \E size \in {"exact", "other"} : staged' = [staged EXCEPT ![u] = size]
  /\ UNCHANGED <<items, posting, copies, call>>

PostCloses(u) ==
  /\ u \in posting
  /\ posting' = posting \ {u}
  /\ UNCHANGED <<items, staged, copies, call>>

\* A day passes for a pending upload, the retention period for a completed one.
\* The POST was valid for 15 minutes, a request lives for 15 seconds.
Lapse(u) ==
  /\ upload[u].status \in {"pending", "completed"}
  /\ u \notin posting
  /\ \A r \in Request : call[r].upload # u \/ call[r].pc # "presigning"
  /\ lapsed' = lapsed \cup {u}
  /\ UNCHANGED <<slot, upload, dataset, store, call>>

StagedExpires(u) ==
  /\ u \in lapsed
  /\ staged' = [staged EXCEPT ![u] = "none"]
  /\ UNCHANGED <<items, posting, copies, call>>

\* DynamoDB removes an item after its expires_at, each in its own time.
RemoveSlot(s) ==
  /\ slot[s].upload \in lapsed
  /\ slot' = [slot EXCEPT ![s] = [status |-> "absent", upload |-> NoUpload]]
  /\ UNCHANGED <<upload, dataset, lapsed, store, call>>

RemoveUpload(u) ==
  /\ u \in lapsed
  /\ upload' = [upload EXCEPT ![u].status = "absent"]
  /\ UNCHANGED <<slot, dataset, lapsed, store, call>>

RemoveDataset(u) ==
  /\ u \in lapsed
  /\ dataset' = [dataset EXCEPT ![u] = [status |-> "absent", version |-> 0]]
  /\ UNCHANGED <<slot, upload, lapsed, store, call>>

-----------------------------------------------------------------------------
Create(r) == (\E u \in Upload : ChooseSlot(r, u)) \/ Reserve(r) \/ Presign(r)

Complete(r) ==
  \/ \E u \in Upload : CompleteLook(r, u)
  \/ Copy(r) \/ CheckSize(r) \/ Commit(r) \/ Recheck(r) \/ Clean(r)

Environment ==
  \/ \E u \in Upload :
       \/ PostFile(u) \/ PostCloses(u)
       \/ Lapse(u) \/ StagedExpires(u) \/ RemoveUpload(u) \/ RemoveDataset(u)
  \/ \E s \in Slots : RemoveSlot(s)

Next ==
  \/ \E r \in Request : Create(r) \/ Complete(r) \/ Stop(r)
  \/ Environment

Spec == Init /\ [][Next]_vars

-----------------------------------------------------------------------------
(* Properties *)

\* A session whose items have not expired
Open(u) == upload[u].status = "pending" /\ u \notin lapsed

\* An open session holds its slot: no other session was given the slot, no
\* completion of another session released it, and DynamoDB did not remove it.  So
\* there are never more open sessions than slots.
OpenHoldsSlot ==
  \A u \in Upload :
    Open(u) => slot[upload[u].slot] = [status |-> "pending", upload |-> u]

\* The files that open sessions may bring stay below the owner's storage ceiling,
\* however many requests checked the quota at the same time.
StorageCeiling ==
  MapThenSumSet(LAMBDA u : Size[u], {u \in Upload : Open(u)}) <= MaxTotalBytes

\* A published dataset names a version of the data bucket that exists and has the
\* declared size: no request deletes the version another one published.
PublishedWhole ==
  \A u \in Upload :
    dataset[u].status = "uploaded" =>
      /\ dataset[u].version \in DOMAIN copies[u]
      /\ copies[u][dataset[u].version] = "exact"

\* Upload and dataset are completed together, as far as both still exist.
CompletedTogether ==
  \A u \in Upload :
    upload[u].status # "absent" /\ dataset[u].status # "absent" =>
      (upload[u].status = "completed") = (dataset[u].status = "uploaded")

\* The version of a published dataset never changes, whatever other completions
\* of the same upload are under way.
VersionFixed ==
  [][\A u \in Upload :
       dataset[u].status = "uploaded" /\ dataset'[u].status # "absent" =>
         dataset'[u] = dataset[u]]_vars

\* A request deletes a staged file only after the upload was completed.
StagedUntilCompleted ==
  [][\A u \in Upload :
       staged[u] # "none" /\ staged'[u] = "none" /\ u \notin lapsed =>
         upload[u].status = "completed"]_vars
=============================================================================
