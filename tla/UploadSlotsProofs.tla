-------------------------- MODULE UploadSlotsProofs --------------------------
(***************************************************************************)
(* Proofs about UploadSlots for any number of uploads, slots and requests: *)
(* an open session holds its slot, and what a dataset publishes is whole   *)
(* and never changes.  The inductive invariant IInv adds to these          *)
(* properties what a request knows at each of its points.                  *)
(***************************************************************************)
EXTENDS UploadSlots, SetArithmetic

\* A request under way has an upload.
CallHasUpload ==
  \A r \in Request : call[r].pc # "idle" => call[r].upload \in Upload

\* The identifier a request is about to reserve is its own and was never written.
ReservesFresh ==
  \A r \in Request :
    call[r].pc = "reserving" =>
      /\ upload[call[r].upload].status = "unused"
      /\ \A q \in Request \ {r} : call[q].upload # call[r].upload

UnusedHasNoDataset ==
  \A u \in Upload : upload[u].status = "unused" => dataset[u].status = "absent"

UnusedNotLapsed ==
  \A u \in Upload : upload[u].status = "unused" => u \notin lapsed

\* A request that made a copy knows a version that exists, and one about to commit
\* a version of the right size.
CopyKnown ==
  \A r \in Request :
    /\ call[r].pc \in {"sizing", "committing"} =>
         call[r].version \in DOMAIN copies[call[r].upload]
    /\ call[r].pc = "committing" =>
         copies[call[r].upload][call[r].version] = "exact"

\* A staged file is cleaned up for a completed upload, as long as its items last.
CleansCompleted ==
  \A r \in Request :
    call[r].pc = "cleaning" /\ call[r].upload \notin lapsed =>
      upload[call[r].upload].status = "completed"

Types == TypeOK /\ CallHasUpload

IInv ==
  /\ Types
  /\ OpenHoldsSlot
  /\ ReservesFresh
  /\ UnusedHasNoDataset
  /\ UnusedNotLapsed
  /\ CompletedTogether
  /\ CopyKnown
  /\ PublishedWhole
  /\ CleansCompleted

-----------------------------------------------------------------------------
(* Types *)

LEMMA SlotsExist == 0 \in Slots
BY SlotAssumption DEF Slots

LEMMA IdleType == \A answer \in Answers : Idle(answer) \in Call
BY SlotsExist DEF Idle, Call, Points

LEMMA InitTypes == Init => Types
<1> SUFFICES ASSUME Init PROVE Types
  OBVIOUS
<1>1. slot \in [Slots -> SlotItem]
  BY DEF Init, SlotItem
<1>2. upload \in [Upload -> UploadItem]
  BY SlotsExist DEF Init, UploadItem
<1>3. dataset \in [Upload -> DatasetItem]
  BY DEF Init, DatasetItem
<1>4. copies \in [Upload -> Seq({"exact", "other", "deleted"})]
  BY DEF Init
<1>5. call \in [Request -> Call]
  BY IdleType DEF Init, Answers
<1>6. CallHasUpload
  BY DEF Init, CallHasUpload, Idle
<1> QED
  BY <1>1, <1>2, <1>3, <1>4, <1>5, <1>6 DEF Init, Types, TypeOK

\* What one request does to its own entry in call.
LEMMA CallStep ==
  ASSUME NEW r \in Request, NEW c \in Call, Types, call' = [call EXCEPT ![r] = c],
         c.pc # "idle" => c.upload \in Upload
  PROVE  call' \in [Request -> Call] /\ CallHasUpload'
BY DEF Types, TypeOK, CallHasUpload

LEMMA MoveStep ==
  ASSUME NEW r \in Request, NEW p \in Points, Types, call[r].pc # "idle",
         call' = [call EXCEPT ![r].pc = p]
  PROVE  call' \in [Request -> Call] /\ CallHasUpload'
<1>1. call[r] \in Call
  BY DEF Types, TypeOK
<1> DEFINE c == [call[r] EXCEPT !.pc = p]
<1>2. c \in Call
  BY <1>1 DEF Call
<1>3. call' = [call EXCEPT ![r] = c]
  OBVIOUS
<1>4. c.upload = call[r].upload
  BY <1>1 DEF Call
<1>5. c.upload \in Upload
  BY <1>4 DEF Types, CallHasUpload
<1> HIDE DEF c
<1> QED
  BY <1>2, <1>3, <1>5, CallStep

LEMMA ReturnStep ==
  ASSUME NEW r \in Request, NEW answer \in Answers, Types,
         call' = [call EXCEPT ![r] = Idle(answer)]
  PROVE  call' \in [Request -> Call] /\ CallHasUpload'
<1>1. Idle(answer) \in Call
  BY IdleType
<1>2. Idle(answer).pc = "idle"
  BY DEF Idle
<1> QED
  BY <1>1, <1>2, CallStep

LEMMA KeptCalls ==
  ASSUME Types, call' = call
  PROVE  call' \in [Request -> Call] /\ CallHasUpload'
BY DEF Types, TypeOK, CallHasUpload

LEMMA CallsType ==
  ASSUME Types, NEW r \in Request
  PROVE  /\ call[r] \in Call
         /\ call[r].slot \in Slots /\ call[r].version \in Nat
         /\ call[r].pc # "idle" => call[r].upload \in Upload
BY DEF Types, TypeOK, CallHasUpload, Call

\* The steps that write no item and no object change only call.
LEMMA QuietSteps ==
  ASSUME Types, NEW r \in Request,
         \/ \E u \in Upload : ChooseSlot(r, u) \/ CompleteLook(r, u)
         \/ Recheck(r) \/ Stop(r)
  PROVE  Types'
<1>1. UNCHANGED <<items, store>>
  BY DEF ChooseSlot, CompleteLook, Recheck, Stop
<1>2. call' \in [Request -> Call] /\ CallHasUpload'
  <2>1. ASSUME NEW u \in Upload, ChooseSlot(r, u)
        PROVE  call' \in [Request -> Call] /\ CallHasUpload'
    <3>1. PICK s \in Slots : call' = [call EXCEPT ![r] =
            [pc |-> "reserving", upload |-> u, slot |-> s, version |-> 0,
             answer |-> "none"]]
      BY <2>1 DEF ChooseSlot
    <3> QED
      BY <3>1, CallStep DEF Call, Points, Answers
  <2>2. ASSUME NEW u \in Upload, CompleteLook(r, u)
        PROVE  call' \in [Request -> Call] /\ CallHasUpload'
    <3>1. upload[u].slot \in Slots
      BY DEF Types, TypeOK, UploadItem
    <3> QED
      BY <2>2, <3>1, CallStep DEF CompleteLook, Call, Points, Answers
  <2>3. CASE Recheck(r)
    <3>1. call[r] \in Call /\ call[r].upload \in Upload /\ call[r].pc = "rechecking"
      BY <2>3, CallsType DEF Recheck
    <3>2. CASE Completed(call[r].upload)
      BY <2>3, <3>1, <3>2, MoveStep DEF Recheck, Points
    <3>3. CASE ~Completed(call[r].upload)
      BY <2>3, <3>3, ReturnStep DEF Recheck, Answers
    <3> QED
      BY <3>2, <3>3
  <2>4. CASE Stop(r)
    BY <2>4, ReturnStep DEF Stop, Answers
  <2> QED
    BY <2>1, <2>2, <2>3, <2>4
<1> QED
  BY <1>1, <1>2 DEF Types, TypeOK, items, store

LEMMA UpdateStep ==
  ASSUME NEW S, NEW q \in Seq(S), NEW i, NEW x \in S
  PROVE  /\ [q EXCEPT ![i] = x] \in Seq(S)
         /\ DOMAIN [q EXCEPT ![i] = x] = DOMAIN q
<1>1. q \in [1 .. Len(q) -> S]
  OBVIOUS
<1>2. [q EXCEPT ![i] = x] \in [1 .. Len(q) -> S]
  BY <1>1
<1> QED
  BY <1>1, <1>2

LEMMA RequestTypes ==
  ASSUME Types, NEW r \in Request, Create(r) \/ Complete(r) \/ Stop(r)
  PROVE  Types'
<1> DEFINE u == call[r].upload
<1> DEFINE s == call[r].slot
<1>0. s \in Slots /\ call[r].version \in Nat /\ (call[r].pc # "idle" => u \in Upload)
  BY CallsType
<1>1. CASE Reserve(r)
  <2>1. u \in Upload
    BY <1>0, <1>1 DEF Reserve
  <2> DEFINE slotItem == [status |-> "pending", upload |-> u]
             datasetItem == [status |-> "upload_pending", version |-> 0]
             uploadItem == [status |-> "pending", slot |-> s]
  <2>a. \/ /\ slot' = [slot EXCEPT ![s] = slotItem]
           /\ dataset' = [dataset EXCEPT ![u] = datasetItem]
           /\ upload' = [upload EXCEPT ![u] = uploadItem]
        \/ UNCHANGED <<slot, dataset, upload>>
    BY <1>1 DEF Reserve
  <2>b. slotItem \in SlotItem /\ datasetItem \in DatasetItem /\ uploadItem \in UploadItem
    BY <1>0, <2>1 DEF SlotItem, DatasetItem, UploadItem
  <2> HIDE DEF slotItem, datasetItem, uploadItem
  <2>2. slot' \in [Slots -> SlotItem]
    BY <2>a, <2>b DEF Types, TypeOK
  <2>3. upload' \in [Upload -> UploadItem]
    BY <2>a, <2>b DEF Types, TypeOK
  <2>4. dataset' \in [Upload -> DatasetItem]
    BY <2>a, <2>b DEF Types, TypeOK
  <2>5. call' \in [Request -> Call] /\ CallHasUpload'
    BY <1>1, MoveStep, ReturnStep DEF Reserve, Points, Answers
  <2> QED
    BY <1>1, <2>2, <2>3, <2>4, <2>5 DEF Reserve, Types, TypeOK, store
<1>2. CASE Presign(r)
  <2>1. call' \in [Request -> Call] /\ CallHasUpload'
    BY <1>2, ReturnStep DEF Presign, Answers
  <2> QED
    BY <1>0, <1>2, <2>1 DEF Presign, Types, TypeOK, items
<1>3. CASE Copy(r)
  <2>1. u \in Upload
    BY <1>0, <1>3 DEF Copy
  <2>2. copies' \in [Upload -> Seq({"exact", "other", "deleted"})]
    <3>1. CASE staged[u] = "none"
      BY <1>3, <3>1 DEF Copy, Types, TypeOK
    <3>2. CASE staged[u] # "none"
      <4>1. staged[u] \in {"exact", "other", "deleted"}
        BY <2>1, <3>2 DEF Types, TypeOK
      <4>2. copies[u] \in Seq({"exact", "other", "deleted"})
        BY <2>1 DEF Types, TypeOK
      <4>3. Append(copies[u], staged[u]) \in Seq({"exact", "other", "deleted"})
        BY <4>1, <4>2
      <4> QED
        BY <1>3, <2>1, <3>2, <4>3 DEF Copy, Types, TypeOK
    <3> QED
      BY <3>1, <3>2
  <2>3. call' \in [Request -> Call] /\ CallHasUpload'
    <3>1. CASE staged[u] = "none"
      BY <1>3, <3>1, ReturnStep DEF Copy, Answers
    <3>2. CASE staged[u] # "none"
      <4> DEFINE c == [call[r] EXCEPT !.pc = "sizing", !.version = Len(copies[u]) + 1]
      <4>1. call[r] \in Call
        BY CallsType
      <4>2. Len(copies[u]) + 1 \in Nat
        BY <2>1 DEF Types, TypeOK
      <4>3. c \in Call /\ c.upload = u
        BY <4>1, <4>2 DEF Call, Points
      <4>4. call' = [call EXCEPT ![r] = c]
        BY <1>3, <3>2 DEF Copy
      <4> HIDE DEF c
      <4> QED
        BY <2>1, <4>3, <4>4, CallStep
    <3> QED
      BY <3>1, <3>2
  <2> QED
    BY <1>3, <2>2, <2>3 DEF Copy, Types, TypeOK, items
<1>4. CASE CheckSize(r)
  <2>1. u \in Upload
    BY <1>0, <1>4 DEF CheckSize
  <2>2. copies[u] \in Seq({"exact", "other", "deleted"})
    BY <2>1 DEF Types, TypeOK
  <2>3. [copies[u] EXCEPT ![call[r].version] = "deleted"]
          \in Seq({"exact", "other", "deleted"})
    BY <2>2, UpdateStep
  <2>4. copies' \in [Upload -> Seq({"exact", "other", "deleted"})]
    BY <1>4, <2>1, <2>3 DEF CheckSize, Types, TypeOK
  <2>5. call' \in [Request -> Call] /\ CallHasUpload'
    BY <1>4, MoveStep, ReturnStep DEF CheckSize, Points, Answers
  <2> QED
    BY <1>4, <2>4, <2>5 DEF CheckSize, Types, TypeOK, items
<1>5. CASE Commit(r)
  <2>1. u \in Upload
    BY <1>0, <1>5 DEF Commit
  <2> DEFINE datasetItem == Published(call[r].version)
  <2>a. \/ /\ slot' = [slot EXCEPT ![s].status = "released"]
           /\ dataset' = [dataset EXCEPT ![u] = datasetItem]
           /\ upload' = [upload EXCEPT ![u].status = "completed"]
        \/ UNCHANGED <<slot, dataset, upload>>
    BY <1>5 DEF Commit, items
  <2>b. datasetItem \in DatasetItem
    BY <1>0 DEF Published, DatasetItem
  <2> HIDE DEF datasetItem
  <2>c. slot \in [Slots -> SlotItem] /\ upload \in [Upload -> UploadItem]
    BY DEF Types, TypeOK
  <2>2. slot' \in [Slots -> SlotItem]
    BY <2>a, <2>c DEF SlotItem
  <2>3. upload' \in [Upload -> UploadItem]
    BY <2>a, <2>c DEF UploadItem
  <2>4. dataset' \in [Upload -> DatasetItem]
    BY <2>a, <2>b DEF Types, TypeOK
  <2>5. lapsed' \subseteq Upload
    BY <1>5 DEF Commit, Types, TypeOK, items
  <2>6. call' \in [Request -> Call] /\ CallHasUpload'
    BY <1>5, MoveStep DEF Commit, Points
  <2> QED
    BY <1>5, <2>2, <2>3, <2>4, <2>5, <2>6 DEF Commit, Types, TypeOK, store
<1>6. CASE Clean(r)
  <2>1. call' \in [Request -> Call] /\ CallHasUpload'
    BY <1>6, ReturnStep DEF Clean, Answers
  <2>2. staged' \in [Upload -> {"none", "exact", "other"}]
    BY <1>6 DEF Clean, Types, TypeOK
  <2> QED
    BY <1>6, <2>1, <2>2 DEF Clean, Types, TypeOK, items
<1> QED
  BY <1>1, <1>2, <1>3, <1>4, <1>5, <1>6, QuietSteps DEF Create, Complete

LEMMA EnvironmentTypes ==
  ASSUME Types, Environment
  PROVE  Types'
<1>1. call' = call
  BY DEF Environment, PostFile, PostCloses, Lapse, StagedExpires, RemoveUpload,
         RemoveDataset, RemoveSlot
<1>2. call' \in [Request -> Call] /\ CallHasUpload'
  BY <1>1, KeptCalls
<1>3. ASSUME NEW s \in Slots, RemoveSlot(s)
      PROVE  Types'
  BY <1>2, <1>3 DEF RemoveSlot, Types, TypeOK, SlotItem, store
<1>4. ASSUME NEW u \in Upload, PostFile(u) \/ StagedExpires(u)
      PROVE  Types'
  BY <1>2, <1>4 DEF PostFile, StagedExpires, Types, TypeOK, items
<1>5. ASSUME NEW u \in Upload, PostCloses(u) \/ Lapse(u)
      PROVE  Types'
  BY <1>2, <1>5 DEF PostCloses, Lapse, Types, TypeOK, items, store
<1>6. ASSUME NEW u \in Upload, RemoveUpload(u)
      PROVE  Types'
  <2>1. upload' \in [Upload -> UploadItem]
    BY <1>6 DEF RemoveUpload, Types, TypeOK, UploadItem
  <2> QED
    BY <1>2, <1>6, <2>1 DEF RemoveUpload, Types, TypeOK, store
<1>7. ASSUME NEW u \in Upload, RemoveDataset(u)
      PROVE  Types'
  <2>1. dataset' \in [Upload -> DatasetItem]
    BY <1>7 DEF RemoveDataset, Types, TypeOK, DatasetItem
  <2> QED
    BY <1>2, <1>7, <2>1 DEF RemoveDataset, Types, TypeOK, store
<1> QED
  BY <1>3, <1>4, <1>5, <1>6, <1>7 DEF Environment

LEMMA KeptTypes ==
  ASSUME Types, UNCHANGED vars
  PROVE  Types'
BY DEF Types, TypeOK, CallHasUpload, vars

LEMMA NextTypes ==
  ASSUME Types, [Next]_vars
  PROVE  Types'
BY RequestTypes, EnvironmentTypes, KeptTypes DEF Next

\* Every variable of UploadSlots keeps its type, and a request that is under way
\* has an upload, for any number of uploads, slots and requests.
THEOREM TypeCorrect == Spec => []TypeOK
<1>1. Types /\ [Next]_vars => Types'
  BY NextTypes
<1>2. Types => TypeOK
  BY DEF Types
<1> QED
  BY InitTypes, <1>1, <1>2, PTL DEF Spec

-----------------------------------------------------------------------------
(* The inductive invariant *)

LEMMA InitInvariant == Init => IInv
<1> SUFFICES ASSUME Init PROVE IInv
  OBVIOUS
<1>1. \A r \in Request : call[r].pc = "idle"
  BY DEF Init, Idle
<1>2. \A u \in Upload : upload[u].status = "unused" /\ dataset[u].status = "absent"
  BY DEF Init
<1>3. lapsed = {}
  BY DEF Init
<1> QED
  BY <1>1, <1>2, <1>3, InitTypes
     DEF IInv, OpenHoldsSlot, Open, ReservesFresh, UnusedHasNoDataset, UnusedNotLapsed,
         CompletedTogether, CopyKnown, PublishedWhole, CleansCompleted

\* The parts of the invariant that speak of items and objects only.
Stored ==
  /\ OpenHoldsSlot /\ UnusedHasNoDataset /\ UnusedNotLapsed
  /\ CompletedTogether /\ PublishedWhole

\* The parts that speak of what requests know.
Known == ReservesFresh /\ CopyKnown /\ CleansCompleted

LEMMA KeptStored ==
  ASSUME IInv, UNCHANGED items, UNCHANGED copies
  PROVE  Stored'
BY DEF IInv, Stored, items, OpenHoldsSlot, Open, UnusedHasNoDataset, UnusedNotLapsed,
       CompletedTogether, PublishedWhole

LEMMA ReserveInvariant ==
  ASSUME IInv, NEW r \in Request, Reserve(r)
  PROVE  Stored' /\ Known'
<1> DEFINE u == call[r].upload
           s == call[r].slot
<1>1. u \in Upload /\ s \in Slots /\ call[r].pc = "reserving"
  BY CallsType DEF Reserve, IInv
<1>2. /\ slot \in [Slots -> SlotItem] /\ upload \in [Upload -> UploadItem]
      /\ dataset \in [Upload -> DatasetItem] /\ call \in [Request -> Call]
  BY DEF IInv, Types, TypeOK
<1>3. CASE /\ ~MayReserve(s)
           /\ UNCHANGED <<slot, dataset, upload>>
           /\ call' = [call EXCEPT ![r] = Idle("none")]
  <2>1. Stored'
    BY <1>3, KeptStored DEF Reserve, items, store
  <2>2. \A q \in Request : call'[q] = call[q] \/ call'[q] = Idle("none")
    BY <1>2, <1>3
  <2>3. Idle("none").pc = "idle" /\ Idle("none").upload = NoUpload
    BY DEF Idle
  <2>4. UNCHANGED <<upload, lapsed, copies>>
    BY <1>3 DEF Reserve, store
  <2>5. ReservesFresh'
    BY <2>2, <2>3, <2>4, NoUploadAssumption DEF IInv, ReservesFresh, Types, CallHasUpload
  <2>6. CopyKnown' /\ CleansCompleted'
    BY <2>2, <2>3, <2>4 DEF IInv, CopyKnown, CleansCompleted
  <2> QED
    BY <2>1, <2>5, <2>6 DEF Known
<1>4. CASE /\ MayReserve(s)
           /\ slot' = [slot EXCEPT ![s] = [status |-> "pending", upload |-> u]]
           /\ dataset' = [dataset EXCEPT ![u] =
                [status |-> "upload_pending", version |-> 0]]
           /\ upload' = [upload EXCEPT ![u] = [status |-> "pending", slot |-> s]]
           /\ call' = [call EXCEPT ![r].pc = "presigning"]
  <2>1. UNCHANGED <<lapsed, copies>>
    BY DEF Reserve, store
  <2>2. upload[u].status = "unused" /\ \A q \in Request \ {r} : call[q].upload # u
    BY <1>1 DEF IInv, ReservesFresh
  <2>3. OpenHoldsSlot'
    <3> SUFFICES ASSUME NEW v \in Upload, Open(v)'
                 PROVE  slot'[upload'[v].slot] = [status |-> "pending", upload |-> v]
      BY DEF OpenHoldsSlot
    <3>1. CASE v = u
      BY <1>1, <1>2, <1>4, <3>1
    <3>2. CASE v # u
      <4>1. upload'[v] = upload[v] /\ Open(v)
        BY <1>2, <1>4, <2>1, <3>2 DEF Open
      <4>2. slot[upload[v].slot] = [status |-> "pending", upload |-> v]
        BY <4>1 DEF IInv, OpenHoldsSlot
      <4>3. upload[v].slot # s
        BY <1>4, <4>1, <4>2 DEF MayReserve, Reserved, Open
      <4> QED
        BY <1>2, <1>4, <4>1, <4>2, <4>3
    <3> QED
      BY <3>1, <3>2
  <2>4. \A v \in Upload \ {u} : upload'[v] = upload[v] /\ dataset'[v] = dataset[v]
    BY <1>2, <1>4
  <2>5. /\ upload'[u].status = "pending"
        /\ dataset'[u].status = "upload_pending"
    BY <1>1, <1>2, <1>4
  <2>6. UnusedHasNoDataset' /\ UnusedNotLapsed' /\ CompletedTogether' /\ PublishedWhole'
    BY <2>1, <2>4, <2>5
       DEF IInv, UnusedHasNoDataset, UnusedNotLapsed, CompletedTogether, PublishedWhole
  <2>7. /\ \A q \in Request \ {r} : call'[q] = call[q]
        /\ call'[r].pc = "presigning" /\ call'[r].upload = u
    BY <1>2, <1>4 DEF Call
  <2>8. ReservesFresh'
    <3> SUFFICES ASSUME NEW q \in Request, call'[q].pc = "reserving"
                 PROVE  /\ upload'[call'[q].upload].status = "unused"
                        /\ \A p \in Request \ {q} : call'[p].upload # call'[q].upload
      BY DEF ReservesFresh
    <3>1. q # r /\ call'[q] = call[q]
      BY <2>7
    <3>2. call[q].upload # u /\ call[q].upload \in Upload
      BY <2>2, <3>1, CallsType DEF IInv
    <3>3. /\ upload[call[q].upload].status = "unused"
          /\ \A p \in Request \ {q} : call[p].upload # call[q].upload
      BY <3>1 DEF IInv, ReservesFresh
    <3> QED
      BY <2>4, <2>7, <3>1, <3>2, <3>3
  <2>9. CopyKnown'
    BY <2>1, <2>7 DEF IInv, CopyKnown
  <2>10. CleansCompleted'
    <3> SUFFICES ASSUME NEW q \in Request, call'[q].pc = "cleaning",
                        call'[q].upload \notin lapsed'
                 PROVE  upload'[call'[q].upload].status = "completed"
      BY DEF CleansCompleted
    <3>1. q # r /\ call'[q] = call[q]
      BY <2>7
    <3>2. call[q].upload # u /\ call[q].upload \in Upload
      BY <2>2, <3>1, CallsType DEF IInv
    <3> QED
      BY <2>1, <2>4, <3>1, <3>2 DEF IInv, CleansCompleted
  <2> QED
    BY <2>3, <2>6, <2>8, <2>9, <2>10 DEF Stored, Known
<1> QED
  BY <1>3, <1>4 DEF Reserve

LEMMA CommitInvariant ==
  ASSUME IInv, NEW r \in Request, Commit(r)
  PROVE  Stored' /\ Known'
<1> DEFINE u == call[r].upload
           s == call[r].slot
           v == call[r].version
<1>1. u \in Upload /\ s \in Slots /\ v \in Nat /\ call[r].pc = "committing"
  BY CallsType DEF Commit, IInv
<1>2. /\ slot \in [Slots -> SlotItem] /\ upload \in [Upload -> UploadItem]
      /\ dataset \in [Upload -> DatasetItem] /\ call \in [Request -> Call]
  BY DEF IInv, Types, TypeOK
<1>3. UNCHANGED copies
  BY DEF Commit, store
<1>4. CASE UNCHANGED items /\ call' = [call EXCEPT ![r].pc = "rechecking"]
  <2>1. Stored'
    BY <1>3, <1>4, KeptStored
  <2>2. /\ \A q \in Request \ {r} : call'[q] = call[q]
        /\ call'[r].pc = "rechecking" /\ call'[r].upload = u
    BY <1>2, <1>4 DEF Call
  <2>3. UNCHANGED <<upload, lapsed>>
    BY <1>4 DEF items
  <2>4. ReservesFresh'
    BY <2>2, <2>3 DEF IInv, ReservesFresh
  <2>5. CopyKnown' /\ CleansCompleted'
    BY <1>3, <2>2, <2>3 DEF IInv, CopyKnown, CleansCompleted
  <2> QED
    BY <2>1, <2>4, <2>5 DEF Known
<1>5. CASE /\ MayCommit(u, s)
           /\ upload' = [upload EXCEPT ![u].status = "completed"]
           /\ dataset' = [dataset EXCEPT ![u] = Published(v)]
           /\ slot' = [slot EXCEPT ![s].status = "released"]
           /\ lapsed' = lapsed \ {u}
           /\ call' = [call EXCEPT ![r].pc = "cleaning"]
  <2>1. /\ \A w \in Upload \ {u} : upload'[w] = upload[w] /\ dataset'[w] = dataset[w]
        /\ upload'[u].status = "completed"
        /\ dataset'[u] = Published(v)
        /\ \A w \in Upload \ {u} : w \in lapsed' <=> w \in lapsed
    BY <1>1, <1>2, <1>5 DEF UploadItem
  <2>2. /\ \A q \in Request \ {r} : call'[q] = call[q]
        /\ call'[r].pc = "cleaning" /\ call'[r].upload = u
    BY <1>2, <1>5 DEF Call
  <2>3. OpenHoldsSlot'
    <3> SUFFICES ASSUME NEW w \in Upload, Open(w)'
                 PROVE  slot'[upload'[w].slot] = [status |-> "pending", upload |-> w]
      BY DEF OpenHoldsSlot
    <3>1. w # u
      BY <2>1 DEF Open
    <3>2. upload'[w] = upload[w] /\ Open(w)
      BY <2>1, <3>1 DEF Open
    <3>3. slot[upload[w].slot] = [status |-> "pending", upload |-> w]
      BY <3>2 DEF IInv, OpenHoldsSlot
    <3>4. upload[w].slot # s
      BY <1>5, <3>1, <3>3 DEF MayCommit
    <3> QED
      BY <1>2, <1>5, <3>2, <3>3, <3>4
  <2>4. v \in DOMAIN copies[u] /\ copies[u][v] = "exact"
    BY <1>1 DEF IInv, CopyKnown
  <2>5. UnusedHasNoDataset' /\ UnusedNotLapsed' /\ CompletedTogether' /\ PublishedWhole'
    BY <1>3, <2>1, <2>4
       DEF IInv, UnusedHasNoDataset, UnusedNotLapsed, CompletedTogether, PublishedWhole, Published
  <2>6. ReservesFresh'
    <3> SUFFICES ASSUME NEW q \in Request, call'[q].pc = "reserving"
                 PROVE  /\ upload'[call'[q].upload].status = "unused"
                        /\ \A p \in Request \ {q} : call'[p].upload # call'[q].upload
      BY DEF ReservesFresh
    <3>1. q # r /\ call'[q] = call[q]
      BY <2>2
    <3>2. /\ upload[call[q].upload].status = "unused"
          /\ \A p \in Request \ {q} : call[p].upload # call[q].upload
          /\ call[q].upload \in Upload
      BY <3>1, CallsType DEF IInv, ReservesFresh
    <3> QED
      BY <2>1, <2>2, <3>1, <3>2
  <2>7. CopyKnown'
    BY <1>3, <2>2 DEF IInv, CopyKnown
  <2>8. CleansCompleted'
    <3> SUFFICES ASSUME NEW q \in Request, call'[q].pc = "cleaning",
                        call'[q].upload \notin lapsed'
                 PROVE  upload'[call'[q].upload].status = "completed"
      BY DEF CleansCompleted
    <3>1. CASE call'[q].upload = u
      BY <2>1, <3>1
    <3>2. CASE call'[q].upload # u
      <4>1. q # r /\ call'[q] = call[q] /\ call[q].upload \in Upload
        BY <2>2, <3>2, CallsType DEF IInv
      <4> QED
        BY <2>1, <3>2, <4>1 DEF IInv, CleansCompleted
    <3> QED
      BY <3>1, <3>2
  <2> QED
    BY <2>3, <2>5, <2>6, <2>7, <2>8 DEF Stored, Known
<1> QED
  BY <1>4, <1>5 DEF Commit

LEMMA CopyInvariant ==
  ASSUME IInv, NEW r \in Request, Copy(r) \/ CheckSize(r)
  PROVE  Stored' /\ Known'
<1> DEFINE u == call[r].upload
           v == call[r].version
<1>1. u \in Upload /\ v \in Nat
  BY CallsType DEF Copy, CheckSize, IInv
<1>2. /\ copies \in [Upload -> Seq({"exact", "other", "deleted"})]
      /\ copies[u] \in Seq({"exact", "other", "deleted"})
      /\ call \in [Request -> Call]
      /\ staged[u] \in {"none", "exact", "other"}
  BY <1>1 DEF IInv, Types, TypeOK
<1>3. UNCHANGED items
  BY DEF Copy, CheckSize
\* What was copied before stays, unless it was not the right size.
<1>4. /\ \A w \in Upload : DOMAIN copies[w] \subseteq DOMAIN copies'[w]
      /\ \A w \in Upload : \A i \in DOMAIN copies[w] :
           copies[w][i] = "exact" => copies'[w][i] = "exact"
  <2>1. CASE UNCHANGED copies
    BY <2>1
  <2>2. CASE copies' = [copies EXCEPT ![u] = Append(copies[u], staged[u])]
    <3>1. /\ DOMAIN copies[u] \subseteq DOMAIN Append(copies[u], staged[u])
          /\ \A i \in DOMAIN copies[u] : Append(copies[u], staged[u])[i] = copies[u][i]
      BY <1>2
    <3> QED
      BY <1>1, <1>2, <2>2, <3>1
  <2>3. CASE /\ HeadObject(u, v) # "exact"
             /\ copies' = [copies EXCEPT ![u] = [copies[u] EXCEPT ![v] = "deleted"]]
    <3>1. DOMAIN [copies[u] EXCEPT ![v] = "deleted"] = DOMAIN copies[u]
      OBVIOUS
    <3>2. \A i \in DOMAIN copies[u] :
            copies[u][i] = "exact" => [copies[u] EXCEPT ![v] = "deleted"][i] = "exact"
      BY <2>3 DEF HeadObject
    <3> QED
      BY <1>1, <1>2, <2>3, <3>1, <3>2
  <2> QED
    BY <2>1, <2>2, <2>3 DEF Copy, CheckSize
<1>5. Stored'
  <2>1. PublishedWhole'
    BY <1>3, <1>4 DEF IInv, PublishedWhole, items
  <2> QED
    BY <1>3, <2>1 DEF IInv, Stored, items, OpenHoldsSlot, Open, UnusedHasNoDataset, UnusedNotLapsed,
                      CompletedTogether
<1>6. /\ \A q \in Request \ {r} : call'[q] = call[q]
      /\ call'[r].upload \in {u, NoUpload}
      /\ call'[r].pc \in {"idle", "sizing", "committing"}
  <2>1. \/ \E answer \in Answers : call' = [call EXCEPT ![r] = Idle(answer)]
        \/ call' = [call EXCEPT ![r].pc = "sizing", ![r].version = Len(copies[u]) + 1]
        \/ call' = [call EXCEPT ![r].pc = "committing"]
    BY DEF Copy, CheckSize, Answers
  <2>2. \A answer \in Answers :
          Idle(answer).upload = NoUpload /\ Idle(answer).pc = "idle"
    BY DEF Idle
  <2>3. \A q \in Request \ {r} : call'[q] = call[q]
    BY <1>2, <2>1
  <2>4. CASE \E answer \in Answers : call' = [call EXCEPT ![r] = Idle(answer)]
    BY <1>2, <2>2, <2>3, <2>4
  <2>5. CASE \/ call' = [call EXCEPT ![r].pc = "sizing", ![r].version = Len(copies[u]) + 1]
             \/ call' = [call EXCEPT ![r].pc = "committing"]
    <3>1. call'[r].upload = u /\ call'[r].pc \in {"sizing", "committing"}
      BY <1>2, <2>5 DEF Call
    <3> QED
      BY <2>3, <3>1
  <2> QED
    BY <2>1, <2>4, <2>5
<1>7. UNCHANGED <<upload, lapsed>>
  BY <1>3 DEF items
<1>8. ReservesFresh'
  <2> SUFFICES ASSUME NEW q \in Request, call'[q].pc = "reserving"
               PROVE  /\ upload'[call'[q].upload].status = "unused"
                      /\ \A p \in Request \ {q} : call'[p].upload # call'[q].upload
    BY DEF ReservesFresh
  <2>1. q # r /\ call'[q] = call[q] /\ call[q].upload \in Upload
    BY <1>6, CallsType DEF IInv
  <2> QED
    BY <1>6, <1>7, <2>1, NoUploadAssumption DEF IInv, ReservesFresh
<1>9. CleansCompleted'
  BY <1>6, <1>7 DEF IInv, CleansCompleted
<1>10. CopyKnown'
  <2> SUFFICES ASSUME NEW q \in Request, call'[q].pc \in {"sizing", "committing"}
               PROVE  /\ call'[q].version \in DOMAIN copies'[call'[q].upload]
                      /\ call'[q].pc = "committing" =>
                           copies'[call'[q].upload][call'[q].version] = "exact"
    BY DEF CopyKnown
  <2>1. CASE q # r
    <3>1. call'[q] = call[q] /\ call[q].upload \in Upload
      BY <1>6, <2>1, CallsType DEF IInv
    <3> QED
      BY <1>4, <3>1 DEF IInv, CopyKnown
  <2>2. CASE q = r /\ Copy(r)
    <3>1. /\ copies' = [copies EXCEPT ![u] = Append(copies[u], staged[u])]
          /\ call' = [call EXCEPT ![r].pc = "sizing",
                                  ![r].version = Len(copies[u]) + 1]
      BY <1>2, <2>2 DEF Copy, Idle
    <3>2. /\ call'[r].pc = "sizing" /\ call'[r].upload = u
          /\ call'[r].version = Len(copies[u]) + 1
      BY <1>2, <3>1 DEF Call
    <3>3. Len(copies[u]) + 1 \in DOMAIN Append(copies[u], staged[u])
      BY <1>2
    <3> QED
      BY <1>1, <1>2, <2>2, <3>1, <3>2, <3>3
  <2>3. CASE q = r /\ CheckSize(r)
    <3>1. /\ HeadObject(u, v) = "exact" /\ UNCHANGED copies
          /\ call' = [call EXCEPT ![r].pc = "committing"]
          /\ call[r].pc = "sizing"
      BY <1>2, <2>3 DEF CheckSize, Idle
    <3>2. call'[r].version = v /\ call'[r].upload = u
      BY <1>2, <3>1 DEF Call
    <3> QED
      BY <2>3, <3>1, <3>2 DEF IInv, CopyKnown, HeadObject
  <2> QED
    BY <2>1, <2>2, <2>3
<1> QED
  BY <1>5, <1>8, <1>9, <1>10 DEF Known

\* The other steps of a request.
LEMMA QuietInvariant ==
  ASSUME IInv, NEW r \in Request,
         \/ \E u \in Upload : ChooseSlot(r, u) \/ CompleteLook(r, u)
         \/ Presign(r) \/ Recheck(r) \/ Clean(r) \/ Stop(r)
  PROVE  Stored' /\ Known'
<1>1. UNCHANGED items /\ UNCHANGED copies
  BY DEF ChooseSlot, CompleteLook, Presign, Recheck, Clean, Stop, store
<1>2. UNCHANGED <<upload, lapsed>> /\ call \in [Request -> Call]
  BY <1>1 DEF items, IInv, Types, TypeOK
<1>3. Stored'
  BY <1>1, KeptStored
<1>4. \A q \in Request \ {r} : call'[q] = call[q]
  BY <1>2 DEF ChooseSlot, CompleteLook, Presign, Recheck, Clean, Stop
<1>5. CASE \E u \in Upload : ChooseSlot(r, u)
  <2>1. PICK u \in Upload : ChooseSlot(r, u)
    BY <1>5
  <2>2. /\ upload[u].status = "unused"
        /\ \A q \in Request : call[q].upload # u
        /\ call'[r].pc = "reserving" /\ call'[r].upload = u
    BY <1>2, <2>1 DEF ChooseSlot
  <2>3. ReservesFresh'
    BY <1>2, <1>4, <2>2 DEF IInv, ReservesFresh
  <2>4. CopyKnown' /\ CleansCompleted'
    BY <1>1, <1>2, <1>4, <2>2 DEF IInv, CopyKnown, CleansCompleted
  <2> QED
    BY <1>3, <2>3, <2>4 DEF Known
<1>6. CASE \E u \in Upload : CompleteLook(r, u)
  <2>1. PICK u \in Upload : CompleteLook(r, u)
    BY <1>6
  <2>2. /\ upload[u].status = "pending"
        /\ call'[r].pc = "copying" /\ call'[r].upload = u
    BY <1>2, <2>1 DEF CompleteLook
  <2>3. ReservesFresh'
    BY <1>2, <1>4, <2>2 DEF IInv, ReservesFresh
  <2>4. CopyKnown' /\ CleansCompleted'
    BY <1>1, <1>2, <1>4, <2>2 DEF IInv, CopyKnown, CleansCompleted
  <2> QED
    BY <1>3, <2>3, <2>4 DEF Known
<1>7. CASE call' = [call EXCEPT ![r] = Idle("none")]
  <2>1. call'[r].pc = "idle" /\ call'[r].upload = NoUpload
    BY <1>2, <1>7 DEF Idle
  <2>2. ReservesFresh'
    BY <1>2, <1>4, <2>1, NoUploadAssumption DEF IInv, ReservesFresh, Types, CallHasUpload
  <2>3. CopyKnown' /\ CleansCompleted'
    BY <1>1, <1>2, <1>4, <2>1 DEF IInv, CopyKnown, CleansCompleted
  <2> QED
    BY <1>3, <2>2, <2>3 DEF Known
<1>8. CASE Recheck(r) /\ Completed(call[r].upload)
  <2>1. /\ call'[r].pc = "cleaning" /\ call'[r].upload = call[r].upload
        /\ upload[call[r].upload].status = "completed"
    BY <1>2, <1>8 DEF Recheck, Completed, Call
  <2>2. ReservesFresh'
    BY <1>2, <1>4, <2>1 DEF IInv, ReservesFresh
  <2>3. CopyKnown' /\ CleansCompleted'
    BY <1>1, <1>2, <1>4, <2>1 DEF IInv, CopyKnown, CleansCompleted
  <2> QED
    BY <1>3, <2>2, <2>3 DEF Known
<1>9. CASE Recheck(r) /\ ~Completed(call[r].upload)
  BY <1>7, <1>9 DEF Recheck
<1>10. CASE Presign(r) \/ Clean(r) \/ Stop(r)
  BY <1>7, <1>10 DEF Presign, Clean, Stop
<1> QED
  BY <1>5, <1>6, <1>8, <1>9, <1>10

LEMMA EnvironmentInvariant ==
  ASSUME IInv, Environment
  PROVE  Stored' /\ Known'
<1>1. UNCHANGED call /\ UNCHANGED copies
  BY DEF Environment, PostFile, PostCloses, Lapse, StagedExpires, RemoveUpload,
         RemoveDataset, RemoveSlot, store
<1>2. /\ slot \in [Slots -> SlotItem] /\ upload \in [Upload -> UploadItem]
      /\ dataset \in [Upload -> DatasetItem]
      /\ \A r \in Request : call[r].pc # "idle" => call[r].upload \in Upload
  BY DEF IInv, Types, TypeOK, CallHasUpload
<1>3. ASSUME NEW u \in Upload, PostFile(u) \/ PostCloses(u) \/ StagedExpires(u)
      PROVE  Stored' /\ Known'
  <2>1. UNCHANGED items
    BY <1>3 DEF PostFile, PostCloses, StagedExpires
  <2>2. UNCHANGED <<upload, lapsed>>
    BY <2>1 DEF items
  <2> QED
    BY <1>1, <2>1, <2>2, KeptStored
       DEF IInv, Known, ReservesFresh, CopyKnown, CleansCompleted
<1>4. ASSUME NEW u \in Upload, Lapse(u)
      PROVE  Stored' /\ Known'
  <2>1. /\ UNCHANGED <<slot, upload, dataset>> /\ lapsed' = lapsed \cup {u}
        /\ upload[u].status # "unused"
    BY <1>4 DEF Lapse
  <2>2. Stored'
    BY <1>1, <2>1 DEF IInv, Stored, OpenHoldsSlot, Open, UnusedHasNoDataset, UnusedNotLapsed,
                      CompletedTogether, PublishedWhole
  <2> QED
    BY <1>1, <2>1, <2>2 DEF IInv, Known, ReservesFresh, CopyKnown, CleansCompleted
<1>5. ASSUME NEW s \in Slots, RemoveSlot(s)
      PROVE  Stored' /\ Known'
  <2>1. /\ UNCHANGED <<upload, dataset, lapsed>>
        /\ slot[s].upload \in lapsed
        /\ \A t \in Slots \ {s} : slot'[t] = slot[t]
    BY <1>2, <1>5 DEF RemoveSlot
  <2>2. OpenHoldsSlot'
    <3> SUFFICES ASSUME NEW v \in Upload, Open(v)
                 PROVE  slot'[upload[v].slot] = [status |-> "pending", upload |-> v]
      BY <2>1 DEF OpenHoldsSlot, Open
    <3>1. slot[upload[v].slot] = [status |-> "pending", upload |-> v]
      BY DEF IInv, OpenHoldsSlot
    <3>2. upload[v].slot # s
      BY <2>1, <3>1 DEF Open
    <3>3. upload[v].slot \in Slots
      BY <1>2 DEF UploadItem
    <3> QED
      BY <2>1, <3>1, <3>2, <3>3
  <2>3. UnusedHasNoDataset' /\ UnusedNotLapsed' /\ CompletedTogether' /\ PublishedWhole'
    BY <1>1, <2>1 DEF IInv, UnusedHasNoDataset, UnusedNotLapsed, CompletedTogether, PublishedWhole
  <2> QED
    BY <1>1, <2>1, <2>2, <2>3
       DEF IInv, Stored, Known, ReservesFresh, CopyKnown, CleansCompleted
<1>6. ASSUME NEW u \in Upload, RemoveUpload(u)
      PROVE  Stored' /\ Known'
  <2>1. /\ UNCHANGED <<slot, dataset, lapsed>>
        /\ u \in lapsed
        /\ \A v \in Upload \ {u} : upload'[v] = upload[v]
        /\ upload'[u].status = "absent"
    BY <1>2, <1>6 DEF RemoveUpload, UploadItem
  <2>2. Stored'
    BY <1>1, <2>1 DEF IInv, Stored, OpenHoldsSlot, Open, UnusedHasNoDataset, UnusedNotLapsed,
                      CompletedTogether, PublishedWhole
  <2>3. ReservesFresh'
    <3> SUFFICES ASSUME NEW r \in Request, call[r].pc = "reserving"
                 PROVE  upload'[call[r].upload].status = "unused"
      BY <1>1 DEF IInv, ReservesFresh
    <3>1. call[r].upload \in Upload /\ upload[call[r].upload].status = "unused"
      BY <1>2 DEF IInv, ReservesFresh
    <3>2. call[r].upload # u
      BY <3>1, <2>1 DEF IInv, UnusedNotLapsed
    <3> QED
      BY <2>1, <3>1, <3>2
  <2>4. CleansCompleted'
    BY <1>1, <1>2, <2>1 DEF IInv, CleansCompleted
  <2>5. CopyKnown'
    BY <1>1 DEF IInv, CopyKnown
  <2> QED
    BY <2>2, <2>3, <2>4, <2>5 DEF Known
<1>7. ASSUME NEW u \in Upload, RemoveDataset(u)
      PROVE  Stored' /\ Known'
  <2>1. /\ UNCHANGED <<slot, upload, lapsed>>
        /\ \A v \in Upload \ {u} : dataset'[v] = dataset[v]
        /\ dataset'[u].status = "absent"
    BY <1>2, <1>7 DEF RemoveDataset
  <2>2. Stored'
    BY <1>1, <2>1 DEF IInv, Stored, OpenHoldsSlot, Open, UnusedHasNoDataset, UnusedNotLapsed,
                      CompletedTogether, PublishedWhole
  <2> QED
    BY <1>1, <2>1, <2>2 DEF IInv, Known, ReservesFresh, CopyKnown, CleansCompleted
<1> QED
  BY <1>3, <1>4, <1>5, <1>6, <1>7 DEF Environment

LEMMA KeptInvariant ==
  ASSUME IInv, UNCHANGED vars
  PROVE  Stored' /\ Known'
<1>1. UNCHANGED items /\ UNCHANGED copies
  BY DEF vars, items
<1>2. UNCHANGED <<upload, lapsed, call, copies>>
  BY DEF vars
<1> QED
  BY <1>1, <1>2, KeptStored
     DEF IInv, Known, ReservesFresh, CopyKnown, CleansCompleted

LEMMA NextInvariant ==
  ASSUME IInv, [Next]_vars
  PROVE  IInv'
<1>1. Types'
  BY NextTypes DEF IInv
<1>2. Stored' /\ Known'
  BY ReserveInvariant, CommitInvariant, CopyInvariant, QuietInvariant,
     EnvironmentInvariant, KeptInvariant DEF Next, Create, Complete
<1> QED
  BY <1>1, <1>2 DEF IInv, Stored, Known

LEMMA Invariant == Spec => []IInv
<1>1. IInv /\ [Next]_vars => IInv'
  BY NextInvariant
<1> QED
  BY InitInvariant, <1>1, PTL DEF Spec

-----------------------------------------------------------------------------
(* The theorems *)

\* An open upload session holds its slot, for any number of slots, sessions and
\* requests: whatever two requests read before, the transaction gives a slot that
\* is held to nobody else.
THEOREM SlotsHeld == Spec => []OpenHoldsSlot
<1>1. IInv => OpenHoldsSlot
  BY DEF IInv
<1> QED
  BY Invariant, <1>1, PTL

\* Open sessions are no more than slots: each holds one of its own.
LEMMA OpenAreFew ==
  ASSUME TypeOK, OpenHoldsSlot
  PROVE  LET open == {u \in Upload : Open(u)}
         IN IsFiniteSet(open) /\ Cardinality(open) <= NumSlots
<1> DEFINE open == {u \in Upload : Open(u)}
           held == [u \in open |-> upload[u].slot]
<1>1. held \in [open -> Slots]
  BY DEF TypeOK, UploadItem
<1>2. \A u, v \in open : held[u] = held[v] => u = v
  <2>1. \A u \in open : slot[held[u]].upload = u
    <3> TAKE u \in open
    <3>1. slot[upload[u].slot] = [status |-> "pending", upload |-> u]
      BY DEF OpenHoldsSlot
    <3> QED
      BY <3>1
  <2> HIDE DEF open, held
  <2> QED
    BY <2>1
<1>3. held \in Injection(open, Slots)
  BY <1>1, <1>2 DEF Injection, IsInjective
<1>4. IsFiniteSet(Slots) /\ Cardinality(Slots) = NumSlots
  BY SlotAssumption, FS_Interval DEF Slots
<1> HIDE DEF open, held
<1>5. IsFiniteSet(open) /\ Cardinality(open) <= Cardinality(Slots)
  BY <1>3, <1>4, FS_Injection
<1> QED
  BY <1>4, <1>5 DEF open

\* The files of open sessions are within the ceiling, for any number of uploads,
\* requests and slots and files of any sizes up to the limit: the quota that was
\* read before the transaction would not keep it, the slots do.
THEOREM StorageIsBounded == Spec => []StorageCeiling
<1>1. ASSUME IInv
      PROVE  StorageCeiling
  <2> DEFINE open == {u \in Upload : Open(u)}
  <2>1. IsFiniteSet(open) /\ Cardinality(open) <= NumSlots
    BY <1>1, OpenAreFew DEF IInv, Types
  <2>2. MapThenSumSet(LAMBDA u : Size[u], open) = Sum(Size, open)
    BY DEF MapThenSumSet, MapThenFoldSet, Sum, Sums, Folded, Rest
  <2>3. \A u \in open : Size[u] \in Int /\ Size[u] <= MaxUploadBytes
    BY PolicyAssumption
  <2>4. MaxUploadBytes \in Nat /\ NumSlots \in Nat /\ Cardinality(open) \in Nat
    BY <2>1, PolicyAssumption, SlotAssumption, FS_CardinalityType
  <2> HIDE DEF open
  <2>5. Sum(Size, open) <= MaxUploadBytes * Cardinality(open)
    BY <2>1, <2>3, <2>4, SumBounded
  <2>6. MaxUploadBytes * Cardinality(open) <= MaxUploadBytes * NumSlots
    BY <2>1, <2>4
  <2>7. Sum(Size, open) \in Int
    BY <2>1, <2>3, SumType
  <2>8. MaxUploadBytes * Cardinality(open) \in Int /\ MaxUploadBytes * NumSlots \in Int
    BY <2>4
  <2>9. MaxUploadBytes * NumSlots <= MaxTotalBytes /\ MaxTotalBytes \in Int
    BY PolicyAssumption
  <2>10. Sum(Size, open) <= MaxTotalBytes
    BY <2>5, <2>6, <2>7, <2>8, <2>9
  <2> QED
    BY <2>2, <2>10 DEF open, StorageCeiling
<1> QED
  BY Invariant, <1>1, PTL

\* A published dataset names a version that exists and has the declared size,
\* however many copies were made of the upload.
THEOREM PublishedIsWhole == Spec => []PublishedWhole
<1>1. IInv => PublishedWhole
  BY DEF IInv
<1> QED
  BY Invariant, <1>1, PTL

\* Upload and dataset are completed together.
THEOREM CompletedIsPublished == Spec => []CompletedTogether
<1>1. IInv => CompletedTogether
  BY DEF IInv
<1> QED
  BY Invariant, <1>1, PTL

\* The version of a published dataset never changes while the dataset exists.
THEOREM VersionIsFixed == Spec => VersionFixed
<1> DEFINE Fixed == \A u \in Upload :
      dataset[u].status = "uploaded" /\ dataset'[u].status # "absent" =>
        dataset'[u] = dataset[u]
<1>1. ASSUME IInv, [Next]_vars
      PROVE  [Fixed]_vars
  <2> SUFFICES ASSUME Next PROVE Fixed
    BY <1>1
  <2>1. dataset \in [Upload -> DatasetItem]
    BY <1>1 DEF IInv, Types, TypeOK
  <2>2. ASSUME NEW r \in Request, Reserve(r)
        PROVE  Fixed
    <3>1. call[r].upload \in Upload /\ dataset[call[r].upload].status = "absent"
      BY <1>1, <2>2, CallsType DEF IInv, Reserve, ReservesFresh, UnusedHasNoDataset
    <3>2. \A v \in Upload \ {call[r].upload} : dataset'[v] = dataset[v]
      BY <2>1, <2>2 DEF Reserve
    <3> QED
      BY <3>1, <3>2
  <2>3. ASSUME NEW r \in Request, Commit(r)
        PROVE  Fixed
    <3>1. CASE UNCHANGED dataset
      BY <3>1
    <3>2. CASE MayCommit(call[r].upload, call[r].slot)
      <4>1. dataset[call[r].upload].status # "uploaded"
        BY <1>1, <2>3, <3>2, CallsType DEF IInv, Commit, MayCommit, CompletedTogether
      <4>2. \A v \in Upload \ {call[r].upload} : dataset'[v] = dataset[v]
        BY <2>1, <2>3 DEF Commit, items
      <4> QED
        BY <4>1, <4>2
    <3> QED
      BY <2>3, <3>1, <3>2 DEF Commit, items
  <2>4. ASSUME NEW u \in Upload, RemoveDataset(u)
        PROVE  Fixed
    <3>1. dataset'[u].status = "absent"
      BY <2>1, <2>4 DEF RemoveDataset
    <3>2. \A v \in Upload \ {u} : dataset'[v] = dataset[v]
      BY <2>1, <2>4 DEF RemoveDataset
    <3> QED
      BY <3>1, <3>2
  <2>5. CASE UNCHANGED dataset
    BY <2>5
  <2>6. ASSUME NEW r \in Request, Create(r) \/ Complete(r) \/ Stop(r)
        PROVE  UNCHANGED dataset \/ Reserve(r) \/ Commit(r)
    BY <2>6 DEF Create, Complete, ChooseSlot, Presign, CompleteLook, Copy, CheckSize,
                Recheck, Clean, Stop, items
  <2>7. ASSUME Environment
        PROVE  UNCHANGED dataset \/ \E u \in Upload : RemoveDataset(u)
    BY <2>7 DEF Environment, PostFile, PostCloses, Lapse, StagedExpires,
                RemoveUpload, RemoveSlot, items
  <2> QED
    BY <2>2, <2>3, <2>4, <2>5, <2>6, <2>7 DEF Next
<1> QED
  BY Invariant, <1>1, PTL DEF Spec, VersionFixed

\* A request deletes a staged file only after the upload was completed.
THEOREM StagedIsKept == Spec => StagedUntilCompleted
<1> DEFINE Kept == \A u \in Upload :
      staged[u] # "none" /\ staged'[u] = "none" /\ u \notin lapsed =>
        upload[u].status = "completed"
<1>1. ASSUME IInv, [Next]_vars
      PROVE  [Kept]_vars
  <2> SUFFICES ASSUME Next PROVE Kept
    BY <1>1
  <2>1. staged \in [Upload -> {"none", "exact", "other"}]
    BY <1>1 DEF IInv, Types, TypeOK
  <2>2. ASSUME NEW r \in Request, Clean(r)
        PROVE  Kept
    <3>1. \A u \in Upload \ {call[r].upload} : staged'[u] = staged[u]
      BY <2>1, <2>2 DEF Clean
    <3>2. call[r].upload \notin lapsed => upload[call[r].upload].status = "completed"
      BY <1>1, <2>2 DEF Clean, IInv, CleansCompleted
    <3> QED
      BY <3>1, <3>2
  <2>3. ASSUME NEW u \in Upload, PostFile(u) \/ StagedExpires(u)
        PROVE  Kept
    BY <2>1, <2>3 DEF PostFile, StagedExpires
  <2>4. CASE UNCHANGED staged
    BY <2>4
  <2>5. ASSUME NEW r \in Request, Create(r) \/ Complete(r) \/ Stop(r)
        PROVE  UNCHANGED staged \/ Clean(r)
    BY <2>5 DEF Create, Complete, ChooseSlot, Reserve, Presign, CompleteLook, Copy,
                CheckSize, Commit, Recheck, Stop, store
  <2>6. ASSUME Environment
        PROVE  UNCHANGED staged \/ \E u \in Upload : PostFile(u) \/ StagedExpires(u)
    BY <2>6 DEF Environment, PostCloses, Lapse, RemoveUpload, RemoveDataset,
                RemoveSlot, store
  <2> QED
    BY <2>2, <2>3, <2>4, <2>5, <2>6 DEF Next
<1> QED
  BY Invariant, <1>1, PTL DEF Spec, StagedUntilCompleted
=============================================================================
