------------------------ MODULE ValidationJobsProofs ------------------------
(***************************************************************************)
(* Proofs about ValidationJobs for any number of jobs and requests, any    *)
(* number of stops and of leases that run out: the slot and the status end *)
(* together, a verdict rests on a result, and a token submits once.        *)
(***************************************************************************)
EXTENDS ValidationJobs, TLAPS

\* A request about to write a status of Batch writes an active one; one about to
\* end a job writes a terminal one.
CallWrites ==
  \A r \in Request :
    /\ call[r].pc = "mark" => call[r].status \in Active
    /\ call[r].pc = "terminalize" => call[r].status \in Terminal

\* A verdict that is about to be written was read from the result.
CallVerdict ==
  \A r \in Request :
    call[r].pc = "terminalize" /\ call[r].status \in {"succeeded", "invalid"} =>
      call[r].version /\ result[call[r].job] = call[r].status

\* Only a recorded job is submitted.
RecordedFirst ==
  /\ \A j \in Job : batch[j] # "none" => record[j].status # "none"
  /\ \A r \in Request : call[r].pc = "submit" => record[call[r].job].status # "none"

IInv ==
  /\ TypeOK
  /\ CallWrites
  /\ CallVerdict
  /\ RecordedFirst
  /\ ActiveSlotHasLiveJob
  /\ VerdictHasResult
  /\ SubmittedOnce

-----------------------------------------------------------------------------
(* Types *)

Status == {"none", "submitting"} \cup Active \cup Terminal

CallsOK ==
  /\ call \in [Request -> Call]
  /\ \A r \in Request : call[r].pc # "idle" => call[r].job \in Job

LEMMA CallsType ==
  ASSUME TypeOK
  PROVE  CallsOK
BY DEF TypeOK, CallsOK

LEMMA CallStep ==
  ASSUME CallsOK, NEW r \in Request, NEW c \in Call, call' = [call EXCEPT ![r] = c],
         c.pc # "idle" => c.job \in Job
  PROVE  CallsOK'
BY DEF CallsOK

LEMMA ReturnStep ==
  ASSUME CallsOK, NEW r \in Request, Return(r)
  PROVE  /\ CallsOK'
         /\ \A q \in Request \ {r} : call'[q] = call[q]
         /\ call'[r].pc = "idle"
<1>1. Idle \in Call /\ Idle.pc = "idle"
  BY DEF Idle, Call, Points
<1>2. call' = [call EXCEPT ![r] = Idle]
  BY DEF Return
<1> QED
  BY <1>1, <1>2, CallStep DEF CallsOK

LEMMA GotoStep ==
  ASSUME CallsOK, NEW r \in Request, NEW p \in Points, Goto(r, p),
         call[r].pc # "idle"
  PROVE  /\ CallsOK'
         /\ \A q \in Request \ {r} : call'[q] = call[q]
         /\ call'[r].pc = p /\ call'[r].job = call[r].job
<1> DEFINE c == [call[r] EXCEPT !.pc = p]
<1>1. call[r] \in Call
  BY DEF CallsOK
<1>2. c \in Call /\ c.pc = p /\ c.job = call[r].job
  BY <1>1 DEF Call
<1>3. call' = [call EXCEPT ![r] = c]
  BY DEF Goto
<1> HIDE DEF c
<1> QED
  BY <1>2, <1>3, CallStep DEF CallsOK

LEMMA VerdictStep ==
  ASSUME CallsOK, NEW r \in Request, NEW x \in Terminal, NEW v \in BOOLEAN,
         Verdict(r, x, v), call[r].pc # "idle"
  PROVE  /\ CallsOK'
         /\ \A q \in Request \ {r} : call'[q] = call[q]
         /\ call'[r].pc = "terminalize" /\ call'[r].job = call[r].job
         /\ call'[r].status = x /\ call'[r].version = v
<1> DEFINE c == [call[r] EXCEPT !.pc = "terminalize", !.status = x, !.version = v]
<1>1. call[r] \in Call
  BY DEF CallsOK
<1>2. /\ c \in Call
      /\ c.pc = "terminalize" /\ c.job = call[r].job
      /\ c.status = x /\ c.version = v
  BY <1>1 DEF Call, Points
<1>3. call' = [call EXCEPT ![r] = c]
  BY DEF Verdict
<1> HIDE DEF c
<1> QED
  BY <1>2, <1>3, CallStep DEF CallsOK

LEMMA InitInvariant == Init => IInv
<1> SUFFICES ASSUME Init PROVE IInv
  OBVIOUS
<1>1. \A r \in Request : call[r] = Idle
  BY DEF Init
<1>2. Idle \in Call /\ Idle.pc = "idle"
  BY DEF Idle, Call, Points
<1>3. TypeOK
  <2>1. record \in [Job -> Record]
    BY DEF Init, Record
  <2>2. slot \in Slot
    BY DEF Init, Slot
  <2>3. batch \in [Job -> BatchStates] /\ result \in [Job -> Results] /\ old \subseteq Job
    BY DEF Init, BatchStates, Results
  <2>4. call \in [Request -> Call] /\ \A r \in Request : call[r].pc = "idle"
    BY <1>1, <1>2 DEF Init
  <2>5. faults \in [stops : 0 .. MaxStops, lapses : 0 .. MaxLapses]
    BY BoundAssumption DEF Init
  <2> QED
    BY <2>1, <2>2, <2>3, <2>4, <2>5 DEF TypeOK
<1>4. CallWrites /\ CallVerdict /\ SubmittedOnce
  BY <1>1, <1>2 DEF CallWrites, CallVerdict, SubmittedOnce
<1>5. RecordedFirst /\ ActiveSlotHasLiveJob /\ VerdictHasResult
  BY <1>1, <1>2 DEF Init, RecordedFirst, ActiveSlotHasLiveJob, VerdictHasResult
<1> QED
  BY <1>3, <1>4, <1>5 DEF IInv

-----------------------------------------------------------------------------
(* Creating a job *)

LEMMA ReserveInvariant ==
  ASSUME IInv, NEW r \in Request, Reserve(r)
  PROVE  IInv'
<1> DEFINE j == call[r].job
<1>1. CallsOK /\ call[r].pc = "reserve" /\ j \in Job
  BY CallsType DEF IInv, Reserve, CallsOK
<1>2. /\ record \in [Job -> Record] /\ slot \in Slot
      /\ UNCHANGED <<old, batch, result, faults>>
  BY DEF IInv, TypeOK, Reserve, cloud
<1>3. CASE Return(r) /\ UNCHANGED <<slot, record>>
  <2>1. /\ CallsOK' /\ \A q \in Request \ {r} : call'[q] = call[q]
        /\ call'[r].pc = "idle"
    BY <1>1, <1>3, ReturnStep
  <2>2. TypeOK'
    BY <1>2, <1>3, <2>1 DEF IInv, TypeOK, CallsOK
  <2> QED
    BY <1>2, <1>3, <2>1, <2>2
       DEF IInv, CallWrites, CallVerdict, RecordedFirst, ActiveSlotHasLiveJob,
           VerdictHasResult, SubmittedOnce
<1>4. CASE /\ MayReserve(j)
           /\ slot' = [status |-> "active", job |-> j, lapsed |-> FALSE]
           /\ record' = [record EXCEPT ![j] =
                [status |-> "submitting", batch |-> FALSE, version |-> FALSE]]
           /\ Goto(r, "submit")
  <2>1. /\ CallsOK' /\ \A q \in Request \ {r} : call'[q] = call[q]
        /\ call'[r].pc = "submit" /\ call'[r].job = j
    BY <1>1, <1>4, GotoStep DEF Points
  <2>2. /\ \A k \in Job \ {j} : record'[k] = record[k]
        /\ record'[j].status = "submitting"
    BY <1>1, <1>2, <1>4
  <2>3. record[j].status = "none"
    BY <1>4 DEF MayReserve
  <2>4. batch[j] = "none" /\ \A q \in Request : call[q].pc = "submit" => call[q].job # j
    BY <1>1, <2>3 DEF IInv, RecordedFirst
  <2>5. TypeOK'
    <3>1. [status |-> "submitting", batch |-> FALSE, version |-> FALSE] \in Record
      BY DEF Record
    <3>2. record' \in [Job -> Record]
      BY <1>2, <1>4, <3>1
    <3>3. slot' \in Slot
      BY <1>1, <1>4 DEF Slot
    <3> QED
      BY <1>2, <2>1, <3>2, <3>3 DEF IInv, TypeOK, CallsOK
  <2>6. CallWrites' /\ CallVerdict'
    BY <1>2, <2>1 DEF IInv, CallWrites, CallVerdict
  <2>7. RecordedFirst'
    BY <1>1, <1>2, <2>1, <2>2 DEF IInv, RecordedFirst, CallsOK
  <2>8. ActiveSlotHasLiveJob'
    BY <1>1, <1>4, <2>2 DEF ActiveSlotHasLiveJob, Terminal
  <2>9. VerdictHasResult'
    BY <1>2, <2>2 DEF IInv, VerdictHasResult
  <2>10. SubmittedOnce'
    BY <1>2, <2>1, <2>4 DEF IInv, SubmittedOnce
  <2> QED
    BY <2>5, <2>6, <2>7, <2>8, <2>9, <2>10 DEF IInv
<1> QED
  BY <1>3, <1>4 DEF Reserve

LEMMA SubmitInvariant ==
  ASSUME IInv, NEW r \in Request, Submit(r) \/ Terminate(r)
  PROVE  IInv'
<1> DEFINE j == call[r].job
<1>1. CallsOK /\ call[r].pc \in {"submit", "terminate"} /\ j \in Job
  BY CallsType DEF IInv, Submit, Terminate, CallsOK
<1>2. batch \in [Job -> BatchStates] /\ UNCHANGED <<record, slot, old, result, faults>>
  BY DEF IInv, TypeOK, Submit, Terminate, table
<1>3. \E p \in {"publish", "release"} : Goto(r, p)
  BY DEF Submit, Terminate
<1>4. /\ CallsOK' /\ \A q \in Request \ {r} : call'[q] = call[q]
      /\ call'[r].pc \in {"publish", "release"} /\ call'[r].job = j
  BY <1>1, <1>3, GotoStep DEF Points
<1>5. /\ batch' \in [Job -> BatchStates]
      /\ \A k \in Job \ {j} : batch'[k] = batch[k]
      /\ UNCHANGED batch \/ batch'[j] # "none"
  <2>1. \/ UNCHANGED batch
        \/ \E b \in {"unseen", "ended"} : batch' = [batch EXCEPT ![j] = b]
    BY DEF Submit, Terminate
  <2>2. {"unseen", "ended"} \subseteq BatchStates \ {"none"}
    BY DEF BatchStates
  <2> QED
    BY <1>1, <1>2, <2>1, <2>2
<1>6. UNCHANGED batch \/ record[j].status # "none"
  BY <1>1, <1>2 DEF IInv, RecordedFirst, Submit, Terminate
<1>7. TypeOK'
  BY <1>2, <1>4, <1>5 DEF IInv, TypeOK, CallsOK
<1>8. CallWrites' /\ CallVerdict'
  BY <1>2, <1>4 DEF IInv, CallWrites, CallVerdict
<1>9. RecordedFirst'
  BY <1>2, <1>4, <1>5, <1>6 DEF IInv, RecordedFirst
<1>10. ActiveSlotHasLiveJob' /\ VerdictHasResult'
  BY <1>2 DEF IInv, ActiveSlotHasLiveJob, VerdictHasResult
<1>11. SubmittedOnce'
  <2> SUFFICES ASSUME NEW q \in Request, call'[q].pc = "submit"
               PROVE  /\ batch'[call'[q].job] = "none"
                      /\ \A p \in Request \ {q} :
                           call'[p].pc = "submit" => call'[p].job # call'[q].job
    BY DEF SubmittedOnce
  <2>1. q # r /\ call'[q] = call[q] /\ call[q].job \in Job
    BY <1>1, <1>4 DEF CallsOK
  <2>2. batch[call[q].job] = "none"
    BY <2>1 DEF IInv, SubmittedOnce
  <2>3. batch'[call[q].job] = batch[call[q].job]
    <3>1. CASE Submit(r)
      <4>1. call[q].job # j
        BY <2>1, <3>1 DEF IInv, SubmittedOnce, Submit
      <4> QED
        BY <1>5, <2>1, <4>1
    <3>2. CASE Terminate(r) /\ call[q].job = j
      BY <1>1, <2>2, <3>2 DEF Terminate
    <3>3. CASE Terminate(r) /\ call[q].job # j
      BY <1>5, <2>1, <3>3
    <3> QED
      BY <3>1, <3>2, <3>3
  <2> QED
    BY <1>4, <2>1, <2>2, <2>3 DEF IInv, SubmittedOnce
<1> QED
  BY <1>7, <1>8, <1>9, <1>10, <1>11 DEF IInv

-----------------------------------------------------------------------------
(* Steps that write the status of one job, of a request that then returns *)

\* A job is moved to an active status by the request that submitted it or that saw
\* it run, or ended together with its slot.
LEMMA StatusInvariant ==
  ASSUME IInv, NEW r \in Request, CallsOK',
         \A q \in Request \ {r} : call'[q] = call[q],
         call'[r].pc = "idle",
         UNCHANGED <<batch, result, faults>>,
         old' \subseteq Job,
         NEW j \in Job,
         record' \in [Job -> Record],
         \A k \in Job \ {j} : record'[k] = record[k],
         \/ record'[j].status \in Active /\ UNCHANGED slot
         \/ /\ record'[j].status \in Terminal
            /\ slot' = Released /\ slot.status # "absent" /\ slot.job = j
            /\ record'[j].status \in {"succeeded", "invalid"} =>
                 record'[j].version /\ result[j] = record'[j].status
  PROVE  IInv'
<1>1. slot \in Slot /\ slot' \in Slot
  BY DEF IInv, TypeOK, Slot, Released
<1>2. record'[j].status # "none"
  BY DEF Active, Terminal
<1>3. TypeOK'
  BY <1>1 DEF IInv, TypeOK, CallsOK
<1>4. CallWrites' /\ CallVerdict' /\ SubmittedOnce'
  BY DEF IInv, CallWrites, CallVerdict, SubmittedOnce
<1>5. RecordedFirst'
  <2>1. \A k \in Job : batch'[k] # "none" => record'[k].status # "none"
    BY <1>2 DEF IInv, RecordedFirst
  <2>2. ASSUME NEW q \in Request, call'[q].pc = "submit"
        PROVE  record'[call'[q].job].status # "none"
    BY <1>2, <2>2, CallsType DEF IInv, RecordedFirst, CallsOK
  <2> QED
    BY <2>1, <2>2 DEF RecordedFirst
<1>6. ActiveSlotHasLiveJob'
  <2>1. CASE UNCHANGED slot /\ record'[j].status \in Active
    BY <2>1 DEF IInv, ActiveSlotHasLiveJob, Active, Terminal
  <2>2. CASE slot' = Released
    BY <1>1, <2>2 DEF ActiveSlotHasLiveJob, Released, Slot
  <2> QED
    BY <2>1, <2>2
<1>7. VerdictHasResult'
  BY DEF IInv, VerdictHasResult, Active
<1> QED
  BY <1>3, <1>4, <1>5, <1>6, <1>7 DEF IInv

LEMMA EndRecord ==
  ASSUME TypeOK, NEW j \in Job, NEW x \in Terminal, NEW v \in BOOLEAN, End(j, x, v)
  PROVE  /\ record' \in [Job -> Record]
         /\ \A k \in Job \ {j} : record'[k] = record[k]
         /\ record'[j].status = x
         /\ v => record'[j].version
         /\ slot' = Released
         /\ old' \subseteq Job
<1>1. record \in [Job -> Record]
  BY DEF TypeOK
<1> DEFINE y == [record[j] EXCEPT !.status = x, !.version = record[j].version \/ v]
<1>2. (record[j].version \/ v) \in BOOLEAN
  OBVIOUS
<1>3. y \in Record /\ y.status = x /\ (v => y.version)
  BY <1>1, <1>2 DEF Record
<1>4. record' = [record EXCEPT ![j] = y]
  BY DEF End
<1>5. slot' = Released /\ old' \subseteq Job
  BY DEF End, TypeOK
<1> HIDE DEF y
<1> QED
  BY <1>1, <1>3, <1>4, <1>5

LEMMA EndInvariant ==
  ASSUME IInv, NEW r \in Request, ReleaseFailed(r) \/ Terminalize(r)
  PROVE  IInv'
<1> DEFINE j == call[r].job
<1>1. CallsOK /\ call[r].pc \in {"release", "terminalize"} /\ j \in Job
  BY CallsType DEF IInv, ReleaseFailed, Terminalize, CallsOK
<1>2. /\ CallsOK' /\ \A q \in Request \ {r} : call'[q] = call[q]
      /\ call'[r].pc = "idle"
  BY <1>1, ReturnStep DEF ReleaseFailed, Terminalize
<1>3. UNCHANGED <<batch, result, faults>>
  BY DEF ReleaseFailed, Terminalize, cloud
<1>4. CASE UNCHANGED table
  <2>1. UNCHANGED <<record, slot, old>>
    BY <1>4 DEF table
  <2>2. TypeOK'
    BY <1>2, <1>3, <2>1 DEF IInv, TypeOK, CallsOK
  <2> QED
    BY <1>2, <1>3, <2>1, <2>2
       DEF IInv, CallWrites, CallVerdict, RecordedFirst, ActiveSlotHasLiveJob,
           VerdictHasResult, SubmittedOnce
<1>5. CASE HoldsSlot(j) /\ End(j, "failed", FALSE)
  <2>1. slot.status # "absent" /\ slot.job = j
    BY <1>5 DEF HoldsSlot
  <2>2. "failed" \in Terminal
    BY DEF Terminal
  <2> QED
    BY <1>1, <1>2, <1>3, <1>5, <2>1, <2>2, EndRecord, StatusInvariant DEF IInv
<1>6. CASE HoldsSlot(j) /\ call[r].pc = "terminalize" /\ End(j, call[r].status, call[r].version)
  <2>1. slot.status # "absent" /\ slot.job = j
    BY <1>6 DEF HoldsSlot
  <2>2. call[r].status \in Terminal /\ call[r].version \in BOOLEAN
    BY <1>1, <1>6 DEF IInv, CallWrites, CallsOK, Call
  <2>3. call[r].status \in {"succeeded", "invalid"} =>
          call[r].version /\ result[j] = call[r].status
    BY <1>6 DEF IInv, CallVerdict
  <2> QED
    BY <1>1, <1>2, <1>3, <1>6, <2>1, <2>2, <2>3, EndRecord, StatusInvariant DEF IInv
<1> QED
  BY <1>4, <1>5, <1>6 DEF ReleaseFailed, Terminalize

LEMMA MarkInvariant ==
  ASSUME IInv, NEW r \in Request, Mark(r)
  PROVE  IInv'
<1> DEFINE j == call[r].job
<1>1. CallsOK /\ call[r].pc = "mark" /\ j \in Job
  BY CallsType DEF IInv, Mark, CallsOK
<1>2. /\ CallsOK' /\ \A q \in Request \ {r} : call'[q] = call[q]
      /\ call'[r].pc = "idle"
  BY <1>1, ReturnStep DEF Mark
<1>3. call[r].status \in Active /\ record \in [Job -> Record] /\ old \subseteq Job
  BY <1>1 DEF IInv, CallWrites, TypeOK
<1>4. /\ record' \in [Job -> Record]
      /\ \A k \in Job \ {j} : record'[k] = record[k]
      /\ record'[j].status = call[r].status
  BY <1>1, <1>3 DEF Mark, Record
<1>5. old' \subseteq Job /\ UNCHANGED <<slot, batch, result, faults>>
  BY <1>3 DEF Mark, cloud
<1> QED
  BY <1>1, <1>2, <1>3, <1>4, <1>5, StatusInvariant

LEMMA PublishInvariant ==
  ASSUME IInv, NEW r \in Request, PublishBatchId(r)
  PROVE  IInv'
<1> DEFINE j == call[r].job
<1>1. CallsOK /\ call[r].pc = "publish" /\ j \in Job
  BY CallsType DEF IInv, PublishBatchId, CallsOK
<1>2. UNCHANGED <<slot, batch, result, faults>>
  BY DEF PublishBatchId, cloud
<1>3. CASE /\ record' = [record EXCEPT ![j].status = "submitted", ![j].batch = TRUE]
           /\ old' = old \ {j}
           /\ Return(r)
  <2>1. record \in [Job -> Record] /\ old' \subseteq Job
    BY <1>3 DEF IInv, TypeOK
  <2> DEFINE y == [record[j] EXCEPT !.status = "submitted", !.batch = TRUE]
  <2>2. y \in Record /\ y.status = "submitted"
    BY <1>1, <2>1 DEF Record, Active
  <2>3. record' = [record EXCEPT ![j] = y]
    BY <1>3
  <2> HIDE DEF y
  <2>4. /\ record' \in [Job -> Record]
        /\ \A k \in Job \ {j} : record'[k] = record[k]
        /\ record'[j].status \in Active
    BY <1>1, <2>1, <2>2, <2>3 DEF Active
  <2>5. /\ CallsOK' /\ \A q \in Request \ {r} : call'[q] = call[q]
        /\ call'[r].pc = "idle"
    BY <1>1, <1>3, ReturnStep
  <2> QED
    BY <1>1, <1>2, <2>1, <2>4, <2>5, StatusInvariant
<1>4. CASE Goto(r, "terminate") /\ UNCHANGED <<record, old>>
  <2>1. /\ CallsOK' /\ \A q \in Request \ {r} : call'[q] = call[q]
        /\ call'[r].pc = "terminate"
    BY <1>1, <1>4, GotoStep DEF Points
  <2>2. TypeOK'
    BY <1>2, <1>4, <2>1 DEF IInv, TypeOK, CallsOK
  <2> QED
    BY <1>2, <1>4, <2>1, <2>2
       DEF IInv, CallWrites, CallVerdict, RecordedFirst, ActiveSlotHasLiveJob,
           VerdictHasResult, SubmittedOnce
<1> QED
  BY <1>3, <1>4 DEF PublishBatchId

-----------------------------------------------------------------------------
(* The other steps *)

\* A request that only looks learns what it may write.
LEMMA LookInvariant ==
  ASSUME IInv, NEW r \in Request, CallsOK',
         UNCHANGED <<record, slot, old, batch, result>>,
         faults' \in [stops : 0 .. MaxStops, lapses : 0 .. MaxLapses],
         \A q \in Request \ {r} : call'[q] = call[q],
         call'[r].pc # "submit",
         call'[r].pc = "mark" => call'[r].status \in Active,
         call'[r].pc = "terminalize" =>
           /\ call'[r].status \in Terminal
           /\ call'[r].status \in {"succeeded", "invalid"} =>
                call'[r].version /\ result[call'[r].job] = call'[r].status
  PROVE  IInv'
<1>1. TypeOK'
  BY DEF IInv, TypeOK, CallsOK
<1>2. CallWrites' /\ CallVerdict'
  BY DEF IInv, CallWrites, CallVerdict
<1>3. RecordedFirst' /\ SubmittedOnce'
  BY DEF IInv, RecordedFirst, SubmittedOnce
<1>4. ActiveSlotHasLiveJob' /\ VerdictHasResult'
  BY DEF IInv, ActiveSlotHasLiveJob, VerdictHasResult
<1> QED
  BY <1>1, <1>2, <1>3, <1>4 DEF IInv

LEMMA PollInvariant ==
  ASSUME IInv, NEW r \in Request,
         NEW j \in Job, CreateLook(r, j) \/ PollLook(r, j)
  PROVE  IInv'
<1>1. CallsOK /\ UNCHANGED <<record, slot, old, batch, result, faults>>
  BY CallsType DEF IInv, CreateLook, PollLook, table, cloud
<1>2. record[j].status \in Status
  BY DEF IInv, TypeOK, Record, Status
<1>3. faults' \in [stops : 0 .. MaxStops, lapses : 0 .. MaxLapses]
  BY <1>1 DEF IInv, TypeOK
<1>4. ASSUME NEW c \in Call, call' = [call EXCEPT ![r] = c], c.job = j,
             c.pc \in {"reserve", "describe"} \/ (c.pc = "terminalize" /\ c.status = "failed")
      PROVE  IInv'
  <2>1. CallsOK' /\ call'[r] = c /\ \A q \in Request \ {r} : call'[q] = call[q]
    BY <1>1, <1>4, CallStep DEF CallsOK
  <2> QED
    BY <1>1, <1>3, <1>4, <2>1, LookInvariant DEF Terminal
<1>5. CASE CreateLook(r, j)
  <2> DEFINE c == [Idle EXCEPT !.pc = "reserve", !.job = j]
  <2>1. c \in Call /\ c.job = j /\ c.pc = "reserve"
    BY DEF Idle, Call, Points
  <2>2. call' = [call EXCEPT ![r] = c]
    BY <1>5 DEF CreateLook
  <2> HIDE DEF c
  <2> QED
    BY <1>4, <2>1, <2>2
<1>6. CASE PollLook(r, j)
  <2> DEFINE c == [pc |-> "describe", job |-> j, status |-> record[j].status,
                   old |-> j \in old, version |-> FALSE]
             d == [pc |-> "terminalize", job |-> j, status |-> "failed",
                   old |-> FALSE, version |-> FALSE]
  <2>1. c \in Call /\ c.job = j /\ c.pc = "describe"
    BY <1>2 DEF Call, Points, Status
  <2>2. d \in Call /\ d.job = j /\ d.pc = "terminalize" /\ d.status = "failed"
    BY DEF Call, Points, Terminal
  <2>3. call' = [call EXCEPT ![r] = c] \/ call' = [call EXCEPT ![r] = d]
    BY <1>6 DEF PollLook
  <2> HIDE DEF c, d
  <2> QED
    BY <1>4, <2>1, <2>2, <2>3
<1> QED
  BY <1>5, <1>6

LEMMA ReadInvariant ==
  ASSUME IInv, NEW r \in Request, Describe(r) \/ ReadResult(r)
  PROVE  IInv'
<1> DEFINE j == call[r].job
<1>1. /\ CallsOK /\ call[r].pc \in {"describe", "read"} /\ j \in Job
      /\ UNCHANGED <<record, slot, old, batch, result, faults>>
  BY CallsType DEF IInv, Describe, ReadResult, CallsOK, table, cloud
<1>2. faults' \in [stops : 0 .. MaxStops, lapses : 0 .. MaxLapses]
  BY <1>1 DEF IInv, TypeOK
<1>3. CASE Return(r)
  BY <1>1, <1>2, <1>3, ReturnStep, LookInvariant
<1>4. CASE Goto(r, "read")
  BY <1>1, <1>2, <1>4, GotoStep, LookInvariant DEF Points
<1>5. CASE call' = [call EXCEPT ![r].pc = "mark", ![r].status = Public(j)]
  <2> DEFINE c == [call[r] EXCEPT !.pc = "mark", !.status = Public(j)]
  <2>1. Public(j) \in Active
    BY DEF Public, Active
  <2>2. c \in Call /\ c.pc = "mark" /\ c.job = j /\ c.status \in Active
    BY <1>1, <2>1 DEF CallsOK, Call, Points
  <2>3. call' = [call EXCEPT ![r] = c]
    BY <1>5
  <2> HIDE DEF c
  <2>4. CallsOK' /\ call'[r] = c /\ \A q \in Request \ {r} : call'[q] = call[q]
    BY <1>1, <2>2, <2>3, CallStep DEF CallsOK
  <2> QED
    BY <1>1, <1>2, <2>2, <2>4, LookInvariant
<1>6. CASE Verdict(r, "failed", FALSE)
  BY <1>1, <1>2, <1>6, VerdictStep, LookInvariant DEF Terminal
<1>7. CASE ReadResult(r)
  <2>1. result[j] \in Results
    BY <1>1 DEF IInv, TypeOK
  <2>2. Outcome(j) \in Terminal /\ (result[j] # "none") \in BOOLEAN
    BY <2>1 DEF Outcome, Results, Terminal
  <2>3. Outcome(j) \in {"succeeded", "invalid"} => result[j] # "none" /\ result[j] = Outcome(j)
    BY DEF Outcome
  <2>4. Verdict(r, Outcome(j), result[j] # "none")
    BY <1>7 DEF ReadResult
  <2>5. /\ CallsOK'
        /\ \A q \in Request \ {r} : call'[q] = call[q]
        /\ call'[r].pc = "terminalize" /\ call'[r].job = j
        /\ call'[r].status = Outcome(j) /\ call'[r].version = (result[j] # "none")
    BY <1>1, <2>2, <2>4, VerdictStep
  <2> QED
    BY <1>1, <1>2, <2>2, <2>3, <2>5, LookInvariant
<1> QED
  BY <1>3, <1>4, <1>5, <1>6, <1>7 DEF Describe

LEMMA StopInvariant ==
  ASSUME IInv, NEW r \in Request, Stop(r)
  PROVE  IInv'
<1>1. CallsOK /\ UNCHANGED <<record, slot, old, batch, result>>
  BY CallsType DEF IInv, Stop, table, cloud
<1>2. faults' \in [stops : 0 .. MaxStops, lapses : 0 .. MaxLapses]
  BY BoundAssumption DEF IInv, TypeOK, Stop
<1> QED
  BY <1>1, <1>2, ReturnStep, LookInvariant DEF Stop

LEMMA BatchInvariant ==
  ASSUME IInv, NEW j \in Job, Batch(j) \/ BatchForgets(j)
  PROVE  IInv'
<1>1. UNCHANGED <<record, slot, old, call, faults>>
  BY DEF Batch, BatchForgets, BatchShows, BatchStarts, WorkerWrites, BatchEnds, table
<1>2. CASE WorkerWrites(j)
  <2>1. PICK x \in Terminal : result' = [result EXCEPT ![j] = x]
    BY <1>2 DEF WorkerWrites
  <2>2. result \in [Job -> Results] /\ result[j] = "none" /\ UNCHANGED batch
    BY <1>2 DEF IInv, TypeOK, WorkerWrites
  <2>3. /\ result' \in [Job -> Results]
        /\ \A k \in Job : result[k] # "none" => result'[k] = result[k]
    BY <2>1, <2>2 DEF Results
  <2>4. TypeOK'
    BY <1>1, <2>2, <2>3 DEF IInv, TypeOK
  <2>5. CallVerdict' /\ VerdictHasResult'
    BY <1>1, <2>3, CallsType DEF IInv, CallVerdict, VerdictHasResult, CallsOK
  <2> QED
    BY <1>1, <2>2, <2>4, <2>5
       DEF IInv, CallWrites, RecordedFirst, ActiveSlotHasLiveJob, SubmittedOnce
<1>3. CASE BatchShows(j) \/ BatchStarts(j) \/ BatchEnds(j) \/ BatchForgets(j)
  <2>1. /\ UNCHANGED result /\ batch \in [Job -> BatchStates]
        /\ batch[j] # "none"
        /\ \E b \in BatchStates \ {"none"} : batch' = [batch EXCEPT ![j] = b]
    BY <1>3 DEF IInv, TypeOK, BatchShows, BatchStarts, BatchEnds, BatchForgets, BatchStates
  <2>2. /\ batch' \in [Job -> BatchStates]
        /\ \A k \in Job : batch'[k] = "none" <=> batch[k] = "none"
    BY <2>1
  <2>3. TypeOK'
    BY <1>1, <2>1, <2>2 DEF IInv, TypeOK
  <2>4. RecordedFirst' /\ SubmittedOnce'
    BY <1>1, <2>2, CallsType DEF IInv, RecordedFirst, SubmittedOnce, CallsOK
  <2> QED
    BY <1>1, <2>1, <2>3, <2>4
       DEF IInv, CallWrites, CallVerdict, ActiveSlotHasLiveJob, VerdictHasResult
<1> QED
  BY <1>2, <1>3 DEF Batch

LEMMA TimeInvariant ==
  ASSUME IInv, SlotLapses \/ SlotRemoved \/ \E j \in Job : Age(j)
  PROVE  IInv'
<1>1. UNCHANGED <<record, batch, result, call>>
  BY DEF SlotLapses, SlotRemoved, Age, cloud
<1>2. slot' \in Slot /\ old' \subseteq Job
  <2>1. slot \in Slot /\ old \subseteq Job
    BY DEF IInv, TypeOK
  <2>2. [slot EXCEPT !.lapsed = TRUE] \in Slot
    BY <2>1 DEF Slot
  <2>3. [status |-> "absent", job |-> NoJob, lapsed |-> FALSE] \in Slot
    BY DEF Slot
  <2> QED
    BY <2>1, <2>2, <2>3 DEF SlotLapses, SlotRemoved, Age
<1>3. faults' \in [stops : 0 .. MaxStops, lapses : 0 .. MaxLapses]
  BY BoundAssumption DEF IInv, TypeOK, SlotLapses, SlotRemoved, Age
<1>4. TypeOK'
  BY <1>1, <1>2, <1>3 DEF IInv, TypeOK
<1>5. ActiveSlotHasLiveJob'
  BY <1>1 DEF IInv, TypeOK, Slot, ActiveSlotHasLiveJob, SlotLapses, SlotRemoved, Age
<1> QED
  BY <1>1, <1>4, <1>5
     DEF IInv, CallWrites, CallVerdict, RecordedFirst, VerdictHasResult, SubmittedOnce

LEMMA KeptInvariant ==
  ASSUME IInv, UNCHANGED vars
  PROVE  IInv'
BY DEF vars, IInv, TypeOK, CallWrites, CallVerdict, RecordedFirst,
       ActiveSlotHasLiveJob, VerdictHasResult, SubmittedOnce

LEMMA NextInvariant ==
  ASSUME IInv, [Next]_vars
  PROVE  IInv'
BY ReserveInvariant, SubmitInvariant, PublishInvariant, EndInvariant, MarkInvariant,
   PollInvariant, ReadInvariant, StopInvariant, BatchInvariant, TimeInvariant,
   KeptInvariant DEF Next, Step, Answer

LEMMA Invariant == Spec => []IInv
<1>1. IInv /\ [Next]_vars => IInv'
  BY NextInvariant
<1> QED
  BY InitInvariant, <1>1, PTL DEF Spec

-----------------------------------------------------------------------------
(* The theorems *)

\* Every variable of ValidationJobs keeps its type, for any number of jobs,
\* requests, stops and lapses.
THEOREM TypeCorrect == Spec => []TypeOK
<1>1. IInv => TypeOK
  BY DEF IInv
<1> QED
  BY Invariant, <1>1, PTL

\* An active slot belongs to a job that has not ended: whichever request ends a
\* job, its status and the release of the slot are one transaction.
THEOREM SlotHasLiveJob == Spec => []ActiveSlotHasLiveJob
<1>1. IInv => ActiveSlotHasLiveJob
  BY DEF IInv
<1> QED
  BY Invariant, <1>1, PTL

\* A job is reported as succeeded or invalid only with the worker's result.
THEOREM VerdictIsFounded == Spec => []VerdictHasResult
<1>1. IInv => VerdictHasResult
  BY DEF IInv
<1> QED
  BY Invariant, <1>1, PTL

\* A request token starts at most one Batch job.
THEOREM TokenSubmitsOnce == Spec => []SubmittedOnce
<1>1. IInv => SubmittedOnce
  BY DEF IInv
<1> QED
  BY Invariant, <1>1, PTL

\* A slot whose lease has not run out is released only by the end of its job.
THEOREM ReleasedByOwner == Spec => ReleasedByItsJob
<1> DEFINE Ok == slot.status = "active" /\ ~slot.lapsed /\ slot'.status # "active" =>
                   slot'.job = slot.job /\ Ended(slot.job)'
<1>1. ASSUME IInv, [Next]_vars
      PROVE  [Ok]_vars
  <2> SUFFICES ASSUME Next PROVE Ok
    BY <1>1
  <2>1. CASE UNCHANGED slot
    BY <2>1
  <2>2. ASSUME NEW r \in Request, Reserve(r)
        PROVE  slot'.status = "active" \/ UNCHANGED slot
    BY <2>2 DEF Reserve
  <2>3. ASSUME NEW j \in Job, NEW x \in Terminal, NEW v \in BOOLEAN, End(j, x, v), slot.job = j
        PROVE  Ok
    <3>1. slot' = Released /\ record'[j].status = x
      BY <1>1, <2>3, EndRecord DEF IInv
    <3>2. slot'.job = slot.job
      BY <1>1, <3>1 DEF Released, IInv, TypeOK, Slot
    <3> QED
      BY <2>3, <3>1, <3>2 DEF Ended
  <2>4. ASSUME NEW r \in Request, ReleaseFailed(r) \/ Terminalize(r)
        PROVE  Ok
    <3> DEFINE j == call[r].job
    <3>1. CallsOK /\ j \in Job
      BY <1>1, <2>4, CallsType DEF IInv, ReleaseFailed, Terminalize, CallsOK
    <3>2. CASE HoldsSlot(j) /\ End(j, "failed", FALSE)
      BY <2>3, <3>1, <3>2 DEF HoldsSlot, Terminal
    <3>3. CASE Terminalize(r) /\ HoldsSlot(j)
      <4>1. call[r].status \in Terminal /\ call[r].version \in BOOLEAN
        BY <1>1, <3>1, <3>3 DEF IInv, CallWrites, CallsOK, Call, Terminalize
      <4> QED
        BY <2>3, <3>1, <3>3, <4>1 DEF HoldsSlot, Terminalize
    <3> QED
      BY <2>1, <2>4, <3>2, <3>3 DEF ReleaseFailed, Terminalize, table
  <2>5. CASE SlotLapses \/ SlotRemoved
    BY <1>1, <2>5 DEF SlotLapses, SlotRemoved, IInv, TypeOK, Slot
  <2>6. ASSUME NEW r \in Request,
               \/ \E j \in Job : CreateLook(r, j) \/ PollLook(r, j) \/ Answer(r, j)
               \/ Submit(r) \/ PublishBatchId(r) \/ Terminate(r) \/ Describe(r)
               \/ Mark(r) \/ ReadResult(r) \/ Stop(r)
        PROVE  UNCHANGED slot
    BY <2>6 DEF CreateLook, PollLook, Answer, Submit, PublishBatchId, Terminate,
                Describe, Mark, ReadResult, Stop, table, vars
  <2>7. ASSUME NEW j \in Job, Batch(j) \/ BatchForgets(j) \/ Age(j)
        PROVE  UNCHANGED slot
    BY <2>7 DEF Batch, BatchShows, BatchStarts, WorkerWrites, BatchEnds, BatchForgets,
                Age, table
  <2> QED
    BY <2>1, <2>2, <2>4, <2>5, <2>6, <2>7 DEF Next, Step
<1> QED
  BY Invariant, <1>1, PTL DEF Spec, ReleasedByItsJob
=============================================================================
