--------------------------- MODULE ValidationJobs ---------------------------
(***************************************************************************)
(* The validation jobs of one owner (infra/lambda/control_plane/handler.py *)
(* with the worker in src/vonavy_agent/validation_worker): a request       *)
(* records a job and takes the owner's only slot in one transaction,       *)
(* submits a Batch job and records its identifier; requests for the status *)
(* reconcile the record with Batch and with the result the worker wrote.   *)
(*                                                                         *)
(* Requests run concurrently, each remote call is a step, and a request    *)
(* can end between any two of them.  A job is named by its request token.  *)
(***************************************************************************)
EXTENDS Naturals, FiniteSets

CONSTANTS
  Job,        \* request tokens of the owner
  NoJob,      \* no job
  Request,    \* concurrent requests
  MaxStops,   \* bound on requests that end in the middle
  MaxLapses   \* bound on slot leases that run out

ASSUME NoJobAssumption == NoJob \notin Job

ASSUME BoundAssumption == MaxStops \in Nat /\ MaxLapses \in Nat

VARIABLES
  record,   \* the VALIDATION# items: status, whether batch_job_id and
            \* result_version_id are set
  slot,     \* the item VALIDATION_SLOT#0000
  old,      \* jobs whose updated_at lies further back than the grace periods
  batch,    \* the Batch job of each job
  result,   \* the object at the job's result key
  call,     \* where each request is
  faults    \* how many stops and lapses there were

vars == <<record, slot, old, batch, result, call, faults>>
table == <<record, slot, old>>
cloud == <<batch, result>>

\* VALIDATION_TERMINAL_STATUSES
Terminal == {"succeeded", "invalid", "failed"}

\* VALIDATION_ACTIVE_BATCH_STATUSES: the four states before "running" are one.
Active == {"submitted", "running"}

Record ==
  [status : {"none", "submitting"} \cup Active \cup Terminal,
   batch : BOOLEAN, version : BOOLEAN]

Slot ==
  [status : {"absent", "active", "released"}, job : Job \cup {NoJob},
   lapsed : BOOLEAN]

\* A submitted Batch job is at first not described, and later forgotten.  How it
\* ended changes only the text of a failure.
BatchStates == {"none", "unseen", "waiting", "running", "ended", "forgotten"}

\* A result that is too large or malformed counts as none.
Results == {"none"} \cup Terminal

Points ==
  {"idle", "reserve", "submit", "publish", "terminate", "release",
   "describe", "mark", "read", "terminalize"}

\* A request knows its job, the status and age it read and, later, the status it
\* is going to write and whether that comes with a result version.
Call ==
  [pc : Points, job : Job \cup {NoJob},
   status : {"none", "submitting"} \cup Active \cup Terminal,
   old : BOOLEAN, version : BOOLEAN]

Idle ==
  [pc |-> "idle", job |-> NoJob, status |-> "none", old |-> FALSE,
   version |-> FALSE]

Creating == {"reserve", "submit", "publish", "terminate", "release"}

TypeOK ==
  /\ record \in [Job -> Record]
  /\ slot \in Slot
  /\ old \subseteq Job
  /\ batch \in [Job -> BatchStates]
  /\ result \in [Job -> Results]
  /\ call \in [Request -> Call]
  /\ \A r \in Request : call[r].pc # "idle" => call[r].job \in Job
  /\ faults \in [stops : 0 .. MaxStops, lapses : 0 .. MaxLapses]

Init ==
  /\ record = [j \in Job |->
       [status |-> "none", batch |-> FALSE, version |-> FALSE]]
  /\ slot = [status |-> "absent", job |-> NoJob, lapsed |-> FALSE]
  /\ old = {}
  /\ batch = [j \in Job |-> "none"]
  /\ result = [j \in Job |-> "none"]
  /\ call = [r \in Request |-> Idle]
  /\ faults = [stops |-> 0, lapses |-> 0]

Goto(r, pc) == call' = [call EXCEPT ![r].pc = pc]
Return(r) == call' = [call EXCEPT ![r] = Idle]

Released == [slot EXCEPT !.status = "released", !.lapsed = FALSE]

-----------------------------------------------------------------------------
(* POST /api/datasets/{dataset_id}/validations *)

\* A token that has a job is answered with that job.
CreateLook(r, j) ==
  /\ call[r].pc = "idle"
  /\ record[j].status = "none"
  /\ call' = [call EXCEPT ![r] = [Idle EXCEPT !.pc = "reserve", !.job = j]]
  /\ UNCHANGED <<table, cloud, faults>>

\* Mutant: the item of the job may exist.
MayReserveAgain(j) == slot.status # "active" \/ slot.lapsed

\* The ConditionExpressions of the transaction: the slot is free and the token
\* has no job yet.
MayReserve(j) ==
  /\ slot.status # "active" \/ slot.lapsed
  /\ record[j].status = "none"

\* The transaction that takes the slot and puts the job; if it is cancelled the
\* request answers with the existing job or with 429.
Reserve(r) ==
  LET j == call[r].job
  IN /\ call[r].pc = "reserve"
     /\ \/ /\ MayReserve(j)
           /\ slot' = [status |-> "active", job |-> j, lapsed |-> FALSE]
           /\ record' = [record EXCEPT ![j] =
                [status |-> "submitting", batch |-> FALSE, version |-> FALSE]]
           /\ Goto(r, "submit")
        \/ /\ ~MayReserve(j)
           /\ Return(r)
           /\ UNCHANGED <<slot, record>>
     /\ UNCHANGED <<old, cloud, faults>>

\* submit_job, or its refusal; an answer without an identifier counts as one.
Submit(r) ==
  /\ call[r].pc = "submit"
  /\ \/ /\ batch' = [batch EXCEPT ![call[r].job] = "unseen"]
        /\ Goto(r, "publish")
     \/ /\ Goto(r, "release")
        /\ UNCHANGED batch
  /\ UNCHANGED <<table, result, faults>>

\* The identifier of the Batch job is recorded, unless the update fails.
PublishBatchId(r) ==
  LET j == call[r].job
  IN /\ call[r].pc = "publish"
     /\ \/ /\ record[j].status = "submitting"
           /\ record' = [record EXCEPT ![j].status = "submitted",
                                       ![j].batch = TRUE]
           /\ old' = old \ {j}
           /\ Return(r)
        \/ /\ Goto(r, "terminate")
           /\ UNCHANGED <<record, old>>
     /\ UNCHANGED <<slot, cloud, faults>>

\* terminate_job, which may fail in its turn
Terminate(r) ==
  /\ call[r].pc = "terminate"
  /\ \/ /\ batch[call[r].job] \in {"unseen", "waiting", "running"}
        /\ batch' = [batch EXCEPT ![call[r].job] = "ended"]
     \/ UNCHANGED batch
  /\ Goto(r, "release")
  /\ UNCHANGED <<table, result, faults>>

-----------------------------------------------------------------------------
(* Ending a job *)

\* The transaction shared by a failed submission and by the reconciliation: the
\* status of the job and the release of the slot.  It asks only that the slot
\* still names the job.  A version recorded earlier stays.
HoldsSlotAnyJob(j) == slot.status = "active"    \* mutant: whoever has the slot
HoldsSlot(j) == slot.status # "absent" /\ slot.job = j

EndOnly(j, status, version) ==      \* mutant: the slot is not released
  /\ record' = [record EXCEPT ![j].status = status,
                              ![j].version = record[j].version \/ version]
  /\ UNCHANGED slot
  /\ old' = old \ {j}
End(j, status, version) ==
  /\ record' = [record EXCEPT ![j].status = status,
                              ![j].version = record[j].version \/ version]
  /\ slot' = Released
  /\ old' = old \ {j}

\* _release_validation_slot_after_submission_failure: an error is only logged.
ReleaseFailed(r) ==
  /\ call[r].pc = "release"
  /\ \/ HoldsSlot(call[r].job) /\ End(call[r].job, "failed", FALSE)
     \/ UNCHANGED table
  /\ Return(r)
  /\ UNCHANGED <<cloud, faults>>

\* _terminalize_validation_job
Terminalize(r) ==
  LET j == call[r].job
  IN /\ call[r].pc = "terminalize"
     /\ IF HoldsSlot(j) THEN End(j, call[r].status, call[r].version)
                        ELSE UNCHANGED table
     /\ Return(r)
     /\ UNCHANGED <<cloud, faults>>

-----------------------------------------------------------------------------
(* GET /api/validations/{job_id} and its result: _reconcile_validation_job *)

Verdict(r, status, version) ==
  call' = [call EXCEPT ![r].pc = "terminalize", ![r].status = status,
                       ![r].version = version]

\* A submission that published no Batch identifier within the grace period
InterruptedNever(j) == FALSE        \* mutant: it is left alone
Interrupted(j) == ~record[j].batch /\ record[j].status = "submitting" /\ j \in old

\* The item is read; a terminal job is answered at once, an interrupted one failed.
PollLook(r, j) ==
  /\ call[r].pc = "idle"
  /\ record[j].status \notin Terminal \cup {"none"}
  /\ \/ /\ record[j].batch
        /\ call' = [call EXCEPT ![r] =
             [pc |-> "describe", job |-> j, status |-> record[j].status,
              old |-> j \in old, version |-> FALSE]]
     \/ /\ Interrupted(j)
        /\ call' = [call EXCEPT ![r] =
             [pc |-> "terminalize", job |-> j, status |-> "failed",
              old |-> FALSE, version |-> FALSE]]
  /\ UNCHANGED <<table, cloud, faults>>

\* A job that ended is answered from its record and the recorded version.
Answer(r, j) ==
  /\ call[r].pc = "idle"
  /\ record[j].status \in Terminal
  /\ UNCHANGED vars

\* The public name of the state of a Batch job that is under way
Public(j) == IF batch[j] = "running" THEN "running" ELSE "submitted"

\* describe_jobs
Describe(r) ==
  LET j == call[r].job
  IN /\ call[r].pc = "describe"
     /\ \/ /\ batch[j] \in {"unseen", "forgotten"}
           /\ IF call[r].old THEN Verdict(r, "failed", FALSE) ELSE Return(r)
        \/ /\ batch[j] \in {"waiting", "running"}
           /\ IF call[r].status = Public(j)
                THEN Return(r)
                ELSE call' = [call EXCEPT ![r].pc = "mark",
                                          ![r].status = Public(j)]
        \/ /\ batch[j] = "ended"
           /\ Goto(r, "read")
     /\ UNCHANGED <<table, cloud, faults>>

\* The status of a Batch job that is under way.  The condition of the update does
\* not look at the status it replaces.
Mark(r) ==
  LET j == call[r].job
  IN /\ call[r].pc = "mark"
     /\ record' = [record EXCEPT ![j].status = call[r].status]
     /\ old' = old \ {j}
     /\ Return(r)
     /\ UNCHANGED <<slot, cloud, faults>>

\* Mutant: a Batch job that ended without a result counts as succeeded.
OutcomeOfBatch(j) == IF result[j] = "none" THEN "succeeded" ELSE result[j]

\* _read_validation_result: without a usable result the job failed.
Outcome(j) == IF result[j] = "none" THEN "failed" ELSE result[j]

ReadResult(r) ==
  LET j == call[r].job
  IN /\ call[r].pc = "read"
     /\ Verdict(r, Outcome(j), result[j] # "none")
     /\ UNCHANGED <<table, cloud, faults>>

\* The Lambda invocation ends in the middle.
Stop(r) ==
  /\ call[r].pc # "idle"
  /\ faults.stops < MaxStops
  /\ faults' = [faults EXCEPT !.stops = @ + 1]
  /\ Return(r)
  /\ UNCHANGED <<table, cloud>>

-----------------------------------------------------------------------------
(* Batch, the worker, and time *)

BatchShows(j) ==
  /\ batch[j] = "unseen"
  /\ batch' = [batch EXCEPT ![j] = "waiting"]
  /\ UNCHANGED <<table, result, call, faults>>

BatchStarts(j) ==
  /\ batch[j] = "waiting"
  /\ batch' = [batch EXCEPT ![j] = "running"]
  /\ UNCHANGED <<table, result, call, faults>>

\* The worker writes its result once (the job definition allows one attempt).
WorkerWrites(j) ==
  /\ batch[j] = "running"
  /\ result[j] = "none"
  /\ \E x \in Terminal : result' = [result EXCEPT ![j] = x]
  /\ UNCHANGED <<table, batch, call, faults>>

\* The worker exits, with or without a result, or the job times out.
BatchEnds(j) ==
  /\ batch[j] = "running"
  /\ batch' = [batch EXCEPT ![j] = "ended"]
  /\ UNCHANGED <<table, result, call, faults>>

\* Batch keeps ended jobs for some days.
BatchForgets(j) ==
  /\ batch[j] = "ended"
  /\ batch' = [batch EXCEPT ![j] = "forgotten"]
  /\ UNCHANGED <<table, result, call, faults>>

\* The grace periods are 60 and 120 seconds; a request lives for 15 seconds, and
\* Batch shows a submitted job within a minute.
Age(j) ==
  /\ record[j].status \notin Terminal \cup {"none"}
  /\ batch[j] # "unseen"
  /\ \A r \in Request : call[r].pc \in Creating => call[r].job # j
  /\ old' = old \cup {j}
  /\ UNCHANGED <<record, slot, cloud, call, faults>>

\* VALIDATION_SLOT_LEASE_SECONDS pass: six hours or more.  A Batch job may still
\* wait for capacity.
SlotLapses ==
  /\ slot.status = "active"
  /\ ~slot.lapsed
  /\ \A r \in Request : call[r].pc \in Creating => call[r].job # slot.job
  /\ faults.lapses < MaxLapses
  /\ faults' = [faults EXCEPT !.lapses = @ + 1]
  /\ slot' = [slot EXCEPT !.lapsed = TRUE]
  /\ UNCHANGED <<record, old, cloud, call>>

\* DynamoDB removes the slot item after its expires_at.
SlotRemoved ==
  /\ slot.lapsed
  /\ slot' = [status |-> "absent", job |-> NoJob, lapsed |-> FALSE]
  /\ UNCHANGED <<record, old, cloud, call, faults>>

-----------------------------------------------------------------------------
Step(r) ==
  \/ Reserve(r) \/ Submit(r) \/ PublishBatchId(r) \/ Terminate(r)
  \/ ReleaseFailed(r) \/ Terminalize(r) \/ Describe(r) \/ Mark(r)
  \/ ReadResult(r)

Batch(j) ==
  BatchShows(j) \/ BatchStarts(j) \/ WorkerWrites(j) \/ BatchEnds(j)

Next ==
  \/ \E r \in Request :
       \/ \E j \in Job : CreateLook(r, j) \/ PollLook(r, j) \/ Answer(r, j)
       \/ Step(r) \/ Stop(r)
  \/ \E j \in Job : Batch(j) \/ BatchForgets(j) \/ Age(j)
  \/ SlotLapses
  \/ SlotRemoved

Spec == Init /\ [][Next]_vars

\* Requests that began go on, Batch runs what was submitted, time passes, and
\* somebody keeps asking for the status of every job.
Fairness ==
  /\ \A r \in Request : WF_vars(Step(r))
  /\ \A j \in Job : WF_vars(Batch(j))
  /\ \A j \in Job : WF_vars(Age(j))
  /\ \A j \in Job : SF_vars(\E r \in Request : PollLook(r, j))

FairSpec == Spec /\ Fairness

-----------------------------------------------------------------------------
(* Properties *)

Ended(j) == record[j].status \in Terminal

\* An active slot belongs to a job that has not ended: a terminal status and the
\* release of the slot become visible together.
ActiveSlotHasLiveJob ==
  slot.status = "active" =>
    slot.job \in Job /\ record[slot.job].status \notin Terminal \cup {"none"}

\* Only the end of the job that holds the slot releases it; any other way to lose
\* it needs a lease that ran out.
ReleasedByItsJob ==
  [][slot.status = "active" /\ ~slot.lapsed /\ slot'.status # "active" =>
       slot'.job = slot.job /\ Ended(slot.job)']_vars

\* A job is reported as succeeded or invalid only if the worker said so, in a
\* result that can be read back by its version.
VerdictHasResult ==
  \A j \in Job :
    record[j].status \in {"succeeded", "invalid"} =>
      record[j].version /\ result[j] = record[j].status

\* One token submits at most one Batch job, however often it is repeated: a
\* request about to submit is the only one, and none submitted before.
SubmittedOnce ==
  \A r \in Request :
    call[r].pc = "submit" =>
      /\ batch[call[r].job] = "none"
      /\ \A q \in Request \ {r} : call[q].pc = "submit" => call[q].job # call[r].job

\* What the documentation promises of the slot: only one active job per owner.
OneActiveJob ==
  Cardinality({j \in Job : record[j].status \notin Terminal \cup {"none"}}) <= 1

\* Every job that was recorded ends, be its submission interrupted, failed or
\* unnoticed, or its slot lost: the lease ran out before anybody asked, and no later
\* request can end it.
JobsEnd ==
  \A j \in Job : record[j].status # "none" ~> Ended(j) \/ slot.job # j
=============================================================================
