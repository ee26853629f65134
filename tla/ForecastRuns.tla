---------------------------- MODULE ForecastRuns ----------------------------
(***************************************************************************)
(* The forecast runs of one owner                                          *)
(* (infra/lambda/forecast_control_plane/handler.py with the Batch worker   *)
(* src/vonavy_agent/forecasting/aws_batch.py).  A request records a run    *)
(* and takes the owner's slot in one transaction, submits a Batch job and  *)
(* records its identifier; every later request for the run reconciles the  *)
(* record with Batch and with the document the worker published.           *)
(*                                                                         *)
(* Unlike validations (ValidationJobs) there are no grace periods, a job   *)
(* whose submission failed is not terminated, and a run may compare        *)
(* several adapters, whose statuses are recorded with the run's.           *)
(***************************************************************************)
EXTENDS ComparisonResults

CONSTANTS
  Run,          \* request tokens of the owner
  NoRun,        \* no run
  Adapter,      \* SUPPORTED_ADAPTERS
  Selections,   \* the sets of adapters that are asked for
  Request,      \* concurrent requests
  NoResult,     \* no document
  MaxStops,     \* bound on requests that end in the middle
  MaxLapses     \* bound on slot leases that run out

ASSUME NoRunAssumption == NoRun \notin Run

ASSUME SelectionsAssumption ==
  \A A \in Selections : A # {} /\ A \subseteq Adapter

ASSUME RunBoundAssumption == MaxStops \in Nat /\ MaxLapses \in Nat

VARIABLES
  record,   \* the FORECAST# items
  slot,     \* the item FORECAST_SLOT#0000
  batch,    \* the Batch job of each run
  result,   \* the document at the run's result key: its models' statuses
  call,     \* where each request is
  faults    \* how many stops and lapses there were

vars == <<record, slot, batch, result, call, faults>>
table == <<record, slot>>
cloud == <<batch, result>>

\* TERMINAL
Terminal == {"succeeded", "partial", "invalid", "failed"}

\* The states of ACTIVE_BATCH before "running" are one.
Active == {"submitted", "running"}

RunStatuses == {"none", "submitting"} \cup Active \cup Terminal

\* adapter_ids, batch_job_id, result_version_id and child_runs of an item
Record ==
  [status : RunStatuses, adapters : SUBSET Adapter, batch : BOOLEAN,
   version : BOOLEAN, children : [Adapter -> {"none", "queued"} \cup ModelStatuses]]

Slot ==
  [status : {"absent", "active", "released"}, run : Run \cup {NoRun},
   lapsed : BOOLEAN]

\* A submitted Batch job is at first not described, and later forgotten.
BatchStates ==
  {"none", "unseen", "waiting", "running", "succeeded", "failed", "forgotten"}

\* The statuses of the models of a document
Documents == UNION {[A -> ModelStatuses] : A \in Selections}

Points ==
  {"idle", "reserve", "submit", "publish", "release", "describe", "mark",
   "read", "terminalize"}

Call == [pc : Points, run : Run \cup {NoRun}, status : {"none"} \cup Active]

Idle == [pc |-> "idle", run |-> NoRun, status |-> "none"]

Creating == {"reserve", "submit", "publish", "release"}

TypeOK ==
  /\ record \in [Run -> Record]
  /\ slot \in Slot
  /\ batch \in [Run -> BatchStates]
  /\ result \in [Run -> {NoResult} \cup Documents]
  /\ call \in [Request -> Call]
  /\ \A r \in Request : call[r].pc # "idle" => call[r].run \in Run
  /\ faults \in [stops : 0 .. MaxStops, lapses : 0 .. MaxLapses]

NoRecord ==
  [status |-> "none", adapters |-> {}, batch |-> FALSE, version |-> FALSE,
   children |-> [a \in Adapter |-> "none"]]

Init ==
  /\ record = [f \in Run |-> NoRecord]
  /\ slot = [status |-> "absent", run |-> NoRun, lapsed |-> FALSE]
  /\ batch = [f \in Run |-> "none"]
  /\ result = [f \in Run |-> NoResult]
  /\ call = [r \in Request |-> Idle]
  /\ faults = [stops |-> 0, lapses |-> 0]

Goto(r, pc) == call' = [call EXCEPT ![r].pc = pc]
Return(r) == call' = [call EXCEPT ![r] = Idle]
Begin(r, pc, f) == call' = [call EXCEPT ![r] = [Idle EXCEPT !.pc = pc, !.run = f]]

-----------------------------------------------------------------------------
(* POST /api/datasets/{dataset_id}/forecasts: _create *)

\* A token that has a run is answered with that run.
CreateLook(r, f) ==
  /\ call[r].pc = "idle"
  /\ record[f].status = "none"
  /\ Begin(r, "reserve", f)
  /\ UNCHANGED <<table, cloud, faults>>

\* The children of a comparison are queued; a single run has none.
Queued(adapters) ==
  [a \in Adapter |->
     IF a \in adapters /\ Cardinality(adapters) > 1 THEN "queued" ELSE "none"]

\* Mutant: the item of the run may exist.
SlotFree(f) == slot.status # "active" \/ slot.lapsed

\* The ConditionExpressions of the transaction
MayReserve(f) ==
  /\ slot.status # "active" \/ slot.lapsed
  /\ record[f].status = "none"

\* The transaction that takes the slot and puts the run; if it is cancelled the
\* request answers with the existing run or with 429.
Reserve(r) ==
  LET f == call[r].run
  IN /\ call[r].pc = "reserve"
     /\ \/ /\ MayReserve(f)
           /\ slot' = [status |-> "active", run |-> f, lapsed |-> FALSE]
           /\ \E A \in Selections :
                record' = [record EXCEPT ![f] =
                  [NoRecord EXCEPT !.status = "submitting", !.adapters = A,
                                   !.children = Queued(A)]]
           /\ Goto(r, "submit")
        \/ /\ ~MayReserve(f)
           /\ Return(r)
           /\ UNCHANGED table
     /\ UNCHANGED <<cloud, faults>>

\* submit_job; an error may come before or after Batch took the job.
Submit(r) ==
  /\ call[r].pc = "submit"
  /\ \/ batch' = [batch EXCEPT ![call[r].run] = "unseen"]
     \/ UNCHANGED batch
  /\ \/ batch' # batch /\ Goto(r, "publish")
     \/ Goto(r, "release")
  /\ UNCHANGED <<table, result, faults>>

\* The identifier of the Batch job is recorded, unless the update fails.
PublishBatchId(r) ==
  LET f == call[r].run
  IN /\ call[r].pc = "publish"
     /\ \/ /\ record[f].status # "none"
           /\ record' = [record EXCEPT ![f].status = "submitted",
                                       ![f].batch = TRUE]
           /\ Return(r)
        \/ /\ Goto(r, "release")
           /\ UNCHANGED record
     /\ UNCHANGED <<slot, cloud, faults>>

-----------------------------------------------------------------------------
(* Ending a run *)

\* The conditions of both transactions: the slot names the run, whatever its status.
HoldsSlotAnyRun(f) == slot.status = "active"       \* mutant: whoever has it
HoldsSlot(f) == slot.status # "absent" /\ slot.run = f

ReleasedSlot == [slot EXCEPT !.status = "released", !.lapsed = FALSE]

FailOnly(f) ==                             \* mutant: the slot is not released
  /\ record' = [record EXCEPT ![f].status = "failed"]
  /\ UNCHANGED slot
Fail(f) ==
  /\ record' = [record EXCEPT ![f].status = "failed"]
  /\ slot' = ReleasedSlot

\* _release_failure: an error is only logged, as if the request stopped here.
ReleaseFailed(r) ==
  /\ call[r].pc = "release"
  /\ IF HoldsSlot(call[r].run) THEN Fail(call[r].run) ELSE UNCHANGED table
  /\ Return(r)
  /\ UNCHANGED <<cloud, faults>>

\* The children of the document replace those of a comparison.
ChildrenKept(f) == record[f].children       \* mutant: they stay queued
Children(f) ==
  IF Cardinality(record[f].adapters) > 1
    THEN [a \in Adapter |->
            IF a \in DOMAIN result[f] THEN result[f][a] ELSE "none"]
    ELSE record[f].children

\* _terminalize and _terminalize_comparison, once they accepted the document (see
\* ComparisonResults): a cancelled transaction is ignored.
Terminalize(r) ==
  LET f == call[r].run
  IN /\ call[r].pc = "terminalize"
     /\ IF HoldsSlot(f)
          THEN /\ record' = [record EXCEPT ![f].status = RunStatus(result[f]),
                                           ![f].version = TRUE,
                                           ![f].children = Children(f)]
               /\ slot' = ReleasedSlot
          ELSE UNCHANGED table
     /\ Return(r)
     /\ UNCHANGED <<cloud, faults>>

-----------------------------------------------------------------------------
(* GET /api/forecasts/{run_id} and its result: _refresh *)

\* A run that ended, or whose Batch job is not known, is answered as it is.
PollLook(r, f) ==
  /\ call[r].pc = "idle"
  /\ record[f].status \notin Terminal \cup {"none"}
  /\ record[f].batch
  /\ Begin(r, "describe", f)
  /\ UNCHANGED <<table, cloud, faults>>

Answer(r, f) ==
  /\ call[r].pc = "idle"
  /\ record[f].status # "none"
  /\ record[f].status \in Terminal \/ ~record[f].batch
  /\ UNCHANGED vars

Shown(f) == IF batch[f] = "running" THEN "running" ELSE "submitted"

\* Mutant: a job that is not described counts as submitted.
NextStepPatient(f) ==
  IF batch[f] = "succeeded" THEN "read"
  ELSE IF batch[f] = "failed" THEN "release" ELSE "mark"

\* Where the answer of describe_jobs leads
NextStep(f) ==
  IF batch[f] \in {"waiting", "running"} THEN "mark"
  ELSE IF batch[f] = "succeeded" THEN "read" ELSE "release"

Describe(r) ==
  LET f == call[r].run
  IN /\ call[r].pc = "describe"
     /\ call' = [call EXCEPT ![r].pc = NextStep(f),
                             ![r].status = IF NextStep(f) = "mark" THEN Shown(f)
                                                                   ELSE "none"]
     /\ UNCHANGED <<table, cloud, faults>>

\* The condition of the update does not look at the status it replaces.
Mark(r) ==
  /\ call[r].pc = "mark"
  /\ record' = [record EXCEPT ![call[r].run].status = call[r].status]
  /\ Return(r)
  /\ UNCHANGED <<slot, cloud, faults>>

\* _load_result: without a document the answer is the record as it is.
ReadResult(r) ==
  /\ call[r].pc = "read"
  /\ IF result[call[r].run] = NoResult THEN Return(r) ELSE Goto(r, "terminalize")
  /\ UNCHANGED <<table, cloud, faults>>

\* The Lambda invocation ends in the middle, or a remote call fails.
Stop(r) ==
  /\ call[r].pc # "idle"
  /\ faults.stops < MaxStops
  /\ faults' = [faults EXCEPT !.stops = @ + 1]
  /\ Return(r)
  /\ UNCHANGED <<table, cloud>>

-----------------------------------------------------------------------------
(* Batch, the worker, and time *)

BatchShows(f) ==
  /\ batch[f] = "unseen"
  /\ batch' = [batch EXCEPT ![f] = "waiting"]
  /\ UNCHANGED <<table, result, call, faults>>

BatchStarts(f) ==
  /\ batch[f] = "waiting"
  /\ batch' = [batch EXCEPT ![f] = "running"]
  /\ UNCHANGED <<table, result, call, faults>>

\* The worker publishes one document, after the last adapter.
WorkerPublishes(f) ==
  /\ batch[f] = "running"
  /\ result[f] = NoResult
  /\ \E document \in [record[f].adapters -> ModelStatuses] :
       result' = [result EXCEPT ![f] = document]
  /\ UNCHANGED <<table, batch, call, faults>>

\* The worker exits normally only after it published.
WorkerReturns(f) ==
  /\ batch[f] = "running"
  /\ result[f] # NoResult
  /\ batch' = [batch EXCEPT ![f] = "succeeded"]
  /\ UNCHANGED <<table, result, call, faults>>

\* It crashes, or the job times out (one attempt).
WorkerFails(f) ==
  /\ batch[f] = "running"
  /\ batch' = [batch EXCEPT ![f] = "failed"]
  /\ UNCHANGED <<table, result, call, faults>>

\* Batch keeps ended jobs for some days.
BatchForgets(f) ==
  /\ batch[f] \in {"succeeded", "failed"}
  /\ batch' = [batch EXCEPT ![f] = "forgotten"]
  /\ UNCHANGED <<table, result, call, faults>>

\* SLOT_LEASE_SECONDS pass, longer than any request lives: the timeout of the
\* job and a quarter of an hour.  The job may still wait for capacity.
SlotLapses ==
  /\ slot.status = "active"
  /\ ~slot.lapsed
  /\ \A r \in Request : call[r].pc \in Creating => call[r].run # slot.run
  /\ faults.lapses < MaxLapses
  /\ faults' = [faults EXCEPT !.lapses = @ + 1]
  /\ slot' = [slot EXCEPT !.lapsed = TRUE]
  /\ UNCHANGED <<record, cloud, call>>

\* DynamoDB removes the slot item after its expires_at.
SlotRemoved ==
  /\ slot.lapsed
  /\ slot' = [status |-> "absent", run |-> NoRun, lapsed |-> FALSE]
  /\ UNCHANGED <<record, cloud, call, faults>>

-----------------------------------------------------------------------------
Step(r) ==
  \/ Reserve(r) \/ Submit(r) \/ PublishBatchId(r) \/ ReleaseFailed(r)
  \/ Terminalize(r) \/ Describe(r) \/ Mark(r) \/ ReadResult(r)

Batch(f) ==
  \/ BatchShows(f) \/ BatchStarts(f) \/ WorkerPublishes(f) \/ WorkerReturns(f)
  \/ WorkerFails(f)

Next ==
  \/ \E r \in Request :
       \/ \E f \in Run : CreateLook(r, f) \/ PollLook(r, f) \/ Answer(r, f)
       \/ Step(r) \/ Stop(r)
  \/ \E f \in Run : Batch(f) \/ BatchForgets(f)
  \/ SlotLapses
  \/ SlotRemoved

Spec == Init /\ [][Next]_vars

\* Requests that began go on, Batch runs what was submitted, and somebody keeps
\* asking for every run (the browser polls until the run ended).
Fairness ==
  /\ \A r \in Request : WF_vars(Step(r))
  /\ \A f \in Run : WF_vars(Batch(f))
  /\ \A f \in Run : SF_vars(\E r \in Request : PollLook(r, f))

FairSpec == Spec /\ Fairness

-----------------------------------------------------------------------------
(* Properties *)

Ended(f) == record[f].status \in Terminal

\* An active slot belongs to a run that has not ended: the status that ends a
\* run and the release of the slot become visible together.
ActiveSlotHasLiveRun ==
  slot.status = "active" =>
    slot.run \in Run /\ record[slot.run].status \notin Terminal \cup {"none"}

\* A slot whose lease has not run out is released only by the end of its run: a
\* late answer about another run never frees it.
ReleasedByItsRun ==
  [][slot.status = "active" /\ ~slot.lapsed /\ slot'.status # "active" =>
       slot'.run = slot.run /\ Ended(slot.run)']_vars

\* A run says succeeded, partial or invalid only if a document that can be read
\* back by its version says so, and the statuses of its children are that
\* document's, all of one version, whatever late answers were applied.
VerdictHasDocument ==
  \A f \in Run :
    /\ record[f].status \in {"succeeded", "partial", "invalid"} =>
         record[f].version /\ record[f].status = RunStatus(result[f])
    /\ record[f].version =>
         /\ result[f] # NoResult
         /\ DOMAIN result[f] = record[f].adapters
         /\ Cardinality(record[f].adapters) > 1 =>
              \A a \in record[f].adapters : record[f].children[a] = result[f][a]

\* One token submits at most one Batch job, however often it is repeated.
SubmittedOnce ==
  \A r \in Request :
    call[r].pc = "submit" =>
      /\ batch[call[r].run] = "none"
      /\ \A q \in Request \ {r} : call[q].pc = "submit" => call[q].run # call[r].run

\* A run whose Batch job is known ends, or lost the slot to another run when its
\* lease ran out.  A late active status delays the end, never prevents it.
RunsEnd ==
  \A f \in Run : record[f].batch ~> Ended(f) \/ slot.run # f
=============================================================================
