-------------------------- MODULE ForecastRunsProofs --------------------------
(***************************************************************************)
(* Proofs about ForecastRuns for any number of runs, adapters and          *)
(* requests, any number of stops and of leases that run out: the slot and  *)
(* the status end together, the statuses of a run and its children are     *)
(* those of one document, and a token submits once.                        *)
(***************************************************************************)
EXTENDS ForecastRuns, TLAPS

\* A request about to write a status of Batch writes an active one; one about to
\* end a run has read its document.
CallWrites ==
  \A r \in Request :
    /\ call[r].pc = "mark" => call[r].status \in Active
    /\ call[r].pc = "terminalize" => result[call[r].run] # NoResult

\* A run is recorded, with its adapters, before anything else is done about it.
RecordedFirst ==
  /\ \A f \in Run : batch[f] # "none" => record[f].status # "none"
  /\ \A f \in Run : record[f].status # "none" => record[f].adapters \in Selections
  /\ \A r \in Request :
       call[r].pc \notin {"idle", "reserve"} => record[call[r].run].status # "none"

\* The document of a run is about the adapters of its record.
DocumentFits ==
  \A f \in Run :
    result[f] # NoResult => batch[f] # "none" /\ DOMAIN result[f] = record[f].adapters

IInv ==
  /\ TypeOK
  /\ CallWrites
  /\ RecordedFirst
  /\ DocumentFits
  /\ ActiveSlotHasLiveRun
  /\ VerdictHasDocument
  /\ SubmittedOnce

-----------------------------------------------------------------------------
(* Types *)

CallsOK ==
  /\ call \in [Request -> Call]
  /\ \A r \in Request : call[r].pc # "idle" => call[r].run \in Run

LEMMA CallsType ==
  ASSUME TypeOK
  PROVE  CallsOK
BY DEF TypeOK, CallsOK

LEMMA CallStep ==
  ASSUME CallsOK, NEW r \in Request, NEW c \in Call, call' = [call EXCEPT ![r] = c],
         c.pc # "idle" => c.run \in Run
  PROVE  CallsOK' /\ call'[r] = c /\ \A q \in Request \ {r} : call'[q] = call[q]
BY DEF CallsOK

LEMMA ReturnStep ==
  ASSUME CallsOK, NEW r \in Request, Return(r)
  PROVE  /\ CallsOK'
         /\ \A q \in Request \ {r} : call'[q] = call[q]
         /\ call'[r].pc = "idle"
<1>1. Idle \in Call /\ Idle.pc = "idle"
  BY DEF Idle, Call, Points
<1>2. call' = [call EXCEPT ![r] = Idle]
  BY DEF Return
<1> QED
  BY <1>1, <1>2, CallStep

LEMMA GotoStep ==
  ASSUME CallsOK, NEW r \in Request, NEW p \in Points, Goto(r, p),
         call[r].pc # "idle"
  PROVE  /\ CallsOK'
         /\ \A q \in Request \ {r} : call'[q] = call[q]
         /\ call'[r].pc = p /\ call'[r].run = call[r].run
<1> DEFINE c == [call[r] EXCEPT !.pc = p]
<1>1. call[r] \in Call
  BY DEF CallsOK
<1>2. c \in Call /\ c.pc = p /\ c.run = call[r].run
  BY <1>1 DEF Call
<1>3. call' = [call EXCEPT ![r] = c]
  BY DEF Goto
<1> HIDE DEF c
<1> QED
  BY <1>2, <1>3, CallStep DEF CallsOK

\* The status of a run is one of its documents' or of Batch's.
LEMMA RunStatusType ==
  ASSUME NEW document
  PROVE  RunStatus(document) \in Terminal
BY DEF RunStatus, Terminal

LEMMA InitInvariant == Init => IInv
<1> SUFFICES ASSUME Init PROVE IInv
  OBVIOUS
<1>1. \A r \in Request : call[r] = Idle
  BY DEF Init
<1>2. Idle \in Call /\ Idle.pc = "idle"
  BY DEF Idle, Call, Points
<1>3. NoRecord \in Record /\ NoRecord.status = "none" /\ ~NoRecord.version
  BY DEF NoRecord, Record, RunStatuses
<1>4. TypeOK
  <2>1. record \in [Run -> Record]
    BY <1>3 DEF Init
  <2>2. slot \in Slot
    BY DEF Init, Slot
  <2>3. batch \in [Run -> BatchStates] /\ result \in [Run -> {NoResult} \cup Documents]
    BY DEF Init, BatchStates
  <2>4. call \in [Request -> Call] /\ \A r \in Request : call[r].pc = "idle"
    BY <1>1, <1>2 DEF Init
  <2>5. faults \in [stops : 0 .. MaxStops, lapses : 0 .. MaxLapses]
    BY RunBoundAssumption DEF Init
  <2> QED
    BY <2>1, <2>2, <2>3, <2>4, <2>5 DEF TypeOK
<1>5. CallWrites /\ SubmittedOnce
  BY <1>1, <1>2 DEF CallWrites, SubmittedOnce
<1>6. RecordedFirst /\ DocumentFits
  BY <1>1, <1>2, <1>3 DEF Init, RecordedFirst, DocumentFits
<1>7. ActiveSlotHasLiveRun /\ VerdictHasDocument
  BY <1>3 DEF Init, ActiveSlotHasLiveRun, VerdictHasDocument
<1> QED
  BY <1>4, <1>5, <1>6, <1>7 DEF IInv

-----------------------------------------------------------------------------
(* Creating a run *)

LEMMA QueuedType ==
  ASSUME NEW A \in SUBSET Adapter
  PROVE  Queued(A) \in [Adapter -> {"none", "queued"} \cup ModelStatuses]
BY DEF Queued

LEMMA ReserveInvariant ==
  ASSUME IInv, NEW r \in Request, Reserve(r)
  PROVE  IInv'
<1> DEFINE f == call[r].run
<1>1. CallsOK /\ call[r].pc = "reserve" /\ f \in Run
  BY CallsType DEF IInv, Reserve, CallsOK
<1>2. /\ record \in [Run -> Record] /\ slot \in Slot
      /\ UNCHANGED <<batch, result, faults>>
  BY DEF IInv, TypeOK, Reserve, cloud
<1>3. CASE Return(r) /\ UNCHANGED table
  <2>1. /\ CallsOK' /\ \A q \in Request \ {r} : call'[q] = call[q]
        /\ call'[r].pc = "idle"
    BY <1>1, <1>3, ReturnStep
  <2>2. UNCHANGED <<record, slot>>
    BY <1>3 DEF table
  <2>3. TypeOK'
    BY <1>2, <2>1, <2>2 DEF IInv, TypeOK, CallsOK
  <2> QED
    BY <1>2, <2>1, <2>2, <2>3
       DEF IInv, CallWrites, RecordedFirst, DocumentFits, ActiveSlotHasLiveRun,
           VerdictHasDocument, SubmittedOnce
<1>4. ASSUME MayReserve(f), NEW A \in Selections,
             slot' = [status |-> "active", run |-> f, lapsed |-> FALSE],
             record' = [record EXCEPT ![f] =
               [NoRecord EXCEPT !.status = "submitting", !.adapters = A,
                                !.children = Queued(A)]],
             Goto(r, "submit")
      PROVE  IInv'
  <2> DEFINE y == [NoRecord EXCEPT !.status = "submitting", !.adapters = A,
                                   !.children = Queued(A)]
  <2>1. /\ CallsOK' /\ \A q \in Request \ {r} : call'[q] = call[q]
        /\ call'[r].pc = "submit" /\ call'[r].run = f
    BY <1>1, <1>4, GotoStep DEF Points
  <2>2. /\ y.status = "submitting" /\ y.adapters = A /\ ~y.version
        /\ y \in Record
    <3>1. A \in SUBSET Adapter
      BY SelectionsAssumption
    <3>2. Queued(A) \in [Adapter -> {"none", "queued"} \cup ModelStatuses]
      BY <3>1, QueuedType
    <3> QED
      BY <3>1, <3>2 DEF NoRecord, Record, RunStatuses
  <2> HIDE DEF y
  <2>3. /\ record' \in [Run -> Record]
        /\ \A k \in Run \ {f} : record'[k] = record[k]
        /\ record'[f] = y
    BY <1>1, <1>2, <1>4, <2>2 DEF y
  <2>4. record[f].status = "none"
    BY <1>4 DEF MayReserve
  <2>5. /\ batch[f] = "none" /\ result[f] = NoResult
        /\ \A q \in Request : call[q].pc = "submit" => call[q].run # f
    BY <1>1, <2>4 DEF IInv, RecordedFirst, DocumentFits
  <2>6. TypeOK'
    <3>1. slot' \in Slot
      BY <1>1, <1>4 DEF Slot
    <3> QED
      BY <1>2, <2>1, <2>3, <3>1 DEF IInv, TypeOK, CallsOK
  <2>7. CallWrites'
    BY <1>2, <2>1 DEF IInv, CallWrites
  <2>8. RecordedFirst'
    BY <1>1, <1>2, <2>1, <2>2, <2>3 DEF IInv, RecordedFirst, CallsOK
  <2>9. DocumentFits' /\ VerdictHasDocument'
    BY <1>2, <2>2, <2>3, <2>5 DEF IInv, DocumentFits, VerdictHasDocument
  <2>10. ActiveSlotHasLiveRun'
    BY <1>1, <1>4, <2>2, <2>3 DEF ActiveSlotHasLiveRun, Terminal
  <2>11. SubmittedOnce'
    BY <1>2, <2>1, <2>5 DEF IInv, SubmittedOnce
  <2> QED
    BY <2>6, <2>7, <2>8, <2>9, <2>10, <2>11 DEF IInv
<1> QED
  BY <1>3, <1>4 DEF Reserve

LEMMA SubmitInvariant ==
  ASSUME IInv, NEW r \in Request, Submit(r)
  PROVE  IInv'
<1> DEFINE f == call[r].run
<1>1. CallsOK /\ call[r].pc = "submit" /\ f \in Run /\ record[f].status # "none"
  BY CallsType DEF IInv, Submit, CallsOK, RecordedFirst
<1>2. batch \in [Run -> BatchStates] /\ UNCHANGED <<record, slot, result, faults>>
  BY DEF IInv, TypeOK, Submit, table
<1>3. \E p \in {"publish", "release"} : Goto(r, p)
  BY DEF Submit
<1>4. /\ CallsOK' /\ \A q \in Request \ {r} : call'[q] = call[q]
      /\ call'[r].pc \in {"publish", "release"} /\ call'[r].run = f
  BY <1>1, <1>3, GotoStep DEF Points
<1>5. /\ batch' \in [Run -> BatchStates]
      /\ \A k \in Run \ {f} : batch'[k] = batch[k]
      /\ batch'[f] \in {batch[f], "unseen"}
  <2>1. UNCHANGED batch \/ batch' = [batch EXCEPT ![f] = "unseen"]
    BY DEF Submit
  <2>2. "unseen" \in BatchStates
    BY DEF BatchStates
  <2> QED
    BY <1>1, <1>2, <2>1, <2>2
<1>6. TypeOK'
  BY <1>2, <1>4, <1>5 DEF IInv, TypeOK, CallsOK
<1>7. CallWrites'
  BY <1>2, <1>4 DEF IInv, CallWrites
<1>8. RecordedFirst'
  BY <1>1, <1>2, <1>4, <1>5 DEF IInv, RecordedFirst
<1>9. DocumentFits'
  BY <1>2, <1>5 DEF IInv, DocumentFits
<1>10. ActiveSlotHasLiveRun' /\ VerdictHasDocument'
  BY <1>2 DEF IInv, ActiveSlotHasLiveRun, VerdictHasDocument
<1>11. SubmittedOnce'
  <2> SUFFICES ASSUME NEW q \in Request, call'[q].pc = "submit"
               PROVE  /\ batch'[call'[q].run] = "none"
                      /\ \A p \in Request \ {q} :
                           call'[p].pc = "submit" => call'[p].run # call'[q].run
    BY DEF SubmittedOnce
  <2>1. q # r /\ call'[q] = call[q] /\ call[q].run \in Run
    BY <1>1, <1>4 DEF CallsOK
  <2>2. batch[call[q].run] = "none" /\ call[q].run # f
    BY <1>1, <2>1 DEF IInv, SubmittedOnce
  <2> QED
    BY <1>4, <1>5, <2>1, <2>2 DEF IInv, SubmittedOnce
<1> QED
  BY <1>6, <1>7, <1>8, <1>9, <1>10, <1>11 DEF IInv

-----------------------------------------------------------------------------
(* Steps that write the record of one run, of a request that then returns *)

\* The statuses are left alone, but for the run's, or are those of its document.
LEMMA StatusInvariant ==
  ASSUME IInv, NEW r \in Request, CallsOK',
         \A q \in Request \ {r} : call'[q] = call[q],
         call'[r].pc = "idle",
         UNCHANGED <<batch, result, faults>>,
         NEW f \in Run, record[f].status # "none",
         record' \in [Run -> Record],
         \A k \in Run \ {f} : record'[k] = record[k],
         record'[f].adapters = record[f].adapters,
         \/ record'[f].status \in Active /\ UNCHANGED slot
         \/ /\ record'[f].status \in Terminal
            /\ slot' = ReleasedSlot /\ slot.status # "absent" /\ slot.run = f,
         \/ /\ record'[f].status \notin {"succeeded", "partial", "invalid"}
            /\ record'[f].version = record[f].version
            /\ record'[f].children = record[f].children
         \/ /\ record'[f].status = RunStatus(result[f])
            /\ record'[f].version /\ result[f] # NoResult
            /\ Cardinality(record[f].adapters) > 1 =>
                 \A a \in record[f].adapters : record'[f].children[a] = result[f][a]
  PROVE  IInv'
<1>1. slot \in Slot /\ slot' \in Slot
  BY DEF IInv, TypeOK, Slot, ReleasedSlot
<1>2. record'[f].status # "none"
  BY DEF Active, Terminal
<1>3. TypeOK'
  BY <1>1 DEF IInv, TypeOK, CallsOK
<1>4. CallWrites' /\ SubmittedOnce'
  BY DEF IInv, CallWrites, SubmittedOnce
<1>5. RecordedFirst'
  <2>1. \A k \in Run : batch'[k] # "none" => record'[k].status # "none"
    BY <1>2 DEF IInv, RecordedFirst
  <2>2. \A k \in Run : record'[k].status # "none" => record'[k].adapters \in Selections
    BY DEF IInv, RecordedFirst
  <2>3. ASSUME NEW q \in Request, call'[q].pc \notin {"idle", "reserve"}
        PROVE  record'[call'[q].run].status # "none"
    BY <1>2, <2>3, CallsType DEF IInv, RecordedFirst, CallsOK
  <2> QED
    BY <2>1, <2>2, <2>3 DEF RecordedFirst
<1>6. DocumentFits'
  BY DEF IInv, DocumentFits
<1>7. ActiveSlotHasLiveRun'
  <2>1. CASE UNCHANGED slot /\ record'[f].status \in Active
    BY <2>1 DEF IInv, ActiveSlotHasLiveRun, Active, Terminal
  <2>2. CASE slot' = ReleasedSlot
    BY <1>1, <2>2 DEF ActiveSlotHasLiveRun, ReleasedSlot, Slot
  <2> QED
    BY <2>1, <2>2
<1>8. VerdictHasDocument'
  <2> SUFFICES ASSUME NEW k \in Run
      PROVE  /\ record'[k].status \in {"succeeded", "partial", "invalid"} =>
                  record'[k].version /\ record'[k].status = RunStatus(result[k])
             /\ record'[k].version =>
                  /\ result[k] # NoResult
                  /\ DOMAIN result[k] = record'[k].adapters
                  /\ Cardinality(record'[k].adapters) > 1 =>
                       \A a \in record'[k].adapters : record'[k].children[a] = result[k][a]
    BY DEF VerdictHasDocument
  <2>1. CASE k # f
    BY <2>1 DEF IInv, VerdictHasDocument
  <2>2. CASE k = f
    BY <2>2 DEF IInv, VerdictHasDocument, DocumentFits
  <2> QED
    BY <2>1, <2>2
<1> QED
  BY <1>3, <1>4, <1>5, <1>6, <1>7, <1>8 DEF IInv

LEMMA FailStep ==
  ASSUME TypeOK, NEW f \in Run, Fail(f)
  PROVE  /\ record' \in [Run -> Record]
         /\ \A k \in Run \ {f} : record'[k] = record[k]
         /\ record'[f].adapters = record[f].adapters
         /\ record'[f].status = "failed"
         /\ record'[f].version = record[f].version
         /\ record'[f].children = record[f].children
         /\ slot' = ReleasedSlot
<1> DEFINE y == [record[f] EXCEPT !.status = "failed"]
<1>1. record \in [Run -> Record]
  BY DEF TypeOK
<1>2. /\ y \in Record /\ y.status = "failed" /\ y.adapters = record[f].adapters
      /\ y.version = record[f].version /\ y.children = record[f].children
  BY <1>1 DEF Record, RunStatuses, Terminal
<1>3. record' = [record EXCEPT ![f] = y]
  BY DEF Fail
<1> HIDE DEF y
<1> QED
  BY <1>1, <1>2, <1>3 DEF Fail

LEMMA FailInvariant ==
  ASSUME IInv, NEW r \in Request, ReleaseFailed(r)
  PROVE  IInv'
<1> DEFINE f == call[r].run
<1>1. CallsOK /\ call[r].pc = "release" /\ f \in Run /\ record[f].status # "none"
  BY CallsType DEF IInv, ReleaseFailed, CallsOK, RecordedFirst
<1>2. /\ CallsOK' /\ \A q \in Request \ {r} : call'[q] = call[q]
      /\ call'[r].pc = "idle"
  BY <1>1, ReturnStep DEF ReleaseFailed
<1>3. UNCHANGED <<batch, result, faults>>
  BY DEF ReleaseFailed, cloud
<1>4. CASE UNCHANGED table
  <2>1. UNCHANGED <<record, slot>>
    BY <1>4 DEF table
  <2>2. TypeOK'
    BY <1>2, <1>3, <2>1 DEF IInv, TypeOK, CallsOK
  <2> QED
    BY <1>2, <1>3, <2>1, <2>2
       DEF IInv, CallWrites, RecordedFirst, DocumentFits, ActiveSlotHasLiveRun,
           VerdictHasDocument, SubmittedOnce
<1>5. CASE HoldsSlot(f) /\ Fail(f)
  <2>1. slot.status # "absent" /\ slot.run = f
    BY <1>5 DEF HoldsSlot
  <2>2. "failed" \in Terminal /\ "failed" \notin {"succeeded", "partial", "invalid"}
    BY DEF Terminal
  <2> QED
    BY <1>1, <1>2, <1>3, <1>5, <2>1, <2>2, FailStep, StatusInvariant DEF IInv
<1> QED
  BY <1>4, <1>5 DEF ReleaseFailed

\* The children of a document are those of the record's adapters.
LEMMA ChildrenType ==
  ASSUME IInv, NEW f \in Run, result[f] # NoResult
  PROVE  /\ Children(f) \in [Adapter -> {"none", "queued"} \cup ModelStatuses]
         /\ Cardinality(record[f].adapters) > 1 =>
              \A a \in record[f].adapters : Children(f)[a] = result[f][a]
<1>1. record[f] \in Record /\ result[f] \in Documents
  BY DEF IInv, TypeOK
<1>2. DOMAIN result[f] = record[f].adapters /\ record[f].adapters \subseteq Adapter
  BY <1>1 DEF IInv, DocumentFits, Record
<1>3. PICK A \in Selections : result[f] \in [A -> ModelStatuses]
  BY <1>1 DEF Documents
<1>4. \A a \in DOMAIN result[f] : result[f][a] \in ModelStatuses
  BY <1>3
<1>5. CASE Cardinality(record[f].adapters) > 1
  <2>1. Children(f) = [a \in Adapter |-> IF a \in DOMAIN result[f] THEN result[f][a] ELSE "none"]
    BY <1>5 DEF Children
  <2> QED
    BY <1>2, <1>4, <2>1
<1>6. CASE ~(Cardinality(record[f].adapters) > 1)
  <2>1. Children(f) = record[f].children
    BY <1>6 DEF Children
  <2> QED
    BY <1>1, <1>6, <2>1 DEF Record
<1> QED
  BY <1>5, <1>6

LEMMA TerminalizeInvariant ==
  ASSUME IInv, NEW r \in Request, Terminalize(r)
  PROVE  IInv'
<1> DEFINE f == call[r].run
<1>1. /\ CallsOK /\ call[r].pc = "terminalize" /\ f \in Run
      /\ record[f].status # "none" /\ result[f] # NoResult
  BY CallsType DEF IInv, Terminalize, CallsOK, RecordedFirst, CallWrites
<1>2. /\ CallsOK' /\ \A q \in Request \ {r} : call'[q] = call[q]
      /\ call'[r].pc = "idle"
  BY <1>1, ReturnStep DEF Terminalize
<1>3. UNCHANGED <<batch, result, faults>>
  BY DEF Terminalize, cloud
<1>4. CASE UNCHANGED table
  <2>1. UNCHANGED <<record, slot>>
    BY <1>4 DEF table
  <2>2. TypeOK'
    BY <1>2, <1>3, <2>1 DEF IInv, TypeOK, CallsOK
  <2> QED
    BY <1>2, <1>3, <2>1, <2>2
       DEF IInv, CallWrites, RecordedFirst, DocumentFits, ActiveSlotHasLiveRun,
           VerdictHasDocument, SubmittedOnce
<1>5. CASE /\ HoldsSlot(f)
           /\ record' = [record EXCEPT ![f].status = RunStatus(result[f]),
                                       ![f].version = TRUE,
                                       ![f].children = Children(f)]
           /\ slot' = ReleasedSlot
  <2> DEFINE y == [record[f] EXCEPT !.status = RunStatus(result[f]), !.version = TRUE,
                                    !.children = Children(f)]
  <2>1. slot.status # "absent" /\ slot.run = f
    BY <1>5 DEF HoldsSlot
  <2>2. RunStatus(result[f]) \in Terminal
    BY RunStatusType
  <2>3. /\ Children(f) \in [Adapter -> {"none", "queued"} \cup ModelStatuses]
        /\ Cardinality(record[f].adapters) > 1 =>
             \A a \in record[f].adapters : Children(f)[a] = result[f][a]
    BY <1>1, ChildrenType
  <2>4. record \in [Run -> Record]
    BY DEF IInv, TypeOK
  <2>5. /\ y \in Record /\ y.status = RunStatus(result[f]) /\ y.version
        /\ y.children = Children(f) /\ y.adapters = record[f].adapters
    BY <1>1, <2>2, <2>3, <2>4 DEF Record, RunStatuses
  <2>6. record' = [record EXCEPT ![f] = y]
    BY <1>5
  <2> HIDE DEF y
  <2>7. /\ record' \in [Run -> Record]
        /\ \A k \in Run \ {f} : record'[k] = record[k]
        /\ record'[f] = y
    BY <1>1, <2>4, <2>5, <2>6
  <2>8. slot' = ReleasedSlot /\ record'[f].status \in Terminal
    BY <1>5, <2>2, <2>5, <2>7
  <2>9. /\ record'[f].status = RunStatus(result[f]) /\ record'[f].version
        /\ record'[f].adapters = record[f].adapters
        /\ Cardinality(record[f].adapters) > 1 =>
             \A a \in record[f].adapters : record'[f].children[a] = result[f][a]
    BY <2>3, <2>5, <2>7
  <2> HIDE DEF f
  <2> QED
    BY <1>1, <1>2, <1>3, <2>1, <2>7, <2>8, <2>9, StatusInvariant
<1> QED
  BY <1>4, <1>5 DEF Terminalize

LEMMA MarkInvariant ==
  ASSUME IInv, NEW r \in Request, Mark(r)
  PROVE  IInv'
<1> DEFINE f == call[r].run
           y == [record[f] EXCEPT !.status = call[r].status]
<1>1. /\ CallsOK /\ call[r].pc = "mark" /\ f \in Run
      /\ record[f].status # "none" /\ call[r].status \in Active
  BY CallsType DEF IInv, Mark, CallsOK, RecordedFirst, CallWrites
<1>2. /\ CallsOK' /\ \A q \in Request \ {r} : call'[q] = call[q]
      /\ call'[r].pc = "idle"
  BY <1>1, ReturnStep DEF Mark
<1>3. UNCHANGED <<slot, batch, result, faults>> /\ record \in [Run -> Record]
  BY DEF IInv, TypeOK, Mark, cloud
<1>4. /\ y \in Record /\ y.status \in Active /\ y.version = record[f].version
      /\ y.children = record[f].children /\ y.adapters = record[f].adapters
  BY <1>1, <1>3 DEF Record, RunStatuses
<1>5. record' = [record EXCEPT ![f] = y]
  BY DEF Mark
<1> HIDE DEF y
<1>6. /\ record' \in [Run -> Record]
      /\ \A k \in Run \ {f} : record'[k] = record[k]
      /\ record'[f] = y
  BY <1>1, <1>3, <1>4, <1>5
<1>7. y.status \notin {"succeeded", "partial", "invalid"}
  BY <1>4 DEF Active
<1> QED
  BY <1>1, <1>2, <1>3, <1>4, <1>6, <1>7, StatusInvariant

LEMMA PublishInvariant ==
  ASSUME IInv, NEW r \in Request, PublishBatchId(r)
  PROVE  IInv'
<1> DEFINE f == call[r].run
           y == [record[f] EXCEPT !.status = "submitted", !.batch = TRUE]
<1>1. CallsOK /\ call[r].pc = "publish" /\ f \in Run /\ record[f].status # "none"
  BY CallsType DEF IInv, PublishBatchId, CallsOK, RecordedFirst
<1>2. UNCHANGED <<slot, batch, result, faults>> /\ record \in [Run -> Record]
  BY DEF IInv, TypeOK, PublishBatchId, cloud
<1>3. CASE /\ record' = [record EXCEPT ![f].status = "submitted", ![f].batch = TRUE]
           /\ Return(r)
  <2>1. /\ y \in Record /\ y.status = "submitted" /\ y.version = record[f].version
        /\ y.children = record[f].children /\ y.adapters = record[f].adapters
    BY <1>1, <1>2 DEF Record, RunStatuses, Active
  <2>2. record' = [record EXCEPT ![f] = y]
    BY <1>3
  <2> HIDE DEF y
  <2>3. /\ record' \in [Run -> Record]
        /\ \A k \in Run \ {f} : record'[k] = record[k]
        /\ record'[f] = y
    BY <1>1, <1>2, <2>1, <2>2
  <2>4. "submitted" \in Active /\ "submitted" \notin {"succeeded", "partial", "invalid"}
    BY DEF Active
  <2>5. /\ CallsOK' /\ \A q \in Request \ {r} : call'[q] = call[q]
        /\ call'[r].pc = "idle"
    BY <1>1, <1>3, ReturnStep
  <2> QED
    BY <1>1, <1>2, <2>1, <2>3, <2>4, <2>5, StatusInvariant
<1>4. CASE Goto(r, "release") /\ UNCHANGED record
  <2>1. /\ CallsOK' /\ \A q \in Request \ {r} : call'[q] = call[q]
        /\ call'[r].pc = "release" /\ call'[r].run = f
    BY <1>1, <1>4, GotoStep DEF Points
  <2>2. TypeOK'
    BY <1>2, <1>4, <2>1 DEF IInv, TypeOK, CallsOK
  <2> QED
    BY <1>1, <1>2, <1>4, <2>1, <2>2
       DEF IInv, CallWrites, RecordedFirst, DocumentFits, ActiveSlotHasLiveRun,
           VerdictHasDocument, SubmittedOnce
<1> QED
  BY <1>3, <1>4 DEF PublishBatchId

-----------------------------------------------------------------------------
(* The other steps *)

\* A request that only looks learns what it may write.
LEMMA LookInvariant ==
  ASSUME IInv, NEW r \in Request, CallsOK',
         UNCHANGED <<record, slot, batch, result>>,
         faults' \in [stops : 0 .. MaxStops, lapses : 0 .. MaxLapses],
         \A q \in Request \ {r} : call'[q] = call[q],
         call'[r].pc # "submit",
         call'[r].pc \notin {"idle", "reserve"} => record[call'[r].run].status # "none",
         call'[r].pc = "mark" => call'[r].status \in Active,
         call'[r].pc = "terminalize" => result[call'[r].run] # NoResult
  PROVE  IInv'
<1>1. TypeOK'
  BY DEF IInv, TypeOK, CallsOK
<1>2. CallWrites' /\ RecordedFirst'
  BY DEF IInv, CallWrites, RecordedFirst
<1>3. SubmittedOnce'
  BY DEF IInv, SubmittedOnce
<1>4. DocumentFits' /\ ActiveSlotHasLiveRun' /\ VerdictHasDocument'
  BY DEF IInv, DocumentFits, ActiveSlotHasLiveRun, VerdictHasDocument
<1> QED
  BY <1>1, <1>2, <1>3, <1>4 DEF IInv

LEMMA PollInvariant ==
  ASSUME IInv, NEW r \in Request,
         NEW f \in Run, CreateLook(r, f) \/ PollLook(r, f)
  PROVE  IInv'
<1>1. CallsOK /\ UNCHANGED <<record, slot, batch, result, faults>>
  BY CallsType DEF IInv, CreateLook, PollLook, table, cloud
<1>2. faults' \in [stops : 0 .. MaxStops, lapses : 0 .. MaxLapses]
  BY <1>1 DEF IInv, TypeOK
<1>3. PICK p \in {"reserve", "describe"} :
        Begin(r, p, f) /\ (p = "describe" => record[f].status # "none")
  BY DEF CreateLook, PollLook, Terminal
<1> DEFINE c == [Idle EXCEPT !.pc = p, !.run = f]
<1>4. c \in Call /\ c.run = f /\ c.pc = p
  BY DEF Idle, Call, Points
<1>5. call' = [call EXCEPT ![r] = c]
  BY <1>3 DEF Begin
<1> HIDE DEF c
<1>6. CallsOK' /\ call'[r] = c /\ \A q \in Request \ {r} : call'[q] = call[q]
  BY <1>1, <1>4, <1>5, CallStep
<1> QED
  BY <1>1, <1>2, <1>3, <1>4, <1>6, LookInvariant

LEMMA ReadInvariant ==
  ASSUME IInv, NEW r \in Request, Describe(r) \/ ReadResult(r)
  PROVE  IInv'
<1> DEFINE f == call[r].run
<1>1. /\ CallsOK /\ call[r].pc \in {"describe", "read"} /\ f \in Run
      /\ record[f].status # "none"
      /\ UNCHANGED <<record, slot, batch, result, faults>>
  BY CallsType DEF IInv, Describe, ReadResult, CallsOK, RecordedFirst, table, cloud
<1>2. faults' \in [stops : 0 .. MaxStops, lapses : 0 .. MaxLapses]
  BY <1>1 DEF IInv, TypeOK
<1>3. CASE Return(r)
  BY <1>1, <1>2, <1>3, ReturnStep, LookInvariant
<1>4. CASE Goto(r, "terminalize") /\ result[f] # NoResult
  <2>1. /\ CallsOK' /\ \A q \in Request \ {r} : call'[q] = call[q]
        /\ call'[r].pc = "terminalize" /\ call'[r].run = f
    BY <1>1, <1>4, GotoStep DEF Points
  <2> QED
    BY <1>1, <1>2, <1>4, <2>1, LookInvariant
<1>5. CASE Describe(r)
  <2> DEFINE s == IF NextStep(f) = "mark" THEN Shown(f) ELSE "none"
             c == [call[r] EXCEPT !.pc = NextStep(f), !.status = s]
  <2>1. /\ NextStep(f) \in {"mark", "read", "release"}
        /\ Shown(f) \in Active
    BY DEF NextStep, Shown, Active
  <2>2. s \in {"none"} \cup Active /\ (NextStep(f) = "mark" => s \in Active)
    BY <2>1
  <2>3. call' = [call EXCEPT ![r] = c]
    BY <1>5 DEF Describe
  <2> HIDE DEF s
  <2>4. c \in Call /\ c.pc = NextStep(f) /\ c.run = f /\ c.status = s
    BY <1>1, <2>1, <2>2 DEF CallsOK, Call, Points
  <2> HIDE DEF c
  <2>5. CallsOK' /\ call'[r] = c /\ \A q \in Request \ {r} : call'[q] = call[q]
    BY <1>1, <2>3, <2>4, CallStep
  <2> QED
    BY <1>1, <1>2, <2>1, <2>2, <2>4, <2>5, LookInvariant
<1> QED
  BY <1>3, <1>4, <1>5 DEF ReadResult

LEMMA StopInvariant ==
  ASSUME IInv, NEW r \in Request, Stop(r)
  PROVE  IInv'
<1>1. CallsOK /\ UNCHANGED <<record, slot, batch, result>>
  BY CallsType DEF IInv, Stop, table, cloud
<1>2. faults' \in [stops : 0 .. MaxStops, lapses : 0 .. MaxLapses]
  BY RunBoundAssumption DEF IInv, TypeOK, Stop
<1>3. /\ CallsOK' /\ \A q \in Request \ {r} : call'[q] = call[q]
      /\ call'[r].pc = "idle"
  BY <1>1, ReturnStep DEF Stop
<1> QED
  BY <1>1, <1>2, <1>3, LookInvariant

LEMMA BatchInvariant ==
  ASSUME IInv, NEW f \in Run, Batch(f) \/ BatchForgets(f)
  PROVE  IInv'
<1>1. UNCHANGED <<record, slot, call, faults>>
  BY DEF Batch, BatchForgets, BatchShows, BatchStarts, WorkerPublishes, WorkerReturns,
         WorkerFails, table
<1>2. CASE WorkerPublishes(f)
  <2> DEFINE A == record[f].adapters
  <2>1. PICK document \in [A -> ModelStatuses] :
          result' = [result EXCEPT ![f] = document]
    BY <1>2 DEF WorkerPublishes
  <2>2. /\ result \in [Run -> {NoResult} \cup Documents] /\ result[f] = NoResult
        /\ batch[f] # "none" /\ UNCHANGED batch
    BY <1>2 DEF IInv, TypeOK, WorkerPublishes
  <2>3. A \in Selections
    BY <2>2 DEF IInv, RecordedFirst
  <2>4. document \in Documents /\ DOMAIN document = A
    BY <2>3 DEF Documents
  <2>5. /\ result' \in [Run -> {NoResult} \cup Documents]
        /\ result'[f] = document
        /\ \A k \in Run \ {f} : result'[k] = result[k]
    BY <2>1, <2>2, <2>4
  <2>6. TypeOK'
    BY <1>1, <2>2, <2>5 DEF IInv, TypeOK
  <2>7. DocumentFits'
    BY <1>1, <2>2, <2>4, <2>5 DEF IInv, DocumentFits
  <2>8. CallWrites'
    BY <1>1, <2>2, <2>5, CallsType DEF IInv, CallWrites, CallsOK
  <2>9. VerdictHasDocument'
    <3>1. ~record[f].version
      BY <2>2 DEF IInv, VerdictHasDocument
    <3>2. record[f].status \notin {"succeeded", "partial", "invalid"}
      BY <3>1 DEF IInv, VerdictHasDocument
    <3> QED
      BY <1>1, <2>5, <3>1, <3>2 DEF IInv, VerdictHasDocument
  <2> QED
    BY <1>1, <2>2, <2>6, <2>7, <2>8, <2>9
       DEF IInv, RecordedFirst, ActiveSlotHasLiveRun, SubmittedOnce
<1>3. CASE BatchShows(f) \/ BatchStarts(f) \/ WorkerReturns(f) \/ WorkerFails(f)
           \/ BatchForgets(f)
  <2>1. /\ UNCHANGED result /\ batch \in [Run -> BatchStates]
        /\ batch[f] # "none"
        /\ \E b \in BatchStates \ {"none"} : batch' = [batch EXCEPT ![f] = b]
    BY <1>3 DEF IInv, TypeOK, BatchShows, BatchStarts, WorkerReturns, WorkerFails,
                BatchForgets, BatchStates
  <2>2. /\ batch' \in [Run -> BatchStates]
        /\ \A k \in Run : batch'[k] = "none" <=> batch[k] = "none"
    BY <2>1
  <2>3. TypeOK'
    BY <1>1, <2>1, <2>2 DEF IInv, TypeOK
  <2>4. RecordedFirst' /\ SubmittedOnce'
    BY <1>1, <2>2, CallsType DEF IInv, RecordedFirst, SubmittedOnce, CallsOK
  <2>5. DocumentFits'
    BY <1>1, <2>1, <2>2 DEF IInv, DocumentFits
  <2> QED
    BY <1>1, <2>1, <2>3, <2>4, <2>5
       DEF IInv, CallWrites, ActiveSlotHasLiveRun, VerdictHasDocument
<1> QED
  BY <1>2, <1>3 DEF Batch

LEMMA TimeInvariant ==
  ASSUME IInv, SlotLapses \/ SlotRemoved
  PROVE  IInv'
<1>1. UNCHANGED <<record, batch, result, call>>
  BY DEF SlotLapses, SlotRemoved, cloud
<1>2. slot' \in Slot
  <2>1. slot \in Slot
    BY DEF IInv, TypeOK
  <2>2. [slot EXCEPT !.lapsed = TRUE] \in Slot
    BY <2>1 DEF Slot
  <2>3. [status |-> "absent", run |-> NoRun, lapsed |-> FALSE] \in Slot
    BY DEF Slot
  <2> QED
    BY <2>2, <2>3 DEF SlotLapses, SlotRemoved
<1>3. faults' \in [stops : 0 .. MaxStops, lapses : 0 .. MaxLapses]
  BY RunBoundAssumption DEF IInv, TypeOK, SlotLapses, SlotRemoved
<1>4. TypeOK'
  BY <1>1, <1>2, <1>3 DEF IInv, TypeOK
<1>5. ActiveSlotHasLiveRun'
  BY <1>1 DEF IInv, TypeOK, Slot, ActiveSlotHasLiveRun, SlotLapses, SlotRemoved
<1> QED
  BY <1>1, <1>4, <1>5
     DEF IInv, CallWrites, RecordedFirst, DocumentFits, VerdictHasDocument, SubmittedOnce

LEMMA KeptInvariant ==
  ASSUME IInv, UNCHANGED vars
  PROVE  IInv'
BY DEF vars, IInv, TypeOK, CallWrites, RecordedFirst, DocumentFits,
       ActiveSlotHasLiveRun, VerdictHasDocument, SubmittedOnce

LEMMA NextInvariant ==
  ASSUME IInv, [Next]_vars
  PROVE  IInv'
BY ReserveInvariant, SubmitInvariant, PublishInvariant, FailInvariant,
   TerminalizeInvariant, MarkInvariant, PollInvariant, ReadInvariant, StopInvariant,
   BatchInvariant, TimeInvariant, KeptInvariant DEF Next, Step, Answer

LEMMA Invariant == Spec => []IInv
<1>1. IInv /\ [Next]_vars => IInv'
  BY NextInvariant
<1> QED
  BY InitInvariant, <1>1, PTL DEF Spec

-----------------------------------------------------------------------------
(* The theorems *)

\* Every variable of ForecastRuns keeps its type, for any number of runs, adapters,
\* requests, stops and lapses.
THEOREM TypeCorrect == Spec => []TypeOK
<1>1. IInv => TypeOK
  BY DEF IInv
<1> QED
  BY Invariant, <1>1, PTL

\* An active slot belongs to a run that has not ended: whichever request ends a run,
\* its status and the release of the slot are one transaction.
THEOREM SlotHasLiveRun == Spec => []ActiveSlotHasLiveRun
<1>1. IInv => ActiveSlotHasLiveRun
  BY DEF IInv
<1> QED
  BY Invariant, <1>1, PTL

\* What is recorded of a run that has a verdict, its children's statuses included, is
\* what one document says of the adapters that were asked for.
THEOREM VerdictIsFounded == Spec => []VerdictHasDocument
<1>1. IInv => VerdictHasDocument
  BY DEF IInv
<1> QED
  BY Invariant, <1>1, PTL

\* A request token starts at most one Batch job.
THEOREM TokenSubmitsOnce == Spec => []SubmittedOnce
<1>1. IInv => SubmittedOnce
  BY DEF IInv
<1> QED
  BY Invariant, <1>1, PTL

\* A slot whose lease has not run out is released only by the end of its run.
THEOREM ReleasedByOwner == Spec => ReleasedByItsRun
<1> DEFINE Ok == slot.status = "active" /\ ~slot.lapsed /\ slot'.status # "active" =>
                   slot'.run = slot.run /\ Ended(slot.run)'
<1>1. ASSUME IInv, [Next]_vars
      PROVE  [Ok]_vars
  <2> SUFFICES ASSUME Next PROVE Ok
    BY <1>1
  <2>1. CASE UNCHANGED slot
    BY <2>1
  <2>2. ASSUME NEW r \in Request, Reserve(r)
        PROVE  slot'.status = "active" \/ UNCHANGED slot
    <3> DEFINE f == call[r].run
               s == [status |-> "active", run |-> f, lapsed |-> FALSE]
    <3>1. slot' = s \/ UNCHANGED table
      BY <2>2, Zenon DEF Reserve
    <3>2. s.status = "active"
      OBVIOUS
    <3> HIDE DEF s
    <3> QED
      BY <3>1, <3>2 DEF table
  <2>3. ASSUME NEW f \in Run, slot' = ReleasedSlot, slot.run = f,
               record'[f].status \in Terminal
        PROVE  Ok
    <3>1. slot'.run = slot.run
      BY <1>1, <2>3 DEF ReleasedSlot, IInv, TypeOK, Slot
    <3> QED
      BY <2>3, <3>1 DEF Ended
  <2>4. ASSUME NEW r \in Request, ReleaseFailed(r)
        PROVE  Ok
    <3> DEFINE f == call[r].run
    <3>1. f \in Run
      BY <1>1, <2>4, CallsType DEF IInv, ReleaseFailed, CallsOK
    <3>2. CASE UNCHANGED table
      BY <2>1, <3>2 DEF table
    <3>3. CASE HoldsSlot(f) /\ Fail(f)
      BY <1>1, <2>3, <3>1, <3>3, FailStep DEF IInv, HoldsSlot, Terminal
    <3> QED
      BY <2>4, <3>2, <3>3 DEF ReleaseFailed
  <2>5. ASSUME NEW r \in Request, Terminalize(r)
        PROVE  Ok
    <3> DEFINE f == call[r].run
    <3>1. f \in Run /\ record \in [Run -> Record]
      BY <1>1, <2>5, CallsType DEF IInv, TypeOK, Terminalize, CallsOK
    <3>2. CASE UNCHANGED table
      BY <2>1, <3>2 DEF table
    <3>3. CASE /\ HoldsSlot(f) /\ slot' = ReleasedSlot
               /\ record' = [record EXCEPT ![f].status = RunStatus(result[f]),
                                           ![f].version = TRUE,
                                           ![f].children = Children(f)]
      <4> DEFINE s == RunStatus(result[f])
      <4>1. s \in Terminal
        BY RunStatusType
      <4> HIDE DEF s
      <4>2. record'[f].status = s
        BY <3>1, <3>3 DEF s, Record
      <4> QED
        BY <2>3, <3>1, <3>3, <4>1, <4>2 DEF HoldsSlot
    <3> QED
      BY <2>5, <3>2, <3>3 DEF Terminalize
  <2>6. CASE SlotLapses \/ SlotRemoved
    BY <1>1, <2>6 DEF SlotLapses, SlotRemoved, IInv, TypeOK, Slot
  <2>7. ASSUME NEW r \in Request,
               \/ \E f \in Run : CreateLook(r, f) \/ PollLook(r, f) \/ Answer(r, f)
               \/ Submit(r) \/ PublishBatchId(r) \/ Describe(r)
               \/ Mark(r) \/ ReadResult(r) \/ Stop(r)
        PROVE  UNCHANGED slot
    BY <2>7 DEF CreateLook, PollLook, Answer, Submit, PublishBatchId, Describe, Mark,
                ReadResult, Stop, table, vars
  <2>8. ASSUME NEW f \in Run, Batch(f) \/ BatchForgets(f)
        PROVE  UNCHANGED slot
    BY <2>8 DEF Batch, BatchShows, BatchStarts, WorkerPublishes, WorkerReturns,
                WorkerFails, BatchForgets, table
  <2> QED
    BY <2>1, <2>2, <2>4, <2>5, <2>6, <2>7, <2>8 DEF Next, Step
<1> QED
  BY Invariant, <1>1, PTL DEF Spec, ReleasedByItsRun
=============================================================================
