------------------------------ MODULE MCCloudJobs ------------------------------
(* One validation or one forecast run of an owner, under fairness.  The two kinds *)
(* share no state (each has its own handler, items and slot), so a behaviour is   *)
(* one of either: which of them moves is drawn once.                              *)
EXTENDS Naturals, TLC

CONSTANTS
  t1, r1, r2, a1, a2,   \* model values
  Token,                \* request tokens of the owner
  Request,              \* concurrent requests
  NoJob, NoResult, MaxStops, MaxLapses

VARIABLES
  moves,                                                      \* what was asked for
  vRecord, vSlot, vOld, vBatch, vResult, vCall, vFaults,      \* of the validations
  fRecord, fSlot, fBatch, fResult, fCall, fFaults             \* of the forecasts

Validation == INSTANCE ValidationJobs WITH
  Job <- Token,
  record <- vRecord, slot <- vSlot, old <- vOld, batch <- vBatch,
  result <- vResult, call <- vCall, faults <- vFaults

Forecast == INSTANCE ForecastRuns WITH
  Run <- Token, NoRun <- NoJob, Adapter <- {a1, a2}, Selections <- {{a1}, {a1, a2}},
  record <- fRecord, slot <- fSlot, batch <- fBatch,
  result <- fResult, call <- fCall, faults <- fFaults

vVars == <<vRecord, vSlot, vOld, vBatch, vResult, vCall, vFaults>>
fVars == <<fRecord, fSlot, fBatch, fResult, fCall, fFaults>>

Init == moves \in {"validation", "forecast"} /\ Validation!Init /\ Forecast!Init

Next ==
  \/ moves = "validation" /\ Validation!Next /\ UNCHANGED moves /\ UNCHANGED fVars
  \/ moves = "forecast" /\ Forecast!Next /\ UNCHANGED moves /\ UNCHANGED vVars

\* A kind that nothing was asked of has no fair step to take.
FairSpec ==
  /\ Init /\ [][Next]_<<moves, vVars, fVars>>
  /\ Validation!Fairness /\ Forecast!Fairness

\* Every validation that was recorded ends, or lost the slot when its lease ran out
\* (control_plane/handler.py; JobsEnd of ValidationJobs).
ValidationsEnd == Validation!JobsEnd

\* Every forecast run whose Batch job is known ends, or lost the slot to another run
\* when its lease ran out (forecast_control_plane/handler.py; RunsEnd of ForecastRuns).
ForecastsEnd == Forecast!RunsEnd
=============================================================================
