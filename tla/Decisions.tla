------------------------------- MODULE Decisions -------------------------------
(***************************************************************************)
(* The decisions of the forecast workers, the control plane, the agent and *)
(* the local gate, as functions of their inputs: a behaviour draws an input*)
(* and then looks at what is decided about it.  A module for TLC says which*)
(* inputs those are; here they are only known to be of the shape the code  *)
(* has parsed and validated before it decides.                             *)
(***************************************************************************)
EXTENDS ComparisonResults, ForecastEvaluation, AgentPlans

Local == INSTANCE Backtest

\* What is decided about, by its kind
CONSTANTS Comparisons, Evaluations, Panels, Files, Trainings, Plans, Advices, Experiments

VARIABLES input, decided

vars == <<input, decided>>

-----------------------------------------------------------------------------
(* The shape of an input *)

\* How an adapter of a comparison ended
Ending ==
  [ended : {"returned", "value_error", "error"}, supported : BOOLEAN,
   wape : Nat \cup {NoWape}, basis : Nat]

IsComparison(i) ==
  /\ IsFiniteSet(DOMAIN i.endings) /\ DOMAIN i.endings \subseteq Nat \ {NoAdapter}
  /\ \A a \in DOMAIN i.endings : i.endings[a] \in Ending
  /\ i.done \subseteq DOMAIN i.endings
  /\ i.error \in {"value_error", "error"}

HoldoutRow ==
  [entity : Int, actual : Nat \cup {Unobserved}, prediction : Nat, baseline : Nat]

Feature ==
  [kind : {"numeric", "categorical"}, shift : Nat, reference : Nat, fresh : Nat,
   outside : Nat]

\* Values outside the support are some of the values of the forecast's days.
IsCase(case) ==
  /\ case.rows \in Seq(HoldoutRow)
  /\ case.features \in Seq(Feature)
  /\ \A n \in DOMAIN case.features : case.features[n].outside <= case.features[n].fresh
  /\ IsFiniteSet(case.fresh) /\ IsFiniteSet(case.trained)

IsEvaluation(i) == IsCase(i.case)

Cell == [row : BOOLEAN, target : Nat \cup {Missing}, available : BOOLEAN, known : BOOLEAN]

IsPanel(i) ==
  /\ DOMAIN i.panel = {"end", "cells", "features"}
  /\ i.panel.end \in Int /\ i.panel.features \in BOOLEAN
  /\ IsFiniteSet(DOMAIN i.panel.cells)
  /\ \A e \in DOMAIN i.panel.cells :
       /\ IsFiniteSet(DOMAIN i.panel.cells[e]) /\ DOMAIN i.panel.cells[e] \subseteq Int
       /\ \A d \in DOMAIN i.panel.cells[e] :
            /\ i.panel.cells[e][d] \in Cell
            /\ i.panel.cells[e][d].row \/ i.panel.cells[e][d] = NoRow

\* Every entity of a file has a row, and has cells for a horizon before and after every
\* row of the file.
IsFile(i) ==
  /\ IsPanel(i)
  /\ \A e \in DOMAIN i.panel.cells :
       /\ \E d \in DOMAIN i.panel.cells[e] : i.panel.cells[e][d].row
       /\ \A k \in Rows(i.panel) :
            k[2] - Horizon .. k[2] + Horizon \subseteq DOMAIN i.panel.cells[e]

IsTraining(i) == i.sizes \in Seq(Nat) \ {<<>>}

IsPlan(i) ==
  /\ IsFiniteSet(DOMAIN i.profiles)
  /\ \A c \in DOMAIN i.profiles : i.profiles[c].bad \in {"none", "negative", "not_finite"}
  /\ i.mapping \in [Roles -> SUBSET Columns(i.mapping, Roles)]

IsAdvice(i) ==
  i.signals \in [rows : Nat, history : Nat, future : BOOLEAN, embeddings : BOOLEAN]

\* EvaluationSpec: an experiment has models and origins, and the days an origin
\* forecasts are within the experiment.  RidgeDirectConfig: there are lags and rolling
\* means.
IsLocalSpec(s) ==
  /\ s \in [start : Int, end : Int, horizon : Nat \ {0}, window : Nat,
           origins : SUBSET [role : {"calibration", "test"}, day : Int],
           lags : SUBSET (Nat \ {0}), rolling : SUBSET (Nat \ {0}),
           period : Nat \ {0}, average : Nat \ {0},
           feature : {"none", "past_only", "known_future", "static"},
           policy : {"assume_available", "available_only", "require_available"},
           column : BOOLEAN, asOf : Int, minimum : 0 .. 100,
           models : SUBSET {"seasonal_naive", "moving_average", "ridge_direct"}]
  /\ s.models # {} /\ s.origins # {}
  /\ s.lags # {} /\ IsFiniteSet(s.lags) /\ s.rolling # {} /\ IsFiniteSet(s.rolling)
  /\ \A o \in s.origins : s.start <= o.day /\ o.day + s.horizon - 1 <= s.end

LocalRow ==
  [copies : Nat, target : Int, known : Int, observed : {"yes", "no", "invalid"},
   value : Int, ready : Int]

IsExperiment(i) ==
  /\ IsLocalSpec(i.spec)
  /\ IsFiniteSet(DOMAIN i.data)
  /\ \A e \in DOMAIN i.data :
       /\ DOMAIN i.data[e] \subseteq Int
       /\ \A d \in DOMAIN i.data[e] : i.data[e][d] \in LocalRow

ASSUME InputAssumption ==
  /\ \A i \in Comparisons : i.kind = "comparison" /\ IsComparison(i)
  /\ \A i \in Evaluations : i.kind = "evaluation" /\ IsEvaluation(i)
  /\ \A i \in Panels : i.kind = "panel" /\ IsPanel(i)
  /\ \A i \in Files : i.kind = "file" /\ IsFile(i)
  /\ \A i \in Trainings : i.kind = "training" /\ IsTraining(i)
  /\ \A i \in Plans : i.kind = "plan" /\ IsPlan(i)
  /\ \A i \in Advices : i.kind = "advice" /\ IsAdvice(i)
  /\ \A i \in Experiments : i.kind = "experiment" /\ IsExperiment(i)

-----------------------------------------------------------------------------

Init ==
  /\ \/ input \in Comparisons \/ input \in Evaluations
     \/ input \in Panels \/ input \in Files \/ input \in Trainings
     \/ input \in Plans \/ input \in Advices
     \/ input \in Experiments
  /\ decided = FALSE

Decide == ~decided /\ decided' = TRUE /\ UNCHANGED input

Spec == Init /\ [][Decide]_vars

-----------------------------------------------------------------------------
(* Properties *)

Of(kind) == decided /\ input.kind = kind

\* Whatever its adapters did, the control plane accepts the document a worker leaves,
\* and the evidence in it (DocumentAccepted, EvidenceAccepted).
ResultAccepted ==
  /\ Of("comparison") => DocumentAccepted(input.endings, input.done, input.error)
  /\ Of("evaluation") => EvidenceAccepted(input.case)

\* The best adapter of a comparison is the best of those that can be compared.
BestReported == Of("comparison") => BestIsBest(input.endings, input.done, input.error)

\* A result is called ready only if nothing in it asks for attention.
NothingHidden == Of("evaluation") => AttentionComplete(input.case)

\* Models learn from, and predict with, what was known at their origin (panel.py,
\* backtest.py), but for two cases that are named: a whole history's median that stands
\* in for a baseline (RowLooksBack), and rows before the experiment of which nothing
\* says when they are known (ProvenOutside).
NoLookahead ==
  /\ Of("panel") => LooksBack(input.panel)
  /\ Of("experiment") => Local!Causal(input.spec, input.data)

\* What passes the gate of the local application runs to its end, and is scored on the
\* rows the gate counted (compute_gate, run_backtest).
GateForetells == Of("experiment") => Local!Foretold(input.spec, input.data)

\* Training keeps to its budget and its batches.
BatchesFit == Of("training") => TrainingFits(input.sizes)

\* A plan that may be confirmed can be requested, and an advice follows what the
\* objective asks for.
PlansHold ==
  /\ Of("plan") => PlanAccepted(input.profiles, {1}, input.mapping)
  /\ Of("advice") => AdviceFollows(input.signals)

\* A worker prepares the panel of a plan that is confirmed as it was drafted exactly if
\* the file is of the past only or ends in the future rows the agent asks for
\* (agent.py, _training_end and _apply_execution_role_guard; panel.py).
PlannedFilesRun == Of("file") => PlanRuns(input.panel)

-----------------------------------------------------------------------------
(* What the documentation says and the code does not do *)

\* README.md: a rolling origin uses only data available at it, and missing availability
\* proof blocks the run, on whatever day.
OriginsUseAvailable == Of("experiment") => Local!OnlyAvailable(input.spec, input.data)

\* The findings and warnings of a draft: target nulls are the forecast boundary, and
\* the days held back for them are future rows (orchestrator.py, agent.py).
NullsAreTheBoundary == Of("file") => NullsEndTraining(input.panel)
=============================================================================
