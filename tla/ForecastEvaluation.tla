-------------------------- MODULE ForecastEvaluation --------------------------
(***************************************************************************)
(* The evidence a worker derives from a forecast and its holdout           *)
(* (src/vonavy_agent/forecasting/evaluation.py), its validation and its    *)
(* review by the control plane                                             *)
(* (infra/lambda/forecast_control_plane/handler.py).                       *)
(*                                                                         *)
(* A case is a record                                                      *)
(*   [rows, features, fresh, trained]                                      *)
(* of the holdout's rows (a sequence of [entity, actual, prediction,       *)
(* baseline], an actual may be Unobserved), the features (a sequence in the*)
(* order of their names), the entities that are forecast and those the     *)
(* adapter learned from.  A feature is [kind, shift, reference, fresh,     *)
(* outside]: the standardised shift of a numeric one in hundredths, its    *)
(* values in training and in the forecast, and those outside the support.  *)
(* Ratios are pairs of a numerator and a denominator, which is 0 if there  *)
(* is no such ratio.                                                       *)
(***************************************************************************)
EXTENDS Integers, Sequences, FiniteSetsExt, SequencesExt

CONSTANTS MaxEntityDiagnostics,  \* MAX_ENTITY_DIAGNOSTICS
          MaxFeatureShifts       \* MAX_FEATURE_SHIFTS

ASSUME EvidenceAssumption ==
  MaxEntityDiagnostics \in Nat \ {0} /\ MaxFeatureShifts \in Nat \ {0}

Unobserved == -1

Higher(x, y) == x[2] > 0 /\ (y[2] > 0 => x[1] * y[2] > y[1] * x[2])

\* The elements of a set in an order: n - 1 of them are earlier than the n-th.
Ordered(S, Earlier(_, _)) ==
  [n \in 1 .. Cardinality(S) |->
     CHOOSE x \in S : Cardinality({y \in S \ {x} : Earlier(y, x)}) = n - 1]

\* The first n of a sequence
FirstOf(s, n) == SubSeq(s, 1, Min({n, Len(s)}))

-----------------------------------------------------------------------------
(* evaluation.py *)

Measured(case) == {i \in DOMAIN case.rows : case.rows[i].actual # Unobserved}

RowsOf(case, e) == {i \in Measured(case) : case.rows[i].entity = e}

Distance(x, y) == IF x > y THEN x - y ELSE y - x

ErrorSum(case, rows, of) ==
  SumFunction([i \in rows |-> Distance(case.rows[i].actual, case.rows[i][of])])

Demand(case, rows) == SumFunction([i \in rows |-> case.rows[i].actual])

\* _wape: there is none without demand.
Wape(case, rows, of) ==
  IF Demand(case, rows) = 0 THEN <<0, 0>>
  ELSE <<ErrorSum(case, rows, of), Demand(case, rows)>>

\* _baseline_skill: a difference within one percent is a tie.
Skill(case) ==
  LET model == ErrorSum(case, Measured(case), "prediction")
      baseline == ErrorSum(case, Measured(case), "baseline")
      supported == Demand(case, Measured(case)) > 0 /\ baseline > 0
  IN [supported |-> supported,
      verdict |-> IF ~supported THEN "unavailable"
                  ELSE IF 100 * (baseline - model) > baseline THEN "better"
                  ELSE IF 100 * (model - baseline) > baseline THEN "worse"
                  ELSE "tied"]

Mae(case, e) == <<ErrorSum(case, RowsOf(case, e), "prediction"),
                  Cardinality(RowsOf(case, e))>>

EntityWape(case, e) == Wape(case, RowsOf(case, e), "prediction")

\* Mutant: the absolute error comes first.
WorseByMae(case, a, b) ==
  Higher(Mae(case, a), Mae(case, b)) \/ (~Higher(Mae(case, b), Mae(case, a)) /\ a < b)

\* The keys of _entity_diagnostics' order: the entity without demand is last.
Worse(case, a, b) ==
  \/ Higher(EntityWape(case, a), EntityWape(case, b))
  \/ /\ ~Higher(EntityWape(case, b), EntityWape(case, a))
     /\ \/ Higher(Mae(case, a), Mae(case, b))
        \/ ~Higher(Mae(case, b), Mae(case, a)) /\ a < b

\* _entity_diagnostics
WorstEntities(case) ==
  FirstOf(Ordered({case.rows[i].entity : i \in Measured(case)},
                  LAMBDA a, b : Worse(case, a, b)),
          MaxEntityDiagnostics)

\* _severity: 2 is a warning, 1 a notice.
Severity(feature) ==
  IF feature.kind = "categorical"
    THEN IF 10 * feature.outside >= feature.fresh THEN 2
         ELSE IF feature.outside > 0 THEN 1 ELSE 0
    ELSE IF feature.shift >= 200 THEN 2 ELSE IF feature.shift >= 100 THEN 1 ELSE 0

ShiftValue(feature) ==
  IF feature.kind = "categorical" THEN <<100 * feature.outside, feature.fresh>>
                                  ELSE <<feature.shift, 1>>

\* _feature_evidence: a feature without values on one of the sides is left out.
Evaluated(case) ==
  {i \in DOMAIN case.features : case.features[i].reference > 0 /\ case.features[i].fresh > 0}

ShiftBefore(case, i, j) ==
  LET x == ShiftValue(case.features[i])
      y == ShiftValue(case.features[j])
  IN \/ Severity(case.features[i]) > Severity(case.features[j])
     \/ /\ Severity(case.features[i]) = Severity(case.features[j])
        /\ Higher(x, y) \/ (~Higher(y, x) /\ i < j)

FeatureShifts(case) ==
  FirstOf(Ordered(Evaluated(case), LAMBDA i, j : ShiftBefore(case, i, j)),
          MaxFeatureShifts)

\* build_forecast_evaluation: the counts are over all entities and features.
Evidence(case) ==
  [skill |-> Skill(case),
   worst |-> [i \in DOMAIN WorstEntities(case) |->
                LET e == WorstEntities(case)[i]
                IN [wape |-> EntityWape(case, e), rows |-> Cardinality(RowsOf(case, e))]],
   entities |-> Cardinality(case.fresh),
   cold |-> Cardinality(case.fresh \ case.trained),
   outside |-> SumFunction([i \in Evaluated(case) |-> case.features[i].outside]),
   values |-> SumFunction([i \in Evaluated(case) |-> case.features[i].fresh]),
   shifts |-> [i \in DOMAIN FeatureShifts(case) |-> case.features[FeatureShifts(case)[i]]]]

-----------------------------------------------------------------------------
(* The control plane *)

\* _validated_result_evaluation
Accepted(evidence) ==
  /\ evidence.skill.supported <=> evidence.skill.verdict # "unavailable"
  /\ Len(evidence.worst) <= MaxEntityDiagnostics
  /\ Len(evidence.shifts) <= MaxFeatureShifts
  /\ evidence.cold <= evidence.entities
  /\ evidence.outside <= evidence.values
  /\ \A i \in DOMAIN evidence.worst : evidence.worst[i].rows >= 1
  /\ \A i \in DOMAIN evidence.shifts :
       LET shift == evidence.shifts[i]
       IN shift.reference >= 1 /\ shift.fresh >= 1 /\ shift.outside <= shift.fresh

\* _forecast_result_review: its findings that are warnings
Warnings(evidence) ==
  {w \in {"skill", "cold_start", "extrapolation", "shift", "worst_case"} :
     CASE w = "skill" -> evidence.skill.verdict = "worse"
       [] w = "cold_start" -> evidence.cold > 0 /\ 10 * evidence.cold >= evidence.entities
       [] w = "extrapolation" ->
            evidence.outside > 0 /\ 20 * evidence.outside >= evidence.values
       [] w = "shift" -> \E i \in DOMAIN evidence.shifts : Severity(evidence.shifts[i]) = 2
       [] w = "worst_case" ->
            /\ evidence.worst # <<>>
            /\ evidence.worst[1].wape[2] > 0
            /\ evidence.worst[1].wape[1] >= evidence.worst[1].wape[2]}

ReviewStatus(evidence) == IF Warnings(evidence) = {} THEN "ready" ELSE "needs_attention"

-----------------------------------------------------------------------------
(* Properties *)

\* The control plane accepts the evidence the worker derives; it would otherwise
\* refuse the result on every poll, and the run would never end (_terminalize).
EvidenceAccepted(case) == Accepted(Evidence(case))

\* The lists of the evidence are cut to a bound, yet a review that calls a result
\* ready has missed nothing: no entity's error is as large as its demand, no
\* feature has shifted, and the model is not worse than the baseline.
AttentionComplete(case) ==
  ReviewStatus(Evidence(case)) = "ready" =>
    /\ \A i \in Measured(case) :
         LET wape == EntityWape(case, case.rows[i].entity)
         IN wape[2] > 0 => wape[1] < wape[2]
    /\ \A i \in Evaluated(case) : Severity(case.features[i]) < 2
    /\ 100 * ErrorSum(case, Measured(case), "prediction")
         <= 101 * ErrorSum(case, Measured(case), "baseline")
       \/ ~Skill(case).supported
=============================================================================
