-------------------------------- MODULE Backtest --------------------------------
(***************************************************************************)
(* Experiments of the local application: the gate that lets an experiment  *)
(* run (compute_gate of experiments.py), the grid of what is to be scored  *)
(* (eligibility.py), and the models and scores of a run (backtest.py).     *)
(*                                                                         *)
(* data[e][d] is what the dataset says of entity e on day d: how often the *)
(* key occurs, the target, the day the target is known, whether the product*)
(* was available, the value of a feature and the day that value is known.  *)
(*                                                                         *)
(* spec is the experiment with its mapping: the days from train.start to   *)
(* test.end, the forecast origins, and what the mapping and the models are *)
(* configured to.  Times are whole days; what is available at event time is*)
(* known on the next day.  Resource limits, rows without a date or entity, *)
(* and values that cannot be parsed (which fail the gate and the run alike)*)
(* are left out.                                                           *)
(***************************************************************************)
EXTENDS Integers, Sequences, FiniteSetsExt

Missing == -1

\* An empty known-at cell, pandas' NaT, is in no order with any day: a comparison of
\* pandas with it is false, as -2 > d is for a day.
NoProof == -2

\* Before all days (Timestamp.min), for what is known at the origin or always
Ever == -3

NoRow == [copies |-> 0, target |-> Missing, known |-> NoProof, observed |-> "invalid",
          value |-> Missing, ready |-> NoProof]

At(data, e, d) == IF d \in DOMAIN data[e] THEN data[e][d] ELSE NoRow

DaysOf(data, e) == {d \in DOMAIN data[e] : data[e][d].copies > 0}

Entities(data) == {e \in DOMAIN data : DaysOf(data, e) # {}}

-----------------------------------------------------------------------------
(* compute_profile: what the gate takes from it *)

HasDuplicates(data) == \E e \in Entities(data) : \E d \in DaysOf(data, e) : data[e][d].copies > 1

HasGaps(data) ==
  \E e \in Entities(data) : Min(DaysOf(data, e)) .. Max(DaysOf(data, e)) # DaysOf(data, e)

-----------------------------------------------------------------------------
(* expected_grid *)

\* A cell of the grid with the day it forecasts
Grid(spec, data) ==
  {[origin |-> o, horizon |-> h, entity |-> e, day |-> o.day + h - 1] :
     o \in spec.origins, h \in 1 .. spec.horizon, e \in Entities(data)}

\* What is known of the product on a day with exactly one row
ObservedIn(data, e, d) ==
  LET row == At(data, e, d) IN IF row.copies = 1 THEN row.observed ELSE "invalid"

Included(spec, data) ==
  {c \in Grid(spec, data) :
     ~(spec.policy = "available_only" /\ ObservedIn(data, c.entity, c.day) = "no")}

-----------------------------------------------------------------------------
(* What the models read *)

\* _eligible_target
Eligible(row, cutoff) ==
  row.copies > 0 /\ row.target # Missing /\ ~(row.known > cutoff) /\ row.observed = "yes"

\* _feature_value is not None
Given(row, cutoff) == row.copies > 0 /\ row.value # Missing /\ ~(row.ready > cutoff)

\* The row a feature is read from, for a sample of day s and its label: a static one is
\* in the first row of its entity if the day has none.
FeatureRow(spec, data, e, s, label) ==
  CASE spec.feature = "past_only" -> At(data, e, s - 1)
    [] spec.feature = "known_future" -> At(data, e, label)
    [] spec.feature = "static" ->
         At(data, e, IF s \in DaysOf(data, e) THEN s ELSE Min(DaysOf(data, e)))

\* The days whose targets make up the lags and the rolling means
PastDays(spec, s) == {s - k : k \in spec.lags} \cup s - Max(spec.rolling) .. s - 1

\* _base_features is not None
HasExample(spec, data, e, s, label, cutoff) ==
  /\ \A d \in PastDays(spec, s) : Eligible(At(data, e, d), cutoff)
  /\ spec.feature # "none" => Given(FeatureRow(spec, data, e, s, label), cutoff)

\* _base_features: what an example is computed from
Example(spec, data, e, s, label) ==
  [entity |-> e, sample |-> s,
   past |-> [d \in PastDays(spec, s) |-> At(data, e, d).target],
   value |-> IF spec.feature = "none" THEN Missing
             ELSE FeatureRow(spec, data, e, s, label).value]

\* The samples of a fit
Samples(spec, origin, h) ==
  origin - spec.window + Max(spec.lags \cup spec.rolling) .. origin - h

\* Mutant: a sample sees what is known at the origin of the forecast.
TrainAtOrigin(spec, data, origin, h) ==
  {[x |-> Example(spec, data, k[1], k[2], k[2] + h - 1),
    y |-> At(data, k[1], k[2] + h - 1).target] :
     k \in {j \in Entities(data) \X Samples(spec, origin, h) :
              /\ Eligible(At(data, j[1], j[2] + h - 1), origin)
              /\ HasExample(spec, data, j[1], j[2], j[2] + h - 1, origin)}}

\* _ridge_design: the training rows and labels
Train(spec, data, origin, h) ==
  {[x |-> Example(spec, data, k[1], k[2], k[2] + h - 1),
    y |-> At(data, k[1], k[2] + h - 1).target] :
     k \in {j \in Entities(data) \X Samples(spec, origin, h) :
              /\ Eligible(At(data, j[1], j[2] + h - 1), origin)
              /\ HasExample(spec, data, j[1], j[2], j[2] + h - 1, j[2])}}

\* The day a seasonal naive forecast repeats: whole periods back, before the origin
Reference(spec, origin, h) ==
  Max({d \in {origin + h - 1 - spec.period * k : k \in 1 .. h + 1} : d < origin})

AverageDays(spec, origin) == origin - spec.average .. origin - 1

\* The entities a model predicts (_baseline_predictions, _ridge_design)
Predicted(spec, data, model, origin, h) ==
  {e \in Entities(data) :
     CASE model = "seasonal_naive" -> Eligible(At(data, e, Reference(spec, origin, h)), origin)
       [] model = "moving_average" ->
            \A d \in AverageDays(spec, origin) : Eligible(At(data, e, d), origin)
       [] model = "ridge_direct" ->
            HasExample(spec, data, e, origin, origin + h - 1, origin)}

\* What a prediction is computed from
Prediction(spec, data, model, origin, h, e) ==
  CASE model = "seasonal_naive" -> At(data, e, Reference(spec, origin, h)).target
    [] model = "moving_average" ->
         [d \in AverageDays(spec, origin) |-> At(data, e, d).target]
    [] model = "ridge_direct" ->
         [fit |-> Train(spec, data, origin, h),
          row |-> Example(spec, data, e, origin, origin + h - 1)]

-----------------------------------------------------------------------------
(* compute_gate *)

Relevant(spec, data, e) == DaysOf(data, e) \cap spec.start .. spec.end

\* The known-at day as the gate reads it: an empty cell is not in time.
InTime(known, cutoff) == known # NoProof /\ known <= cutoff

\* A row of a required day that blocks by itself
BadRow(spec, row, d) ==
  \/ row.target = Missing
  \/ spec.feature # "none" /\ (row.value = Missing \/ row.ready = NoProof)
  \/ row.known = NoProof \/ row.known < d + 1
  \/ row.observed = "invalid"

ChangingStatic(spec, data) ==
  /\ spec.feature = "static"
  /\ \E e \in Entities(data) : Cardinality({data[e][d].value : d \in DaysOf(data, e)}) > 1

\* A feature must be there when an origin needs it.
FeatureLate(spec, data) ==
  LET late(e, d, o) ==
        LET row == At(data, e, d) IN row.copies # 1 \/ ~InTime(row.ready, o.day)
  IN \/ /\ spec.feature = "past_only"
        /\ \E o \in spec.origins, e \in Entities(data) : late(e, o.day - 1, o)
     \/ /\ spec.feature = "static"
        /\ \E o \in spec.origins, e \in Entities(data) : late(e, o.day, o)
     \/ /\ spec.feature = "known_future"
        /\ \E c \in Included(spec, data) : late(c.entity, c.day, c.origin)

\* The reasons of the gate that look at the data
DataBlocks(spec, data) ==
  \/ (spec.policy = "assume_available") # ~spec.column
  \/ HasDuplicates(data) \/ HasGaps(data)
  \/ \E e \in Entities(data) : \E d \in Relevant(spec, data, e) : BadRow(spec, data[e][d], d)
  \/ ChangingStatic(spec, data)
  \/ FeatureLate(spec, data)
  \/ /\ spec.policy = "require_available"
     /\ \E c \in Included(spec, data) : ObservedIn(data, c.entity, c.day) # "yes"

\* model_feasibility, as the gate asks for it
ModelsFeasible(spec, data) ==
  \A o \in spec.origins, h \in 1 .. spec.horizon, m \in spec.models :
    /\ Cardinality(Predicted(spec, data, m, o.day, h)) = Cardinality(Entities(data))
    /\ m = "ridge_direct" => Cardinality(Train(spec, data, o.day, h)) >= 2

\* Mutant: an actual counts whenever it is known.
ScorableAnyTime(spec, data) ==
  {c \in Included(spec, data) :
     LET row == At(data, c.entity, c.day)
     IN row.copies = 1 /\ row.observed = "yes" /\ row.target # Missing}

\* The cells the gate expects a score of (score_rows)
Scorable(spec, data) ==
  {c \in Included(spec, data) :
     LET row == At(data, c.entity, c.day)
     IN /\ row.copies = 1 /\ row.observed = "yes"
        /\ row.target # Missing /\ InTime(row.known, spec.asOf)}

\* minimum is in percent; nothing of nothing covers nothing.
Covers(spec, scored, expected) ==
  IF expected = {} THEN spec.minimum = 0
  ELSE 100 * Cardinality(scored) >= spec.minimum * Cardinality(expected)

Passed(spec, data) ==
  /\ ~DataBlocks(spec, data)
  /\ ModelsFeasible(spec, data)
  /\ Covers(spec, Scorable(spec, data), Included(spec, data))

-----------------------------------------------------------------------------
(* run_backtest and _metric_records *)

\* The rows of a model: what it predicts and what can be compared with an actual.  The
\* loops are not over the grid: a cell that is not included may have a row.  Seeds only
\* repeat them.
RowsOf(spec, data, model) ==
  {c \in Grid(spec, data) :
     /\ c.entity \in Predicted(spec, data, model, c.origin.day, c.horizon)
     /\ Eligible(At(data, c.entity, c.day), spec.asOf)}

\* The rows scores are computed from: those every model has
CommonRows(spec, data) ==
  {c \in Grid(spec, data) : \A m \in spec.models : c \in RowsOf(spec, data, m)}

\* _ridge_predictions raises without a training row.
RunFails(spec, data) ==
  /\ "ridge_direct" \in spec.models
  /\ \E o \in spec.origins, h \in 1 .. spec.horizon : Train(spec, data, o.day, h) = {}

-----------------------------------------------------------------------------
(* Properties *)

\* What the gate promises of a run: it ends, its models are compared on the very rows
\* the gate counted, and no model loses a row because of another one.
Foretold(spec, data) ==
  Passed(spec, data) =>
    /\ ~RunFails(spec, data)
    /\ \A m \in spec.models : RowsOf(spec, data, m) = Scorable(spec, data)
    /\ Covers(spec, CommonRows(spec, data), Included(spec, data))

\* The data without what is not known on a day: what becomes known later, and what no
\* cell proves to be known at all.
Until(data, day) ==
  [e \in DOMAIN data |->
     [d \in DOMAIN data[e] |->
        [data[e][d] EXCEPT !.target = IF InTime(data[e][d].known, day) THEN @ ELSE Missing,
                           !.value = IF InTime(data[e][d].ready, day) THEN @ ELSE Missing]]]

\* In a run that the gate lets through, only what is known at its origin makes a
\* prediction, and only what is known on the day of a sample is learned from it.
OnlyAvailable(spec, data) ==
  Passed(spec, data) =>
    \A o \in spec.origins, h \in 1 .. spec.horizon :
      /\ \A m \in spec.models, e \in Entities(data) :
           Prediction(spec, data, m, o.day, h, e)
             = Prediction(spec, Until(data, o.day), m, o.day, h, e)
      /\ "ridge_direct" \in spec.models =>
           \A t \in Train(spec, data, o.day, h) :
             t.x = Example(spec, Until(data, t.x.sample), t.x.entity, t.x.sample,
                           t.x.sample + h - 1)

\* Every row outside train.start to test.end says when it is known.  The gate asks for
\* that within these days only, and the models read rows of earlier days as well.
ProvenOutside(spec, data) ==
  \A e \in Entities(data) : \A d \in DaysOf(data, e) \ (spec.start .. spec.end) :
    /\ data[e][d].known # NoProof
    /\ spec.feature # "none" => data[e][d].ready # NoProof

Causal(spec, data) == ProvenOutside(spec, data) => OnlyAvailable(spec, data)
=============================================================================
