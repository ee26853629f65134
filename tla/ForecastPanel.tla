----------------------------- MODULE ForecastPanel -----------------------------
(***************************************************************************)
(* The daily panel the forecasting adapters are trained and evaluated on   *)
(* (src/vonavy_agent/forecasting/panel.py), and what chronos2.py and       *)
(* neural_net.py select from it.                                           *)
(*                                                                         *)
(* A panel is a record                                                     *)
(*   [end, cells, features]                                                *)
(* the day training ends, a cell for every entity and day (what the file   *)
(* says of it, NoRow if nothing) and whether the mapping has known-future  *)
(* columns.  Days are numbers; an observation is a number or Missing.      *)
(***************************************************************************)
EXTENDS Integers, Sequences, FiniteSetsExt, SequencesExt

CONSTANTS
  Horizon,         \* the seven days that are forecast
  BaselineWeight,  \* BASELINE_WEIGHTS as a function on BASELINE_LAGS
  PointLags,       \* POINT_LAGS
  RollingWindow,   \* the shortest of ROLLING_WINDOWS
  MaxHistoryDays,  \* limit of the request
  MinHoldoutDays,  \* days before the holdout's origin, 35
  MinContextDays,  \* days chronos2.py wants of an entity, 3
  MaxTrainRows,    \* MAX_NEURAL_TRAIN_ROWS
  BatchSize        \* rows of a training batch, 512

\* A seasonal lag is never shorter than the horizon (7, 14, 21, 28 of 7).
ASSUME PanelAssumption ==
  /\ Horizon \in Nat \ {0} /\ RollingWindow \in Nat \ {0}
  /\ IsFiniteSet(DOMAIN BaselineWeight) /\ DOMAIN BaselineWeight \subseteq Nat
  /\ \A k \in DOMAIN BaselineWeight : k >= Horizon /\ BaselineWeight[k] \in Nat \ {0}
  /\ PointLags \subseteq Nat /\ MaxHistoryDays \in Nat \ {0}
  /\ MinHoldoutDays \in Nat /\ MinContextDays \in Nat
  /\ MaxTrainRows \in Nat \ {0} /\ BatchSize \in Nat /\ BatchSize >= 3

BaselineLags == DOMAIN BaselineWeight

Missing == -1

NoRow == [row |-> FALSE, target |-> Missing, available |-> FALSE, known |-> FALSE]

-----------------------------------------------------------------------------
(* prepare_daily_panel *)

Entities(panel) == DOMAIN panel.cells

History(panel, e) ==
  {d \in DOMAIN panel.cells[e] : panel.cells[e][d].row /\ d <= panel.end}

FutureDays(panel) == panel.end + 1 .. panel.end + Horizon

\* What is refused once the columns are parsed and the keys are unique
Refused(panel) ==
  \/ \E e \in Entities(panel) : \E d \in FutureDays(panel) :
       panel.cells[e][d].target # Missing
  \/ \A e \in Entities(panel) : \A d \in History(panel, e) :
       panel.cells[e][d].target = Missing
  \/ \E e \in Entities(panel) : History(panel, e) = {}
  \/ panel.features /\ \E e \in Entities(panel) : \E d \in FutureDays(panel) :
       ~(panel.cells[e][d].row /\ panel.cells[e][d].known)

\* The first day of an entity, once its history is truncated
First(panel, e) ==
  Max({Min(History(panel, e)), panel.end - MaxHistoryDays + 1})

\* observed_target: every day gets a row, a target counts on an available day.
Observed(panel) ==
  [e \in Entities(panel) |->
     [d \in First(panel, e) .. panel.end |->
        IF panel.cells[e][d].available THEN panel.cells[e][d].target ELSE Missing]]

\* _value_at
At(obs, e, d) == IF d \in DOMAIN obs[e] THEN obs[e][d] ELSE Missing

Known(obs, e, days) == {d \in days : At(obs, e, d) # Missing}

-----------------------------------------------------------------------------
(* _make_rows: one example, of entity e, for day t as seen on day o.  Means are *)
(* pairs of a sum and the weight it is divided by.                              *)

\* _weighted_baseline
Seasonal(obs, e, t) ==
  LET lags == {k \in BaselineLags : At(obs, e, t - k) # Missing}
  IN <<SumFunction([k \in lags |-> BaselineWeight[k] * At(obs, e, t - k)]),
       SumFunctionOnSet(BaselineWeight, lags)>>

WindowAhead(o) == o - RollingWindow + 2 .. o + 1  \* mutant: it is shifted by one
Window(o) == o - RollingWindow + 1 .. o

RollingMean(obs, e, o) ==
  LET days == Known(obs, e, Window(o))
  IN <<SumFunction([d \in days |-> At(obs, e, d)]), Cardinality(days)>>

\* The median of some observations, given as <<entity, day>> pairs
Median(obs, keys) ==
  LET ordered == SetToSortSeq(keys, LAMBDA j, k : obs[j[1]][j[2]] < obs[k[1]][k[2]])
      n == Len(ordered)
      value(i) == obs[ordered[i][1]][ordered[i][2]]
  IN <<value((n + 1) \div 2) + value(n \div 2 + 1), 2>>

\* The last of the fallbacks: the entity's median, the panel's, zero.  Both medians
\* are over the whole history, whatever the origin.
WholeMedian(obs, e) ==
  LET observed(who) == {k \in who \X UNION {DOMAIN obs[i] : i \in who} :
                          At(obs, k[1], k[2]) # Missing}
  IN IF observed({e}) # {} THEN Median(obs, observed({e}))
     ELSE IF observed(DOMAIN obs) # {} THEN Median(obs, observed(DOMAIN obs))
     ELSE <<0, 1>>

NeedsMedian(obs, e, o, t) ==
  Seasonal(obs, e, t)[2] = 0 /\ RollingMean(obs, e, o)[2] = 0

Baseline(obs, e, o, t) ==
  IF Seasonal(obs, e, t)[2] > 0 THEN Seasonal(obs, e, t)
  ELSE IF RollingMean(obs, e, o)[2] > 0 THEN RollingMean(obs, e, o)
  ELSE WholeMedian(obs, e)

\* The roll_* columns are functions of the window's days.
MakeRow(obs, e, o, t) ==
  [entity |-> e, origin |-> o, day |-> t,
   lag |-> [k \in PointLags |-> At(obs, e, o - k)],
   roll |-> [d \in Window(o) |-> At(obs, e, d)],
   seasonal |-> [k \in BaselineLags |-> At(obs, e, t - k)],
   baseline |-> Baseline(obs, e, o, t)]

-----------------------------------------------------------------------------
(* build_panel_frames, and the frames of a holdout *)

Start(obs) == Min(UNION {DOMAIN obs[e] : e \in DOMAIN obs})

PredictPairs(origin) == {<<origin, origin + h>> : h \in 1 .. Horizon}

TrainPairs(obs, cutoff) ==
  {<<t - h, t>> : t \in Start(obs) .. cutoff, h \in 1 .. Horizon}

\* Examples without an observed target are left out.
Train(obs, cutoff) ==
  {[example |-> MakeRow(obs, k[1], k[2][1], k[2][2]), target |-> At(obs, k[1], k[2][2])] :
     k \in {j \in (DOMAIN obs) \X TrainPairs(obs, cutoff) :
               At(obs, j[1], j[2][2]) # Missing}}

Predict(obs, origin) ==
  {MakeRow(obs, e, p[1], p[2]) : e \in DOMAIN obs, p \in PredictPairs(origin)}

HoldoutOrigin(panel) == panel.end - Horizon

\* The run_* functions: a holdout wants enough days before its origin.
HoldoutSupported(panel) ==
  HoldoutOrigin(panel) - Start(Observed(panel)) >= MinHoldoutDays

\* The days a panel is built for: the holdout, if any, and the forecast.
Origins(panel) ==
  {panel.end} \cup (IF HoldoutSupported(panel) THEN {HoldoutOrigin(panel)} ELSE {})

\* _chronos_frames: the entities the pretrained model is given, and their context.
\* _predict_origin takes the baseline of the others.
Context(obs, e, origin) == [d \in {c \in DOMAIN obs[e] : c <= origin} |-> obs[e][d]]

Contexts(obs, origin) ==
  {<<e, Context(obs, e, origin)>> :
     e \in {i \in DOMAIN obs :
              /\ Cardinality(DOMAIN Context(obs, i, origin)) >= MinContextDays
              /\ Known(obs, i, DOMAIN Context(obs, i, origin)) # {}}}

-----------------------------------------------------------------------------
(* neural_net.py: examples by origin, sizes[i] of them for the i-th latest one *)

Total(sizes, n) == SumFunctionOnSet(sizes, 1 .. n)

\* _bounded_training_frame: as many of the latest origins as fit, never fewer than
\* one; a first origin that is too large by itself is cut.
TakenOrigins(sizes) ==
  Max({1} \cup {n \in 1 .. Len(sizes) : Total(sizes, n) <= MaxTrainRows})

BoundedRows(sizes) == Min({Total(sizes, TakenOrigins(sizes)), MaxTrainRows})

\* Mutant: a last batch of one row stays.
BatchStartsPlain(n) == [i \in 1 .. (n + BatchSize - 1) \div BatchSize |-> (i - 1) * BatchSize]

\* _batch_ranges, for at least two rows: a last batch of one row takes another one,
\* since a batch normalisation cannot be trained on one row.
BatchStarts(n) ==
  LET count == (n + BatchSize - 1) \div BatchSize
  IN [i \in 1 .. count |->
        IF i > 1 /\ i = count /\ n - (i - 1) * BatchSize = 1
          THEN (i - 1) * BatchSize - 1
          ELSE (i - 1) * BatchSize]

Batches(n) ==
  LET starts == BatchStarts(n)
  IN [i \in DOMAIN starts |->
        <<starts[i], IF i < Len(starts) THEN starts[i + 1] ELSE n>>]

-----------------------------------------------------------------------------
(* Properties *)

\* What would have been known at the end of day o
Until(obs, o) ==
  [e \in DOMAIN obs |-> [d \in DOMAIN obs[e] |-> IF d > o THEN Missing ELSE obs[e][d]]]

\* A row is what would have been made of the observations up to its origin.  Only the
\* baseline of a series of which nothing recent is known is not: it is the median of
\* the whole history, that of the days after the origin included (WholeMedian).
RowLooksBack(obs, r) ==
  LET then == MakeRow(Until(obs, r.origin), r.entity, r.origin, r.day)
  IN r = IF NeedsMedian(obs, r.entity, r.origin, r.day)
           THEN [then EXCEPT !.baseline = WholeMedian(obs, r.entity)]
           ELSE then

\* A model learns from the days up to its cutoff, and everything it learns from or is
\* given was known at its origin, but for the medians RowLooksBack speaks of.
LooksBack(panel) ==
  ~Refused(panel) =>
    LET obs == Observed(panel)
    IN \A cutoff \in Origins(panel) :
         /\ \A r \in {x.example : x \in Train(obs, cutoff)} \cup Predict(obs, cutoff) :
              RowLooksBack(obs, r)
         /\ \A x \in Train(obs, cutoff) : x.example.day <= cutoff
         /\ Contexts(obs, cutoff) = Contexts(Until(obs, cutoff), cutoff)

\* The batches of an epoch are all its rows, none of them alone, and no more rows
\* are trained on than the budget allows.
TrainingFits(sizes) ==
  LET n == BoundedRows(sizes)
      batches == Batches(n)
  IN n >= 2 =>
       /\ n <= MaxTrainRows
       /\ batches[1][1] = 0 /\ batches[Len(batches)][2] = n
       /\ \A i \in DOMAIN batches :
            /\ 2 <= batches[i][2] - batches[i][1]
            /\ batches[i][2] - batches[i][1] <= BatchSize
            /\ i > 1 => batches[i][1] = batches[i - 1][2]
=============================================================================
