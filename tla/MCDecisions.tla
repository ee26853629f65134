----------------------------- MODULE MCDecisions -----------------------------
(* Inputs of Decisions for TLC. *)
EXTENDS Decisions, TLC

\* The weights of two seasonal lags
MCBaselineWeight == (2 :> 2) @@ (3 :> 1)

-----------------------------------------------------------------------------
(* What adapters may do *)

MCEndings ==
  [ended : {"value_error", "error"}, supported : {FALSE}, wape : {NoWape}, basis : {0}]
  \cup [ended : {"returned"}, supported : {TRUE}, wape : {1, 2}, basis : {1, 2}]
  \cup [ended : {"returned"}, supported : {FALSE}, wape : {NoWape}, basis : {1}]

MCComparisons ==
  {[kind |-> "comparison", endings |-> f, done |-> done, error |-> error] :
     f \in [1 .. 3 -> MCEndings], done \in {1 .. 3, {1, 3}, {2}, {}},
     error \in {"value_error", "error"}}

-----------------------------------------------------------------------------
(* Holdouts of three entities, and features *)

HoldoutRows ==
  {<<[entity |-> 1, actual |-> a, prediction |-> p, baseline |-> 2],
     [entity |-> 2, actual |-> b, prediction |-> q, baseline |-> 0],
     [entity |-> 3, actual |-> c, prediction |-> 2, baseline |-> 1],
     [entity |-> 3, actual |-> Unobserved, prediction |-> 9, baseline |-> 1]>> :
     a \in {Unobserved, 0, 1, 4}, b \in {0, 2, 9}, c \in {0, 1, 2},
     p \in {0, 2, 4}, q \in {0, 2, 9}}

Catalogue ==
  {[kind |-> "numeric", shift |-> s, reference |-> 5, fresh |-> 50, outside |-> o] :
     s \in {0, 100, 250}, o \in {0, 1}}
  \cup {[kind |-> "categorical", shift |-> 0, reference |-> r, fresh |-> 10, outside |-> o] :
          r \in {0, 5}, o \in {0, 1}}

MCEvaluations ==
  {[kind |-> "evaluation",
    case |-> [rows |-> rows, features |-> <<>>, fresh |-> 1 .. 3, trained |-> trained]] :
     rows \in HoldoutRows, trained \in {1 .. 3, {1}}}
  \cup
  {[kind |-> "evaluation",
    case |-> [rows |-> <<>>, features |-> features, fresh |-> {1}, trained |-> {1}]] :
     features \in [1 .. 3 -> Catalogue]}

-----------------------------------------------------------------------------
(* Panels of two entities over five days and a horizon of two *)

Row(target) == [row |-> TRUE, target |-> target, available |-> TRUE, known |-> TRUE]
Unavailable == [row |-> TRUE, target |-> 2, available |-> FALSE, known |-> TRUE]
Unknown == [row |-> TRUE, target |-> 1, available |-> TRUE, known |-> FALSE]

Others ==
  {[d \in 0 .. 4 |-> Row(3)],
   [d \in 0 .. 4 |-> IF d = 4 THEN Row(3) ELSE NoRow],
   [d \in 0 .. 4 |-> IF d = 1 THEN Row(3) ELSE NoRow]}

MCPanels ==
  {[kind |-> "panel",
    panel |-> [end |-> 4, features |-> TRUE,
               cells |-> <<h @@ [d \in 5 .. 6 |-> Row(Missing)],
                           g @@ [d \in 5 .. 6 |-> last]>>]] :
     h \in [0 .. 4 -> {NoRow, Unavailable, Row(1), Row(2)}], g \in Others,
     last \in {Row(Missing), NoRow}}

\* Files as they are uploaded, before a plan sets the day training ends: two entities
\* with rows on four days, any of which may be those of the forecast.
Ahead == [row |-> TRUE, target |-> Missing, available |-> TRUE, known |-> FALSE]

FileDays == 0 - Horizon .. 3 + Horizon

FileRows(past, future) ==
  {[d \in FileDays |-> IF d \in 0 .. 3 THEN f[d] ELSE NoRow] :
     f \in {g \in [0 .. 3 -> past \cup future] :
              /\ \A d \in 0 .. 1 : g[d] \in past
              /\ \A d \in 2 .. 3 : g[d] \in future
              /\ \E d \in 0 .. 3 : g[d].row}}

MCFiles ==
  {[kind |-> "file", panel |-> [end |-> 0, features |-> FALSE, cells |-> <<h, g>>]] :
     h \in FileRows({NoRow, Unknown, Row(1), Row(Missing)},
                    {NoRow, Row(1), Row(Missing), Ahead}),
     g \in FileRows({NoRow, Row(1)}, {NoRow, Row(1), Row(Missing)})}

\* The examples of an origin are at most half of the budget, or more than all of it.
MCTrainings ==
  UNION {{[kind |-> "training", sizes |-> sizes] : sizes \in [1 .. n -> 1 .. 4 \cup {9}]} :
           n \in 1 .. 4}

-----------------------------------------------------------------------------
(* Answers of the provider for four columns *)

Assigned(role) ==
  [r \in Roles |-> {c \in 1 .. 4 : role[c] = r}]

Mappings ==
  {Assigned(<<"timestamp", t, x, y>>) :
     t \in {"target", "none"}, x \in Roles \cup {"none"},
     y \in OptionalRoles \cup {"known_future_categorical", "static_categorical", "none"}}
  \cup {[Assigned(<<"timestamp", "target", "none", "none">>) EXCEPT ![r] = {1, 3}] : r \in Roles}

Profiles ==
  {<<[name |-> "plain", type |-> "date", nulls |-> n, bad |-> "none"],
     [name |-> "plain", type |-> "numeric", nulls |-> m, bad |-> b],
     [name |-> x, type |-> t, nulls |-> k, bad |-> "none"],
     [name |-> "plain", type |-> "string", nulls |-> FALSE, bad |-> "none"]>> :
     n, m, k \in BOOLEAN, b \in {"none", "negative", "not_finite"},
     x \in {"plain", "outcome"}, t \in {"numeric", "boolean", "string", "date"}}

MCPlans ==
  {[kind |-> "plan", profiles |-> p, mapping |-> m] : p \in Profiles, m \in Mappings}

\* Data on both sides of every limit of the scores
MCAdvices ==
  {[kind |-> "advice", signals |-> s] :
     s \in [rows : {0, 1, 1000, 1001, 4999, 5000}, history : {0, 364, 365},
            future : BOOLEAN, embeddings : BOOLEAN]}

-----------------------------------------------------------------------------
(* Experiments over two entities and eight days: everything is in order but for *)
(* at most two rows.  The first day is before the training split.               *)

LocalDays == 0 .. 7

\* A row of an orderly dataset.  What a feature of the future is for a day is known the
\* day before it; a static feature is always known.
Orderly(feature, e, d) ==
  [copies |-> 1, target |-> 10 * e + d, known |-> d + 1, observed |-> "yes",
   value |-> IF feature = "static" THEN 50 + e ELSE 10 * e + d,
   ready |-> CASE feature = "past_only" -> d + 1
               [] feature = "known_future" -> d - 1
               [] OTHER -> Local!Ever]

\* What may be wrong with a row
Gone(row) == {Local!NoRow, [row EXCEPT !.copies = 2]}

Unmeasured(row) ==
  {[row EXCEPT !.target = Local!Missing], [row EXCEPT !.observed = "no"],
   [row EXCEPT !.observed = "invalid"]}

Retimed(row) ==
  {[row EXCEPT !.known = k] : k \in {Local!NoProof, row.known - 1, row.known + 1, 9}}

Refeatured(feature, row) ==
  IF feature = "none" THEN {}
  ELSE {[row EXCEPT !.value = v] : v \in {Local!Missing, 90}}
         \cup {[row EXCEPT !.ready = r] : r \in {Local!NoProof, row.ready + 1, 9}}

\* With a column that tells it, products may be unavailable.
Told(rows, column) == {r \in rows : column \/ r.copies = 0 \/ r.observed = "yes"}

Faulty(feature, row) ==
  {row} \cup Gone(row) \cup Unmeasured(row) \cup Retimed(row) \cup Refeatured(feature, row)

AlsoFaulty(row) ==
  {row, Local!NoRow, [row EXCEPT !.observed = "no"], [row EXCEPT !.known = @ + 1]}

InOrder ==
  [feature \in {"none", "past_only", "known_future", "static"} |->
     << [d \in LocalDays |-> Orderly(feature, 1, d)],
        [d \in LocalDays |-> Orderly(feature, 2, d)] >>]

\* A calibration and a test origin, each with a horizon of two days.  The fit of the
\* first origin has one sample of each entity for the farther day.
LocalSpec(feature, policy, scored, models) ==
  [start |-> 1, end |-> 7,
   origins |-> {[role |-> "calibration", day |-> 4], [role |-> "test", day |-> 6]},
   horizon |-> 2, window |-> 4, lags |-> {1}, rolling |-> {2}, period |-> 1, average |-> 2,
   feature |-> feature, policy |-> policy[1], column |-> policy[2],
   asOf |-> scored[1], minimum |-> scored[2], models |-> models]

\* What distinguishes an experiment
Variants(feature, policy, first, second) ==
  [spec : {LocalSpec(feature, policy, scored, models) :
             scored \in {<<8, 60>>, <<8, 100>>, <<7, 75>>},
             models \in {{"seasonal_naive", "moving_average", "ridge_direct"},
                         {"seasonal_naive", "moving_average"}}},
   first : {first}, one : Told(Faulty(feature, Orderly(feature, 1, first)), policy[2]),
   second : {second}, two : Told(AlsoFaulty(Orderly(feature, 2, second)), policy[2])]

Varied(v) ==
  [kind |-> "experiment", spec |-> v.spec,
   data |-> [InOrder[v.spec.feature] EXCEPT ![1][v.first] = v.one, ![2][v.second] = v.two]]

MCExperiments ==
  {Varied(v) : v \in
     UNION {Variants(feature, policy, first, second) :
              feature \in {"none", "past_only", "known_future", "static"},
              policy \in {<<"assume_available", FALSE>>, <<"available_only", TRUE>>,
                          <<"require_available", TRUE>>},
              first \in LocalDays, second \in {5, 7}}}
=============================================================================
