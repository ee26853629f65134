------------------------------ MODULE AgentPlans ------------------------------
(***************************************************************************)
(* The forecast plans the agent accepts from the model provider            *)
(* (infra/lambda/forecast_control_plane/agent.py and orchestrator.py) and  *)
(* what becomes of one that the user confirms: the control plane checks it *)
(* once more (handler.py) and a worker prepares the panel (ForecastPanel). *)
(*                                                                         *)
(* A column's profile is                                                   *)
(*   [name, type, nulls, bad]                                              *)
(* what its name stands for, its logical type, whether it has nulls, and   *)
(* whether some of its values are negative or not finite.  A mapping gives *)
(* every role the set of its columns.                                      *)
(***************************************************************************)
EXTENDS ForecastPanel

CONSTANT MaxRoleColumns    \* columns a role may name in a forecast request, 64

ASSUME RoleAssumption == MaxRoleColumns \in Nat

FutureRoles == {"known_future_numeric", "known_future_categorical"}
StaticRoles == {"static_numeric", "static_categorical"}
NumericRoles == {"known_future_numeric", "static_numeric"}
FeatureRoles == FutureRoles \cup StaticRoles
OptionalRoles == {"entity", "availability"}
Roles == {"timestamp", "target", "excluded"} \cup OptionalRoles \cup FeatureRoles

Columns(mapping, roles) == UNION {mapping[r] : r \in roles}

TheColumn(mapping, role) == CHOOSE c \in mapping[role] : TRUE

\* No column has two roles.
OneRole(mapping) ==
  \A r, s \in Roles : r # s => mapping[r] \cap mapping[s] = {}

SingleColumns(mapping) ==
  /\ \A r \in {"timestamp", "target"} : Cardinality(mapping[r]) = 1
  /\ \A r \in OptionalRoles : Cardinality(mapping[r]) <= 1

Typed(profiles, columns, types) == \A c \in columns : profiles[c].type \in types

-----------------------------------------------------------------------------
(* agent.py: the provider's mapping *)

\* The checks of _validate_provider_mapping
Acceptable(profiles, mapping) ==
  /\ SingleColumns(mapping) /\ OneRole(mapping)
  /\ Columns(mapping, Roles) \subseteq DOMAIN profiles
  /\ Typed(profiles, mapping.target, {"numeric"})
  /\ Typed(profiles, mapping.timestamp, {"date", "timestamp", "string"})
  /\ Typed(profiles, Columns(mapping, NumericRoles), {"numeric", "boolean"})
  /\ \A c \in Columns(mapping, Roles \ {"excluded"}) : profiles[c].name # "outcome"

\* A column without a role is excluded.
Completed(profiles, mapping) ==
  [mapping EXCEPT !["excluded"] = (DOMAIN profiles) \ Columns(mapping, Roles \ {"excluded"})]

\* _demote_mapping_roles
Demoted(mapping, roles) ==
  [r \in Roles |-> IF r \in roles THEN {}
                   ELSE IF r = "excluded" THEN mapping[r] \cup Columns(mapping, roles)
                   ELSE mapping[r]]

HasFuture(profiles, mapping) == profiles[TheColumn(mapping, "target")].nulls

\* Mutant: known-future features stay without future rows.
GuardedStatic(profiles, mapping) == Demoted(mapping, StaticRoles)

\* _apply_execution_role_guard, which _historical_only_mapping finds done
Guarded(profiles, mapping) ==
  Demoted(mapping, IF HasFuture(profiles, mapping) THEN StaticRoles ELSE FeatureRoles)

\* Mutant: the seven days are held back from every file.
HeldBackAlways(profiles, mapping) == Horizon

\* _training_end: how many days before the last day of the file
HeldBack(profiles, mapping) == IF HasFuture(profiles, mapping) THEN Horizon ELSE 0

-----------------------------------------------------------------------------
(* orchestrator.py: the preprocessing plan and the draft *)

\* _preprocessing_mapping_contract
WithinContract(profiles, mapping) ==
  /\ SingleColumns(mapping) /\ OneRole(mapping)
  /\ Columns(mapping, Roles) \subseteq DOMAIN profiles
  /\ Typed(profiles, mapping.timestamp, {"date", "timestamp", "string"})
  /\ \A c \in mapping.timestamp \cup mapping.entity : ~profiles[c].nulls
  /\ Typed(profiles, mapping.target, {"numeric"})
  /\ \A c \in mapping.target : profiles[c].bad # "not_finite"
  /\ Typed(profiles, mapping.entity, {"numeric", "string", "other"})
  /\ Typed(profiles, mapping.availability, {"boolean", "numeric", "string"})
  /\ Typed(profiles, Columns(mapping, NumericRoles), {"numeric", "boolean"})
  /\ Typed(profiles, Columns(mapping, FeatureRoles \ NumericRoles),
           {"string", "boolean", "numeric", "other"})

\* _preprocessing_findings and _preprocessing_review: the warnings that are not about
\* the length or the zeros of the history
Attention(profiles, mapping) ==
  \/ \E c \in mapping.target : profiles[c].bad = "negative"
  \/ \E c \in Columns(mapping, FeatureRoles) : profiles[c].nulls

\* _model_recommendations, for adapters 1 to 3 in the order of MODEL_CAPABILITIES:
\* xgboost, the neural net, chronos.  The signals are [rows, history, future,
\* embeddings], the flags what the objective asks for.
Points ==
  [base |-> <<60, 52, 50>>, small |-> <<12, -8, 4>>, large |-> <<5, 15, 0>>,
   long |-> <<0, 12, 5>>, future |-> <<10, 8, 4>>, embeddings |-> <<0, 7, 0>>,
   fast |-> <<25, 0, 0>>, accuracy |-> <<0, 20, 0>>, uncertainty |-> <<0, 0, 30>>,
   immediate |-> <<0, 0, 25>>, retrain |-> <<5, 10, -10>>]

Counted(signals, flags) ==
  {"base"} \cup flags
    \cup {s \in {"small"} : 0 < signals.rows /\ signals.rows <= 1000}
    \cup {s \in {"large"} : signals.rows >= 5000}
    \cup {s \in {"long"} : signals.history >= 365}
    \cup {s \in {"future"} : signals.future}
    \cup {s \in {"embeddings"} : signals.embeddings}

Score(signals, flags, a) == SumFunction([s \in Counted(signals, flags) |-> Points[s][a]])

Recommended(signals, flags) ==
  CHOOSE a \in 1 .. 3 :
    \A b \in (1 .. 3) \ {a} :
      \/ Score(signals, flags, a) > Score(signals, flags, b)
      \/ Score(signals, flags, a) = Score(signals, flags, b) /\ a < b

\* The mapping _validate_draft_mapping returns
DraftMapping(profiles, mapping) == Guarded(profiles, Completed(profiles, mapping))

\* _draft_plan: a draft is accepted for some adapters and a mapping, or refused.
DraftAccepted(profiles, adapters, mapping) ==
  /\ adapters # {} /\ adapters \subseteq 1 .. 3
  /\ Acceptable(profiles, mapping)
  /\ WithinContract(profiles, DraftMapping(profiles, mapping))

-----------------------------------------------------------------------------
(* The user confirms the draft *)

\* handler.py, _mapping
Requestable(mapping) ==
  /\ SingleColumns(mapping) /\ OneRole(mapping)
  /\ \A r \in FeatureRoles \cup {"excluded"} : Cardinality(mapping[r]) <= MaxRoleColumns

\* The validation profile of a file with a timestamp, an entity and a target column,
\* and a covariate that can be known in advance
Rows(panel) ==
  {k \in Entities(panel) \X UNION {DOMAIN panel.cells[e] : e \in Entities(panel)} :
     k[2] \in DOMAIN panel.cells[k[1]] /\ panel.cells[k[1]][k[2]].row}

PanelProfiles(panel) ==
  LET has(P(_)) == \E k \in Rows(panel) : P(panel.cells[k[1]][k[2]])
  IN << [name |-> "plain", type |-> "date", nulls |-> FALSE, bad |-> "none"],
        [name |-> "plain", type |-> "string", nulls |-> FALSE, bad |-> "none"],
        [name |-> "plain", type |-> "numeric", bad |-> "none",
         nulls |-> has(LAMBDA cell : cell.target = Missing)],
        [name |-> "plain", type |-> "numeric", bad |-> "none",
         nulls |-> has(LAMBDA cell : ~cell.known)] >>

PanelMapping ==
  [r \in Roles |-> CASE r = "timestamp" -> {1} [] r = "entity" -> {2} [] r = "target" -> {3}
                     [] r = "known_future_numeric" -> {4} [] OTHER -> {}]

LastDay(panel) == Max({k[2] : k \in Rows(panel)})

\* The panel the worker is asked to prepare once the plan for it is confirmed
Planned(panel) ==
  LET profiles == PanelProfiles(panel)
  IN [panel EXCEPT
        !.end = LastDay(panel) - HeldBack(profiles, PanelMapping),
        !.features = Columns(DraftMapping(profiles, PanelMapping), FutureRoles) # {}]

-----------------------------------------------------------------------------
(* Properties *)

\* Whatever the provider answers, a plan that may be confirmed gives every column
\* one role and an outcome-derived column none, uses no feature whose values the
\* forecast's days lack, and is one the control plane accepts, unless the file has
\* more columns than a request may name in a role.  Nothing that a worker refuses in
\* the target or in a feature is called ready.
PlanAccepted(profiles, adapters, mapping) ==
  DraftAccepted(profiles, adapters, mapping) =>
    LET plan == DraftMapping(profiles, mapping)
    IN /\ Columns(plan, Roles) = DOMAIN profiles
       /\ \A c \in DOMAIN profiles : profiles[c].name = "outcome" => c \in plan.excluded
       /\ Columns(plan, StaticRoles) = {}
       /\ Columns(plan, FutureRoles) # {} => HeldBack(profiles, mapping) = Horizon
       /\ Cardinality(DOMAIN profiles) <= MaxRoleColumns => Requestable(plan)
       /\ ~Attention(profiles, plan) =>
            /\ \A c \in plan.target : profiles[c].bad = "none"
            /\ \A c \in Columns(plan, FeatureRoles) : ~profiles[c].nulls

TargetOf(panel, k) == panel.cells[k[1]][k[2]].target

\* A file of the past only
Historical(panel) == \A k \in Rows(panel) : TargetOf(panel, k) # Missing

\* A file as the agent asks for it: the rows of the last Horizon days are there for
\* every entity, with the covariate and without the target, after a past of every
\* entity in which some target was observed.
EndsInFuture(panel) ==
  LET future == LastDay(panel) - Horizon + 1 .. LastDay(panel)
      past == {k \in Rows(panel) : k[2] \notin future}
  IN /\ \A k \in Rows(panel) \ past : TargetOf(panel, k) = Missing
     /\ \E k \in past : TargetOf(panel, k) # Missing
     /\ \A e \in Entities(panel) :
          /\ \E k \in past : k[1] = e
          /\ \A d \in future : <<e, d>> \in Rows(panel) /\ panel.cells[e][d].known

\* The worker prepares the panel of a plan that is confirmed as drafted if the file is
\* of either form, and refuses it for every other file.
PlanRuns(panel) ==
  Rows(panel) # {} =>
    (~Refused(Planned(panel)) <=> Historical(panel) \/ EndsInFuture(panel))

\* What the draft says of nulls in the target: they are the forecast boundary, so no
\* target is left on the days that are held back as future rows.
NullsEndTraining(panel) ==
  \A k \in Rows(panel) : k[2] > Planned(panel).end => TargetOf(panel, k) = Missing

\* What an objective asks for counts more than what the data speak for: a wish for a
\* fast forecast is always advised the adapter that is fast (1), and a wish for
\* quantiles or for no fitting never that adapter, which has neither.
AdviceFollows(signals) ==
  /\ Recommended(signals, {"fast"}) = 1
  /\ \A wish \in {"uncertainty", "immediate"} : Recommended(signals, {wish}) # 1
=============================================================================
