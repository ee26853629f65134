-------------------------- MODULE ComparisonResults --------------------------
(***************************************************************************)
(* The document one forecast run leaves behind: built by the Batch worker  *)
(* (src/vonavy_agent/forecasting/aws_batch.py) from what its adapters did, *)
(* checked again by the control plane before it ends the run               *)
(* (infra/lambda/forecast_control_plane/handler.py).  A run of one adapter *)
(* is the case of one model, without a leaderboard.                        *)
(*                                                                         *)
(* Adapters are numbers in the order of their ids, the last key of the     *)
(* leaderboard's order.  What an adapter did is a record                   *)
(*   [status, supported, wape, basis]                                      *)
(* whose basis stands for the holdout's origin, rows, coverage and the     *)
(* rows it has in common with the baseline.                                *)
(***************************************************************************)
EXTENDS Integers, FiniteSets

NoWape == -1
NoRank == 0
NoAdapter == 0

ModelStatuses == {"succeeded", "invalid", "failed"}

-----------------------------------------------------------------------------
(* The worker *)

\* _run_model: how the adapter's code ended decides the status; a result that is
\* not a success has no holdout (_invalid_result, _failed_result).
NotRun(status) ==
  [status |-> status, supported |-> FALSE, wape |-> NoWape, basis |-> 0]

ModelResult(ending) ==
  IF ending.ended = "returned" THEN
    [status |-> "succeeded", supported |-> ending.supported,
     wape |-> ending.wape, basis |-> ending.basis]
  ELSE NotRun(IF ending.ended = "value_error" THEN "invalid" ELSE "failed")

\* _comparison_main: an error outside the adapters (the download, the parsing, a
\* copy of the frame) leaves the models that were done and fills in the others.
Results(endings, done, error) ==
  [a \in DOMAIN endings |->
     IF a \in done THEN ModelResult(endings[a])
                   ELSE NotRun(IF error = "value_error" THEN "invalid" ELSE "failed")]

\* _comparison_status, for the statuses of the models
RunStatus(status) ==
  IF \A a \in DOMAIN status : status[a] = "succeeded" THEN "succeeded"
  ELSE IF \E a \in DOMAIN status : status[a] = "succeeded" THEN "partial"
  ELSE IF \A a \in DOMAIN status : status[a] = "invalid" THEN "invalid"
  ELSE "failed"

Statuses(results) == [a \in DOMAIN results |-> results[a].status]

Succeeded(results) == {a \in DOMAIN results : results[a].status = "succeeded"}

\* Mutant: models evaluated on different holdouts are compared.
ComparableByWape(results) ==
  /\ Cardinality(Succeeded(results)) >= 2
  /\ \A a \in Succeeded(results) : results[a].supported /\ results[a].wape # NoWape

\* _comparison_basis
Comparable(results) ==
  /\ Cardinality(Succeeded(results)) >= 2
  /\ \A a \in Succeeded(results) : results[a].supported /\ results[a].wape # NoWape
  /\ \A a, b \in Succeeded(results) : results[a].basis = results[b].basis

\* The keys of _comparison_leaderboard's order: the error, then the id.
Before(results, a, b) ==
  \/ results[a].wape < results[b].wape
  \/ results[a].wape = results[b].wape /\ a < b

RankAll(results) ==                        \* mutant: every model gets a rank
  [a \in DOMAIN results |->
     1 + Cardinality({b \in DOMAIN results \ {a} : Before(results, b, a)})]

\* _comparison_leaderboard: only successful models of a comparable run are ranked.
Ranks(results) ==
  [a \in DOMAIN results |->
     IF Comparable(results) /\ a \in Succeeded(results)
       THEN 1 + Cardinality({b \in Succeeded(results) \ {a} : Before(results, b, a)})
       ELSE NoRank]

\* _comparison_payload
Document(results) ==
  LET rank == Ranks(results)
      first == {a \in Succeeded(results) : rank[a] = 1}
  IN [status |-> RunStatus(Statuses(results)),
      models |-> results,
      rank |-> rank,
      comparable |-> Comparable(results),
      best |-> IF first = {} THEN NoAdapter ELSE CHOOSE a \in first : TRUE,
      succeeded |-> Cardinality(Succeeded(results))]

-----------------------------------------------------------------------------
(* The control plane *)

\* _terminalize_comparison: the document of the adapters that were asked for is
\* checked as if anyone could have written it.
Consistent(doc, adapters) ==
  LET models == doc.models
      won == Succeeded(models)
      inOrder == \A a, b \in won : doc.rank[a] < doc.rank[b] => models[a].wape <= models[b].wape
  IN /\ DOMAIN models = adapters /\ DOMAIN doc.rank = adapters
     /\ \A a \in adapters : models[a].status \in ModelStatuses
     /\ doc.status = RunStatus(Statuses(models))
     /\ doc.succeeded = Cardinality(won)
     /\ IF doc.comparable
          THEN /\ Cardinality(won) >= 2
               /\ {doc.rank[a] : a \in won} = 1 .. Cardinality(won)
               /\ \A a \in won : models[a].wape # NoWape
               /\ inOrder
               /\ doc.best \in won /\ doc.rank[doc.best] = 1
          ELSE /\ \A a \in adapters : doc.rank[a] = NoRank
               /\ doc.best = NoAdapter

\* _forecast_comparison_review
ComparisonReview(doc) ==
  [attention |-> \E a \in DOMAIN doc.models : doc.models[a].status # "succeeded",
   named |-> IF doc.comparable /\ doc.best # NoAdapter THEN doc.best ELSE NoAdapter]

-----------------------------------------------------------------------------
(* Properties of one comparison, given by what its adapters did *)

\* Whatever the adapters did and wherever the worker stopped, the control plane
\* accepts the document the worker wrote: a refusal would leave the run active
\* for ever, since every poll reads the same document (_refresh).
DocumentAccepted(endings, done, error) ==
  Consistent(Document(Results(endings, done, error)), DOMAIN endings)

\* The adapter that is reported as the best succeeded, no successful adapter had
\* a smaller error, all were measured on the same holdout, and a model that did
\* not succeed is always pointed out.
BestIsBest(endings, done, error) ==
  LET results == Results(endings, done, error)
      review == ComparisonReview(Document(results))
      ended == {a \in done : endings[a].ended = "returned"}
  IN /\ review.named # NoAdapter =>
          /\ review.named \in ended
          /\ \A a \in ended :
               /\ endings[review.named].wape <= endings[a].wape
               /\ endings[review.named].basis = endings[a].basis
     /\ ~review.attention <=> ended = DOMAIN endings
=============================================================================
