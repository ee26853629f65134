---------------------------- MODULE JobLifecycle ----------------------------
(***************************************************************************)
(* What the job queue promises to those who enqueue, cancel and read jobs, *)
(* without workers, leases, tokens or files.  JobQueue implements it.      *)
(*                                                                         *)
(* A job waits, is worked on at most MaxAttempts times, and may be put     *)
(* back to wait until an attempt commits to publish.  From then on there   *)
(* is no further attempt and no cancellation: the job shows its evidence   *)
(* and succeeds, or it fails and shows nothing.  A request to cancel that  *)
(* was accepted is never followed by success, and no job is cancelled      *)
(* without one.  Only a succeeded job whose evidence is found damaged      *)
(* changes its verdict, to failed.                                         *)
(***************************************************************************)
EXTENDS Naturals

CONSTANTS Jobs, Legacy, MaxAttempts

VARIABLES
    phase,      \* what the state column of a job means to a client
    attempts,   \* how often the job was started
    asked,      \* a request to cancel was accepted
    shown       \* the job's evidence rows exist

vars == <<phase, attempts, asked, shown>>

Verdicts == {"succeeded", "failed", "cancelled"}
Phases == {"absent", "waiting", "working", "committing"} \union Verdicts

Init ==
    /\ phase = [j \in Jobs |-> IF j \in Legacy THEN "committing" ELSE "absent"]
    /\ attempts = [j \in Jobs |-> IF j \in Legacy THEN 1 ELSE 0]
    /\ asked = [j \in Jobs |-> FALSE]
    /\ shown = [j \in Jobs |-> j \in Legacy]

\* Job j moves from one phase to another.
Moves(j, from, to) == phase[j] = from /\ phase'[j] = to

Kept(v, j) == v'[j] = v[j]

Submit(j) == /\ Moves(j, "absent", "waiting")
             /\ Kept(attempts, j) /\ Kept(asked, j) /\ Kept(shown, j)

Start(j) == /\ Moves(j, "waiting", "working")
            /\ ~asked[j] /\ attempts[j] < MaxAttempts
            /\ attempts'[j] = attempts[j] + 1
            /\ Kept(asked, j) /\ Kept(shown, j)

\* The attempt was interrupted and another one is allowed.
Retry(j) == /\ Moves(j, "working", "waiting")
            /\ ~asked[j] /\ attempts[j] < MaxAttempts
            /\ Kept(attempts, j) /\ Kept(asked, j) /\ Kept(shown, j)

Ask(j) == /\ \/ Moves(j, "waiting", "cancelled")
             \/ Moves(j, "working", "working")
          /\ asked'[j]
          /\ Kept(attempts, j) /\ Kept(shown, j)

Commit(j) == /\ Moves(j, "working", "committing")
             /\ ~asked[j]
             /\ Kept(attempts, j) /\ Kept(asked, j) /\ Kept(shown, j)

Show(j) == /\ Moves(j, "committing", "committing")
           /\ shown'[j]
           /\ Kept(attempts, j) /\ Kept(asked, j)

Succeed(j) == /\ Moves(j, "committing", "succeeded")
              /\ shown[j]
              /\ Kept(attempts, j) /\ Kept(asked, j) /\ Kept(shown, j)

Cancel(j) == /\ Moves(j, "working", "cancelled")
             /\ asked[j]
             /\ Kept(attempts, j) /\ Kept(asked, j) /\ Kept(shown, j)

\* An attempt fails, or the evidence of a succeeded job is found damaged.
Fail(j) == /\ \/ Moves(j, "working", "failed")
              \/ Moves(j, "committing", "failed")
              \/ Moves(j, "succeeded", "failed")
           /\ ~shown'[j]
           /\ Kept(attempts, j) /\ Kept(asked, j)

Rests(j) == Kept(phase, j) /\ Kept(attempts, j) /\ Kept(asked, j) /\ Kept(shown, j)

Step(j) == \/ Submit(j) \/ Start(j) \/ Retry(j) \/ Ask(j) \/ Commit(j)
           \/ Show(j) \/ Succeed(j) \/ Cancel(j) \/ Fail(j)

\* A recovery sweep moves several jobs in one transaction.
Next == \A j \in Jobs : Step(j) \/ Rests(j)

Spec == Init /\ [][Next]_vars
=============================================================================
