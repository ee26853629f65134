------------------------------ MODULE JobQueue ------------------------------
(***************************************************************************)
(* The local job queue of the workbench: src/vonavy_agent/jobs.py (the     *)
(* Worker, request_cancellation) and src/vonavy_agent/executor.py (the     *)
(* child process a worker starts for one claim).                           *)
(*                                                                         *)
(* Several worker processes poll one SQLite table.  A worker first sweeps  *)
(* jobs whose lease expired, repairs evidence, then claims the oldest      *)
(* queued job under a fresh lease token and starts an executor.  The       *)
(* executor stages a bundle, moves the job to PUBLISHING and FINALIZING    *)
(* with compare-and-set updates on its token, and renames the bundle into  *)
(* place; the worker verifies the bundle and commits SUCCEEDED.  Workers   *)
(* and request threads may crash between any two steps; an executor whose  *)
(* worker died lives on until its parent watcher fires.                    *)
(*                                                                         *)
(* One database transaction is one action, because SQLite admits one       *)
(* writer and every decision that an UPDATE relies on is repeated in its   *)
(* WHERE clause.  File system steps outside a transaction are actions of   *)
(* their own.  The lease token is a number, fresh for each claim, and      *)
(* stands for the pair worker_id/lease_token, which are always written and *)
(* compared together.                                                      *)
(***************************************************************************)
EXTENDS Naturals, FiniteSets

CONSTANTS
    NumJobs,        \* jobs are 1..NumJobs, in the order of created_at
    Kind,           \* Kind[j]: the job's kind
    Legacy,         \* jobs an older release left in PUBLISHING
    Workers,        \* worker processes
    Clients,        \* request threads of the web process
    MaxAttempts,    \* settings.worker_max_attempts
    MaxTokens,      \* bound: lease tokens issued per job
    MaxCrashes,     \* bound: crashes of workers and request threads
    MaxStalls,      \* bound: leases that expire although their worker lives
    MaxDamage       \* bound: bundles altered or removed on disk

Jobs == 1..NumJobs
Tokens == 1..MaxTokens
Procs == Workers \union Clients
Kinds == {"experiment", "export", "profile", "gate"}

ASSUME BoundsAssumption ==
    /\ NumJobs \in Nat
    /\ MaxAttempts \in Nat \ {0}
    /\ MaxTokens \in Nat \ {0}
    /\ MaxCrashes \in Nat
    /\ MaxStalls \in Nat
    /\ MaxDamage \in Nat
ASSUME KindAssumption == Kind \in [Jobs -> Kinds]
ASSUME LegacyAssumption == Legacy \subseteq Jobs
ASSUME ProcsAssumption == Workers \intersect Clients = {}

VARIABLES
    job,        \* rows of the jobs table
    manifest,   \* the manifest hash recorded for the job's run or export
    evidence,   \* rows publish_evidence wrote: metrics, summary, profile, gate
    final,      \* the bundle at runs/<run> or exports/<export>
    staging,    \* staging[j][t]: the bundle under jobs/tmp/<job>/<token>
    executor,   \* executor[j][t]: the child process started for token t
    proc,       \* program counter and locals of workers and request threads
    issued,     \* lease tokens issued per job
    crashes, stalls, damages

faults == <<crashes, stalls, damages>>
rows == <<manifest, evidence>>
files == <<final, staging>>
vars == <<job, manifest, evidence, final, staging, executor, proc, issued,
          crashes, stalls, damages>>

-----------------------------------------------------------------------------
(* Types *)

Terminal == {"succeeded", "failed", "cancelled"}

\* States a worker owns through a lease.
Leased == {"running", "cancelling", "publishing", "finalizing"}

States == {"absent", "queued"} \union Leased \union Terminal

Job == [state: States, attempt: Nat, token: 0..MaxTokens,
        lease: {"none", "live", "expired"}, cancel: BOOLEAN,
        result: 0..MaxTokens]

\* A manifest is named by the status it states and the attempt it describes.
Manifest == [status: {"none"} \union Terminal, token: 0..MaxTokens]
NoManifest == [status |-> "none", token |-> 0]

Bundle == [manifest: Manifest, intact: BOOLEAN]
NoBundle == [manifest |-> NoManifest, intact |-> FALSE]

Running == {"starting", "computing", "staged", "publishing", "finalized"}
Exited == {"exit0", "exit130", "exit75", "error", "killed"}

NoClaim == <<0, 0>>
Claims == (0..NumJobs) \X (0..MaxTokens)

\* <<j, t>> is the directory jobs/tmp/j/t, <<j, 0>> the final path of j.
Paths == Jobs \X (0..MaxTokens)
Endings == Jobs \X {"failed", "cancelled"}
NoEnding == <<0, "failed">>

PCs == {"down", "poll", "settle", "recording", "repairing", "verifying",
        "condemn", "executing", "draining", "reaping", "promote", "rename",
        "commit", "fail", "failing", "cancel", "drop", "bundle", "row"}

Proc == [pc: PCs,
         back: PCs,                 \* where the current call returns to
         claim: Claims,             \* the Claim being executed or finished
         source: States,            \* the state _finish_failed has read
         target: Endings \union {NoEnding},  \* arguments of _record_terminal_run
         finalizing: SUBSET (Jobs \X Tokens),   \* finalizing_claims of recover
         stale: SUBSET Paths,       \* stale_paths of recover
         trash: SUBSET Paths,       \* paths of a failed finish
         endings: SUBSET Endings,   \* runs to give terminal evidence
         verify: SUBSET Jobs]       \* job_ids of _repair_published_artifacts

\* The locals that each program point uses have been set.
Returning == {"poll", "settle", "recording", "repairing", "verifying"}
ClaimPCs == {"executing", "draining", "reaping", "promote", "rename", "commit",
             "fail", "failing", "cancel"}
TargetPCs == {"condemn", "drop", "bundle", "row"}
LocalsOK(r) ==
    /\ r.pc \in ClaimPCs => r.claim \in Jobs \X Tokens
    /\ r.pc \in TargetPCs => r.target \in Endings
    /\ r.pc = "reaping" => r.back \in {"poll", "fail", "cancel"}
    /\ r.pc # "reaping" => r.back \in Returning
    /\ r.pc = "failing" => r.source \in Leased

TypeOK ==
    /\ job \in [Jobs -> Job]
    /\ manifest \in [Jobs -> Manifest]
    /\ evidence \in [Jobs -> BOOLEAN]
    /\ final \in [Jobs -> Bundle]
    /\ staging \in [Jobs -> [Tokens -> {"none", "intact", "damaged"}]]
    /\ executor \in [Jobs -> [Tokens -> {"none"} \union Running \union Exited]]
    /\ proc \in [Procs -> Proc] /\ \A p \in Procs : LocalsOK(proc[p])
    /\ issued \in [Jobs -> 0..MaxTokens]
    /\ crashes \in Nat /\ stalls \in Nat /\ damages \in Nat

-----------------------------------------------------------------------------
(* Helpers *)

\* Jobs whose evidence is a bundle of files, and runs, which also get a
\* terminal bundle when they end without success.
HasBundle(j) == Kind[j] \in {"experiment", "export"}
IsRun(j) == Kind[j] = "experiment"

Success(t) == [status |-> "succeeded", token |-> t]
Ending(status) == [manifest |-> [status |-> status, token |-> 0], intact |-> TRUE]

Holds(claim) == job[claim[1]].token = claim[2]

\* verify_run_bundle / verified_managed_file against the recorded hash.
Verified(j) == /\ manifest[j] # NoManifest
               /\ final[j].intact
               /\ final[j].manifest = manifest[j]

\* The row with its lease given up.
Release(r, state) ==
    [r EXCEPT !.state = state, !.token = 0, !.lease = "none"]

Idle == [pc |-> "poll", back |-> "poll", claim |-> NoClaim,
         source |-> "absent", target |-> NoEnding, finalizing |-> {}, stale |-> {},
         trash |-> {}, endings |-> {}, verify |-> {}]

Goto(p, pc) == proc' = [proc EXCEPT ![p] = [@ EXCEPT !.pc = pc]]

\* Leave the current call: drop its arguments and continue at back.
Return(p) == proc' = [proc EXCEPT ![p] =
    [@ EXCEPT !.pc = proc[p].back, !.back = "poll", !.claim = NoClaim,
              !.source = "absent", !.target = NoEnding, !.trash = {}]]

\* The paths _invalidate_visible_evidence collects: the staged bundle that
\* result_json names and the published one.
EvidencePaths(j) ==
    {<<j, t>> : t \in {job[j].result} \ {0}}
        \union (IF manifest[j] # NoManifest THEN {<<j, 0>>} ELSE {})

InvalidateNothing(S) == UNCHANGED rows  \* mutant: evidence rows stay
Invalidate(S) ==
    /\ evidence' = [j \in Jobs |-> IF j \in S THEN FALSE ELSE evidence[j]]
    /\ manifest' = [j \in Jobs |-> IF j \in S THEN NoManifest ELSE manifest[j]]

RemovePaths(S) ==
    /\ final' = [j \in Jobs |-> IF <<j, 0>> \in S THEN NoBundle ELSE final[j]]
    /\ staging' = [j \in Jobs |-> [t \in Tokens |->
                      IF <<j, t>> \in S THEN "none" ELSE staging[j][t]]]

-----------------------------------------------------------------------------
(* Initial states *)

NewJob == [state |-> "absent", attempt |-> 0, token |-> 0, lease |-> "none",
           cancel |-> FALSE, result |-> 0]

\* An older release wrote the result and the evidence while PUBLISHING; its
\* worker is gone and its bundle may not have been renamed into place.
LegacyJob == [state |-> "publishing", attempt |-> 1, token |-> 1,
              lease |-> "expired", cancel |-> FALSE, result |-> 1]

Init ==
    /\ job = [j \in Jobs |-> IF j \in Legacy THEN LegacyJob ELSE NewJob]
    /\ issued = [j \in Jobs |-> IF j \in Legacy THEN 1 ELSE 0]
    /\ evidence = [j \in Jobs |-> j \in Legacy]
    /\ manifest = [j \in Jobs |-> IF j \in Legacy /\ HasBundle(j)
                                    THEN Success(1) ELSE NoManifest]
    /\ \E placed \in SUBSET {j \in Legacy : HasBundle(j)} :
         final = [j \in Jobs |->
                     IF j \in placed
                       THEN [manifest |-> Success(1), intact |-> TRUE]
                       ELSE NoBundle]
    /\ staging = [j \in Jobs |-> [t \in Tokens |-> "none"]]
    /\ executor = [j \in Jobs |-> [t \in Tokens |-> "none"]]
    /\ proc = [p \in Procs |-> Idle]
    /\ crashes = 0 /\ stalls = 0 /\ damages = 0

-----------------------------------------------------------------------------
(* Requests *)

\* enqueue_job, enqueue_run, enqueue_export insert a queued row.
Enqueue(j) ==
    /\ job[j].state = "absent"
    /\ \A k \in Jobs : k < j => job[k].state # "absent"
    /\ job' = [job EXCEPT ![j].state = "queued"]
    /\ UNCHANGED <<rows, files, executor, proc, issued, faults>>

\* request_cancellation of a job that waits: it ends at once and the request
\* thread goes on to record the terminal run.
CancelQueued(c, j) ==
    /\ proc[c].pc = "poll"
    /\ job[j].state = "queued"
    /\ job' = [job EXCEPT ![j] = [Release(@, "cancelled") EXCEPT !.cancel = TRUE]]
    /\ proc' = [proc EXCEPT ![c] = [@ EXCEPT !.pc = "bundle", !.target = <<j, "cancelled">>]]
    /\ UNCHANGED <<rows, files, executor, issued, faults>>

\* Mutant: a job that publishes can still be cancelled.
CancelPublishing(j) ==
    /\ job[j].state \in Leased
    /\ job' = [job EXCEPT ![j].state = "cancelling", ![j].cancel = TRUE]
    /\ UNCHANGED <<rows, files, executor, proc, issued, faults>>

\* request_cancellation of a job that runs: ask its worker to stop it.  In
\* PUBLISHING, FINALIZING and the terminal states the request is refused.
CancelRunning(j) ==
    /\ job[j].state \in {"running", "cancelling"}
    /\ job' = [job EXCEPT ![j].state = "cancelling", ![j].cancel = TRUE]
    /\ UNCHANGED <<rows, files, executor, proc, issued, faults>>

-----------------------------------------------------------------------------
(* Worker.recover: the sweep of expired leases *)

StaleRunning(j) ==      \* mutant: an interrupted publication is not stale
    job[j].state \in Leased \ {"publishing"} /\ job[j].lease = "expired"
Stale(j) == job[j].state \in Leased /\ job[j].lease = "expired"

\* _legacy_publishing_complete
LegacyComplete(j) == /\ job[j].state = "publishing"
                     /\ job[j].result # 0
                     /\ evidence[j]
                     /\ HasBundle(j) => Verified(j)

\* Mutant: a cancelled job is put back like any other.
RecoveryForgetsCancel(j) ==
    CASE LegacyComplete(j) -> "succeeded"
      [] ~LegacyComplete(j) /\ (job[j].attempt >= MaxAttempts
                                \/ job[j].state = "publishing") -> "failed"
      [] OTHER -> "queued"

\* Mutant: an interrupted publication is retried.
RecoveryRetriesPublishing(j) ==
    CASE LegacyComplete(j) -> "succeeded"
      [] ~LegacyComplete(j) /\ (job[j].state = "cancelling" \/ job[j].cancel)
           -> "cancelled"
      [] ~LegacyComplete(j) /\ job[j].state # "cancelling" /\ ~job[j].cancel
         /\ job[j].attempt >= MaxAttempts -> "failed"
      [] OTHER -> "queued"

RecoveryTarget(j) ==
    CASE LegacyComplete(j) -> "succeeded"
      [] ~LegacyComplete(j) /\ (job[j].state = "cancelling" \/ job[j].cancel)
           -> "cancelled"
      [] ~LegacyComplete(j) /\ job[j].state # "cancelling" /\ ~job[j].cancel
         /\ (job[j].attempt >= MaxAttempts \/ job[j].state = "publishing")
           -> "failed"
      [] OTHER -> "queued"

\* A stale FINALIZING job is not released: the sweeping worker takes it over.
PassedOnNever(j) == FALSE       \* mutant: finalizing jobs are released too
PassedOn(j) == Stale(j) /\ job[j].state = "finalizing"

\* The staging directory of the attempt that recover gives up.
WholeStaging(j) == {j} \X Tokens    \* mutant: the directory of all attempts
AttemptStaging(j) == {<<j, job[j].token>>}

\* One transaction over all stale jobs.  A FINALIZING job passes to this
\* worker under a new token; any other job is released to its target.
Sweep(w) ==
    LET taken == {j \in Jobs : PassedOn(j)}
        freed == {j \in Jobs : Stale(j) /\ ~PassedOn(j)}
        void == {j \in freed : job[j].state = "publishing"
                               /\ RecoveryTarget(j) = "failed"}
    IN  /\ proc[w].pc = "poll"
        /\ \A j \in taken : issued[j] < MaxTokens
        /\ job' = [j \in Jobs |->
             IF j \in taken
               THEN [job[j] EXCEPT !.token = issued[j] + 1, !.lease = "live"]
               ELSE IF j \in freed THEN Release(job[j], RecoveryTarget(j))
                                   ELSE job[j]]
        /\ issued' = [j \in Jobs |-> IF j \in taken THEN issued[j] + 1 ELSE issued[j]]
        /\ Invalidate(void)
        /\ proc' = [proc EXCEPT ![w] = [Idle EXCEPT
             !.pc = "settle",
             !.finalizing = {<<j, issued[j] + 1>> : j \in taken},
             !.stale = UNION ({AttemptStaging(j) :
                                j \in {k \in freed : RecoveryTarget(k) # "succeeded"}}
                              \union {EvidencePaths(j) : j \in void}),
             !.endings = {e \in Endings : /\ e[1] \in freed
                                          /\ e[2] = RecoveryTarget(e[1])}]]
        /\ UNCHANGED <<files, executor, faults>>

\* Mutant: a finalizing job is committed without promoting its bundle.
SettleUnverified(w) ==
    /\ proc[w].pc = "settle"
    /\ \E claim \in proc[w].finalizing :
         proc' = [proc EXCEPT ![w] = [@ EXCEPT
                    !.pc = "commit", !.back = "settle", !.claim = claim,
                    !.finalizing = proc[w].finalizing \ {claim}]]
    /\ UNCHANGED <<job, rows, files, executor, issued, faults>>

\* The loop over finalizing_claims calls _finish_success on each.
SettleClaim(w) ==
    /\ proc[w].pc = "settle"
    /\ \E claim \in proc[w].finalizing :
         proc' = [proc EXCEPT ![w] = [@ EXCEPT
                    !.pc = "promote", !.back = "settle", !.claim = claim,
                    !.finalizing = proc[w].finalizing \ {claim}]]
    /\ UNCHANGED <<job, rows, files, executor, issued, faults>>

\* _remove_evidence_paths(stale_paths) once every claim is settled.
RemoveStale(w) ==
    /\ proc[w].pc = "settle"
    /\ proc[w].finalizing = {}
    /\ RemovePaths(proc[w].stale)
    /\ proc' = [proc EXCEPT ![w] = [@ EXCEPT !.pc = "recording", !.stale = {}]]
    /\ UNCHANGED <<job, rows, executor, issued, faults>>

\* An ended run without a manifest hash.
UnrecordedFailure(e) ==     \* mutant: cancelled runs are not listed
    /\ e[2] = "failed" /\ job[e[1]].state = e[2]
    /\ IsRun(e[1]) /\ manifest[e[1]] = NoManifest
Unrecorded(e) ==
    /\ job[e[1]].state = e[2]
    /\ IsRun(e[1]) /\ manifest[e[1]] = NoManifest

\* _repair_terminal_evidence lists them.
ScanTerminal(w) ==
    /\ proc[w].pc = "recording"
    /\ proc[w].endings = {}
    /\ proc' = [proc EXCEPT ![w] = [@ EXCEPT !.pc = "repairing",
                          !.endings = {e \in Endings : Unrecorded(e)}]]
    /\ UNCHANGED <<job, rows, files, executor, issued, faults>>

\* The loops of recover and _repair_terminal_evidence over ended runs.
RecordNext(w) ==
    /\ proc[w].pc \in {"recording", "repairing"}
    /\ \E e \in proc[w].endings :
         proc' = [proc EXCEPT ![w] = [@ EXCEPT
                    !.pc = "bundle", !.back = proc[w].pc, !.target = e,
                    !.endings = proc[w].endings \ {e}]]
    /\ UNCHANGED <<job, rows, files, executor, issued, faults>>

\* Succeeded jobs that own files.
PublishedExport(j) == job[j].state = "succeeded" /\ ~IsRun(j)   \* mutant: no runs
Published(j) == job[j].state = "succeeded" /\ HasBundle(j)

\* _repair_published_artifacts lists them.
ScanPublished(w) ==
    /\ proc[w].pc = "repairing"
    /\ proc[w].endings = {}
    /\ proc' = [proc EXCEPT ![w] = [@ EXCEPT !.pc = "verifying",
                          !.verify = {j \in Jobs : Published(j)}]]
    /\ UNCHANGED <<job, rows, files, executor, issued, faults>>

\* _verify_succeeded_final; a job no longer succeeded is passed over.
VerifySucceeded(w) ==
    /\ proc[w].pc = "verifying"
    /\ \E j \in proc[w].verify :
         IF job[j].state = "succeeded" /\ ~Verified(j)
           THEN proc' = [proc EXCEPT ![w] = [@ EXCEPT
                           !.pc = "condemn", !.back = "verifying",
                           !.target = <<j, "failed">>, !.verify = proc[w].verify \ {j}]]
           ELSE proc' = [proc EXCEPT ![w] = [@ EXCEPT !.verify = proc[w].verify \ {j}]]
    /\ UNCHANGED <<job, rows, files, executor, issued, faults>>

\* _fail_succeeded_evidence
Condemn(w) ==
    LET j == proc[w].target[1]
    IN  /\ proc[w].pc = "condemn"
        /\ IF job[j].state = "succeeded"
             THEN /\ job' = [job EXCEPT ![j].state = "failed"]
                  /\ Invalidate({j})
                  /\ proc' = [proc EXCEPT ![w] = [@ EXCEPT !.pc = "drop",
                                          !.trash = EvidencePaths(j)]]
             ELSE Return(w) /\ UNCHANGED <<job, rows>>
        /\ UNCHANGED <<files, executor, issued, faults>>

-----------------------------------------------------------------------------
(* Worker._claim and Worker._execute *)

Queued == {j \in Jobs : job[j].state = "queued" /\ ~job[j].cancel}

\* The oldest queued job goes to this worker under a fresh token and its
\* executor is started.
ClaimOldest(w) ==
    /\ proc[w].pc = "verifying" /\ proc[w].verify = {}
    /\ \E j \in Queued :
         /\ \A k \in Queued : j <= k
         /\ issued[j] < MaxTokens
         /\ job' = [job EXCEPT ![j] = [@ EXCEPT
                      !.state = "running", !.token = issued[j] + 1,
                      !.attempt = job[j].attempt + 1, !.lease = "live"]]
         /\ issued' = [issued EXCEPT ![j] = @ + 1]
         /\ executor' = [executor EXCEPT ![j][issued[j] + 1] = "starting"]
         /\ proc' = [proc EXCEPT ![w] = [Idle EXCEPT
                       !.pc = "executing", !.claim = <<j, issued[j] + 1>>]]
    /\ UNCHANGED <<rows, files, faults>>

\* No queued job (or another process took it between the SELECT and the
\* UPDATE of _claim, which is this step after theirs): sleep and poll again.
NothingToClaim(w) ==
    /\ proc[w].pc = "verifying" /\ proc[w].verify = {}
    /\ Queued = {}
    /\ Goto(w, "poll")
    /\ UNCHANGED <<job, rows, files, executor, issued, faults>>

\* One turn of the monitor loop while the claim is owned: _heartbeat renews
\* the lease, even one already expired, and a cancellation is noticed.
Heartbeat(w) ==
    LET claim == proc[w].claim  j == claim[1]
    IN  /\ proc[w].pc = "executing"
        /\ Holds(claim) /\ job[j].state \in Leased
        /\ job' = [job EXCEPT ![j].lease = "live"]
        /\ IF job[j].cancel
             THEN proc' = [proc EXCEPT ![w] = [@ EXCEPT !.pc = "reaping", !.back = "cancel"]]
             ELSE UNCHANGED proc
        /\ UNCHANGED <<rows, files, executor, issued, faults>>

\* One turn of the monitor loop after the claim was lost: wait for the child
\* if another worker finished the job, else stop it.  The second read of the
\* row, after a heartbeat that succeeded, stops it in either case.
LoseLease(w) ==
    LET claim == proc[w].claim  j == claim[1]
    IN  /\ proc[w].pc = "executing"
        /\ ~(Holds(claim) /\ job[j].state \in Leased)
        /\ \/ job[j].state = "succeeded" /\ Goto(w, "draining")
           \/ proc' = [proc EXCEPT ![w] = [@ EXCEPT !.pc = "reaping", !.back = "poll"]]
        /\ UNCHANGED <<job, rows, files, executor, issued, faults>>

Child(w) == executor[proc[w].claim[1]][proc[w].claim[2]]

\* The wall clock or the output limit ends the attempt.
LimitExceeded(w) ==
    /\ proc[w].pc \in {"executing", "draining"}
    /\ Child(w) \in Running
    /\ proc' = [proc EXCEPT ![w] = [@ EXCEPT !.pc = "reaping", !.back = "fail"]]
    /\ UNCHANGED <<job, rows, files, executor, issued, faults>>

\* _terminate_and_reap, then the outcome, which output that overflowed
\* meanwhile turns into a failure.
Reap(w) ==
    LET claim == proc[w].claim
    IN  /\ proc[w].pc = "reaping"
        /\ executor' = [executor EXCEPT ![claim[1]][claim[2]] =
                          IF @ \in Running THEN "killed" ELSE @]
        /\ \E outcome \in {proc[w].back, "fail"} :
             proc' = [proc EXCEPT ![w] = [@ EXCEPT
                        !.pc = outcome, !.back = "poll",
                        !.claim = IF outcome = "poll" THEN NoClaim ELSE proc[w].claim]]
        /\ UNCHANGED <<job, rows, files, issued, faults>>

\* What follows each return code of the child; code 75 ends the attempt as
\* cancelled only while the claim still owns a CANCELLING job.
AfterExitUnhandled(claim, code) ==   \* mutant: code 75 has no outcome
    CASE code = "exit0" -> "promote"
      [] code = "exit130" -> "cancel"
      [] code = "exit75" -> "lost"
      [] OTHER -> "fail"
AfterExit(claim, code) ==
    CASE code = "exit0" -> "promote"
      [] code = "exit130" -> "cancel"
      [] code = "exit75" -> IF Holds(claim) /\ job[claim[1]].state = "cancelling"
                              THEN "cancel" ELSE "poll"
      [] OTHER -> "fail"

ChildExited(w) ==
    /\ proc[w].pc \in {"executing", "draining"}
    /\ Child(w) \in Exited
    /\ \E outcome \in {AfterExit(proc[w].claim, Child(w)), "fail"} :
         proc' = [proc EXCEPT ![w] = [@ EXCEPT
                    !.pc = outcome, !.back = "poll",
                    !.claim = IF outcome = "poll" THEN NoClaim ELSE proc[w].claim]]
    /\ UNCHANGED <<job, rows, files, executor, issued, faults>>

-----------------------------------------------------------------------------
(* Worker._finish_success, _finish_failed, _finish_cancelled *)

\* _promote_claim_artifacts up to its rename: check the claim, then look for
\* the bundle.  A verified final bundle makes the staged one redundant.
PromoteLook(w) ==
    LET claim == proc[w].claim  j == claim[1]
        owned == Holds(claim) /\ job[j].state = "finalizing" /\ evidence[j]
        t == job[j].result
        stagedOnly == final[j] = NoBundle /\ staging[j][t] = "intact"
    IN  /\ proc[w].pc = "promote"
        /\ CASE ~owned -> Goto(w, "fail") /\ UNCHANGED staging
             [] owned /\ ~HasBundle(j) -> Goto(w, "commit") /\ UNCHANGED staging
             [] owned /\ HasBundle(j) /\ Verified(j) ->
                  /\ Goto(w, "commit")
                  /\ staging' = [staging EXCEPT ![j][t] = "none"]
             [] OTHER ->
                  /\ Goto(w, IF stagedOnly THEN "rename" ELSE "fail")
                  /\ UNCHANGED staging
        /\ UNCHANGED <<job, rows, final, executor, issued, faults>>

StagedBundle(j, t) == [manifest |-> Success(t), intact |-> staging[j][t] = "intact"]

\* os.rename moves a staged bundle; a directory does not replace another.
CanRename(j, t) == staging[j][t] # "none" /\ (IsRun(j) => final[j] = NoBundle)

Rename(j, t) ==
    /\ final' = [final EXCEPT ![j] = StagedBundle(j, t)]
    /\ staging' = [staging EXCEPT ![j][t] = "none"]

\* The rename of _promote_run_bundle and _promote_export, which a bundle that
\* was moved or altered since the look turns into a failure.
PromoteRename(w) ==
    LET j == proc[w].claim[1]  t == job[j].result
    IN  /\ proc[w].pc = "rename"
        /\ IF CanRename(j, t)
             THEN /\ Rename(j, t)
                  /\ Goto(w, IF /\ StagedBundle(j, t).intact
                                /\ manifest[j] = Success(t)
                               THEN "commit" ELSE "fail")
             ELSE Goto(w, "fail") /\ UNCHANGED files
        /\ UNCHANGED <<job, rows, executor, issued, faults>>

\* The last compare-and-set of _finish_success.  Losing it raises an error
\* that nothing in run_forever catches: the worker process ends.
CommitSuccess(w) ==
    LET claim == proc[w].claim  j == claim[1]
    IN  /\ proc[w].pc = "commit"
        /\ IF Holds(claim) /\ job[j].state = "finalizing"
             THEN /\ job' = [job EXCEPT ![j] = Release(@, "succeeded")]
                  /\ Return(w)
             ELSE /\ proc' = [proc EXCEPT ![w] = [Idle EXCEPT !.pc = "down"]]
                  /\ UNCHANGED job
        /\ UNCHANGED <<rows, files, executor, issued, faults>>

\* _finish_failed reads the row before the UPDATE takes the write lock.
FailLook(w) ==
    LET j == proc[w].claim[1]
    IN  /\ proc[w].pc = "fail"
        /\ IF job[j].state \in Leased
             THEN proc' = [proc EXCEPT ![w] = [@ EXCEPT !.pc = "failing",
                                                       !.source = job[j].state]]
             ELSE Return(w)
        /\ UNCHANGED <<job, rows, files, executor, issued, faults>>

\* The compare-and-set of _finish_failed: what FINALIZING made visible is taken
\* back.  A cancellation request since the look makes it fail; the job then
\* keeps its lease until that expires.
FinishFailed(w) ==
    LET claim == proc[w].claim  j == claim[1]
        void == proc[w].source = "finalizing"
    IN  /\ proc[w].pc = "failing"
        /\ IF Holds(claim) /\ job[j].state = proc[w].source
             THEN /\ job' = [job EXCEPT ![j] = Release(@, "failed")]
                  /\ Invalidate(IF void THEN {j} ELSE {})
                  /\ proc' = [proc EXCEPT ![w] = [@ EXCEPT
                       !.pc = "drop", !.source = "absent", !.target = <<j, "failed">>,
                       !.trash = IF void THEN EvidencePaths(j) ELSE {}]]
             ELSE Return(w) /\ UNCHANGED <<job, rows>>
        /\ UNCHANGED <<files, executor, issued, faults>>

\* _finish_cancelled
FinishCancelled(w) ==
    LET claim == proc[w].claim  j == claim[1]
    IN  /\ proc[w].pc = "cancel"
        /\ IF Holds(claim) /\ job[j].state \in {"running", "cancelling"}
             THEN /\ job' = [job EXCEPT ![j] = Release(@, "cancelled")]
                  /\ proc' = [proc EXCEPT ![w] = [@ EXCEPT !.pc = "bundle",
                                          !.target = <<j, "cancelled">>]]
             ELSE Return(w) /\ UNCHANGED job
        /\ UNCHANGED <<rows, files, executor, issued, faults>>

\* _remove_evidence_paths after a failed finish or a failed repair.
DropEvidence(w) ==
    /\ proc[w].pc = "drop"
    /\ RemovePaths(proc[w].trash)
    /\ proc' = [proc EXCEPT ![w] = [@ EXCEPT !.pc = "bundle", !.trash = {}]]
    /\ UNCHANGED <<job, rows, executor, issued, faults>>

-----------------------------------------------------------------------------
(* Worker._record_terminal_run, called by workers and request threads *)

\* Write the terminal bundle unless a bundle is already there.
WriteEnding(p) ==
    LET j == proc[p].target[1]  status == proc[p].target[2]
    IN  /\ proc[p].pc = "bundle"
        /\ IF job[j].state = status /\ IsRun(j)
             THEN /\ final' = [final EXCEPT ![j] = IF @ = NoBundle
                                                     THEN Ending(status) ELSE @]
                  /\ Goto(p, "row")
             ELSE Return(p) /\ UNCHANGED final
        /\ UNCHANGED <<job, rows, staging, executor, issued, faults>>

\* Record the hash of the manifest found at the final path.
RecordEnding(p) ==
    LET j == proc[p].target[1]
    IN  /\ proc[p].pc = "row"
        /\ manifest' = [manifest EXCEPT ![j] = IF final[j] # NoBundle
                                                 THEN final[j].manifest ELSE @]
        /\ Return(p)
        /\ UNCHANGED <<job, evidence, files, executor, issued, faults>>

-----------------------------------------------------------------------------
(* The executor process of token t of job j *)

Exec(j, t, from, to) ==
    /\ executor[j][t] = from
    /\ executor' = [executor EXCEPT ![j][t] = to]

\* assert_running: the first check, and the check before each origin.
AssertRunning(j, t) ==
    /\ \E from \in {"starting", "computing"} :
         Exec(j, t, from,
              CASE job[j].cancel \/ job[j].state = "cancelling" -> "exit130"
                [] ~job[j].cancel /\ job[j].state = "running" /\ job[j].token = t
                     -> "computing"
                [] OTHER -> "exit75")
    /\ UNCHANGED <<job, rows, files, proc, issued, faults>>

\* Compute the result; a run or an export writes its bundle to staging.
Stage(j, t) ==
    /\ Exec(j, t, "computing", "staged")
    /\ staging' = [staging EXCEPT ![j][t] = IF HasBundle(j) THEN "intact" ELSE @]
    /\ UNCHANGED <<job, rows, final, proc, issued, faults>>

MayPublish(j, t) == /\ job[j].state = "running"
                    /\ job[j].token = t
                    /\ job[j].lease = "live"
                    /\ ~job[j].cancel

\* begin_publish
BeginPublish(j, t) ==
    /\ IF MayPublish(j, t)
         THEN /\ Exec(j, t, "staged", "publishing")
              /\ job' = [job EXCEPT ![j].state = "publishing"]
         ELSE /\ Exec(j, t, "staged", IF job[j].cancel THEN "exit130" ELSE "exit75")
              /\ UNCHANGED job
    /\ UNCHANGED <<rows, files, proc, issued, faults>>

MayFinalize(j, t) == /\ job[j].state = "publishing"
                     /\ job[j].token = t
                     /\ job[j].lease = "live"

\* finalize: the state, the result and the evidence rows in one transaction.
Finalize(j, t) ==
    /\ IF MayFinalize(j, t)
         THEN /\ Exec(j, t, "publishing",
                      IF HasBundle(j) THEN "finalized" ELSE "exit0")
              /\ job' = [job EXCEPT ![j].state = "finalizing", ![j].result = t]
              /\ evidence' = [evidence EXCEPT ![j] = TRUE]
              /\ manifest' = [manifest EXCEPT ![j] = IF HasBundle(j)
                                                       THEN Success(t) ELSE @]
         ELSE /\ Exec(j, t, "publishing", "exit75")
              /\ UNCHANGED <<job, rows>>
    /\ UNCHANGED <<files, proc, issued, faults>>

\* The rename that follows finalize, not guarded by the lease.
Publish(j, t) ==
    /\ IF CanRename(j, t)
         THEN Exec(j, t, "finalized", "exit0") /\ Rename(j, t)
         ELSE Exec(j, t, "finalized", "error") /\ UNCHANGED files
    /\ UNCHANGED <<job, rows, proc, issued, faults>>

\* The executor raises, runs out of memory or is killed from outside.
ExecutorDies(j, t) ==
    /\ \E from \in Running : Exec(j, t, from, "error")
    /\ UNCHANGED <<job, rows, files, proc, issued, faults>>

Orphan(j, t) == /\ executor[j][t] \in Running
                /\ \A w \in Workers : proc[w].claim # <<j, t>>

\* watch_parent and _assert_parent: an executor without its worker stops, but
\* not before it may have taken further steps.
OrphanStops(j, t) ==
    /\ Orphan(j, t)
    /\ executor' = [executor EXCEPT ![j][t] = "killed"]
    /\ UNCHANGED <<job, rows, files, proc, issued, faults>>

-----------------------------------------------------------------------------
(* Time and faults *)

\* A live process holds the current token of j.
Held(j) == \E w \in Workers : \/ proc[w].claim = <<j, job[j].token>>
                              \/ <<j, job[j].token>> \in proc[w].finalizing

\* lease_expires_at passes.
LeaseExpires(j) ==
    /\ job[j].lease = "live"
    /\ Held(j) => stalls < MaxStalls
    /\ job' = [job EXCEPT ![j].lease = "expired"]
    /\ stalls' = IF Held(j) THEN stalls + 1 ELSE stalls
    /\ UNCHANGED <<rows, files, executor, proc, issued, crashes, damages>>

\* A worker or a request thread dies; its locals are lost.
Crash(p) ==
    /\ crashes < MaxCrashes
    /\ proc[p].pc # "down"
    /\ proc' = [proc EXCEPT ![p] = [Idle EXCEPT !.pc = "down"]]
    /\ crashes' = crashes + 1
    /\ UNCHANGED <<job, rows, files, executor, issued, stalls, damages>>

\* Somebody starts the process again; a worker gets a new worker_id.
Restart(p) ==
    /\ proc[p].pc = "down"
    /\ Goto(p, "poll")
    /\ UNCHANGED <<job, rows, files, executor, issued, faults>>

\* A published bundle is altered or removed on disk.
DamageFinal(j) ==
    /\ damages < MaxDamage
    /\ final[j].intact
    /\ \E b \in {[final[j] EXCEPT !.intact = FALSE], NoBundle} :
         final' = [final EXCEPT ![j] = b]
    /\ damages' = damages + 1
    /\ UNCHANGED <<job, rows, staging, executor, proc, issued, crashes, stalls>>

\* A staged bundle is altered or removed on disk.
DamageStaged(j, t) ==
    /\ damages < MaxDamage
    /\ staging[j][t] = "intact"
    /\ \E b \in {"none", "damaged"} : staging' = [staging EXCEPT ![j][t] = b]
    /\ damages' = damages + 1
    /\ UNCHANGED <<job, rows, final, executor, proc, issued, crashes, stalls>>

-----------------------------------------------------------------------------
Recover(w) == \/ Sweep(w) \/ SettleClaim(w) \/ RemoveStale(w)
              \/ ScanTerminal(w) \/ RecordNext(w) \/ ScanPublished(w)
              \/ VerifySucceeded(w) \/ Condemn(w)

Finish(w) == \/ PromoteLook(w) \/ PromoteRename(w) \/ CommitSuccess(w)
             \/ FailLook(w) \/ FinishFailed(w) \/ FinishCancelled(w) \/ DropEvidence(w)

Execute(w) == \/ ClaimOldest(w) \/ NothingToClaim(w)
              \/ Heartbeat(w) \/ LoseLease(w)
              \/ LimitExceeded(w) \/ Reap(w) \/ ChildExited(w)

Record(p) == WriteEnding(p) \/ RecordEnding(p)

Request == \E j \in Jobs : \/ Enqueue(j) \/ CancelRunning(j)
                           \/ \E c \in Clients : CancelQueued(c, j)

Executor(j, t) == \/ AssertRunning(j, t) \/ Stage(j, t) \/ BeginPublish(j, t)
                  \/ Finalize(j, t) \/ Publish(j, t)
                  \/ ExecutorDies(j, t) \/ OrphanStops(j, t)

Fault == \/ \E p \in Procs : Crash(p) \/ Restart(p)
         \/ \E j \in Jobs : \/ LeaseExpires(j) \/ DamageFinal(j)
                            \/ \E t \in Tokens : DamageStaged(j, t)

Next == \/ Request
        \/ \E w \in Workers : Recover(w) \/ Finish(w) \/ Execute(w)
        \/ \E p \in Procs : Record(p)
        \/ \E j \in Jobs, t \in Tokens : Executor(j, t)
        \/ Fault

Spec == Init /\ [][Next]_vars

(***************************************************************************)
(* Fairness.  Every live worker goes on with its loop: the steps of        *)
(* run_forever never wait for anything but the child.  A child may hang,   *)
(* but the monitor loop then meets its wall clock limit; a child that      *)
(* ended is noticed by poll().  Time passes, so the lease of a dead worker *)
(* expires.  Nothing is assumed of executors, requests or restarts.        *)
(***************************************************************************)
Fairness ==
    /\ \A w \in Workers :
         /\ WF_vars(Recover(w) \/ Finish(w) \/ Record(w) \/ Reap(w)
                      \/ ClaimOldest(w) \/ NothingToClaim(w))
         /\ WF_vars(LimitExceeded(w) \/ ChildExited(w))
    /\ \A j \in Jobs : WF_vars(~Held(j) /\ LeaseExpires(j))

FairSpec == Spec /\ Fairness

-----------------------------------------------------------------------------
(* Safety *)

\* A cancellation that request_cancellation accepted is final: the job may
\* still fail, but it never waits, runs or publishes again, whatever recover,
\* the monitor loop and the executor do afterwards.
CancelSticks ==
    \A j \in Jobs : job[j].cancel => job[j].state \in {"cancelling", "cancelled", "failed"}

\* While a job waits or computes, no attempt of it has left a result, an
\* evidence row or a bundle at the final path, also not an earlier attempt
\* whose executor outlived its lease.  (So run_backtest never meets its
\* "already visible" case, which renames nothing.)
NothingPublishedEarly ==
    \A j \in Jobs : job[j].state \in {"queued", "running", "cancelling"} =>
        /\ job[j].result = 0 /\ ~evidence[j]
        /\ manifest[j] = NoManifest /\ final[j] = NoBundle

\* Of all executors ever started for a job, at most one gets past
\* begin_publish: the generation fence of the lease token.
OnePublisher ==
    \A j \in Jobs : \A s, t \in Tokens :
        /\ executor[j][s] \in {"publishing", "finalized", "exit0"}
        /\ executor[j][t] \in {"publishing", "finalized", "exit0"}
        => s = t

\* Evidence rows exist only while their job is being finalized or has
\* succeeded: every way a job fails after finalize takes them back.
EvidenceOfSuccessOnly ==
    \A j \in Jobs : evidence[j] =>
        \/ job[j].state \in {"finalizing", "succeeded"}
        \/ j \in Legacy /\ job[j].state = "publishing"

\* A job that crashes between finalize and its rename can be completed: the
\* bundle whose hash was recorded is at the final path or still staged.
FinalizingRecoverable ==
    \A j \in Jobs :
        damages = 0 /\ job[j].state = "finalizing" /\ HasBundle(j) =>
            \/ Verified(j)
            \/ /\ final[j] = NoBundle
               /\ staging[j][job[j].result] = "intact"
               /\ manifest[j] = Success(job[j].result)

\* A succeeded run or export has the bundle its recorded hash describes,
\* however promotion by several workers and the executor interleaved.
SucceededVerified ==
    \A j \in Jobs :
        damages = 0 /\ job[j].state = "succeeded" /\ HasBundle(j) => Verified(j)

\* What a cancelled run shows as its bundle and its manifest says cancelled.
CancelledEvidence ==
    \A j \in Jobs : job[j].state = "cancelled" =>
        /\ manifest[j].status \in {"none", "cancelled"}
        /\ final[j].manifest.status \in {"none", "cancelled"}

\* A failed run whose manifest hash is recorded shows a manifest that says
\* failed, as tests/test_last_delta_regressions.py and
\* tests/test_terminal_bundle_regressions.py assert after a recovery.
FailedEvidence ==
    \A j \in Jobs : job[j].state = "failed" =>
        manifest[j].status \in {"none", "failed"}

-----------------------------------------------------------------------------
(* Refinement *)

Phase(state) == CASE state = "queued" -> "waiting"
                  [] state \in {"running", "cancelling"} -> "working"
                  [] state \in {"publishing", "finalizing"} -> "committing"
                  [] OTHER -> state

Lifecycle == INSTANCE JobLifecycle WITH
    phase <- [j \in Jobs |-> Phase(job[j].state)],
    attempts <- [j \in Jobs |-> job[j].attempt],
    asked <- [j \in Jobs |-> job[j].cancel],
    shown <- evidence

\* Seen through states, attempts, the cancel flag and the evidence rows, the
\* queue with all its workers behaves as JobLifecycle says.
ImplementsLifecycle == Lifecycle!Spec

-----------------------------------------------------------------------------
(* Liveness *)

\* At every moment some worker process exists.
SomeWorkerLives == \E w \in Workers : proc[w].pc # "down"

\* A job that ended, a run without success with its terminal evidence
EndedOnRecord(j) ==
    /\ job[j].state \in Terminal
    /\ IsRun(j) /\ job[j].state \in {"failed", "cancelled"} => manifest[j] # NoManifest

\* As long as some worker lives, every enqueued job ends, and a run that ends without
\* success gets its terminal evidence, although workers and request threads crash at
\* any step, also between the end and its record, leases run out and executors hang.
JobsEnd ==
    []SomeWorkerLives =>
        \A j \in Jobs : job[j].state # "absent" ~> EndedOnRecord(j)

\* As long as some worker lives, a succeeded run or export whose bundle was
\* altered or removed does not stay succeeded: a claim cycle finds it.
DamageFound ==
    []SomeWorkerLives =>
        \A j \in Jobs : job[j].state = "succeeded" /\ HasBundle(j) /\ ~Verified(j)
                           ~> job[j].state = "failed"
=============================================================================
