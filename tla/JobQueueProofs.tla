--------------------------- MODULE JobQueueProofs ---------------------------
(***************************************************************************)
(* Theorems about JobQueue for every number of jobs, workers, request      *)
(* threads, attempts, tokens, crashes, stalls and damages.                 *)
(***************************************************************************)
EXTENDS JobQueue, TLAPS

-----------------------------------------------------------------------------
(* Lemmas about the helpers *)

\* recover gives a released job one of four states.
LEMMA RecoveryTargets ==
    \A j \in Jobs : RecoveryTarget(j) \in {"succeeded", "cancelled", "failed", "queued"}
  BY DEF RecoveryTarget

\* Releasing a row gives a row in the given state without a lease.
LEMMA ReleaseType ==
    ASSUME NEW r \in Job, NEW state \in States
    PROVE  /\ Release(r, state) \in Job
           /\ Release(r, state).state = state
           /\ Release(r, state).cancel = r.cancel
           /\ Release(r, state).result = r.result
           /\ Release(r, state).attempt = r.attempt
  <1>1. 0 \in 0..MaxTokens
    BY BoundsAssumption
  <1>2. Release(r, state) \in Job
    BY <1>1 DEF Job, Release
  <1>3. Release(r, state).state = state
    BY DEF Job, Release
  <1>4. Release(r, state).cancel = r.cancel
    BY DEF Job, Release
  <1>5. Release(r, state).result = r.result /\ Release(r, state).attempt = r.attempt
    BY DEF Job, Release
  <1> QED
    BY <1>2, <1>3, <1>4, <1>5

\* Idle locals are well typed and need nothing.
LEMMA IdleType == Idle \in Proc /\ LocalsOK(Idle)
  <1>1. 0 \in 0..NumJobs /\ 0 \in 0..MaxTokens
    BY BoundsAssumption
  <1>2. Idle \in Proc
    BY <1>1 DEF Idle, Proc, PCs, Claims, NoClaim, NoEnding, States
  <1>3. LocalsOK(Idle)
    BY DEF Idle, LocalsOK, ClaimPCs, TargetPCs, Returning
  <1> QED
    BY <1>2, <1>3

\* What LocalsOK asks at each kind of program point.
LEMMA LocalsFree ==
    ASSUME NEW r, r.pc \in {"down"} \union Returning, r.back \in Returning
    PROVE  LocalsOK(r)
  BY DEF LocalsOK, ClaimPCs, TargetPCs, Returning

LEMMA LocalsClaim ==
    ASSUME NEW r, r.pc \in ClaimPCs, r.pc # "reaping",
           r.pc = "failing" => r.source \in Leased, r.claim \in Jobs \X Tokens, r.back \in Returning
    PROVE  LocalsOK(r)
  BY DEF LocalsOK, ClaimPCs, TargetPCs

LEMMA LocalsReaping ==
    ASSUME NEW r, r.pc = "reaping",
           r.claim \in Jobs \X Tokens, r.back \in {"poll", "fail", "cancel"}
    PROVE  LocalsOK(r)
  BY DEF LocalsOK, ClaimPCs, TargetPCs

LEMMA LocalsTarget ==
    ASSUME NEW r, r.pc \in TargetPCs, r.target \in Endings, r.back \in Returning
    PROVE  LocalsOK(r)
  BY DEF LocalsOK, ClaimPCs, TargetPCs

\* The locals of a process at hand.
LEMMA ProcAt ==
    ASSUME TypeOK, NEW p \in Procs
    PROVE  /\ proc[p] \in Proc
           /\ proc[p].pc \in ClaimPCs => proc[p].claim \in Jobs \X Tokens
           /\ proc[p].pc \in TargetPCs => proc[p].target \in Endings
           /\ proc[p].pc = "reaping" => proc[p].back \in {"poll", "fail", "cancel"}
           /\ proc[p].pc # "reaping" => proc[p].back \in Returning
           /\ proc[p].pc = "failing" => proc[p].source \in Leased
  BY DEF TypeOK, LocalsOK

\* Changing the locals of one process keeps the type of proc.
LEMMA ProcUpdate ==
    ASSUME TypeOK, NEW p \in Procs, NEW r \in Proc, LocalsOK(r),
           proc' = [proc EXCEPT ![p] = r]
    PROVE  proc' \in [Procs -> Proc] /\ \A q \in Procs : LocalsOK(proc'[q])
  BY DEF TypeOK

\* Return leads back to a point of the worker's loop.
LEMMA ReturnType ==
    ASSUME TypeOK, NEW p \in Procs, Return(p), proc[p].pc # "reaping"
    PROVE  proc' \in [Procs -> Proc] /\ \A q \in Procs : LocalsOK(proc'[q])
  <1> DEFINE r == [proc[p] EXCEPT !.pc = proc[p].back, !.back = "poll",
                      !.claim = NoClaim, !.source = "absent", !.target = NoEnding,
                      !.trash = {}]
  <1>1. proc[p] \in Proc /\ LocalsOK(proc[p])
    BY DEF TypeOK
  <1>2. r \in Proc
    <2>1. NoClaim \in Claims /\ "poll" \in PCs /\ "absent" \in States
      BY BoundsAssumption DEF Claims, NoClaim, PCs, States
    <2> QED
      BY <1>1, <2>1 DEF Proc, NoEnding
  <1>3. r.pc = proc[p].back /\ r.back = "poll"
    BY <1>1 DEF Proc
  <1>4. LocalsOK(r)
    BY <1>3, LocalsFree, ProcAt DEF Returning
  <1>5. proc' = [proc EXCEPT ![p] = r]
    BY DEF Return
  <1> QED
    BY <1>2, <1>4, <1>5, ProcUpdate

\* The paths of a job's evidence are paths of that job.
LEMMA EvidencePathsType ==
    ASSUME TypeOK, NEW j \in Jobs
    PROVE  EvidencePaths(j) \subseteq Paths
  <1>1. job[j].result \in 0..MaxTokens
    BY DEF TypeOK, Job
  <1>2. 0 \in 0..MaxTokens
    BY BoundsAssumption
  <1> QED
    BY <1>1, <1>2 DEF EvidencePaths, Paths

\* Taking evidence back keeps the types of the evidence rows.
LEMMA InvalidateType ==
    ASSUME TypeOK, NEW S, Invalidate(S)
    PROVE  evidence' \in [Jobs -> BOOLEAN] /\ manifest' \in [Jobs -> Manifest]
  <1>1. NoManifest \in Manifest
    BY BoundsAssumption DEF NoManifest, Manifest
  <1>2. evidence' \in [Jobs -> BOOLEAN]
    BY DEF TypeOK, Invalidate
  <1>3. manifest' \in [Jobs -> Manifest]
    BY <1>1 DEF TypeOK, Invalidate
  <1> QED
    BY <1>2, <1>3

\* Removing paths keeps the types of the files.
LEMMA RemovePathsType ==
    ASSUME TypeOK, NEW S, RemovePaths(S)
    PROVE  /\ final' \in [Jobs -> Bundle]
           /\ staging' \in [Jobs -> [Tokens -> {"none", "intact", "damaged"}]]
  <1>1. NoBundle \in Bundle
    BY BoundsAssumption DEF NoBundle, Bundle, NoManifest, Manifest
  <1>2. final' \in [Jobs -> Bundle]
    BY <1>1 DEF TypeOK, RemovePaths
  <1>3. staging' \in [Jobs -> [Tokens -> {"none", "intact", "damaged"}]]
    BY DEF TypeOK, RemovePaths
  <1> QED
    BY <1>2, <1>3

-----------------------------------------------------------------------------
(* Type correctness *)

\* Every request keeps the types.
LEMMA RequestType == TypeOK /\ Request => TypeOK'
  <1> SUFFICES ASSUME TypeOK, NEW j \in Jobs,
                      \/ Enqueue(j) \/ CancelRunning(j)
                      \/ \E c \in Clients : CancelQueued(c, j)
               PROVE  TypeOK'
    BY DEF Request
  <1>a. job[j] \in Job
    BY DEF TypeOK
  <1>1. CASE Enqueue(j)
    <2>1. [job[j] EXCEPT !.state = "queued"] \in Job
      BY <1>a DEF Job, States
    <2>2. job' \in [Jobs -> Job]
      BY <1>1, <2>1 DEF Enqueue, TypeOK
    <2> QED
      BY <1>1, <2>2 DEF Enqueue, TypeOK, rows, files, faults
  <1>2. CASE CancelRunning(j)
    <2>1. [job[j] EXCEPT !.state = "cancelling", !.cancel = TRUE] \in Job
      BY <1>a DEF Job, States, Leased
    <2>2. job' \in [Jobs -> Job]
      BY <1>2, <2>1 DEF CancelRunning, TypeOK
    <2> QED
      BY <1>2, <2>2 DEF CancelRunning, TypeOK, rows, files, faults
  <1>3. CASE \E c \in Clients : CancelQueued(c, j)
    <2> PICK c \in Clients : CancelQueued(c, j)
      BY <1>3
    <2>1. Release(job[j], "cancelled") \in Job
      BY <1>a, ReleaseType DEF States, Terminal
    <2>2. [Release(job[j], "cancelled") EXCEPT !.cancel = TRUE] \in Job
      BY <2>1 DEF Job
    <2>3. job' \in [Jobs -> Job]
      BY <2>2 DEF CancelQueued, TypeOK
    <2> DEFINE r == [proc[c] EXCEPT !.pc = "bundle", !.target = <<j, "cancelled">>]
    <2>4. c \in Procs /\ proc[c] \in Proc /\ proc[c].back \in Returning
      BY ProcAt DEF Procs, CancelQueued
    <2>5. r \in Proc
      BY <2>4 DEF Proc, PCs, Endings
    <2>6. LocalsOK(r)
      <3>1. r.pc = "bundle" /\ r.target = <<j, "cancelled">> /\ r.back = proc[c].back
        BY <2>4 DEF Proc
      <3> HIDE DEF r
      <3> QED
        BY <2>4, <3>1, LocalsTarget DEF TargetPCs, Endings
    <2>7. proc' \in [Procs -> Proc] /\ \A q \in Procs : LocalsOK(proc'[q])
      BY <2>4, <2>5, <2>6, ProcUpdate DEF CancelQueued
    <2> QED
      BY <2>3, <2>7 DEF CancelQueued, TypeOK, rows, files, faults
  <1> QED
    BY <1>1, <1>2, <1>3

\* The sweep of expired leases keeps the types.
LEMMA SweepType == ASSUME TypeOK, NEW w \in Workers, Sweep(w) PROVE TypeOK'
  <1> DEFINE taken == {j \in Jobs : PassedOn(j)}
             freed == {j \in Jobs : Stale(j) /\ ~PassedOn(j)}
             void == {j \in freed : job[j].state = "publishing"
                                    /\ RecoveryTarget(j) = "failed"}
             claims == {<<j, issued[j] + 1>> : j \in taken}
             paths == UNION ({AttemptStaging(j) :
                               j \in {k \in freed : RecoveryTarget(k) # "succeeded"}}
                             \union {EvidencePaths(j) : j \in void})
             ends == {e \in Endings : e[1] \in freed /\ e[2] = RecoveryTarget(e[1])}
             r == [Idle EXCEPT !.pc = "settle", !.finalizing = claims,
                               !.stale = paths, !.endings = ends]
  <1>1. \A j \in taken : issued[j] \in Nat /\ issued[j] + 1 \in Tokens
    <2>1. \A j \in Jobs : issued[j] \in 0..MaxTokens
      BY DEF TypeOK
    <2>2. \A j \in taken : j \in Jobs /\ issued[j] < MaxTokens
      BY DEF Sweep
    <2> QED
      BY <2>1, <2>2, BoundsAssumption DEF Tokens
  <1>2. job' \in [Jobs -> Job]
    <2>1. ASSUME NEW j \in taken
          PROVE  [job[j] EXCEPT !.token = issued[j] + 1, !.lease = "live"] \in Job
      <3>1. issued[j] + 1 \in 0..MaxTokens
        BY <1>1, BoundsAssumption DEF Tokens
      <3>2. job[j] \in Job
        BY DEF TypeOK
      <3> HIDE DEF taken
      <3> QED
        BY <3>1, <3>2 DEF Job
    <2>2. ASSUME NEW j \in Jobs PROVE Release(job[j], RecoveryTarget(j)) \in Job
      <3>1. RecoveryTarget(j) \in States
        BY RecoveryTargets DEF States, Terminal
      <3> QED
        BY <3>1, ReleaseType DEF TypeOK
    <2> QED
      BY <2>1, <2>2 DEF Sweep, TypeOK
  <1>3. issued' \in [Jobs -> 0..MaxTokens]
    <2>1. issued' = [j \in Jobs |-> IF j \in taken THEN issued[j] + 1 ELSE issued[j]]
      BY DEF Sweep
    <2>2. \A j \in Jobs : issued[j] \in 0..MaxTokens
      BY DEF TypeOK
    <2>3. \A j \in taken : issued[j] + 1 \in 0..MaxTokens
      BY <1>1, BoundsAssumption DEF Tokens
    <2> HIDE DEF taken
    <2> QED
      BY <2>1, <2>2, <2>3
  <1>4. evidence' \in [Jobs -> BOOLEAN] /\ manifest' \in [Jobs -> Manifest]
    BY InvalidateType DEF Sweep
  <1>5. proc' \in [Procs -> Proc] /\ \A q \in Procs : LocalsOK(proc'[q])
    <2>1. claims \subseteq Jobs \X Tokens
      BY <1>1
    <2>2. paths \subseteq Paths
      <3>1. \A j \in Jobs : AttemptStaging(j) \subseteq Paths
        BY DEF AttemptStaging, Paths, TypeOK, Job
      <3>2. \A j \in Jobs : EvidencePaths(j) \subseteq Paths
        BY EvidencePathsType
      <3> QED
        BY <3>1, <3>2
    <2>3. ends \subseteq Endings
      OBVIOUS
    <2> HIDE DEF claims, paths, ends
    <2>4. r \in Proc /\ r.pc = "settle" /\ r.back = "poll"
      <3>1. Idle \in Proc /\ Idle.back = "poll"
        BY IdleType DEF Idle
      <3> QED
        BY <2>1, <2>2, <2>3, <3>1 DEF Proc, PCs
    <2>5. LocalsOK(r)
      <3> HIDE DEF r
      <3> QED
        BY <2>4, LocalsFree DEF Returning
    <2>6. w \in Procs /\ proc' = [proc EXCEPT ![w] = r]
      BY DEF Sweep, Procs, claims, paths, ends
    <2> HIDE DEF r
    <2> QED
      BY <2>4, <2>5, <2>6, ProcUpdate
  <1> QED
    BY <1>2, <1>3, <1>4, <1>5 DEF Sweep, TypeOK, files, faults

\* The steps of recover that change nothing but the worker's locals, and the
\* removal of stale paths, keep the types.
LEMMA RecoverLocalsType ==
    ASSUME TypeOK, NEW w \in Workers,
           \/ SettleClaim(w) \/ RemoveStale(w) \/ ScanTerminal(w)
           \/ RecordNext(w) \/ ScanPublished(w) \/ VerifySucceeded(w)
    PROVE  TypeOK'
  <1>a. w \in Procs /\ proc[w] \in Proc
    BY ProcAt DEF Procs
  <1>1. CASE SettleClaim(w)
    <2> PICK claim \in proc[w].finalizing :
          proc' = [proc EXCEPT ![w] = [@ EXCEPT
                     !.pc = "promote", !.back = "settle", !.claim = claim,
                     !.finalizing = proc[w].finalizing \ {claim}]]
      BY <1>1 DEF SettleClaim
    <2> DEFINE r == [proc[w] EXCEPT !.pc = "promote", !.back = "settle",
                       !.claim = claim, !.finalizing = proc[w].finalizing \ {claim}]
    <2>1. claim \in Jobs \X Tokens /\ claim \in Claims
      <3>1. claim \in Jobs \X Tokens
        BY <1>a DEF Proc
      <3>2. Jobs \X Tokens \subseteq Claims
        BY BoundsAssumption DEF Jobs, Tokens, Claims
      <3> QED
        BY <3>1, <3>2
    <2>2. r \in Proc /\ r.pc = "promote" /\ r.claim = claim /\ r.back = "settle"
      BY <1>a, <2>1 DEF Proc, PCs
    <2>3. LocalsOK(r)
      <3> HIDE DEF r
      <3> QED
        BY <2>1, <2>2, LocalsClaim DEF ClaimPCs, Returning
    <2>4. proc' = [proc EXCEPT ![w] = r]
      OBVIOUS
    <2> HIDE DEF r
    <2>5. proc' \in [Procs -> Proc] /\ \A q \in Procs : LocalsOK(proc'[q])
      BY <1>a, <2>2, <2>3, <2>4, ProcUpdate
    <2> QED
      BY <1>1, <2>5 DEF SettleClaim, TypeOK, rows, files, faults
  <1>2. CASE RemoveStale(w)
    <2> DEFINE r == [proc[w] EXCEPT !.pc = "recording", !.stale = {}]
    <2>1. r \in Proc /\ r.pc = "recording" /\ r.back = proc[w].back
      BY <1>a DEF Proc, PCs
    <2>2. proc[w].back \in Returning
      BY <1>a, <1>2, ProcAt DEF RemoveStale
    <2>3. LocalsOK(r)
      <3> HIDE DEF r
      <3> QED
        BY <2>1, <2>2, LocalsFree DEF Returning
    <2>4. proc' \in [Procs -> Proc] /\ \A q \in Procs : LocalsOK(proc'[q])
      BY <1>2, <1>a, <2>1, <2>3, ProcUpdate DEF RemoveStale
    <2>5. RemovePaths(proc[w].stale)
      BY <1>2 DEF RemoveStale
    <2> QED
      BY <1>2, <2>4, <2>5, RemovePathsType DEF RemoveStale, TypeOK, rows, faults
  <1>3. CASE ScanTerminal(w)
    <2> DEFINE S == {e \in Endings : Unrecorded(e)}
               r == [proc[w] EXCEPT !.pc = "repairing", !.endings = S]
    <2>1. S \subseteq Endings
      OBVIOUS
    <2> HIDE DEF S
    <2>2. r \in Proc /\ r.pc = "repairing" /\ r.back = proc[w].back
      BY <1>a, <2>1 DEF Proc, PCs
    <2>3. proc[w].back \in Returning
      BY <1>a, <1>3, ProcAt DEF ScanTerminal
    <2>4. LocalsOK(r)
      <3> HIDE DEF r
      <3> QED
        BY <2>2, <2>3, LocalsFree DEF Returning
    <2>5. proc' \in [Procs -> Proc] /\ \A q \in Procs : LocalsOK(proc'[q])
      BY <1>3, <1>a, <2>2, <2>4, ProcUpdate DEF ScanTerminal, S
    <2> QED
      BY <1>3, <2>5 DEF ScanTerminal, TypeOK, rows, files, faults
  <1>4. CASE RecordNext(w)
    <2> PICK e \in proc[w].endings :
          proc' = [proc EXCEPT ![w] = [@ EXCEPT
                     !.pc = "bundle", !.back = proc[w].pc, !.target = e,
                     !.endings = proc[w].endings \ {e}]]
      BY <1>4 DEF RecordNext
    <2> DEFINE r == [proc[w] EXCEPT !.pc = "bundle", !.back = proc[w].pc,
                       !.target = e, !.endings = proc[w].endings \ {e}]
    <2>1. e \in Endings
      BY <1>a DEF Proc
    <2>2. r \in Proc /\ r.pc = "bundle" /\ r.target = e /\ r.back = proc[w].pc
      BY <1>a, <2>1 DEF Proc, PCs
    <2>3. LocalsOK(r)
      <3>1. proc[w].pc \in Returning
        BY <1>4 DEF RecordNext, Returning
      <3> HIDE DEF r
      <3> QED
        BY <2>1, <2>2, <3>1, LocalsTarget DEF TargetPCs
    <2>4. proc' = [proc EXCEPT ![w] = r]
      OBVIOUS
    <2> HIDE DEF r
    <2>5. proc' \in [Procs -> Proc] /\ \A q \in Procs : LocalsOK(proc'[q])
      BY <1>a, <2>2, <2>3, <2>4, ProcUpdate
    <2> QED
      BY <1>4, <2>5 DEF RecordNext, TypeOK, rows, files, faults
  <1>5. CASE ScanPublished(w)
    <2> DEFINE S == {j \in Jobs : Published(j)}
               r == [proc[w] EXCEPT !.pc = "verifying", !.verify = S]
    <2>1. S \subseteq Jobs
      OBVIOUS
    <2> HIDE DEF S
    <2>2. r \in Proc /\ r.pc = "verifying" /\ r.back = proc[w].back
      BY <1>a, <2>1 DEF Proc, PCs
    <2>3. proc[w].back \in Returning
      BY <1>a, <1>5, ProcAt DEF ScanPublished
    <2>4. LocalsOK(r)
      <3> HIDE DEF r
      <3> QED
        BY <2>2, <2>3, LocalsFree DEF Returning
    <2>5. proc' \in [Procs -> Proc] /\ \A q \in Procs : LocalsOK(proc'[q])
      BY <1>5, <1>a, <2>2, <2>4, ProcUpdate DEF ScanPublished, S
    <2> QED
      BY <1>5, <2>5 DEF ScanPublished, TypeOK, rows, files, faults
  <1>6. CASE VerifySucceeded(w)
    <2> PICK j \in proc[w].verify :
          \/ proc' = [proc EXCEPT ![w] = [@ EXCEPT
                        !.pc = "condemn", !.back = "verifying",
                        !.target = <<j, "failed">>, !.verify = proc[w].verify \ {j}]]
          \/ proc' = [proc EXCEPT ![w] = [@ EXCEPT !.verify = proc[w].verify \ {j}]]
      BY <1>6 DEF VerifySucceeded
    <2> DEFINE r == [proc[w] EXCEPT !.pc = "condemn", !.back = "verifying",
                       !.target = <<j, "failed">>, !.verify = proc[w].verify \ {j}]
               s == [proc[w] EXCEPT !.verify = proc[w].verify \ {j}]
    <2>1. j \in Jobs /\ <<j, "failed">> \in Endings
      BY <1>a DEF Proc, Endings
    <2>2. r \in Proc /\ r.pc = "condemn" /\ r.target = <<j, "failed">>
          /\ r.back = "verifying"
      BY <1>a, <2>1 DEF Proc, PCs
    <2>3. LocalsOK(r)
      <3> HIDE DEF r
      <3> QED
        BY <2>1, <2>2, LocalsTarget DEF TargetPCs, Returning
    <2>4. s \in Proc /\ s.pc = proc[w].pc /\ s.back = proc[w].back
      BY <1>a DEF Proc
    <2>5. proc[w].pc = "verifying" /\ proc[w].back \in Returning
      BY <1>a, <1>6, ProcAt DEF VerifySucceeded
    <2>6. LocalsOK(s)
      <3> HIDE DEF s
      <3> QED
        BY <2>4, <2>5, LocalsFree DEF Returning
    <2>7. proc' = [proc EXCEPT ![w] = r] \/ proc' = [proc EXCEPT ![w] = s]
      OBVIOUS
    <2> HIDE DEF r, s
    <2>8. proc' \in [Procs -> Proc] /\ \A q \in Procs : LocalsOK(proc'[q])
      BY <1>a, <2>2, <2>3, <2>4, <2>6, <2>7, ProcUpdate
    <2> QED
      BY <1>6, <2>8 DEF VerifySucceeded, TypeOK, rows, files, faults
  <1> QED
    BY <1>1, <1>2, <1>3, <1>4, <1>5, <1>6

\* Moving one process to a program point that needs nothing new.
LEMMA GotoType ==
    ASSUME TypeOK, NEW p \in Procs, NEW pc \in PCs, Goto(p, pc),
           proc[p].pc # "reaping",
           \/ pc \in {"down"} \union Returning
           \/ pc \in ClaimPCs \ {"reaping", "failing"} /\ proc[p].pc \in ClaimPCs
           \/ pc \in TargetPCs /\ proc[p].pc \in TargetPCs
    PROVE  proc' \in [Procs -> Proc] /\ \A q \in Procs : LocalsOK(proc'[q])
  <1> DEFINE r == [proc[p] EXCEPT !.pc = pc]
  <1>1. r \in Proc /\ r.pc = pc /\ r.back = proc[p].back /\ r.claim = proc[p].claim
        /\ r.target = proc[p].target
    BY ProcAt DEF Proc
  <1>2. proc' = [proc EXCEPT ![p] = r]
    BY DEF Goto
  <1> HIDE DEF r
  <1>3. r.back \in Returning
    BY <1>1, ProcAt
  <1>4. LocalsOK(r)
    BY <1>1, <1>3, ProcAt, LocalsFree, LocalsClaim, LocalsTarget
  <1> QED
    BY <1>1, <1>2, <1>4, ProcUpdate

\* Failing a succeeded job keeps the types.
LEMMA CondemnType == ASSUME TypeOK, NEW w \in Workers, Condemn(w) PROVE TypeOK'
  <1> DEFINE j == proc[w].target[1]
  <1>a. /\ w \in Procs /\ proc[w] \in Proc /\ proc[w].pc = "condemn"
        /\ proc[w].target \in Endings /\ proc[w].back \in Returning
    BY ProcAt DEF Procs, Condemn, TargetPCs
  <1>b. j \in Jobs
    BY <1>a DEF Endings
  <1>1. CASE job[j].state = "succeeded"
    <2>1. job' \in [Jobs -> Job]
      <3>1. [job[j] EXCEPT !.state = "failed"] \in Job
        <4> HIDE DEF j
        <4>1. job[j] \in Job /\ "failed" \in States
          BY <1>b DEF TypeOK, States, Terminal
        <4> QED
          BY <4>1 DEF Job
      <3>2. job' = [job EXCEPT ![j].state = "failed"]
        BY <1>1 DEF Condemn
      <3> QED
        BY <3>1, <3>2 DEF TypeOK
    <2>2. evidence' \in [Jobs -> BOOLEAN] /\ manifest' \in [Jobs -> Manifest]
      <3>1. Invalidate({j})
        BY <1>1 DEF Condemn
      <3> QED
        BY <3>1, InvalidateType
    <2>3. proc' \in [Procs -> Proc] /\ \A q \in Procs : LocalsOK(proc'[q])
      <3> DEFINE S == EvidencePaths(j)
                 r == [proc[w] EXCEPT !.pc = "drop", !.trash = S]
      <3>1. S \subseteq Paths
        BY <1>b, EvidencePathsType
      <3>2. proc' = [proc EXCEPT ![w] = r]
        BY <1>1 DEF Condemn
      <3> HIDE DEF S
      <3>3. r \in Proc /\ r.pc = "drop" /\ r.back = proc[w].back
            /\ r.target = proc[w].target
        BY <1>a, <3>1 DEF Proc, PCs
      <3> HIDE DEF r
      <3>4. LocalsOK(r)
        BY <1>a, <3>3, LocalsTarget DEF TargetPCs
      <3> QED
        BY <1>a, <3>2, <3>3, <3>4, ProcUpdate
    <2> QED
      BY <2>1, <2>2, <2>3 DEF Condemn, TypeOK, files, faults
  <1>2. CASE job[j].state # "succeeded"
    <2>1. proc' \in [Procs -> Proc] /\ \A q \in Procs : LocalsOK(proc'[q])
      BY <1>a, <1>2, ReturnType DEF Condemn
    <2> QED
      BY <1>2, <2>1 DEF Condemn, TypeOK, rows, files, faults
  <1> QED
    BY <1>1, <1>2

\* A claim under a fresh token keeps the types.
LEMMA ClaimType == ASSUME TypeOK, NEW w \in Workers, ClaimOldest(w) PROVE TypeOK'
  <1> PICK j \in Queued :
         /\ issued[j] < MaxTokens
         /\ job' = [job EXCEPT ![j] = [@ EXCEPT
                      !.state = "running", !.token = issued[j] + 1,
                      !.attempt = job[j].attempt + 1, !.lease = "live"]]
         /\ issued' = [issued EXCEPT ![j] = @ + 1]
         /\ executor' = [executor EXCEPT ![j][issued[j] + 1] = "starting"]
         /\ proc' = [proc EXCEPT ![w] = [Idle EXCEPT
                       !.pc = "executing", !.claim = <<j, issued[j] + 1>>]]
    BY DEF ClaimOldest
  <1>a. j \in Jobs /\ w \in Procs
    BY DEF Queued, Procs
  <1>b. issued[j] + 1 \in Tokens /\ issued[j] + 1 \in 0..MaxTokens
    <2>1. issued[j] \in 0..MaxTokens
      BY <1>a DEF TypeOK
    <2> QED
      BY <2>1, BoundsAssumption DEF Tokens
  <1>1. job' \in [Jobs -> Job]
    <2>1. [job[j] EXCEPT !.state = "running", !.token = issued[j] + 1,
                         !.attempt = job[j].attempt + 1, !.lease = "live"] \in Job
      <3>1. job[j] \in Job /\ "running" \in States
        BY <1>a DEF TypeOK, States, Leased
      <3>2. job[j].attempt + 1 \in Nat
        BY <3>1 DEF Job
      <3> QED
        BY <1>b, <3>1, <3>2 DEF Job
    <2> QED
      BY <2>1 DEF TypeOK
  <1>2. issued' \in [Jobs -> 0..MaxTokens]
    BY <1>b DEF TypeOK
  <1>3. executor' \in [Jobs -> [Tokens -> {"none"} \union Running \union Exited]]
    BY DEF TypeOK, Running
  <1>4. proc' \in [Procs -> Proc] /\ \A q \in Procs : LocalsOK(proc'[q])
    <2> DEFINE c == <<j, issued[j] + 1>>
               r == [Idle EXCEPT !.pc = "executing", !.claim = c]
    <2>1. c \in Jobs \X Tokens /\ c \in Claims
      <3>1. j \in 0..NumJobs
        BY <1>a, BoundsAssumption DEF Jobs
      <3> QED
        BY <1>a, <1>b, <3>1 DEF Claims
    <2>2. proc' = [proc EXCEPT ![w] = r]
      OBVIOUS
    <2> HIDE DEF c
    <2>3. r \in Proc /\ r.pc = "executing" /\ r.claim = c /\ r.back = "poll"
      <3>1. Idle \in Proc /\ Idle.back = "poll"
        BY IdleType DEF Idle
      <3> QED
        BY <2>1, <3>1 DEF Proc, PCs
    <2> HIDE DEF r
    <2>4. LocalsOK(r)
      BY <2>1, <2>3, LocalsClaim DEF ClaimPCs, Returning
    <2> QED
      BY <1>a, <2>2, <2>3, <2>4, ProcUpdate
  <1> QED
    BY <1>1, <1>2, <1>3, <1>4 DEF ClaimOldest, TypeOK, rows, files, faults

\* Each return code leads to one of four outcomes.
LEMMA Outcomes ==
    \A claim, code : AfterExit(claim, code) \in {"promote", "cancel", "poll", "fail"}
  BY DEF AfterExit

\* Deciding to stop the child.
LEMMA ReapingType ==
    ASSUME TypeOK, NEW w \in Workers, proc[w].pc \in ClaimPCs,
           NEW b \in {"poll", "fail", "cancel"},
           proc' = [proc EXCEPT ![w] = [@ EXCEPT !.pc = "reaping", !.back = b]]
    PROVE  proc' \in [Procs -> Proc] /\ \A q \in Procs : LocalsOK(proc'[q])
  <1> DEFINE r == [proc[w] EXCEPT !.pc = "reaping", !.back = b]
  <1>1. w \in Procs
    BY DEF Procs
  <1>2. r \in Proc /\ r.pc = "reaping" /\ r.back = b /\ r.claim = proc[w].claim
    <2>1. proc[w] \in Proc /\ "reaping" \in PCs /\ b \in PCs
      BY <1>1, ProcAt DEF PCs
    <2> QED
      BY <2>1 DEF Proc
  <1>3. proc' = [proc EXCEPT ![w] = r]
    OBVIOUS
  <1> HIDE DEF r
  <1>4. LocalsOK(r)
    BY <1>1, <1>2, ProcAt, LocalsReaping
  <1> QED
    BY <1>1, <1>2, <1>3, <1>4, ProcUpdate

\* Going on to the outcome of an attempt whose child has ended.
LEMMA OutcomeType ==
    ASSUME TypeOK, NEW w \in Workers, proc[w].pc \in ClaimPCs,
           NEW outcome \in {"promote", "cancel", "poll", "fail"},
           proc' = [proc EXCEPT ![w] = [@ EXCEPT
                      !.pc = outcome, !.back = "poll",
                      !.claim = IF outcome = "poll" THEN NoClaim ELSE proc[w].claim]]
    PROVE  proc' \in [Procs -> Proc] /\ \A q \in Procs : LocalsOK(proc'[q])
  <1> DEFINE c == IF outcome = "poll" THEN NoClaim ELSE proc[w].claim
             r == [proc[w] EXCEPT !.pc = outcome, !.back = "poll", !.claim = c]
  <1>1. w \in Procs /\ proc[w] \in Proc
    BY ProcAt DEF Procs
  <1>2. c \in Claims /\ (outcome # "poll" => c = proc[w].claim)
    <2>1. NoClaim \in Claims
      BY BoundsAssumption DEF NoClaim, Claims
    <2> QED
      BY <1>1, <2>1 DEF Proc
  <1>3. proc' = [proc EXCEPT ![w] = r]
    OBVIOUS
  <1> HIDE DEF c
  <1>4. r \in Proc /\ r.pc = outcome /\ r.back = "poll" /\ r.claim = c
    BY <1>1, <1>2 DEF Proc, PCs
  <1> HIDE DEF r
  <1>5. LocalsOK(r)
    <2>1. CASE outcome = "poll"
      BY <1>4, <2>1, LocalsFree DEF Returning
    <2>2. CASE outcome # "poll"
      <3>1. r.claim \in Jobs \X Tokens
        BY <1>1, <1>2, <1>4, <2>2, ProcAt
      <3> QED
        BY <1>4, <2>2, <3>1, LocalsClaim DEF ClaimPCs, Returning
    <2> QED
      BY <2>1, <2>2
  <1> QED
    BY <1>1, <1>3, <1>4, <1>5, ProcUpdate

\* The claim and the monitor loop keep the types.
LEMMA ExecuteType == ASSUME TypeOK, NEW w \in Workers, Execute(w) PROVE TypeOK'
  <1>a. w \in Procs
    BY DEF Procs
  <1>1. CASE ClaimOldest(w)
    BY <1>1, ClaimType
  <1>2. CASE NothingToClaim(w)
    <2>1. proc' \in [Procs -> Proc] /\ \A q \in Procs : LocalsOK(proc'[q])
      BY <1>a, <1>2, GotoType DEF NothingToClaim, PCs, Returning
    <2> QED
      BY <1>2, <2>1 DEF NothingToClaim, TypeOK, rows, files, faults
  <1>3. CASE Heartbeat(w)
    <2> DEFINE j == proc[w].claim[1]
    <2>1. proc[w].pc = "executing" /\ j \in Jobs
      BY <1>a, <1>3, ProcAt DEF Heartbeat, ClaimPCs
    <2>2. job' = [job EXCEPT ![j].lease = "live"]
      BY <1>3 DEF Heartbeat
    <2>3. \/ proc' = [proc EXCEPT ![w] =
                        [@ EXCEPT !.pc = "reaping", !.back = "cancel"]]
          \/ proc' = proc
      BY <1>3 DEF Heartbeat
    <2> HIDE DEF j
    <2>4. job' \in [Jobs -> Job]
      <3>1. job[j] \in Job /\ job \in [Jobs -> Job]
        BY <2>1 DEF TypeOK
      <3>2. [job[j] EXCEPT !.lease = "live"] \in Job
        BY <3>1 DEF Job
      <3> QED
        BY <2>2, <3>1, <3>2
    <2>5. proc' \in [Procs -> Proc] /\ \A q \in Procs : LocalsOK(proc'[q])
      <3>1. CASE proc' = proc
        BY <3>1 DEF TypeOK
      <3>2. CASE proc' # proc
        BY <2>1, <2>3, <3>2, ReapingType DEF ClaimPCs
      <3> QED
        BY <3>1, <3>2
    <2> QED
      BY <1>3, <2>4, <2>5 DEF Heartbeat, TypeOK, rows, files, faults
  <1>4. CASE LoseLease(w)
    <2>1. proc[w].pc = "executing"
      BY <1>4 DEF LoseLease
    <2>2. \/ Goto(w, "draining")
          \/ proc' = [proc EXCEPT ![w] =
                        [@ EXCEPT !.pc = "reaping", !.back = "poll"]]
      BY <1>4 DEF LoseLease
    <2>3. proc' \in [Procs -> Proc] /\ \A q \in Procs : LocalsOK(proc'[q])
      <3>1. CASE Goto(w, "draining")
        BY <1>a, <2>1, <3>1, GotoType DEF PCs, ClaimPCs
      <3>2. CASE ~Goto(w, "draining")
        BY <2>1, <2>2, <3>2, ReapingType DEF ClaimPCs
      <3> QED
        BY <3>1, <3>2
    <2> QED
      BY <1>4, <2>3 DEF LoseLease, TypeOK, rows, files, faults
  <1>5. CASE LimitExceeded(w)
    <2>1. proc' \in [Procs -> Proc] /\ \A q \in Procs : LocalsOK(proc'[q])
      BY <1>5, ReapingType DEF LimitExceeded, ClaimPCs
    <2> QED
      BY <1>5, <2>1 DEF LimitExceeded, TypeOK, rows, files, faults
  <1>6. CASE Reap(w)
    <2> PICK outcome \in {proc[w].back, "fail"} :
          proc' = [proc EXCEPT ![w] = [@ EXCEPT
                     !.pc = outcome, !.back = "poll",
                     !.claim = IF outcome = "poll" THEN NoClaim ELSE proc[w].claim]]
      BY <1>6 DEF Reap
    <2>1. proc[w].pc = "reaping" /\ outcome \in {"promote", "cancel", "poll", "fail"}
      BY <1>a, <1>6, ProcAt DEF Reap
    <2>2. proc' \in [Procs -> Proc] /\ \A q \in Procs : LocalsOK(proc'[q])
      BY <2>1, OutcomeType DEF ClaimPCs
    <2>3. executor' \in [Jobs -> [Tokens -> {"none"} \union Running \union Exited]]
      <3> DEFINE j == proc[w].claim[1]
                 t == proc[w].claim[2]
                 x == IF executor[j][t] \in Running THEN "killed" ELSE executor[j][t]
      <3>1. j \in Jobs /\ t \in Tokens
        BY <1>a, <2>1, ProcAt DEF ClaimPCs
      <3>2. executor' = [executor EXCEPT ![j][t] = x]
        BY <1>6 DEF Reap
      <3> HIDE DEF j, t
      <3>3. x \in {"none"} \union Running \union Exited
        BY <3>1 DEF TypeOK, Exited
      <3> HIDE DEF x
      <3> QED
        BY <3>1, <3>2, <3>3 DEF TypeOK
    <2> QED
      BY <1>6, <2>2, <2>3 DEF Reap, TypeOK, rows, files, faults
  <1>7. CASE ChildExited(w)
    <2> PICK outcome \in {AfterExit(proc[w].claim, Child(w)), "fail"} :
          proc' = [proc EXCEPT ![w] = [@ EXCEPT
                     !.pc = outcome, !.back = "poll",
                     !.claim = IF outcome = "poll" THEN NoClaim ELSE proc[w].claim]]
      BY <1>7 DEF ChildExited
    <2>1. proc[w].pc \in ClaimPCs /\ outcome \in {"promote", "cancel", "poll", "fail"}
      BY <1>7, Outcomes DEF ChildExited, ClaimPCs
    <2>2. proc' \in [Procs -> Proc] /\ \A q \in Procs : LocalsOK(proc'[q])
      BY <2>1, OutcomeType
    <2> QED
      BY <1>7, <2>2 DEF ChildExited, TypeOK, rows, files, faults
  <1> QED
    BY <1>1, <1>2, <1>3, <1>4, <1>5, <1>6, <1>7 DEF Execute

\* A staged bundle is a bundle, and renaming it keeps the types.
LEMMA RenamedType ==
    ASSUME TypeOK, NEW j \in Jobs, NEW t \in 0..MaxTokens, Rename(j, t)
    PROVE  /\ final' \in [Jobs -> Bundle]
           /\ staging' \in [Jobs -> [Tokens -> {"none", "intact", "damaged"}]]
  <1>1. StagedBundle(j, t) \in Bundle
    <2>1. Success(t) \in Manifest
      BY DEF Success, Manifest, Terminal
    <2>2. (staging[j][t] = "intact") \in BOOLEAN
      OBVIOUS
    <2> QED
      BY <2>1, <2>2 DEF StagedBundle, Bundle
  <1>2. final' \in [Jobs -> Bundle]
    BY <1>1 DEF Rename, TypeOK
  <1>3. staging' \in [Jobs -> [Tokens -> {"none", "intact", "damaged"}]]
    BY DEF Rename, TypeOK
  <1> QED
    BY <1>2, <1>3

\* Releasing one job keeps the type of the jobs table.
LEMMA ReleasedType ==
    ASSUME TypeOK, NEW j \in Jobs, NEW state \in States,
           job' = [job EXCEPT ![j] = Release(@, state)]
    PROVE  job' \in [Jobs -> Job]
  <1>1. Release(job[j], state) \in Job
    BY ReleaseType DEF TypeOK
  <1> QED
    BY <1>1 DEF TypeOK

\* A process that goes down leaves well-typed locals.
LEMMA DownType ==
    ASSUME TypeOK, NEW p \in Procs,
           proc' = [proc EXCEPT ![p] = [Idle EXCEPT !.pc = "down"]]
    PROVE  proc' \in [Procs -> Proc] /\ \A q \in Procs : LocalsOK(proc'[q])
  <1> DEFINE r == [Idle EXCEPT !.pc = "down"]
  <1>1. Idle \in Proc /\ Idle.back = "poll"
    BY IdleType DEF Idle
  <1>2. r \in Proc /\ r.pc = "down" /\ r.back = "poll"
    BY <1>1 DEF Proc, PCs
  <1>3. proc' = [proc EXCEPT ![p] = r]
    OBVIOUS
  <1> HIDE DEF r
  <1>4. LocalsOK(r)
    BY <1>2, LocalsFree DEF Returning
  <1> QED
    BY <1>2, <1>3, <1>4, ProcUpdate

\* Finishing a claim keeps the types.
LEMMA FinishType == ASSUME TypeOK, NEW w \in Workers, Finish(w) PROVE TypeOK'
  <1>a. w \in Procs /\ proc[w] \in Proc
    BY ProcAt DEF Procs
  <1> DEFINE j == proc[w].claim[1]
             ProcOK == proc' \in [Procs -> Proc] /\ \A q \in Procs : LocalsOK(proc'[q])
  <1>1. CASE PromoteLook(w)
    <2>1. proc[w].pc = "promote"
      BY <1>1 DEF PromoteLook
    <2>2. Goto(w, "fail") \/ Goto(w, "commit") \/ Goto(w, "rename")
      BY <1>1 DEF PromoteLook
    <2>3. \/ UNCHANGED staging
          \/ staging' = [staging EXCEPT ![j][job[j].result] = "none"]
      BY <1>1 DEF PromoteLook
    <2>4. ProcOK
      BY <1>a, <2>1, <2>2, GotoType DEF PCs, ClaimPCs
    <2>5. staging' \in [Jobs -> [Tokens -> {"none", "intact", "damaged"}]]
      <3>1. CASE UNCHANGED staging
        BY <3>1 DEF TypeOK
      <3>2. CASE staging' = [staging EXCEPT ![j][job[j].result] = "none"]
        <4> DEFINE t == job[j].result
        <4>1. staging \in [Jobs -> [Tokens -> {"none", "intact", "damaged"}]]
          BY DEF TypeOK
        <4>2. j \in Jobs
          BY <1>a, <2>1, ProcAt DEF ClaimPCs
        <4>3. staging' = [staging EXCEPT ![j] = [staging[j] EXCEPT ![t] = "none"]]
          BY <3>2
        <4> HIDE DEF j, t
        <4>4. [staging[j] EXCEPT ![t] = "none"] \in [Tokens -> {"none", "intact", "damaged"}]
          BY <4>1, <4>2
        <4> QED
          BY <4>1, <4>3, <4>4
      <3> QED
        BY <2>3, <3>1, <3>2
    <2>6. UNCHANGED <<job, rows, final, executor, issued, faults>>
      BY <1>1 DEF PromoteLook
    <2> QED
      BY <2>4, <2>5, <2>6 DEF TypeOK, rows, faults
  <1>2. CASE PromoteRename(w)
    <2>1. proc[w].pc = "rename" /\ j \in Jobs
      BY <1>a, <1>2, ProcAt DEF PromoteRename, ClaimPCs
    <2>2. Goto(w, "fail") \/ Goto(w, "commit")
      BY <1>2 DEF PromoteRename
    <2>3. ProcOK
      BY <1>a, <2>1, <2>2, GotoType DEF PCs, ClaimPCs
    <2>4. \/ UNCHANGED files
          \/ CanRename(j, job[j].result) /\ Rename(j, job[j].result)
      BY <1>2 DEF PromoteRename
    <2>5. /\ final' \in [Jobs -> Bundle]
          /\ staging' \in [Jobs -> [Tokens -> {"none", "intact", "damaged"}]]
      <3>1. CASE UNCHANGED files
        BY <3>1 DEF files, TypeOK
      <3>2. CASE CanRename(j, job[j].result) /\ Rename(j, job[j].result)
        <4>1. job[j].result \in 0..MaxTokens
          BY <2>1 DEF TypeOK, Job
        <4> HIDE DEF j
        <4> QED
          BY <2>1, <3>2, <4>1, RenamedType
      <3> QED
        BY <2>4, <3>1, <3>2
    <2> QED
      BY <1>2, <2>3, <2>5 DEF PromoteRename, TypeOK, rows, faults
  <1>3. CASE CommitSuccess(w)
    <2>1. proc[w].pc = "commit" /\ j \in Jobs
      BY <1>a, <1>3, ProcAt DEF CommitSuccess, ClaimPCs
    <2>2. \/ job' = [job EXCEPT ![j] = Release(@, "succeeded")] /\ Return(w)
          \/ proc' = [proc EXCEPT ![w] = [Idle EXCEPT !.pc = "down"]] /\ UNCHANGED job
      BY <1>3 DEF CommitSuccess
    <2>3. job' \in [Jobs -> Job]
      <3>1. "succeeded" \in States
        BY DEF States, Terminal
      <3>2. CASE UNCHANGED job
        BY <3>2 DEF TypeOK
      <3>3. CASE job' = [job EXCEPT ![j] = Release(@, "succeeded")]
        BY <2>1, <3>1, <3>3, ReleasedType
      <3> QED
        BY <2>2, <3>2, <3>3
    <2>4. ProcOK
      BY <1>a, <2>1, <2>2, ReturnType, DownType
    <2> QED
      BY <1>3, <2>3, <2>4 DEF CommitSuccess, TypeOK, rows, files, faults
  <1>4. CASE FailLook(w)
    <2>1. proc[w].pc = "fail"
      BY <1>4 DEF FailLook
    <2> DEFINE r == [proc[w] EXCEPT !.pc = "failing", !.source = job[j].state]
    <2>2. \/ job[j].state \in Leased /\ proc' = [proc EXCEPT ![w] = r]
          \/ Return(w)
      BY <1>4 DEF FailLook
    <2>3. ASSUME job[j].state \in Leased PROVE r \in Proc /\ LocalsOK(r)
      <3>1. job[j].state \in States
        BY <2>3 DEF States
      <3>2. r \in Proc /\ r.pc = "failing" /\ r.claim = proc[w].claim
            /\ r.back = proc[w].back /\ r.source = job[j].state
        BY <1>a, <3>1 DEF Proc, PCs
      <3> HIDE DEF r
      <3>3. LocalsOK(r)
        BY <1>a, <2>1, <2>3, <3>2, ProcAt, LocalsClaim DEF ClaimPCs
      <3> QED
        BY <3>2, <3>3
    <2> HIDE DEF r
    <2>4. ProcOK
      BY <1>a, <2>1, <2>2, <2>3, ReturnType, ProcUpdate
    <2> QED
      BY <1>4, <2>4 DEF FailLook, TypeOK, rows, files, faults
  <1>7. CASE FinishFailed(w)
    <2>1. proc[w].pc = "failing" /\ j \in Jobs
      BY <1>a, <1>7, ProcAt DEF FinishFailed, ClaimPCs
    <2>2. CASE Holds(proc[w].claim) /\ job[j].state = proc[w].source
      <3> DEFINE S == IF proc[w].source = "finalizing" THEN EvidencePaths(j) ELSE {}
                 r == [proc[w] EXCEPT !.pc = "drop", !.source = "absent",
                                      !.target = <<j, "failed">>, !.trash = S]
      <3>1. /\ job' = [job EXCEPT ![j] = Release(@, "failed")]
            /\ Invalidate(IF proc[w].source = "finalizing" THEN {j} ELSE {})
            /\ proc' = [proc EXCEPT ![w] = r]
        BY <1>7, <2>2 DEF FinishFailed
      <3>2. job' \in [Jobs -> Job]
        <4>1. "failed" \in States
          BY DEF States, Terminal
        <4> QED
          BY <2>1, <3>1, <4>1, ReleasedType
      <3>3. evidence' \in [Jobs -> BOOLEAN] /\ manifest' \in [Jobs -> Manifest]
        BY <3>1, InvalidateType
      <3>4. S \in SUBSET Paths
        BY <2>1, EvidencePathsType
      <3>5. <<j, "failed">> \in Endings
        BY <2>1 DEF Endings
      <3> HIDE DEF S, j
      <3>6. r \in Proc /\ r.pc = "drop" /\ r.target = <<j, "failed">>
            /\ r.back = proc[w].back
        BY <1>a, <3>4, <3>5 DEF Proc, PCs, States
      <3> HIDE DEF r
      <3>7. LocalsOK(r)
        BY <1>a, <2>1, <3>5, <3>6, ProcAt, LocalsTarget DEF TargetPCs
      <3>8. ProcOK
        BY <1>a, <3>1, <3>6, <3>7, ProcUpdate
      <3> QED
        BY <1>7, <3>2, <3>3, <3>8 DEF FinishFailed, TypeOK, files, faults
    <2>3. CASE ~(Holds(proc[w].claim) /\ job[j].state = proc[w].source)
      <3>1. Return(w) /\ UNCHANGED <<job, rows>>
        BY <1>7, <2>3 DEF FinishFailed
      <3>2. ProcOK
        BY <1>a, <2>1, <3>1, ReturnType
      <3> QED
        BY <1>7, <3>1, <3>2 DEF FinishFailed, TypeOK, rows, files, faults
    <2> QED
      BY <2>2, <2>3
  <1>5. CASE FinishCancelled(w)
    <2>1. proc[w].pc = "cancel" /\ j \in Jobs
      BY <1>a, <1>5, ProcAt DEF FinishCancelled, ClaimPCs
    <2>2. \/ /\ job' = [job EXCEPT ![j] = Release(@, "cancelled")]
             /\ proc' = [proc EXCEPT ![w] =
                           [@ EXCEPT !.pc = "bundle", !.target = <<j, "cancelled">>]]
          \/ Return(w) /\ UNCHANGED job
      BY <1>5 DEF FinishCancelled
    <2>3. job' \in [Jobs -> Job]
      <3>1. "cancelled" \in States
        BY DEF States, Terminal
      <3>2. CASE UNCHANGED job
        BY <3>2 DEF TypeOK
      <3>3. CASE job' = [job EXCEPT ![j] = Release(@, "cancelled")]
        BY <2>1, <3>1, <3>3, ReleasedType
      <3> QED
        BY <2>2, <3>2, <3>3
    <2>4. ProcOK
      <3> DEFINE e == <<j, "cancelled">>
                 r == [proc[w] EXCEPT !.pc = "bundle", !.target = e]
      <3>1. Return(w) \/ proc' = [proc EXCEPT ![w] = r]
        BY <2>2
      <3>2. e \in Endings
        BY <2>1 DEF Endings
      <3> HIDE DEF e
      <3>3. r \in Proc /\ r.pc = "bundle" /\ r.target = e /\ r.back = proc[w].back
        BY <1>a, <3>2 DEF Proc, PCs
      <3> HIDE DEF r
      <3>4. LocalsOK(r)
        BY <1>a, <2>1, <3>2, <3>3, ProcAt, LocalsTarget DEF TargetPCs
      <3> QED
        BY <1>a, <2>1, <3>1, <3>3, <3>4, ReturnType, ProcUpdate
    <2> QED
      BY <1>5, <2>3, <2>4 DEF FinishCancelled, TypeOK, rows, files, faults
  <1>6. CASE DropEvidence(w)
    <2> DEFINE r == [proc[w] EXCEPT !.pc = "bundle", !.trash = {}]
    <2>1. proc[w].pc = "drop" /\ RemovePaths(proc[w].trash)
          /\ proc' = [proc EXCEPT ![w] = r]
      BY <1>6 DEF DropEvidence
    <2>2. r \in Proc /\ r.pc = "bundle" /\ r.target = proc[w].target
          /\ r.back = proc[w].back
      BY <1>a DEF Proc, PCs
    <2> HIDE DEF r
    <2>3. LocalsOK(r)
      BY <1>a, <2>1, <2>2, ProcAt, LocalsTarget DEF TargetPCs
    <2>4. ProcOK
      BY <1>a, <2>1, <2>2, <2>3, ProcUpdate
    <2> QED
      BY <1>6, <2>1, <2>4, RemovePathsType DEF DropEvidence, TypeOK, rows, faults
  <1> QED
    BY <1>1, <1>2, <1>3, <1>4, <1>5, <1>6, <1>7 DEF Finish
\* Recording a terminal run keeps the types.
LEMMA RecordType == ASSUME TypeOK, NEW p \in Procs, Record(p) PROVE TypeOK'
  <1> DEFINE j == proc[p].target[1]
             status == proc[p].target[2]
             ProcOK == proc' \in [Procs -> Proc] /\ \A q \in Procs : LocalsOK(proc'[q])
  <1>a. proc[p].pc \in {"bundle", "row"}
    BY DEF Record, WriteEnding, RecordEnding
  <1>b. proc[p].target \in Endings
    BY <1>a, ProcAt DEF TargetPCs
  <1>c. j \in Jobs /\ status \in {"failed", "cancelled"}
    BY <1>b DEF Endings
  <1> HIDE DEF j, status
  <1>1. CASE WriteEnding(p)
    <2>1. \/ /\ final' = [final EXCEPT ![j] = IF @ = NoBundle THEN Ending(status) ELSE @]
             /\ Goto(p, "row")
          \/ Return(p) /\ UNCHANGED final
      BY <1>1 DEF WriteEnding, j, status
    <2>2. ProcOK
      BY <1>a, <2>1, GotoType, ReturnType DEF PCs, TargetPCs
    <2>3. Ending(status) \in Bundle
      <3>1. status \in Terminal /\ 0 \in 0..MaxTokens
        BY <1>c, BoundsAssumption DEF Terminal
      <3> QED
        BY <3>1 DEF Ending, Bundle, Manifest
    <2>4. final' \in [Jobs -> Bundle]
      BY <1>c, <2>1, <2>3 DEF TypeOK
    <2>5. UNCHANGED <<job, rows, staging, executor, issued, faults>>
      BY <1>1 DEF WriteEnding
    <2> QED
      BY <2>2, <2>4, <2>5 DEF TypeOK, rows, faults
  <1>2. CASE RecordEnding(p)
    <2>1. Return(p) /\ UNCHANGED <<job, evidence, files, executor, issued, faults>>
      BY <1>2 DEF RecordEnding
    <2>2. ProcOK
      BY <1>a, <2>1, ReturnType
    <2>3. manifest' \in [Jobs -> Manifest]
      <3>1. manifest' = [manifest EXCEPT ![j] =
                           IF final[j] # NoBundle THEN final[j].manifest ELSE @]
        BY <1>2 DEF RecordEnding, j
      <3>2. final[j].manifest \in Manifest
        BY <1>c DEF TypeOK, Bundle
      <3> QED
        BY <3>1, <3>2 DEF TypeOK
    <2> QED
      BY <2>1, <2>2, <2>3 DEF TypeOK, files, faults
  <1> QED
    BY <1>1, <1>2 DEF Record

\* A step of an executor from one point to another keeps the type of executor.
LEMMA ExecType ==
    ASSUME TypeOK, NEW j \in Jobs, NEW t \in Tokens,
           NEW to \in Running \union Exited,
           executor' = [executor EXCEPT ![j][t] = to]
    PROVE  executor' \in [Jobs -> [Tokens -> {"none"} \union Running \union Exited]]
  <1>1. executor \in [Jobs -> [Tokens -> {"none"} \union Running \union Exited]]
    BY DEF TypeOK
  <1> DEFINE S == {"none"} \union Running \union Exited
  <1>2. to \in S
    OBVIOUS
  <1> HIDE DEF S
  <1> QED
    BY <1>1, <1>2 DEF S

\* The steps of an executor keep the types.
LEMMA ExecutorType ==
    ASSUME TypeOK, NEW j \in Jobs, NEW t \in Tokens, Executor(j, t)
    PROVE  TypeOK'
  <1>a. job[j] \in Job /\ t \in 0..MaxTokens
    BY BoundsAssumption DEF TypeOK, Tokens
  <1>b. /\ job \in [Jobs -> Job]
        /\ staging \in [Jobs -> [Tokens -> {"none", "intact", "damaged"}]]
    BY DEF TypeOK
  <1>1. CASE AssertRunning(j, t)
    <2>1. PICK to \in {"exit130", "computing", "exit75"} :
            executor' = [executor EXCEPT ![j][t] = to]
      BY <1>1 DEF AssertRunning, Exec
    <2>2. to \in Running \union Exited
      BY DEF Running, Exited
    <2> QED
      BY <1>1, <2>1, <2>2, ExecType DEF AssertRunning, TypeOK, rows, files, faults
  <1>2. CASE Stage(j, t)
    <2>1. executor' = [executor EXCEPT ![j][t] = "staged"] /\ "staged" \in Running
      BY <1>2 DEF Stage, Exec, Running
    <2>2. staging' \in [Jobs -> [Tokens -> {"none", "intact", "damaged"}]]
      BY <1>2, <1>b DEF Stage
    <2> QED
      BY <1>2, <2>1, <2>2, ExecType DEF Stage, TypeOK, rows, faults
  <1>3. CASE BeginPublish(j, t)
    <2>1. PICK to \in {"publishing", "exit130", "exit75"} :
            executor' = [executor EXCEPT ![j][t] = to]
      BY <1>3 DEF BeginPublish, Exec
    <2>2. to \in Running \union Exited
      BY DEF Running, Exited
    <2>3. job' = [job EXCEPT ![j].state = "publishing"] \/ job' = job
      BY <1>3 DEF BeginPublish
    <2>4. job' \in [Jobs -> Job]
      <3>1. [job[j] EXCEPT !.state = "publishing"] \in Job
        BY <1>a DEF Job, States, Leased
      <3> QED
        BY <1>b, <2>3, <3>1
    <2> QED
      BY <1>3, <2>1, <2>2, <2>4, ExecType DEF BeginPublish, TypeOK, rows, files, faults
  <1>4. CASE Finalize(j, t)
    <2>1. PICK to \in {"finalized", "exit0", "exit75"} :
            executor' = [executor EXCEPT ![j][t] = to]
      BY <1>4 DEF Finalize, Exec
    <2>2. to \in Running \union Exited
      BY DEF Running, Exited
    <2>3. executor' \in [Jobs -> [Tokens -> {"none"} \union Running \union Exited]]
      BY <2>1, <2>2, ExecType
    <2>4. UNCHANGED <<files, proc, issued, faults>>
      BY <1>4 DEF Finalize
    <2>5. CASE UNCHANGED <<job, rows>>
      BY <2>3, <2>4, <2>5 DEF TypeOK, rows, files, faults
    <2>6. CASE ~UNCHANGED <<job, rows>>
      <3>1. /\ job' = [job EXCEPT ![j].state = "finalizing", ![j].result = t]
            /\ evidence' = [evidence EXCEPT ![j] = TRUE]
            /\ manifest' = [manifest EXCEPT ![j] = IF HasBundle(j)
                                                     THEN Success(t) ELSE @]
        BY <1>4, <2>6 DEF Finalize
      <3>2. [job[j] EXCEPT !.state = "finalizing", !.result = t] \in Job
        BY <1>a DEF Job, States, Leased
      <3>3. job' \in [Jobs -> Job]
        BY <1>b, <3>1, <3>2
      <3>4. Success(t) \in Manifest
        BY <1>a DEF Success, Manifest, Terminal
      <3>5. manifest' \in [Jobs -> Manifest]
        BY <3>1, <3>4 DEF TypeOK
      <3>6. evidence' \in [Jobs -> BOOLEAN]
        BY <3>1 DEF TypeOK
      <3> QED
        BY <2>3, <2>4, <3>3, <3>5, <3>6 DEF TypeOK, files, faults
    <2> QED
      BY <2>5, <2>6
  <1>5. CASE Publish(j, t)
    <2>1. PICK to \in {"exit0", "error"} : executor' = [executor EXCEPT ![j][t] = to]
      BY <1>5 DEF Publish, Exec
    <2>2. to \in Running \union Exited
      BY DEF Exited
    <2>3. /\ final' \in [Jobs -> Bundle]
          /\ staging' \in [Jobs -> [Tokens -> {"none", "intact", "damaged"}]]
      <3>1. CASE Rename(j, t)
        BY <1>a, <3>1, RenamedType
      <3>2. CASE ~Rename(j, t)
        BY <1>5, <3>2 DEF Publish, files, TypeOK
      <3> QED
        BY <3>1, <3>2
    <2> QED
      BY <1>5, <2>1, <2>2, <2>3, ExecType DEF Publish, TypeOK, rows, faults
  <1>6. CASE ExecutorDies(j, t)
    <2>1. executor' = [executor EXCEPT ![j][t] = "error"] /\ "error" \in Exited
      BY <1>6 DEF ExecutorDies, Exec, Exited
    <2> QED
      BY <1>6, <2>1, ExecType DEF ExecutorDies, TypeOK, rows, files, faults
  <1>7. CASE OrphanStops(j, t)
    <2>1. executor' = [executor EXCEPT ![j][t] = "killed"] /\ "killed" \in Exited
      BY <1>7 DEF OrphanStops, Exited
    <2> QED
      BY <1>7, <2>1, ExecType DEF OrphanStops, TypeOK, rows, files, faults
  <1> QED
    BY <1>1, <1>2, <1>3, <1>4, <1>5, <1>6, <1>7 DEF Executor

\* Time and faults keep the types.
LEMMA FaultType == ASSUME TypeOK, Fault PROVE TypeOK'
  <1>1. ASSUME NEW p \in Procs, Crash(p) PROVE TypeOK'
    <2>1. proc' \in [Procs -> Proc] /\ \A q \in Procs : LocalsOK(proc'[q])
      BY <1>1, DownType DEF Crash
    <2>2. crashes' \in Nat
      BY <1>1 DEF Crash, TypeOK
    <2> QED
      BY <1>1, <2>1, <2>2 DEF Crash, TypeOK, rows, files
  <1>2. ASSUME NEW p \in Procs, Restart(p) PROVE TypeOK'
    <2>1. proc' \in [Procs -> Proc] /\ \A q \in Procs : LocalsOK(proc'[q])
      BY <1>2, GotoType DEF Restart, PCs, Returning
    <2> QED
      BY <1>2, <2>1 DEF Restart, TypeOK, rows, files, faults
  <1>3. ASSUME NEW j \in Jobs, LeaseExpires(j) PROVE TypeOK'
    <2>1. job' = [job EXCEPT ![j].lease = "expired"]
          /\ stalls' = IF Held(j) THEN stalls + 1 ELSE stalls
      BY <1>3 DEF LeaseExpires
    <2>2. job[j] \in Job /\ job \in [Jobs -> Job] /\ stalls \in Nat
      BY DEF TypeOK
    <2>3. [job[j] EXCEPT !.lease = "expired"] \in Job
      BY <2>2 DEF Job
    <2>4. job' \in [Jobs -> Job]
      BY <2>1, <2>2, <2>3
    <2>5. stalls' \in Nat
      BY <2>1, <2>2
    <2> QED
      BY <1>3, <2>4, <2>5 DEF LeaseExpires, TypeOK, rows, files
  <1>4. ASSUME NEW j \in Jobs, DamageFinal(j) PROVE TypeOK'
    <2>1. PICK b \in {[final[j] EXCEPT !.intact = FALSE], NoBundle} :
            final' = [final EXCEPT ![j] = b]
      BY <1>4 DEF DamageFinal
    <2>2. b \in Bundle
      <3>1. [final[j] EXCEPT !.intact = FALSE] \in Bundle
        BY DEF TypeOK, Bundle
      <3>2. NoBundle \in Bundle
        BY BoundsAssumption DEF NoBundle, Bundle, NoManifest, Manifest
      <3> QED
        BY <3>1, <3>2
    <2>3. final' \in [Jobs -> Bundle] /\ damages' \in Nat
      BY <1>4, <2>1, <2>2 DEF DamageFinal, TypeOK
    <2> QED
      BY <1>4, <2>3 DEF DamageFinal, TypeOK, rows
  <1>5. ASSUME NEW j \in Jobs, NEW t \in Tokens, DamageStaged(j, t) PROVE TypeOK'
    <2>1. staging' \in [Jobs -> [Tokens -> {"none", "intact", "damaged"}]]
      BY <1>5 DEF DamageStaged, TypeOK
    <2>2. damages' \in Nat
      BY <1>5 DEF DamageStaged, TypeOK
    <2> QED
      BY <1>5, <2>1, <2>2 DEF DamageStaged, TypeOK, rows
  <1> QED
    BY <1>1, <1>2, <1>3, <1>4, <1>5 DEF Fault

\* The initial states are well typed.
LEMMA InitType == Init => TypeOK
  <1> SUFFICES ASSUME Init PROVE TypeOK
    OBVIOUS
  <1>a. /\ 0 \in 0..MaxTokens /\ 1 \in 0..MaxTokens /\ 1 \in Nat /\ 0 \in Nat
    BY BoundsAssumption
  <1>1. job \in [Jobs -> Job]
    <2>1. NewJob \in Job /\ LegacyJob \in Job
      BY <1>a DEF NewJob, LegacyJob, Job, States, Leased
    <2> QED
      BY <2>1 DEF Init
  <1>2. Success(1) \in Manifest /\ NoManifest \in Manifest
    BY <1>a DEF Success, NoManifest, Manifest, Terminal
  <1>3. manifest \in [Jobs -> Manifest]
    BY <1>2 DEF Init
  <1>4. final \in [Jobs -> Bundle]
    <2>1. PICK placed : final = [j \in Jobs |->
                     IF j \in placed
                       THEN [manifest |-> Success(1), intact |-> TRUE]
                       ELSE NoBundle]
      BY DEF Init
    <2>2. [manifest |-> Success(1), intact |-> TRUE] \in Bundle /\ NoBundle \in Bundle
      BY <1>2 DEF Bundle, NoBundle
    <2> QED
      BY <2>1, <2>2
  <1>5. proc \in [Procs -> Proc] /\ \A p \in Procs : LocalsOK(proc[p])
    BY IdleType DEF Init
  <1>6. /\ evidence \in [Jobs -> BOOLEAN]
        /\ staging \in [Jobs -> [Tokens -> {"none", "intact", "damaged"}]]
        /\ executor \in [Jobs -> [Tokens -> {"none"} \union Running \union Exited]]
        /\ issued \in [Jobs -> 0..MaxTokens]
        /\ crashes \in Nat /\ stalls \in Nat /\ damages \in Nat
    BY <1>a DEF Init
  <1> QED
    BY <1>1, <1>3, <1>4, <1>5, <1>6 DEF TypeOK

\* Every step keeps the types.
LEMMA NextType == TypeOK /\ [Next]_vars => TypeOK'
  <1> SUFFICES ASSUME TypeOK, [Next]_vars PROVE TypeOK'
    OBVIOUS
  <1>1. CASE Request
    BY <1>1, RequestType
  <1>2. ASSUME NEW w \in Workers, Recover(w) PROVE TypeOK'
    BY <1>2, SweepType, RecoverLocalsType, CondemnType DEF Recover
  <1>3. ASSUME NEW w \in Workers, Finish(w) \/ Execute(w) PROVE TypeOK'
    BY <1>3, FinishType, ExecuteType
  <1>4. ASSUME NEW p \in Procs, Record(p) PROVE TypeOK'
    BY <1>4, RecordType
  <1>5. ASSUME NEW j \in Jobs, NEW t \in Tokens, Executor(j, t) PROVE TypeOK'
    BY <1>5, ExecutorType
  <1>6. CASE Fault
    BY <1>6, FaultType
  <1>7. CASE UNCHANGED vars
    BY <1>7 DEF vars, TypeOK
  <1> QED
    BY <1>1, <1>2, <1>3, <1>4, <1>5, <1>6, <1>7 DEF Next

\* The rows, the files and the locals of every process stay well formed, and
\* every program point of the worker finds the arguments it needs: no return
\* code of the child and no outcome leads to a point without a handler.
THEOREM TypeCorrect == Spec => []TypeOK
  BY InitType, NextType, PTL DEF Spec

-----------------------------------------------------------------------------
(* Safety.  The theorems about cancellation and the generation fence rest on  *)
(* one lemma, JobMoves: what a single step, whoever takes it, may do to the   *)
(* state, the cancel flag, the attempts and the result of a row.              *)

\* The state and the cancel flag of a row r that becomes s, over all actions of
\* the queue.
StateMove(r, s) ==
    \/ s.state = r.state /\ s.cancel = r.cancel
    \/ r.state = "absent" /\ s.state = "queued" /\ s.cancel = r.cancel
    \/ r.state = "queued" /\ s.state = "cancelled" /\ s.cancel
    \/ r.state \in {"running", "cancelling"} /\ s.state = "cancelling" /\ s.cancel
    \/ r.state \in Leased /\ s.state = "failed" /\ s.cancel = r.cancel
    \/ /\ r.state \in {"running", "cancelling"} \/ (r.state = "publishing" /\ r.cancel)
       /\ s.state = "cancelled" /\ s.cancel = r.cancel
    \/ /\ r.state = "running" /\ ~r.cancel /\ r.attempt < MaxAttempts
       /\ s.state = "queued" /\ ~s.cancel
    \/ r.state = "queued" /\ ~r.cancel /\ s.state = "running" /\ ~s.cancel
    \/ r.state = "running" /\ ~r.cancel /\ s.state = "publishing" /\ ~s.cancel
    \/ r.state = "publishing" /\ s.state = "finalizing" /\ s.cancel = r.cancel
    \/ /\ r.state \in {"publishing", "finalizing"}
       /\ s.state = "succeeded" /\ s.cancel = r.cancel
    \/ r.state = "succeeded" /\ s.state = "failed" /\ s.cancel = r.cancel

\* A claim counts an attempt, finalize stores the result.
Move(r, s) ==
    /\ StateMove(r, s)
    /\ s.attempt = IF r.state = "queued" /\ s.state = "running"
                     THEN r.attempt + 1 ELSE r.attempt
    /\ s.result = r.result \/ (r.state = "publishing" /\ s.state = "finalizing")

\* Where two rows agree in everything but what Move leaves free, nothing moved.
LEMMA Unmoved ==
    ASSUME NEW r, NEW s, s.state = r.state, s.cancel = r.cancel,
           s.attempt = r.attempt, s.result = r.result
    PROVE  Move(r, s)
  BY DEF Move, StateMove

\* A row whose fields other than its lease and token change stays.
LEMMA SameRow ==
    ASSUME NEW j \in Jobs, job'[j].state = job[j].state, job'[j].cancel = job[j].cancel,
           job'[j].attempt = job[j].attempt, job'[j].result = job[j].result
    PROVE  Move(job[j], job'[j])
  BY Unmoved

\* Updating one row moves only that row.
LEMMA OneRow ==
    ASSUME TypeOK, NEW j \in Jobs, NEW r, Move(job[j], r),
           job' = [job EXCEPT ![j] = r], NEW k \in Jobs
    PROVE  Move(job[k], job'[k])
  <1>1. CASE k = j
    BY <1>1 DEF TypeOK
  <1>2. CASE k # j
    <2>1. job'[k] = job[k]
      BY <1>2 DEF TypeOK
    <2> QED
      BY <2>1, SameRow
  <1> QED
    BY <1>1, <1>2

\* Releasing a leased row to failed or cancelled is a move.
LEMMA ReleaseMove ==
    ASSUME TypeOK, NEW j \in Jobs, job[j].state \in Leased,
           NEW state \in {"cancelled", "failed"},
           state = "cancelled" => job[j].state \in {"running", "cancelling"},
           job' = [job EXCEPT ![j] = Release(@, state)], NEW k \in Jobs
    PROVE  Move(job[k], job'[k])
  <1>1. job[j] \in Job /\ state \in States
    BY DEF TypeOK, States, Terminal
  <1>2. /\ Release(job[j], state).state = state
        /\ Release(job[j], state).cancel = job[j].cancel
        /\ Release(job[j], state).attempt = job[j].attempt
        /\ Release(job[j], state).result = job[j].result
    BY <1>1, ReleaseType
  <1>3. StateMove(job[j], Release(job[j], state))
    BY <1>2 DEF StateMove
  <1>4. Move(job[j], Release(job[j], state))
    BY <1>2, <1>3 DEF Move
  <1> QED
    BY <1>4, OneRow

\* The moves of the sweep.
LEMMA SweepMoves ==
    ASSUME TypeOK, NEW w \in Workers, Sweep(w), NEW j \in Jobs
    PROVE  Move(job[j], job'[j])
  <1>a. job[j] \in Job
    BY DEF TypeOK
  <1>b. job' = [k \in Jobs |->
          IF k \in {i \in Jobs : PassedOn(i)}
            THEN [job[k] EXCEPT !.token = issued[k] + 1, !.lease = "live"]
            ELSE IF k \in {i \in Jobs : Stale(i) /\ ~PassedOn(i)}
                   THEN Release(job[k], RecoveryTarget(k)) ELSE job[k]]
    BY DEF Sweep
  <1>1. CASE PassedOn(j)
    <2>1. job'[j] = [job[j] EXCEPT !.token = issued[j] + 1, !.lease = "live"]
      BY <1>1, <1>b
    <2>2. /\ job'[j].state = job[j].state /\ job'[j].cancel = job[j].cancel
          /\ job'[j].attempt = job[j].attempt /\ job'[j].result = job[j].result
      BY <1>a, <2>1 DEF Job
    <2> QED
      BY <2>2, SameRow
  <1>2. CASE Stale(j) /\ ~PassedOn(j)
    <2>1. job'[j] = Release(job[j], RecoveryTarget(j))
      BY <1>2, <1>b
    <2>2. RecoveryTarget(j) \in States
      BY RecoveryTargets DEF States, Terminal
    <2>3. /\ job'[j].state = RecoveryTarget(j) /\ job'[j].cancel = job[j].cancel
          /\ job'[j].attempt = job[j].attempt /\ job'[j].result = job[j].result
      BY <1>a, <2>1, <2>2, ReleaseType
    <2>4. job[j].state \in Leased /\ job[j].state # "finalizing"
      BY <1>2 DEF Stale, PassedOn
    <2>5. \/ RecoveryTarget(j) = "succeeded" /\ job[j].state = "publishing"
          \/ RecoveryTarget(j) = "failed"
          \/ /\ RecoveryTarget(j) = "cancelled"
             /\ job[j].state = "cancelling" \/ job[j].cancel
          \/ /\ RecoveryTarget(j) = "queued" /\ ~job[j].cancel
             /\ job[j].state # "cancelling" /\ job[j].state # "publishing"
             /\ ~(job[j].attempt >= MaxAttempts)
      BY DEF RecoveryTarget, LegacyComplete
    <2>6. /\ job[j].cancel \in BOOLEAN /\ job[j].attempt \in Nat /\ MaxAttempts \in Nat
          /\ job[j].attempt < MaxAttempts <=> ~(job[j].attempt >= MaxAttempts)
      BY <1>a, BoundsAssumption DEF Job
    <2>7. StateMove(job[j], job'[j])
      BY <2>3, <2>4, <2>5, <2>6 DEF StateMove, Leased
    <2>8. ~(job[j].state = "queued")
      BY <2>4 DEF Leased
    <2> QED
      BY <2>3, <2>7, <2>8 DEF Move
  <1>3. CASE ~Stale(j)
    <2>1. job'[j] = job[j]
      BY <1>3, <1>b DEF PassedOn
    <2> QED
      BY <2>1, SameRow
  <1> QED
    BY <1>1, <1>2, <1>3

\* The moves of finishing a claim and of failing a succeeded job.
LEMMA FinishMoves ==
    ASSUME TypeOK, NEW w \in Workers, Finish(w) \/ Condemn(w), NEW k \in Jobs
    PROVE  Move(job[k], job'[k])
  <1>a. w \in Procs
    BY DEF Procs
  <1> DEFINE j == proc[w].claim[1]
  <1>1. CASE PromoteLook(w) \/ PromoteRename(w) \/ FailLook(w) \/ DropEvidence(w)
    <2>1. job' = job
      BY <1>1 DEF PromoteLook, PromoteRename, FailLook, DropEvidence
    <2> QED
      BY <2>1, SameRow
  <1>2. CASE CommitSuccess(w)
    <2>1. j \in Jobs
      BY <1>a, <1>2, ProcAt DEF CommitSuccess, ClaimPCs
    <2>2. \/ job[j].state = "finalizing" /\ job' = [job EXCEPT ![j] = Release(@, "succeeded")]
          \/ job' = job
      BY <1>2 DEF CommitSuccess
    <2> HIDE DEF j
    <2>3. job[j] \in Job /\ "succeeded" \in States
      BY <2>1 DEF TypeOK, States, Terminal
    <2>4. CASE job' = job
      BY <2>4, SameRow
    <2>5. CASE job' # job
      <3>1. /\ Release(job[j], "succeeded").state = "succeeded"
            /\ Release(job[j], "succeeded").cancel = job[j].cancel
            /\ Release(job[j], "succeeded").attempt = job[j].attempt
            /\ Release(job[j], "succeeded").result = job[j].result
        BY <2>3, ReleaseType
      <3>2. Move(job[j], Release(job[j], "succeeded"))
        BY <2>2, <2>5, <3>1 DEF Move, StateMove
      <3> QED
        BY <2>1, <2>2, <2>5, <3>2, OneRow
    <2> QED
      BY <2>4, <2>5
  <1>3. CASE FinishFailed(w)
    <2>1. j \in Jobs
      BY <1>a, <1>3, ProcAt DEF FinishFailed, ClaimPCs
    <2>2. \/ job[j].state \in Leased /\ job' = [job EXCEPT ![j] = Release(@, "failed")]
          \/ job' = job
      <3>1. proc[w].source \in Leased
        BY <1>a, <1>3, ProcAt DEF FinishFailed
      <3> QED
        BY <1>3, <3>1 DEF FinishFailed
    <2> HIDE DEF j
    <2> QED
      BY <2>1, <2>2, ReleaseMove, SameRow
  <1>4. CASE FinishCancelled(w)
    <2>1. j \in Jobs
      BY <1>a, <1>4, ProcAt DEF FinishCancelled, ClaimPCs
    <2>2. \/ /\ job[j].state \in {"running", "cancelling"}
             /\ job' = [job EXCEPT ![j] = Release(@, "cancelled")]
          \/ job' = job
      BY <1>4 DEF FinishCancelled
    <2>3. {"running", "cancelling"} \subseteq Leased
      BY DEF Leased
    <2> HIDE DEF j
    <2> QED
      BY <2>1, <2>2, <2>3, ReleaseMove, SameRow
  <1>5. CASE Condemn(w)
    <2> DEFINE i == proc[w].target[1]
    <2>1. i \in Jobs
      BY <1>a, <1>5, ProcAt DEF Condemn, TargetPCs, Endings
    <2>2. \/ /\ job[i].state = "succeeded"
             /\ job' = [job EXCEPT ![i] = [job[i] EXCEPT !.state = "failed"]]
          \/ job' = job
      BY <1>5 DEF Condemn
    <2> HIDE DEF i
    <2>3. CASE job' = job
      BY <2>3, SameRow
    <2>4. CASE job' # job
      <3> DEFINE r == [job[i] EXCEPT !.state = "failed"]
      <3>1. /\ r.state = "failed" /\ r.cancel = job[i].cancel
            /\ r.attempt = job[i].attempt /\ r.result = job[i].result
        BY <2>1 DEF TypeOK, Job
      <3>2. Move(job[i], r)
        BY <2>2, <2>4, <3>1 DEF Move, StateMove
      <3> QED
        BY <2>1, <2>2, <2>4, <3>2, OneRow
    <2> QED
      BY <2>3, <2>4
  <1> QED
    BY <1>1, <1>2, <1>3, <1>4, <1>5 DEF Finish

\* The moves of a claim and of the monitor loop.
LEMMA ExecuteMoves ==
    ASSUME TypeOK, NEW w \in Workers, Execute(w), NEW k \in Jobs
    PROVE  Move(job[k], job'[k])
  <1>1. CASE ClaimOldest(w)
    <2> PICK j \in Queued : job' = [job EXCEPT ![j] = [job[j] EXCEPT
                      !.state = "running", !.token = issued[j] + 1,
                      !.attempt = job[j].attempt + 1, !.lease = "live"]]
      BY <1>1 DEF ClaimOldest
    <2> DEFINE r == [job[j] EXCEPT !.state = "running", !.token = issued[j] + 1,
                       !.attempt = job[j].attempt + 1, !.lease = "live"]
    <2>1. j \in Jobs /\ job[j].state = "queued" /\ ~job[j].cancel /\ job[j] \in Job
      BY DEF Queued, TypeOK
    <2>2. /\ r.state = "running" /\ r.cancel = job[j].cancel
          /\ r.attempt = job[j].attempt + 1 /\ r.result = job[j].result
      BY <2>1 DEF Job
    <2>3. job' = [job EXCEPT ![j] = r]
      OBVIOUS
    <2> HIDE DEF r
    <2>4. Move(job[j], r)
      BY <2>1, <2>2 DEF Move, StateMove
    <2> QED
      BY <2>1, <2>3, <2>4, OneRow
  <1>2. CASE Heartbeat(w)
    <2> DEFINE j == proc[w].claim[1]
    <2>1. j \in Jobs
      BY <1>2, ProcAt DEF Heartbeat, ClaimPCs, Procs
    <2>2. job' = [job EXCEPT ![j] = [job[j] EXCEPT !.lease = "live"]]
      BY <1>2 DEF Heartbeat
    <2> HIDE DEF j
    <2> DEFINE r == [job[j] EXCEPT !.lease = "live"]
    <2>3. /\ r.state = job[j].state /\ r.cancel = job[j].cancel
          /\ r.attempt = job[j].attempt /\ r.result = job[j].result
      BY <2>1 DEF TypeOK, Job
    <2>4. job' = [job EXCEPT ![j] = r]
      BY <2>2
    <2> HIDE DEF r
    <2>5. Move(job[j], r)
      BY <2>3, Unmoved
    <2> QED
      BY <2>1, <2>4, <2>5, OneRow
  <1>3. CASE \/ NothingToClaim(w) \/ LoseLease(w) \/ LimitExceeded(w)
             \/ Reap(w) \/ ChildExited(w)
    <2>1. job' = job
      BY <1>3 DEF NothingToClaim, LoseLease, LimitExceeded, Reap, ChildExited
    <2> QED
      BY <2>1, SameRow
  <1> QED
    BY <1>1, <1>2, <1>3 DEF Execute

\* The moves of requests.
LEMMA RequestMoves ==
    ASSUME TypeOK, Request, NEW k \in Jobs
    PROVE  Move(job[k], job'[k])
  <1> PICK j \in Jobs : \/ Enqueue(j) \/ CancelRunning(j)
                        \/ \E c \in Clients : CancelQueued(c, j)
    BY DEF Request
  <1>a. job[j] \in Job
    BY DEF TypeOK
  <1>1. CASE Enqueue(j)
    <2> DEFINE r == [job[j] EXCEPT !.state = "queued"]
    <2>1. /\ r.state = "queued" /\ r.cancel = job[j].cancel /\ job[j].state = "absent"
          /\ r.attempt = job[j].attempt /\ r.result = job[j].result
      BY <1>a, <1>1 DEF Job, Enqueue
    <2>2. job' = [job EXCEPT ![j] = r]
      BY <1>1 DEF Enqueue
    <2> HIDE DEF r
    <2> QED
      BY <2>1, <2>2, OneRow DEF Move, StateMove
  <1>2. CASE CancelRunning(j)
    <2> DEFINE r == [job[j] EXCEPT !.state = "cancelling", !.cancel = TRUE]
    <2>1. /\ r.state = "cancelling" /\ job[j].state \in {"running", "cancelling"}
          /\ r.cancel /\ r.attempt = job[j].attempt /\ r.result = job[j].result
      BY <1>a, <1>2 DEF Job, CancelRunning
    <2>2. job' = [job EXCEPT ![j] = r]
      BY <1>2 DEF CancelRunning
    <2> HIDE DEF r
    <2> QED
      BY <2>1, <2>2, OneRow DEF Move, StateMove
  <1>3. CASE \E c \in Clients : CancelQueued(c, j)
    <2> DEFINE r == [Release(job[j], "cancelled") EXCEPT !.cancel = TRUE]
    <2>1. Release(job[j], "cancelled") \in Job
          /\ Release(job[j], "cancelled").state = "cancelled"
          /\ Release(job[j], "cancelled").attempt = job[j].attempt
          /\ Release(job[j], "cancelled").result = job[j].result
      BY <1>a, ReleaseType DEF States, Terminal
    <2>2. /\ r.state = "cancelled" /\ r.cancel
          /\ r.attempt = job[j].attempt /\ r.result = job[j].result
      BY <2>1 DEF Job
    <2>3. job' = [job EXCEPT ![j] = r] /\ job[j].state = "queued"
      BY <1>3 DEF CancelQueued
    <2> HIDE DEF r
    <2> QED
      BY <2>2, <2>3, OneRow DEF Move, StateMove
  <1> QED
    BY <1>1, <1>2, <1>3

\* The moves of executors.
LEMMA ExecutorMoves ==
    ASSUME TypeOK, NEW j \in Jobs, NEW t \in Tokens, Executor(j, t), NEW k \in Jobs
    PROVE  Move(job[k], job'[k])
  <1>a. job[j] \in Job
    BY DEF TypeOK
  <1>1. CASE BeginPublish(j, t)
    <2> DEFINE r == [job[j] EXCEPT !.state = "publishing"]
    <2>1. /\ r.state = "publishing" /\ r.cancel = job[j].cancel
          /\ r.attempt = job[j].attempt /\ r.result = job[j].result
      BY <1>a DEF Job
    <2>2. \/ job' = [job EXCEPT ![j] = r] /\ job[j].state = "running" /\ ~job[j].cancel
          \/ job' = job
      BY <1>1 DEF BeginPublish, MayPublish
    <2> HIDE DEF r
    <2>3. CASE job' = job
      BY <2>3, SameRow
    <2>4. CASE job' # job
      BY <2>1, <2>2, <2>4, OneRow DEF Move, StateMove
    <2> QED
      BY <2>3, <2>4
  <1>2. CASE Finalize(j, t)
    <2> DEFINE r == [job[j] EXCEPT !.state = "finalizing", !.result = t]
    <2>1. /\ r.state = "finalizing" /\ r.cancel = job[j].cancel
          /\ r.attempt = job[j].attempt
      BY <1>a DEF Job
    <2>2. \/ job' = [job EXCEPT ![j] = r] /\ job[j].state = "publishing"
          \/ job' = job
      BY <1>2 DEF Finalize, MayFinalize
    <2> HIDE DEF r
    <2>3. CASE job' = job
      BY <2>3, SameRow
    <2>4. CASE job' # job
      BY <2>1, <2>2, <2>4, OneRow DEF Move, StateMove
    <2> QED
      BY <2>3, <2>4
  <1>3. CASE \/ AssertRunning(j, t) \/ Stage(j, t) \/ Publish(j, t)
             \/ ExecutorDies(j, t) \/ OrphanStops(j, t)
    <2>1. job' = job
      BY <1>3 DEF AssertRunning, Stage, Publish, ExecutorDies, OrphanStops
    <2> QED
      BY <2>1, SameRow
  <1> QED
    BY <1>1, <1>2, <1>3 DEF Executor

\* Whatever happens, each row makes one of the moves above.
LEMMA JobMoves ==
    ASSUME TypeOK, [Next]_vars, NEW k \in Jobs
    PROVE  Move(job[k], job'[k])
  <1>1. CASE Request
    BY <1>1, RequestMoves
  <1>2. ASSUME NEW w \in Workers, Recover(w) PROVE Move(job[k], job'[k])
    <2>1. CASE Sweep(w)
      BY <2>1, SweepMoves
    <2>2. CASE Condemn(w)
      BY <2>2, FinishMoves
    <2>3. CASE \/ SettleClaim(w) \/ RemoveStale(w) \/ ScanTerminal(w)
               \/ RecordNext(w) \/ ScanPublished(w) \/ VerifySucceeded(w)
      <3>1. job' = job
        BY <2>3 DEF SettleClaim, RemoveStale, ScanTerminal, RecordNext,
                    ScanPublished, VerifySucceeded
      <3> QED
        BY <3>1, SameRow
    <2> QED
      BY <1>2, <2>1, <2>2, <2>3 DEF Recover
  <1>3. ASSUME NEW w \in Workers, Finish(w) \/ Execute(w) PROVE Move(job[k], job'[k])
    BY <1>3, FinishMoves, ExecuteMoves
  <1>4. ASSUME NEW p \in Procs, Record(p) PROVE Move(job[k], job'[k])
    <2>1. job' = job
      BY <1>4 DEF Record, WriteEnding, RecordEnding
    <2> QED
      BY <2>1, SameRow
  <1>5. ASSUME NEW j \in Jobs, NEW t \in Tokens, Executor(j, t)
        PROVE  Move(job[k], job'[k])
    BY <1>5, ExecutorMoves
  <1>6. CASE Fault
    <2>1. ASSUME NEW j \in Jobs, LeaseExpires(j) PROVE Move(job[k], job'[k])
      <3> DEFINE r == [job[j] EXCEPT !.lease = "expired"]
      <3>1. /\ r.state = job[j].state /\ r.cancel = job[j].cancel
            /\ r.attempt = job[j].attempt /\ r.result = job[j].result
        BY DEF TypeOK, Job
      <3>2. job' = [job EXCEPT ![j] = r]
        BY <2>1 DEF LeaseExpires
      <3> HIDE DEF r
      <3>3. Move(job[j], r)
        BY <3>1, Unmoved
      <3> QED
        BY <3>2, <3>3, OneRow
    <2>2. CASE \/ \E p \in Procs : Crash(p) \/ Restart(p)
               \/ \E j \in Jobs : \/ DamageFinal(j)
                                  \/ \E t \in Tokens : DamageStaged(j, t)
      <3>1. job' = job
        BY <2>2 DEF Crash, Restart, DamageFinal, DamageStaged
      <3> QED
        BY <3>1, SameRow
    <2> QED
      BY <1>6, <2>1, <2>2 DEF Fault
  <1>7. CASE UNCHANGED vars
    BY <1>7, SameRow DEF vars
  <1> QED
    BY <1>1, <1>2, <1>3, <1>4, <1>5, <1>6, <1>7 DEF Next

-----------------------------------------------------------------------------
(* Cancellation *)

\* A cancellation that request_cancellation accepted is final, for every
\* number of workers, attempts and crashes: nothing puts the job back into the
\* queue or lets it publish.
THEOREM CancellationIsFinal == Spec => []CancelSticks
  <1>1. Init => CancelSticks
    BY DEF Init, CancelSticks, NewJob, LegacyJob
  <1>2. TypeOK /\ CancelSticks /\ [Next]_vars => CancelSticks'
    <2> SUFFICES ASSUME TypeOK, CancelSticks, [Next]_vars, NEW j \in Jobs,
                        job'[j].cancel
                 PROVE  job'[j].state \in {"cancelling", "cancelled", "failed"}
      BY DEF CancelSticks
    <2>1. Move(job[j], job'[j])
      BY JobMoves
    <2>2. job[j].cancel => job[j].state \in {"cancelling", "cancelled", "failed"}
      BY DEF CancelSticks
    <2> QED
      BY <2>1, <2>2 DEF Move, StateMove, Leased
  <1> QED
    BY <1>1, <1>2, TypeCorrect, PTL DEF Spec
-----------------------------------------------------------------------------
(* What one step may do to an executor *)

\* Outside its own steps an executor is started by a claim or killed.
LEMMA ExecutorSources ==
    ASSUME TypeOK, [Next]_vars, NEW j \in Jobs, NEW t \in Tokens
    PROVE  \/ executor'[j][t] = executor[j][t]
           \/ Executor(j, t)
           \/ /\ job[j].state = "queued" /\ executor'[j][t] = "starting"
              /\ t = issued[j] + 1
           \/ executor[j][t] \in Running /\ executor'[j][t] = "killed"
  <1>a. executor \in [Jobs -> [Tokens -> {"none"} \union Running \union Exited]]
    BY DEF TypeOK
  <1> DEFINE Goal == \/ executor'[j][t] = executor[j][t]
                     \/ Executor(j, t)
                     \/ /\ job[j].state = "queued" /\ executor'[j][t] = "starting"
                        /\ t = issued[j] + 1
                     \/ executor[j][t] \in Running /\ executor'[j][t] = "killed"
  <1>1. ASSUME NEW i \in Jobs, NEW s \in Tokens, Executor(i, s) PROVE Goal
    <2>1. CASE i = j /\ s = t
      BY <1>1, <2>1
    <2>2. CASE ~(i = j /\ s = t)
      <3>1. \E to : executor' = [executor EXCEPT ![i][s] = to]
        BY <1>1 DEF Executor, AssertRunning, Stage, BeginPublish, Finalize, Publish,
                    ExecutorDies, OrphanStops, Exec
      <3>2. executor'[j][t] = executor[j][t]
        BY <1>a, <2>2, <3>1
      <3> QED
        BY <3>2
    <2> QED
      BY <2>1, <2>2
  <1>2. ASSUME NEW w \in Workers, ClaimOldest(w) PROVE Goal
    <2> PICK i \in Queued : executor' = [executor EXCEPT ![i][issued[i] + 1] = "starting"]
      BY <1>2 DEF ClaimOldest
    <2>1. job[i].state = "queued"
      BY DEF Queued
    <2> DEFINE n == issued[i] + 1
    <2>2. executor' = [executor EXCEPT ![i][n] = "starting"]
      OBVIOUS
    <2>3. i = j => n = issued[j] + 1
      OBVIOUS
    <2> HIDE DEF n
    <2>4. CASE i = j /\ n = t
      <3>1. executor'[j][t] = "starting"
        BY <1>a, <2>2, <2>4
      <3> QED
        BY <2>1, <2>3, <2>4, <3>1
    <2>5. CASE ~(i = j /\ n = t)
      <3>1. executor'[j][t] = executor[j][t]
        BY <1>a, <2>2, <2>5
      <3> QED
        BY <3>1
    <2> QED
      BY <2>4, <2>5
  <1>3. ASSUME NEW w \in Workers, Reap(w) PROVE Goal
    <2> DEFINE i == proc[w].claim[1]
               s == proc[w].claim[2]
    <2>1. executor' = [executor EXCEPT ![i][s] = IF @ \in Running THEN "killed" ELSE @]
      BY <1>3 DEF Reap
    <2> HIDE DEF i, s
    <2>2. \/ executor'[j][t] = executor[j][t]
          \/ executor[j][t] \in Running /\ executor'[j][t] = "killed"
      BY <1>a, <2>1
    <2> QED
      BY <2>2
  <1>4. CASE executor' = executor
    BY <1>4
  <1>5. CASE Request
    BY <1>4, <1>5 DEF Request, Enqueue, CancelRunning, CancelQueued
  <1>6. ASSUME NEW w \in Workers, Recover(w) \/ Finish(w) PROVE executor' = executor
    BY <1>6 DEF Recover, Finish, Sweep, SettleClaim, RemoveStale, ScanTerminal,
                RecordNext, ScanPublished, VerifySucceeded, Condemn, PromoteLook,
                PromoteRename, CommitSuccess, FailLook, FinishFailed, FinishCancelled,
                DropEvidence
  <1>7. ASSUME NEW w \in Workers, Execute(w) PROVE Goal
    <2>1. CASE ClaimOldest(w) \/ Reap(w)
      BY <1>2, <1>3, <2>1
    <2>2. CASE ~(ClaimOldest(w) \/ Reap(w))
      BY <1>4, <1>7, <2>2 DEF Execute, NothingToClaim, Heartbeat, LoseLease,
                              LimitExceeded, ChildExited
    <2> QED
      BY <2>1, <2>2
  <1>8. ASSUME NEW p \in Procs, Record(p) PROVE executor' = executor
    BY <1>8 DEF Record, WriteEnding, RecordEnding
  <1>9. CASE Fault
    BY <1>4, <1>9 DEF Fault, Crash, Restart, LeaseExpires, DamageFinal, DamageStaged
  <1>10. CASE UNCHANGED vars
    BY <1>4, <1>10 DEF vars
  <1> QED
    BY <1>1, <1>4, <1>5, <1>6, <1>7, <1>8, <1>9, <1>10 DEF Next

-----------------------------------------------------------------------------
(* The generation fence *)

\* An executor in Past got through begin_publish; a job in Late cannot be
\* claimed any more.
Past == {"publishing", "finalized", "exit0"}
Late == {"publishing", "finalizing"} \union Terminal

\* A job that began to publish never becomes claimable again.
LEMMA LateStays ==
    ASSUME TypeOK, [Next]_vars, NEW j \in Jobs, job[j].state \in Late
    PROVE  job'[j].state \in Late
  BY JobMoves DEF Move, StateMove, Late, Terminal

\* The only way into Past is a begin_publish that wins its compare-and-set.
EntersPast(j, t) ==
    /\ job[j].state = "running" /\ job'[j].state = "publishing"
    /\ executor' = [executor EXCEPT ![j][t] = "publishing"]

\* A step of any executor leaves Past as it was or enters it that way.
LEMMA ExecutorSteps ==
    ASSUME TypeOK, NEW i \in Jobs, NEW s \in Tokens, Executor(i, s),
           NEW j \in Jobs, NEW t \in Tokens, executor'[j][t] \in Past
    PROVE  executor[j][t] \in Past \/ EntersPast(j, t)
  <1>a. executor \in [Jobs -> [Tokens -> {"none"} \union Running \union Exited]]
    BY DEF TypeOK
  <1>1. CASE i = j /\ s = t
    <2>1. CASE AssertRunning(j, t)
      <3>1. executor'[j][t] \in {"exit130", "computing", "exit75"}
        BY <1>a, <2>1 DEF AssertRunning, Exec
      <3> QED
        BY <3>1 DEF Past
    <2>2. CASE Stage(j, t) \/ ExecutorDies(j, t) \/ OrphanStops(j, t)
      <3>1. executor'[j][t] \in {"staged", "error", "killed"}
        BY <1>a, <2>2 DEF Stage, ExecutorDies, OrphanStops, Exec
      <3> QED
        BY <3>1 DEF Past
    <2>3. CASE BeginPublish(j, t)
      <3>1. CASE MayPublish(j, t)
        <4>1. executor' = [executor EXCEPT ![j][t] = "publishing"]
              /\ job' = [job EXCEPT ![j].state = "publishing"]
          BY <2>3, <3>1 DEF BeginPublish, Exec
        <4>2. job'[j].state = "publishing"
          BY <4>1 DEF TypeOK, Job
        <4> QED
          BY <3>1, <4>1, <4>2 DEF EntersPast, MayPublish
      <3>2. CASE ~MayPublish(j, t)
        <4>1. executor'[j][t] \in {"exit130", "exit75"}
          BY <1>a, <2>3, <3>2 DEF BeginPublish, Exec
        <4> QED
          BY <4>1 DEF Past
      <3> QED
        BY <3>1, <3>2
    <2>4. CASE Finalize(j, t)
      BY <2>4 DEF Finalize, Exec, Past
    <2>5. CASE Publish(j, t)
      BY <2>5 DEF Publish, Exec, Past
    <2> QED
      BY <1>1, <2>1, <2>2, <2>3, <2>4, <2>5 DEF Executor
  <1>2. CASE ~(i = j /\ s = t)
    <2>1. \E to \in Running \union Exited : executor' = [executor EXCEPT ![i][s] = to]
      BY DEF Executor, AssertRunning, Stage, BeginPublish, Finalize, Publish,
             ExecutorDies, OrphanStops, Exec, Running, Exited
    <2>2. executor'[j][t] = executor[j][t]
      BY <1>a, <1>2, <2>1
    <2> QED
      BY <2>2
  <1> QED
    BY <1>1, <1>2

\* So does every step of the queue: workers, requests and faults never advance
\* an executor.
LEMMA IntoPast ==
    ASSUME TypeOK, [Next]_vars, NEW j \in Jobs, NEW t \in Tokens,
           executor'[j][t] \in Past
    PROVE  executor[j][t] \in Past \/ EntersPast(j, t)
  BY ExecutorSources, ExecutorSteps DEF Past

\* OnePublisher is not inductive by itself: nothing in it keeps a job with a
\* publisher from being claimed and published again.  It becomes inductive with
\* the fact that such a job is Late.
PublisherIsLate ==
    \A j \in Jobs : \A t \in Tokens : executor[j][t] \in Past => job[j].state \in Late

PublisherInv == PublisherIsLate /\ OnePublisher

\* At most one executor of a job ever gets past begin_publish, whatever the
\* number of claims, expired leases and orphans.
THEOREM GenerationFence == Spec => []OnePublisher
  <1>1. Init => PublisherInv
    BY DEF Init, PublisherInv, PublisherIsLate, OnePublisher, Past
  <1>2. TypeOK /\ PublisherInv /\ [Next]_vars => PublisherInv'
    <2> SUFFICES ASSUME TypeOK, PublisherInv, [Next]_vars PROVE PublisherInv'
      OBVIOUS
    <2>1. PublisherIsLate'
      <3> SUFFICES ASSUME NEW j \in Jobs, NEW t \in Tokens, executor'[j][t] \in Past
                   PROVE  job'[j].state \in Late
        BY DEF PublisherIsLate
      <3>1. CASE executor[j][t] \in Past
        BY <3>1, LateStays DEF PublisherInv, PublisherIsLate
      <3>2. CASE EntersPast(j, t)
        BY <3>2 DEF EntersPast, Late
      <3> QED
        BY <3>1, <3>2, IntoPast
    <2>2. OnePublisher'
      <3> SUFFICES ASSUME NEW j \in Jobs, NEW s \in Tokens, NEW t \in Tokens,
                          executor'[j][s] \in Past, executor'[j][t] \in Past
                   PROVE  s = t
        BY DEF OnePublisher, Past
      <3>1. CASE executor[j][s] \in Past /\ executor[j][t] \in Past
        BY <3>1 DEF PublisherInv, OnePublisher, Past
      <3>2. ASSUME NEW u \in Tokens, NEW v \in Tokens, EntersPast(j, u), u # v
            PROVE  executor'[j][v] \notin Past
        <4>1. executor[j][v] \notin Past
          BY <3>2 DEF EntersPast, PublisherInv, PublisherIsLate, Late, Terminal
        <4>2. executor'[j][v] = executor[j][v]
          BY <3>2 DEF EntersPast, TypeOK
        <4> QED
          BY <4>1, <4>2
      <3> QED
        BY <3>1, <3>2, IntoPast
    <2> QED
      BY <2>1, <2>2 DEF PublisherInv
  <1>3. PublisherInv => OnePublisher
    BY DEF PublisherInv
  <1> QED
    BY <1>1, <1>2, <1>3, TypeCorrect, PTL DEF Spec
=============================================================================
