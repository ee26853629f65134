------------------------ MODULE JobQueueEvidenceProofs ------------------------
(***************************************************************************)
(* Theorems about what JobQueue shows of a job, for every value of its     *)
(* constants: evidence and bundles of jobs that wait, run, are finalized,  *)
(* succeed or are cancelled, and the refinement of JobLifecycle.           *)
(***************************************************************************)
EXTENDS JobQueueProofs

-----------------------------------------------------------------------------
(* Where jobs go *)

\* Nothing of a job in Early is visible; a job in Settled has been finalized.
Early == {"absent", "queued", "running", "cancelling", "publishing"}
Settled == {"finalizing", "succeeded", "failed"}

\* A settled job stays so, and a job that ended without success stays as it is.
LEMMA SettledStays ==
    ASSUME TypeOK, [Next]_vars, NEW j \in Jobs, job[j].state \in Settled
    PROVE  job'[j].state \in Settled
  BY JobMoves DEF Move, StateMove, Settled

LEMMA EndedStays ==
    ASSUME TypeOK, [Next]_vars, NEW j \in Jobs, job[j].state \in {"failed", "cancelled"}
    PROVE  job'[j].state = job[j].state
  BY JobMoves DEF Move, StateMove, Leased

\* An early job was early before.
LEMMA EarlyBefore ==
    ASSUME TypeOK, [Next]_vars, NEW j \in Jobs, job'[j].state \in Early
    PROVE  job[j].state \in Early
  BY JobMoves DEF Move, StateMove, Early, Leased

-----------------------------------------------------------------------------
(* The locals of one process *)

\* Steps of process p that change its locals
ProcStep(p) ==
    \/ p \in Workers /\ (Recover(p) \/ Finish(p) \/ Execute(p))
    \/ Record(p)
    \/ Crash(p) \/ Restart(p)
    \/ p \in Clients /\ \E j \in Jobs : CancelQueued(p, j)

\* A step that changes the locals of q leaves those of p alone.
LEMMA OtherProcess ==
    ASSUME TypeOK, NEW p \in Procs, NEW q \in Procs, p # q,
           UNCHANGED proc \/ \E r : proc' = [proc EXCEPT ![q] = r]
    PROVE  proc'[p] = proc[p]
  BY DEF TypeOK

LEMMA OneProcess ==
    ASSUME TypeOK, [Next]_vars, NEW p \in Procs
    PROVE  proc'[p] = proc[p] \/ ProcStep(p)
  <1>a. Workers \subseteq Procs /\ Clients \subseteq Procs
    BY DEF Procs
  <1>1. ASSUME NEW w \in Workers, Recover(w)
        PROVE  UNCHANGED proc \/ \E r : proc' = [proc EXCEPT ![w] = r]
    BY <1>1 DEF Recover, Sweep, SettleClaim, RemoveStale, ScanTerminal, RecordNext,
                ScanPublished, VerifySucceeded, Condemn, Return
  <1>2. ASSUME NEW w \in Workers, Finish(w)
        PROVE  UNCHANGED proc \/ \E r : proc' = [proc EXCEPT ![w] = r]
    BY <1>2 DEF Finish, PromoteLook, PromoteRename, CommitSuccess, FailLook,
                FinishFailed, FinishCancelled, DropEvidence, Return, Goto
  <1>3. ASSUME NEW w \in Workers, Execute(w)
        PROVE  UNCHANGED proc \/ \E r : proc' = [proc EXCEPT ![w] = r]
    BY <1>3 DEF Execute, ClaimOldest, NothingToClaim, Heartbeat, LoseLease,
                LimitExceeded, Reap, ChildExited, Goto
  <1>4. ASSUME NEW q \in Procs, Record(q) \/ Crash(q) \/ Restart(q)
        PROVE  UNCHANGED proc \/ \E r : proc' = [proc EXCEPT ![q] = r]
    BY <1>4 DEF Record, WriteEnding, RecordEnding, Crash, Restart, Return, Goto
  <1>5. ASSUME Request
        PROVE  UNCHANGED proc \/ \E c \in Clients, j \in Jobs :
                 CancelQueued(c, j) /\ \E r : proc' = [proc EXCEPT ![c] = r]
    BY <1>5 DEF Request, Enqueue, CancelRunning, CancelQueued
  <1>6. ASSUME NEW j \in Jobs, NEW t \in Tokens, Executor(j, t)
        PROVE  UNCHANGED proc
    BY <1>6 DEF Executor, AssertRunning, Stage, BeginPublish, Finalize, Publish,
                ExecutorDies, OrphanStops
  <1>7. ASSUME NEW j \in Jobs, LeaseExpires(j) \/ DamageFinal(j)
                                 \/ \E t \in Tokens : DamageStaged(j, t)
        PROVE  UNCHANGED proc
    BY <1>7 DEF LeaseExpires, DamageFinal, DamageStaged
  <1>8. CASE \E w \in Workers : Recover(w) \/ Finish(w) \/ Execute(w)
    BY <1>8, <1>a, <1>1, <1>2, <1>3, OtherProcess DEF ProcStep
  <1>9. CASE \E q \in Procs : Record(q) \/ Crash(q) \/ Restart(q)
    BY <1>9, <1>4, OtherProcess DEF ProcStep
  <1>10. CASE Request
    BY <1>10, <1>a, <1>5, OtherProcess DEF ProcStep
  <1>11. CASE Fault
    BY <1>7, <1>9, <1>11 DEF Fault
  <1>12. CASE UNCHANGED vars
    BY <1>12 DEF vars
  <1> QED
    BY <1>6, <1>8, <1>9, <1>10, <1>11, <1>12 DEF Next
-----------------------------------------------------------------------------
(* Jobs of an older release *)

\* Such a job is never claimed or taken over: no process has a claim of it and
\* no executor was started for it.
LegacyIdle ==
    \A j \in Legacy :
        /\ job[j].state \in {"publishing", "succeeded", "failed"}
        /\ \A t \in Tokens : executor[j][t] = "none"
        /\ \A p \in Procs : /\ proc[p].claim[1] # j
                            /\ \A c \in proc[p].finalizing : c[1] # j

\* Where the claim of a process and those it has to settle come from.
ClaimFrom(p, c) ==
    \/ c = proc[p].claim \/ c = NoClaim \/ c \in proc[p].finalizing
    \/ c[1] \in Jobs /\ job[c[1]].state = "queued"

SettleFrom(p, c) ==
    c \in proc[p].finalizing \/ (c[1] \in Jobs /\ job[c[1]].state = "finalizing")

LEMMA ClaimSources ==
    ASSUME TypeOK, NEW p \in Procs, ProcStep(p)
    PROVE  /\ ClaimFrom(p, proc'[p].claim)
           /\ \A c \in proc'[p].finalizing : SettleFrom(p, c)
  <1>a. proc[p] \in Proc /\ proc \in [Procs -> Proc]
    BY DEF TypeOK
  <1>b. /\ Idle \in Proc /\ Idle.claim = NoClaim /\ Idle.finalizing = {}
    BY IdleType DEF Idle
  <1>1. CASE /\ proc'[p].claim \in {proc[p].claim, NoClaim}
             /\ proc'[p].finalizing \in {proc[p].finalizing, {}}
    BY <1>1 DEF ClaimFrom, SettleFrom
  <1>2. CASE Sweep(p)
    <2> DEFINE taken == {j \in Jobs : PassedOn(j)}
               claims == {<<j, issued[j] + 1>> : j \in taken}
    <2>1. proc'[p].claim = NoClaim /\ proc'[p].finalizing = claims
      BY <1>2, <1>a, <1>b DEF Sweep, Proc
    <2>2. \A c \in claims : c[1] \in Jobs /\ job[c[1]].state = "finalizing"
      BY DEF PassedOn
    <2> QED
      BY <2>1, <2>2 DEF ClaimFrom, SettleFrom
  <1>3. CASE SettleClaim(p)
    <2> PICK claim \in proc[p].finalizing :
          proc' = [proc EXCEPT ![p] = [@ EXCEPT
                    !.pc = "promote", !.back = "settle", !.claim = claim,
                    !.finalizing = proc[p].finalizing \ {claim}]]
      BY <1>3 DEF SettleClaim
    <2>1. proc'[p].claim = claim /\ proc'[p].finalizing = proc[p].finalizing \ {claim}
      BY <1>a DEF Proc
    <2> QED
      BY <2>1 DEF ClaimFrom, SettleFrom
  <1>4. CASE ClaimOldest(p)
    <2> PICK j \in Queued :
          proc' = [proc EXCEPT ![p] = [Idle EXCEPT
                       !.pc = "executing", !.claim = <<j, issued[j] + 1>>]]
      BY <1>4 DEF ClaimOldest
    <2>1. proc'[p].claim = <<j, issued[j] + 1>> /\ proc'[p].finalizing = {}
      BY <1>a, <1>b DEF Proc
    <2> QED
      BY <2>1 DEF ClaimFrom, SettleFrom, Queued
  <1> DEFINE Keeps == /\ proc'[p].claim \in {proc[p].claim, NoClaim}
                      /\ proc'[p].finalizing \in {proc[p].finalizing, {}}
  <1>5. ASSUME Return(p) \/ (\E pc : Goto(p, pc)) \/ Crash(p) PROVE Keeps
    <2>1. ASSUME Return(p) PROVE Keeps
      BY <2>1, <1>a DEF Return, Proc
    <2>2. ASSUME NEW pc, Goto(p, pc) PROVE Keeps
      BY <2>2, <1>a DEF Goto, Proc
    <2>3. ASSUME Crash(p) PROVE Keeps
      BY <2>3, <1>a, <1>b DEF Crash, Proc
    <2> QED
      BY <1>5, <2>1, <2>2, <2>3
  <1>6. ASSUME Recover(p), ~Sweep(p), ~SettleClaim(p) PROVE Keeps
    <2>1. ASSUME RemoveStale(p) PROVE Keeps
      BY <2>1, <1>a DEF RemoveStale, Proc
    <2>4. ASSUME ScanTerminal(p) PROVE Keeps
      BY <2>4, <1>a DEF ScanTerminal, Proc
    <2>5. ASSUME ScanPublished(p) PROVE Keeps
      BY <2>5, <1>a DEF ScanPublished, Proc
    <2>6. ASSUME RecordNext(p) PROVE Keeps
      BY <2>6, <1>a DEF RecordNext, Proc
    <2>2. ASSUME VerifySucceeded(p) PROVE Keeps
      <3>1. \E t, v :
              \/ proc' = [proc EXCEPT ![p] = [proc[p] EXCEPT
                           !.pc = "condemn", !.back = "verifying",
                           !.target = t, !.verify = v]]
              \/ proc' = [proc EXCEPT ![p] = [proc[p] EXCEPT !.verify = v]]
        BY <2>2 DEF VerifySucceeded
      <3>2. ASSUME NEW t, NEW v,
                   proc' = [proc EXCEPT ![p] = [proc[p] EXCEPT !.pc = "condemn",
                              !.back = "verifying", !.target = t, !.verify = v]]
            PROVE  Keeps
        BY <3>2, <1>a DEF Proc
      <3>3. ASSUME NEW v, proc' = [proc EXCEPT ![p] = [proc[p] EXCEPT !.verify = v]]
            PROVE  Keeps
        BY <3>3, <1>a DEF Proc
      <3> HIDE DEF Keeps
      <3> QED
        BY <3>1, <3>2, <3>3
    <2>3. ASSUME Condemn(p) PROVE Keeps
      <3>1. CASE Return(p)
        BY <3>1, <1>5
      <3>2. CASE ~Return(p)
        <4> DEFINE S == EvidencePaths(proc[p].target[1])
        <4>1. proc' = [proc EXCEPT ![p] = [proc[p] EXCEPT !.pc = "drop", !.trash = S]]
          BY <2>3, <3>2 DEF Condemn
        <4> HIDE DEF S
        <4> QED
          BY <4>1, <1>a DEF Proc
      <3> QED
        BY <3>1, <3>2
    <2> QED
      BY <1>6, <2>1, <2>2, <2>3, <2>4, <2>5, <2>6 DEF Recover
  <1>7. ASSUME Finish(p) PROVE Keeps
    <2>1. ASSUME PromoteLook(p) \/ PromoteRename(p) PROVE Keeps
      <3>1. \E pc : Goto(p, pc)
        BY <2>1 DEF PromoteLook, PromoteRename
      <3> QED
        BY <3>1, <1>5
    <2>2. ASSUME CommitSuccess(p) PROVE Keeps
      <3>1. CASE Return(p)
        BY <3>1, <1>5
      <3>2. CASE ~Return(p)
        <4>1. proc' = [proc EXCEPT ![p] = [Idle EXCEPT !.pc = "down"]]
          BY <2>2, <3>2 DEF CommitSuccess
        <4>2. proc'[p] = [Idle EXCEPT !.pc = "down"]
          BY <4>1, <1>a
        <4>3. proc'[p].claim = Idle.claim /\ proc'[p].finalizing = Idle.finalizing
          BY <4>2, <1>b DEF Proc
        <4> QED
          BY <4>3, <1>b
      <3> QED
        BY <3>1, <3>2
    <2>3. ASSUME FailLook(p) \/ FinishFailed(p) \/ FinishCancelled(p) PROVE Keeps
      <3>1. CASE Return(p)
        BY <3>1, <1>5
      <3>2. CASE FailLook(p) /\ ~Return(p)
        <4> DEFINE state == job[proc[p].claim[1]].state
        <4>1. proc' = [proc EXCEPT ![p] = [proc[p] EXCEPT !.pc = "failing",
                                                          !.source = state]]
          BY <3>2 DEF FailLook
        <4> HIDE DEF state
        <4> QED
          BY <4>1, <1>a DEF Proc
      <3>3. CASE FinishCancelled(p) /\ ~Return(p)
        <4>1. proc' = [proc EXCEPT ![p] = [proc[p] EXCEPT !.pc = "bundle",
                         !.target = <<proc[p].claim[1], "cancelled">>]]
          BY <3>3 DEF FinishCancelled
        <4> QED
          BY <4>1, <1>a DEF Proc
      <3>4. CASE FinishFailed(p) /\ ~Return(p)
        <4> DEFINE S == IF proc[p].source = "finalizing"
                          THEN EvidencePaths(proc[p].claim[1]) ELSE {}
        <4>1. proc' = [proc EXCEPT ![p] = [@ EXCEPT !.pc = "drop", !.source = "absent",
                         !.target = <<proc[p].claim[1], "failed">>, !.trash = S]]
          BY <3>4 DEF FinishFailed
        <4> HIDE DEF S
        <4> QED
          BY <4>1, <1>a DEF Proc
      <3> QED
        BY <2>3, <3>1, <3>2, <3>3, <3>4
    <2>4. ASSUME DropEvidence(p) PROVE Keeps
      BY <2>4, <1>a DEF DropEvidence, Proc
    <2> QED
      BY <1>7, <2>1, <2>2, <2>3, <2>4 DEF Finish
  <1>8. ASSUME Execute(p), ~ClaimOldest(p) PROVE Keeps
    <2>1. ASSUME NothingToClaim(p) PROVE Keeps
      BY <2>1, <1>5 DEF NothingToClaim
    <2>2. ASSUME Heartbeat(p) PROVE Keeps
      <3>1. \/ proc' = [proc EXCEPT ![p] = [proc[p] EXCEPT !.pc = "reaping", !.back = "cancel"]]
            \/ proc' = proc
        BY <2>2 DEF Heartbeat
      <3> QED
        BY <3>1, <1>a DEF Proc
    <2>6. ASSUME LimitExceeded(p) PROVE Keeps
      BY <2>6, <1>a DEF LimitExceeded, Proc
    <2>3. ASSUME LoseLease(p) PROVE Keeps
      <3>1. CASE \E pc : Goto(p, pc)
        BY <3>1, <1>5
      <3>2. CASE ~(\E pc : Goto(p, pc))
        BY <2>3, <3>2, <1>a DEF LoseLease, Proc
      <3> QED
        BY <3>1, <3>2
    <2>4. ASSUME Reap(p) PROVE Keeps
      BY <2>4, <1>a DEF Reap, Proc
    <2>5. ASSUME ChildExited(p) PROVE Keeps
      BY <2>5, <1>a DEF ChildExited, Proc
    <2> QED
      BY <1>8, <2>1, <2>2, <2>3, <2>4, <2>5, <2>6 DEF Execute
  <1>9. ASSUME Record(p) \/ Crash(p) \/ Restart(p) PROVE Keeps
    <2>1. Return(p) \/ (\E pc : Goto(p, pc)) \/ Crash(p)
      BY <1>9 DEF Record, WriteEnding, RecordEnding, Restart
    <2> QED
      BY <2>1, <1>5
  <1>10. ASSUME NEW j \in Jobs, CancelQueued(p, j) PROVE Keeps
    BY <1>10, <1>a DEF CancelQueued, Proc
  <1> QED
    BY <1>1, <1>2, <1>3, <1>4, <1>6, <1>7, <1>8, <1>9, <1>10 DEF ProcStep
-----------------------------------------------------------------------------
(* Which action led to the program point of a process *)

\* Points at which a process neither ends a job nor shows anything of it.
QuietPCs == {"down", "executing", "draining", "promote", "fail", "failing"}
              \union Returning

\* The actions behind each other point.
Led(p) ==
    \/ proc'[p].pc \in QuietPCs
    \/ proc'[p].pc = "reaping" /\ (Heartbeat(p) \/ LoseLease(p) \/ LimitExceeded(p))
    \/ proc'[p].pc = "cancel" /\ (Reap(p) \/ ChildExited(p))
    \/ proc'[p].pc \in {"rename", "commit"} /\ (PromoteLook(p) \/ PromoteRename(p))
    \/ proc'[p].pc = "condemn" /\ VerifySucceeded(p)
    \/ proc'[p].pc = "drop" /\ (Condemn(p) \/ FinishFailed(p))
    \/ /\ proc'[p].pc = "bundle"
       /\ \/ FinishCancelled(p) \/ DropEvidence(p) \/ RecordNext(p)
          \/ \E j \in Jobs : CancelQueued(p, j)
    \/ proc'[p].pc = "row" /\ WriteEnding(p)

LEMMA PcSources ==
    ASSUME TypeOK, NEW p \in Procs, ProcStep(p)
    PROVE  Led(p)
  <1>a. proc[p] \in Proc /\ proc \in [Procs -> Proc]
    BY DEF TypeOK
  <1>b. Idle \in Proc /\ Idle.pc = "poll"
    BY IdleType DEF Idle
  <1> DEFINE Quiet == proc'[p].pc \in QuietPCs
  <1>1. ASSUME Return(p), proc[p].pc # "reaping" PROVE Quiet
    <2>1. proc'[p].pc = proc[p].back
      BY <1>1, <1>a DEF Return, Proc
    <2>2. proc[p].back \in Returning
      BY <1>1 DEF TypeOK, LocalsOK
    <2> QED
      BY <2>1, <2>2 DEF QuietPCs
  <1>2. ASSUME NEW pc, Goto(p, pc) PROVE proc'[p].pc = pc
    BY <1>2, <1>a DEF Goto, Proc
  <1>3. ASSUME Crash(p) \/ Restart(p) PROVE Quiet
    <2>1. CASE Crash(p)
      BY <2>1, <1>a, <1>b DEF Crash, Proc, QuietPCs
    <2>2. CASE Restart(p)
      BY <2>2, <1>2 DEF Restart, QuietPCs, Returning
    <2> QED
      BY <1>3, <2>1, <2>2
  <1>4. ASSUME Recover(p) PROVE Led(p)
    <2>1. CASE Sweep(p)
      <3>1. \E f, s, e : proc' = [proc EXCEPT ![p] = [Idle EXCEPT
              !.pc = "settle", !.finalizing = f, !.stale = s, !.endings = e]]
        BY <2>1 DEF Sweep
      <3> QED
        BY <3>1, <1>a, <1>b DEF Proc, Led, QuietPCs, Returning
    <2>2. CASE SettleClaim(p)
      <3>1. \E c, f : proc' = [proc EXCEPT ![p] = [proc[p] EXCEPT
              !.pc = "promote", !.back = "settle", !.claim = c, !.finalizing = f]]
        BY <2>2 DEF SettleClaim
      <3> QED
        BY <3>1, <1>a DEF Proc, Led, QuietPCs
    <2>3. CASE RemoveStale(p)
      BY <2>3, <1>a DEF RemoveStale, Proc, Led, QuietPCs, Returning
    <2>4. CASE ScanTerminal(p)
      <3>1. \E e : proc' = [proc EXCEPT ![p] = [proc[p] EXCEPT
              !.pc = "repairing", !.endings = e]]
        BY <2>4 DEF ScanTerminal
      <3> QED
        BY <3>1, <1>a DEF Proc, Led, QuietPCs, Returning
    <2>5. CASE RecordNext(p)
      <3>1. \E b, t, e : proc' = [proc EXCEPT ![p] = [proc[p] EXCEPT
              !.pc = "bundle", !.back = b, !.target = t, !.endings = e]]
        BY <2>5 DEF RecordNext
      <3>2. proc'[p].pc = "bundle"
        BY <3>1, <1>a DEF Proc
      <3> QED
        BY <3>2, <2>5 DEF Led
    <2>6. CASE ScanPublished(p)
      <3>1. \E v : proc' = [proc EXCEPT ![p] = [proc[p] EXCEPT
              !.pc = "verifying", !.verify = v]]
        BY <2>6 DEF ScanPublished
      <3> QED
        BY <3>1, <1>a DEF Proc, Led, QuietPCs, Returning
    <2>7. CASE VerifySucceeded(p)
      <3>1. \E t, v :
              \/ proc' = [proc EXCEPT ![p] = [proc[p] EXCEPT
                           !.pc = "condemn", !.back = "verifying",
                           !.target = t, !.verify = v]]
              \/ proc' = [proc EXCEPT ![p] = [proc[p] EXCEPT !.verify = v]]
        BY <2>7 DEF VerifySucceeded
      <3>2. ASSUME NEW t, NEW v,
                   proc' = [proc EXCEPT ![p] = [proc[p] EXCEPT !.pc = "condemn",
                              !.back = "verifying", !.target = t, !.verify = v]]
            PROVE  proc'[p].pc = "condemn"
        BY <3>2, <1>a DEF Proc
      <3>3. ASSUME NEW v, proc' = [proc EXCEPT ![p] = [proc[p] EXCEPT !.verify = v]]
            PROVE  proc'[p].pc = proc[p].pc
        BY <3>3, <1>a DEF Proc
      <3>4. proc[p].pc = "verifying"
        BY <2>7 DEF VerifySucceeded
      <3>5. proc'[p].pc \in {"condemn", "verifying"}
        BY <3>1, <3>2, <3>3, <3>4
      <3> QED
        BY <3>5, <2>7 DEF Led, QuietPCs, Returning
    <2>8. CASE Condemn(p)
      <3>1. CASE Return(p)
        BY <3>1, <2>8, <1>1 DEF Condemn, Led
      <3>2. CASE ~Return(p)
        <4>1. \E s : proc' = [proc EXCEPT ![p] = [proc[p] EXCEPT !.pc = "drop", !.trash = s]]
          BY <2>8, <3>2 DEF Condemn
        <4>2. proc'[p].pc = "drop"
          BY <4>1, <1>a DEF Proc
        <4> QED
          BY <4>2, <2>8 DEF Led
      <3> QED
        BY <3>1, <3>2
    <2> QED
      BY <1>4, <2>1, <2>2, <2>3, <2>4, <2>5, <2>6, <2>7, <2>8 DEF Recover
  <1>5. ASSUME Finish(p) PROVE Led(p)
    <2>1. CASE PromoteLook(p) \/ PromoteRename(p)
      <3>1. \E pc \in {"fail", "commit", "rename"} : Goto(p, pc)
        BY <2>1 DEF PromoteLook, PromoteRename
      <3> QED
        BY <3>1, <2>1, <1>2 DEF Led, QuietPCs
    <2>2. CASE CommitSuccess(p)
      <3>1. CASE Return(p)
        BY <3>1, <2>2, <1>1 DEF CommitSuccess, Led
      <3>2. CASE ~Return(p)
        <4>1. proc' = [proc EXCEPT ![p] = [Idle EXCEPT !.pc = "down"]]
          BY <2>2, <3>2 DEF CommitSuccess
        <4> QED
          BY <4>1, <1>a, <1>b DEF Proc, Led, QuietPCs
      <3> QED
        BY <3>1, <3>2
    <2>3. CASE FailLook(p)
      <3>1. CASE Return(p)
        BY <3>1, <2>3, <1>1 DEF FailLook, Led
      <3>2. CASE ~Return(p)
        <4>1. \E s : proc' = [proc EXCEPT ![p] = [proc[p] EXCEPT !.pc = "failing", !.source = s]]
          BY <2>3, <3>2 DEF FailLook
        <4> QED
          BY <4>1, <1>a DEF Proc, Led, QuietPCs
      <3> QED
        BY <3>1, <3>2
    <2>4. CASE FinishFailed(p)
      <3>1. CASE Return(p)
        BY <3>1, <2>4, <1>1 DEF FinishFailed, Led
      <3>2. CASE ~Return(p)
        <4>1. \E t, s : proc' = [proc EXCEPT ![p] = [proc[p] EXCEPT
                !.pc = "drop", !.source = "absent", !.target = t, !.trash = s]]
          BY <2>4, <3>2 DEF FinishFailed
        <4>2. proc'[p].pc = "drop"
          BY <4>1, <1>a DEF Proc
        <4> QED
          BY <4>2, <2>4 DEF Led
      <3> QED
        BY <3>1, <3>2
    <2>5. CASE FinishCancelled(p)
      <3>1. CASE Return(p)
        BY <3>1, <2>5, <1>1 DEF FinishCancelled, Led
      <3>2. CASE ~Return(p)
        <4>1. \E t : proc' = [proc EXCEPT ![p] = [proc[p] EXCEPT !.pc = "bundle", !.target = t]]
          BY <2>5, <3>2 DEF FinishCancelled
        <4>2. proc'[p].pc = "bundle"
          BY <4>1, <1>a DEF Proc
        <4> QED
          BY <4>2, <2>5 DEF Led
      <3> QED
        BY <3>1, <3>2
    <2>6. CASE DropEvidence(p)
      <3>1. proc'[p].pc = "bundle"
        BY <2>6, <1>a DEF DropEvidence, Proc
      <3> QED
        BY <3>1, <2>6 DEF Led
    <2> QED
      BY <1>5, <2>1, <2>2, <2>3, <2>4, <2>5, <2>6 DEF Finish
  <1>6. ASSUME Execute(p) PROVE Led(p)
    <2>1. CASE ClaimOldest(p)
      <3>1. \E c : proc' = [proc EXCEPT ![p] = [Idle EXCEPT !.pc = "executing", !.claim = c]]
        BY <2>1 DEF ClaimOldest
      <3> QED
        BY <3>1, <1>a, <1>b DEF Proc, Led, QuietPCs
    <2>2. CASE NothingToClaim(p)
      BY <2>2, <1>2 DEF NothingToClaim, Led, QuietPCs, Returning
    <2>3. CASE Heartbeat(p)
      <3>1. \/ proc' = [proc EXCEPT ![p] = [proc[p] EXCEPT !.pc = "reaping", !.back = "cancel"]]
            \/ proc' = proc
        BY <2>3 DEF Heartbeat
      <3>2. proc'[p].pc = "reaping" \/ proc'[p].pc = proc[p].pc
        BY <3>1, <1>a DEF Proc
      <3> QED
        BY <3>2, <2>3 DEF Heartbeat, Led, QuietPCs
    <2>4. CASE LoseLease(p)
      <3>1. Goto(p, "draining")
            \/ proc' = [proc EXCEPT ![p] = [proc[p] EXCEPT !.pc = "reaping", !.back = "poll"]]
        BY <2>4 DEF LoseLease
      <3>2. proc'[p].pc \in {"draining", "reaping"}
        BY <3>1, <1>2, <1>a DEF Proc
      <3> QED
        BY <3>2, <2>4 DEF Led, QuietPCs
    <2>5. CASE LimitExceeded(p)
      <3>1. proc'[p].pc = "reaping"
        BY <2>5, <1>a DEF LimitExceeded, Proc
      <3> QED
        BY <3>1, <2>5 DEF Led
    <2>6. CASE Reap(p) \/ ChildExited(p)
      <3>1. \E outcome \in {"poll", "fail", "cancel", "promote"} : \E c :
              proc' = [proc EXCEPT ![p] = [proc[p] EXCEPT
                         !.pc = outcome, !.back = "poll", !.claim = c]]
        <4>1. CASE Reap(p)
          <5>1. proc[p].back \in {"poll", "fail", "cancel"}
            BY <4>1 DEF Reap, TypeOK, LocalsOK
          <5> QED
            BY <4>1, <5>1 DEF Reap
        <4>2. CASE ChildExited(p)
          BY <4>2, Outcomes DEF ChildExited
        <4> QED
          BY <2>6, <4>1, <4>2
      <3>2. proc'[p].pc \in {"poll", "fail", "cancel", "promote"}
        BY <3>1, <1>a DEF Proc
      <3> QED
        BY <3>2, <2>6 DEF Led, QuietPCs, Returning
    <2> QED
      BY <1>6, <2>1, <2>2, <2>3, <2>4, <2>5, <2>6 DEF Execute
  <1>7. ASSUME Record(p) PROVE Led(p)
    <2>1. proc[p].pc # "reaping"
      BY <1>7 DEF Record, WriteEnding, RecordEnding
    <2>2. Return(p) \/ (WriteEnding(p) /\ Goto(p, "row"))
      BY <1>7 DEF Record, WriteEnding, RecordEnding
    <2> QED
      BY <2>1, <2>2, <1>1, <1>2 DEF Led
  <1>8. ASSUME NEW j \in Jobs, CancelQueued(p, j) PROVE Led(p)
    <2>1. proc'[p].pc = "bundle"
      BY <1>8, <1>a DEF CancelQueued, Proc
    <2> QED
      BY <2>1, <1>8 DEF Led
  <1> QED
    BY <1>3, <1>4, <1>5, <1>6, <1>7, <1>8 DEF ProcStep, Led
-----------------------------------------------------------------------------
(* What one step may do to the row of a job and to what it shows *)

\* finalize: the only way evidence appears, and into FINALIZING.
Shows(j) ==
    \E t \in Tokens :
        /\ job[j].state = "publishing" /\ job[j].token = t
        /\ executor[j][t] = "publishing"
        /\ job'[j].state = "finalizing" /\ job'[j].result = t
        /\ evidence'[j] = TRUE
        /\ manifest'[j] = IF HasBundle(j) THEN Success(t) ELSE manifest[j]

\* The job fails and what it showed is taken back.
Hides(j) ==
    /\ job[j].state \in {"publishing", "finalizing", "succeeded"}
    /\ job'[j].state = "failed" /\ job'[j].result = job[j].result
    /\ evidence'[j] = FALSE /\ manifest'[j] = NoManifest

\* _record_terminal_run records what it finds at the final path.
Records(j) ==
    /\ job'[j].state = job[j].state /\ job'[j].result = job[j].result
    /\ evidence'[j] = evidence[j]
    /\ \E p \in Procs : proc[p].pc = "row" /\ proc[p].target[1] = j
    /\ manifest'[j] = IF final[j] # NoBundle THEN final[j].manifest ELSE manifest[j]

\* Row r of job j after a step that shows and hides nothing of it: how such a
\* step ends a job.
Ends(j, r) ==
    /\ r.result = job[j].result
    /\ r.state = "finalizing" => job[j].state = "finalizing"
    /\ r.state = "failed" =>
         \/ job[j].state \in {"running", "cancelling", "failed"}
         \/ /\ job[j].state = "publishing"
            /\ \E p \in Procs : proc[p].pc \in ClaimPCs /\ proc[p].claim[1] = j
    /\ r.state = "succeeded" =>
         \/ job[j].state = "succeeded" \/ LegacyComplete(j)
         \/ /\ job[j].state = "finalizing"
            /\ \E p \in Procs : proc[p].pc = "commit" /\ proc[p].claim[1] = j
    /\ r.state = "cancelled" =>
         \/ job[j].state \in {"queued", "cancelling", "cancelled"} \/ job[j].cancel
         \/ \E p \in Procs : proc[p].pc = "cancel" /\ proc[p].claim[1] = j

Shown(j) == /\ evidence'[j] = evidence[j] /\ manifest'[j] = manifest[j]
            /\ Ends(j, job'[j])

RowStep(j) == Shows(j) \/ Hides(j) \/ Records(j) \/ Shown(j)

\* A row that keeps its state and its result.
LEMMA SameShown ==
    ASSUME NEW j \in Jobs, evidence'[j] = evidence[j], manifest'[j] = manifest[j],
           job'[j].state = job[j].state, job'[j].result = job[j].result
    PROVE  Shown(j)
  BY DEF Shown, Ends

\* One row changes, nothing else is shown or hidden.
LEMMA OneShown ==
    ASSUME TypeOK, UNCHANGED rows, NEW j \in Jobs, NEW r, Ends(j, r),
           job' = [job EXCEPT ![j] = r], NEW k \in Jobs
    PROVE  Shown(k)
  <1>1. CASE k = j
    BY <1>1 DEF TypeOK, rows, Shown
  <1>2. CASE k # j
    <2>1. job'[k] = job[k]
      BY <1>2 DEF TypeOK
    <2> QED
      BY <2>1, SameShown DEF rows
  <1> QED
    BY <1>1, <1>2

\* One job fails and is hidden.
LEMMA OneHidden ==
    ASSUME TypeOK, NEW j \in Jobs, job[j].state \in {"publishing", "finalizing", "succeeded"},
           NEW r, r.state = "failed", r.result = job[j].result,
           job' = [job EXCEPT ![j] = r], Invalidate({j}), NEW k \in Jobs
    PROVE  RowStep(k)
  <1>1. CASE k = j
    BY <1>1 DEF TypeOK, Invalidate, RowStep, Hides
  <1>2. CASE k # j
    <2>1. job'[k] = job[k] /\ evidence'[k] = evidence[k] /\ manifest'[k] = manifest[k]
      BY <1>2 DEF TypeOK, Invalidate
    <2> QED
      BY <2>1, SameShown DEF RowStep
  <1> QED
    BY <1>1, <1>2

\* Nothing of any row changes.
LEMMA NoRow ==
    ASSUME UNCHANGED <<job, rows>>, NEW k \in Jobs
    PROVE  RowStep(k)
  BY SameShown DEF rows, RowStep

\* The sweep.
LEMMA SweepRows ==
    ASSUME TypeOK, NEW w \in Workers, Sweep(w), NEW j \in Jobs
    PROVE  RowStep(j)
  <1> DEFINE freed == {i \in Jobs : Stale(i) /\ ~PassedOn(i)}
             void == {i \in freed : job[i].state = "publishing"
                                    /\ RecoveryTarget(i) = "failed"}
  <1>a. job[j] \in Job /\ void \subseteq Jobs
    BY DEF TypeOK
  <1>b. job' = [k \in Jobs |->
          IF k \in {i \in Jobs : PassedOn(i)}
            THEN [job[k] EXCEPT !.token = issued[k] + 1, !.lease = "live"]
            ELSE IF k \in freed THEN Release(job[k], RecoveryTarget(k)) ELSE job[k]]
    BY DEF Sweep
  <1>c. Invalidate(void)
    BY DEF Sweep
  <1>d. /\ j \in void => evidence'[j] = FALSE /\ manifest'[j] = NoManifest
        /\ j \notin void => evidence'[j] = evidence[j] /\ manifest'[j] = manifest[j]
    <2> HIDE DEF void
    <2> QED
      BY <1>c DEF Invalidate
  <1>1. CASE j \notin freed
    <2>1. job'[j].state = job[j].state /\ job'[j].result = job[j].result
      <3>1. CASE PassedOn(j)
        <4>1. job'[j] = [job[j] EXCEPT !.token = issued[j] + 1, !.lease = "live"]
          BY <3>1, <1>b
        <4> QED
          BY <4>1, <1>a DEF Job
      <3>2. CASE ~PassedOn(j)
        <4>1. job'[j] = job[j]
          BY <3>2, <1>1, <1>b
        <4> QED
          BY <4>1
      <3> QED
        BY <3>1, <3>2
    <2> QED
      BY <1>1, <1>d, <2>1, SameShown DEF RowStep
  <1>2. CASE j \in freed
    <2>1. job'[j] = Release(job[j], RecoveryTarget(j))
      BY <1>2, <1>b
    <2>2. RecoveryTarget(j) \in States
      BY RecoveryTargets DEF States, Terminal
    <2>3. job'[j].state = RecoveryTarget(j) /\ job'[j].result = job[j].result
      BY <1>a, <2>1, <2>2, ReleaseType
    <2>4. job[j].state \in {"running", "cancelling", "publishing"}
      BY <1>2 DEF Stale, PassedOn, Leased
    <2>5. CASE j \in void
      BY <1>d, <2>3, <2>5 DEF RowStep, Hides
    <2>6. CASE j \notin void
      <3>1. RecoveryTarget(j) # "finalizing"
        BY RecoveryTargets
      <3>2. RecoveryTarget(j) = "failed" => job[j].state \in {"running", "cancelling"}
        BY <1>2, <2>4, <2>6
      <3>3. RecoveryTarget(j) = "succeeded" => LegacyComplete(j)
        BY DEF RecoveryTarget
      <3>4. RecoveryTarget(j) = "cancelled" => job[j].state = "cancelling" \/ job[j].cancel
        BY DEF RecoveryTarget
      <3>5. Ends(j, job'[j])
        BY <2>3, <3>1, <3>2, <3>3, <3>4 DEF Ends
      <3> QED
        BY <1>d, <2>6, <3>5 DEF RowStep, Shown
    <2> QED
      BY <2>5, <2>6
  <1> QED
    BY <1>1, <1>2
\* Finishing a claim and failing a succeeded job.
LEMMA FinishRows ==
    ASSUME TypeOK, NEW w \in Workers, Finish(w) \/ Condemn(w), NEW k \in Jobs
    PROVE  RowStep(k)
  <1>a. w \in Procs
    BY DEF Procs
  <1> DEFINE j == proc[w].claim[1]
  <1>1. CASE PromoteLook(w) \/ PromoteRename(w) \/ FailLook(w) \/ DropEvidence(w)
    <2>1. UNCHANGED <<job, rows>>
      BY <1>1 DEF PromoteLook, PromoteRename, FailLook, DropEvidence
    <2> QED
      BY <2>1, NoRow
  <1>2. CASE CommitSuccess(w)
    <2>1. j \in Jobs /\ proc[w].pc = "commit"
      BY <1>a, <1>2, ProcAt DEF CommitSuccess, ClaimPCs
    <2>2. /\ UNCHANGED rows
          /\ \/ job[j].state = "finalizing" /\ job' = [job EXCEPT ![j] = Release(@, "succeeded")]
             \/ job' = job
      BY <1>2 DEF CommitSuccess
    <2>3. \E p \in Procs : proc[p].pc = "commit" /\ proc[p].claim[1] = j
      BY <1>a, <2>1
    <2> HIDE DEF j
    <2>4. /\ Release(job[j], "succeeded").state = "succeeded"
          /\ Release(job[j], "succeeded").result = job[j].result
      BY <2>1, ReleaseType DEF TypeOK, States, Terminal
    <2>5. CASE job' = job
      BY <2>2, <2>5, NoRow
    <2>6. CASE job' # job
      <3>1. Ends(j, Release(job[j], "succeeded"))
        BY <2>2, <2>3, <2>4, <2>6 DEF Ends
      <3> QED
        BY <2>1, <2>2, <2>6, <3>1, OneShown DEF RowStep
    <2> QED
      BY <2>5, <2>6
  <1>3. CASE FinishFailed(w)
    <2>1. j \in Jobs /\ proc[w].source \in Leased /\ proc[w].pc = "failing"
      BY <1>a, <1>3, ProcAt DEF FinishFailed, ClaimPCs
    <2>2. \/ /\ job[j].state = proc[w].source
             /\ job' = [job EXCEPT ![j] = Release(@, "failed")]
             /\ Invalidate(IF proc[w].source = "finalizing" THEN {j} ELSE {})
          \/ UNCHANGED <<job, rows>>
      BY <1>3 DEF FinishFailed
    <2>3. \E p \in Procs : proc[p].pc \in ClaimPCs /\ proc[p].claim[1] = j
      BY <1>a, <2>1 DEF ClaimPCs
    <2> HIDE DEF j
    <2>4. /\ Release(job[j], "failed").state = "failed"
          /\ Release(job[j], "failed").result = job[j].result
      BY <2>1, ReleaseType DEF TypeOK, States, Terminal
    <2>5. CASE UNCHANGED <<job, rows>>
      BY <2>5, NoRow
    <2>6. CASE ~UNCHANGED <<job, rows>> /\ proc[w].source = "finalizing"
      BY <2>1, <2>2, <2>4, <2>6, OneHidden
    <2>7. CASE ~UNCHANGED <<job, rows>> /\ proc[w].source # "finalizing"
      <3>1. UNCHANGED rows
        <4>1. Invalidate({})
          BY <2>2, <2>7
        <4> QED
          BY <4>1 DEF Invalidate, TypeOK, rows
      <3>2. Ends(j, Release(job[j], "failed"))
        BY <2>1, <2>2, <2>3, <2>4, <2>7 DEF Ends, Leased
      <3> QED
        BY <2>1, <2>2, <2>7, <3>1, <3>2, OneShown DEF RowStep
    <2> QED
      BY <2>5, <2>6, <2>7
  <1>4. CASE FinishCancelled(w)
    <2>1. j \in Jobs /\ proc[w].pc = "cancel"
      BY <1>a, <1>4, ProcAt DEF FinishCancelled, ClaimPCs
    <2>2. /\ UNCHANGED rows
          /\ job' = [job EXCEPT ![j] = Release(@, "cancelled")] \/ job' = job
      BY <1>4 DEF FinishCancelled
    <2>3. \E p \in Procs : proc[p].pc = "cancel" /\ proc[p].claim[1] = j
      BY <1>a, <2>1
    <2> HIDE DEF j
    <2>4. /\ Release(job[j], "cancelled").state = "cancelled"
          /\ Release(job[j], "cancelled").result = job[j].result
      BY <2>1, ReleaseType DEF TypeOK, States, Terminal
    <2>5. CASE job' = job
      BY <2>2, <2>5, NoRow
    <2>6. CASE job' # job
      <3>1. Ends(j, Release(job[j], "cancelled"))
        BY <2>3, <2>4 DEF Ends
      <3> QED
        BY <2>1, <2>2, <2>6, <3>1, OneShown DEF RowStep
    <2> QED
      BY <2>5, <2>6
  <1>5. CASE Condemn(w)
    <2> DEFINE i == proc[w].target[1]
    <2>1. i \in Jobs
      BY <1>a, <1>5, ProcAt DEF Condemn, TargetPCs, Endings
    <2>2. \/ /\ job[i].state = "succeeded" /\ Invalidate({i})
             /\ job' = [job EXCEPT ![i] = [job[i] EXCEPT !.state = "failed"]]
          \/ UNCHANGED <<job, rows>>
      BY <1>5 DEF Condemn
    <2> HIDE DEF i
    <2>3. CASE UNCHANGED <<job, rows>>
      BY <2>3, NoRow
    <2>4. CASE ~UNCHANGED <<job, rows>>
      <3> DEFINE r == [job[i] EXCEPT !.state = "failed"]
      <3>1. r.state = "failed" /\ r.result = job[i].result
        BY <2>1 DEF TypeOK, Job
      <3>2. job' = [job EXCEPT ![i] = r] /\ job[i].state = "succeeded" /\ Invalidate({i})
        BY <2>2, <2>4
      <3> HIDE DEF r
      <3> QED
        BY <2>1, <3>1, <3>2, OneHidden
    <2> QED
      BY <2>3, <2>4
  <1> QED
    BY <1>1, <1>2, <1>3, <1>4, <1>5 DEF Finish

\* Recording an ending.
LEMMA RecordRows ==
    ASSUME TypeOK, NEW p \in Procs, Record(p), NEW k \in Jobs
    PROVE  RowStep(k)
  <1>1. CASE WriteEnding(p)
    BY <1>1, NoRow DEF WriteEnding
  <1>2. CASE RecordEnding(p)
    <2> DEFINE j == proc[p].target[1]
    <2>1. /\ proc[p].pc = "row" /\ job' = job /\ evidence' = evidence
          /\ manifest' = [manifest EXCEPT ![j] = IF final[j] # NoBundle
                                                   THEN final[j].manifest ELSE @]
      BY <1>2 DEF RecordEnding
    <2>2. CASE k = j
      BY <2>1, <2>2 DEF TypeOK, RowStep, Records
    <2>3. CASE k # j
      <3>1. manifest'[k] = manifest[k]
        BY <2>1, <2>3 DEF TypeOK
      <3> QED
        BY <2>1, <3>1, SameShown DEF RowStep
    <2> QED
      BY <2>2, <2>3
  <1> QED
    BY <1>1, <1>2 DEF Record

\* Executors.
LEMMA ExecutorRows ==
    ASSUME TypeOK, NEW j \in Jobs, NEW t \in Tokens, Executor(j, t), NEW k \in Jobs
    PROVE  RowStep(k)
  <1>a. job[j] \in Job
    BY DEF TypeOK
  <1>1. CASE BeginPublish(j, t)
    <2> DEFINE r == [job[j] EXCEPT !.state = "publishing"]
    <2>1. r.state = "publishing" /\ r.result = job[j].result
      BY <1>a DEF Job
    <2>2. UNCHANGED rows /\ (job' = [job EXCEPT ![j] = r] \/ job' = job)
      BY <1>1 DEF BeginPublish
    <2> HIDE DEF r
    <2>3. Ends(j, r)
      BY <2>1 DEF Ends
    <2> QED
      BY <2>2, <2>3, OneShown, NoRow DEF RowStep
  <1>2. CASE Finalize(j, t) /\ MayFinalize(j, t)
    <2>1. /\ job' = [job EXCEPT ![j].state = "finalizing", ![j].result = t]
          /\ evidence' = [evidence EXCEPT ![j] = TRUE]
          /\ manifest' = [manifest EXCEPT ![j] = IF HasBundle(j) THEN Success(t) ELSE @]
          /\ executor[j][t] = "publishing"
          /\ job[j].state = "publishing" /\ job[j].token = t
      BY <1>2 DEF Finalize, MayFinalize, Exec
    <2>2. CASE k = j
      <3>1. job'[j].state = "finalizing" /\ job'[j].result = t
        BY <2>1 DEF TypeOK, Job
      <3>2. /\ evidence'[j] = TRUE
            /\ manifest'[j] = IF HasBundle(j) THEN Success(t) ELSE manifest[j]
        BY <2>1 DEF TypeOK
      <3> QED
        BY <2>1, <2>2, <3>1, <3>2 DEF RowStep, Shows
    <2>3. CASE k # j
      <3>1. job'[k] = job[k] /\ evidence'[k] = evidence[k] /\ manifest'[k] = manifest[k]
        BY <2>1, <2>3 DEF TypeOK
      <3> QED
        BY <3>1, SameShown DEF RowStep
    <2> QED
      BY <2>2, <2>3
  <1>3. CASE Finalize(j, t) /\ ~MayFinalize(j, t)
    BY <1>3, NoRow DEF Finalize
  <1>4. CASE \/ AssertRunning(j, t) \/ Stage(j, t) \/ Publish(j, t)
             \/ ExecutorDies(j, t) \/ OrphanStops(j, t)
    <2>1. UNCHANGED <<job, rows>>
      BY <1>4 DEF AssertRunning, Stage, Publish, ExecutorDies, OrphanStops
    <2> QED
      BY <2>1, NoRow
  <1> QED
    BY <1>1, <1>2, <1>3, <1>4 DEF Executor

\* The steps that leave every state that shows or ends a job.
LEMMA OtherRows ==
    ASSUME TypeOK, UNCHANGED rows, NEW k \in Jobs,
           \/ Request \/ \E w \in Workers : Execute(w)
           \/ \E j \in Jobs : LeaseExpires(j)
    PROVE  RowStep(k)
  <1>1. ASSUME NEW j \in Jobs, NEW r, job' = [job EXCEPT ![j] = r],
               r.result = job[j].result,
               \/ r.state = job[j].state
               \/ r.state \in {"queued", "running", "cancelling"}
               \/ r.state = "cancelled" /\ job[j].state = "queued"
        PROVE  RowStep(k)
    <2>1. Ends(j, r)
      BY <1>1 DEF Ends
    <2> QED
      BY <1>1, <2>1, OneShown DEF RowStep
  <1>2. CASE job' = job
    BY <1>2, NoRow
  <1>3. CASE Request
    <2> PICK j \in Jobs : \/ Enqueue(j) \/ CancelRunning(j)
                          \/ \E c \in Clients : CancelQueued(c, j)
      BY <1>3 DEF Request
    <2>a. job[j] \in Job
      BY DEF TypeOK
    <2>1. CASE Enqueue(j)
      <3> DEFINE r == [job[j] EXCEPT !.state = "queued"]
      <3>1. r.state = "queued" /\ r.result = job[j].result
        BY <2>a DEF Job
      <3>2. job' = [job EXCEPT ![j] = r]
        BY <2>1 DEF Enqueue
      <3> HIDE DEF r
      <3> QED
        BY <1>1, <3>1, <3>2
    <2>2. CASE CancelRunning(j)
      <3> DEFINE r == [job[j] EXCEPT !.state = "cancelling", !.cancel = TRUE]
      <3>1. r.state = "cancelling" /\ r.result = job[j].result
        BY <2>a DEF Job
      <3>2. job' = [job EXCEPT ![j] = r]
        BY <2>2 DEF CancelRunning
      <3> HIDE DEF r
      <3> QED
        BY <1>1, <3>1, <3>2
    <2>3. CASE \E c \in Clients : CancelQueued(c, j)
      <3> DEFINE r == [Release(job[j], "cancelled") EXCEPT !.cancel = TRUE]
      <3>1. Release(job[j], "cancelled") \in Job
            /\ Release(job[j], "cancelled").state = "cancelled"
            /\ Release(job[j], "cancelled").result = job[j].result
        BY <2>a, ReleaseType DEF States, Terminal
      <3>2. r.state = "cancelled" /\ r.result = job[j].result
        BY <3>1 DEF Job
      <3>3. job' = [job EXCEPT ![j] = r] /\ job[j].state = "queued"
        BY <2>3 DEF CancelQueued
      <3> HIDE DEF r
      <3> QED
        BY <1>1, <3>2, <3>3
    <2> QED
      BY <2>1, <2>2, <2>3
  <1>4. ASSUME NEW w \in Workers, Execute(w) PROVE RowStep(k)
    <2>1. CASE ClaimOldest(w)
      <3> PICK j \in Queued : job' = [job EXCEPT ![j] = [job[j] EXCEPT
                        !.state = "running", !.token = issued[j] + 1,
                        !.attempt = job[j].attempt + 1, !.lease = "live"]]
        BY <2>1 DEF ClaimOldest
      <3> DEFINE r == [job[j] EXCEPT !.state = "running", !.token = issued[j] + 1,
                         !.attempt = job[j].attempt + 1, !.lease = "live"]
      <3>1. j \in Jobs /\ job[j] \in Job
        BY DEF Queued, TypeOK
      <3>2. r.state = "running" /\ r.result = job[j].result
        BY <3>1 DEF Job
      <3>3. job' = [job EXCEPT ![j] = r]
        OBVIOUS
      <3> HIDE DEF r
      <3> QED
        BY <1>1, <3>1, <3>2, <3>3
    <2>2. CASE Heartbeat(w)
      <3> DEFINE j == proc[w].claim[1]
      <3>1. j \in Jobs
        BY <2>2, ProcAt DEF Heartbeat, ClaimPCs, Procs
      <3>2. job' = [job EXCEPT ![j] = [job[j] EXCEPT !.lease = "live"]]
        BY <2>2 DEF Heartbeat
      <3> HIDE DEF j
      <3> DEFINE r == [job[j] EXCEPT !.lease = "live"]
      <3>3. r.state = job[j].state /\ r.result = job[j].result
        BY <3>1 DEF TypeOK, Job
      <3>4. job' = [job EXCEPT ![j] = r]
        BY <3>2
      <3> HIDE DEF r
      <3> QED
        BY <1>1, <3>1, <3>3, <3>4
    <2>3. CASE ~(ClaimOldest(w) \/ Heartbeat(w))
      BY <1>2, <1>4, <2>3 DEF Execute, NothingToClaim, LoseLease, LimitExceeded,
                              Reap, ChildExited
    <2> QED
      BY <2>1, <2>2, <2>3
  <1>5. ASSUME NEW j \in Jobs, LeaseExpires(j) PROVE RowStep(k)
    <2> DEFINE r == [job[j] EXCEPT !.lease = "expired"]
    <2>1. r.state = job[j].state /\ r.result = job[j].result
      BY DEF TypeOK, Job
    <2>2. job' = [job EXCEPT ![j] = r]
      BY <1>5 DEF LeaseExpires
    <2> HIDE DEF r
    <2> QED
      BY <1>1, <2>1, <2>2
  <1> QED
    BY <1>3, <1>4, <1>5

\* Whatever happens, each job shows, hides, records or keeps what is visible.
LEMMA RowSteps ==
    ASSUME TypeOK, [Next]_vars, NEW k \in Jobs
    PROVE  RowStep(k)
  <1>1. CASE Request
    <2>1. UNCHANGED rows
      BY <1>1 DEF Request, Enqueue, CancelRunning, CancelQueued
    <2> QED
      BY <1>1, <2>1, OtherRows
  <1>2. ASSUME NEW w \in Workers, Recover(w) PROVE RowStep(k)
    <2>1. CASE Sweep(w)
      BY <2>1, SweepRows
    <2>2. CASE Condemn(w)
      BY <2>2, FinishRows
    <2>3. CASE \/ SettleClaim(w) \/ RemoveStale(w) \/ ScanTerminal(w)
               \/ RecordNext(w) \/ ScanPublished(w) \/ VerifySucceeded(w)
      <3>1. UNCHANGED <<job, rows>>
        BY <2>3 DEF SettleClaim, RemoveStale, ScanTerminal, RecordNext,
                    ScanPublished, VerifySucceeded
      <3> QED
        BY <3>1, NoRow
    <2> QED
      BY <1>2, <2>1, <2>2, <2>3 DEF Recover
  <1>3. ASSUME NEW w \in Workers, Finish(w) PROVE RowStep(k)
    BY <1>3, FinishRows
  <1>4. ASSUME NEW w \in Workers, Execute(w) PROVE RowStep(k)
    <2>1. UNCHANGED rows
      BY <1>4 DEF Execute, ClaimOldest, NothingToClaim, Heartbeat, LoseLease,
                  LimitExceeded, Reap, ChildExited
    <2> QED
      BY <1>4, <2>1, OtherRows
  <1>5. ASSUME NEW p \in Procs, Record(p) PROVE RowStep(k)
    BY <1>5, RecordRows
  <1>6. ASSUME NEW j \in Jobs, NEW t \in Tokens, Executor(j, t) PROVE RowStep(k)
    BY <1>6, ExecutorRows
  <1>7. CASE Fault
    <2>1. UNCHANGED rows
      BY <1>7 DEF Fault, Crash, Restart, LeaseExpires, DamageFinal, DamageStaged
    <2>2. job' = job \/ \E j \in Jobs : LeaseExpires(j)
      BY <1>7 DEF Fault, Crash, Restart, DamageFinal, DamageStaged
    <2> QED
      BY <2>1, <2>2, OtherRows, NoRow
  <1>8. CASE UNCHANGED vars
    BY <1>8, NoRow DEF vars, rows
  <1> QED
    BY <1>1, <1>2, <1>3, <1>4, <1>5, <1>6, <1>7, <1>8 DEF Next
-----------------------------------------------------------------------------
(* Jobs of an older release stay without claims *)

\* The claims of a process after a step come from its claims, from a queued or
\* from a finalizing job.
LEMMA NewClaims ==
    ASSUME TypeOK, [Next]_vars, NEW p \in Procs
    PROVE  /\ ClaimFrom(p, proc'[p].claim)
           /\ \A c \in proc'[p].finalizing : SettleFrom(p, c)
  <1>1. CASE proc'[p] = proc[p]
    BY <1>1 DEF ClaimFrom, SettleFrom
  <1>2. CASE ProcStep(p)
    BY <1>2, ClaimSources
  <1> QED
    BY <1>1, <1>2, OneProcess

LEMMA LegacyIdleStays ==
    ASSUME TypeOK, CancelSticks, LegacyIdle, [Next]_vars
    PROVE  LegacyIdle'
  <1> SUFFICES ASSUME NEW j \in Legacy
               PROVE  /\ job'[j].state \in {"publishing", "succeeded", "failed"}
                      /\ \A t \in Tokens : executor'[j][t] = "none"
                      /\ \A p \in Procs : /\ proc'[p].claim[1] # j
                                          /\ \A c \in proc'[p].finalizing : c[1] # j
    BY DEF LegacyIdle
  <1>a. /\ j \in Jobs /\ job[j].state \in {"publishing", "succeeded", "failed"}
        /\ \A t \in Tokens : executor[j][t] = "none"
        /\ \A p \in Procs : /\ proc[p].claim[1] # j
                            /\ \A c \in proc[p].finalizing : c[1] # j
    BY LegacyAssumption DEF LegacyIdle
  <1>1. job'[j].state \in {"publishing", "succeeded", "failed"}
    <2>1. job[j].cancel => job[j].state = "failed"
      BY <1>a DEF CancelSticks
    <2>2. StateMove(job[j], job'[j])
      BY <1>a, JobMoves DEF Move
    <2>3. job'[j].state = "finalizing" => job[j].state = "finalizing"
      BY <1>a, RowSteps DEF RowStep, Shows, Hides, Records, Shown, Ends
    <2> QED
      BY <1>a, <2>1, <2>2, <2>3 DEF StateMove, Leased
  <1>2. ASSUME NEW t \in Tokens PROVE executor'[j][t] = "none"
    <2>1. ~Executor(j, t)
      BY <1>a DEF Executor, AssertRunning, Stage, BeginPublish, Finalize, Publish,
                  ExecutorDies, OrphanStops, Orphan, Exec, Running
    <2> QED
      BY <1>a, <2>1, ExecutorSources DEF Running
  <1>3. ASSUME NEW p \in Procs
        PROVE  proc'[p].claim[1] # j /\ \A c \in proc'[p].finalizing : c[1] # j
    <2>1. NoClaim[1] # j
      BY <1>a DEF NoClaim, Jobs
    <2> QED
      BY <1>a, <2>1, NewClaims DEF ClaimFrom, SettleFrom
  <1> QED
    BY <1>1, <1>2, <1>3

LEMMA LegacyIdleFirst == Init => LegacyIdle
  <1> SUFFICES ASSUME Init, NEW j \in Legacy
               PROVE  /\ job[j].state \in {"publishing", "succeeded", "failed"}
                      /\ \A t \in Tokens : executor[j][t] = "none"
                      /\ \A p \in Procs : /\ proc[p].claim[1] # j
                                          /\ \A c \in proc[p].finalizing : c[1] # j
    BY DEF LegacyIdle
  <1>1. j \in Jobs
    BY LegacyAssumption
  <1>2. job[j].state = "publishing" /\ \A t \in Tokens : executor[j][t] = "none"
    BY <1>1 DEF Init, LegacyJob
  <1>3. ASSUME NEW p \in Procs
        PROVE  proc[p].claim[1] # j /\ \A c \in proc[p].finalizing : c[1] # j
    BY <1>1 DEF Init, Idle, NoClaim, Jobs
  <1> QED
    BY <1>2, <1>3

-----------------------------------------------------------------------------
(* Evidence rows and the verdict *)

\* The converse of EvidenceOfSuccessOnly: a job shows its evidence from
\* finalize on, until it fails.
EvidenceShown ==
    \A j \in Jobs : job[j].state \in {"finalizing", "succeeded"} => evidence[j]

EvidenceInv == LegacyIdle /\ EvidenceOfSuccessOnly /\ EvidenceShown

\* Neither is inductive without LegacyIdle: a claim of a job in PUBLISHING that
\* an older release left could fail it and leave its evidence.
LEMMA EvidenceInvStays ==
    ASSUME TypeOK, CancelSticks, EvidenceInv, [Next]_vars
    PROVE  EvidenceInv'
  <1>1. LegacyIdle'
    BY LegacyIdleStays DEF EvidenceInv
  <1>2. ASSUME NEW j \in Jobs, evidence'[j]
        PROVE  \/ job'[j].state \in {"finalizing", "succeeded"}
               \/ j \in Legacy /\ job'[j].state = "publishing"
    <2>1. evidence[j] => \/ job[j].state \in {"finalizing", "succeeded"}
                         \/ j \in Legacy /\ job[j].state = "publishing"
      BY DEF EvidenceInv, EvidenceOfSuccessOnly
    <2>2. StateMove(job[j], job'[j]) /\ RowStep(j)
      BY JobMoves, RowSteps DEF Move
    <2>3. CASE Shows(j)
      BY <2>3 DEF Shows
    <2>4. CASE Hides(j)
      BY <1>2, <2>4 DEF Hides
    <2>5. CASE Records(j)
      BY <1>2, <2>1, <2>5 DEF Records
    <2>6. CASE Shown(j)
      <3>1. evidence[j] /\ Ends(j, job'[j])
        BY <1>2, <2>6 DEF Shown
      <3>2. CASE job[j].state \in {"finalizing", "succeeded"}
        BY <2>2, <3>1, <3>2 DEF StateMove, Ends, Leased
      <3>3. CASE j \in Legacy /\ job[j].state = "publishing"
        <4>1. job'[j].state # "failed"
          BY <3>1, <3>3 DEF Ends, EvidenceInv, LegacyIdle
        <4> QED
          BY <1>1, <3>3, <4>1 DEF LegacyIdle
      <3> QED
        BY <2>1, <3>1, <3>2, <3>3
    <2> QED
      BY <2>2, <2>3, <2>4, <2>5, <2>6 DEF RowStep
  <1>3. ASSUME NEW j \in Jobs, job'[j].state \in {"finalizing", "succeeded"}
        PROVE  evidence'[j]
    <2>1. job[j].state \in {"finalizing", "succeeded"} => evidence[j]
      BY DEF EvidenceInv, EvidenceShown
    <2>2. RowStep(j)
      BY RowSteps
    <2> QED
      BY <1>3, <2>1, <2>2 DEF RowStep, Shows, Hides, Records, Shown, Ends, LegacyComplete
  <1> QED
    BY <1>1, <1>2, <1>3 DEF EvidenceInv, EvidenceOfSuccessOnly, EvidenceShown

\* Always EvidenceInv.
LEMMA EvidenceInvAlways == Spec => []EvidenceInv
  <1>1. Init => EvidenceInv
    <2> SUFFICES ASSUME Init PROVE EvidenceInv
      OBVIOUS
    <2>1. ASSUME NEW j \in Jobs
          PROVE  /\ evidence[j] <=> j \in Legacy
                 /\ job[j] = IF j \in Legacy THEN LegacyJob ELSE NewJob
      BY DEF Init
    <2>2. LegacyJob.state = "publishing" /\ NewJob.state = "absent"
      BY DEF LegacyJob, NewJob
    <2>3. EvidenceOfSuccessOnly /\ EvidenceShown
      BY <2>1, <2>2 DEF EvidenceOfSuccessOnly, EvidenceShown
    <2> QED
      BY <2>3, LegacyIdleFirst DEF EvidenceInv
  <1> QED
    BY <1>1, EvidenceInvStays, TypeCorrect, CancellationIsFinal, PTL DEF Spec

\* Evidence rows exist only while their job is being finalized or has
\* succeeded, for every number of workers, crashes, lost leases and damaged
\* bundles: every way a job fails after finalize takes them back in the same
\* transaction.
THEOREM EvidenceMeansSuccess == Spec => []EvidenceOfSuccessOnly
  <1>1. EvidenceInv => EvidenceOfSuccessOnly
    BY DEF EvidenceInv
  <1> QED
    BY <1>1, EvidenceInvAlways, PTL
-----------------------------------------------------------------------------
(* Attempts and requests to cancel *)

\* A job that waits may be started again.
AttemptsLeft ==
    \A j \in Jobs : job[j].state \in {"absent", "queued"} => job[j].attempt < MaxAttempts

LEMMA AttemptsLeftAlways == Spec => []AttemptsLeft
  <1>1. Init => AttemptsLeft
    <2> SUFFICES ASSUME Init, NEW j \in Jobs, job[j].state \in {"absent", "queued"}
                 PROVE  job[j].attempt < MaxAttempts
      BY DEF AttemptsLeft
    <2>1. job[j] = NewJob
      BY DEF Init, LegacyJob
    <2> QED
      BY <2>1, BoundsAssumption DEF NewJob
  <1>2. TypeOK /\ AttemptsLeft /\ [Next]_vars => AttemptsLeft'
    <2> SUFFICES ASSUME TypeOK, AttemptsLeft, [Next]_vars, NEW j \in Jobs,
                        job'[j].state \in {"absent", "queued"}
                 PROVE  job'[j].attempt < MaxAttempts
      BY DEF AttemptsLeft
    <2>1. Move(job[j], job'[j])
      BY JobMoves
    <2>2. job'[j].attempt = job[j].attempt /\ job[j].attempt < MaxAttempts
      BY <2>1 DEF Move, StateMove, AttemptsLeft
    <2> QED
      BY <2>2
  <1> QED
    BY <1>1, <1>2, TypeCorrect, PTL DEF Spec

\* Process p ends its claim, or is about to, as cancelled.
EndsCancelled(p) ==
    proc[p].pc = "cancel" \/ (proc[p].pc = "reaping" /\ proc[p].back = "cancel")

\* Whoever is about to cancel a job was asked to: the worker that saw the flag,
\* the executor that ended with code 130, the worker that reads this code.
CancelAsked ==
    /\ \A j \in Jobs : job[j].state \in {"cancelling", "cancelled"} => job[j].cancel
    /\ \A j \in Jobs : \A t \in Tokens : executor[j][t] = "exit130" => job[j].cancel
    /\ \A p \in Procs : EndsCancelled(p) => job[proc[p].claim[1]].cancel

LEMMA CancelStays ==
    ASSUME TypeOK, [Next]_vars, NEW j \in Jobs, job[j].cancel
    PROVE  job'[j].cancel
  BY JobMoves DEF Move, StateMove

\* Where a process that ends its claim as cancelled got that from.
LEMMA CancelSources ==
    ASSUME TypeOK, NEW p \in Procs, ProcStep(p), EndsCancelled(p)'
    PROVE  /\ proc'[p].claim = proc[p].claim /\ proc[p].claim \in Jobs \X Tokens
           /\ \/ EndsCancelled(p)
              \/ job[proc[p].claim[1]].cancel
              \/ job[proc[p].claim[1]].state = "cancelling"
              \/ executor[proc[p].claim[1]][proc[p].claim[2]] = "exit130"
  <1>a. proc[p] \in Proc /\ proc \in [Procs -> Proc]
    BY DEF TypeOK
  <1>b. proc[p].pc \in ClaimPCs => proc[p].claim \in Jobs \X Tokens
    BY ProcAt
  <1> DEFINE c == proc[p].claim
  <1>c. proc'[p].pc \in {"cancel", "reaping"} /\ (proc'[p].pc = "reaping" => proc'[p].back = "cancel")
    BY DEF EndsCancelled
  <1>1. CASE Heartbeat(p) /\ proc'[p].pc = "reaping"
    <2>1. proc[p].pc = "executing"
      BY <1>1 DEF Heartbeat
    <2>2. \/ /\ job[c[1]].cancel
             /\ proc' = [proc EXCEPT ![p] = [proc[p] EXCEPT !.pc = "reaping", !.back = "cancel"]]
          \/ proc' = proc
      BY <1>1 DEF Heartbeat
    <2>3. proc'[p].claim = c
      BY <2>2, <1>a DEF Proc
    <2>4. job[c[1]].cancel
      BY <2>1, <2>2, <1>1
    <2>5. c \in Jobs \X Tokens
      BY <2>1, <1>b DEF ClaimPCs
    <2>6. proc'[p].claim = c /\ c \in Jobs \X Tokens
      BY <2>3, <2>5
    <2> QED
      BY <2>4, <2>6, Zenon
  <1>2. CASE LoseLease(p) /\ proc'[p].pc = "reaping"
    <2>1. \/ proc' = [proc EXCEPT ![p] = [proc[p] EXCEPT !.pc = "reaping", !.back = "poll"]]
          \/ proc' = [proc EXCEPT ![p] = [proc[p] EXCEPT !.pc = "draining"]]
      BY <1>2 DEF LoseLease, Goto
    <2>2. proc'[p].pc = "draining" \/ proc'[p].back = "poll"
      BY <2>1, <1>a DEF Proc
    <2>3. FALSE
      BY <2>2, <1>2, <1>c
    <2> QED
      BY <2>3
  <1>3. CASE LimitExceeded(p) /\ proc'[p].pc = "reaping"
    <2>1. proc' = [proc EXCEPT ![p] = [proc[p] EXCEPT !.pc = "reaping", !.back = "fail"]]
      BY <1>3 DEF LimitExceeded
    <2>2. proc'[p].back = "fail"
      BY <2>1, <1>a DEF Proc
    <2>3. FALSE
      BY <2>2, <1>3, <1>c
    <2> QED
      BY <2>3
  <1>4. ASSUME NEW outcome, outcome # "poll" => proc[p].pc \in ClaimPCs,
               proc' = [proc EXCEPT ![p] = [proc[p] EXCEPT
                          !.pc = outcome, !.back = "poll",
                          !.claim = IF outcome = "poll" THEN NoClaim ELSE proc[p].claim]]
        PROVE  outcome = "cancel" /\ proc'[p].claim = c /\ c \in Jobs \X Tokens
    <2>1. proc'[p].pc = outcome /\ proc'[p].back = "poll"
          /\ proc'[p].claim = IF outcome = "poll" THEN NoClaim ELSE c
      BY <1>4, <1>a DEF Proc
    <2> QED
      BY <1>4, <2>1, <1>b, <1>c
  <1>5. CASE Reap(p) /\ proc'[p].pc = "cancel"
    <2>1. proc[p].pc = "reaping"
      BY <1>5 DEF Reap
    <2>2. PICK outcome \in {proc[p].back, "fail"} :
            proc' = [proc EXCEPT ![p] = [proc[p] EXCEPT
                       !.pc = outcome, !.back = "poll",
                       !.claim = IF outcome = "poll" THEN NoClaim ELSE proc[p].claim]]
      BY <1>5 DEF Reap
    <2>3. outcome = "cancel" /\ proc'[p].claim = c /\ c \in Jobs \X Tokens
      BY <2>1, <2>2, <1>4 DEF ClaimPCs
    <2> QED
      BY <2>1, <2>3 DEF EndsCancelled
  <1>6. CASE ChildExited(p) /\ proc'[p].pc = "cancel"
    <2>1. proc[p].pc \in {"executing", "draining"}
      BY <1>6 DEF ChildExited
    <2>2. PICK outcome \in {AfterExit(c, Child(p)), "fail"} :
            proc' = [proc EXCEPT ![p] = [proc[p] EXCEPT
                       !.pc = outcome, !.back = "poll",
                       !.claim = IF outcome = "poll" THEN NoClaim ELSE proc[p].claim]]
      BY <1>6 DEF ChildExited
    <2>3. outcome = "cancel" /\ proc'[p].claim = c /\ c \in Jobs \X Tokens
      BY <2>1, <2>2, <1>4 DEF ClaimPCs
    <2>4. AfterExit(c, Child(p)) = "cancel"
      BY <2>2, <2>3
    <2>5. Child(p) = "exit130" \/ job[c[1]].state = "cancelling"
      BY <2>4 DEF AfterExit
    <2> QED
      BY <2>3, <2>5 DEF Child
  <1> QED
    BY <1>1, <1>2, <1>3, <1>5, <1>6, <1>c, PcSources DEF Led, QuietPCs, Returning

LEMMA CancelAskedStays ==
    ASSUME TypeOK, CancelAsked, [Next]_vars
    PROVE  CancelAsked'
  <1>1. ASSUME NEW j \in Jobs, job'[j].state \in {"cancelling", "cancelled"}
        PROVE  job'[j].cancel
    <2>1. StateMove(job[j], job'[j]) /\ RowStep(j)
      BY JobMoves, RowSteps DEF Move
    <2>2. CASE job[j].cancel
      BY <2>2, CancelStays
    <2>3. CASE ~job[j].cancel /\ Shown(j)
      <3>1. job[j].state \notin {"cancelling", "cancelled"}
        BY <2>3 DEF CancelAsked
      <3>2. ~(\E p \in Procs : proc[p].pc = "cancel" /\ proc[p].claim[1] = j)
        BY <2>3 DEF CancelAsked, EndsCancelled
      <3>3. job'[j].state = "cancelled" => job[j].state = "queued"
        BY <2>3, <3>1, <3>2 DEF Shown, Ends
      <3> QED
        BY <1>1, <2>1, <2>3, <3>1, <3>3 DEF StateMove
    <2>4. CASE ~job[j].cancel /\ Records(j)
      BY <1>1, <2>4 DEF Records, CancelAsked
    <2> QED
      BY <1>1, <2>1, <2>2, <2>3, <2>4 DEF RowStep, Shows, Hides
  <1>2. ASSUME NEW j \in Jobs, NEW t \in Tokens, executor'[j][t] = "exit130"
        PROVE  job'[j].cancel
    <2>1. CASE executor[j][t] = "exit130"
      BY <2>1, CancelStays DEF CancelAsked
    <2>2. CASE executor[j][t] # "exit130"
      <3>a. executor \in [Jobs -> [Tokens -> {"none"} \union Running \union Exited]]
        BY DEF TypeOK
      <3>1. Executor(j, t)
        BY <1>2, <2>2, ExecutorSources
      <3>2. CASE AssertRunning(j, t)
        <4>1. executor'[j][t] =
                CASE job[j].cancel \/ job[j].state = "cancelling" -> "exit130"
                  [] ~job[j].cancel /\ job[j].state = "running" /\ job[j].token = t
                       -> "computing"
                  [] OTHER -> "exit75"
          BY <3>2, <3>a DEF AssertRunning, Exec
        <4>2. job[j].cancel \/ job[j].state = "cancelling"
          BY <4>1, <1>2
        <4> QED
          BY <4>2, CancelStays DEF CancelAsked
      <3>3. CASE BeginPublish(j, t)
        <4>1. executor'[j][t] \in {"publishing", "exit75"} \/ job[j].cancel
          BY <3>3, <3>a DEF BeginPublish, Exec
        <4> QED
          BY <4>1, <1>2, CancelStays
      <3>4. CASE Stage(j, t) \/ Publish(j, t) \/ ExecutorDies(j, t) \/ OrphanStops(j, t)
                   \/ Finalize(j, t)
        <4>1. \E to \in {"staged", "exit0", "error", "killed", "finalized", "exit75"} :
                 executor' = [executor EXCEPT ![j][t] = to]
          BY <3>4 DEF Stage, Publish, ExecutorDies, OrphanStops, Finalize, Exec
        <4> QED
          BY <4>1, <3>a, <1>2
      <3> QED
        BY <3>1, <3>2, <3>3, <3>4 DEF Executor
    <2> QED
      BY <2>1, <2>2
  <1>3. ASSUME NEW p \in Procs, EndsCancelled(p)'
        PROVE  job'[proc'[p].claim[1]].cancel
    <2>1. CASE proc'[p] = proc[p]
      <3>1. EndsCancelled(p)
        BY <1>3, <2>1 DEF EndsCancelled
      <3>2. proc[p].claim[1] \in Jobs
        BY <3>1, ProcAt DEF EndsCancelled, ClaimPCs
      <3> QED
        BY <2>1, <3>1, <3>2, CancelStays DEF CancelAsked
    <2>2. CASE ProcStep(p)
      <3>1. /\ proc'[p].claim = proc[p].claim
            /\ proc[p].claim[1] \in Jobs /\ proc[p].claim[2] \in Tokens
            /\ \/ EndsCancelled(p)
               \/ job[proc[p].claim[1]].cancel
               \/ job[proc[p].claim[1]].state = "cancelling"
               \/ executor[proc[p].claim[1]][proc[p].claim[2]] = "exit130"
        BY <1>3, <2>2, CancelSources
      <3>2. job[proc[p].claim[1]].cancel
        BY <3>1 DEF CancelAsked
      <3> QED
        BY <3>1, <3>2, CancelStays
    <2> QED
      BY <2>1, <2>2, OneProcess
  <1> QED
    BY <1>1, <1>2, <1>3 DEF CancelAsked, EndsCancelled

LEMMA CancelAskedAlways == Spec => []CancelAsked
  <1>1. Init => CancelAsked
    <2> SUFFICES ASSUME Init PROVE CancelAsked
      OBVIOUS
    <2>1. \A j \in Jobs : job[j].state \in {"publishing", "absent"}
      BY DEF Init, LegacyJob, NewJob
    <2>2. \A j \in Jobs : \A t \in Tokens : executor[j][t] = "none"
      BY DEF Init
    <2>3. \A p \in Procs : proc[p].pc = "poll"
      BY DEF Init, Idle
    <2> QED
      BY <2>1, <2>2, <2>3 DEF CancelAsked, EndsCancelled
  <1> QED
    BY <1>1, CancelAskedStays, TypeCorrect, PTL DEF Spec
-----------------------------------------------------------------------------
(* The refinement *)

LEMMA PhaseOf ==
    /\ Phase("absent") = "absent" /\ Phase("queued") = "waiting"
    /\ Phase("running") = "working" /\ Phase("cancelling") = "working"
    /\ Phase("publishing") = "committing" /\ Phase("finalizing") = "committing"
    /\ Phase("succeeded") = "succeeded" /\ Phase("failed") = "failed"
    /\ Phase("cancelled") = "cancelled"
  BY DEF Phase

\* Each job takes a step of its lifecycle or rests, whatever the step of the
\* queue: a sweep moves several jobs, most steps move none.
LEMMA StepSeen ==
    ASSUME TypeOK, CancelSticks, EvidenceInv, EvidenceInv', AttemptsLeft,
           CancelAsked', [Next]_vars, NEW j \in Jobs
    PROVE  Lifecycle!Step(j) \/ Lifecycle!Rests(j)
  <1> DEFINE r == job[j]
             s == job'[j]
  <1>1. /\ StateMove(r, s)
        /\ s.attempt = IF r.state = "queued" /\ s.state = "running"
                         THEN r.attempt + 1 ELSE r.attempt
    BY JobMoves DEF Move
  <1>2. RowStep(j)
    BY RowSteps
  <1>3. evidence[j] \in BOOLEAN /\ r.state \in States
    BY DEF TypeOK, Job
  <1>4. /\ r.state \in {"finalizing", "succeeded"} => evidence[j]
        /\ s.state \in {"finalizing", "succeeded"} => evidence'[j]
        /\ r.state \in {"absent", "queued", "running", "cancelling", "failed", "cancelled"}
             => ~evidence[j]
        /\ s.state \in {"absent", "queued", "running", "cancelling", "failed", "cancelled"}
             => ~evidence'[j]
    BY DEF EvidenceInv, EvidenceShown, EvidenceOfSuccessOnly
  <1>5. r.state \in {"queued", "absent"} => r.attempt < MaxAttempts
    BY DEF AttemptsLeft
  <1>6. /\ r.cancel => r.state \in {"cancelling", "cancelled", "failed"}
        /\ s.state \in {"cancelling", "cancelled"} => s.cancel
    BY DEF CancelSticks, CancelAsked
  <1>7. s.state \notin {"finalizing", "failed"} => evidence'[j] = evidence[j]
    BY <1>2 DEF RowStep, Shows, Hides, Records, Shown
  <1> HIDE DEF r, s
  <1>8. CASE s.state = r.state /\ s.cancel = r.cancel
    <2>1. evidence'[j] = evidence[j]
      <3>1. CASE s.state \in {"failed", "finalizing"}
        <4>1. evidence'[j] \in BOOLEAN
          BY NextType DEF TypeOK
        <4> QED
          BY <3>1, <1>3, <1>4, <1>8, <4>1
      <3> QED
        BY <3>1, <1>7
    <2>2. s.attempt = r.attempt
      BY <1>1, <1>8
    <2> QED
      BY <2>1, <2>2, <1>8 DEF r, s, Lifecycle!Rests, Lifecycle!Kept
  <1>9. CASE r.state = "absent" /\ s.state = "queued" /\ s.cancel = r.cancel
    <2>1. Lifecycle!Submit(j)
      BY <1>1, <1>7, <1>9, PhaseOf DEF r, s, Lifecycle!Submit, Lifecycle!Moves, Lifecycle!Kept
    <2> QED
      BY <2>1 DEF Lifecycle!Step
  <1>10. CASE r.state = "queued" /\ s.state = "cancelled" /\ s.cancel
    <2>1. Lifecycle!Ask(j)
      BY <1>1, <1>7, <1>10, PhaseOf DEF r, s, Lifecycle!Ask, Lifecycle!Moves, Lifecycle!Kept
    <2> QED
      BY <2>1 DEF Lifecycle!Step
  <1>11. CASE r.state \in {"running", "cancelling"} /\ s.state = "cancelling" /\ s.cancel
    <2>1. Lifecycle!Ask(j)
      BY <1>1, <1>7, <1>11, PhaseOf DEF r, s, Lifecycle!Ask, Lifecycle!Moves, Lifecycle!Kept
    <2> QED
      BY <2>1 DEF Lifecycle!Step
  <1>12. CASE /\ r.state \in Leased \union {"succeeded"} /\ s.state = "failed"
              /\ s.cancel = r.cancel
    <2>1. Lifecycle!Fail(j)
      BY <1>1, <1>4, <1>12, PhaseOf
         DEF r, s, Leased, Lifecycle!Fail, Lifecycle!Moves, Lifecycle!Kept
    <2> QED
      BY <2>1 DEF Lifecycle!Step
  <1>13. CASE /\ r.state \in {"running", "cancelling"} \/ (r.state = "publishing" /\ r.cancel)
              /\ s.state = "cancelled" /\ s.cancel = r.cancel
    <2>1. Lifecycle!Cancel(j)
      BY <1>1, <1>6, <1>7, <1>13, PhaseOf
         DEF r, s, Lifecycle!Cancel, Lifecycle!Moves, Lifecycle!Kept
    <2> QED
      BY <2>1 DEF Lifecycle!Step
  <1>14. CASE /\ r.state = "running" /\ ~r.cancel /\ r.attempt < MaxAttempts
              /\ s.state = "queued" /\ ~s.cancel
    <2>1. s.cancel = r.cancel
      BY <1>14, NextType DEF r, s, TypeOK, Job
    <2>2. Lifecycle!Retry(j)
      BY <1>1, <1>7, <1>14, <2>1, PhaseOf
         DEF r, s, Lifecycle!Retry, Lifecycle!Moves, Lifecycle!Kept
    <2> QED
      BY <2>2 DEF Lifecycle!Step
  <1>15. CASE r.state = "queued" /\ ~r.cancel /\ s.state = "running" /\ ~s.cancel
    <2>1. s.cancel = r.cancel
      BY <1>15, NextType DEF r, s, TypeOK, Job
    <2>2. Lifecycle!Start(j)
      BY <1>1, <1>5, <1>7, <1>15, <2>1, PhaseOf
         DEF r, s, Lifecycle!Start, Lifecycle!Moves, Lifecycle!Kept
    <2> QED
      BY <2>2 DEF Lifecycle!Step
  <1>16. CASE r.state = "running" /\ ~r.cancel /\ s.state = "publishing" /\ ~s.cancel
    <2>1. s.cancel = r.cancel
      BY <1>16, NextType DEF r, s, TypeOK, Job
    <2>2. Lifecycle!Commit(j)
      BY <1>1, <1>7, <1>16, <2>1, PhaseOf
         DEF r, s, Lifecycle!Commit, Lifecycle!Moves, Lifecycle!Kept
    <2> QED
      BY <2>2 DEF Lifecycle!Step
  <1>17. CASE r.state = "publishing" /\ s.state = "finalizing" /\ s.cancel = r.cancel
    <2>1. Lifecycle!Show(j)
      BY <1>1, <1>4, <1>17, PhaseOf DEF r, s, Lifecycle!Show, Lifecycle!Moves, Lifecycle!Kept
    <2> QED
      BY <2>1 DEF Lifecycle!Step
  <1>18. CASE /\ r.state \in {"publishing", "finalizing"}
              /\ s.state = "succeeded" /\ s.cancel = r.cancel
    <2>1. evidence'[j] = evidence[j] /\ evidence[j]
      BY <1>4, <1>7, <1>18
    <2>2. Lifecycle!Succeed(j)
      BY <1>1, <2>1, <1>18, PhaseOf
         DEF r, s, Lifecycle!Succeed, Lifecycle!Moves, Lifecycle!Kept
    <2> QED
      BY <2>2 DEF Lifecycle!Step
  <1> QED
    BY <1>1, <1>8, <1>9, <1>10, <1>11, <1>12, <1>13, <1>14, <1>15, <1>16, <1>17, <1>18
       DEF StateMove

\* Seen through states, attempts, cancel flags and evidence rows, the queue
\* with any number of workers, executors, crashes and expired leases behaves
\* as JobLifecycle says.
THEOREM QueueImplementsLifecycle == Spec => ImplementsLifecycle
  <1>1. Init => Lifecycle!Init
    <2> SUFFICES ASSUME Init PROVE Lifecycle!Init
      OBVIOUS
    <2>1. ASSUME NEW j \in Jobs
          PROVE  /\ Phase(job[j].state) = IF j \in Legacy THEN "committing" ELSE "absent"
                 /\ job[j].attempt = IF j \in Legacy THEN 1 ELSE 0
                 /\ job[j].cancel = FALSE
      BY PhaseOf DEF Init, LegacyJob, NewJob
    <2>2. evidence = [j \in Jobs |-> j \in Legacy]
      BY DEF Init
    <2> QED
      BY <2>1, <2>2 DEF Lifecycle!Init
  <1>2. /\ TypeOK /\ CancelSticks /\ EvidenceInv /\ EvidenceInv'
        /\ AttemptsLeft /\ CancelAsked' /\ [Next]_vars
        => [Lifecycle!Next]_(Lifecycle!vars)
    BY StepSeen DEF Lifecycle!Next
  <1> QED
    BY <1>1, <1>2, TypeCorrect, CancellationIsFinal, EvidenceInvAlways,
       AttemptsLeftAlways, CancelAskedAlways, PTL
       DEF Spec, ImplementsLifecycle, Lifecycle!Spec
-----------------------------------------------------------------------------
(* Where the targets, endings and paths of a process come from *)

\* The actions that give a process a target, endings or paths to remove; every
\* other one keeps or drops them.
Given(p) ==
    /\ \/ proc'[p].target \in {proc[p].target, NoEnding}
       \/ VerifySucceeded(p) \/ FinishFailed(p) \/ FinishCancelled(p) \/ RecordNext(p)
       \/ \E j \in Jobs : CancelQueued(p, j)
    /\ \/ proc'[p].endings \in {proc[p].endings, {}}
       \/ Sweep(p) \/ ScanTerminal(p) \/ RecordNext(p)
    /\ proc'[p].stale \in {proc[p].stale, {}} \/ Sweep(p)
    /\ proc'[p].trash \in {proc[p].trash, {}} \/ Condemn(p) \/ FinishFailed(p)

\* All four are kept or dropped.
KeptOrDropped(p) ==
    /\ proc'[p].target \in {proc[p].target, NoEnding}
    /\ proc'[p].endings \in {proc[p].endings, {}}
    /\ proc'[p].stale \in {proc[p].stale, {}}
    /\ proc'[p].trash \in {proc[p].trash, {}}

LEMMA GivenBy ==
    ASSUME TypeOK, NEW p \in Procs, ProcStep(p)
    PROVE  Given(p)
  <1>a. proc[p] \in Proc /\ proc \in [Procs -> Proc]
    BY DEF TypeOK
  <1>b. /\ Idle \in Proc /\ Idle.target = NoEnding /\ Idle.endings = {}
        /\ Idle.stale = {} /\ Idle.trash = {}
    BY IdleType DEF Idle
  <1>k. ASSUME KeptOrDropped(p) PROVE Given(p)
    BY <1>k DEF Given, KeptOrDropped
  <1>1. ASSUME Return(p) PROVE Given(p)
    <2>1. KeptOrDropped(p)
      BY <1>1, <1>a DEF Return, Proc, KeptOrDropped
    <2> QED
      BY <2>1, <1>k
  <1>2. ASSUME NEW pc, Goto(p, pc) PROVE Given(p)
    <2>1. KeptOrDropped(p)
      BY <1>2, <1>a DEF Goto, Proc, KeptOrDropped
    <2> QED
      BY <2>1, <1>k
  <1>3. ASSUME NEW pc, NEW c,
               proc' = [proc EXCEPT ![p] = [Idle EXCEPT !.pc = pc, !.claim = c]]
                 \/ proc' = [proc EXCEPT ![p] = [Idle EXCEPT !.pc = pc]]
        PROVE  Given(p)
    <2>1. CASE proc' = [proc EXCEPT ![p] = [Idle EXCEPT !.pc = pc, !.claim = c]]
      <3>1. KeptOrDropped(p)
        BY <2>1, <1>a, <1>b DEF Proc, KeptOrDropped
      <3> QED
        BY <3>1, <1>k
    <2>2. CASE proc' = [proc EXCEPT ![p] = [Idle EXCEPT !.pc = pc]]
      <3>1. KeptOrDropped(p)
        BY <2>2, <1>a, <1>b DEF Proc, KeptOrDropped
      <3> QED
        BY <3>1, <1>k
    <2> QED
      BY <1>3, <2>1, <2>2
  <1>4. ASSUME NEW pc, NEW b, NEW c,
               \/ proc' = [proc EXCEPT ![p] = [proc[p] EXCEPT !.pc = pc, !.back = b]]
               \/ proc' = [proc EXCEPT ![p] = [proc[p] EXCEPT
                             !.pc = pc, !.back = b, !.claim = c]]
        PROVE  Given(p)
    <2>1. KeptOrDropped(p)
      BY <1>4, <1>a DEF Proc, KeptOrDropped
    <2> QED
      BY <2>1, <1>k
  <1>5. ASSUME Recover(p) PROVE Given(p)
    <2>1. CASE Sweep(p)
      <3>1. \E f, s, e : proc' = [proc EXCEPT ![p] = [Idle EXCEPT
              !.pc = "settle", !.finalizing = f, !.stale = s, !.endings = e]]
        BY <2>1 DEF Sweep
      <3>2. proc'[p].target = NoEnding /\ proc'[p].trash = {}
        BY <3>1, <1>a, <1>b DEF Proc
      <3> QED
        BY <3>2, <2>1 DEF Given
    <2>2. CASE SettleClaim(p)
      <3>1. \E c, f : proc' = [proc EXCEPT ![p] = [proc[p] EXCEPT
              !.pc = "promote", !.back = "settle", !.claim = c, !.finalizing = f]]
        BY <2>2 DEF SettleClaim
      <3>2. KeptOrDropped(p)
        BY <3>1, <1>a DEF Proc, KeptOrDropped
      <3> QED
        BY <3>2, <1>k
    <2>3. CASE RemoveStale(p)
      <3>1. KeptOrDropped(p)
        BY <2>3, <1>a DEF RemoveStale, Proc, KeptOrDropped
      <3> QED
        BY <3>1, <1>k
    <2>4. CASE ScanTerminal(p)
      <3>1. \E e : proc' = [proc EXCEPT ![p] = [proc[p] EXCEPT
              !.pc = "repairing", !.endings = e]]
        BY <2>4 DEF ScanTerminal
      <3>2. /\ proc'[p].target = proc[p].target /\ proc'[p].stale = proc[p].stale
            /\ proc'[p].trash = proc[p].trash
        BY <3>1, <1>a DEF Proc
      <3> QED
        BY <3>2, <2>4 DEF Given
    <2>5. CASE RecordNext(p)
      <3>1. \E b, t, e : proc' = [proc EXCEPT ![p] = [proc[p] EXCEPT
              !.pc = "bundle", !.back = b, !.target = t, !.endings = e]]
        BY <2>5 DEF RecordNext
      <3>2. proc'[p].stale = proc[p].stale /\ proc'[p].trash = proc[p].trash
        BY <3>1, <1>a DEF Proc
      <3> QED
        BY <3>2, <2>5 DEF Given
    <2>6. CASE ScanPublished(p)
      <3>1. \E v : proc' = [proc EXCEPT ![p] = [proc[p] EXCEPT
              !.pc = "verifying", !.verify = v]]
        BY <2>6 DEF ScanPublished
      <3>2. KeptOrDropped(p)
        BY <3>1, <1>a DEF Proc, KeptOrDropped
      <3> QED
        BY <3>2, <1>k
    <2>7. CASE VerifySucceeded(p)
      <3>1. \E t, v :
              \/ proc' = [proc EXCEPT ![p] = [proc[p] EXCEPT
                           !.pc = "condemn", !.back = "verifying",
                           !.target = t, !.verify = v]]
              \/ proc' = [proc EXCEPT ![p] = [proc[p] EXCEPT !.verify = v]]
        BY <2>7 DEF VerifySucceeded
      <3> DEFINE Rest == /\ proc'[p].endings = proc[p].endings
                         /\ proc'[p].stale = proc[p].stale
                         /\ proc'[p].trash = proc[p].trash
      <3>2. ASSUME NEW t, NEW v,
                   proc' = [proc EXCEPT ![p] = [proc[p] EXCEPT !.pc = "condemn",
                              !.back = "verifying", !.target = t, !.verify = v]]
            PROVE  Rest
        BY <3>2, <1>a DEF Proc
      <3>3. ASSUME NEW v, proc' = [proc EXCEPT ![p] = [proc[p] EXCEPT !.verify = v]]
            PROVE  Rest
        BY <3>3, <1>a DEF Proc
      <3> HIDE DEF Rest
      <3>4. Rest
        BY <3>1, <3>2, <3>3
      <3> QED
        BY <3>4, <2>7 DEF Given, Rest
    <2>8. CASE Condemn(p)
      <3>1. CASE Return(p)
        BY <3>1, <1>1
      <3>2. CASE ~Return(p)
        <4>1. \E s : proc' = [proc EXCEPT ![p] = [proc[p] EXCEPT !.pc = "drop", !.trash = s]]
          BY <2>8, <3>2 DEF Condemn
        <4>2. /\ proc'[p].target = proc[p].target /\ proc'[p].endings = proc[p].endings
              /\ proc'[p].stale = proc[p].stale
          BY <4>1, <1>a DEF Proc
        <4> QED
          BY <4>2, <2>8 DEF Given
      <3> QED
        BY <3>1, <3>2
    <2> QED
      BY <1>5, <2>1, <2>2, <2>3, <2>4, <2>5, <2>6, <2>7, <2>8 DEF Recover
  <1>6. ASSUME Finish(p) PROVE Given(p)
    <2>1. CASE PromoteLook(p) \/ PromoteRename(p)
      <3>1. \E pc : Goto(p, pc)
        BY <2>1 DEF PromoteLook, PromoteRename
      <3> QED
        BY <3>1, <1>2
    <2>2. CASE CommitSuccess(p)
      <3>1. Return(p) \/ proc' = [proc EXCEPT ![p] = [Idle EXCEPT !.pc = "down"]]
        BY <2>2 DEF CommitSuccess
      <3> QED
        BY <3>1, <1>1, <1>3
    <2>3. CASE FailLook(p)
      <3>1. Return(p) \/ \E s : proc' = [proc EXCEPT ![p] = [proc[p] EXCEPT
                                           !.pc = "failing", !.source = s]]
        BY <2>3 DEF FailLook
      <3>2. ASSUME NEW s, proc' = [proc EXCEPT ![p] = [proc[p] EXCEPT
                                     !.pc = "failing", !.source = s]]
            PROVE  KeptOrDropped(p)
        BY <3>2, <1>a DEF Proc, KeptOrDropped
      <3> QED
        BY <3>1, <3>2, <1>1, <1>k
    <2>4. CASE FinishFailed(p)
      <3>1. CASE Return(p)
        BY <3>1, <1>1
      <3>2. CASE ~Return(p)
        <4>1. \E t, s : proc' = [proc EXCEPT ![p] = [proc[p] EXCEPT
                !.pc = "drop", !.source = "absent", !.target = t, !.trash = s]]
          BY <2>4, <3>2 DEF FinishFailed
        <4>2. proc'[p].endings = proc[p].endings /\ proc'[p].stale = proc[p].stale
          BY <4>1, <1>a DEF Proc
        <4> QED
          BY <4>2, <2>4 DEF Given
      <3> QED
        BY <3>1, <3>2
    <2>5. CASE FinishCancelled(p)
      <3>1. CASE Return(p)
        BY <3>1, <1>1
      <3>2. CASE ~Return(p)
        <4>1. \E t : proc' = [proc EXCEPT ![p] = [proc[p] EXCEPT !.pc = "bundle", !.target = t]]
          BY <2>5, <3>2 DEF FinishCancelled
        <4>2. /\ proc'[p].endings = proc[p].endings /\ proc'[p].stale = proc[p].stale
              /\ proc'[p].trash = proc[p].trash
          BY <4>1, <1>a DEF Proc
        <4> QED
          BY <4>2, <2>5 DEF Given
      <3> QED
        BY <3>1, <3>2
    <2>6. CASE DropEvidence(p)
      <3>1. KeptOrDropped(p)
        BY <2>6, <1>a DEF DropEvidence, Proc, KeptOrDropped
      <3> QED
        BY <3>1, <1>k
    <2> QED
      BY <1>6, <2>1, <2>2, <2>3, <2>4, <2>5, <2>6 DEF Finish
  <1>7. ASSUME Execute(p) PROVE Given(p)
    <2>1. CASE ClaimOldest(p)
      <3>1. \E c : proc' = [proc EXCEPT ![p] = [Idle EXCEPT !.pc = "executing", !.claim = c]]
        BY <2>1 DEF ClaimOldest
      <3> QED
        BY <3>1, <1>3
    <2>2. CASE NothingToClaim(p)
      BY <2>2, <1>2 DEF NothingToClaim
    <2>3. CASE Heartbeat(p)
      <3>1. \/ proc' = [proc EXCEPT ![p] = [proc[p] EXCEPT !.pc = "reaping", !.back = "cancel"]]
            \/ proc' = proc
        BY <2>3 DEF Heartbeat
      <3>2. ASSUME proc' = proc PROVE Given(p)
        BY <3>2 DEF Given
      <3> QED
        BY <3>1, <3>2, <1>4
    <2>4. CASE LoseLease(p)
      <3>1. Goto(p, "draining")
            \/ proc' = [proc EXCEPT ![p] = [proc[p] EXCEPT !.pc = "reaping", !.back = "poll"]]
        BY <2>4 DEF LoseLease
      <3> QED
        BY <3>1, <1>2, <1>4
    <2>5. CASE LimitExceeded(p)
      <3>1. proc' = [proc EXCEPT ![p] = [proc[p] EXCEPT !.pc = "reaping", !.back = "fail"]]
        BY <2>5 DEF LimitExceeded
      <3> QED
        BY <3>1, <1>4
    <2>6. CASE Reap(p) \/ ChildExited(p)
      <3>1. \E outcome, c : proc' = [proc EXCEPT ![p] = [proc[p] EXCEPT
                                       !.pc = outcome, !.back = "poll", !.claim = c]]
        BY <2>6 DEF Reap, ChildExited
      <3> QED
        BY <3>1, <1>4
    <2> QED
      BY <1>7, <2>1, <2>2, <2>3, <2>4, <2>5, <2>6 DEF Execute
  <1>8. ASSUME Record(p) \/ Restart(p) PROVE Given(p)
    <2>1. Return(p) \/ \E pc : Goto(p, pc)
      BY <1>8 DEF Record, WriteEnding, RecordEnding, Restart
    <2> QED
      BY <2>1, <1>1, <1>2
  <1>9. ASSUME Crash(p) PROVE Given(p)
    <2>1. proc' = [proc EXCEPT ![p] = [Idle EXCEPT !.pc = "down"]]
      BY <1>9 DEF Crash
    <2> QED
      BY <2>1, <1>3
  <1>10. ASSUME NEW j \in Jobs, CancelQueued(p, j) PROVE Given(p)
    <2>1. \E t : proc' = [proc EXCEPT ![p] = [proc[p] EXCEPT !.pc = "bundle", !.target = t]]
      BY <1>10 DEF CancelQueued
    <2>2. /\ proc'[p].endings = proc[p].endings /\ proc'[p].stale = proc[p].stale
          /\ proc'[p].trash = proc[p].trash
      BY <2>1, <1>a DEF Proc
    <2> QED
      BY <2>2, <1>10 DEF Given
  <1> QED
    BY <1>5, <1>6, <1>7, <1>8, <1>9, <1>10 DEF ProcStep
-----------------------------------------------------------------------------
(* What one step may do to the bundles of a job *)

SameFiles(j) == final'[j] = final[j] /\ \A t \in Tokens : staging'[j][t] = staging[j][t]

\* RemoveStale or DropEvidence of some process.
Removes(j) ==
    \E p \in Procs : \E S \in {proc[p].stale, proc[p].trash} :
        /\ final'[j] = IF <<j, 0>> \in S THEN NoBundle ELSE final[j]
        /\ \A t \in Tokens :
             staging'[j][t] = IF <<j, t>> \in S THEN "none" ELSE staging[j][t]

\* The rename, by the executor or by a worker that promotes.
Renames(j) ==
    \E t \in 0..MaxTokens :
        /\ CanRename(j, t)
        /\ final'[j] = StagedBundle(j, t)
        /\ \A u \in Tokens : staging'[j][u] = IF u = t THEN "none" ELSE staging[j][u]
        /\ \/ t \in Tokens /\ executor[j][t] = "finalized"
           \/ /\ t = job[j].result
              /\ \E p \in Procs : proc[p].pc = "rename" /\ proc[p].claim[1] = j

\* A verified bundle makes the staged one redundant.
Tidies(j) ==
    /\ Verified(j) /\ job[j].state = "finalizing" /\ final'[j] = final[j]
    /\ \A t \in Tokens : staging'[j][t] \in {"none", staging[j][t]}

Stages(j) ==
    \E t \in Tokens :
        /\ executor[j][t] = "computing" /\ final'[j] = final[j]
        /\ executor' = [executor EXCEPT ![j][t] = "staged"]
        /\ \A u \in Tokens : staging'[j][u] =
             IF u = t /\ HasBundle(j) THEN "intact" ELSE staging[j][u]

\* The terminal bundle of a run that ended without success.
WritesEnding(j) ==
    /\ \E p \in Procs : /\ proc[p].pc = "bundle"
                        /\ proc[p].target = <<j, job[j].state>>
    /\ final[j] = NoBundle /\ final'[j] = Ending(job[j].state)
    /\ \A t \in Tokens : staging'[j][t] = staging[j][t]

Damages(j) ==
    /\ damages' # 0
    /\ \/ final'[j] = final[j]
       \/ final[j].intact /\ final'[j] \in {[final[j] EXCEPT !.intact = FALSE], NoBundle}

FileStep(j) == \/ SameFiles(j) \/ Removes(j) \/ Renames(j) \/ Tidies(j)
               \/ Stages(j) \/ WritesEnding(j) \/ Damages(j)

LEMMA NoFile ==
    ASSUME UNCHANGED files, NEW k \in Jobs
    PROVE  FileStep(k)
  BY DEF files, FileStep, SameFiles

LEMMA RemoveFiles ==
    ASSUME TypeOK, NEW p \in Procs, NEW S \in {proc[p].stale, proc[p].trash},
           RemovePaths(S), NEW k \in Jobs
    PROVE  FileStep(k)
  <1>1. /\ final'[k] = IF <<k, 0>> \in S THEN NoBundle ELSE final[k]
        /\ \A t \in Tokens :
             staging'[k][t] = IF <<k, t>> \in S THEN "none" ELSE staging[k][t]
    BY DEF RemovePaths
  <1> QED
    BY <1>1 DEF FileStep, Removes

LEMMA RenameFiles ==
    ASSUME TypeOK, NEW j \in Jobs, NEW t \in 0..MaxTokens, CanRename(j, t), Rename(j, t),
           \/ t \in Tokens /\ executor[j][t] = "finalized"
           \/ /\ t = job[j].result
              /\ \E p \in Procs : proc[p].pc = "rename" /\ proc[p].claim[1] = j,
           NEW k \in Jobs
    PROVE  FileStep(k)
  <1>1. CASE k = j
    <2>1. final'[j] = StagedBundle(j, t)
      BY DEF Rename, TypeOK
    <2>2. \A u \in Tokens : staging'[j][u] = IF u = t THEN "none" ELSE staging[j][u]
      BY DEF Rename, TypeOK
    <2> QED
      BY <1>1, <2>1, <2>2 DEF FileStep, Renames
  <1>2. CASE k # j
    <2>1. final'[k] = final[k] /\ \A u \in Tokens : staging'[k][u] = staging[k][u]
      BY <1>2 DEF Rename, TypeOK
    <2> QED
      BY <2>1 DEF FileStep, SameFiles
  <1> QED
    BY <1>1, <1>2

LEMMA PromoteFiles ==
    ASSUME TypeOK, NEW w \in Workers, PromoteLook(w) \/ PromoteRename(w), NEW k \in Jobs
    PROVE  FileStep(k)
  <1>a. w \in Procs
    BY DEF Procs
  <1> DEFINE j == proc[w].claim[1]
             t == job[j].result
  <1>1. CASE PromoteLook(w)
    <2>1. j \in Jobs
      BY <1>a, <1>1, ProcAt DEF PromoteLook, ClaimPCs
    <2>2. /\ final' = final
          /\ \/ staging' = staging
             \/ /\ Verified(j) /\ job[j].state = "finalizing"
                /\ staging' = [staging EXCEPT ![j][t] = "none"]
      BY <1>1 DEF PromoteLook
    <2> HIDE DEF j, t
    <2>3. CASE staging' = staging
      BY <2>2, <2>3, NoFile DEF files
    <2>4. CASE staging' # staging /\ k = j
      <3>1. \A u \in Tokens : staging'[j][u] \in {"none", staging[j][u]}
        BY <2>1, <2>2, <2>4 DEF TypeOK
      <3> QED
        BY <2>2, <2>4, <3>1 DEF FileStep, Tidies
    <2>5. CASE staging' # staging /\ k # j
      <3>1. \A u \in Tokens : staging'[k][u] = staging[k][u]
        BY <2>1, <2>2, <2>5 DEF TypeOK
      <3> QED
        BY <2>2, <3>1 DEF FileStep, SameFiles
    <2> QED
      BY <2>3, <2>4, <2>5
  <1>2. CASE PromoteRename(w)
    <2>1. j \in Jobs /\ proc[w].pc = "rename"
      BY <1>a, <1>2, ProcAt DEF PromoteRename, ClaimPCs
    <2>2. (CanRename(j, t) /\ Rename(j, t)) \/ UNCHANGED files
      BY <1>2 DEF PromoteRename
    <2>3. t \in 0..MaxTokens
      BY <2>1 DEF TypeOK, Job
    <2>4. \E p \in Procs : proc[p].pc = "rename" /\ proc[p].claim[1] = j
      BY <1>a, <2>1
    <2>5. t = job[j].result
      OBVIOUS
    <2> HIDE DEF j, t
    <2> QED
      BY <2>1, <2>2, <2>3, <2>4, <2>5, RenameFiles, NoFile
  <1> QED
    BY <1>1, <1>2

LEMMA EndingFiles ==
    ASSUME TypeOK, NEW p \in Procs, WriteEnding(p), NEW k \in Jobs
    PROVE  FileStep(k)
  <1> DEFINE j == proc[p].target[1]
             status == proc[p].target[2]
  <1>1. proc[p].pc = "bundle" /\ proc[p].target \in Endings /\ staging' = staging
    BY ProcAt DEF WriteEnding, TargetPCs
  <1>2. \/ /\ job[j].state = status
           /\ final' = [final EXCEPT ![j] = IF @ = NoBundle THEN Ending(status) ELSE @]
        \/ final' = final
    BY DEF WriteEnding
  <1>3. proc[p].target = <<j, status>> /\ j \in Jobs
    BY <1>1 DEF Endings
  <1> HIDE DEF j, status
  <1>4. CASE final' = final
    BY <1>1, <1>4, NoFile DEF files
  <1>5. CASE final' # final /\ (k # j \/ final[j] # NoBundle)
    <2>1. final'[k] = final[k]
      BY <1>2, <1>3, <1>5 DEF TypeOK
    <2> QED
      BY <1>1, <2>1 DEF FileStep, SameFiles
  <1>6. CASE final' # final /\ k = j /\ final[j] = NoBundle
    <2>1. final'[j] = Ending(status) /\ job[j].state = status
      BY <1>2, <1>3, <1>6 DEF TypeOK
    <2> QED
      BY <1>1, <1>3, <1>6, <2>1 DEF FileStep, WritesEnding
  <1> QED
    BY <1>4, <1>5, <1>6

LEMMA ExecutorFiles ==
    ASSUME TypeOK, NEW j \in Jobs, NEW t \in Tokens, Executor(j, t), NEW k \in Jobs
    PROVE  FileStep(k)
  <1>1. CASE Stage(j, t)
    <2>1. /\ staging' = [staging EXCEPT ![j][t] = IF HasBundle(j) THEN "intact" ELSE @]
          /\ final' = final /\ executor[j][t] = "computing"
          /\ executor' = [executor EXCEPT ![j][t] = "staged"]
      BY <1>1 DEF Stage, Exec
    <2>2. CASE k = j
      <3>1. \A u \in Tokens : staging'[j][u] =
              IF u = t /\ HasBundle(j) THEN "intact" ELSE staging[j][u]
        BY <2>1 DEF TypeOK
      <3> QED
        BY <2>1, <2>2, <3>1 DEF FileStep, Stages
    <2>3. CASE k # j
      <3>1. \A u \in Tokens : staging'[k][u] = staging[k][u]
        BY <2>1, <2>3 DEF TypeOK
      <3> QED
        BY <2>1, <3>1 DEF FileStep, SameFiles
    <2> QED
      BY <2>2, <2>3
  <1>2. CASE Publish(j, t)
    <2>1. /\ executor[j][t] = "finalized"
          /\ (CanRename(j, t) /\ Rename(j, t)) \/ UNCHANGED files
      BY <1>2 DEF Publish, Exec
    <2>2. t \in 0..MaxTokens
      BY BoundsAssumption DEF Tokens
    <2> QED
      BY <2>1, <2>2, RenameFiles, NoFile
  <1>3. CASE ~(Stage(j, t) \/ Publish(j, t))
    <2>1. UNCHANGED files
      BY <1>3 DEF Executor, AssertRunning, BeginPublish, Finalize, ExecutorDies,
                  OrphanStops, files
    <2> QED
      BY <2>1, NoFile
  <1> QED
    BY <1>1, <1>2, <1>3

LEMMA FaultFiles ==
    ASSUME TypeOK, Fault, NEW k \in Jobs
    PROVE  FileStep(k)
  <1>1. CASE UNCHANGED files
    BY <1>1, NoFile
  <1>2. ASSUME NEW j \in Jobs, DamageFinal(j) PROVE FileStep(k)
    <2>1. /\ final[j].intact /\ damages' = damages + 1
          /\ \E b \in {[final[j] EXCEPT !.intact = FALSE], NoBundle} :
               final' = [final EXCEPT ![j] = b]
      BY <1>2 DEF DamageFinal
    <2>2. damages' # 0
      BY <2>1 DEF TypeOK
    <2>3. \/ final'[k] = final[k]
          \/ final[k].intact /\ final'[k] \in {[final[k] EXCEPT !.intact = FALSE], NoBundle}
      <3> PICK b \in {[final[j] EXCEPT !.intact = FALSE], NoBundle} :
             final' = [final EXCEPT ![j] = b]
        BY <2>1
      <3>1. CASE k = j
        <4>1. final'[j] = b
          BY DEF TypeOK
        <4> QED
          BY <2>1, <3>1, <4>1
      <3>2. CASE k # j
        <4>1. final'[k] = final[k]
          BY <3>2 DEF TypeOK
        <4> QED
          BY <4>1
      <3> QED
        BY <3>1, <3>2
    <2> QED
      BY <2>2, <2>3 DEF FileStep, Damages
  <1>3. ASSUME NEW j \in Jobs, NEW t \in Tokens, DamageStaged(j, t) PROVE FileStep(k)
    <2>1. final' = final /\ damages' = damages + 1
      BY <1>3 DEF DamageStaged
    <2>2. damages' # 0
      BY <2>1 DEF TypeOK
    <2> QED
      BY <2>1, <2>2 DEF FileStep, Damages
  <1>4. UNCHANGED files \/ \E j \in Jobs : DamageFinal(j) \/ \E t \in Tokens : DamageStaged(j, t)
    BY DEF Fault, Crash, Restart, LeaseExpires, files
  <1> QED
    BY <1>1, <1>2, <1>3, <1>4

\* Whatever happens, the bundles of a job change in one of these ways.
LEMMA FileSteps ==
    ASSUME TypeOK, [Next]_vars, NEW k \in Jobs
    PROVE  FileStep(k)
  <1>a. Workers \subseteq Procs
    BY DEF Procs
  <1>1. CASE Request \/ (\E w \in Workers : Execute(w)) \/ UNCHANGED vars
    <2>1. UNCHANGED files
      BY <1>1 DEF Request, Enqueue, CancelRunning, CancelQueued, Execute, ClaimOldest,
                  NothingToClaim, Heartbeat, LoseLease, LimitExceeded, Reap, ChildExited,
                  vars, files
    <2> QED
      BY <2>1, NoFile
  <1>2. ASSUME NEW w \in Workers, Recover(w) PROVE FileStep(k)
    <2>1. CASE RemoveStale(w)
      <3>1. RemovePaths(proc[w].stale)
        BY <2>1 DEF RemoveStale
      <3> QED
        BY <3>1, <1>a, RemoveFiles
    <2>2. CASE ~RemoveStale(w)
      <3>1. UNCHANGED files
        BY <1>2, <2>2 DEF Recover, Sweep, SettleClaim, ScanTerminal, RecordNext,
                          ScanPublished, VerifySucceeded, Condemn
      <3> QED
        BY <3>1, NoFile
    <2> QED
      BY <2>1, <2>2
  <1>3. ASSUME NEW w \in Workers, Finish(w) PROVE FileStep(k)
    <2>1. CASE DropEvidence(w)
      <3>1. RemovePaths(proc[w].trash)
        BY <2>1 DEF DropEvidence
      <3> QED
        BY <3>1, <1>a, RemoveFiles
    <2>2. CASE PromoteLook(w) \/ PromoteRename(w)
      BY <2>2, PromoteFiles
    <2>3. CASE CommitSuccess(w) \/ FailLook(w) \/ FinishFailed(w) \/ FinishCancelled(w)
      <3>1. UNCHANGED files
        BY <2>3 DEF CommitSuccess, FailLook, FinishFailed, FinishCancelled
      <3> QED
        BY <3>1, NoFile
    <2> QED
      BY <1>3, <2>1, <2>2, <2>3 DEF Finish
  <1>4. ASSUME NEW p \in Procs, Record(p) PROVE FileStep(k)
    <2>1. CASE RecordEnding(p)
      BY <2>1, NoFile DEF RecordEnding
    <2> QED
      BY <1>4, <2>1, EndingFiles DEF Record
  <1>5. ASSUME NEW j \in Jobs, NEW t \in Tokens, Executor(j, t) PROVE FileStep(k)
    BY <1>5, ExecutorFiles
  <1> QED
    BY <1>1, <1>2, <1>3, <1>4, <1>5, FaultFiles DEF Next
-----------------------------------------------------------------------------
(* What one step may do to a lease token *)

\* A token stays while its row stays leased, and goes with the lease.
KeepsToken(j, r) ==
    \/ r.token = job[j].token /\ (r.state \in Leased <=> job[j].state \in Leased)
    \/ r.token = 0 /\ r.state \notin Leased

\* A fresh token: a claim, or the takeover of a job that is being finalized.
FreshToken(j) ==
    /\ issued'[j] = issued[j] + 1 /\ job'[j].token = issued[j] + 1
    /\ \/ job[j].state = "finalizing" /\ job'[j].state = "finalizing"
       \/ /\ job[j].state = "queued" /\ job'[j].state = "running"
          /\ executor'[j][issued[j] + 1] = "starting"

TokenStep(j) == \/ issued'[j] = issued[j] /\ KeepsToken(j, job'[j])
                \/ FreshToken(j)

LEMMA SameToken ==
    ASSUME NEW j \in Jobs, issued' = issued,
           job'[j].state = job[j].state, job'[j].token = job[j].token
    PROVE  TokenStep(j)
  BY DEF TokenStep, KeepsToken

LEMMA OneToken ==
    ASSUME TypeOK, issued' = issued, NEW j \in Jobs, NEW r, KeepsToken(j, r),
           job' = [job EXCEPT ![j] = r], NEW k \in Jobs
    PROVE  TokenStep(k)
  <1>1. CASE k = j
    BY <1>1 DEF TypeOK, TokenStep
  <1>2. CASE k # j
    <2>1. job'[k] = job[k]
      BY <1>2 DEF TypeOK
    <2> QED
      BY <2>1, SameToken
  <1> QED
    BY <1>1, <1>2

LEMMA ReleasedToken ==
    ASSUME TypeOK, issued' = issued, NEW j \in Jobs, NEW state \in States \ Leased,
           job' = [job EXCEPT ![j] = Release(@, state)], NEW k \in Jobs
    PROVE  TokenStep(k)
  <1>1. Release(job[j], state).token = 0 /\ Release(job[j], state).state = state
    BY DEF TypeOK, Job, Release
  <1>2. KeepsToken(j, Release(job[j], state))
    BY <1>1 DEF KeepsToken
  <1> QED
    BY <1>2, OneToken

\* A row whose state and token are set explicitly.
LEMMA WrittenToken ==
    ASSUME TypeOK, issued' = issued, NEW j \in Jobs, NEW r,
           job' = [job EXCEPT ![j] = r], r.token = job[j].token,
           r.state \in Leased <=> job[j].state \in Leased, NEW k \in Jobs
    PROVE  TokenStep(k)
  BY OneToken DEF KeepsToken

LEMMA SweepTokens ==
    ASSUME TypeOK, NEW w \in Workers, Sweep(w), NEW j \in Jobs
    PROVE  TokenStep(j)
  <1> DEFINE taken == {i \in Jobs : PassedOn(i)}
             freed == {i \in Jobs : Stale(i) /\ ~PassedOn(i)}
  <1>a. job[j] \in Job
    BY DEF TypeOK
  <1>b. /\ job' = [k \in Jobs |->
             IF k \in taken
               THEN [job[k] EXCEPT !.token = issued[k] + 1, !.lease = "live"]
               ELSE IF k \in freed THEN Release(job[k], RecoveryTarget(k)) ELSE job[k]]
        /\ issued' = [k \in Jobs |-> IF k \in taken THEN issued[k] + 1 ELSE issued[k]]
    BY DEF Sweep
  <1>1. CASE j \in taken
    <2>1. job'[j] = [job[j] EXCEPT !.token = issued[j] + 1, !.lease = "live"]
          /\ issued'[j] = issued[j] + 1 /\ job[j].state = "finalizing"
      BY <1>1, <1>b DEF PassedOn
    <2>2. job'[j].token = issued[j] + 1 /\ job'[j].state = "finalizing"
      BY <2>1, <1>a DEF Job
    <2> QED
      BY <2>1, <2>2 DEF TokenStep, FreshToken
  <1>2. CASE j \notin taken /\ j \in freed
    <2>1. job'[j] = Release(job[j], RecoveryTarget(j)) /\ issued'[j] = issued[j]
      BY <1>2, <1>b
    <2>2. job'[j].token = 0 /\ job'[j].state = RecoveryTarget(j)
      BY <2>1, <1>a DEF Job, Release
    <2>3. RecoveryTarget(j) \notin Leased
      BY RecoveryTargets DEF Leased
    <2> QED
      BY <2>1, <2>2, <2>3 DEF TokenStep, KeepsToken
  <1>3. CASE j \notin taken /\ j \notin freed
    <2>1. job'[j] = job[j] /\ issued'[j] = issued[j]
      BY <1>3, <1>b
    <2> QED
      BY <2>1 DEF TokenStep, KeepsToken
  <1> QED
    BY <1>1, <1>2, <1>3

LEMMA WorkerTokens ==
    ASSUME TypeOK, NEW w \in Workers, Finish(w) \/ Condemn(w) \/ Execute(w), NEW k \in Jobs
    PROVE  TokenStep(k)
  <1>a. w \in Procs
    BY DEF Procs
  <1>b. {"succeeded", "failed", "cancelled"} \subseteq States \ Leased
    BY DEF States, Terminal, Leased
  <1> DEFINE j == proc[w].claim[1]
  <1>0. ASSUME UNCHANGED <<job, issued>> PROVE TokenStep(k)
    BY <1>0, SameToken
  <1>1. CASE CommitSuccess(w) \/ FinishFailed(w) \/ FinishCancelled(w)
    <2>1. j \in Jobs
      BY <1>a, <1>1, ProcAt DEF CommitSuccess, FinishFailed, FinishCancelled, ClaimPCs
    <2>2. /\ issued' = issued
          /\ \/ job' = job
             \/ \E state \in {"succeeded", "failed", "cancelled"} :
                  job' = [job EXCEPT ![j] = Release(@, state)]
      BY <1>1 DEF CommitSuccess, FinishFailed, FinishCancelled
    <2> HIDE DEF j
    <2> QED
      BY <1>0, <1>b, <2>1, <2>2, ReleasedToken
  <1>2. CASE Condemn(w)
    <2> DEFINE i == proc[w].target[1]
    <2>1. i \in Jobs
      BY <1>a, <1>2, ProcAt DEF Condemn, TargetPCs, Endings
    <2>2. /\ issued' = issued
          /\ \/ job' = job
             \/ /\ job[i].state = "succeeded"
                /\ job' = [job EXCEPT ![i] = [job[i] EXCEPT !.state = "failed"]]
      BY <1>2 DEF Condemn
    <2> HIDE DEF i
    <2> DEFINE r == [job[i] EXCEPT !.state = "failed"]
    <2>3. r.state = "failed" /\ r.token = job[i].token
      BY <2>1 DEF TypeOK, Job
    <2>4. \/ job' = job
          \/ job[i].state = "succeeded" /\ job' = [job EXCEPT ![i] = r]
      BY <2>2
    <2> HIDE DEF r
    <2> QED
      BY <1>0, <2>1, <2>2, <2>3, <2>4, WrittenToken DEF Leased
  <1>3. CASE Heartbeat(w)
    <2>1. j \in Jobs
      BY <1>a, <1>3, ProcAt DEF Heartbeat, ClaimPCs
    <2>2. issued' = issued /\ job' = [job EXCEPT ![j] = [job[j] EXCEPT !.lease = "live"]]
      BY <1>3 DEF Heartbeat
    <2> HIDE DEF j
    <2> DEFINE r == [job[j] EXCEPT !.lease = "live"]
    <2>3. r.state = job[j].state /\ r.token = job[j].token
      BY <2>1 DEF TypeOK, Job
    <2>4. job' = [job EXCEPT ![j] = r]
      BY <2>2
    <2> HIDE DEF r
    <2> QED
      BY <2>1, <2>2, <2>3, <2>4, WrittenToken
  <1>4. CASE ClaimOldest(w)
    <2> PICK i \in Queued :
           /\ issued[i] < MaxTokens
           /\ job' = [job EXCEPT ![i] = [job[i] EXCEPT
                      !.state = "running", !.token = issued[i] + 1,
                      !.attempt = job[i].attempt + 1, !.lease = "live"]]
           /\ issued' = [issued EXCEPT ![i] = @ + 1]
           /\ executor' = [executor EXCEPT ![i][issued[i] + 1] = "starting"]
      BY <1>4 DEF ClaimOldest
    <2>1. i \in Jobs /\ job[i].state = "queued" /\ issued[i] \in 0..MaxTokens
      BY DEF Queued, TypeOK
    <2>2. CASE k = i
      <3>1. job'[i].state = "running" /\ job'[i].token = issued[i] + 1
        BY <2>1 DEF TypeOK, Job
      <3>2. issued'[i] = issued[i] + 1
        BY <2>1 DEF TypeOK
      <3>3. executor'[i][issued[i] + 1] = "starting"
        <4>1. issued[i] + 1 \in Tokens
          BY <2>1, BoundsAssumption DEF Tokens
        <4> DEFINE n == issued[i] + 1
        <4>2. executor' = [executor EXCEPT ![i][n] = "starting"] /\ n \in Tokens
          BY <4>1
        <4> HIDE DEF n
        <4>3. executor'[i][n] = "starting"
          BY <4>2, <2>1 DEF TypeOK
        <4> QED
          BY <4>3 DEF n
      <3> QED
        BY <2>1, <2>2, <3>1, <3>2, <3>3 DEF TokenStep, FreshToken
    <2>3. CASE k # i
      <3>1. job'[k] = job[k] /\ issued'[k] = issued[k]
        BY <2>1, <2>3 DEF TypeOK
      <3> QED
        BY <3>1 DEF TokenStep, KeepsToken
    <2> QED
      BY <2>2, <2>3
  <1>5. CASE \/ PromoteLook(w) \/ PromoteRename(w) \/ FailLook(w) \/ DropEvidence(w)
             \/ NothingToClaim(w) \/ LoseLease(w) \/ LimitExceeded(w) \/ Reap(w)
             \/ ChildExited(w)
    BY <1>0, <1>5 DEF PromoteLook, PromoteRename, FailLook, DropEvidence, NothingToClaim,
                      LoseLease, LimitExceeded, Reap, ChildExited
  <1> QED
    BY <1>1, <1>2, <1>3, <1>4, <1>5 DEF Finish, Execute

LEMMA RequestTokens ==
    ASSUME TypeOK, Request, NEW k \in Jobs
    PROVE  TokenStep(k)
  <1> PICK j \in Jobs : \/ Enqueue(j) \/ CancelRunning(j)
                        \/ \E c \in Clients : CancelQueued(c, j)
    BY DEF Request
  <1>a. job[j] \in Job
    BY DEF TypeOK
  <1>1. CASE Enqueue(j)
    <2> DEFINE r == [job[j] EXCEPT !.state = "queued"]
    <2>1. r.state = "queued" /\ r.token = job[j].token
      BY <1>a DEF Job
    <2>2. job' = [job EXCEPT ![j] = r] /\ job[j].state = "absent" /\ issued' = issued
      BY <1>1 DEF Enqueue
    <2> HIDE DEF r
    <2> QED
      BY <2>1, <2>2, WrittenToken DEF Leased
  <1>2. CASE CancelRunning(j)
    <2> DEFINE r == [job[j] EXCEPT !.state = "cancelling", !.cancel = TRUE]
    <2>1. r.state = "cancelling" /\ r.token = job[j].token
      BY <1>a DEF Job
    <2>2. /\ job' = [job EXCEPT ![j] = r] /\ issued' = issued
          /\ job[j].state \in {"running", "cancelling"}
      BY <1>2 DEF CancelRunning
    <2> HIDE DEF r
    <2> QED
      BY <2>1, <2>2, WrittenToken DEF Leased
  <1>3. CASE \E c \in Clients : CancelQueued(c, j)
    <2> DEFINE r == [Release(job[j], "cancelled") EXCEPT !.cancel = TRUE]
    <2>1. r.state = "cancelled" /\ r.token = 0
      BY <1>a DEF Job, Release
    <2>2. job' = [job EXCEPT ![j] = r] /\ issued' = issued
      BY <1>3 DEF CancelQueued
    <2> HIDE DEF r
    <2>3. KeepsToken(j, r)
      BY <2>1 DEF KeepsToken, Leased
    <2> QED
      BY <2>2, <2>3, OneToken
  <1> QED
    BY <1>1, <1>2, <1>3

LEMMA ExecutorTokens ==
    ASSUME TypeOK, NEW j \in Jobs, NEW t \in Tokens, Executor(j, t), NEW k \in Jobs
    PROVE  TokenStep(k)
  <1>a. job[j] \in Job
    BY DEF TypeOK
  <1>0. ASSUME UNCHANGED <<job, issued>> PROVE TokenStep(k)
    BY <1>0, SameToken
  <1>1. CASE BeginPublish(j, t)
    <2> DEFINE r == [job[j] EXCEPT !.state = "publishing"]
    <2>1. r.state = "publishing" /\ r.token = job[j].token
      BY <1>a DEF Job
    <2>2. /\ issued' = issued
          /\ job' = job \/ (job' = [job EXCEPT ![j] = r] /\ job[j].state = "running")
      BY <1>1 DEF BeginPublish, MayPublish
    <2> HIDE DEF r
    <2> QED
      BY <1>0, <2>1, <2>2, WrittenToken DEF Leased
  <1>2. CASE Finalize(j, t)
    <2> DEFINE r == [job[j] EXCEPT !.state = "finalizing", !.result = t]
    <2>1. r.state = "finalizing" /\ r.token = job[j].token
      BY <1>a DEF Job
    <2>2. /\ issued' = issued
          /\ job' = job \/ (job' = [job EXCEPT ![j] = r] /\ job[j].state = "publishing")
      BY <1>2 DEF Finalize, MayFinalize
    <2> HIDE DEF r
    <2> QED
      BY <1>0, <2>1, <2>2, WrittenToken DEF Leased
  <1>3. CASE \/ AssertRunning(j, t) \/ Stage(j, t) \/ Publish(j, t)
             \/ ExecutorDies(j, t) \/ OrphanStops(j, t)
    BY <1>0, <1>3 DEF AssertRunning, Stage, Publish, ExecutorDies, OrphanStops
  <1> QED
    BY <1>1, <1>2, <1>3 DEF Executor

LEMMA TokenSteps ==
    ASSUME TypeOK, [Next]_vars, NEW k \in Jobs
    PROVE  TokenStep(k)
  <1>0. ASSUME UNCHANGED <<job, issued>> PROVE TokenStep(k)
    BY <1>0, SameToken
  <1>1. ASSUME NEW w \in Workers, Recover(w) PROVE TokenStep(k)
    <2>1. CASE ~(Sweep(w) \/ Condemn(w))
      BY <1>0, <1>1, <2>1 DEF Recover, SettleClaim, RemoveStale, ScanTerminal, RecordNext,
                              ScanPublished, VerifySucceeded
    <2> QED
      BY <2>1, SweepTokens, WorkerTokens
  <1>2. CASE Fault
    <2>1. ASSUME NEW j \in Jobs, LeaseExpires(j) PROVE TokenStep(k)
      <3> DEFINE r == [job[j] EXCEPT !.lease = "expired"]
      <3>1. r.state = job[j].state /\ r.token = job[j].token
        BY DEF TypeOK, Job
      <3>2. job' = [job EXCEPT ![j] = r] /\ issued' = issued
        BY <2>1 DEF LeaseExpires
      <3> HIDE DEF r
      <3> QED
        BY <3>1, <3>2, WrittenToken
    <2>2. UNCHANGED <<job, issued>> \/ \E j \in Jobs : LeaseExpires(j)
      BY <1>2 DEF Fault, Crash, Restart, DamageFinal, DamageStaged
    <2> QED
      BY <1>0, <2>1, <2>2
  <1>3. ASSUME NEW p \in Procs, Record(p) PROVE TokenStep(k)
    BY <1>0, <1>3 DEF Record, WriteEnding, RecordEnding
  <1>4. CASE UNCHANGED vars
    BY <1>0, <1>4 DEF vars
  <1> QED
    BY <1>1, <1>2, <1>3, <1>4, RequestTokens, WorkerTokens, ExecutorTokens DEF Next
-----------------------------------------------------------------------------
(* Tokens, results and the targets of processes *)

\* A row is leased exactly while it has a token, and no token or result is
\* newer than the last one issued.
TokenInv ==
    \A j \in Jobs :
        /\ job[j].token <= issued[j] /\ job[j].result <= issued[j]
        /\ job[j].state \in Leased <=> job[j].token # 0

LEMMA TokenInvStays ==
    ASSUME TypeOK, TokenInv, [Next]_vars
    PROVE  TokenInv'
  <1> SUFFICES ASSUME NEW j \in Jobs
               PROVE  /\ job'[j].token <= issued'[j] /\ job'[j].result <= issued'[j]
                      /\ job'[j].state \in Leased <=> job'[j].token # 0
    BY DEF TokenInv
  <1>a. /\ issued[j] \in Nat /\ job[j].token \in Nat /\ job[j].result \in Nat
        /\ issued'[j] \in Nat /\ job'[j].token \in Nat /\ job'[j].result \in Nat
    BY NextType DEF TypeOK, Job
  <1>b. /\ job[j].token <= issued[j] /\ job[j].result <= issued[j]
        /\ job[j].state \in Leased <=> job[j].token # 0
    BY DEF TokenInv
  <1>1. issued'[j] \in {issued[j], issued[j] + 1}
    BY TokenSteps DEF TokenStep, FreshToken
  <1>2. job'[j].result \in {job[j].result, job[j].token}
    <2>1. CASE Shows(j)
      BY <2>1 DEF Shows
    <2>2. CASE Hides(j) \/ Records(j) \/ Shown(j)
      BY <2>2 DEF Hides, Records, Shown, Ends
    <2> QED
      BY <2>1, <2>2, RowSteps DEF RowStep
  <1>3. job'[j].result <= issued'[j]
    BY <1>a, <1>b, <1>1, <1>2
  <1>4. /\ job'[j].token <= issued'[j]
        /\ job'[j].state \in Leased <=> job'[j].token # 0
    <2>1. CASE issued'[j] = issued[j] /\ KeepsToken(j, job'[j])
      BY <2>1, <1>a, <1>b DEF KeepsToken
    <2>2. CASE FreshToken(j)
      BY <2>2, <1>a DEF FreshToken, Leased
    <2> QED
      BY <2>1, <2>2, TokenSteps DEF TokenStep
  <1> QED
    BY <1>3, <1>4

\* A process that is to record an ending works on a job that ended that way;
\* one that condemns a job, on a job that succeeded.
EndedTargets ==
    \A p \in Procs :
        /\ proc[p].pc \in {"drop", "bundle", "row"} =>
             job[proc[p].target[1]].state = proc[p].target[2]
        /\ proc[p].pc = "condemn" =>
             /\ job[proc[p].target[1]].state \in {"succeeded", "failed"}
             /\ proc[p].target[2] = "failed"
        /\ \A e \in proc[p].endings : job[e[1]].state = e[2]

\* An ending that held before the step holds after it.
LEMMA EndingStays ==
    ASSUME TypeOK, [Next]_vars, NEW e \in Endings, job[e[1]].state = e[2]
    PROVE  job'[e[1]].state = e[2]
  BY EndedStays DEF Endings

LEMMA NewEndings ==
    ASSUME TypeOK, EndedTargets, [Next]_vars, NEW p \in Procs, ProcStep(p),
           NEW e \in proc'[p].endings
    PROVE  job'[e[1]].state = e[2]
  <1>a. /\ proc[p] \in Proc /\ proc \in [Procs -> Proc] /\ Idle \in Proc
        /\ proc[p].endings \subseteq Endings
    BY IdleType DEF TypeOK, Proc
  <1>b. \A d \in proc[p].endings : job[d[1]].state = d[2]
    BY DEF EndedTargets
  <1>1. CASE e \in proc[p].endings
    BY <1>1, <1>a, <1>b, EndingStays
  <1>2. CASE Sweep(p)
    <2> DEFINE freed == {j \in Jobs : Stale(j) /\ ~PassedOn(j)}
               E == {d \in Endings : d[1] \in freed /\ d[2] = RecoveryTarget(d[1])}
    <2>1. \E f, s : proc' = [proc EXCEPT ![p] = [Idle EXCEPT
                      !.pc = "settle", !.finalizing = f, !.stale = s, !.endings = E]]
      BY <1>2 DEF Sweep
    <2> HIDE DEF E
    <2>2. proc'[p].endings = E
      BY <2>1, <1>a DEF Proc
    <2> USE DEF E
    <2>3. e[1] \in freed /\ e[2] = RecoveryTarget(e[1])
      BY <2>2
    <2> DEFINE j == e[1]
    <2>4. j \in freed /\ ~PassedOn(j) /\ j \in Jobs
      BY <2>3
    <2>5. job'[j] = Release(job[j], RecoveryTarget(j))
      BY <1>2, <2>4 DEF Sweep
    <2> HIDE DEF j
    <2>6. job'[j].state = RecoveryTarget(j)
      BY <2>4, <2>5 DEF TypeOK, Job, Release
    <2> QED
      BY <2>3, <2>6 DEF j
  <1>3. CASE ScanTerminal(p)
    <2> DEFINE E == {d \in Endings : Unrecorded(d)}
    <2>1. proc' = [proc EXCEPT ![p] = [proc[p] EXCEPT !.pc = "repairing", !.endings = E]]
      BY <1>3 DEF ScanTerminal
    <2> HIDE DEF E
    <2>2. proc'[p].endings = E
      BY <2>1, <1>a DEF Proc
    <2>3. e \in Endings /\ job[e[1]].state = e[2]
      BY <2>2 DEF E, Unrecorded
    <2> QED
      BY <2>3, EndingStays
  <1>4. CASE RecordNext(p)
    <2> PICK d \in proc[p].endings : proc' = [proc EXCEPT ![p] = [proc[p] EXCEPT
            !.pc = "bundle", !.back = proc[p].pc, !.target = d,
            !.endings = proc[p].endings \ {d}]]
      BY <1>4 DEF RecordNext
    <2> DEFINE E == proc[p].endings \ {d}
    <2>1. proc' = [proc EXCEPT ![p] = [proc[p] EXCEPT
            !.pc = "bundle", !.back = proc[p].pc, !.target = d, !.endings = E]]
      OBVIOUS
    <2> HIDE DEF E
    <2>2. proc'[p].endings = E
      BY <2>1, <1>a DEF Proc
    <2> QED
      BY <1>1, <2>2 DEF E
  <1> QED
    BY <1>1, <1>2, <1>3, <1>4, GivenBy DEF Given

LEMMA NewTargets ==
    ASSUME TypeOK, EndedTargets, [Next]_vars, NEW p \in Procs, ProcStep(p),
           proc'[p].pc \in {"drop", "bundle", "row"}
    PROVE  job'[proc'[p].target[1]].state = proc'[p].target[2]
  <1>a. /\ proc[p] \in Proc /\ proc \in [Procs -> Proc] /\ proc[p].endings \subseteq Endings
        /\ proc[p].pc \in TargetPCs => proc[p].target \in Endings
        /\ proc[p].pc \in ClaimPCs => proc[p].claim[1] \in Jobs
    BY ProcAt DEF TypeOK, Proc
  <1>b. proc'[p].target \in Endings
    BY NextType DEF TypeOK, LocalsOK, TargetPCs
  <1>c. NoEnding \notin Endings
    BY DEF NoEnding, Endings, Jobs
  <1>0. ASSUME proc[p].pc \in {"drop", "bundle", "row"}, proc'[p].target = proc[p].target
        PROVE  job'[proc'[p].target[1]].state = proc'[p].target[2]
    <2>1. job[proc[p].target[1]].state = proc[p].target[2] /\ proc[p].target \in Endings
      BY <1>0, <1>a DEF EndedTargets, TargetPCs
    <2> QED
      BY <2>1, <1>0, EndingStays
  <1>1. CASE DropEvidence(p) \/ WriteEnding(p)
    <2>1. proc[p].pc \in {"drop", "bundle"}
      BY <1>1 DEF DropEvidence, WriteEnding
    <2>2. proc'[p].target \in {proc[p].target, NoEnding}
      <3>1. CASE DropEvidence(p)
        BY <3>1, <1>a DEF DropEvidence, Proc
      <3>2. CASE WriteEnding(p) /\ Return(p)
        BY <3>2, <1>a DEF Return, Proc
      <3>3. CASE WriteEnding(p) /\ ~Return(p)
        <4>1. Goto(p, "row")
          BY <3>3 DEF WriteEnding
        <4> QED
          BY <4>1, <1>a DEF Goto, Proc
      <3> QED
        BY <1>1, <3>1, <3>2, <3>3
    <2> QED
      BY <2>1, <2>2, <1>0, <1>b, <1>c
  <1>2. CASE Condemn(p) /\ proc'[p].pc = "drop"
    <2> DEFINE j == proc[p].target[1]
    <2>a. proc[p].pc = "condemn" /\ proc[p].target \in Endings /\ j \in Jobs
      BY <1>2, <1>a DEF Condemn, TargetPCs, Endings
    <2>1. CASE Return(p)
      <3>1. proc'[p].target = NoEnding
        BY <2>1, <1>a DEF Return, Proc
      <3> QED
        BY <3>1, <1>b, <1>c
    <2>2. CASE ~Return(p)
      <3>1. /\ job' = [job EXCEPT ![j].state = "failed"]
            /\ \E s : proc' = [proc EXCEPT ![p] = [proc[p] EXCEPT !.pc = "drop", !.trash = s]]
        BY <1>2, <2>2 DEF Condemn
      <3>2. proc'[p].target = proc[p].target
        BY <3>1, <1>a DEF Proc
      <3>3. job'[j].state = "failed"
        BY <3>1, <2>a DEF TypeOK, Job
      <3> QED
        BY <3>2, <3>3, <2>a DEF EndedTargets
    <2> QED
      BY <2>1, <2>2
  <1>3. CASE FinishFailed(p) \/ FinishCancelled(p)
    <2> DEFINE j == proc[p].claim[1]
    <2>a. j \in Jobs
      BY <1>3, <1>a DEF FinishFailed, FinishCancelled, ClaimPCs
    <2>1. CASE Return(p)
      <3>1. proc'[p].target = NoEnding
        BY <2>1, <1>a DEF Return, Proc
      <3> QED
        BY <3>1, <1>b, <1>c
    <2>2. CASE ~Return(p)
      <3> DEFINE S == IF proc[p].source = "finalizing" THEN EvidencePaths(j) ELSE {}
      <3>1. \/ /\ job' = [job EXCEPT ![j] = Release(@, "failed")]
               /\ proc' = [proc EXCEPT ![p] = [proc[p] EXCEPT
                    !.pc = "drop", !.source = "absent", !.target = <<j, "failed">>,
                    !.trash = S]]
            \/ /\ job' = [job EXCEPT ![j] = Release(@, "cancelled")]
               /\ proc' = [proc EXCEPT ![p] = [proc[p] EXCEPT
                    !.pc = "bundle", !.target = <<j, "cancelled">>]]
        <4>1. CASE FinishFailed(p)
          BY <4>1, <2>2 DEF FinishFailed
        <4>2. CASE FinishCancelled(p)
          BY <4>2, <2>2 DEF FinishCancelled
        <4> QED
          BY <1>3, <4>1, <4>2
      <3> HIDE DEF j, S
      <3>2. \E state \in {"failed", "cancelled"} :
              /\ job' = [job EXCEPT ![j] = Release(@, state)]
              /\ proc'[p].target = <<j, state>>
        <4>1. CASE /\ job' = [job EXCEPT ![j] = Release(@, "failed")]
                   /\ proc' = [proc EXCEPT ![p] = [proc[p] EXCEPT
                        !.pc = "drop", !.source = "absent", !.target = <<j, "failed">>,
                        !.trash = S]]
          <5>1. proc'[p].target = <<j, "failed">>
            BY <4>1, <1>a DEF Proc
          <5> QED
            BY <4>1, <5>1
        <4>2. CASE /\ job' = [job EXCEPT ![j] = Release(@, "cancelled")]
                   /\ proc' = [proc EXCEPT ![p] = [proc[p] EXCEPT
                        !.pc = "bundle", !.target = <<j, "cancelled">>]]
          <5>1. proc'[p].target = <<j, "cancelled">>
            BY <4>2, <1>a DEF Proc
          <5> QED
            BY <4>2, <5>1
        <4> QED
          BY <3>1, <4>1, <4>2
      <3>3. PICK state \in {"failed", "cancelled"} :
              /\ job' = [job EXCEPT ![j] = Release(@, state)]
              /\ proc'[p].target = <<j, state>>
        BY <3>2
      <3>4. job'[j].state = state
        BY <3>3, <2>a DEF TypeOK, Job, Release
      <3> QED
        BY <3>3, <3>4
    <2> QED
      BY <2>1, <2>2
  <1>4. CASE RecordNext(p)
    <2> PICK e \in proc[p].endings : proc' = [proc EXCEPT ![p] = [proc[p] EXCEPT
            !.pc = "bundle", !.back = proc[p].pc, !.target = e,
            !.endings = proc[p].endings \ {e}]]
      BY <1>4 DEF RecordNext
    <2> DEFINE E == proc[p].endings \ {e}
    <2>1. proc' = [proc EXCEPT ![p] = [proc[p] EXCEPT
            !.pc = "bundle", !.back = proc[p].pc, !.target = e, !.endings = E]]
      OBVIOUS
    <2> HIDE DEF E
    <2>2. proc'[p].target \in proc[p].endings
      BY <2>1, <1>a DEF Proc
    <2>3. job[proc'[p].target[1]].state = proc'[p].target[2]
      BY <2>2 DEF EndedTargets
    <2> QED
      BY <2>3, <1>b, EndingStays
  <1>5. ASSUME NEW j \in Jobs, CancelQueued(p, j)
        PROVE  job'[proc'[p].target[1]].state = proc'[p].target[2]
    <2>1. proc'[p].target = <<j, "cancelled">>
      BY <1>5, <1>a DEF CancelQueued, Proc
    <2>2. job'[j].state = "cancelled"
      BY <1>5 DEF CancelQueued, TypeOK, Job, Release
    <2> QED
      BY <2>1, <2>2
  <1> QED
    BY <1>1, <1>2, <1>3, <1>4, <1>5, PcSources DEF Led, QuietPCs, Returning
LEMMA EndedTargetsStays ==
    ASSUME TypeOK, EndedTargets, [Next]_vars
    PROVE  EndedTargets'
  <1> SUFFICES ASSUME NEW p \in Procs
               PROVE  /\ proc'[p].pc \in {"drop", "bundle", "row"} =>
                           job'[proc'[p].target[1]].state = proc'[p].target[2]
                      /\ proc'[p].pc = "condemn" =>
                           /\ job'[proc'[p].target[1]].state \in {"succeeded", "failed"}
                           /\ proc'[p].target[2] = "failed"
                      /\ \A e \in proc'[p].endings : job'[e[1]].state = e[2]
    BY DEF EndedTargets
  <1>a. /\ proc[p] \in Proc /\ proc \in [Procs -> Proc] /\ proc[p].endings \subseteq Endings
        /\ proc[p].pc \in TargetPCs => proc[p].target \in Endings
    BY ProcAt DEF TypeOK, Proc
  <1>1. CASE proc'[p] = proc[p]
    <2>1. ASSUME proc[p].pc \in {"drop", "bundle", "row"}
          PROVE  job'[proc[p].target[1]].state = proc[p].target[2]
      <3>1. proc[p].target \in Endings /\ job[proc[p].target[1]].state = proc[p].target[2]
        BY <2>1, <1>a DEF EndedTargets, TargetPCs
      <3> QED
        BY <3>1, EndingStays
    <2>2. ASSUME proc[p].pc = "condemn"
          PROVE  /\ job'[proc[p].target[1]].state \in {"succeeded", "failed"}
                 /\ proc[p].target[2] = "failed"
      <3>1. /\ proc[p].target[1] \in Jobs /\ proc[p].target[2] = "failed"
            /\ job[proc[p].target[1]].state \in {"succeeded", "failed"}
        BY <2>2, <1>a DEF EndedTargets, TargetPCs, Endings
      <3> QED
        BY <3>1, JobMoves DEF Move, StateMove, Leased
    <2>3. \A e \in proc[p].endings : job'[e[1]].state = e[2]
      BY <1>a, EndingStays DEF EndedTargets
    <2> QED
      BY <1>1, <2>1, <2>2, <2>3
  <1>2. CASE ProcStep(p)
    <2>1. ASSUME proc'[p].pc = "condemn"
          PROVE  /\ job'[proc'[p].target[1]].state \in {"succeeded", "failed"}
                 /\ proc'[p].target[2] = "failed"
      <3>1. VerifySucceeded(p)
        BY <1>2, <2>1, PcSources DEF Led, QuietPCs, Returning
      <3>2. PICK j \in proc[p].verify :
              IF job[j].state = "succeeded" /\ ~Verified(j)
                THEN proc' = [proc EXCEPT ![p] = [proc[p] EXCEPT
                           !.pc = "condemn", !.back = "verifying",
                           !.target = <<j, "failed">>, !.verify = proc[p].verify \ {j}]]
                ELSE proc' = [proc EXCEPT ![p] = [proc[p] EXCEPT
                           !.verify = proc[p].verify \ {j}]]
        BY <3>1 DEF VerifySucceeded
      <3> DEFINE V == proc[p].verify \ {j}
      <3>3. IF job[j].state = "succeeded" /\ ~Verified(j)
              THEN proc' = [proc EXCEPT ![p] = [proc[p] EXCEPT
                         !.pc = "condemn", !.back = "verifying",
                         !.target = <<j, "failed">>, !.verify = V]]
              ELSE proc' = [proc EXCEPT ![p] = [proc[p] EXCEPT !.verify = V]]
        BY <3>2
      <3>4. proc[p].pc = "verifying" /\ j \in Jobs
        BY <3>1, <1>a DEF VerifySucceeded, Proc
      <3> HIDE DEF V
      <3>5. CASE ~(job[j].state = "succeeded" /\ ~Verified(j))
        <4>1. proc'[p].pc = proc[p].pc
          BY <3>3, <3>5, <1>a DEF Proc
        <4> QED
          BY <4>1, <3>4, <2>1
      <3>6. CASE job[j].state = "succeeded" /\ ~Verified(j)
        <4>1. proc'[p].target = <<j, "failed">>
          BY <3>3, <3>6, <1>a DEF Proc
        <4>2. job'[j].state \in {"succeeded", "failed"}
          BY <3>4, <3>6, JobMoves DEF Move, StateMove, Leased
        <4> QED
          BY <4>1, <4>2
      <3> QED
        BY <3>5, <3>6
    <2> QED
      BY <1>2, <2>1, NewTargets, NewEndings
  <1> QED
    BY <1>1, <1>2, OneProcess

\* A bundle is renamed into place only for a job that was finalized: by its
\* executor after finalize, by a worker that found the job in FINALIZING.
SettledClaims ==
    /\ \A p \in Procs : proc[p].pc \in {"rename", "commit"} =>
         job[proc[p].claim[1]].state \in Settled
    /\ \A j \in Jobs : \A t \in Tokens : executor[j][t] = "finalized" =>
         job[j].state \in Settled /\ job[j].result = t

LEMMA PromoteSources ==
    ASSUME TypeOK, NEW p \in Procs, ProcStep(p), proc'[p].pc \in {"rename", "commit"}
    PROVE  /\ proc'[p].claim = proc[p].claim /\ proc[p].claim[1] \in Jobs
           /\ \/ PromoteLook(p) /\ job[proc[p].claim[1]].state = "finalizing"
              \/ PromoteRename(p) /\ proc[p].pc = "rename"
  <1>a. proc[p] \in Proc /\ proc \in [Procs -> Proc]
    BY DEF TypeOK
  <1>1. PromoteLook(p) \/ PromoteRename(p)
    BY PcSources DEF Led, QuietPCs, Returning
  <1>2. \E pc : Goto(p, pc)
    BY <1>1 DEF PromoteLook, PromoteRename
  <1>3. proc'[p].claim = proc[p].claim
    BY <1>2, <1>a DEF Goto, Proc
  <1>4. proc[p].claim[1] \in Jobs
    BY <1>1, ProcAt DEF PromoteLook, PromoteRename, ClaimPCs
  <1>5. CASE PromoteLook(p)
    <2>1. job[proc[p].claim[1]].state = "finalizing" \/ Goto(p, "fail")
      BY <1>5 DEF PromoteLook
    <2>2. ~Goto(p, "fail")
      BY <1>a DEF Goto, Proc
    <2> QED
      BY <1>3, <1>4, <1>5, <2>1, <2>2
  <1>6. CASE PromoteRename(p)
    BY <1>3, <1>4, <1>6 DEF PromoteRename
  <1> QED
    BY <1>1, <1>5, <1>6

LEMMA SettledClaimsStays ==
    ASSUME TypeOK, SettledClaims, [Next]_vars
    PROVE  SettledClaims'
  <1>1. ASSUME NEW p \in Procs, proc'[p].pc \in {"rename", "commit"}
        PROVE  job'[proc'[p].claim[1]].state \in Settled
    <2>1. proc'[p].claim = proc[p].claim /\ proc[p].claim[1] \in Jobs
          /\ job[proc[p].claim[1]].state \in Settled
      <3>1. CASE proc'[p] = proc[p]
        BY <1>1, <3>1, ProcAt DEF ClaimPCs, SettledClaims
      <3>2. CASE ProcStep(p)
        BY <1>1, <3>2, PromoteSources DEF SettledClaims, Settled
      <3> QED
        BY <3>1, <3>2, OneProcess
    <2> QED
      BY <2>1, SettledStays
  <1>2. ASSUME NEW j \in Jobs, NEW t \in Tokens, executor'[j][t] = "finalized"
        PROVE  job'[j].state \in Settled /\ job'[j].result = t
    <2>1. CASE executor[j][t] = "finalized"
      <3>1. job[j].state \in Settled /\ job[j].result = t
        BY <2>1 DEF SettledClaims
      <3> QED
        BY <3>1, SettledStays, JobMoves DEF Move, Settled
    <2>2. CASE executor[j][t] # "finalized"
      <3>a. executor \in [Jobs -> [Tokens -> {"none"} \union Running \union Exited]]
        BY DEF TypeOK
      <3>1. Executor(j, t)
        BY <1>2, <2>2, ExecutorSources
      <3>2. ASSUME ~(Finalize(j, t) /\ MayFinalize(j, t)) PROVE FALSE
        <4>1. \E to \in {"staged", "exit0", "error", "killed", "exit75", "exit130",
                         "computing", "publishing"} :
                 executor' = [executor EXCEPT ![j][t] = to]
          BY <3>1, <3>2 DEF Executor, AssertRunning, Stage, BeginPublish, Finalize,
                            Publish, ExecutorDies, OrphanStops, Exec
        <4> QED
          BY <4>1, <3>a, <1>2
      <3>3. job' = [job EXCEPT ![j].state = "finalizing", ![j].result = t]
        BY <3>2 DEF Finalize
      <3> QED
        BY <3>3 DEF TypeOK, Job, Settled
    <2> QED
      BY <2>1, <2>2
  <1> QED
    BY <1>1, <1>2 DEF SettledClaims

-----------------------------------------------------------------------------
(* What is visible of a job before and after finalize *)

\* Nothing of a job that was not finalized is visible; a job that was shows its
\* result; a cancelled one at most that it was cancelled.
EarlyClean ==
    \A j \in Jobs \ Legacy : job[j].state \in Early =>
        /\ job[j].result = 0 /\ ~evidence[j]
        /\ manifest[j] = NoManifest /\ final[j] = NoBundle

ResultKnown ==
    \A j \in Jobs :
        \/ job[j].state \in {"finalizing", "succeeded"}
        \/ j \in Legacy /\ job[j].state = "publishing"
        => /\ job[j].result \in Tokens
           /\ HasBundle(j) => manifest[j] = Success(job[j].result)

VisibleInv == TokenInv /\ EndedTargets /\ SettledClaims /\ EarlyClean /\ ResultKnown

LEMMA EarlyCleanStays ==
    ASSUME TypeOK, VisibleInv, [Next]_vars
    PROVE  EarlyClean'
  <1> SUFFICES ASSUME NEW j \in Jobs \ Legacy, job'[j].state \in Early
               PROVE  /\ job'[j].result = 0 /\ ~evidence'[j]
                      /\ manifest'[j] = NoManifest /\ final'[j] = NoBundle
    BY DEF EarlyClean
  <1>1. job[j].state \in Early
    BY EarlyBefore
  <1>2. /\ job[j].result = 0 /\ ~evidence[j]
        /\ manifest[j] = NoManifest /\ final[j] = NoBundle
    BY <1>1 DEF VisibleInv, EarlyClean
  <1>3. \A p \in Procs : proc[p].pc \in {"bundle", "row"} /\ proc[p].target \in Endings
                           => proc[p].target[1] # j
    <2> SUFFICES ASSUME NEW p \in Procs, proc[p].pc \in {"bundle", "row"},
                        proc[p].target \in Endings, proc[p].target[1] = j
                 PROVE  FALSE
      OBVIOUS
    <2>1. job[j].state = proc[p].target[2]
      BY DEF VisibleInv, EndedTargets
    <2> QED
      BY <1>1, <2>1 DEF Endings, Early
  <1>4. \A p \in Procs : proc[p].pc \in {"bundle", "row"} => proc[p].target \in Endings
    BY ProcAt DEF TargetPCs
  <1>5. job'[j].result = 0 /\ ~evidence'[j] /\ manifest'[j] = NoManifest
    <2>1. CASE Shows(j)
      BY <2>1 DEF Shows, Early
    <2>2. CASE Hides(j)
      BY <2>2 DEF Hides, Early
    <2>3. CASE Records(j)
      BY <2>3, <1>3, <1>4 DEF Records
    <2>4. CASE Shown(j)
      BY <2>4, <1>2 DEF Shown, Ends
    <2> QED
      BY <2>1, <2>2, <2>3, <2>4, RowSteps DEF RowStep
  <1>6. final'[j] = NoBundle
    <2>0. ~final[j].intact
      BY <1>2 DEF NoBundle
    <2>1. ~Renames(j)
      <3>1. \A t \in Tokens : executor[j][t] # "finalized"
        BY <1>1 DEF VisibleInv, SettledClaims, Settled, Early
      <3>2. ~(\E p \in Procs : proc[p].pc = "rename" /\ proc[p].claim[1] = j)
        BY <1>1 DEF VisibleInv, SettledClaims, Settled, Early
      <3> QED
        BY <3>1, <3>2 DEF Renames
    <2>2. ~WritesEnding(j)
      BY <1>3, <1>4 DEF WritesEnding
    <2> QED
      BY <1>2, <2>0, <2>1, <2>2, FileSteps
         DEF FileStep, SameFiles, Removes, Tidies, Stages, Damages
  <1> QED
    BY <1>5, <1>6

LEMMA ResultKnownStays ==
    ASSUME TypeOK, EvidenceInv, VisibleInv, [Next]_vars
    PROVE  ResultKnown'
  <1> SUFFICES ASSUME NEW j \in Jobs,
                      \/ job'[j].state \in {"finalizing", "succeeded"}
                      \/ j \in Legacy /\ job'[j].state = "publishing"
               PROVE  /\ job'[j].result \in Tokens
                      /\ HasBundle(j) => manifest'[j] = Success(job'[j].result)
    BY DEF ResultKnown
  <1>1. ASSUME \/ job[j].state \in {"finalizing", "succeeded"}
               \/ j \in Legacy /\ job[j].state = "publishing"
        PROVE  /\ job[j].result \in Tokens
               /\ HasBundle(j) => manifest[j] = Success(job[j].result)
    BY <1>1 DEF VisibleInv, ResultKnown
  <1>2. CASE Shows(j)
    BY <1>2 DEF Shows
  <1>3. CASE Hides(j)
    BY <1>3 DEF Hides
  <1>4. CASE Records(j)
    <2> PICK p \in Procs : proc[p].pc = "row" /\ proc[p].target[1] = j
      BY <1>4 DEF Records
    <2>1. job[j].state = proc[p].target[2] /\ proc[p].target \in Endings
      BY ProcAt DEF VisibleInv, EndedTargets, TargetPCs
    <2>2. job'[j].state = job[j].state
      BY <1>4 DEF Records
    <2> QED
      BY <2>1, <2>2 DEF Endings
  <1>5. CASE Shown(j)
    <2>1. manifest'[j] = manifest[j] /\ job'[j].result = job[j].result /\ Ends(j, job'[j])
      BY <1>5 DEF Shown, Ends
    <2>2. \/ job[j].state \in {"finalizing", "succeeded"}
          \/ j \in Legacy /\ job[j].state = "publishing"
      <3>1. CASE job'[j].state = "finalizing"
        BY <2>1, <3>1 DEF Ends
      <3>2. CASE job'[j].state = "succeeded"
        <4>1. ASSUME LegacyComplete(j) PROVE j \in Legacy /\ job[j].state = "publishing"
          <5>1. job[j].state = "publishing" /\ job[j].result # 0
            BY <4>1 DEF LegacyComplete
          <5> QED
            BY <5>1 DEF VisibleInv, EarlyClean, Early
        <4> QED
          BY <2>1, <3>2, <4>1 DEF Ends
      <3>3. CASE j \in Legacy /\ job'[j].state = "publishing"
        <4>1. job[j].state \in {"publishing", "succeeded", "failed"}
          BY <3>3 DEF EvidenceInv, LegacyIdle
        <4> QED
          BY <3>3, <4>1, JobMoves DEF Move, StateMove
      <3> QED
        BY <3>1, <3>2, <3>3
    <2> QED
      BY <1>1, <2>1, <2>2
  <1> QED
    BY <1>2, <1>3, <1>4, <1>5, RowSteps DEF RowStep

LEMMA VisibleInvStays ==
    ASSUME TypeOK, EvidenceInv, VisibleInv, [Next]_vars
    PROVE  VisibleInv'
  BY TokenInvStays, EndedTargetsStays, SettledClaimsStays, EarlyCleanStays,
     ResultKnownStays DEF VisibleInv

LEMMA VisibleInvFirst == Init => VisibleInv
  <1> SUFFICES ASSUME Init PROVE VisibleInv
    OBVIOUS
  <1>1. ASSUME NEW j \in Jobs
        PROVE  /\ job[j] = IF j \in Legacy THEN LegacyJob ELSE NewJob
               /\ issued[j] = IF j \in Legacy THEN 1 ELSE 0
               /\ evidence[j] <=> j \in Legacy
               /\ manifest[j] = IF j \in Legacy /\ HasBundle(j) THEN Success(1) ELSE NoManifest
               /\ \A t \in Tokens : executor[j][t] = "none"
    BY DEF Init
  <1>2. ASSUME NEW j \in Jobs \ Legacy PROVE final[j] = NoBundle
    BY DEF Init
  <1>3. ASSUME NEW p \in Procs PROVE proc[p].pc = "poll" /\ proc[p].endings = {}
    BY DEF Init, Idle
  <1>4. /\ LegacyJob.state = "publishing" /\ LegacyJob.token = 1 /\ LegacyJob.result = 1
        /\ NewJob.state = "absent" /\ NewJob.token = 0 /\ NewJob.result = 0
    BY DEF LegacyJob, NewJob
  <1>5. 1 \in Tokens
    BY BoundsAssumption DEF Tokens
  <1>6. TokenInv
    BY <1>1, <1>4 DEF TokenInv, Leased
  <1>7. EndedTargets /\ SettledClaims
    BY <1>1, <1>3 DEF EndedTargets, SettledClaims
  <1>8. EarlyClean
    BY <1>1, <1>2, <1>4 DEF EarlyClean
  <1>9. ResultKnown
    BY <1>1, <1>4, <1>5 DEF ResultKnown
  <1> QED
    BY <1>6, <1>7, <1>8, <1>9 DEF VisibleInv

LEMMA VisibleInvAlways == Spec => []VisibleInv
  BY VisibleInvFirst, VisibleInvStays, TypeCorrect, EvidenceInvAlways, PTL DEF Spec

\* While a job waits or computes, no attempt of it has left a result, an
\* evidence row or a bundle, whatever the number of earlier attempts whose
\* executors outlived their lease.
THEOREM NothingVisibleEarly == Spec => []NothingPublishedEarly
  <1>1. EvidenceInv /\ VisibleInv => NothingPublishedEarly
    <2> SUFFICES ASSUME EvidenceInv, VisibleInv, NEW j \in Jobs,
                        job[j].state \in {"queued", "running", "cancelling"}
                 PROVE  /\ job[j].result = 0 /\ ~evidence[j]
                        /\ manifest[j] = NoManifest /\ final[j] = NoBundle
      BY DEF NothingPublishedEarly
    <2>1. j \notin Legacy
      BY DEF EvidenceInv, LegacyIdle
    <2> QED
      BY <2>1 DEF VisibleInv, EarlyClean, Early
  <1> QED
    BY <1>1, EvidenceInvAlways, VisibleInvAlways, PTL

\* A cancelled job shows no bundle and no manifest but one that says
\* cancelled, also when its executor outlived the cancellation.
THEOREM CancelledShowsNothingElse == Spec => []CancelledEvidence
  <1>1. Init => CancelledEvidence
    BY DEF Init, CancelledEvidence, LegacyJob, NewJob
  <1>2. TypeOK /\ EvidenceInv /\ EvidenceInv' /\ VisibleInv /\ CancelledEvidence
          /\ [Next]_vars => CancelledEvidence'
    <2> SUFFICES ASSUME TypeOK, EvidenceInv, EvidenceInv', VisibleInv, CancelledEvidence,
                        [Next]_vars, NEW j \in Jobs, job'[j].state = "cancelled"
                 PROVE  /\ manifest'[j].status \in {"none", "cancelled"}
                        /\ final'[j].manifest.status \in {"none", "cancelled"}
      BY DEF CancelledEvidence
    <2>a. job[j].state \in Early \union {"cancelled"}
      BY JobMoves DEF Move, StateMove, Early, Leased
    <2>b. j \notin Legacy
      BY DEF EvidenceInv, LegacyIdle
    <2>c. NoManifest.status = "none" /\ NoBundle.manifest = NoManifest
      BY DEF NoManifest, NoBundle
    <2>1. /\ manifest[j].status \in {"none", "cancelled"}
          /\ final[j].manifest.status \in {"none", "cancelled"}
      BY <2>a, <2>b, <2>c DEF VisibleInv, EarlyClean, CancelledEvidence
    <2>2. manifest'[j].status \in {"none", "cancelled"}
      <3>1. CASE Records(j)
        BY <2>1, <3>1 DEF Records
      <3>2. CASE Shown(j)
        BY <2>1, <3>2 DEF Shown
      <3> QED
        BY <3>1, <3>2, RowSteps DEF RowStep, Shows, Hides
    <2>3. final'[j].manifest.status \in {"none", "cancelled"}
      <3>1. CASE SameFiles(j) \/ Removes(j) \/ Tidies(j) \/ Stages(j)
        <4>1. final'[j] \in {final[j], NoBundle}
          BY <3>1 DEF SameFiles, Removes, Tidies, Stages
        <4> QED
          BY <4>1, <2>1, <2>c
      <3>2. CASE Renames(j)
        BY <3>2, <2>a DEF Renames, VisibleInv, SettledClaims, Settled, Early
      <3>3. CASE WritesEnding(j)
        <4> PICK p \in Procs : proc[p].pc = "bundle" /\ proc[p].target = <<j, job[j].state>>
          BY <3>3 DEF WritesEnding
        <4>1. job[j].state \in {"failed", "cancelled"}
          BY ProcAt DEF TargetPCs, Endings
        <4>2. final'[j] = Ending("cancelled")
          BY <2>a, <3>3, <4>1 DEF WritesEnding, Early
        <4> QED
          BY <4>2 DEF Ending
      <3>4. CASE Damages(j)
        <4>1. \/ final'[j] \in {final[j], NoBundle}
              \/ final'[j] = [final[j] EXCEPT !.intact = FALSE]
          BY <3>4 DEF Damages
        <4>2. [final[j] EXCEPT !.intact = FALSE].manifest = final[j].manifest
          BY DEF TypeOK, Bundle
        <4> QED
          BY <4>1, <4>2, <2>1, <2>c
      <3> QED
        BY <3>1, <3>2, <3>3, <3>4, FileSteps DEF FileStep
    <2> QED
      BY <2>2, <2>3
  <1> QED
    BY <1>1, <1>2, TypeCorrect, EvidenceInvAlways, VisibleInvAlways, PTL DEF Spec
-----------------------------------------------------------------------------
(* Paths that are removed *)

\* A bundle that a process removes is of a failed job, or staged for an attempt
\* that neither holds the lease nor gave the result.
Dropped(j, t) ==
    IF t = 0 THEN job[j].state = "failed"
    ELSE /\ t <= issued[j] /\ t # job[j].token
         /\ t = job[j].result => job[j].state = "failed"

DroppedPaths ==
    \A p \in Procs : \A q \in proc[p].stale \union proc[p].trash : Dropped(q[1], q[2])

LEMMA DroppedStays ==
    ASSUME TypeOK, TokenInv, [Next]_vars, NEW j \in Jobs, NEW t \in 0..MaxTokens,
           Dropped(j, t)
    PROVE  Dropped(j, t)'
  <1>a. /\ issued[j] \in Nat /\ issued'[j] \in Nat /\ t \in Nat
        /\ job[j].token \in Nat /\ job'[j].token \in Nat
    BY NextType DEF TypeOK, Job
  <1>1. job[j].state = "failed" => job'[j].state = "failed"
    BY EndedStays
  <1>2. CASE t = 0
    BY <1>1, <1>2 DEF Dropped
  <1>3. CASE t # 0
    <2>1. /\ t <= issued[j] /\ t # job[j].token
          /\ t = job[j].result => job[j].state = "failed"
      BY <1>3 DEF Dropped
    <2>2. t <= issued'[j] /\ t # job'[j].token
      <3>1. CASE issued'[j] = issued[j] /\ KeepsToken(j, job'[j])
        BY <1>3, <2>1, <3>1 DEF KeepsToken
      <3>2. CASE FreshToken(j)
        BY <1>a, <2>1, <3>2 DEF FreshToken
      <3> QED
        BY <3>1, <3>2, TokenSteps DEF TokenStep
    <2>3. t = job'[j].result => job'[j].state = "failed"
      <3>1. CASE Shows(j)
        BY <2>1, <3>1 DEF Shows
      <3>2. CASE Hides(j) \/ Records(j) \/ Shown(j)
        <4>1. job'[j].result = job[j].result
          BY <3>2 DEF Hides, Records, Shown, Ends
        <4> QED
          BY <1>1, <2>1, <4>1
      <3> QED
        BY <3>1, <3>2, RowSteps DEF RowStep
    <2> QED
      BY <1>3, <2>2, <2>3 DEF Dropped
  <1> QED
    BY <1>2, <1>3

\* What _invalidate_visible_evidence collects of a job that fails.
LEMMA EvidenceDropped ==
    ASSUME TypeOK, TypeOK', TokenInv', NEW j \in Jobs, job'[j].state = "failed",
           job'[j].result = job[j].result, NEW q \in EvidencePaths(j)
    PROVE  Dropped(q[1], q[2])'
  <1>1. q[1] = j /\ (q[2] = 0 \/ q[2] = job[j].result)
    BY DEF EvidencePaths
  <1>2. job'[j].result <= issued'[j] /\ job'[j].token = 0
    BY DEF TokenInv, Leased
  <1> QED
    BY <1>1, <1>2 DEF Dropped

\* The paths that a sweep collects.
LEMMA StaleDropped ==
    ASSUME TypeOK, TypeOK', CancelSticks, EvidenceInv, VisibleInv, TokenInv',
           [Next]_vars, NEW p \in Procs, Sweep(p), NEW q \in proc'[p].stale
    PROVE  Dropped(q[1], q[2])'
  <1> DEFINE freed == {j \in Jobs : Stale(j) /\ ~PassedOn(j)}
             void == {j \in freed : job[j].state = "publishing"
                                    /\ RecoveryTarget(j) = "failed"}
             given == {k \in freed : RecoveryTarget(k) # "succeeded"}
             S == UNION ({AttemptStaging(j) : j \in given}
                           \union {EvidencePaths(j) : j \in void})
  <1>1. q \in S
    <2>1. \E f, e : proc' = [proc EXCEPT ![p] = [Idle EXCEPT
                      !.pc = "settle", !.finalizing = f, !.stale = S, !.endings = e]]
      BY DEF Sweep
    <2> HIDE DEF S
    <2>2. proc'[p].stale = S
      BY <2>1, IdleType DEF TypeOK, Proc
    <2> QED
      BY <2>2
  <1>2. ASSUME NEW j \in freed
        PROVE  /\ j \in Jobs /\ job'[j].state = RecoveryTarget(j)
               /\ job'[j].token = 0 /\ job'[j].result = job[j].result
               /\ issued'[j] = issued[j]
    <2>1. job'[j] = Release(job[j], RecoveryTarget(j)) /\ issued'[j] = issued[j]
      BY DEF Sweep
    <2> QED
      BY <2>1 DEF TypeOK, Job, Release
  <1>3. ASSUME NEW j \in given, q \in AttemptStaging(j) PROVE Dropped(q[1], q[2])'
    <2>1. q = <<j, job[j].token>> /\ j \in freed /\ RecoveryTarget(j) # "succeeded"
      BY <1>3 DEF AttemptStaging
    <2>2. job[j].token # 0 /\ job[j].token <= issued[j]
      BY <2>1 DEF VisibleInv, TokenInv, Stale
    <2>3. job[j].result # 0 => job'[j].state = "failed"
      <3> SUFFICES ASSUME job[j].result # 0 PROVE job'[j].state = "failed"
        OBVIOUS
      <3>1. job[j].state \in {"running", "cancelling", "publishing"}
        BY <2>1 DEF Stale, PassedOn, Leased
      <3>2. j \in Legacy
        BY <2>1, <3>1 DEF VisibleInv, EarlyClean, Early
      <3>3. job[j].state = "publishing"
        BY <3>1, <3>2 DEF EvidenceInv, LegacyIdle
      <3>4. ~job[j].cancel
        BY <2>1, <3>3 DEF CancelSticks
      <3>5. RecoveryTarget(j) = "failed"
        BY <2>1, <3>3, <3>4 DEF RecoveryTarget
      <3> QED
        BY <1>2, <2>1, <3>5
    <2>4. issued'[j] = issued[j] /\ job'[j].result = job[j].result /\ job'[j].token = 0
      BY <1>2, <2>1
    <2>5. q[1] = j /\ q[2] = job[j].token
      BY <2>1
    <2> QED
      BY <2>2, <2>3, <2>4, <2>5 DEF Dropped
  <1>4. ASSUME NEW j \in void, q \in EvidencePaths(j) PROVE Dropped(q[1], q[2])'
    BY <1>2, <1>4, EvidenceDropped
  <1>5. \/ \E j \in given : q \in AttemptStaging(j)
        \/ \E j \in void : q \in EvidencePaths(j)
    BY <1>1
  <1> QED
    BY <1>3, <1>4, <1>5

LEMMA DroppedPathsStays ==
    ASSUME TypeOK, TypeOK', CancelSticks, EvidenceInv, VisibleInv, TokenInv',
           DroppedPaths, [Next]_vars
    PROVE  DroppedPaths'
  <1> SUFFICES ASSUME NEW p \in Procs, NEW q \in proc'[p].stale \union proc'[p].trash
               PROVE  Dropped(q[1], q[2])'
    BY DEF DroppedPaths
  <1>a. /\ proc[p] \in Proc /\ proc \in [Procs -> Proc]
        /\ proc[p].stale \subseteq Paths /\ proc[p].trash \subseteq Paths
    BY DEF TypeOK, Proc
  <1>1. CASE q \in proc[p].stale \union proc[p].trash
    <2>1. Dropped(q[1], q[2]) /\ q[1] \in Jobs /\ q[2] \in 0..MaxTokens
      BY <1>1, <1>a DEF DroppedPaths, Paths
    <2> QED
      BY <2>1, DroppedStays DEF VisibleInv
  <1>2. CASE Sweep(p) /\ q \in proc'[p].stale
    BY <1>2, StaleDropped
  <1>3. CASE Condemn(p) /\ q \in proc'[p].trash /\ q \notin proc[p].trash
    <2> DEFINE j == proc[p].target[1]
               S == EvidencePaths(j)
    <2>1. j \in Jobs
      BY <1>3, ProcAt DEF Condemn, TargetPCs, Endings
    <2>2. CASE Return(p)
      <3>1. proc'[p].trash = {}
        BY <2>2, <1>a DEF Return, Proc
      <3> QED
        BY <1>3, <3>1
    <2>3. CASE ~Return(p)
      <3>1. /\ job' = [job EXCEPT ![j].state = "failed"]
            /\ proc' = [proc EXCEPT ![p] = [proc[p] EXCEPT !.pc = "drop", !.trash = S]]
        BY <1>3, <2>3 DEF Condemn
      <3>2. job'[j].state = "failed" /\ job'[j].result = job[j].result
        BY <2>1, <3>1 DEF TypeOK, Job
      <3> HIDE DEF S
      <3>3. proc'[p].trash = S
        BY <3>1, <1>a DEF Proc
      <3>4. q \in EvidencePaths(j)
        BY <1>3, <3>3 DEF S
      <3> QED
        BY <2>1, <3>2, <3>4, EvidenceDropped
    <2> QED
      BY <2>2, <2>3
  <1>4. CASE FinishFailed(p) /\ q \in proc'[p].trash /\ q \notin proc[p].trash
    <2> DEFINE j == proc[p].claim[1]
               S == IF proc[p].source = "finalizing" THEN EvidencePaths(j) ELSE {}
    <2>1. j \in Jobs
      BY <1>4, ProcAt DEF FinishFailed, ClaimPCs
    <2>2. CASE Return(p)
      <3>1. proc'[p].trash = {}
        BY <2>2, <1>a DEF Return, Proc
      <3> QED
        BY <1>4, <3>1
    <2>3. CASE ~Return(p)
      <3>1. /\ job' = [job EXCEPT ![j] = Release(@, "failed")]
            /\ proc' = [proc EXCEPT ![p] = [proc[p] EXCEPT
                 !.pc = "drop", !.source = "absent", !.target = <<j, "failed">>, !.trash = S]]
        BY <1>4, <2>3 DEF FinishFailed
      <3>2. job'[j].state = "failed" /\ job'[j].result = job[j].result
        BY <2>1, <3>1 DEF TypeOK, Job, Release
      <3> HIDE DEF S
      <3>3. proc'[p].trash = S
        BY <3>1, <1>a DEF Proc
      <3>4. q \in EvidencePaths(j)
        BY <1>4, <3>3 DEF S
      <3> QED
        BY <2>1, <3>2, <3>4, EvidenceDropped
    <2> QED
      BY <2>2, <2>3
  <1> QED
    BY <1>1, <1>2, <1>3, <1>4, OneProcess, GivenBy DEF Given
LEMMA DroppedPathsAlways == Spec => []DroppedPaths
  <1>1. Init => DroppedPaths
    <2> SUFFICES ASSUME Init, NEW p \in Procs
                 PROVE  proc[p].stale \union proc[p].trash = {}
      BY DEF DroppedPaths
    <2> QED
      BY DEF Init, Idle
  <1>2. VisibleInv => TokenInv
    BY DEF VisibleInv
  <1> QED
    BY <1>1, <1>2, DroppedPathsStays, TypeCorrect, CancellationIsFinal, EvidenceInvAlways,
       VisibleInvAlways, PTL DEF Spec

-----------------------------------------------------------------------------
(* Bundles while nobody damages them *)

\* A rename, a removal or a crash never spoils a bundle by itself.
Undamaged == \A j \in Jobs : \A t \in Tokens : staging[j][t] # "damaged"

\* An executor that may still publish has its bundle staged.
StagedIntact ==
    \A j \in Jobs : \A t \in Tokens :
        /\ executor[j][t] \in {"staged", "publishing"} /\ HasBundle(j)
        /\ job[j].state \in {"running", "publishing"} /\ job[j].token = t
        => staging[j][t] = "intact"

\* A worker about to commit has verified the bundle of its job.
CommitVerified ==
    \A p \in Procs :
        /\ proc[p].pc = "commit" /\ HasBundle(proc[p].claim[1])
        /\ job[proc[p].claim[1]].state = "finalizing"
        => Verified(proc[p].claim[1])

IntactInv == damages = 0 =>
    /\ Undamaged /\ StagedIntact /\ CommitVerified
    /\ FinalizingRecoverable /\ SucceededVerified

LEMMA DamagesGrow ==
    ASSUME TypeOK, [Next]_vars, damages' = 0
    PROVE  damages = 0
  <1>1. CASE damages' = damages
    BY <1>1
  <1>2. CASE Fault
    <2>1. damages' = damages \/ damages' = damages + 1
      BY <1>2 DEF Fault, Crash, Restart, LeaseExpires, DamageFinal, DamageStaged, faults
    <2> QED
      BY <2>1 DEF TypeOK
  <1>3. CASE Request
    BY <1>1, <1>3 DEF Request, Enqueue, CancelRunning, CancelQueued, faults
  <1>4. ASSUME NEW w \in Workers, Recover(w) \/ Finish(w) \/ Execute(w)
        PROVE  damages' = damages
    BY <1>4 DEF Recover, Finish, Execute, Sweep, SettleClaim, RemoveStale, ScanTerminal,
                RecordNext, ScanPublished, VerifySucceeded, Condemn, PromoteLook,
                PromoteRename, CommitSuccess, FailLook, FinishFailed, FinishCancelled,
                DropEvidence, ClaimOldest, NothingToClaim, Heartbeat, LoseLease,
                LimitExceeded, Reap, ChildExited, faults
  <1>5. ASSUME NEW p \in Procs, Record(p) PROVE damages' = damages
    BY <1>5 DEF Record, WriteEnding, RecordEnding, faults
  <1>6. ASSUME NEW j \in Jobs, NEW t \in Tokens, Executor(j, t) PROVE damages' = damages
    BY <1>6 DEF Executor, AssertRunning, Stage, BeginPublish, Finalize, Publish,
                ExecutorDies, OrphanStops, faults
  <1>7. CASE UNCHANGED vars
    BY <1>1, <1>7 DEF vars
  <1> QED
    BY <1>1, <1>2, <1>3, <1>4, <1>5, <1>6, <1>7 DEF Next

\* Only jobs that ended without success get an ending.
LEMMA EndingsAreEnded ==
    ASSUME TypeOK, VisibleInv, NEW j \in Jobs,
           job[j].state \notin {"failed", "cancelled"}
    PROVE  ~Records(j) /\ ~WritesEnding(j)
  <1>1. \A p \in Procs : proc[p].pc \in {"bundle", "row"} => proc[p].target[1] # j
    <2> SUFFICES ASSUME NEW p \in Procs, proc[p].pc \in {"bundle", "row"},
                        proc[p].target[1] = j
                 PROVE  FALSE
      OBVIOUS
    <2>1. job[j].state = proc[p].target[2] /\ proc[p].target \in Endings
      BY ProcAt DEF VisibleInv, EndedTargets, TargetPCs
    <2> QED
      BY <2>1 DEF Endings
  <1>2. \A s : \A p \in Procs : proc[p].pc = "bundle" => proc[p].target # <<j, s>>
    BY <1>1
  <1> QED
    BY <1>1, <1>2 DEF Records, WritesEnding

\* What happens to the final bundle of a job that did not end without success:
\* nothing, or the rename of the bundle that is its result.
LEMMA FinalFate ==
    ASSUME TypeOK, VisibleInv, DroppedPaths, Undamaged, [Next]_vars, damages' = 0,
           NEW j \in Jobs, job[j].state \notin {"failed", "cancelled"}
    PROVE  \/ final'[j] = final[j]
           \/ /\ job[j].state \in {"finalizing", "succeeded"} /\ Renames(j)
              /\ final'[j] = [manifest |-> Success(job[j].result), intact |-> TRUE]
  <1>1. CASE SameFiles(j) \/ Tidies(j) \/ Stages(j)
    BY <1>1 DEF SameFiles, Tidies, Stages
  <1>2. CASE Removes(j)
    <2> PICK p \in Procs : \E S \in {proc[p].stale, proc[p].trash} :
          final'[j] = IF <<j, 0>> \in S THEN NoBundle ELSE final[j]
      BY <1>2 DEF Removes
    <2> PICK S \in {proc[p].stale, proc[p].trash} :
          final'[j] = IF <<j, 0>> \in S THEN NoBundle ELSE final[j]
      OBVIOUS
    <2>1. <<j, 0>> \notin S
      <3> SUFFICES ASSUME <<j, 0>> \in S PROVE FALSE
        OBVIOUS
      <3>1. Dropped(<<j, 0>>[1], <<j, 0>>[2])
        BY DEF DroppedPaths
      <3> QED
        BY <3>1 DEF Dropped
    <2> QED
      BY <2>1
  <1>3. CASE Renames(j)
    <2> PICK t \in 0..MaxTokens :
          /\ CanRename(j, t) /\ final'[j] = StagedBundle(j, t)
          /\ \/ t \in Tokens /\ executor[j][t] = "finalized"
             \/ /\ t = job[j].result
                /\ \E p \in Procs : proc[p].pc = "rename" /\ proc[p].claim[1] = j
      BY <1>3 DEF Renames
    <2>1. job[j].state \in Settled /\ t = job[j].result
      BY DEF VisibleInv, SettledClaims
    <2>2. job[j].state \in {"finalizing", "succeeded"} /\ t \in Tokens
      BY <2>1 DEF Settled, VisibleInv, ResultKnown
    <2>3. staging[j][t] = "intact"
      <3>1. staging[j][t] # "none" /\ staging[j][t] # "damaged"
        BY <2>2 DEF CanRename, Undamaged
      <3> QED
        BY <2>2, <3>1 DEF TypeOK
    <2> QED
      BY <1>3, <2>1, <2>2, <2>3 DEF StagedBundle
  <1>4. ~Damages(j) /\ ~WritesEnding(j)
    BY EndingsAreEnded DEF Damages
  <1> QED
    BY <1>1, <1>2, <1>3, <1>4, FileSteps DEF FileStep

\* A verified bundle stays verified while its job is finalized or succeeded.
LEMMA VerifiedStays ==
    ASSUME TypeOK, EvidenceInv, VisibleInv, DroppedPaths, Undamaged, [Next]_vars,
           damages' = 0, NEW j \in Jobs, HasBundle(j),
           job'[j].state \in {"finalizing", "succeeded"}, Verified(j)
    PROVE  Verified(j)'
  <1>1. job[j].state \notin {"failed", "cancelled"}
    BY EndedStays
  <1>2. \/ job[j].state \in {"finalizing", "succeeded"}
        \/ j \in Legacy /\ job[j].state = "publishing"
    <2>1. job[j].state \in States
      BY DEF TypeOK, Job
    <2>2. CASE j \in Legacy
      BY <1>1, <2>2 DEF EvidenceInv, LegacyIdle
    <2>3. CASE j \notin Legacy
      BY <1>1, <2>1, <2>3
         DEF States, Leased, Terminal, Verified, VisibleInv, EarlyClean, Early
    <2> QED
      BY <2>2, <2>3
  <1>3. manifest[j] = Success(job[j].result)
    BY <1>2 DEF VisibleInv, ResultKnown
  <1>4. manifest'[j] = manifest[j]
    <2>1. ~Shows(j)
      BY <1>2 DEF Shows, EvidenceInv, LegacyIdle
    <2>2. ~Records(j)
      BY <1>1, EndingsAreEnded
    <2>3. ~Hides(j)
      BY DEF Hides
    <2> QED
      BY <2>1, <2>2, <2>3, RowSteps DEF RowStep, Shown
  <1>5. CASE final'[j] = final[j]
    BY <1>4, <1>5 DEF Verified
  <1>6. CASE final'[j] = [manifest |-> Success(job[j].result), intact |-> TRUE]
    BY <1>3, <1>4, <1>6 DEF Verified
  <1> QED
    BY <1>1, <1>5, <1>6, FinalFate

LEMMA UndamagedStays ==
    ASSUME TypeOK, Undamaged, [Next]_vars, damages' = 0
    PROVE  Undamaged'
  <1> SUFFICES ASSUME NEW j \in Jobs, NEW t \in Tokens PROVE staging'[j][t] # "damaged"
    BY DEF Undamaged
  <1>1. staging'[j][t] \in {staging[j][t], "none", "intact"}
    <2>1. CASE Removes(j)
      BY <2>1 DEF Removes
    <2>2. CASE Renames(j)
      BY <2>2 DEF Renames
    <2>3. CASE Stages(j)
      BY <2>3 DEF Stages
    <2>4. CASE SameFiles(j) \/ Tidies(j) \/ WritesEnding(j)
      BY <2>4 DEF SameFiles, Tidies, WritesEnding
    <2> QED
      BY <2>1, <2>2, <2>3, <2>4, FileSteps DEF FileStep, Damages
  <1> QED
    BY <1>1 DEF Undamaged

\* What happens to a staged bundle of the current attempt or of the result.
LEMMA StagedFate ==
    ASSUME TypeOK, VisibleInv, DroppedPaths, [Next]_vars, damages' = 0,
           NEW j \in Jobs, job[j].state \notin {"failed", "cancelled"},
           NEW t \in Tokens, t = job[j].token \/ t = job[j].result,
           staging[j][t] = "intact"
    PROVE  \/ staging'[j][t] = "intact"
           \/ job[j].state \in Settled /\ Renames(j)
           \/ job[j].state = "finalizing" /\ Verified(j)
  <1>1. CASE SameFiles(j)
    BY <1>1 DEF SameFiles
  <1>2. CASE Removes(j)
    <2> PICK p \in Procs : \E S \in {proc[p].stale, proc[p].trash} :
          staging'[j][t] = IF <<j, t>> \in S THEN "none" ELSE staging[j][t]
      BY <1>2 DEF Removes
    <2> PICK S \in {proc[p].stale, proc[p].trash} :
          staging'[j][t] = IF <<j, t>> \in S THEN "none" ELSE staging[j][t]
      OBVIOUS
    <2>1. <<j, t>> \notin S
      <3> SUFFICES ASSUME <<j, t>> \in S PROVE FALSE
        OBVIOUS
      <3>1. Dropped(<<j, t>>[1], <<j, t>>[2])
        BY DEF DroppedPaths
      <3>2. t # 0
        BY DEF Tokens
      <3> QED
        BY <3>1, <3>2 DEF Dropped
    <2> QED
      BY <2>1
  <1>3. CASE Renames(j)
    <2>1. job[j].state \in Settled
      BY <1>3 DEF Renames, VisibleInv, SettledClaims
    <2> QED
      BY <1>3, <2>1
  <1>4. CASE Tidies(j)
    BY <1>4 DEF Tidies
  <1>5. CASE Stages(j)
    BY <1>5 DEF Stages
  <1>6. ~Damages(j) /\ ~WritesEnding(j)
    BY EndingsAreEnded DEF Damages
  <1> QED
    BY <1>1, <1>2, <1>3, <1>4, <1>5, <1>6, FileSteps DEF FileStep
\* An executor that may publish was already that far, or has just staged.
LEMMA PublisherSources ==
    ASSUME TypeOK, [Next]_vars, NEW j \in Jobs, NEW t \in Tokens,
           executor'[j][t] \in {"staged", "publishing"}
    PROVE  executor[j][t] \in {"staged", "publishing"} \/ Stage(j, t)
  <1>a. executor \in [Jobs -> [Tokens -> {"none"} \union Running \union Exited]]
    BY DEF TypeOK
  <1>1. ASSUME Executor(j, t), ~Stage(j, t)
        PROVE  executor[j][t] \in {"staged", "publishing"}
    <2>1. CASE BeginPublish(j, t)
      BY <2>1 DEF BeginPublish, Exec
    <2>2. CASE AssertRunning(j, t) \/ Finalize(j, t) \/ Publish(j, t)
               \/ ExecutorDies(j, t) \/ OrphanStops(j, t)
      <3>1. \E to \in {"computing", "exit75", "exit130", "finalized", "exit0", "error",
                       "killed"} : executor' = [executor EXCEPT ![j][t] = to]
        BY <2>2 DEF AssertRunning, Finalize, Publish, ExecutorDies, OrphanStops, Exec
      <3> QED
        BY <1>a, <3>1
    <2> QED
      BY <1>1, <2>1, <2>2 DEF Executor
  <1> QED
    BY <1>1, ExecutorSources

LEMMA StagedIntactStays ==
    ASSUME TypeOK, VisibleInv, DroppedPaths, StagedIntact, [Next]_vars, damages' = 0
    PROVE  StagedIntact'
  <1> SUFFICES ASSUME NEW j \in Jobs, NEW t \in Tokens,
                      executor'[j][t] \in {"staged", "publishing"}, HasBundle(j),
                      job'[j].state \in {"running", "publishing"}, job'[j].token = t
               PROVE  staging'[j][t] = "intact"
    BY DEF StagedIntact
  <1>a. staging \in [Jobs -> [Tokens -> {"none", "intact", "damaged"}]]
    BY DEF TypeOK
  <1>1. CASE Stage(j, t)
    BY <1>a, <1>1 DEF Stage
  <1>2. CASE executor[j][t] \in {"staged", "publishing"}
    <2>1. ~FreshToken(j)
      <3> SUFFICES ASSUME FreshToken(j) PROVE FALSE
        OBVIOUS
      <3>1. executor'[j][t] = "starting"
        BY DEF FreshToken
      <3> QED
        BY <3>1
    <2>2. job[j].token = t /\ job[j].state \in Leased
      <3>1. t # 0
        BY DEF Tokens
      <3> QED
        BY <2>1, <3>1, TokenSteps DEF TokenStep, KeepsToken, Leased
    <2>3. job[j].state \in {"running", "publishing"}
      BY <2>2, JobMoves DEF Move, StateMove, Leased
    <2>4. staging[j][t] = "intact"
      BY <1>2, <2>2, <2>3 DEF StagedIntact
    <2> QED
      BY <2>2, <2>3, <2>4, StagedFate DEF Settled
  <1> QED
    BY <1>1, <1>2, PublisherSources

LEMMA CommitVerifiedStays ==
    ASSUME TypeOK, EvidenceInv, VisibleInv, DroppedPaths, Undamaged, CommitVerified,
           [Next]_vars, damages' = 0
    PROVE  CommitVerified'
  <1> SUFFICES ASSUME NEW p \in Procs, proc'[p].pc = "commit",
                      HasBundle(proc'[p].claim[1]),
                      job'[proc'[p].claim[1]].state = "finalizing"
               PROVE  Verified(proc[p].claim[1])'
    BY DEF CommitVerified
  <1>1. /\ proc'[p].claim = proc[p].claim /\ proc[p].claim[1] \in Jobs
        /\ \/ proc[p].pc = "commit"
           \/ PromoteLook(p)
           \/ PromoteRename(p) /\ proc[p].pc = "rename"
    <2>1. CASE proc'[p] = proc[p]
      BY <2>1, ProcAt DEF ClaimPCs
    <2>2. CASE ProcStep(p)
      BY <2>2, PromoteSources
    <2> QED
      BY <2>1, <2>2, OneProcess
  <1> PICK j \in Jobs : proc[p].claim[1] = j /\ proc'[p].claim[1] = j
    BY <1>1
  <1>c. HasBundle(j) /\ job'[j].state = "finalizing"
    OBVIOUS
  <1>b. proc[p] \in Proc /\ proc \in [Procs -> Proc]
    BY DEF TypeOK
  <1>2. CASE proc[p].pc = "commit"
    <2>1. job[j].state = "finalizing"
      <3>1. job[j].state \in Settled
        BY <1>2 DEF VisibleInv, SettledClaims
      <3> QED
        BY <1>c, <3>1, JobMoves DEF Move, StateMove, Settled, Leased
    <2>2. Verified(j)
      BY <1>c, <1>2, <2>1 DEF CommitVerified
    <2>3. Verified(j)'
      BY <1>c, <2>2, VerifiedStays
    <2> QED
      BY <2>3 DEF Verified
  <1>3. CASE PromoteLook(p)
    <2>1. Verified(j)
      <3>1. ASSUME ~Verified(j) PROVE \E pc \in {"fail", "rename"} : Goto(p, pc)
        BY <1>c, <1>3, <3>1 DEF PromoteLook
      <3>2. ~\E pc \in {"fail", "rename"} : Goto(p, pc)
        BY <1>b DEF Goto, Proc
      <3> QED
        BY <3>1, <3>2
    <2>2. Verified(j)'
      BY <1>c, <2>1, VerifiedStays
    <2> QED
      BY <2>2 DEF Verified
  <1>4. CASE PromoteRename(p)
    <2> DEFINE t == job[j].result
    <2>1. /\ CanRename(j, t) /\ Rename(j, t)
          /\ StagedBundle(j, t).intact /\ manifest[j] = Success(t)
      <3>1. ~Goto(p, "fail")
        BY <1>b DEF Goto, Proc
      <3> QED
        BY <1>4, <3>1 DEF PromoteRename
    <2>2. manifest'[j] = Success(t)
      BY <1>4, <2>1 DEF PromoteRename, rows
    <2>3. final'[j] = [manifest |-> Success(t), intact |-> TRUE]
      <3>1. final' = [final EXCEPT ![j] = StagedBundle(j, t)]
        BY <2>1 DEF Rename
      <3>2. StagedBundle(j, t) = [manifest |-> Success(t), intact |-> TRUE]
        BY <2>1 DEF StagedBundle
      <3> QED
        BY <3>1, <3>2 DEF TypeOK
    <2>4. Success(t) # NoManifest
      BY DEF Success, NoManifest
    <2> QED
      BY <2>2, <2>3, <2>4 DEF Verified
  <1> QED
    BY <1>1, <1>2, <1>3, <1>4
\* finalize finds nothing published yet and the bundle of its attempt staged;
\* the executor of a job that an older release left never gets there.
LEMMA ShowsStaged ==
    ASSUME TypeOK, EvidenceInv, VisibleInv, StagedIntact, NEW j \in Jobs, HasBundle(j),
           Shows(j)
    PROVE  /\ job[j].state = "publishing" /\ job[j].token \in Tokens
           /\ job'[j].result = job[j].token /\ manifest'[j] = Success(job[j].token)
           /\ final[j] = NoBundle /\ staging[j][job[j].token] = "intact"
  <1> PICK t \in Tokens : /\ job[j].state = "publishing" /\ job[j].token = t
                          /\ executor[j][t] = "publishing" /\ job'[j].result = t
                          /\ manifest'[j] = Success(t)
    BY DEF Shows
  <1>1. staging[j][t] = "intact"
    BY DEF StagedIntact
  <1>2. j \notin Legacy
    BY DEF EvidenceInv, LegacyIdle
  <1>3. final[j] = NoBundle
    BY <1>2 DEF VisibleInv, EarlyClean, Early
  <1> QED
    BY <1>1, <1>3

LEMMA FinalizingRecoverableStays ==
    ASSUME TypeOK, EvidenceInv, VisibleInv, DroppedPaths, Undamaged, StagedIntact,
           FinalizingRecoverable, [Next]_vars, damages = 0, damages' = 0
    PROVE  FinalizingRecoverable'
  <1> SUFFICES ASSUME NEW j \in Jobs, job'[j].state = "finalizing", HasBundle(j)
               PROVE  \/ Verified(j)'
                      \/ /\ final'[j] = NoBundle
                         /\ staging'[j][job'[j].result] = "intact"
                         /\ manifest'[j] = Success(job'[j].result)
    BY DEF FinalizingRecoverable
  <1>1. CASE Shows(j)
    <2> DEFINE t == job[j].token
    <2>1. /\ job[j].state = "publishing" /\ t \in Tokens
          /\ job'[j].result = t /\ manifest'[j] = Success(t)
          /\ final[j] = NoBundle /\ staging[j][t] = "intact"
      BY <1>1, ShowsStaged
    <2>2. final'[j] = NoBundle
      BY <2>1, FinalFate
    <2>3. staging'[j][t] = "intact"
      BY <2>1, StagedFate DEF Settled
    <2> QED
      BY <2>1, <2>2, <2>3
  <1>2. CASE Hides(j)
    BY <1>2 DEF Hides
  <1>3. CASE Records(j) \/ Shown(j)
    <2> DEFINE t == job[j].result
    <2>1. job[j].state = "finalizing" /\ job'[j].result = t
      BY <1>3 DEF Records, Shown, Ends
    <2>2. manifest[j] = Success(t) /\ t \in Tokens
      BY <2>1 DEF VisibleInv, ResultKnown
    <2>3. manifest'[j] = Success(t)
      <3>1. ~Records(j)
        BY <2>1, EndingsAreEnded
      <3> QED
        BY <1>3, <2>2, <3>1 DEF Shown
    <2>4. CASE Verified(j)
      BY <2>4, VerifiedStays
    <2>5. CASE ~Verified(j)
      <3>1. final[j] = NoBundle /\ staging[j][t] = "intact"
        BY <2>1, <2>5 DEF FinalizingRecoverable
      <3>2. CASE final'[j] = [manifest |-> Success(t), intact |-> TRUE]
        <4>1. Success(t) # NoManifest
          BY DEF Success, NoManifest
        <4> QED
          BY <2>3, <3>2, <4>1 DEF Verified
      <3>3. CASE final'[j] = NoBundle
        <4>1. ~Renames(j)
          <5> SUFFICES ASSUME Renames(j) PROVE FALSE
            OBVIOUS
          <5> PICK u \in 0..MaxTokens : final'[j] = StagedBundle(j, u)
            BY DEF Renames
          <5> QED
            BY <3>3 DEF StagedBundle, NoBundle, NoManifest, Success
        <4>2. staging'[j][t] = "intact"
          BY <2>1, <2>2, <2>5, <3>1, <4>1, StagedFate
        <4> QED
          BY <2>1, <2>3, <3>3, <4>2
      <3> QED
        BY <2>1, <3>1, <3>2, <3>3, FinalFate
    <2> QED
      BY <2>4, <2>5
  <1> QED
    BY <1>1, <1>2, <1>3, RowSteps DEF RowStep

LEMMA SucceededVerifiedStays ==
    ASSUME TypeOK, EvidenceInv, VisibleInv, DroppedPaths, Undamaged, CommitVerified,
           SucceededVerified, [Next]_vars, damages = 0, damages' = 0
    PROVE  SucceededVerified'
  <1> SUFFICES ASSUME NEW j \in Jobs, job'[j].state = "succeeded", HasBundle(j)
               PROVE  Verified(j)'
    BY DEF SucceededVerified
  <1>1. CASE job[j].state = "succeeded"
    BY <1>1, VerifiedStays DEF SucceededVerified
  <1>2. CASE job[j].state # "succeeded"
    <2>1. Ends(j, job'[j])
      BY <1>2, RowSteps DEF RowStep, Shows, Hides, Records, Shown
    <2>2. CASE LegacyComplete(j)
      BY <2>2, VerifiedStays DEF LegacyComplete
    <2>3. CASE /\ job[j].state = "finalizing"
               /\ \E p \in Procs : proc[p].pc = "commit" /\ proc[p].claim[1] = j
      BY <2>3, VerifiedStays DEF CommitVerified
    <2> QED
      BY <1>2, <2>1, <2>2, <2>3 DEF Ends
  <1> QED
    BY <1>1, <1>2

\* The parts of IntactInv hold each other up: finalize relies on the staged
\* bundle, the promotion of a finalized job on what finalize left, and success
\* on what the promotion verified.
LEMMA IntactInvStays ==
    ASSUME TypeOK, EvidenceInv, VisibleInv, DroppedPaths, IntactInv, [Next]_vars
    PROVE  IntactInv'
  <1> SUFFICES ASSUME damages' = 0
               PROVE  (/\ Undamaged /\ StagedIntact /\ CommitVerified
                       /\ FinalizingRecoverable /\ SucceededVerified)'
    BY DEF IntactInv
  <1>1. damages = 0
    BY DamagesGrow
  <1>2. Undamaged /\ StagedIntact /\ CommitVerified /\ FinalizingRecoverable
        /\ SucceededVerified
    BY <1>1 DEF IntactInv
  <1> QED
    BY <1>1, <1>2, UndamagedStays, StagedIntactStays, CommitVerifiedStays,
       FinalizingRecoverableStays, SucceededVerifiedStays

LEMMA IntactInvFirst == Init => IntactInv
  <1> SUFFICES ASSUME Init PROVE IntactInv
    OBVIOUS
  <1>1. ASSUME NEW j \in Jobs
        PROVE  /\ job[j].state \in {"publishing", "absent"}
               /\ \A t \in Tokens : staging[j][t] = "none" /\ executor[j][t] = "none"
    BY DEF Init, LegacyJob, NewJob
  <1>2. ASSUME NEW p \in Procs PROVE proc[p].pc = "poll"
    BY DEF Init, Idle
  <1> QED
    BY <1>1, <1>2 DEF IntactInv, Undamaged, StagedIntact, CommitVerified,
                      FinalizingRecoverable, SucceededVerified

LEMMA IntactInvAlways == Spec => []IntactInv
  BY IntactInvFirst, IntactInvStays, TypeCorrect, EvidenceInvAlways, VisibleInvAlways,
     DroppedPathsAlways, PTL DEF Spec

\* While nobody damages a bundle, every finalized job can be completed: what it
\* recorded is published and verified, or is staged with the way free.
THEOREM FinalizingCanBeCompleted == Spec => []FinalizingRecoverable
  <1>1. IntactInv => FinalizingRecoverable
    BY DEF IntactInv, FinalizingRecoverable
  <1> QED
    BY <1>1, IntactInvAlways, PTL

\* While nobody damages a bundle, a succeeded run or export has the bundle its
\* recorded hash describes, whoever promoted it.
THEOREM SucceededIsVerified == Spec => []SucceededVerified
  <1>1. IntactInv => SucceededVerified
    BY DEF IntactInv, SucceededVerified
  <1> QED
    BY <1>1, IntactInvAlways, PTL
=============================================================================
