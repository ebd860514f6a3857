-------------------------- MODULE FetchQueueProofs --------------------------
(* Machine-checked proofs about FetchQueue, for every value of its constants, *)
(* and that it implements TaskBoard by the mapping of FetchQueueBoard.        *)
EXTENDS FetchQueueBoard, TLAPS

(***************************************************************************)
(* The strengthening.  TypeOK alone is not inductive: that fail_task stays *)
(* within max_attempts needs AttemptsAgreeWithStatus.                      *)
(***************************************************************************)

\* A busy worker has a job, and a claim it holds was once the row's.
JobsAreTasks ==
    \A w \in Worker :
        /\ pc[w] # "idle" => job[w] \in Task
        /\ HasClaim(w) => held[w] <= claim[job[w]]

\* The row lock: what a dequeue transaction selected stays as it was read until
\* it commits, and no other transaction has selected it.
LocksHold ==
    \A w \in Worker :
        pc[w] = "selected" =>
            /\ status[job[w]] = "pending"
            /\ held[w] = claim[job[w]] + 1
            /\ \A v \in Worker : (pc[v] = "selected" /\ job[v] = job[w]) => v = w

\* The claim of an in_progress row is newer than its last refetch request.
ClaimsFollowRequests ==
    \A t \in Task :
        /\ requested[t] <= claim[t]
        /\ status[t] = "in_progress" => requested[t] < claim[t]

IInv ==
    /\ TypeOK
    /\ AttemptsAgreeWithStatus
    /\ JobsAreTasks
    /\ LocksHold
    /\ ClaimsFollowRequests
    /\ ClaimsAreUnique

(***************************************************************************)
(* Type correctness.                                                       *)
(***************************************************************************)

LEMMA InitIInv == Init => IInv
BY TaskAssumption, AttemptsAssumption, BoundsAssumption, TimeAssumption
   DEF Init, IInv, TypeOK, AttemptsAgreeWithStatus, JobsAreTasks, LocksHold,
       ClaimsFollowRequests, ClaimsAreUnique, HasClaim, Status, Phase, AgeCap, SpentCap

LEMMA TypeStep == TypeOK /\ AttemptsAgreeWithStatus /\ JobsAreTasks /\ [Next]_vars => TypeOK'
<1> SUFFICES ASSUME TypeOK, AttemptsAgreeWithStatus, JobsAreTasks, [Next]_vars
             PROVE  TypeOK'
  OBVIOUS
<1> USE AttemptsAssumption, BoundsAssumption, TimeAssumption
    DEF TypeOK, Status, Phase, AgeCap, SpentCap, rowVars, workerVars
<1>1. ASSUME NEW t \in Task, Produce(t) PROVE TypeOK'
  BY <1>1 DEF Produce, EnqueuePull, EnqueueReindex, RecordCompleted, EnqueueRefetch, Insert
<1>2. ASSUME NEW w \in Worker, NEW t \in Task, SelectPending(w, t) PROVE TypeOK'
  BY <1>2 DEF SelectPending
<1>3. ASSUME NEW w \in Worker, CommitClaim(w) PROVE TypeOK'
  BY <1>3 DEF CommitClaim, JobsAreTasks
<1>4. ASSUME NEW w \in Worker, StartWork(w) PROVE TypeOK'
  BY <1>4 DEF StartWork
<1>5. ASSUME NEW w \in Worker, WorkSucceeds(w) \/ WorkFails(w) \/ WorkTimesOut(w) PROVE TypeOK'
  BY <1>5 DEF WorkSucceeds, WorkFails, WorkTimesOut, EndWork
<1>6. ASSUME NEW w \in Worker, CompleteTask(w) PROVE TypeOK'
  BY <1>6 DEF CompleteTask, Release, JobsAreTasks
<1>7. ASSUME NEW w \in Worker, FailTask(w) PROVE TypeOK'
  <2>1. job[w] \in Task
    BY <1>7 DEF FailTask, JobsAreTasks
  <2>2. StillClaimed(w) => attempts[job[w]] + 1 \in 0..MaxAttempts
    BY <2>1 DEF StillClaimed, AttemptsAgreeWithStatus
  <2> QED
    BY <1>7, <2>1, <2>2 DEF FailTask, Release
<1>8. ASSUME NEW w \in Worker, Crash(w) PROVE TypeOK'
  BY <1>8 DEF Crash, Release
<1>9. ASSUME NEW w \in Worker, Recover(w) PROVE TypeOK'
  BY <1>9 DEF Recover
<1>10. ASSUME Tick PROVE TypeOK'
  BY <1>10 DEF Tick
<1>11. ASSUME UNCHANGED vars PROVE TypeOK'
  BY <1>11 DEF vars
<1> QED
  BY <1>1, <1>2, <1>3, <1>4, <1>5, <1>6, <1>7, <1>8, <1>9, <1>10, <1>11 DEF Next, Step

(***************************************************************************)
(* The other parts of the strengthening, one lemma each.                   *)
(***************************************************************************)

LEMMA AttemptsStep == IInv /\ [Next]_vars => AttemptsAgreeWithStatus'
<1> SUFFICES ASSUME IInv, [Next]_vars PROVE AttemptsAgreeWithStatus'
  OBVIOUS
<1> USE AttemptsAssumption DEF IInv, TypeOK, AttemptsAgreeWithStatus, JobsAreTasks, rowVars, workerVars
<1>1. ASSUME NEW t \in Task, Produce(t) PROVE AttemptsAgreeWithStatus'
  BY <1>1 DEF Produce, EnqueuePull, EnqueueReindex, RecordCompleted, EnqueueRefetch, Insert
<1>2. ASSUME NEW w \in Worker, NEW t \in Task, SelectPending(w, t) PROVE AttemptsAgreeWithStatus'
  BY <1>2 DEF SelectPending, Candidate
<1>3. ASSUME NEW w \in Worker, CommitClaim(w) PROVE AttemptsAgreeWithStatus'
  BY <1>3 DEF CommitClaim, LocksHold
<1>4. ASSUME NEW w \in Worker, StartWork(w) PROVE AttemptsAgreeWithStatus'
  BY <1>4 DEF StartWork
<1>5. ASSUME NEW w \in Worker, WorkSucceeds(w) \/ WorkFails(w) \/ WorkTimesOut(w) PROVE AttemptsAgreeWithStatus'
  BY <1>5 DEF WorkSucceeds, WorkFails, WorkTimesOut, EndWork
<1>6. ASSUME NEW w \in Worker, CompleteTask(w) PROVE AttemptsAgreeWithStatus'
  BY <1>6 DEF CompleteTask, Release, StillClaimed, HasClaim
<1>7. ASSUME NEW w \in Worker, FailTask(w) PROVE AttemptsAgreeWithStatus'
  BY <1>7 DEF FailTask, Release, StillClaimed, OutOfAttempts
<1>8. ASSUME NEW w \in Worker, Crash(w) PROVE AttemptsAgreeWithStatus'
  BY <1>8 DEF Crash, Release
<1>9. ASSUME NEW w \in Worker, Recover(w) PROVE AttemptsAgreeWithStatus'
  BY <1>9 DEF Recover, Abandoned
<1>10. ASSUME Tick PROVE AttemptsAgreeWithStatus'
  BY <1>10 DEF Tick
<1>11. ASSUME UNCHANGED vars PROVE AttemptsAgreeWithStatus'
  BY <1>11 DEF vars
<1> QED
  BY <1>1, <1>2, <1>3, <1>4, <1>5, <1>6, <1>7, <1>8, <1>9, <1>10, <1>11 DEF Next, Step

LEMMA JobsStep == IInv /\ [Next]_vars => JobsAreTasks'
<1> SUFFICES ASSUME IInv, [Next]_vars PROVE JobsAreTasks'
  OBVIOUS
<1> USE TaskAssumption DEF IInv, TypeOK, JobsAreTasks, HasClaim, rowVars, workerVars
<1>1. ASSUME NEW t \in Task, Produce(t) PROVE JobsAreTasks'
  BY <1>1 DEF Produce, EnqueuePull, EnqueueReindex, RecordCompleted, EnqueueRefetch, Insert
<1>2. ASSUME NEW w \in Worker, NEW t \in Task, SelectPending(w, t) PROVE JobsAreTasks'
  BY <1>2 DEF SelectPending, Candidate
<1>3. ASSUME NEW w \in Worker, CommitClaim(w) PROVE JobsAreTasks'
  BY <1>3 DEF CommitClaim, LocksHold
<1>4. ASSUME NEW w \in Worker, StartWork(w) PROVE JobsAreTasks'
  BY <1>4 DEF StartWork
<1>5. ASSUME NEW w \in Worker, WorkSucceeds(w) \/ WorkFails(w) \/ WorkTimesOut(w) PROVE JobsAreTasks'
  BY <1>5 DEF WorkSucceeds, WorkFails, WorkTimesOut, EndWork
<1>6. ASSUME NEW w \in Worker, CompleteTask(w) PROVE JobsAreTasks'
  BY <1>6 DEF CompleteTask, Release, StillClaimed
<1>7. ASSUME NEW w \in Worker, FailTask(w) PROVE JobsAreTasks'
  BY <1>7 DEF FailTask, Release, StillClaimed, OutOfAttempts
<1>8. ASSUME NEW w \in Worker, Crash(w) PROVE JobsAreTasks'
  BY <1>8 DEF Crash, Release
<1>9. ASSUME NEW w \in Worker, Recover(w) PROVE JobsAreTasks'
  BY <1>9 DEF Recover, Abandoned
<1>10. ASSUME Tick PROVE JobsAreTasks'
  BY <1>10 DEF Tick
<1>11. ASSUME UNCHANGED vars PROVE JobsAreTasks'
  BY <1>11 DEF vars
<1> QED
  BY <1>1, <1>2, <1>3, <1>4, <1>5, <1>6, <1>7, <1>8, <1>9, <1>10, <1>11 DEF Next, Step

LEMMA LocksStep == IInv /\ [Next]_vars => LocksHold'
<1> SUFFICES ASSUME IInv, [Next]_vars PROVE LocksHold'
  OBVIOUS
<1> USE TaskAssumption DEF IInv, TypeOK, LocksHold, JobsAreTasks, rowVars, workerVars
<1>1. ASSUME NEW t \in Task, Produce(t) PROVE LocksHold'
  BY <1>1 DEF Produce, EnqueuePull, EnqueueReindex, RecordCompleted, EnqueueRefetch, Insert, Locked
<1>2. ASSUME NEW w \in Worker, NEW t \in Task, SelectPending(w, t) PROVE LocksHold'
  BY <1>2 DEF SelectPending, Candidate, Locked
<1>3. ASSUME NEW w \in Worker, CommitClaim(w) PROVE LocksHold'
  BY <1>3 DEF CommitClaim, LocksHold
<1>4. ASSUME NEW w \in Worker, StartWork(w) PROVE LocksHold'
  BY <1>4 DEF StartWork
<1>5. ASSUME NEW w \in Worker, WorkSucceeds(w) \/ WorkFails(w) \/ WorkTimesOut(w) PROVE LocksHold'
  BY <1>5 DEF WorkSucceeds, WorkFails, WorkTimesOut, EndWork
<1>6. ASSUME NEW w \in Worker, CompleteTask(w) PROVE LocksHold'
  BY <1>6 DEF CompleteTask, Release, StillClaimed
<1>7. ASSUME NEW w \in Worker, FailTask(w) PROVE LocksHold'
  BY <1>7 DEF FailTask, Release, StillClaimed, OutOfAttempts
<1>8. ASSUME NEW w \in Worker, Crash(w) PROVE LocksHold'
  BY <1>8 DEF Crash, Release
<1>9. ASSUME NEW w \in Worker, Recover(w) PROVE LocksHold'
  BY <1>9 DEF Recover, Abandoned
<1>10. ASSUME Tick PROVE LocksHold'
  BY <1>10 DEF Tick
<1>11. ASSUME UNCHANGED vars PROVE LocksHold'
  BY <1>11 DEF vars
<1> QED
  BY <1>1, <1>2, <1>3, <1>4, <1>5, <1>6, <1>7, <1>8, <1>9, <1>10, <1>11 DEF Next, Step

LEMMA RequestsStep == IInv /\ [Next]_vars => ClaimsFollowRequests'
<1> SUFFICES ASSUME IInv, [Next]_vars PROVE ClaimsFollowRequests'
  OBVIOUS
<1> USE TaskAssumption DEF IInv, TypeOK, ClaimsFollowRequests, JobsAreTasks, rowVars, workerVars
<1>1. ASSUME NEW t \in Task, Produce(t) PROVE ClaimsFollowRequests'
  BY <1>1 DEF Produce, EnqueuePull, EnqueueReindex, RecordCompleted, EnqueueRefetch, Insert
<1>2. ASSUME NEW w \in Worker, NEW t \in Task, SelectPending(w, t) PROVE ClaimsFollowRequests'
  BY <1>2 DEF SelectPending, Candidate
<1>3. ASSUME NEW w \in Worker, CommitClaim(w) PROVE ClaimsFollowRequests'
  BY <1>3 DEF CommitClaim, LocksHold
<1>4. ASSUME NEW w \in Worker, StartWork(w) PROVE ClaimsFollowRequests'
  BY <1>4 DEF StartWork
<1>5. ASSUME NEW w \in Worker, WorkSucceeds(w) \/ WorkFails(w) \/ WorkTimesOut(w) PROVE ClaimsFollowRequests'
  BY <1>5 DEF WorkSucceeds, WorkFails, WorkTimesOut, EndWork
<1>6. ASSUME NEW w \in Worker, CompleteTask(w) PROVE ClaimsFollowRequests'
  BY <1>6 DEF CompleteTask, Release, StillClaimed
<1>7. ASSUME NEW w \in Worker, FailTask(w) PROVE ClaimsFollowRequests'
  BY <1>7 DEF FailTask, Release, StillClaimed, OutOfAttempts
<1>8. ASSUME NEW w \in Worker, Crash(w) PROVE ClaimsFollowRequests'
  BY <1>8 DEF Crash, Release
<1>9. ASSUME NEW w \in Worker, Recover(w) PROVE ClaimsFollowRequests'
  BY <1>9 DEF Recover, Abandoned
<1>10. ASSUME Tick PROVE ClaimsFollowRequests'
  BY <1>10 DEF Tick
<1>11. ASSUME UNCHANGED vars PROVE ClaimsFollowRequests'
  BY <1>11 DEF vars
<1> QED
  BY <1>1, <1>2, <1>3, <1>4, <1>5, <1>6, <1>7, <1>8, <1>9, <1>10, <1>11 DEF Next, Step

LEMMA UniqueStep == IInv /\ [Next]_vars => ClaimsAreUnique'
<1> SUFFICES ASSUME IInv, [Next]_vars PROVE ClaimsAreUnique'
  OBVIOUS
<1> USE TaskAssumption DEF IInv, TypeOK, ClaimsAreUnique, JobsAreTasks, HasClaim, rowVars, workerVars
<1>1. ASSUME NEW t \in Task, Produce(t) PROVE ClaimsAreUnique'
  BY <1>1 DEF Produce, EnqueuePull, EnqueueReindex, RecordCompleted, EnqueueRefetch, Insert
<1>2. ASSUME NEW w \in Worker, NEW t \in Task, SelectPending(w, t) PROVE ClaimsAreUnique'
  BY <1>2 DEF SelectPending, Candidate
<1>3. ASSUME NEW w \in Worker, CommitClaim(w) PROVE ClaimsAreUnique'
  BY <1>3 DEF CommitClaim, LocksHold
<1>4. ASSUME NEW w \in Worker, StartWork(w) PROVE ClaimsAreUnique'
  BY <1>4 DEF StartWork
<1>5. ASSUME NEW w \in Worker, WorkSucceeds(w) \/ WorkFails(w) \/ WorkTimesOut(w) PROVE ClaimsAreUnique'
  BY <1>5 DEF WorkSucceeds, WorkFails, WorkTimesOut, EndWork
<1>6. ASSUME NEW w \in Worker, CompleteTask(w) PROVE ClaimsAreUnique'
  BY <1>6 DEF CompleteTask, Release, StillClaimed
<1>7. ASSUME NEW w \in Worker, FailTask(w) PROVE ClaimsAreUnique'
  BY <1>7 DEF FailTask, Release, StillClaimed, OutOfAttempts
<1>8. ASSUME NEW w \in Worker, Crash(w) PROVE ClaimsAreUnique'
  BY <1>8 DEF Crash, Release
<1>9. ASSUME NEW w \in Worker, Recover(w) PROVE ClaimsAreUnique'
  BY <1>9 DEF Recover, Abandoned
<1>10. ASSUME Tick PROVE ClaimsAreUnique'
  BY <1>10 DEF Tick
<1>11. ASSUME UNCHANGED vars PROVE ClaimsAreUnique'
  BY <1>11 DEF vars
<1> QED
  BY <1>1, <1>2, <1>3, <1>4, <1>5, <1>6, <1>7, <1>8, <1>9, <1>10, <1>11 DEF Next, Step

\* The strengthening is inductive.
LEMMA IInvStep == IInv /\ [Next]_vars => IInv'
BY TypeStep, AttemptsStep, JobsStep, LocksStep, RequestsStep, UniqueStep DEF IInv


\* The strengthening holds in every reachable state.
THEOREM Invariance == Spec => []IInv
BY InitIInv, IInvStep, PTL DEF Spec

(***************************************************************************)
(* What follows from the strengthening alone: no assumption on time is     *)
(* used, so these hold for suspended and arbitrarily late workers too.     *)
(***************************************************************************)

\* Every variable keeps its type; in particular attempts never exceeds
\* max_attempts, whatever crashes, recoveries and refetches intervene.
THEOREM TypeCorrectness == Spec => []TypeOK
<1>1. IInv => TypeOK
  BY DEF IInv
<1> QED
  BY <1>1, Invariance, PTL

\* No two workers ever hold the same claim of the same row.
THEOREM ClaimUniqueness == Spec => []ClaimsAreUnique
<1>1. IInv => ClaimsAreUnique
  BY DEF IInv
<1> QED
  BY <1>1, Invariance, PTL

\* A row is 'failed' exactly when its attempts are used up.
THEOREM AttemptsCorrectness == Spec => []AttemptsAgreeWithStatus
<1>1. IInv => AttemptsAgreeWithStatus
  BY DEF IInv
<1> QED
  BY <1>1, Invariance, PTL

LEMMA RefetchKeptStep ==
  ASSUME IInv, [Next]_vars, NEW t \in Task,
         status[t] \notin {"absent", "completed"}, status'[t] = "completed"
  PROVE  \E w \in Worker : pc[w] = "done" /\ job[w] = t /\ held[w] > requested[t]
<1> USE DEF IInv, TypeOK, rowVars, workerVars
<1>1. PICK w \in Worker : CompleteTask(w) /\ job[w] = t /\ StillClaimed(w)
  <2>1. PICK w \in Worker : CompleteTask(w)
    BY DEF Next, Produce, Step, EnqueuePull, EnqueueReindex, RecordCompleted, EnqueueRefetch,
           Insert, SelectPending, CommitClaim, StartWork, WorkSucceeds, WorkFails, WorkTimesOut,
           EndWork, FailTask, Crash, Recover, Tick, vars, JobsAreTasks
  <2> QED
    BY <2>1 DEF CompleteTask, JobsAreTasks
<1>2. held[w] = claim[t] /\ requested[t] < claim[t]
  BY <1>1 DEF StillClaimed, ClaimsFollowRequests
<1> QED
  BY <1>1, <1>2 DEF CompleteTask

\* A refetch request is never answered by a result that predates it.
THEOREM RefetchKept == Spec => RefetchIsNotLost
<1>1. IInv /\ [Next]_vars =>
        [\A t \in Task :
           (status[t] \notin {"absent", "completed"} /\ status'[t] = "completed")
           => \E w \in Worker : pc[w] = "done" /\ job[w] = t /\ held[w] > requested[t]]_vars
  BY RefetchKeptStep
<1> QED
  BY <1>1, Invariance, PTL DEF Spec, RefetchIsNotLost

LEMMA NewestSettlesStep ==
  ASSUME IInv, [Next]_vars, NEW t \in Task,
         status[t] = "in_progress", status'[t] # "in_progress", refetches' = refetches
  PROVE  \/ \E w \in Worker : /\ job[w] = t /\ held[w] = claim[t]
                              /\ pc[w] \in {"done", "erred"} /\ pc'[w] = "idle"
         \/ IsStale(t) /\ status'[t] = "pending"
<1> USE DEF IInv, TypeOK, rowVars, workerVars
<1>1. \/ \E w \in Worker : CompleteTask(w) \/ FailTask(w)
      \/ \E w \in Worker : Recover(w)
  BY DEF Next, Produce, Step, EnqueuePull, EnqueueReindex, RecordCompleted, EnqueueRefetch,
         Insert, SelectPending, CommitClaim, StartWork, WorkSucceeds, WorkFails, WorkTimesOut,
         EndWork, Crash, Tick, vars, JobsAreTasks
<1>2. CASE \E w \in Worker : CompleteTask(w) \/ FailTask(w)
  <2>1. PICK w \in Worker : CompleteTask(w) \/ FailTask(w)
    BY <1>2
  <2>2. pc[w] \in {"done", "erred"} /\ pc'[w] = "idle"
    BY <2>1 DEF CompleteTask, FailTask, Release
  <2>3. job[w] = t /\ StillClaimed(w)
    BY <2>1 DEF CompleteTask, FailTask, JobsAreTasks
  <2> QED
    BY <2>2, <2>3 DEF StillClaimed
<1>3. CASE \E w \in Worker : Recover(w)
  BY <1>3 DEF Recover, Abandoned
<1> QED
  BY <1>1, <1>2, <1>3

\* Only the worker of the newest claim settles a row; recovery and refetches aside.
THEOREM NewestSettles == Spec => OnlyNewestClaimSettles
<1>1. IInv /\ [Next]_vars =>
        [\A t \in Task :
           (status[t] = "in_progress" /\ status'[t] # "in_progress" /\ refetches' = refetches)
           => \/ \E w \in Worker : /\ job[w] = t /\ held[w] = claim[t]
                                   /\ pc[w] \in {"done", "erred"} /\ pc'[w] = "idle"
              \/ IsStale(t) /\ status'[t] = "pending"]_vars
  BY NewestSettlesStep
<1> QED
  BY <1>1, Invariance, PTL DEF Spec, OnlyNewestClaimSettles

(***************************************************************************)
(* Time.  With prompt timers, a claim that is not the row's current one    *)
(* any more, held by a worker that may still be writing, was revoked by a  *)
(* refetch: recovery never takes a row from a worker that is at work.      *)
(***************************************************************************)

AtWork(w) == pc[w] \in {"claimed", "working"}

WorkIsTimely ==
    \A w \in Worker :
        /\ pc[w] = "idle" => spent[w] = 0
        /\ pc[w] \in {"selected", "claimed"} => spent[w] <= ReplyDelay
        /\ pc[w] = "working" => spent[w] <= TaskTimeout
        /\ (pc[w] = "claimed" /\ StillClaimed(w)) => age[job[w]] <= spent[w]
        /\ (pc[w] = "working" /\ StillClaimed(w)) => age[job[w]] <= ReplyDelay + spent[w]

RevokedByRefetch ==
    \A w \in Worker : (AtWork(w) /\ ~StillClaimed(w)) => held[w] <= requested[job[w]]

\* The assumption that relates the timers: the row of a worker at work on its
\* live claim is never stale.
LEMMA LiveWorkIsFresh ==
  ASSUME IInv, WorkIsTimely, NEW w \in Worker, AtWork(w), StillClaimed(w)
  PROVE  ~IsStale(job[w])
BY TimeAssumption DEF IInv, TypeOK, AgeCap, SpentCap, WorkIsTimely, AtWork, IsStale, JobsAreTasks

LEMMA TimelyStep ==
  ASSUME Prompt, IInv, WorkIsTimely, [Next]_vars
  PROVE  WorkIsTimely'
<1> USE TimeAssumption, TaskAssumption
    DEF IInv, TypeOK, AgeCap, SpentCap, JobsAreTasks, WorkIsTimely, StillClaimed, HasClaim,
        rowVars, workerVars
<1>1. ASSUME NEW t \in Task, Produce(t) PROVE WorkIsTimely'
  BY <1>1 DEF Produce, EnqueuePull, EnqueueReindex, RecordCompleted, EnqueueRefetch, Insert
<1>2. ASSUME NEW w \in Worker, NEW t \in Task, SelectPending(w, t) PROVE WorkIsTimely'
  BY <1>2 DEF SelectPending, Candidate
<1>3. ASSUME NEW w \in Worker, CommitClaim(w) PROVE WorkIsTimely'
  BY <1>3 DEF CommitClaim, LocksHold, ClaimsAreUnique
<1>4. ASSUME NEW w \in Worker, StartWork(w) PROVE WorkIsTimely'
  BY <1>4 DEF StartWork
<1>5. ASSUME NEW w \in Worker, WorkSucceeds(w) \/ WorkFails(w) \/ WorkTimesOut(w) PROVE WorkIsTimely'
  BY <1>5 DEF WorkSucceeds, WorkFails, WorkTimesOut, EndWork
<1>6. ASSUME NEW w \in Worker, CompleteTask(w) PROVE WorkIsTimely'
  BY <1>6 DEF CompleteTask, Release
<1>7. ASSUME NEW w \in Worker, FailTask(w) PROVE WorkIsTimely'
  BY <1>7 DEF FailTask, Release, OutOfAttempts
<1>8. ASSUME NEW w \in Worker, Crash(w) PROVE WorkIsTimely'
  BY <1>8 DEF Crash, Release
<1>9. ASSUME NEW w \in Worker, Recover(w) PROVE WorkIsTimely'
  BY <1>9 DEF Recover, Abandoned, IsStale
<1>10. ASSUME Tick PROVE WorkIsTimely'
  BY <1>10 DEF Tick, OnTime
<1>11. ASSUME UNCHANGED vars PROVE WorkIsTimely'
  BY <1>11 DEF vars
<1> QED
  BY <1>1, <1>2, <1>3, <1>4, <1>5, <1>6, <1>7, <1>8, <1>9, <1>10, <1>11 DEF Next, Step

LEMMA RevokedStep ==
  ASSUME Prompt, IInv, WorkIsTimely, RevokedByRefetch, [Next]_vars
  PROVE  RevokedByRefetch'
<1> USE TimeAssumption, TaskAssumption
    DEF IInv, TypeOK, JobsAreTasks, ClaimsFollowRequests, RevokedByRefetch, StillClaimed, HasClaim,
        AtWork, rowVars, workerVars
<1>1. ASSUME NEW t \in Task, Produce(t) PROVE RevokedByRefetch'
  BY <1>1 DEF Produce, EnqueuePull, EnqueueReindex, RecordCompleted, EnqueueRefetch, Insert
<1>2. ASSUME NEW w \in Worker, NEW t \in Task, SelectPending(w, t) PROVE RevokedByRefetch'
  BY <1>2 DEF SelectPending, Candidate
<1>3. ASSUME NEW w \in Worker, CommitClaim(w) PROVE RevokedByRefetch'
  BY <1>3 DEF CommitClaim, LocksHold
<1>4. ASSUME NEW w \in Worker, StartWork(w) PROVE RevokedByRefetch'
  BY <1>4 DEF StartWork
<1>5. ASSUME NEW w \in Worker, WorkSucceeds(w) \/ WorkFails(w) \/ WorkTimesOut(w) PROVE RevokedByRefetch'
  BY <1>5 DEF WorkSucceeds, WorkFails, WorkTimesOut, EndWork
<1>6. ASSUME NEW w \in Worker, CompleteTask(w) PROVE RevokedByRefetch'
  BY <1>6 DEF CompleteTask, Release, ClaimsAreUnique
<1>7. ASSUME NEW w \in Worker, FailTask(w) PROVE RevokedByRefetch'
  BY <1>7 DEF FailTask, Release, OutOfAttempts, ClaimsAreUnique
<1>8. ASSUME NEW w \in Worker, Crash(w) PROVE RevokedByRefetch'
  BY <1>8 DEF Crash, Release
<1>9. ASSUME NEW w \in Worker, Recover(w) PROVE RevokedByRefetch'
  <2>1. \A v \in Worker : (AtWork(v) /\ StillClaimed(v)) => ~Abandoned(job[v])
    BY LiveWorkIsFresh DEF Abandoned
  <2> QED
    BY <1>9, <2>1 DEF Recover, Abandoned
<1>10. ASSUME Tick PROVE RevokedByRefetch'
  BY <1>10 DEF Tick, OnTime
<1>11. ASSUME UNCHANGED vars PROVE RevokedByRefetch'
  BY <1>11 DEF vars
<1> QED
  BY <1>1, <1>2, <1>3, <1>4, <1>5, <1>6, <1>7, <1>8, <1>9, <1>10, <1>11 DEF Next, Step

LEMMA NoOverlapFromRevoked ==
  ASSUME IInv, RevokedByRefetch PROVE OverlapOnlyByRefetch
BY DEF IInv, TypeOK, JobsAreTasks, HasClaim, StillClaimed, AtWork, ClaimsAreUnique,
       RevokedByRefetch, OverlapOnlyByRefetch

\* Provided timers are prompt and the task timeout plus the delay of the
\* claim's reply fit into the staleness threshold, two workers only ever pull
\* the same version at once because a refetch was asked for.
THEOREM NoOverlap == ASSUME Prompt PROVE Spec => []OverlapOnlyByRefetch
<1>1. Init => WorkIsTimely /\ RevokedByRefetch
  BY DEF Init, WorkIsTimely, RevokedByRefetch, AtWork
<1>2. IInv /\ WorkIsTimely /\ RevokedByRefetch /\ [Next]_vars
        => WorkIsTimely' /\ RevokedByRefetch'
  BY TimelyStep, RevokedStep, Prompt
<1>3. IInv /\ RevokedByRefetch => OverlapOnlyByRefetch
  BY NoOverlapFromRevoked
<1> QED
  BY <1>1, <1>2, <1>3, Invariance, PTL DEF Spec

(***************************************************************************)
(* The fetch queue implements TaskBoard: what each step does to the board. *)
(***************************************************************************)

\* What a step does to the board, as the mapping sees it.
OwnersAre(f) == \A t \in Task : Owners(t)' = f[t]
OwnersStay == \A t \in Task : Owners(t)' = Owners(t)

BoardStays == status' = status /\ attempts' = attempts /\ OwnersStay /\ Pulling' = Pulling

LEMMA StayIsStutter == ASSUME BoardStays PROVE UNCHANGED Board!boardVars
BY DEF BoardStays, OwnersStay, Board!boardVars

\* A worker whose claim counts works on a row that is in progress.
LEMMA LiveJobs ==
    ASSUME IInv, NEW w \in Worker, LiveClaim(w)
    PROVE  job[w] \in Task /\ status[job[w]] = "in_progress" /\ pc[w] # "idle"
BY DEF IInv, JobsAreTasks, LiveClaim, HasClaim, StillClaimed

\* Nobody owns a row that is not in progress.
LEMMA OnlyOpenWork ==
    ASSUME IInv, NEW t \in Task, status[t] # "in_progress" PROVE Owners(t) = {}
BY DEF Owners, LiveClaim, StillClaimed

\* Claims are unique, so a row has one owner.
LEMMA OneOwner ==
    ASSUME IInv, NEW w \in Worker, LiveClaim(w)
    PROVE  Owners(job[w]) = {w}
BY DEF IInv, ClaimsAreUnique, Owners, LiveClaim, StillClaimed

LEMMA InitBoard == Init => Board!BoardInit
<1> SUFFICES ASSUME Init PROVE Board!BoardInit
  OBVIOUS
<1>1. \A t \in Task : Owners(t) = {}
  BY DEF Init, Owners, LiveClaim, HasClaim
<1>2. Pulling = {}
  BY DEF Init, Pulling
<1> QED
  BY <1>1, <1>2 DEF Init, Board!BoardInit

(***************************************************************************)
(* Producers.                                                              *)
(***************************************************************************)

LEMMA InsertIsSubmit ==
    ASSUME IInv, NEW t \in Task, NEW s \in {"pending", "completed"}, NEW x,
           Insert(t, s, x), UNCHANGED workerVars
    PROVE  Board!Submit(t)
<1> USE DEF Insert, workerVars
<1>1. \A w \in Worker : LiveClaim(w)' <=> LiveClaim(w)
  BY DEF IInv, TypeOK, JobsAreTasks, LiveClaim, HasClaim, StillClaimed
<1>2. OwnersStay /\ Pulling' = Pulling
  BY <1>1 DEF OwnersStay, Owners, Pulling
<1> QED
  BY <1>2 DEF OwnersStay, Board!Submit

LEMMA ResetIsRequest ==
    ASSUME IInv, NEW t \in Task, EnqueueRefetch(t), status[t] # "absent"
    PROVE  Board!Request(t)
<1> USE DEF EnqueueRefetch, workerVars
<1>1. \A w \in Worker : LiveClaim(w)' <=> LiveClaim(w) /\ job[w] # t
  BY DEF IInv, TypeOK, JobsAreTasks, LiveClaim, HasClaim, StillClaimed
<1>2. \A u \in Task : Owners(u)' = IF u = t THEN {} ELSE Owners(u)
  BY <1>1 DEF Owners
<1>3. Pulling' = Pulling \ Owners(t)
  BY <1>1 DEF Pulling, Owners
<1> QED
  BY <1>2, <1>3 DEF Board!Request

LEMMA ProduceOnBoard ==
    ASSUME IInv, NEW t \in Task, Produce(t) PROVE Board!Submit(t) \/ Board!Request(t)
<1>1. CASE EnqueuePull(t) \/ EnqueueReindex(t) \/ RecordCompleted(t)
  BY <1>1, InsertIsSubmit DEF EnqueuePull, EnqueueReindex, RecordCompleted
<1>2. CASE EnqueueRefetch(t)
  BY <1>2, InsertIsSubmit, ResetIsRequest DEF EnqueueRefetch
<1> QED
  BY <1>1, <1>2 DEF Produce

(***************************************************************************)
(* Workers.                                                                *)
(***************************************************************************)

LEMMA SelectIsHidden ==
    ASSUME IInv, NEW w \in Worker, NEW t \in Task, SelectPending(w, t) PROVE BoardStays
<1>1. \A v \in Worker : LiveClaim(v)' <=> LiveClaim(v)
  BY DEF SelectPending, rowVars, IInv, TypeOK, LiveClaim, HasClaim, StillClaimed
<1>2. \A v \in Worker : LiveClaim(v) => job'[v] = job[v] /\ pc'[v] = pc[v]
  BY DEF SelectPending, IInv, TypeOK, LiveClaim, HasClaim
<1> QED
  BY <1>1, <1>2 DEF SelectPending, rowVars, BoardStays, OwnersStay, Owners, Pulling

\* A dequeue that commits makes its worker the one owner of the row.
LEMMA CommitIsTake ==
    ASSUME IInv, NEW w \in Worker, CommitClaim(w)
    PROVE  job[w] \in Task /\ Board!Take(w, job[w])
<1>1. /\ job[w] \in Task /\ pc[w] = "selected" /\ status[job[w]] = "pending"
      /\ held[w] = claim[job[w]] + 1
  BY DEF CommitClaim, IInv, JobsAreTasks, LocksHold
<1> DEFINE t == job[w]
<1>2. /\ status' = [status EXCEPT ![t] = "in_progress"]
      /\ claim' = [claim EXCEPT ![t] = held[w]]
      /\ pc' = [pc EXCEPT ![w] = "claimed"]
      /\ UNCHANGED <<attempts, job, held>>
  BY DEF CommitClaim
<1>3. \A v \in Worker : LiveClaim(v)' <=> v = w \/ LiveClaim(v)
  <2>1. LiveClaim(w)' /\ ~LiveClaim(w)
    BY <1>1, <1>2 DEF IInv, TypeOK, LiveClaim, HasClaim, StillClaimed
  <2>2. ASSUME NEW v \in Worker \ {w} PROVE LiveClaim(v)' <=> LiveClaim(v)
    BY <1>1, <1>2 DEF IInv, TypeOK, JobsAreTasks, LiveClaim, HasClaim, StillClaimed
  <2> QED
    BY <2>1, <2>2
<1>4. Owners(t) = {}
  BY <1>1, OnlyOpenWork
<1>5. \A u \in Task : Owners(u)' = IF u = t THEN {w} ELSE Owners(u)
  BY <1>2, <1>3, <1>4 DEF Owners
<1>6. Pulling' = Pulling \union {w}
  BY <1>1, <1>2, <1>3 DEF Pulling, IInv, TypeOK
<1>7. \A u \in Task : w \notin Owners(u)
  BY <1>1 DEF Owners, LiveClaim, HasClaim
<1> QED
  BY <1>1, <1>2, <1>5, <1>6, <1>7 DEF Board!Take

LEMMA StartIsHidden ==
    ASSUME IInv, NEW w \in Worker, StartWork(w) PROVE BoardStays
<1>1. \A v \in Worker : LiveClaim(v)' <=> LiveClaim(v)
  BY DEF StartWork, rowVars, IInv, TypeOK, LiveClaim, HasClaim, StillClaimed
<1> QED
  BY <1>1 DEF StartWork, rowVars, IInv, TypeOK, BoardStays, OwnersStay, Owners, Pulling

LEMMA EndIsStop ==
    ASSUME IInv, NEW w \in Worker, NEW x \in {"done", "erred"}, EndWork(w, x)
    PROVE  Board!Stop(w) \/ BoardStays
<1>1. \A v \in Worker : LiveClaim(v)' <=> LiveClaim(v)
  BY DEF EndWork, rowVars, IInv, TypeOK, LiveClaim, HasClaim, StillClaimed
<1>2. OwnersStay
  BY <1>1 DEF EndWork, OwnersStay, Owners
<1>3. Pulling' = Pulling \ {w}
  BY <1>1 DEF EndWork, IInv, TypeOK, Pulling
<1> QED
  BY <1>2, <1>3 DEF EndWork, rowVars, BoardStays, OwnersStay, Board!Stop

\* A worker that lets its task go; the row may have been settled by it, in
\* which case nobody else owns it.
LEMMA ReleaseOwners ==
    ASSUME IInv, NEW w \in Worker, Release(w), claim' = claim,
           \A t \in Task : status'[t] # status[t] => t = job[w] /\ LiveClaim(w)
    PROVE  /\ \A t \in Task : Owners(t)' = Owners(t) \ {w}
           /\ Pulling' = Pulling \ {w}
<1>1. ~LiveClaim(w)'
  BY DEF Release, IInv, TypeOK, LiveClaim, HasClaim
<1>2. ASSUME NEW v \in Worker \ {w} PROVE LiveClaim(v)' <=> LiveClaim(v)
  <2>1. pc'[v] = pc[v] /\ job'[v] = job[v] /\ held'[v] = held[v]
    BY DEF Release, IInv, TypeOK
  <2>2. CASE HasClaim(v) /\ job[v] = job[w] /\ LiveClaim(w)
    <3>1. ~StillClaimed(v)
      BY <2>2 DEF IInv, ClaimsAreUnique, LiveClaim, StillClaimed
    <3>2. claim'[job'[v]] # held'[v]
      BY <2>1, <2>2, <3>1 DEF LiveClaim, StillClaimed
    <3> QED
      BY <2>1, <3>1, <3>2 DEF LiveClaim, StillClaimed
  <2>3. CASE HasClaim(v) /\ ~(job[v] = job[w] /\ LiveClaim(w))
    <3>1. job[v] \in Task
      BY <2>3 DEF IInv, JobsAreTasks, HasClaim
    <3> QED
      BY <2>1, <2>3, <3>1 DEF LiveClaim, HasClaim, StillClaimed
  <2>4. CASE ~HasClaim(v)
    BY <2>1, <2>4 DEF LiveClaim, HasClaim
  <2> QED
    BY <2>2, <2>3, <2>4
<1>3. \A v \in Worker \ {w} : pc'[v] = pc[v] /\ job'[v] = job[v]
  BY DEF Release, IInv, TypeOK
<1> QED
  BY <1>1, <1>2, <1>3 DEF Owners, Pulling

\* A worker that is not pulling and has lost its claim takes nothing along.
LEMMA ReleaseHidden ==
    ASSUME IInv, NEW w \in Worker, Release(w), ~LiveClaim(w), UNCHANGED <<status, attempts, claim>>
    PROVE  BoardStays
<1>1. /\ \A t \in Task : Owners(t)' = Owners(t) \ {w}
      /\ Pulling' = Pulling \ {w}
  BY ReleaseOwners
<1> QED
  BY <1>1 DEF BoardStays, OwnersStay, Owners, Pulling

\* The report of the owner leaves the row without one.
LEMMA ReportOwners ==
    ASSUME IInv, NEW w \in Worker, LiveClaim(w), Release(w), claim' = claim,
           pc[w] \in {"done", "erred"},
           \A t \in Task : status'[t] # status[t] => t = job[w]
    PROVE  /\ \A t \in Task : Owners(t)' = IF t = job[w] THEN {} ELSE Owners(t)
           /\ Pulling' = Pulling
           /\ w \in Owners(job[w]) \ Pulling
<1>1. /\ \A t \in Task : Owners(t)' = Owners(t) \ {w}
      /\ Pulling' = Pulling \ {w}
  BY ReleaseOwners
<1>2. Owners(job[w]) = {w}
  BY OneOwner
<1>3. w \notin Pulling
  BY DEF Pulling
<1>4. \A t \in Task : t # job[w] => w \notin Owners(t)
  BY DEF Owners
<1> QED
  BY <1>1, <1>2, <1>3, <1>4

LEMMA CompleteOnBoard ==
    ASSUME IInv, NEW w \in Worker, CompleteTask(w)
    PROVE  (job[w] \in Task /\ Board!ReportSuccess(w, job[w])) \/ BoardStays
<1>1. pc[w] = "done" /\ job[w] \in Task /\ (LiveClaim(w) <=> StillClaimed(w))
  BY DEF CompleteTask, IInv, JobsAreTasks, LiveClaim, HasClaim
<1>2. CASE StillClaimed(w)
  <2>1. status' = [status EXCEPT ![job[w]] = "completed"] /\ Release(w) /\ UNCHANGED <<claim, attempts>>
    BY <1>2 DEF CompleteTask
  <2>2. \A t \in Task : status'[t] # status[t] => t = job[w]
    BY <2>1 DEF IInv, TypeOK
  <2>3. /\ \A t \in Task : Owners(t)' = IF t = job[w] THEN {} ELSE Owners(t)
        /\ Pulling' = Pulling
        /\ w \in Owners(job[w]) \ Pulling
    BY <1>1, <1>2, <2>1, <2>2, ReportOwners
  <2> QED
    BY <1>1, <2>1, <2>3 DEF Board!ReportSuccess
<1>3. CASE ~StillClaimed(w)
  BY <1>1, <1>3, ReleaseHidden DEF CompleteTask
<1> QED
  BY <1>2, <1>3

LEMMA FailOnBoard ==
    ASSUME IInv, NEW w \in Worker, FailTask(w)
    PROVE  (job[w] \in Task /\ Board!ReportFailure(w, job[w])) \/ BoardStays
<1>1. pc[w] = "erred" /\ job[w] \in Task /\ (LiveClaim(w) <=> StillClaimed(w))
  BY DEF FailTask, IInv, JobsAreTasks, LiveClaim, HasClaim
<1>2. CASE StillClaimed(w)
  <2> DEFINE t == job[w]
             n == attempts[t] + 1
  <2>1. /\ attempts' = [attempts EXCEPT ![t] = n]
        /\ status' = [status EXCEPT ![t] = IF OutOfAttempts(n) THEN "failed" ELSE "pending"]
        /\ Release(w) /\ claim' = claim
    BY <1>2 DEF FailTask
  <2>2. n \in 1..MaxAttempts
    BY <1>1, <1>2, AttemptsAssumption DEF StillClaimed, IInv, TypeOK, AttemptsAgreeWithStatus
  <2>3. (OutOfAttempts(n) <=> n = MaxAttempts) /\ attempts'[t] = n
    BY <1>1, <2>1, <2>2, AttemptsAssumption DEF OutOfAttempts, IInv, TypeOK
  <2>4. \A u \in Task : status'[u] # status[u] => u = t
    BY <2>1 DEF IInv, TypeOK
  <2>5. /\ \A u \in Task : Owners(u)' = IF u = t THEN {} ELSE Owners(u)
        /\ Pulling' = Pulling
        /\ w \in Owners(t) \ Pulling
    BY <1>1, <1>2, <2>1, <2>4, ReportOwners
  <2> QED
    BY <1>1, <2>1, <2>3, <2>5 DEF Board!ReportFailure
<1>3. CASE ~StillClaimed(w)
  BY <1>1, <1>3, ReleaseHidden DEF FailTask
<1> QED
  BY <1>2, <1>3

LEMMA CrashIsVanish ==
    ASSUME IInv, NEW w \in Worker, Crash(w) PROVE Board!Vanish(w)
<1>1. /\ \A t \in Task : Owners(t)' = Owners(t) \ {w}
      /\ Pulling' = Pulling \ {w}
  BY ReleaseOwners DEF Crash, rowVars
<1> QED
  BY <1>1 DEF Crash, rowVars, Board!Vanish

(***************************************************************************)
(* Recovery and time.                                                      *)
(***************************************************************************)

\* With prompt timers no row that is being worked on is stale.
LEMMA RecoverIsReopen ==
    ASSUME IInv, WorkIsTimely, NEW w \in Worker, Recover(w)
    PROVE  \E T \in SUBSET Task : Board!Reopen(T)
<1> DEFINE T == {t \in Task : Abandoned(t)}
<1>1. /\ status' = [t \in Task |-> IF t \in T THEN "pending" ELSE status[t]]
      /\ UNCHANGED <<attempts, claim, pc, job, held>>
  BY DEF Recover, workerVars
<1>2. \A v \in Worker : LiveClaim(v)' <=> LiveClaim(v) /\ job[v] \notin T
  BY <1>1, LiveJobs DEF LiveClaim, HasClaim, StillClaimed, IInv, JobsAreTasks, Abandoned
<1>3. \A v \in Worker : v \in Pulling => job[v] \notin T
  BY LiveWorkIsFresh DEF Pulling, AtWork, LiveClaim, Abandoned
<1>4. \A t \in T : status[t] = "in_progress" /\ Owners(t) \intersect Pulling = {}
  BY <1>3 DEF Abandoned, Owners
<1> HIDE DEF T
<1>5. \A t \in Task : Owners(t)' = IF t \in T THEN {} ELSE Owners(t)
  BY <1>1, <1>2 DEF Owners
<1>6. Pulling' = Pulling
  BY <1>1, <1>2, <1>3 DEF Pulling
<1>7. Board!Reopen(T)
  BY <1>1, <1>4, <1>5, <1>6 DEF Board!Reopen, T
<1> QED
  BY <1>7 DEF T

LEMMA TickIsHidden == ASSUME Tick PROVE BoardStays
BY DEF Tick, BoardStays, OwnersStay, Owners, Pulling, LiveClaim, HasClaim, StillClaimed

LEMMA StutterIsHidden == ASSUME UNCHANGED vars PROVE BoardStays
BY DEF vars, rowVars, workerVars, BoardStays, OwnersStay, Owners, Pulling, LiveClaim, HasClaim,
       StillClaimed

(***************************************************************************)
(* The theorem.                                                            *)
(***************************************************************************)

LEMMA StepOnBoard ==
    ASSUME IInv, WorkIsTimely, [Next]_vars
    PROVE  Board!BoardNext \/ BoardStays
<1> USE DEF Board!BoardNext
<1>1. ASSUME NEW t \in Task, Produce(t) PROVE Board!BoardNext \/ BoardStays
  BY <1>1, ProduceOnBoard
<1>2. ASSUME NEW w \in Worker, Step(w) PROVE Board!BoardNext \/ BoardStays
  BY <1>2, SelectIsHidden, CommitIsTake, StartIsHidden, EndIsStop, CompleteOnBoard, FailOnBoard
     DEF Step, WorkSucceeds, WorkFails, WorkTimesOut
<1>3. ASSUME NEW w \in Worker, Crash(w) PROVE Board!BoardNext \/ BoardStays
  BY <1>3, CrashIsVanish
<1>4. ASSUME NEW w \in Worker, Recover(w) PROVE Board!BoardNext \/ BoardStays
  BY <1>4, RecoverIsReopen
<1> QED
  BY <1>1, <1>2, <1>3, <1>4, TickIsHidden, StutterIsHidden DEF Next

\* With prompt timers and TaskTimeout + ReplyDelay <= StaleAfter the queue does
\* what TaskBoard promises, for any number of tasks and workers: one owner whose
\* report counts, no row reopened under a worker that pulls, no report after a
\* refetch.  Without prompt timers recovery does reopen such rows.
THEOREM QueueIsBoard == ASSUME Prompt PROVE Spec => ImplementsBoard
<1>1. Init => WorkIsTimely
  BY DEF Init, WorkIsTimely
<1>2. IInv /\ WorkIsTimely /\ [Next]_vars => WorkIsTimely'
  BY TimelyStep, Prompt
<1>3. IInv /\ WorkIsTimely /\ [Next]_vars => [Board!BoardNext]_(Board!boardVars)
  BY StepOnBoard, StayIsStutter
<1> QED
  BY <1>1, <1>2, <1>3, InitBoard, Invariance, PTL DEF Spec, ImplementsBoard, Board!BoardSpec
===============================================================================
