------------------------------ MODULE FetchQueue ------------------------------
(***************************************************************************)
(* The persistent fetch queue of the meta-registry: the fetch_queue table  *)
(* of wasm-package-manager (storage/store.rs) and the workers that drain   *)
(* it (Manager::process_next_task).  A row stands for one (registry,       *)
(* repository, tag, kind) key.  Several workers may drain the table at the *)
(* same time: that is what happens while the indexer lease changes hands.  *)
(*                                                                         *)
(* Time is kept as two ages that stop growing once they can no longer be   *)
(* told apart: how long ago an in_progress row was written (updated_at,    *)
(* the database clock) and how long a worker has been in its phase.        *)
(***************************************************************************)
EXTENDS Integers, FiniteSets

CONSTANTS
    PullTask,      \* queue keys of kind 'pull'
    ReindexTask,   \* queue keys of kind 'reindex'
    Worker,        \* indexers that may call process_next_task
    NoTask,        \* the job of a worker that has none
    MaxAttempts,   \* fetch_queue.max_attempts (default 3)
    TaskTimeout,   \* TASK_TIMEOUT_SECS
    StaleAfter,    \* STALE_TASK_SECS
    ReplyDelay,    \* longest from BEGIN of a dequeue until the worker has its reply
    SettleDelay,   \* longest complete_task or fail_task takes
    Prompt,        \* TRUE: no timer is late; FALSE: a worker may be suspended
    MaxFaults,     \* bound: crashes and database errors in a behaviour
    MaxRefetches,  \* bound: refetch requests in a behaviour
    MaxClaims      \* bound: dequeues of one row in a behaviour

Task == PullTask \union ReindexTask

ASSUME TaskAssumption == NoTask \notin Task
ASSUME AttemptsAssumption == MaxAttempts \in Nat \ {0}
ASSUME BoundsAssumption ==
    MaxFaults \in Nat /\ MaxRefetches \in Nat /\ MaxClaims \in Nat
ASSUME PromptAssumption == Prompt \in BOOLEAN
\* index.rs asserts TASK_TIMEOUT_SECS < STALE_TASK_SECS at compile time.  The
\* worker's timer starts when the dequeue has returned, while updated_at is
\* the start of its transaction: the difference has to cover that delay.
ASSUME TimeAssumption ==
    /\ TaskTimeout \in Nat \ {0}
    /\ ReplyDelay \in Nat
    /\ SettleDelay \in Nat
    /\ StaleAfter \in Nat
    /\ TaskTimeout + ReplyDelay <= StaleAfter

VARIABLES
    (* The fetch_queue table. *)
    status,     \* [Task -> Status]; "absent" when there is no row
    claim,      \* [Task -> Nat], bumped by every dequeue
    attempts,   \* [Task -> 0..MaxAttempts]
    priority,   \* [Task -> {-1, 0}]; lower is served first
    created,    \* [Task -> Nat], rank of created_at among the rows
    age,        \* [Task -> Nat], time since an in_progress row was written
    (* The workers. *)
    pc,         \* [Worker -> Phase]
    job,        \* [Worker -> Task \union {NoTask}], FetchTask::id
    held,       \* [Worker -> Nat], FetchTask::claim
    spent,      \* [Worker -> Nat], time in the current phase
    (* History and bounds. *)
    requested,  \* [Task -> Nat], claim when a refetch was last asked for
    rows,       \* number of rows inserted so far
    faults, refetches

rowVars == <<status, claim, attempts, priority, created, age>>
workerVars == <<pc, job, held, spent>>
vars == <<rowVars, workerVars, requested, rows, faults, refetches>>

Status == {"absent", "pending", "in_progress", "completed", "failed"}

\* idle: between two calls; selected: inside the dequeue transaction, row lock
\* taken; claimed: claim committed, reply on its way; working: pull or reindex
\* under the task timeout; done and erred: about to settle the row.
Phase == {"idle", "selected", "claimed", "working", "done", "erred"}

AgeCap == StaleAfter + 1
SpentCap == TaskTimeout + ReplyDelay + SettleDelay

Init ==
    /\ status = [t \in Task |-> "absent"]
    /\ claim = [t \in Task |-> 0]
    /\ attempts = [t \in Task |-> 0]
    /\ priority = [t \in Task |-> 0]
    /\ created = [t \in Task |-> 0]
    /\ age = [t \in Task |-> 0]
    /\ pc = [w \in Worker |-> "idle"]
    /\ job = [w \in Worker |-> NoTask]
    /\ held = [w \in Worker |-> 0]
    /\ spent = [w \in Worker |-> 0]
    /\ requested = [t \in Task |-> 0]
    /\ rows = 0
    /\ faults = 0
    /\ refetches = 0

-------------------------------------------------------------------------------
(* Producers. *)

\* INSERT ... ON CONFLICT DO NOTHING: a present row is left as it is.
Insert(t, s, p) ==
    /\ status[t] = "absent"
    /\ status' = [status EXCEPT ![t] = s]
    /\ priority' = [priority EXCEPT ![t] = p]
    /\ created' = [created EXCEPT ![t] = rows + 1]
    /\ rows' = rows + 1
    /\ UNCHANGED <<claim, attempts, age>>

\* Discovery found a new version.
EnqueuePull(t) ==
    /\ t \in PullTask
    /\ Insert(t, "pending", 0)
    /\ UNCHANGED <<workerVars, requested, faults, refetches>>

\* --reindex-wit-on-startup enqueues the cached tags that have no row.
EnqueueReindex(t) ==
    /\ t \in ReindexTask
    /\ Insert(t, "pending", 0)
    /\ UNCHANGED <<workerVars, requested, faults, refetches>>

\* A version pulled before the queue tracked it enters the history as done.
RecordCompleted(t) ==
    /\ t \in PullTask
    /\ Insert(t, "completed", 0)
    /\ UNCHANGED <<workerVars, requested, faults, refetches>>

\* A worker holds the row lock of t (SELECT ... FOR UPDATE SKIP LOCKED).
Locked(t) == \E w \in Worker : pc[w] = "selected" /\ job[w] = t

\* A refetch (or a notification) resets whatever row there is.  The update
\* waits for the row lock.  The claim counter is not touched: it is the status
\* that fences the worker whose claim is thereby revoked.
EnqueueRefetch(t) ==
    /\ t \in PullTask
    /\ refetches < MaxRefetches
    /\ ~Locked(t)
    /\ IF status[t] = "absent"
         THEN Insert(t, "pending", -1)
         ELSE /\ status' = [status EXCEPT ![t] = "pending"]
              /\ priority' = [priority EXCEPT ![t] = -1]
              /\ attempts' = [attempts EXCEPT ![t] = 0]
              /\ age' = [age EXCEPT ![t] = 0]
              /\ UNCHANGED <<claim, created, rows>>
    /\ requested' = [requested EXCEPT ![t] = claim[t]]
    /\ refetches' = refetches + 1
    /\ UNCHANGED <<workerVars, faults>>

-------------------------------------------------------------------------------
(* Workers: Store::dequeue_next, one transaction of two statements. *)

ServedBefore(t, u) ==
    \/ priority[t] < priority[u]
    \/ priority[t] = priority[u] /\ created[t] <= created[u]

\* Fault: the SELECT forgets FOR UPDATE SKIP LOCKED.
CandidateUnlocked(t) == status[t] = "pending"

Candidate(t) == status[t] = "pending" /\ ~Locked(t)

\* BEGIN, then SELECT the first pending row nobody has locked, and lock it.
\* The claim number is computed from the row as it was read here.
SelectPending(w, t) ==
    /\ pc[w] = "idle"
    /\ claim[t] < MaxClaims
    /\ Candidate(t)
    /\ \A u \in Task : Candidate(u) => ServedBefore(t, u)
    /\ pc' = [pc EXCEPT ![w] = "selected"]
    /\ job' = [job EXCEPT ![w] = t]
    /\ held' = [held EXCEPT ![w] = claim[t] + 1]
    /\ UNCHANGED <<rowVars, spent, requested, rows, faults, refetches>>

\* UPDATE the row and COMMIT: the claim is the worker's, the lock is released.
\* The trigger stamps updated_at with the start of the transaction.
CommitClaim(w) ==
    /\ pc[w] = "selected"
    /\ status' = [status EXCEPT ![job[w]] = "in_progress"]
    /\ claim' = [claim EXCEPT ![job[w]] = held[w]]
    /\ age' = [age EXCEPT ![job[w]] = IF spent[w] < AgeCap THEN spent[w] ELSE AgeCap]
    /\ pc' = [pc EXCEPT ![w] = "claimed"]
    /\ UNCHANGED <<attempts, priority, created, job, held, spent,
                   requested, rows, faults, refetches>>

-------------------------------------------------------------------------------
(* Workers: Manager::process_next_task after the dequeue. *)

\* The worker leaves its task behind.
Release(w) ==
    /\ pc' = [pc EXCEPT ![w] = "idle"]
    /\ job' = [job EXCEPT ![w] = NoTask]
    /\ held' = [held EXCEPT ![w] = 0]
    /\ spent' = [spent EXCEPT ![w] = 0]

\* The reply of the claim arrives: the pull or reindex and its timer start.
StartWork(w) ==
    /\ pc[w] = "claimed"
    /\ pc' = [pc EXCEPT ![w] = "working"]
    /\ spent' = [spent EXCEPT ![w] = 0]
    /\ UNCHANGED <<rowVars, job, held, requested, rows, faults, refetches>>

EndWork(w, next) ==
    /\ pc[w] = "working"
    /\ pc' = [pc EXCEPT ![w] = next]
    /\ spent' = [spent EXCEPT ![w] = 0]
    /\ UNCHANGED <<rowVars, job, held, requested, rows, faults, refetches>>

WorkSucceeds(w) == EndWork(w, "done")

WorkFails(w) == EndWork(w, "erred")

\* The timeout drops the future of the pull: the worker stops writing for it.
WorkTimesOut(w) == spent[w] >= TaskTimeout /\ EndWork(w, "erred")

\* Fault: the fence forgets that a refetch may have reset the row.
StillClaimedByNumber(w) == claim[job[w]] = held[w]

\* Fault: the fence forgets the claim number.
StillClaimedByStatus(w) == status[job[w]] = "in_progress"

\* The WHERE clause of every settling update.
StillClaimed(w) ==
    /\ status[job[w]] = "in_progress"
    /\ claim[job[w]] = held[w]

CompleteTask(w) ==
    /\ pc[w] = "done"
    /\ IF StillClaimed(w)
         THEN /\ status' = [status EXCEPT ![job[w]] = "completed"]
              /\ age' = [age EXCEPT ![job[w]] = 0]
         ELSE UNCHANGED <<status, age>>
    /\ Release(w)
    /\ UNCHANGED <<claim, attempts, priority, created, requested, rows, faults, refetches>>

\* Fault: one attempt too many.
OutOfAttemptsLate(n) == n > MaxAttempts

OutOfAttempts(n) == n >= MaxAttempts

FailTask(w) ==
    LET t == job[w]
        n == attempts[t] + 1
    IN
    /\ pc[w] = "erred"
    /\ IF StillClaimed(w)
         THEN /\ attempts' = [attempts EXCEPT ![t] = n]
              /\ status' = [status EXCEPT ![t] =
                               IF OutOfAttempts(n) THEN "failed" ELSE "pending"]
              /\ age' = [age EXCEPT ![t] = 0]
         ELSE UNCHANGED <<attempts, status, age>>
    /\ Release(w)
    /\ UNCHANGED <<claim, priority, created, requested, rows, faults, refetches>>

\* The process dies, or the database call of the phase it is in fails: an open
\* transaction rolls back, a claim stays in_progress with nobody behind it.
Crash(w) ==
    /\ pc[w] # "idle"
    /\ faults < MaxFaults
    /\ faults' = faults + 1
    /\ Release(w)
    /\ UNCHANGED <<rowVars, requested, rows, refetches>>

-------------------------------------------------------------------------------
(* Recovery and time. *)

\* Fault: the cutoff is the task timeout.
IsStaleAtTimeout(t) == age[t] >= TaskTimeout

\* updated_at < now() - StaleAfter
IsStale(t) == age[t] > StaleAfter

\* Fault: recovery filters on the wrong status.
AbandonedPending(t) == status[t] = "pending" /\ IsStale(t)

\* Store::reset_stale_in_progress_tasks, run by a worker between two tasks.
\* Neither attempts nor claim changes.
Abandoned(t) == status[t] = "in_progress" /\ IsStale(t)

Recover(w) ==
    /\ pc[w] = "idle"
    /\ \E t \in Task : Abandoned(t)
    /\ status' = [t \in Task |-> IF Abandoned(t) THEN "pending" ELSE status[t]]
    /\ age' = [t \in Task |-> IF Abandoned(t) THEN 0 ELSE age[t]]
    /\ UNCHANGED <<claim, attempts, priority, created, workerVars,
                   requested, rows, faults, refetches>>

\* The worker holds a claim, current or not.
HasClaim(w) == pc[w] \in {"claimed", "working", "done", "erred"}

\* A prompt worker never overstays a phase that has a deadline.
OnTime(w) ==
    /\ pc[w] \in {"selected", "claimed"} => spent[w] < ReplyDelay
    /\ pc[w] = "working" => spent[w] < TaskTimeout
    /\ pc[w] \in {"done", "erred"} => spent[w] < SettleDelay

Tick ==
    /\ Prompt => \A w \in Worker : OnTime(w)
    /\ age' = [t \in Task |->
                  IF status[t] = "in_progress" /\ age[t] < AgeCap
                  THEN age[t] + 1 ELSE age[t]]
    /\ spent' = [w \in Worker |->
                    IF pc[w] # "idle" /\ spent[w] < SpentCap
                    THEN spent[w] + 1 ELSE spent[w]]
    /\ UNCHANGED <<status, claim, attempts, priority, created, pc, job, held,
                   requested, rows, faults, refetches>>

-------------------------------------------------------------------------------

Produce(t) ==
    \/ EnqueuePull(t)
    \/ EnqueueReindex(t)
    \/ RecordCompleted(t)
    \/ EnqueueRefetch(t)

Step(w) ==
    \/ \E t \in Task : SelectPending(w, t)
    \/ CommitClaim(w)
    \/ StartWork(w)
    \/ WorkSucceeds(w)
    \/ WorkFails(w)
    \/ WorkTimesOut(w)
    \/ CompleteTask(w)
    \/ FailTask(w)

Next ==
    \/ \E t \in Task : Produce(t)
    \/ \E w \in Worker : Step(w) \/ Crash(w) \/ Recover(w)
    \/ Tick

Spec == Init /\ [][Next]_vars

\* The indexer calls process_next_task and recover_in_progress_tasks in an
\* endless loop, and clocks run.  Producers, crashes and the outcome of a pull
\* are the environment's.
Fairness ==
    /\ \A w \in Worker : WF_vars(Step(w)) /\ WF_vars(Recover(w))
    /\ WF_vars(Tick)

FairSpec == Spec /\ Fairness

-------------------------------------------------------------------------------
(* Properties. *)

\* Type invariant.
TypeOK ==
    /\ status \in [Task -> Status]
    /\ claim \in [Task -> Nat]
    /\ attempts \in [Task -> 0..MaxAttempts]
    /\ priority \in [Task -> {-1, 0}]
    /\ created \in [Task -> Nat]
    /\ age \in [Task -> 0..AgeCap]
    /\ pc \in [Worker -> Phase]
    /\ job \in [Worker -> Task \union {NoTask}]
    /\ held \in [Worker -> Nat]
    /\ spent \in [Worker -> 0..SpentCap]
    /\ requested \in [Task -> Nat]
    /\ rows \in Nat
    /\ faults \in 0..MaxFaults
    /\ refetches \in 0..MaxRefetches

\* The worker's claim is the row's current one.
LiveClaim(w) == HasClaim(w) /\ StillClaimed(w)

\* Claim numbers identify a dequeue: no two workers ever hold the same claim
\* of the same row, however their dequeue transactions interleave, so at most
\* one of them can pass the WHERE clause of complete_task and fail_task.
ClaimsAreUnique ==
    \A v, w \in Worker :
        (HasClaim(v) /\ HasClaim(w) /\ job[v] = job[w] /\ held[v] = held[w]) => v = w

\* Two workers pull the same version at the same time only when a refetch was
\* asked for after the older of the two claims.  Recovery alone never causes
\* it: the task timeout ends the work before the row can be taken for stale.
\* (manager/index.rs: "a live worker has always abandoned a task ... before
\* anyone else can recover and claim it again".)
OverlapOnlyByRefetch ==
    \A v, w \in Worker :
        (/\ pc[v] = "working" /\ pc[w] = "working"
         /\ job[v] = job[w] /\ v # w)
        => (held[v] <= requested[job[v]] \/ held[w] <= requested[job[w]])

\* A row is given up exactly when its attempts are used up, and a row that is
\* still going to be tried has attempts left.
AttemptsAgreeWithStatus ==
    \A t \in Task :
        /\ status[t] = "failed" <=> attempts[t] = MaxAttempts
        /\ status[t] = "absent" => claim[t] = 0

\* No lost refetch: once a refetch is asked for, an existing row is only
\* completed by a worker that claimed it after the request, whatever an older
\* worker still running reports in the meantime.
RefetchIsNotLost ==
    [][\A t \in Task :
         (status[t] \notin {"absent", "completed"} /\ status'[t] = "completed")
         => \E w \in Worker : pc[w] = "done" /\ job[w] = t /\ held[w] > requested[t]]_vars

\* A result is only ever recorded by the worker of the newest claim, and it
\* leaves every other row alone.
OnlyNewestClaimSettles ==
    [][\A t \in Task :
         (status[t] = "in_progress" /\ status'[t] # "in_progress" /\ refetches' = refetches)
         => \/ \E w \in Worker : /\ job[w] = t /\ held[w] = claim[t]
                                 /\ pc[w] \in {"done", "erred"} /\ pc'[w] = "idle"
            \/ IsStale(t) /\ status'[t] = "pending"]_vars

\* Every version that entered the queue is eventually completed or given up,
\* however its workers crash.
EveryTaskSettles ==
    \A t \in Task :
        status[t] \in {"pending", "in_progress"} ~> status[t] \in {"completed", "failed"}

===============================================================================
