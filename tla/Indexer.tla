------------------------------- MODULE Indexer --------------------------------
(***************************************************************************)
(* The background indexer of the meta-registry (indexer.rs) in several     *)
(* replicas on one Postgres database, elected by a session advisory lock   *)
(* (indexer_lease.rs).  Each replica runs Indexer::run: check the lease,   *)
(* run a discovery pass when one is due, drain the fetch queue, backfill   *)
(* config publish times, sleep.  The queue is the abstract TaskBoard that  *)
(* FetchQueue is shown to implement; a package stands for one version tag. *)
(*                                                                         *)
(* The advisory lock belongs to a session.  When the connection breaks,    *)
(* the server keeps the session, and the lock, until it notices: the lock  *)
(* is then an orphan that nobody can renew or take.                        *)
(***************************************************************************)
EXTENDS Integers, FiniteSets

CONSTANTS
    Replica, Package, NoReplica, NoPackage,
    MaxAttempts,    \* fetch_queue.max_attempts
    RefetchFlag,    \* --refetch on the command line of every replica
    Retry,          \* LEADER_RETRY_INTERVAL
    Interval,       \* sync_interval
    WorkMax,        \* longest a package, a task or a config blob takes
    DbMax,          \* longest a database call takes
    MaxQueueErrors, \* consecutive queue errors that end a drain (5)
    MaxMissing,     \* bound: manifests that lack a config time
    MaxFaults,      \* bound: lost sessions and failed calls in a behaviour
    MaxCrashes,     \* bound: crashes in a behaviour
    MaxNotifies     \* bound: notifications in a behaviour

ASSUME SentinelAssumption == NoReplica \notin Replica /\ NoPackage \notin Package
ASSUME AttemptsAssumption == MaxAttempts \in Nat \ {0}
ASSUME FlagAssumption == RefetchFlag \in BOOLEAN
ASSUME TimeAssumption ==
    /\ Retry \in Nat \ {0} /\ Interval \in Nat \ {0}
    /\ WorkMax \in Nat /\ DbMax \in Nat
ASSUME BoundsAssumption ==
    /\ MaxQueueErrors \in Nat \ {0} /\ MaxMissing \in Nat
    /\ MaxFaults \in Nat /\ MaxCrashes \in Nat /\ MaxNotifies \in Nat

VARIABLES
    lock,       \* Replica \union {NoReplica}: whose session holds the lock
    orphan,     \* that session has lost its client
    passAge,    \* 0..Interval: age of indexer_last_discovery_at; Interval: due
    status, tries, owner, busy,    \* the fetch queue, see TaskBoard
    missing,    \* manifests with no config time yet
    published,  \* SUBSET Package: versions upstream
    rep,        \* [Replica -> ReplicaState], what each process has in memory
    sinceStart, \* history, 0..Interval: time since some replica began a pass
    faults, crashes, notifies      \* spent so far

boardVars == <<status, tries, owner, busy>>
leaseVars == <<lock, orphan, faults>>
worldVars == <<published, crashes, notifies>>
vars == <<leaseVars, passAge, boardVars, missing, worldVars, rep, sinceStart>>

Board == INSTANCE TaskBoard WITH Task <- Package, Worker <- Replica

\* Where Indexer::run stands.
Phase == {"down",
          "check",                                  \* check_leadership
          "due",                                    \* time_until_discovery
          "discover", "listing", "enqueue",         \* discover
          "record",                                 \* record_index_discovery
          "queue", "recover", "drain", "task", "settle",   \* process_queue
          "backfill", "config",                     \* backfill_config_created
          "asleep"}

LostCap == Retry + WorkMax + 2 * DbMax + 1

ReplicaState == [
    pc       : Phase,
    spent    : 0..(Retry + WorkMax + DbMax),  \* time in the phase
    leader   : BOOLEAN,           \* Indexer::is_leader
    refetch  : BOOLEAN,           \* Indexer::refetch
    checked  : 0..Retry,          \* last_lease_check.elapsed()
    untilDue : 0..(Interval + Retry),    \* while asleep the length of the nap
    todo     : SUBSET Package,    \* packages left in the pass
    cur      : Package \union {NoPackage},  \* package or task at hand
    batch    : 0..MaxMissing,     \* manifests left to backfill
    errors   : 0..MaxQueueErrors, \* consecutive_queue_errors
    lost     : 0..LostCap,        \* history: time a leader is without the lock
    promised : SUBSET Package]    \* history: upstream when the pass began

Started == [pc |-> "check", spent |-> 0, leader |-> FALSE, refetch |-> RefetchFlag,
            checked |-> 0, untilDue |-> 0, todo |-> {}, cur |-> NoPackage,
            batch |-> 0, errors |-> 0, lost |-> 0, promised |-> {}]

Init ==
    /\ lock = NoReplica /\ orphan = FALSE
    /\ passAge = Interval
    /\ Board!BoardInit
    /\ missing = MaxMissing
    /\ published = {}
    /\ rep = [r \in Replica |-> Started]
    /\ sinceStart = Interval
    /\ faults = 0 /\ crashes = 0 /\ notifies = 0

\* The state of a replica that moves on to another phase.
Moved(state, phase) == [state EXCEPT !.pc = phase, !.spent = 0]

Become(r, state) == rep' = [rep EXCEPT ![r] = state]

\* A call over a connection fails.
Fault == faults < MaxFaults /\ faults' = faults + 1

-------------------------------------------------------------------------------
(* The lease. *)

Holds(r) == lock = r /\ ~orphan

\* Fault: any row the query returns counts as holding the lease.
TryHoldAnyRow(r, held) ==
    /\ held = TRUE
    /\ lock' = IF lock = NoReplica THEN r ELSE lock
    /\ UNCHANGED <<orphan, faults>>

\* IndexerLease::try_hold as check_leadership uses it.  The query renews the
\* lease, takes a free lock, or finds a session on it, possibly an orphaned one
\* of this replica.  When the query or the connection fails the lease, and with
\* it the session, is dropped.
TryHold(r, held) ==
    \/ /\ held = (Holds(r) \/ lock = NoReplica)
       /\ lock' = IF lock = NoReplica THEN r ELSE lock
       /\ UNCHANGED <<orphan, faults>>
    \/ /\ ~held
       /\ Fault
       /\ orphan' = (orphan \/ lock = r)
       /\ UNCHANGED lock

\* The state check_leadership leaves behind.
Led(r, held) ==
    [rep[r] EXCEPT !.leader = held, !.lost = IF Holds(r)' THEN 0 ELSE @]

\* Fault: the lease is not checked again before the pass is recorded.
ConfirmLeaseSkipped(r, held) == held = TRUE /\ UNCHANGED leaseVars

ConfirmLease(r, held) == TryHold(r, held)

\* Fault: a lease checked once is never checked again.
CheckIsOldNever(r) == FALSE

CheckIsOld(r) == rep[r].checked >= Retry

\* Indexer::lease_still_held: an old check is repeated.
LeaseStillHeld(r, held) ==
    IF rep[r].leader /\ CheckIsOld(r)
    THEN TryHold(r, held)
    ELSE held = rep[r].leader /\ UNCHANGED leaseVars

\* The state lease_still_held leaves behind.
Kept(r, held) ==
    IF rep[r].leader /\ CheckIsOld(r) THEN [Led(r, held) EXCEPT !.checked = 0] ELSE rep[r]

-------------------------------------------------------------------------------
(* Indexer::run and Indexer::discover. *)

Check(r) ==
    /\ rep[r].pc = "check"
    /\ \E held \in BOOLEAN :
          /\ TryHold(r, held)
          /\ Become(r, IF held THEN Moved(Led(r, held), "due")
                       ELSE [Moved(Led(r, held), "asleep") EXCEPT !.untilDue = Retry])
    /\ UNCHANGED <<passAge, boardVars, missing, worldVars, sinceStart>>

\* Fault: the elapsed time instead of what is left of the interval.
DiscoveryDelayElapsed(elapsed) == elapsed

DiscoveryDelay(elapsed) == Interval - elapsed

\* time_until_discovery: zero also when the last pass cannot be read.  A pass
\* starts its lease timer here, a database call after the check.
TimeUntilDiscovery(r) ==
    /\ rep[r].pc = "due"
    /\ \E delay \in 0..Interval :
          /\ \/ delay = (IF rep[r].refetch THEN 0 ELSE DiscoveryDelay(passAge))
                /\ UNCHANGED faults
             \/ ~rep[r].refetch /\ Fault /\ delay = 0
          /\ IF delay = 0
               THEN /\ Become(r, [Moved(rep[r], "discover") EXCEPT
                              !.untilDue = 0, !.checked = 0,
                              !.todo = Package, !.promised = published])
                    /\ sinceStart' = 0
               ELSE /\ Become(r, [Moved(rep[r], "queue") EXCEPT !.untilDue = delay])
                    /\ UNCHANGED sinceStart
    /\ UNCHANGED <<lock, orphan, passAge, boardVars, missing, worldVars>>

\* Fault: break instead of return.
AfterLossBreak == "discover"

\* discover returns when the lease is lost on the way.
AfterLoss == "queue"

\* The pass goes on with another package, or stops because the lease is lost.
NextPackage(r) ==
    /\ rep[r].pc = "discover"
    /\ \E p \in rep[r].todo, held \in BOOLEAN :
          /\ LeaseStillHeld(r, held)
          /\ Become(r, IF held
                       THEN [Moved(Kept(r, held), "listing") EXCEPT !.cur = p, !.todo = @ \ {p}]
                       ELSE [Moved(Kept(r, held), AfterLoss) EXCEPT !.todo = {}])
    /\ UNCHANGED <<passAge, boardVars, missing, worldVars, sinceStart>>

\* The package is done with, also when indexing it failed.
PackageDone(r) == [Moved(rep[r], "discover") EXCEPT !.cur = NoPackage]

PackageFailed(r) == [PackageDone(r) EXCEPT !.promised = @ \ {rep[r].cur}]

\* list_tags: a package that has no version yet is skipped.
ListTags(r) ==
    /\ rep[r].pc = "listing"
    /\ \/ /\ Become(r, IF rep[r].cur \in published THEN Moved(rep[r], "enqueue")
                       ELSE PackageDone(r))
          /\ UNCHANGED faults
       \/ Fault /\ Become(r, PackageFailed(r))
    /\ UNCHANGED <<lock, orphan, passAge, boardVars, missing, worldVars, sinceStart>>

\* enqueue_new_tags: a known version is left alone, unless this is a refetch.
Enqueue(r) ==
    /\ rep[r].pc = "enqueue"
    /\ LET p == rep[r].cur IN
       \/ /\ IF rep[r].refetch THEN Board!Request(p)
             ELSE IF status[p] = "absent" THEN Board!Submit(p) ELSE UNCHANGED boardVars
          /\ Become(r, PackageDone(r))
          /\ UNCHANGED faults
       \/ Fault /\ Become(r, PackageFailed(r)) /\ UNCHANGED boardVars
    /\ UNCHANGED <<lock, orphan, passAge, missing, worldVars, sinceStart>>

EndPass(r) ==
    /\ rep[r].pc = "discover"
    /\ rep[r].todo = {}
    /\ \E held \in BOOLEAN :
          /\ ConfirmLease(r, held)
          /\ Become(r, IF held THEN [Moved(Led(r, held), "record") EXCEPT !.refetch = FALSE]
                       ELSE Moved(Led(r, held), "queue"))
    /\ UNCHANGED <<passAge, boardVars, missing, worldVars, sinceStart>>

\* record_index_discovery; its failure is only logged.
Record(r) ==
    /\ rep[r].pc = "record"
    /\ \/ passAge' = 0 /\ UNCHANGED faults
       \/ Fault /\ UNCHANGED passAge
    /\ Become(r, Moved(rep[r], "queue"))
    /\ UNCHANGED <<lock, orphan, boardVars, missing, worldVars, sinceStart>>

-------------------------------------------------------------------------------
(* Indexer::process_queue. *)

StartQueue(r) ==
    /\ rep[r].pc = "queue"
    /\ \E held \in BOOLEAN :
          /\ TryHold(r, held)
          /\ Become(r, Moved(Led(r, held), IF held THEN "recover" ELSE "backfill"))
    /\ UNCHANGED <<passAge, boardVars, missing, worldVars, sinceStart>>

StartDrain(r) ==
    /\ rep[r].pc = "recover"
    /\ Become(r, [Moved(rep[r], "drain") EXCEPT !.checked = 0, !.errors = 0])
    /\ UNCHANGED <<lock, orphan, passAge, missing, worldVars, sinceStart>>

\* recover_in_progress_tasks finds nothing stale, or fails (and is only logged).
RecoverNothing(r) == StartDrain(r) /\ UNCHANGED <<boardVars, faults>>

\* Fault: recovery only looks at tasks this process once claimed.
ClaimedHere(r) == {p \in Package : r \in owner[p]}

Claimed(r) == {p \in Package : status[p] = "in_progress"}

\* Tasks nobody works on are found once they are stale.
RecoverTasks(r) ==
    /\ StartDrain(r)
    /\ \E T \in SUBSET Claimed(r) : T # {} /\ Board!Reopen(T)
    /\ UNCHANGED faults

\* One turn of the loop: a task, an empty queue, or the lease is lost.
Dequeue(r) ==
    /\ rep[r].pc = "drain"
    /\ \E held \in BOOLEAN :
          /\ LeaseStillHeld(r, held)
          /\ \/ /\ held
                /\ \E p \in Package :
                      /\ Board!Take(r, p)
                      /\ Become(r, [Moved(Kept(r, held), "task") EXCEPT !.cur = p])
             \/ /\ held => \A p \in Package : status[p] # "pending"
                /\ Become(r, Moved(Kept(r, held), "backfill"))
                /\ UNCHANGED boardVars
    /\ UNCHANGED <<passAge, missing, worldVars, sinceStart>>

\* Fault: off by one.
TooManyErrorsLate(n) == n > MaxQueueErrors

TooManyErrors(n) == n >= MaxQueueErrors

\* An error of the queue itself: the drain is given up after too many in a row.
Errored(state) ==
    [Moved(state, IF TooManyErrors(state.errors + 1) THEN "backfill" ELSE "drain")
       EXCEPT !.errors = @ + 1, !.cur = NoPackage]

DequeueFails(r) ==
    /\ rep[r].pc = "drain"
    /\ rep[r].leader /\ ~CheckIsOld(r)
    /\ Fault
    /\ Become(r, Errored(rep[r]))
    /\ UNCHANGED <<lock, orphan, passAge, boardVars, missing, worldVars, sinceStart>>

\* The pull or reindex ends, or runs into its timeout.
EndTask(r) ==
    /\ rep[r].pc = "task"
    /\ IF r \in busy THEN Board!Stop(r) ELSE UNCHANGED boardVars
    /\ Become(r, Moved(rep[r], "settle"))
    /\ UNCHANGED <<leaseVars, passAge, missing, worldVars, sinceStart>>

\* complete_task or fail_task; a worker whose claim was revoked changes nothing.
\* What is not upstream cannot be pulled.
Settle(r) ==
    /\ rep[r].pc = "settle"
    /\ LET p == rep[r].cur
           after == [Moved(rep[r], "drain") EXCEPT !.cur = NoPackage]
       IN
       \/ /\ p \in published
          /\ Board!ReportSuccess(r, p) /\ Become(r, [after EXCEPT !.errors = 0]) /\ UNCHANGED faults
       \/ Board!ReportFailure(r, p) /\ Become(r, after) /\ UNCHANGED faults
       \/ /\ r \notin owner[p]
          /\ \E n \in {0, rep[r].errors} : Become(r, [after EXCEPT !.errors = n])
          /\ UNCHANGED <<boardVars, faults>>
       \/ Board!Vanish(r) /\ Become(r, Errored(rep[r])) /\ Fault
    /\ UNCHANGED <<lock, orphan, passAge, missing, worldVars, sinceStart>>

-------------------------------------------------------------------------------
(* Indexer::backfill_config_created, and the sleep that ends a cycle. *)

Lesser(a, b) == IF a < b THEN a ELSE b

Asleep(state) ==
    [Moved(state, "asleep") EXCEPT
       !.untilDue = Lesser(IF @ = 0 THEN Interval ELSE @, Retry)]

\* Only in a cycle that was due for discovery, and with the lease confirmed.
StartBackfill(r) ==
    /\ rep[r].pc = "backfill"
    /\ IF rep[r].untilDue # 0
         THEN Become(r, Asleep(rep[r])) /\ UNCHANGED leaseVars
         ELSE \E held \in BOOLEAN :
                /\ TryHold(r, held)
                /\ Become(r, IF held /\ missing > 0
                             THEN [Moved(Led(r, held), "config") EXCEPT
                                     !.batch = missing, !.checked = 0]
                             ELSE Asleep(Led(r, held)))
    /\ UNCHANGED <<passAge, boardVars, missing, worldVars, sinceStart>>

\* One config blob is fetched and stored, or that fails; or the rest of the
\* batch is given up with the lease.
BackfillConfig(r) ==
    /\ rep[r].pc = "config"
    /\ \E held \in BOOLEAN :
          /\ LeaseStillHeld(r, held)
          /\ missing' \in {missing} \union (IF held /\ missing > 0 THEN {missing - 1} ELSE {})
          /\ LET left  == IF held THEN rep[r].batch - 1 ELSE 0
                 state == [Kept(r, held) EXCEPT !.batch = left]
             IN Become(r, IF left = 0 THEN Asleep(state) ELSE Moved(state, "config"))
    /\ UNCHANGED <<passAge, boardVars, worldVars, sinceStart>>

Wake(r) ==
    /\ rep[r].pc = "asleep"
    /\ rep[r].spent >= rep[r].untilDue
    /\ Become(r, [Moved(rep[r], "check") EXCEPT !.untilDue = 0])
    /\ UNCHANGED <<leaseVars, passAge, boardVars, missing, worldVars, sinceStart>>

-------------------------------------------------------------------------------
(* The world. *)

Publish(p) ==
    /\ p \notin published
    /\ published' = published \union {p}
    /\ UNCHANGED <<leaseVars, passAge, boardVars, missing, crashes, notifies, rep, sinceStart>>

\* The notify endpoint of the HTTP server of some replica: the package is known,
\* its version need not be in the queue, nor upstream.
Notify(p) ==
    /\ notifies < MaxNotifies
    /\ Board!Request(p)
    /\ notifies' = notifies + 1
    /\ UNCHANGED <<leaseVars, passAge, missing, published, crashes, rep, sinceStart>>

\* The connection that holds the lock breaks.
LoseSession ==
    /\ lock # NoReplica /\ ~orphan
    /\ Fault
    /\ orphan' = TRUE
    /\ UNCHANGED <<lock, passAge, boardVars, missing, worldVars, rep, sinceStart>>

\* Postgres ends a session whose client is gone.
EndSession ==
    /\ orphan
    /\ lock' = NoReplica /\ orphan' = FALSE
    /\ UNCHANGED <<faults, passAge, boardVars, missing, worldVars, rep, sinceStart>>

Crash(r) ==
    /\ rep[r].pc # "down"
    /\ crashes < MaxCrashes
    /\ crashes' = crashes + 1
    /\ Board!Vanish(r)
    /\ orphan' = (orphan \/ lock = r)
    /\ Become(r, [Started EXCEPT !.pc = "down"])
    /\ UNCHANGED <<lock, faults, passAge, missing, published, notifies, sinceStart>>

Restart(r) ==
    /\ rep[r].pc = "down"
    /\ Become(r, Started)
    /\ UNCHANGED <<leaseVars, passAge, boardVars, missing, worldVars, sinceStart>>

\* Phases in which the replica works against the upstream registries.
Upstream == {"listing", "task", "config"}

\* The lease timer of a phase runs.
Timed == {"discover", "listing", "enqueue", "drain", "task", "settle", "config"}

\* No replica overstays its phase: work and calls are bounded, naps end.
OnTime(s) ==
    CASE s.pc = "down"       -> TRUE
      [] s.pc = "asleep"     -> s.spent < s.untilDue
      [] s.pc \in Upstream   -> s.spent < WorkMax
      [] OTHER               -> s.spent < DbMax

Capped(n, cap) == IF n < cap THEN n + 1 ELSE cap

Aged(r) ==
    [rep[r] EXCEPT
       !.spent = IF rep[r].pc = "down" THEN 0 ELSE @ + 1,
       !.checked = IF rep[r].pc \in Timed THEN Capped(@, Retry) ELSE @,
       !.lost = IF rep[r].leader /\ ~Holds(r) THEN Capped(@, LostCap) ELSE 0]

Tick ==
    /\ \A r \in Replica : OnTime(rep[r])
    /\ rep' = [r \in Replica |-> Aged(r)]
    /\ passAge' = Capped(passAge, Interval)
    /\ sinceStart' = Capped(sinceStart, Interval)
    /\ UNCHANGED <<leaseVars, boardVars, missing, worldVars>>

-------------------------------------------------------------------------------

Step(r) ==
    \/ Check(r) \/ TimeUntilDiscovery(r)
    \/ NextPackage(r) \/ ListTags(r) \/ Enqueue(r) \/ EndPass(r) \/ Record(r)
    \/ StartQueue(r) \/ RecoverNothing(r) \/ RecoverTasks(r)
    \/ Dequeue(r) \/ DequeueFails(r) \/ EndTask(r) \/ Settle(r)
    \/ StartBackfill(r) \/ BackfillConfig(r) \/ Wake(r)

Next ==
    \/ \E r \in Replica : Step(r) \/ Crash(r) \/ Restart(r)
    \/ \E p \in Package : Publish(p) \/ Notify(p)
    \/ LoseSession \/ EndSession
    \/ Tick

Spec == Init /\ [][Next]_vars

\* run loops for ever, the platform restarts a replica, Postgres notices a dead
\* client, and an abandoned row gets stale while leaders come back to recover.
Fairness ==
    /\ \A r \in Replica :
          WF_vars(Step(r)) /\ WF_vars(Restart(r)) /\ SF_vars(RecoverTasks(r))
    /\ WF_vars(EndSession)
    /\ WF_vars(Tick)

FairSpec == Spec /\ Fairness

-------------------------------------------------------------------------------
(* Properties. *)

\* Type invariant.
TypeOK ==
    /\ lock \in Replica \union {NoReplica}
    /\ orphan \in BOOLEAN
    /\ passAge \in 0..Interval
    /\ status \in [Package -> Board!BoardStatus]
    /\ tries \in [Package -> 0..MaxAttempts]
    /\ owner \in [Package -> SUBSET Replica]
    /\ busy \subseteq Replica
    /\ missing \in 0..MaxMissing
    /\ published \subseteq Package
    /\ rep \in [Replica -> ReplicaState]
    /\ sinceStart \in 0..Interval
    /\ faults \in 0..MaxFaults
    /\ crashes \in 0..MaxCrashes
    /\ notifies \in 0..MaxNotifies

\* No two replicas work upstream at the same time (docs/configuration.md: "A
\* second advisory lock elects a single replica to run the meta-registry's
\* background indexer").  So it is while only processes crash, and no session or
\* call is lost: a crash ends the session and the work together.
SingleIndexer ==
    faults = 0 =>
        \A r, s \in Replica : (rep[r].pc \in Upstream /\ rep[s].pc \in Upstream) => r = s

\* A replica whose session broke works on for less than the retry interval, the
\* work at hand and the database call between its check and its timer (the
\* comment on lease_still_held: "stops working instead of competing").
OverlapIsBounded ==
    \A r \in Replica : rep[r].pc \in Upstream => rep[r].lost < Retry + WorkMax + DbMax

Records(r) == rep[r].pc = "record" /\ rep'[r].pc = "queue" /\ passAge' = 0

\* Whoever records a pass still had the lease one database call ago, however
\* long its last package took.
RecordedByLeader == [][\A r \in Replica : Records(r) => rep[r].lost <= DbMax]_vars

\* A pass is only recorded as complete when every version that was upstream
\* when it began is in the queue, but for the packages it failed to index,
\* however often the lease was lost and won again on the way.
RecordedPassIsComplete ==
    [][\A r \in Replica : Records(r) => \A p \in rep[r].promised : status[p] # "absent"]_vars

\* A pass begins, and it is complete.
Begins(r) == rep[r].pc = "due" /\ rep'[r].pc = "discover"
Completes(r) == rep[r].pc = "discover" /\ rep'[r].pc = "record"

\* The comment on run: "Discovery runs at most once per `sync_interval`,
\* including across restarts".  A pass begins no sooner than one interval after
\* the beginning of the pass before it.
DiscoveryOncePerInterval == [][\A r \in Replica : Begins(r) => sinceStart = Interval]_vars

\* What is left of that promise.  While no session and no call is lost, a pass
\* that --refetch does not ask for is completed no sooner than one interval after
\* the last one was recorded, whenever replicas crash and restart; and if none
\* does, it also begins no sooner than one interval after the last one began.
DiscoveryIsPaced ==
    [][\A r \in Replica : (faults' = 0 /\ ~rep[r].refetch) =>
         /\ Completes(r) => passAge = Interval
         /\ (Begins(r) /\ crashes = 0) => sinceStart = Interval]_vars

\* Discovery is never overdue for ever: some replica completes a pass, although
\* leaders crash and lose their sessions.
IndexStaysFresh == passAge = Interval ~> passAge = 0

\* Every published version is eventually pulled or given up, although leaders
\* crash between discovering, claiming and settling it.
EveryVersionSettles ==
    \A p \in Package : p \in published ~> status[p] \in {"completed", "failed"}

===============================================================================
