------------------------------ MODULE TaskBoard -------------------------------
(***************************************************************************)
(* What the fetch queue promises to its users, without claims, row locks,  *)
(* timers or ages: a task is either open (pending), in the hands of at     *)
(* most one worker whose report counts, or settled.  FetchQueue implements *)
(* this specification; Indexer uses it.                                    *)
(***************************************************************************)
EXTENDS Naturals

CONSTANTS Task, Worker, MaxAttempts

VARIABLES
    status,    \* [Task -> BoardStatus]
    tries,     \* [Task -> 0..MaxAttempts], failed attempts since last asked for
    owner,     \* [Task -> SUBSET Worker], workers whose report would count
    busy       \* SUBSET Worker, owners still pulling or reindexing

boardVars == <<status, tries, owner, busy>>

BoardStatus == {"absent", "pending", "in_progress", "completed", "failed"}

BoardInit ==
    /\ status = [t \in Task |-> "absent"]
    /\ tries = [t \in Task |-> 0]
    /\ owner = [t \in Task |-> {}]
    /\ busy = {}

\* A new task, or one known to be done already.
Submit(t) ==
    /\ status[t] = "absent"
    /\ \E s \in {"pending", "completed"} : status' = [status EXCEPT ![t] = s]
    /\ UNCHANGED <<tries, owner, busy>>

\* Do the task (again), from scratch: whoever has it loses it.
Request(t) ==
    /\ status' = [status EXCEPT ![t] = "pending"]
    /\ tries' = [tries EXCEPT ![t] = 0]
    /\ owner' = [owner EXCEPT ![t] = {}]
    /\ busy' = busy \ owner[t]

Take(w, t) ==
    /\ status[t] = "pending"
    /\ \A u \in Task : w \notin owner[u]
    /\ status' = [status EXCEPT ![t] = "in_progress"]
    /\ owner' = [owner EXCEPT ![t] = {w}]
    /\ busy' = busy \union {w}
    /\ UNCHANGED tries

\* The work has ended, well or badly; the report is still to come.
Stop(w) ==
    /\ w \in busy
    /\ busy' = busy \ {w}
    /\ UNCHANGED <<status, tries, owner>>

ReportSuccess(w, t) ==
    /\ w \in owner[t] \ busy
    /\ status' = [status EXCEPT ![t] = "completed"]
    /\ owner' = [owner EXCEPT ![t] = {}]
    /\ UNCHANGED <<tries, busy>>

ReportFailure(w, t) ==
    /\ w \in owner[t] \ busy
    /\ tries' = [tries EXCEPT ![t] = @ + 1]
    /\ status' = [status EXCEPT ![t] =
                     IF tries'[t] = MaxAttempts THEN "failed" ELSE "pending"]
    /\ owner' = [owner EXCEPT ![t] = {}]
    /\ UNCHANGED busy

\* The worker is gone; its tasks stay in_progress with nobody behind them.
Vanish(w) ==
    /\ owner' = [t \in Task |-> owner[t] \ {w}]
    /\ busy' = busy \ {w}
    /\ UNCHANGED <<status, tries>>

\* Tasks nobody is working on are opened again.  A worker that has stopped but
\* has not reported yet may lose its task here.
Reopen(T) ==
    /\ \A t \in T : status[t] = "in_progress" /\ owner[t] \intersect busy = {}
    /\ status' = [t \in Task |-> IF t \in T THEN "pending" ELSE status[t]]
    /\ owner' = [t \in Task |-> IF t \in T THEN {} ELSE owner[t]]
    /\ UNCHANGED <<tries, busy>>

BoardNext ==
    \/ \E t \in Task : Submit(t) \/ Request(t)
    \/ \E w \in Worker, t \in Task :
          Take(w, t) \/ ReportSuccess(w, t) \/ ReportFailure(w, t)
    \/ \E w \in Worker : Stop(w) \/ Vanish(w)
    \/ \E T \in SUBSET Task : Reopen(T)

BoardSpec == BoardInit /\ [][BoardNext]_boardVars
===============================================================================
