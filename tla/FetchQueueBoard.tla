--------------------------- MODULE FetchQueueBoard ----------------------------
(***************************************************************************)
(* The fetch queue implements TaskBoard: the row's status and attempts are *)
(* the board's, and the worker that owns a task is the one whose claim     *)
(* still passes the WHERE clause of complete_task and fail_task.           *)
(***************************************************************************)
EXTENDS FetchQueue

Owners(t) == {w \in Worker : job[w] = t /\ LiveClaim(w)}

Pulling == {w \in Worker : LiveClaim(w) /\ pc[w] \in {"claimed", "working"}}

Board == INSTANCE TaskBoard WITH
    tries <- attempts,
    owner <- [t \in Task |-> Owners(t)],
    busy <- Pulling

\* With prompt timers every behaviour of the queue is one of the board: in
\* particular recovery never reopens a row somebody is still pulling, a report
\* only counts for the one owner, and a refetch takes the row from its owner.
ImplementsBoard == Board!BoardSpec
===============================================================================
