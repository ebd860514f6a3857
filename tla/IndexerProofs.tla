---------------------------- MODULE IndexerProofs -----------------------------
(* Machine-checked proofs about Indexer, for every value of its constants. *)
EXTENDS Indexer, TLAPS

(***************************************************************************)
(* The strengthening: what a replica knows of its lease in each phase.     *)
(***************************************************************************)

\* The longest a replica stays in its phase.
Allowed(s) ==
    IF s.pc = "asleep" THEN s.untilDue ELSE IF s.pc \in Upstream THEN WorkMax ELSE DbMax

OnSchedule(s) ==
    /\ s.spent <= Allowed(s)
    /\ s.pc = "asleep" => s.untilDue <= Retry
    /\ s.pc = "config" => s.batch > 0
    /\ s.pc \in {"drain", "task", "settle"} => s.errors < MaxQueueErrors
    /\ s.pc \in {"listing", "enqueue", "task", "settle"} => s.cur \in Package

\* A database call after a check the lease is as old as the call; while the
\* timer runs it is as old as the timer and that call; and work begins with a
\* timer that has not run out.
Trusted(s) ==
    /\ s.pc \in {"due", "recover", "record"} => s.lost <= s.spent
    /\ s.pc \in Timed /\ s.checked < Retry => s.lost <= s.checked + DbMax
    /\ s.pc \in Upstream => s.leader /\ s.lost < Retry + DbMax + s.spent

Good(s) == s \in ReplicaState /\ OnSchedule(s) /\ Trusted(s)

\* A version that was upstream when the pass began is in the queue, or the pass
\* has yet to come to it; st and pub stand for status and published.
Covered(s, st, pub) ==
    /\ s.promised \subseteq pub
    /\ s.pc = "record" => s.todo = {}
    /\ s.pc \in {"discover", "listing", "enqueue", "record"} =>
          \A p \in s.promised :
              \/ st[p] # "absent" \/ p \in s.todo
              \/ s.pc \in {"listing", "enqueue"} /\ p = s.cur

\* A session that is lost had the lock.  Without faults a leader has it.
LeaseInv ==
    /\ orphan => lock # NoReplica
    /\ faults = 0 => \A r \in Replica : rep[r].leader => Holds(r)

\* A task has an owner only while it is in progress, and attempts are left
\* unless it is settled.
BoardInv ==
    \A p \in Package :
        /\ owner[p] # {} => status[p] = "in_progress"
        /\ status[p] \notin {"completed", "failed"} => tries[p] < MaxAttempts

IInv ==
    /\ TypeOK /\ LeaseInv /\ BoardInv
    /\ \A r \in Replica : OnSchedule(rep[r]) /\ Trusted(rep[r]) /\ Covered(rep[r], status, published)

(***************************************************************************)
(* What a step may do to the lease, the board and the rest.                *)
(***************************************************************************)

LeaseKept(r) ==
    /\ lock' \in Replica \union {NoReplica} /\ orphan' \in BOOLEAN /\ faults' \in 0..MaxFaults
    /\ orphan' => lock' # NoReplica
    /\ faults' = 0 => faults = 0
    /\ \A q \in Replica \ {r} : Holds(q) => Holds(q)'

BoardType ==
    /\ status \in [Package -> Board!BoardStatus]
    /\ tries \in [Package -> 0..MaxAttempts]
    /\ owner \in [Package -> SUBSET Replica]
    /\ busy \subseteq Replica

BoardKept ==
    /\ BoardType' /\ BoardInv'
    /\ \A p \in Package : status[p] # "absent" => status'[p] # "absent"

WorldKept ==
    /\ passAge' \in 0..Interval /\ missing' \in 0..MaxMissing /\ sinceStart' \in 0..Interval
    /\ crashes' \in 0..MaxCrashes /\ notifies' \in 0..MaxNotifies

\* The state of one replica changes, to s.
LEMMA BecomeState ==
    ASSUME IInv, NEW r \in Replica, NEW s \in ReplicaState, Become(r, s)
    PROVE  /\ rep' \in [Replica -> ReplicaState]
           /\ rep'[r] = s
           /\ \A q \in Replica \ {r} : rep'[q] = rep[q]
BY DEF Become, IInv, TypeOK

\* A step of one replica keeps the invariant if its new state is good.
LEMMA StepKeeps ==
    ASSUME IInv, NEW r \in Replica, NEW s, Become(r, s), Good(s),
           LeaseKept(r), BoardKept, WorldKept, published' = published,
           faults' = 0 /\ s.leader => Holds(r)',
           Covered(s, status', published')
    PROVE  IInv'
<1>1. /\ rep' \in [Replica -> ReplicaState]
      /\ rep'[r] = s
      /\ \A q \in Replica \ {r} : rep'[q] = rep[q]
  BY BecomeState DEF Good
<1>2. TypeOK'
  BY <1>1 DEF IInv, TypeOK, LeaseKept, BoardKept, BoardType, WorldKept
<1>3. BoardInv'
  BY DEF BoardKept
<1>4. \A q \in Replica \ {r} : faults' = 0 /\ rep'[q].leader => Holds(q)'
  BY <1>1 DEF IInv, LeaseInv, LeaseKept
<1>5. LeaseInv'
  BY <1>1, <1>4 DEF LeaseInv, LeaseKept
<1>6. \A q \in Replica : OnSchedule(rep'[q]) /\ Trusted(rep'[q])
  BY <1>1 DEF IInv, Good
<1>7. ASSUME NEW q \in Replica PROVE (OnSchedule(rep[q]) /\ Trusted(rep[q]))'
  BY <1>6 DEF OnSchedule, Trusted, Allowed
<1>8. ASSUME NEW q \in Replica \ {r} PROVE Covered(rep'[q], status', published')
  <2>1. Covered(rep[q], status, published) /\ rep'[q] = rep[q] /\ rep[q] \in ReplicaState
    BY <1>1 DEF IInv, TypeOK
  <2>2. rep[q].promised \subseteq Package
    BY <2>1 DEF ReplicaState
  <2> QED
    BY <2>1, <2>2 DEF Covered, BoardKept
<1>9. \A q \in Replica : Covered(rep'[q], status', published')
  BY <1>1, <1>8
<1>10. \A q \in Replica : Covered(rep[q], status, published)'
  BY <1>9 DEF Covered
<1> QED
  BY <1>2, <1>3, <1>5, <1>7, <1>10 DEF IInv

(***************************************************************************)
(* States that follow from another.                                        *)
(***************************************************************************)

LEMMA MovedState ==
    ASSUME NEW s \in ReplicaState, NEW phase \in Phase
    PROVE  /\ Moved(s, phase) \in ReplicaState
           /\ Moved(s, phase).pc = phase /\ Moved(s, phase).spent = 0
           /\ Moved(s, phase).leader = s.leader /\ Moved(s, phase).checked = s.checked
           /\ Moved(s, phase).untilDue = s.untilDue /\ Moved(s, phase).todo = s.todo
           /\ Moved(s, phase).cur = s.cur /\ Moved(s, phase).batch = s.batch
           /\ Moved(s, phase).errors = s.errors /\ Moved(s, phase).lost = s.lost
           /\ Moved(s, phase).promised = s.promised /\ Moved(s, phase).refetch = s.refetch
<1>1. 0 \in 0..(Retry + WorkMax + DbMax)
  BY TimeAssumption
<1>2. Moved(s, phase) \in ReplicaState
  BY <1>1 DEF Moved, ReplicaState
<1> QED
  BY <1>2 DEF Moved, ReplicaState

LEMMA LedState ==
    ASSUME IInv, NEW r \in Replica, NEW held \in BOOLEAN
    PROVE  /\ Led(r, held) \in ReplicaState
           /\ Led(r, held).leader = held
           /\ Holds(r)' => Led(r, held).lost = 0
           /\ Led(r, held).pc = rep[r].pc /\ Led(r, held).checked = rep[r].checked
           /\ Led(r, held).untilDue = rep[r].untilDue /\ Led(r, held).todo = rep[r].todo
           /\ Led(r, held).cur = rep[r].cur /\ Led(r, held).batch = rep[r].batch
           /\ Led(r, held).errors = rep[r].errors /\ Led(r, held).promised = rep[r].promised
<1>1. rep[r] \in ReplicaState
  BY DEF IInv, TypeOK
<1>2. 0 \in 0..LostCap
  BY TimeAssumption DEF LostCap
<1> QED
  BY <1>1, <1>2 DEF Led, ReplicaState

\* Only a replica that holds the lock goes on from a check.
LEMMA TryHoldKeeps ==
    ASSUME IInv, NEW r \in Replica, NEW held \in BOOLEAN, TryHold(r, held)
    PROVE  LeaseKept(r) /\ (held => Holds(r)')
<1>1. /\ lock \in Replica \union {NoReplica} /\ orphan \in BOOLEAN /\ faults \in 0..MaxFaults
      /\ orphan => lock # NoReplica
      /\ r # NoReplica
  BY SentinelAssumption DEF IInv, TypeOK, LeaseInv
<1>2. CASE /\ held = (Holds(r) \/ lock = NoReplica)
           /\ lock' = IF lock = NoReplica THEN r ELSE lock
           /\ UNCHANGED <<orphan, faults>>
  <2>1. held => Holds(r)'
    BY <1>1, <1>2 DEF Holds
  <2>2. \A q \in Replica \ {r} : Holds(q) => Holds(q)'
    BY <1>1, <1>2, SentinelAssumption DEF Holds
  <2> QED
    BY <1>1, <1>2, <2>1, <2>2 DEF LeaseKept
<1>3. CASE ~held /\ Fault /\ orphan' = (orphan \/ lock = r) /\ UNCHANGED lock
  <2>1. faults' \in 0..MaxFaults /\ faults' # 0
    BY <1>1, <1>3, BoundsAssumption DEF Fault
  <2>2. orphan' \in BOOLEAN /\ (orphan' => lock' # NoReplica)
    BY <1>1, <1>3
  <2>3. \A q \in Replica \ {r} : Holds(q) => Holds(q)'
    BY <1>3 DEF Holds
  <2> QED
    BY <1>1, <1>3, <2>1, <2>2, <2>3 DEF LeaseKept
<1> QED
  BY <1>2, <1>3 DEF TryHold

\* The lock stays where it is.
LEMMA QuietLease ==
    ASSUME IInv, NEW r \in Replica, UNCHANGED <<lock, orphan>>, UNCHANGED faults \/ Fault
    PROVE  LeaseKept(r) /\ (faults' = 0 /\ rep[r].leader => Holds(r)')
BY BoundsAssumption DEF IInv, TypeOK, LeaseInv, LeaseKept, Holds, Fault

\* A replica whose lease is still held may begin to work.
LEMMA LeaseStillHeldKeeps ==
    ASSUME IInv, NEW r \in Replica, NEW held \in BOOLEAN, LeaseStillHeld(r, held),
           rep[r].pc \in Timed
    PROVE  /\ LeaseKept(r)
           /\ Kept(r, held) \in ReplicaState
           /\ Kept(r, held).pc = rep[r].pc
           /\ Kept(r, held).untilDue = rep[r].untilDue /\ Kept(r, held).todo = rep[r].todo
           /\ Kept(r, held).cur = rep[r].cur /\ Kept(r, held).batch = rep[r].batch
           /\ Kept(r, held).errors = rep[r].errors
           /\ Kept(r, held).promised = rep[r].promised
           /\ faults' = 0 /\ Kept(r, held).leader => Holds(r)'
           /\ Kept(r, held).checked < Retry =>
                 (held => Kept(r, held).lost <= Kept(r, held).checked + DbMax)
           /\ held => Kept(r, held).leader /\ Kept(r, held).lost < Retry + DbMax
<1>1. CASE rep[r].leader /\ CheckIsOld(r)
  <2>1. TryHold(r, held)
    BY <1>1 DEF LeaseStillHeld
  <2> DEFINE l == Led(r, held)
  <2>2. Kept(r, held) = [l EXCEPT !.checked = 0]
    BY <1>1 DEF Kept
  <2>3. LeaseKept(r) /\ (held => Holds(r)')
    BY <2>1, TryHoldKeeps
  <2>4. /\ l \in ReplicaState
        /\ l.leader = held /\ (held => l.lost = 0)
        /\ l.pc = rep[r].pc
        /\ l.untilDue = rep[r].untilDue /\ l.todo = rep[r].todo
        /\ l.cur = rep[r].cur /\ l.batch = rep[r].batch
        /\ l.errors = rep[r].errors /\ l.promised = rep[r].promised
    BY <2>3, LedState
  <2> HIDE DEF l
  <2> QED
    BY <2>2, <2>3, <2>4, TimeAssumption DEF ReplicaState
<1>2. CASE ~(rep[r].leader /\ CheckIsOld(r))
  <2>1. Kept(r, held) = rep[r] /\ held = rep[r].leader /\ UNCHANGED leaseVars
    BY <1>2 DEF LeaseStillHeld, Kept
  <2>2. LeaseKept(r) /\ (faults' = 0 /\ rep[r].leader => Holds(r)')
    BY <2>1, QuietLease DEF leaseVars
  <2>3. rep[r] \in ReplicaState /\ Trusted(rep[r])
    BY DEF IInv, TypeOK
  <2>4. held => rep[r].checked < Retry
    BY <1>2, <2>1, <2>3, TimeAssumption DEF CheckIsOld, ReplicaState
  <2>5. held => rep[r].lost < Retry + DbMax
    BY <2>3, <2>4, TimeAssumption DEF Trusted, ReplicaState, LostCap
  <2> QED
    BY <2>1, <2>2, <2>3, <2>4, <2>5 DEF Trusted
<1> QED
  BY <1>1, <1>2

(***************************************************************************)
(* The queue.                                                              *)
(***************************************************************************)

LEMMA BoardAsk ==
    ASSUME IInv, NEW p \in Package, Board!Submit(p) \/ Board!Request(p)
    PROVE  BoardKept
<1> USE AttemptsAssumption DEF IInv, TypeOK, BoardInv, BoardKept, BoardType, Board!BoardStatus
<1>1. CASE Board!Submit(p)
  BY <1>1 DEF Board!Submit
<1>2. CASE Board!Request(p)
  BY <1>2 DEF Board!Request
<1> QED
  BY <1>1, <1>2

LEMMA BoardTake ==
    ASSUME IInv, NEW p \in Package, NEW r \in Replica, Board!Take(r, p)
    PROVE  BoardKept
BY DEF IInv, TypeOK, BoardInv, BoardKept, BoardType, Board!BoardStatus, Board!Take

LEMMA BoardLeave ==
    ASSUME IInv, NEW r \in Replica, Board!Stop(r) \/ Board!Vanish(r)
    PROVE  BoardKept
<1> USE DEF IInv, TypeOK, BoardInv, BoardKept, BoardType, Board!BoardStatus
<1>1. CASE Board!Stop(r)
  BY <1>1 DEF Board!Stop
<1>2. CASE Board!Vanish(r)
  BY <1>2 DEF Board!Vanish
<1> QED
  BY <1>1, <1>2

LEMMA BoardReport ==
    ASSUME IInv, NEW p \in Package, NEW r \in Replica,
           Board!ReportSuccess(r, p) \/ Board!ReportFailure(r, p)
    PROVE  BoardKept
<1> USE AttemptsAssumption DEF IInv, TypeOK, BoardInv, BoardKept, BoardType, Board!BoardStatus
<1>1. CASE Board!ReportSuccess(r, p)
  BY <1>1 DEF Board!ReportSuccess
<1>2. CASE Board!ReportFailure(r, p)
  <2>1. tries[p] < MaxAttempts
    BY <1>2 DEF Board!ReportFailure
  <2> QED
    BY <1>2, <2>1 DEF Board!ReportFailure
<1> QED
  BY <1>1, <1>2

LEMMA BoardReopen ==
    ASSUME IInv, NEW T \in SUBSET Package, Board!Reopen(T)
    PROVE  BoardKept
BY DEF IInv, TypeOK, BoardInv, BoardKept, BoardType, Board!BoardStatus, Board!Reopen

LEMMA BoardSame ==
    ASSUME IInv, UNCHANGED boardVars
    PROVE  BoardKept
BY DEF IInv, TypeOK, BoardInv, BoardKept, BoardType, Board!BoardStatus, boardVars

(***************************************************************************)
(* The initial states.                                                     *)
(***************************************************************************)

LEMMA StartedState == Good(Started) /\ Started.promised = {} /\ Started.pc = "check"
                      /\ Started.leader = FALSE
<1>1. Started \in ReplicaState
  BY TimeAssumption, FlagAssumption, BoundsAssumption
     DEF Started, ReplicaState, Phase, LostCap
<1> QED
  BY <1>1, TimeAssumption DEF Started, Good, OnSchedule, Trusted, Allowed, Upstream, Timed

LEMMA InitIInv == Init => IInv
<1> SUFFICES ASSUME Init PROVE IInv
  OBVIOUS
<1>1. TypeOK
  <2>1. BoardType
    BY AttemptsAssumption DEF Init, BoardType, Board!BoardInit, Board!BoardStatus
  <2>2. rep \in [Replica -> ReplicaState]
    BY StartedState DEF Init, Good
  <2>3. /\ passAge \in 0..Interval /\ sinceStart \in 0..Interval /\ missing \in 0..MaxMissing
        /\ faults \in 0..MaxFaults /\ crashes \in 0..MaxCrashes /\ notifies \in 0..MaxNotifies
    BY TimeAssumption, BoundsAssumption DEF Init
  <2> QED
    BY <2>1, <2>2, <2>3 DEF Init, TypeOK, BoardType
<1>2. LeaseInv
  BY StartedState DEF Init, LeaseInv
<1>3. BoardInv
  BY AttemptsAssumption DEF Init, BoardInv, Board!BoardInit
<1>4. \A r \in Replica : OnSchedule(rep[r]) /\ Trusted(rep[r])
  BY StartedState DEF Init, Good
<1>5. \A r \in Replica : Covered(rep[r], status, published)
  BY StartedState DEF Init, Covered
<1> QED
  BY <1>1, <1>2, <1>3, <1>4, <1>5 DEF IInv

(***************************************************************************)
(* Indexer::run and discover.                                              *)
(***************************************************************************)

\* A check, and what follows when the lease is held or not.
LEMMA CheckKeeps ==
    ASSUME IInv, NEW r \in Replica, Check(r) PROVE IInv'
<1>1. PICK held \in BOOLEAN :
         /\ TryHold(r, held)
         /\ Become(r, IF held THEN Moved(Led(r, held), "due")
                      ELSE [Moved(Led(r, held), "asleep") EXCEPT !.untilDue = Retry])
  BY DEF Check
<1>2. LeaseKept(r) /\ (held => Holds(r)')
  BY <1>1, TryHoldKeeps
<1> DEFINE l == Led(r, held)
<1>3. /\ l \in ReplicaState /\ l.leader = held /\ (held => l.lost = 0)
      /\ l.promised = rep[r].promised
  BY <1>2, LedState
<1>4. BoardKept /\ WorldKept /\ published' = published
  BY BoardSame DEF Check, IInv, TypeOK, WorldKept, worldVars
<1>5. rep[r].promised \subseteq published
  BY DEF IInv, Covered
<1> HIDE DEF l
<1>6. CASE held
  <2> DEFINE s == Moved(l, "due")
  <2> "due" \in Phase
    BY DEF Phase
  <2>1. /\ s \in ReplicaState /\ s.pc = "due" /\ s.spent = 0 /\ s.leader = held
        /\ s.lost = 0 /\ s.promised = rep[r].promised
    BY <1>3, <1>6, MovedState
  <2>2. Become(r, s)
    BY <1>1, <1>6 DEF l
  <2> HIDE DEF s
  <2>3. Good(s)
    BY <2>1, TimeAssumption DEF Good, OnSchedule, Trusted, Allowed, Upstream, Timed
  <2>4. Covered(s, status', published')
    BY <2>1, <1>4, <1>5 DEF Covered
  <2> QED
    BY <1>2, <1>4, <1>6, <2>1, <2>2, <2>3, <2>4, StepKeeps
<1>7. CASE ~held
  <2> DEFINE m == Moved(l, "asleep")
             s == [m EXCEPT !.untilDue = Retry]
  <2>1. /\ m \in ReplicaState /\ m.pc = "asleep" /\ m.spent = 0 /\ m.leader = held
        /\ m.promised = rep[r].promised
    BY <1>3, MovedState DEF Phase
  <2>2. Become(r, s)
    BY <1>1, <1>7 DEF l
  <2> HIDE DEF m
  <2>3. /\ s \in ReplicaState /\ s.pc = "asleep" /\ s.spent = 0 /\ s.leader = held
        /\ s.promised = rep[r].promised /\ s.untilDue = Retry
    BY <2>1, TimeAssumption DEF ReplicaState
  <2> HIDE DEF s
  <2>4. Good(s)
    BY <2>3, TimeAssumption DEF Good, OnSchedule, Trusted, Allowed, Upstream, Timed
  <2>5. Covered(s, status', published')
    BY <2>3, <1>4, <1>5 DEF Covered
  <2> QED
    BY <1>2, <1>4, <1>7, <2>3, <2>2, <2>4, <2>5, StepKeeps
<1> QED
  BY <1>6, <1>7

\* A step that leaves the lease alone.
LEMMA QuietKeeps ==
    ASSUME IInv, NEW r \in Replica, NEW s, Become(r, s), Good(s), s.leader = rep[r].leader,
           UNCHANGED <<lock, orphan>>, UNCHANGED faults \/ Fault,
           BoardKept, WorldKept, published' = published,
           Covered(s, status', published')
    PROVE  IInv'
<1>1. LeaseKept(r) /\ (faults' = 0 /\ s.leader => Holds(r)')
  BY QuietLease
<1> QED
  BY <1>1, StepKeeps

\* What the invariant says of one replica.
LEMMA StateFacts ==
    ASSUME IInv, NEW r \in Replica
    PROVE  /\ rep[r] \in ReplicaState /\ OnSchedule(rep[r]) /\ Trusted(rep[r])
           /\ Covered(rep[r], status, published)
           /\ published \subseteq Package /\ rep[r].promised \subseteq Package
           /\ rep[r].todo \subseteq Package
BY DEF IInv, TypeOK, ReplicaState

LEMMA TimeUntilDiscoveryKeeps ==
    ASSUME IInv, NEW r \in Replica, TimeUntilDiscovery(r) PROVE IInv'
<1>1. PICK delay \in 0..Interval :
         /\ UNCHANGED faults \/ Fault
         /\ IF delay = 0
              THEN /\ Become(r, [Moved(rep[r], "discover") EXCEPT
                             !.untilDue = 0, !.checked = 0,
                             !.todo = Package, !.promised = published])
                   /\ sinceStart' = 0
              ELSE /\ Become(r, [Moved(rep[r], "queue") EXCEPT !.untilDue = delay])
                   /\ UNCHANGED sinceStart
  BY DEF TimeUntilDiscovery
<1>2. UNCHANGED <<lock, orphan>> /\ BoardKept /\ WorldKept /\ published' = published
  BY <1>1, BoardSame, TimeAssumption
     DEF TimeUntilDiscovery, IInv, TypeOK, WorldKept, worldVars
<1>3. rep[r].pc = "due"
  BY DEF TimeUntilDiscovery
<1> "discover" \in Phase /\ "queue" \in Phase
  BY DEF Phase
<1>4. CASE delay = 0
  <2> DEFINE m == Moved(rep[r], "discover")
             s == [m EXCEPT !.untilDue = 0, !.checked = 0, !.todo = Package, !.promised = published]
  <2>1. /\ m \in ReplicaState /\ m.pc = "discover" /\ m.spent = 0
        /\ m.leader = rep[r].leader /\ m.lost = rep[r].lost
    BY StateFacts, MovedState
  <2>2. Become(r, s)
    BY <1>1, <1>4
  <2> HIDE DEF m
  <2> 0 \in 0..Retry /\ 0 \in 0..(Interval + Retry)
    BY TimeAssumption
  <2> Package \in SUBSET Package /\ published \in SUBSET Package
    BY StateFacts
  <2>3. /\ s \in ReplicaState /\ s.pc = "discover" /\ s.spent = 0 /\ s.checked = 0
        /\ s.leader = rep[r].leader /\ s.lost = rep[r].lost
        /\ s.todo = Package /\ s.promised = published
    BY <2>1 DEF ReplicaState
  <2> HIDE DEF s
  <2>4. rep[r].lost <= DbMax
    BY <1>3, StateFacts, TimeAssumption
       DEF OnSchedule, Trusted, Allowed, Upstream, ReplicaState, LostCap
  <2>5. Good(s)
    BY <2>3, <2>4, TimeAssumption DEF Good, OnSchedule, Trusted, Allowed, Upstream, Timed
  <2>6. Covered(s, status', published')
    BY <2>3, <1>2, StateFacts DEF Covered
  <2> QED
    BY <1>1, <1>2, <2>2, <2>3, <2>5, <2>6, QuietKeeps
<1>5. CASE delay # 0
  <2> DEFINE m == Moved(rep[r], "queue")
             s == [m EXCEPT !.untilDue = delay]
  <2>1. /\ m \in ReplicaState /\ m.pc = "queue" /\ m.spent = 0
        /\ m.leader = rep[r].leader /\ m.promised = rep[r].promised
    BY StateFacts, MovedState
  <2>2. Become(r, s)
    BY <1>1, <1>5
  <2> HIDE DEF m
  <2>3. /\ s \in ReplicaState /\ s.pc = "queue" /\ s.spent = 0
        /\ s.leader = rep[r].leader /\ s.promised = rep[r].promised
    BY <2>1, TimeAssumption DEF ReplicaState
  <2> HIDE DEF s
  <2>4. Good(s)
    BY <2>3, TimeAssumption DEF Good, OnSchedule, Trusted, Allowed, Upstream, Timed
  <2>5. Covered(s, status', published')
    BY <2>3, <1>2, StateFacts DEF Covered
  <2> QED
    BY <1>1, <1>2, <2>2, <2>3, <2>4, <2>5, QuietKeeps
<1> QED
  BY <1>4, <1>5

\* The two ways to be done with a package; nothing else of the state matters.
LEMMA DoneStates ==
    ASSUME IInv, NEW r \in Replica
    PROVE  /\ PackageDone(r) \in ReplicaState /\ PackageFailed(r) \in ReplicaState
           /\ \A s \in {PackageDone(r), PackageFailed(r)} :
                 /\ s.pc = "discover" /\ s.spent = 0
                 /\ s.leader = rep[r].leader /\ s.lost = rep[r].lost
                 /\ s.checked = rep[r].checked /\ s.todo = rep[r].todo
           /\ PackageDone(r).promised = rep[r].promised
           /\ PackageFailed(r).promised = rep[r].promised \ {rep[r].cur}
<1> DEFINE m == Moved(rep[r], "discover")
           d == [m EXCEPT !.cur = NoPackage]
<1> "discover" \in Phase
  BY DEF Phase
<1>1. /\ m \in ReplicaState /\ m.pc = "discover" /\ m.spent = 0
      /\ m.leader = rep[r].leader /\ m.lost = rep[r].lost
      /\ m.checked = rep[r].checked /\ m.todo = rep[r].todo /\ m.promised = rep[r].promised
  BY StateFacts, MovedState
<1>2. PackageDone(r) = d /\ PackageFailed(r) = [d EXCEPT !.promised = @ \ {rep[r].cur}]
  BY DEF PackageDone, PackageFailed
<1> HIDE DEF m
<1>3. /\ d \in ReplicaState /\ d.pc = "discover" /\ d.spent = 0
      /\ d.leader = rep[r].leader /\ d.lost = rep[r].lost
      /\ d.checked = rep[r].checked /\ d.todo = rep[r].todo /\ d.promised = rep[r].promised
  BY <1>1 DEF ReplicaState
<1> HIDE DEF d
<1> DEFINE f == [d EXCEPT !.promised = @ \ {rep[r].cur}]
<1>4. /\ f \in ReplicaState /\ f.pc = "discover" /\ f.spent = 0
      /\ f.leader = rep[r].leader /\ f.lost = rep[r].lost
      /\ f.checked = rep[r].checked /\ f.todo = rep[r].todo
      /\ f.promised = rep[r].promised \ {rep[r].cur}
  BY <1>3 DEF ReplicaState
<1> HIDE DEF f
<1> QED
  BY <1>2, <1>3, <1>4 DEF f

\* Done with a package, in a phase in which the timer runs.
LEMMA DoneKeeps ==
    ASSUME IInv, NEW r \in Replica, rep[r].pc \in {"listing", "enqueue"},
           NEW s \in {PackageDone(r), PackageFailed(r)}, Become(r, s),
           s.promised = rep[r].promised =>
              rep[r].cur \notin rep[r].promised \/ status'[rep[r].cur] # "absent",
           UNCHANGED <<lock, orphan>>, UNCHANGED faults \/ Fault,
           BoardKept, WorldKept, published' = published
    PROVE  IInv'
<1>1. /\ s \in ReplicaState /\ s.pc = "discover" /\ s.spent = 0
      /\ s.leader = rep[r].leader /\ s.lost = rep[r].lost
      /\ s.checked = rep[r].checked /\ s.todo = rep[r].todo
      /\ s.promised = rep[r].promised \/ s.promised = rep[r].promised \ {rep[r].cur}
  BY DoneStates
<1>2. Good(s)
  BY <1>1, StateFacts, TimeAssumption
     DEF Good, OnSchedule, Trusted, Allowed, Upstream, Timed
<1>3. Covered(s, status', published')
  BY <1>1, StateFacts DEF Covered, BoardKept
<1> QED
  BY <1>1, <1>2, <1>3, QuietKeeps

LEMMA ListTagsKeeps ==
    ASSUME IInv, NEW r \in Replica, ListTags(r) PROVE IInv'
<1>1. UNCHANGED <<lock, orphan>> /\ BoardKept /\ WorldKept /\ published' = published
      /\ (UNCHANGED faults \/ Fault)
  BY BoardSame DEF ListTags, IInv, TypeOK, WorldKept, worldVars
<1>2. rep[r].pc = "listing"
  BY DEF ListTags
<1>3. CASE rep[r].cur \in published /\ Become(r, Moved(rep[r], "enqueue"))
  <2> DEFINE s == Moved(rep[r], "enqueue")
  <2> "enqueue" \in Phase
    BY DEF Phase
  <2>1. /\ s \in ReplicaState /\ s.pc = "enqueue" /\ s.spent = 0 /\ s.cur = rep[r].cur
        /\ s.leader = rep[r].leader /\ s.lost = rep[r].lost
        /\ s.checked = rep[r].checked /\ s.todo = rep[r].todo /\ s.promised = rep[r].promised
    BY StateFacts, MovedState
  <2>2. Become(r, s)
    BY <1>3
  <2> HIDE DEF s
  <2>3. Good(s)
    BY <1>2, <2>1, StateFacts, TimeAssumption
       DEF Good, OnSchedule, Trusted, Allowed, Upstream, Timed
  <2>4. Covered(s, status', published')
    BY <1>1, <1>2, <2>1, StateFacts DEF Covered, BoardKept
  <2> QED
    BY <1>1, <2>1, <2>2, <2>3, <2>4, QuietKeeps
<1>4. CASE rep[r].cur \notin published /\ Become(r, PackageDone(r))
  <2>1. rep[r].cur \notin rep[r].promised
    BY <1>4, StateFacts DEF Covered
  <2> QED
    BY <1>1, <1>2, <1>4, <2>1, DoneKeeps
<1>5. CASE Become(r, PackageFailed(r))
  <2>1. PackageFailed(r).promised = rep[r].promised => rep[r].cur \notin rep[r].promised
    BY DoneStates
  <2> QED
    BY <1>1, <1>2, <1>5, <2>1, DoneKeeps
<1> QED
  BY <1>3, <1>4, <1>5 DEF ListTags

LEMMA EnqueueKeeps ==
    ASSUME IInv, NEW r \in Replica, Enqueue(r) PROVE IInv'
<1> DEFINE p == rep[r].cur
<1>1. UNCHANGED <<lock, orphan>> /\ WorldKept /\ published' = published
      /\ (UNCHANGED faults \/ Fault)
  BY DEF Enqueue, IInv, TypeOK, WorldKept, worldVars
<1>2. rep[r].pc = "enqueue" /\ p \in Package
  BY StateFacts DEF Enqueue, OnSchedule
<1> HIDE DEF p
<1>3. ASSUME \/ Board!Request(p) \/ Board!Submit(p)
             \/ status[p] # "absent" /\ UNCHANGED boardVars,
             Become(r, PackageDone(r))
      PROVE  IInv'
  <2>1. BoardKept
    BY <1>2, <1>3, BoardAsk, BoardSame
  <2>2. status'[p] # "absent"
    BY <1>2, <1>3 DEF Board!Request, Board!Submit, boardVars, IInv, TypeOK
  <2> QED
    BY <1>1, <1>2, <1>3, <2>1, <2>2, DoneKeeps DEF p
<1>4. CASE Fault /\ Become(r, PackageFailed(r)) /\ UNCHANGED boardVars
  <2>1. BoardKept
    BY <1>4, BoardSame
  <2>2. PackageFailed(r).promised = rep[r].promised => rep[r].cur \notin rep[r].promised
    BY DoneStates
  <2> QED
    BY <1>1, <1>2, <1>4, <2>1, <2>2, DoneKeeps
<1> QED
  BY <1>3, <1>4 DEF Enqueue, p

\* A replica that moves on to a phase that asks nothing of its state.
LEMMA PlainMove ==
    ASSUME IInv, NEW r \in Replica, NEW phase \in {"queue", "settle", "check", "backfill"},
           Become(r, Moved(rep[r], phase)),
           phase = "settle" => rep[r].pc = "task",
           UNCHANGED <<lock, orphan>>, UNCHANGED faults \/ Fault,
           BoardKept, WorldKept, published' = published
    PROVE  IInv'
<1> DEFINE s == Moved(rep[r], phase)
<1> phase \in Phase
  BY DEF Phase
<1>1. /\ s \in ReplicaState /\ s.pc = phase /\ s.spent = 0 /\ s.cur = rep[r].cur
      /\ s.errors = rep[r].errors
      /\ s.leader = rep[r].leader /\ s.lost = rep[r].lost
      /\ s.checked = rep[r].checked /\ s.promised = rep[r].promised
  BY StateFacts, MovedState
<1>2. Become(r, s)
  OBVIOUS
<1> HIDE DEF s
<1>3. Good(s)
  BY <1>1, StateFacts, TimeAssumption
     DEF Good, OnSchedule, Trusted, Allowed, Upstream, Timed
<1>4. Covered(s, status', published')
  BY <1>1, StateFacts DEF Covered
<1> QED
  BY <1>1, <1>2, <1>3, <1>4, QuietKeeps

LEMMA RecordKeeps ==
    ASSUME IInv, NEW r \in Replica, Record(r) PROVE IInv'
<1>1. UNCHANGED <<lock, orphan>> /\ BoardKept /\ WorldKept /\ published' = published
      /\ (UNCHANGED faults \/ Fault)
  BY BoardSame, TimeAssumption DEF Record, IInv, TypeOK, WorldKept, worldVars
<1> QED
  BY <1>1, PlainMove DEF Record

LEMMA EndTaskKeeps ==
    ASSUME IInv, NEW r \in Replica, EndTask(r) PROVE IInv'
<1>1. UNCHANGED <<lock, orphan>> /\ WorldKept /\ published' = published /\ UNCHANGED faults
  BY DEF EndTask, IInv, TypeOK, WorldKept, worldVars, leaseVars
<1>2. rep[r].pc = "task" /\ rep[r].cur \in Package
  BY StateFacts DEF EndTask, OnSchedule
<1>3. BoardKept
  BY BoardLeave, BoardSame DEF EndTask
<1> QED
  BY <1>1, <1>2, <1>3, PlainMove DEF EndTask

LEMMA WakeKeeps ==
    ASSUME IInv, NEW r \in Replica, Wake(r) PROVE IInv'
<1> DEFINE m == Moved(rep[r], "check")
           s == [m EXCEPT !.untilDue = 0]
<1>1. UNCHANGED <<lock, orphan>> /\ BoardKept /\ WorldKept /\ published' = published
      /\ UNCHANGED faults
  BY BoardSame DEF Wake, IInv, TypeOK, WorldKept, worldVars, leaseVars
<1> "check" \in Phase
  BY DEF Phase
<1>2. /\ m \in ReplicaState /\ m.pc = "check" /\ m.spent = 0
      /\ m.leader = rep[r].leader /\ m.promised = rep[r].promised
  BY StateFacts, MovedState
<1>3. Become(r, s)
  BY DEF Wake
<1> HIDE DEF m
<1> 0 \in 0..(Interval + Retry)
  BY TimeAssumption
<1>4. /\ s \in ReplicaState /\ s.pc = "check" /\ s.spent = 0
      /\ s.leader = rep[r].leader /\ s.promised = rep[r].promised
  BY <1>2 DEF ReplicaState
<1> HIDE DEF s
<1>5. Good(s)
  BY <1>4, TimeAssumption DEF Good, OnSchedule, Trusted, Allowed, Upstream, Timed
<1>6. Covered(s, status', published')
  BY <1>1, <1>4, StateFacts DEF Covered
<1> QED
  BY <1>1, <1>3, <1>4, <1>5, <1>6, QuietKeeps

LEMMA StartDrainKeeps ==
    ASSUME IInv, NEW r \in Replica, StartDrain(r), UNCHANGED faults, BoardKept PROVE IInv'
<1> DEFINE m == Moved(rep[r], "drain")
           s == [m EXCEPT !.checked = 0, !.errors = 0]
<1>1. UNCHANGED <<lock, orphan>> /\ WorldKept /\ published' = published
  BY DEF StartDrain, IInv, TypeOK, WorldKept, worldVars
<1>2. rep[r].pc = "recover" /\ Become(r, s)
  BY DEF StartDrain
<1> "drain" \in Phase
  BY DEF Phase
<1>3. /\ m \in ReplicaState /\ m.pc = "drain" /\ m.spent = 0 /\ m.lost = rep[r].lost
      /\ m.leader = rep[r].leader /\ m.promised = rep[r].promised
  BY StateFacts, MovedState
<1> HIDE DEF m
<1> 0 \in 0..Retry /\ 0 \in 0..MaxQueueErrors
  BY TimeAssumption, BoundsAssumption
<1>4. /\ s \in ReplicaState /\ s.pc = "drain" /\ s.spent = 0 /\ s.lost = rep[r].lost
      /\ s.checked = 0 /\ s.errors = 0
      /\ s.leader = rep[r].leader /\ s.promised = rep[r].promised
  BY <1>3 DEF ReplicaState
<1> HIDE DEF s
<1>5. rep[r].lost <= DbMax
  BY <1>2, StateFacts, TimeAssumption
     DEF OnSchedule, Trusted, Allowed, Upstream, ReplicaState, LostCap
<1>6. Good(s)
  BY <1>4, <1>5, TimeAssumption, BoundsAssumption
     DEF Good, OnSchedule, Trusted, Allowed, Upstream, Timed
<1>7. Covered(s, status', published')
  BY <1>1, <1>4, StateFacts DEF Covered
<1> QED
  BY <1>1, <1>2, <1>4, <1>6, <1>7, QuietKeeps

LEMMA RecoverKeeps ==
    ASSUME IInv, NEW r \in Replica, RecoverNothing(r) \/ RecoverTasks(r) PROVE IInv'
<1>1. CASE RecoverNothing(r)
  BY <1>1, BoardSame, StartDrainKeeps DEF RecoverNothing
<1>2. CASE RecoverTasks(r)
  <2>1. PICK T \in SUBSET Package : Board!Reopen(T)
    BY <1>2 DEF RecoverTasks, Claimed
  <2> QED
    BY <1>2, <2>1, BoardReopen, StartDrainKeeps DEF RecoverTasks
<1> QED
  BY <1>1, <1>2

(***************************************************************************)
(* Errors of the queue, reports and sleep.                                 *)
(***************************************************************************)

LEMMA ErroredKeeps ==
    ASSUME IInv, NEW r \in Replica, rep[r].pc \in {"drain", "settle"}, Become(r, Errored(rep[r])),
           UNCHANGED <<lock, orphan>>, Fault,
           BoardKept, WorldKept, published' = published
    PROVE  IInv'
<1> DEFINE e == rep[r].errors + 1
           phase == IF TooManyErrors(e) THEN "backfill" ELSE "drain"
           m == Moved(rep[r], phase)
           s == [m EXCEPT !.errors = @ + 1, !.cur = NoPackage]
<1>1. Become(r, s)
  BY DEF Errored
<1>2. e \in 0..MaxQueueErrors /\ (phase = "drain" => e < MaxQueueErrors)
      /\ phase \in {"backfill", "drain"}
  BY StateFacts, BoundsAssumption DEF OnSchedule, ReplicaState, TooManyErrors
<1> HIDE DEF phase
<1>3. phase \in Phase
  BY <1>2 DEF Phase
<1>4. /\ m \in ReplicaState /\ m.pc = phase /\ m.spent = 0 /\ m.lost = rep[r].lost
      /\ m.checked = rep[r].checked /\ m.errors = rep[r].errors
      /\ m.leader = rep[r].leader /\ m.promised = rep[r].promised
  BY <1>3, StateFacts, MovedState
<1> HIDE DEF m
<1>5. /\ s \in ReplicaState /\ s.pc = phase /\ s.spent = 0 /\ s.lost = rep[r].lost
      /\ s.checked = rep[r].checked /\ s.errors = e
      /\ s.leader = rep[r].leader /\ s.promised = rep[r].promised
  BY <1>2, <1>4 DEF ReplicaState
<1> HIDE DEF s, e
<1>6. Good(s)
  BY <1>2, <1>5, StateFacts, TimeAssumption
     DEF Good, OnSchedule, Trusted, Allowed, Upstream, Timed
<1>7. Covered(s, status', published')
  BY <1>2, <1>5, StateFacts DEF Covered
<1> QED
  BY <1>1, <1>5, <1>6, <1>7, QuietKeeps

LEMMA DequeueFailsKeeps ==
    ASSUME IInv, NEW r \in Replica, DequeueFails(r) PROVE IInv'
<1>1. UNCHANGED <<lock, orphan>> /\ BoardKept /\ WorldKept /\ published' = published
  BY BoardSame DEF DequeueFails, IInv, TypeOK, WorldKept, worldVars
<1> QED
  BY <1>1, ErroredKeeps DEF DequeueFails

LEMMA SettleKeeps ==
    ASSUME IInv, NEW r \in Replica, Settle(r) PROVE IInv'
<1> DEFINE p == rep[r].cur
           m == Moved(rep[r], "drain")
           after == [m EXCEPT !.cur = NoPackage]
<1>1. UNCHANGED <<lock, orphan>> /\ WorldKept /\ published' = published
  BY DEF Settle, IInv, TypeOK, WorldKept, worldVars
<1>2. rep[r].pc = "settle" /\ p \in Package
  BY StateFacts DEF Settle, OnSchedule
<1> HIDE DEF p
<1> "drain" \in Phase
  BY DEF Phase
<1>3. /\ m \in ReplicaState /\ m.pc = "drain" /\ m.spent = 0 /\ m.lost = rep[r].lost
      /\ m.checked = rep[r].checked /\ m.errors = rep[r].errors
      /\ m.leader = rep[r].leader /\ m.promised = rep[r].promised
  BY StateFacts, MovedState
<1>4. ASSUME NEW n \in {0, rep[r].errors}, Become(r, [after EXCEPT !.errors = n]),
             UNCHANGED faults, BoardKept
      PROVE  IInv'
  <2> DEFINE s == [after EXCEPT !.errors = n]
  <2>1. Become(r, s)
    BY <1>4
  <2>2. n \in 0..MaxQueueErrors /\ n < MaxQueueErrors
    BY <1>2, StateFacts, BoundsAssumption DEF OnSchedule, ReplicaState
  <2> HIDE DEF m
  <2>3. /\ s \in ReplicaState /\ s.pc = "drain" /\ s.spent = 0 /\ s.lost = rep[r].lost
        /\ s.checked = rep[r].checked /\ s.errors = n
        /\ s.leader = rep[r].leader /\ s.promised = rep[r].promised
    BY <1>3, <2>2 DEF ReplicaState
  <2> HIDE DEF s
  <2>4. Good(s)
    BY <1>2, <2>2, <2>3, StateFacts, TimeAssumption
       DEF Good, OnSchedule, Trusted, Allowed, Upstream, Timed
  <2>5. Covered(s, status', published')
    BY <1>1, <2>3, StateFacts DEF Covered
  <2> QED
    BY <1>1, <1>4, <2>1, <2>3, <2>4, <2>5, QuietKeeps
<1>5. after = [after EXCEPT !.errors = rep[r].errors]
  BY <1>3 DEF ReplicaState
<1> HIDE DEF after
<1>6. CASE Board!ReportSuccess(r, p) /\ Become(r, [after EXCEPT !.errors = 0]) /\ UNCHANGED faults
  BY <1>2, <1>4, <1>6, BoardReport
<1>7. CASE Board!ReportFailure(r, p) /\ Become(r, after) /\ UNCHANGED faults
  BY <1>2, <1>4, <1>5, <1>7, BoardReport
<1>8. CASE /\ \E n \in {0, rep[r].errors} : Become(r, [after EXCEPT !.errors = n])
           /\ UNCHANGED <<boardVars, faults>>
  BY <1>4, <1>8, BoardSame
<1>9. CASE Board!Vanish(r) /\ Become(r, Errored(rep[r])) /\ Fault
  BY <1>1, <1>2, <1>9, BoardLeave, ErroredKeeps
<1> QED
  BY <1>6, <1>7, <1>8, <1>9 DEF Settle, after, p

LEMMA AsleepState ==
    ASSUME NEW s \in ReplicaState
    PROVE  Good(Asleep(s)) /\ Asleep(s).pc = "asleep"
           /\ Asleep(s).leader = s.leader /\ Asleep(s).promised = s.promised
<1> DEFINE m == Moved(s, "asleep")
           nap == Lesser(IF m.untilDue = 0 THEN Interval ELSE m.untilDue, Retry)
           a == [m EXCEPT !.untilDue = nap]
<1> "asleep" \in Phase
  BY DEF Phase
<1>1. /\ m \in ReplicaState /\ m.pc = "asleep" /\ m.spent = 0
      /\ m.leader = s.leader /\ m.promised = s.promised
  BY MovedState
<1>2. Asleep(s) = a
  BY <1>1 DEF Asleep, ReplicaState
<1> HIDE DEF m
<1>3. nap \in 0..(Interval + Retry) /\ nap <= Retry
  BY <1>1, TimeAssumption DEF Lesser, ReplicaState
<1> HIDE DEF nap
<1>4. /\ a \in ReplicaState /\ a.pc = "asleep" /\ a.spent = 0 /\ a.untilDue = nap
      /\ a.leader = s.leader /\ a.promised = s.promised
  BY <1>1, <1>3 DEF ReplicaState
<1> HIDE DEF a
<1>5. Good(a)
  BY <1>3, <1>4 DEF Good, OnSchedule, Trusted, Allowed, Upstream, Timed
<1> QED
  BY <1>2, <1>4, <1>5

\* A replica goes to sleep, with its lease as it is.
LEMMA AsleepKeeps ==
    ASSUME IInv, NEW r \in Replica, NEW s \in ReplicaState, Become(r, Asleep(s)),
           LeaseKept(r), faults' = 0 /\ s.leader => Holds(r)',
           s.promised = rep[r].promised,
           BoardKept, WorldKept, published' = published
    PROVE  IInv'
<1>1. Covered(Asleep(s), status', published')
  BY AsleepState, StateFacts DEF Covered
<1> QED
  BY <1>1, AsleepState, StepKeeps

(***************************************************************************)
(* Steps that check the lease.                                             *)
(***************************************************************************)

\* After a check a replica moves on to a phase without work.
LEMMA CheckedMove ==
    ASSUME IInv, NEW r \in Replica, NEW held \in BOOLEAN, TryHold(r, held),
           NEW phase \in {"recover", "queue", "backfill"}, phase = "recover" => held,
           Become(r, Moved(Led(r, held), phase)),
           BoardKept, WorldKept, published' = published
    PROVE  IInv'
<1> DEFINE l == Led(r, held)
<1>1. LeaseKept(r) /\ (held => Holds(r)')
  BY TryHoldKeeps
<1>2. /\ l \in ReplicaState /\ l.leader = held /\ (held => l.lost = 0)
      /\ l.promised = rep[r].promised
  BY <1>1, LedState
<1> HIDE DEF l
<1> DEFINE s == Moved(l, phase)
<1> phase \in Phase
  BY DEF Phase
<1>3. /\ s \in ReplicaState /\ s.pc = phase /\ s.spent = 0 /\ s.leader = held
      /\ (held => s.lost = 0) /\ s.promised = rep[r].promised
  BY <1>2, MovedState
<1>4. Become(r, s)
  BY DEF l
<1> HIDE DEF s
<1>5. Good(s)
  BY <1>3, TimeAssumption DEF Good, OnSchedule, Trusted, Allowed, Upstream, Timed
<1>6. Covered(s, status', published')
  BY <1>3, StateFacts DEF Covered
<1> QED
  BY <1>1, <1>3, <1>4, <1>5, <1>6, StepKeeps

LEMMA StartQueueKeeps ==
    ASSUME IInv, NEW r \in Replica, StartQueue(r) PROVE IInv'
<1>1. BoardKept /\ WorldKept /\ published' = published
  BY BoardSame DEF StartQueue, IInv, TypeOK, WorldKept, worldVars
<1>2. PICK held \in BOOLEAN :
         TryHold(r, held) /\ Become(r, Moved(Led(r, held), IF held THEN "recover" ELSE "backfill"))
  BY DEF StartQueue
<1>3. CASE held
  BY <1>1, <1>2, <1>3, CheckedMove
<1>4. CASE ~held
  BY <1>1, <1>2, <1>4, CheckedMove
<1> QED
  BY <1>3, <1>4

LEMMA EndPassKeeps ==
    ASSUME IInv, NEW r \in Replica, EndPass(r) PROVE IInv'
<1>1. BoardKept /\ WorldKept /\ published' = published
  BY BoardSame DEF EndPass, IInv, TypeOK, WorldKept, worldVars
<1>2. PICK held \in BOOLEAN :
         /\ TryHold(r, held)
         /\ Become(r, IF held THEN [Moved(Led(r, held), "record") EXCEPT !.refetch = FALSE]
                      ELSE Moved(Led(r, held), "queue"))
  BY DEF EndPass, ConfirmLease
<1>3. rep[r].pc = "discover" /\ rep[r].todo = {}
  BY DEF EndPass
<1>4. CASE held
  <2> DEFINE l == Led(r, held)
  <2>1. LeaseKept(r) /\ Holds(r)'
    BY <1>2, <1>4, TryHoldKeeps
  <2>2. /\ l \in ReplicaState /\ l.leader = held /\ l.lost = 0
        /\ l.promised = rep[r].promised /\ l.todo = rep[r].todo
    BY <2>1, LedState
  <2> HIDE DEF l
  <2> DEFINE m == Moved(l, "record")
             s == [m EXCEPT !.refetch = FALSE]
  <2> "record" \in Phase
    BY DEF Phase
  <2>3. /\ m \in ReplicaState /\ m.pc = "record" /\ m.spent = 0 /\ m.leader = held
        /\ m.lost = 0 /\ m.promised = rep[r].promised /\ m.todo = rep[r].todo
    BY <2>2, MovedState
  <2>4. Become(r, s)
    BY <1>2, <1>4 DEF l
  <2> HIDE DEF m
  <2>5. /\ s \in ReplicaState /\ s.pc = "record" /\ s.spent = 0 /\ s.leader = held
        /\ s.lost = 0 /\ s.promised = rep[r].promised /\ s.todo = rep[r].todo
    BY <2>3 DEF ReplicaState
  <2> HIDE DEF s
  <2>6. Good(s)
    BY <2>5, TimeAssumption DEF Good, OnSchedule, Trusted, Allowed, Upstream, Timed
  <2>7. Covered(s, status', published')
    BY <1>1, <1>3, <2>5, StateFacts DEF Covered, BoardKept
  <2> QED
    BY <1>1, <2>1, <2>4, <2>6, <2>7, StepKeeps
<1>5. CASE ~held
  BY <1>1, <1>2, <1>5, CheckedMove
<1> QED
  BY <1>4, <1>5

LEMMA StartBackfillKeeps ==
    ASSUME IInv, NEW r \in Replica, StartBackfill(r) PROVE IInv'
<1>1. BoardKept /\ WorldKept /\ published' = published
  BY BoardSame DEF StartBackfill, IInv, TypeOK, WorldKept, worldVars
<1>2. CASE Become(r, Asleep(rep[r])) /\ UNCHANGED leaseVars
  BY <1>1, <1>2, QuietLease, StateFacts, AsleepKeeps DEF leaseVars
<1>3. ASSUME NEW held \in BOOLEAN, TryHold(r, held),
             Become(r, IF held /\ missing > 0
                       THEN [Moved(Led(r, held), "config") EXCEPT !.batch = missing, !.checked = 0]
                       ELSE Asleep(Led(r, held)))
      PROVE  IInv'
  <2> DEFINE l == Led(r, held)
  <2>1. LeaseKept(r) /\ (held => Holds(r)')
    BY <1>3, TryHoldKeeps
  <2>2. /\ l \in ReplicaState /\ l.leader = held /\ (held => l.lost = 0)
        /\ l.promised = rep[r].promised
    BY <2>1, LedState
  <2>3. CASE held /\ missing > 0
    <3> HIDE DEF l
    <3> DEFINE m == Moved(l, "config")
               s == [m EXCEPT !.batch = missing, !.checked = 0]
    <3> "config" \in Phase
      BY DEF Phase
    <3>1. /\ m \in ReplicaState /\ m.pc = "config" /\ m.spent = 0 /\ m.leader = held
          /\ m.lost = 0 /\ m.promised = rep[r].promised
      BY <2>2, <2>3, MovedState
    <3>2. Become(r, s)
      BY <1>3, <2>3 DEF l
    <3> HIDE DEF m
    <3> missing \in 0..MaxMissing /\ 0 \in 0..Retry
      BY TimeAssumption DEF IInv, TypeOK
    <3>3. /\ s \in ReplicaState /\ s.pc = "config" /\ s.spent = 0 /\ s.leader = held
          /\ s.lost = 0 /\ s.batch = missing /\ s.checked = 0 /\ s.promised = rep[r].promised
      BY <3>1 DEF ReplicaState
    <3> HIDE DEF s
    <3>4. Good(s)
      BY <2>3, <3>3, TimeAssumption DEF Good, OnSchedule, Trusted, Allowed, Upstream, Timed
    <3>5. Covered(s, status', published')
      BY <1>1, <3>3, StateFacts DEF Covered
    <3> QED
      BY <1>1, <2>1, <2>3, <3>2, <3>4, <3>5, StepKeeps
  <2>4. CASE ~(held /\ missing > 0)
    <3>1. Become(r, Asleep(l))
      BY <1>3, <2>4
    <3> HIDE DEF l
    <3> QED
      BY <1>1, <2>1, <2>2, <3>1, AsleepKeeps
  <2> QED
    BY <2>3, <2>4
<1> QED
  BY <1>2, <1>3 DEF StartBackfill

\* A state in which a replica may begin to work.
Fit(k) ==
    /\ k \in ReplicaState
    /\ k.checked < Retry => k.lost <= k.checked + DbMax
    /\ k.leader /\ k.lost < Retry + DbMax

LEMMA HeldIsFit ==
    ASSUME IInv, NEW r \in Replica, NEW held \in BOOLEAN, held, LeaseStillHeld(r, held),
           rep[r].pc \in Timed
    PROVE  Fit(Kept(r, held))
BY LeaseStillHeldKeeps DEF Fit

\* A replica whose lease is still held turns to a package, a task or a blob.
LEMMA WorkKeeps ==
    ASSUME IInv, NEW r \in Replica, NEW k, Fit(k),
           LeaseKept(r), faults' = 0 /\ k.leader => Holds(r)',
           NEW s \in ReplicaState, Become(r, s), s.pc \in Upstream, s.spent = 0,
           s.leader = k.leader, s.lost = k.lost, s.checked = k.checked,
           OnSchedule(s), Covered(s, status', published'),
           BoardKept, WorldKept, published' = published
    PROVE  IInv'
<1>1. k.lost \in Nat
  BY TimeAssumption DEF Fit, ReplicaState, LostCap
<1>2. Trusted(s)
  <2>1. s.pc \notin {"due", "recover", "record"}
    BY DEF Upstream
  <2>2. s.leader
    BY DEF Fit
  <2>3. s.lost < Retry + DbMax + s.spent
    BY <1>1, TimeAssumption DEF Fit
  <2>4. s.checked < Retry => s.lost <= s.checked + DbMax
    BY DEF Fit
  <2> QED
    BY <2>1, <2>2, <2>3, <2>4 DEF Trusted
<1> QED
  BY <1>2, StepKeeps DEF Good

LEMMA NextPackageKeeps ==
    ASSUME IInv, NEW r \in Replica, NextPackage(r) PROVE IInv'
<1>1. BoardKept /\ WorldKept /\ published' = published
  BY BoardSame DEF NextPackage, IInv, TypeOK, WorldKept, worldVars
<1>2. PICK p \in rep[r].todo, held \in BOOLEAN :
         /\ LeaseStillHeld(r, held)
         /\ Become(r, IF held
                      THEN [Moved(Kept(r, held), "listing") EXCEPT !.cur = p, !.todo = @ \ {p}]
                      ELSE [Moved(Kept(r, held), AfterLoss) EXCEPT !.todo = {}])
  BY DEF NextPackage
<1>3. rep[r].pc = "discover" /\ rep[r].pc \in Timed /\ p \in Package
  BY StateFacts DEF NextPackage, Timed
<1> DEFINE k == Kept(r, held)
<1>4. /\ LeaseKept(r) /\ k \in ReplicaState
      /\ k.todo = rep[r].todo /\ k.promised = rep[r].promised
      /\ faults' = 0 /\ k.leader => Holds(r)'
  BY <1>2, <1>3, LeaseStillHeldKeeps
<1>5. CASE held
  <2> HIDE DEF k
  <2> DEFINE m == Moved(k, "listing")
             s == [m EXCEPT !.cur = p, !.todo = @ \ {p}]
  <2> "listing" \in Phase
    BY DEF Phase
  <2>1. /\ m \in ReplicaState /\ m.pc = "listing" /\ m.spent = 0 /\ m.leader = k.leader
        /\ m.lost = k.lost /\ m.checked = k.checked
        /\ m.promised = rep[r].promised /\ m.todo = rep[r].todo
    BY <1>4, MovedState
  <2>2. Become(r, s)
    BY <1>2, <1>5 DEF k
  <2> HIDE DEF m
  <2>3. /\ s \in ReplicaState /\ s.pc = "listing" /\ s.spent = 0 /\ s.leader = k.leader
        /\ s.lost = k.lost /\ s.checked = k.checked /\ s.cur = p
        /\ s.promised = rep[r].promised /\ s.todo = rep[r].todo \ {p}
    BY <1>3, <2>1 DEF ReplicaState
  <2> HIDE DEF s
  <2>4. OnSchedule(s) /\ s.pc \in Upstream
    BY <1>3, <2>3, TimeAssumption DEF OnSchedule, Allowed, Upstream
  <2>5. Covered(s, status', published')
    BY <1>1, <1>3, <2>3, StateFacts DEF Covered, BoardKept
  <2>6. Fit(k)
    BY <1>2, <1>3, <1>5, HeldIsFit DEF k
  <2> QED
    BY <1>1, <1>4, <2>2, <2>3, <2>4, <2>5, <2>6, WorkKeeps
<1>6. CASE ~held
  <2> HIDE DEF k
  <2> DEFINE m == Moved(k, "queue")
             s == [m EXCEPT !.todo = {}]
  <2> "queue" \in Phase
    BY DEF Phase
  <2>1. /\ m \in ReplicaState /\ m.pc = "queue" /\ m.spent = 0 /\ m.leader = k.leader
        /\ m.promised = rep[r].promised
    BY <1>4, MovedState
  <2>2. Become(r, s)
    BY <1>2, <1>6 DEF k, AfterLoss
  <2> HIDE DEF m
  <2>3. /\ s \in ReplicaState /\ s.pc = "queue" /\ s.spent = 0 /\ s.leader = k.leader
        /\ s.promised = rep[r].promised
    BY <2>1 DEF ReplicaState
  <2> HIDE DEF s
  <2>4. Good(s)
    BY <2>3, TimeAssumption DEF Good, OnSchedule, Trusted, Allowed, Upstream, Timed
  <2>5. Covered(s, status', published')
    BY <1>1, <2>3, StateFacts DEF Covered
  <2> QED
    BY <1>1, <1>4, <2>2, <2>3, <2>4, <2>5, StepKeeps
<1> QED
  BY <1>5, <1>6

LEMMA DequeueKeeps ==
    ASSUME IInv, NEW r \in Replica, Dequeue(r) PROVE IInv'
<1>1. WorldKept /\ published' = published
  BY DEF Dequeue, IInv, TypeOK, WorldKept, worldVars
<1>2. rep[r].pc = "drain" /\ rep[r].pc \in Timed
  BY DEF Dequeue, Timed
<1>3. PICK held \in BOOLEAN :
         /\ LeaseStillHeld(r, held)
         /\ \/ /\ held
               /\ \E p \in Package :
                     /\ Board!Take(r, p)
                     /\ Become(r, [Moved(Kept(r, held), "task") EXCEPT !.cur = p])
            \/ Become(r, Moved(Kept(r, held), "backfill")) /\ UNCHANGED boardVars
  BY DEF Dequeue
<1> DEFINE k == Kept(r, held)
<1>4. /\ LeaseKept(r) /\ k \in ReplicaState
      /\ k.promised = rep[r].promised /\ k.errors = rep[r].errors
      /\ faults' = 0 /\ k.leader => Holds(r)'
  BY <1>2, <1>3, LeaseStillHeldKeeps
<1>5. ASSUME NEW p \in Package, held, Board!Take(r, p), Become(r, [Moved(k, "task") EXCEPT !.cur = p])
      PROVE  IInv'
  <2>1. Fit(k)
    BY <1>2, <1>3, <1>5, HeldIsFit
  <2> HIDE DEF k
  <2> DEFINE m == Moved(k, "task")
             s == [m EXCEPT !.cur = p]
  <2> "task" \in Phase
    BY DEF Phase
  <2>2. /\ m \in ReplicaState /\ m.pc = "task" /\ m.spent = 0 /\ m.leader = k.leader
        /\ m.lost = k.lost /\ m.checked = k.checked /\ m.errors = rep[r].errors
        /\ m.promised = rep[r].promised
    BY <1>4, MovedState
  <2>3. Become(r, s)
    BY <1>5
  <2> HIDE DEF m
  <2>4. /\ s \in ReplicaState /\ s.pc = "task" /\ s.spent = 0 /\ s.leader = k.leader
        /\ s.lost = k.lost /\ s.checked = k.checked /\ s.cur = p /\ s.errors = rep[r].errors
        /\ s.promised = rep[r].promised
    BY <2>2 DEF ReplicaState
  <2> HIDE DEF s
  <2>5. OnSchedule(s) /\ s.pc \in Upstream
    BY <1>2, <2>4, StateFacts, TimeAssumption DEF OnSchedule, Allowed, Upstream
  <2>6. Covered(s, status', published')
    BY <1>1, <2>4, StateFacts DEF Covered
  <2>7. BoardKept
    BY <1>5, BoardTake
  <2> QED
    BY <1>1, <1>4, <2>1, <2>3, <2>4, <2>5, <2>6, <2>7, WorkKeeps
<1>6. CASE Become(r, Moved(k, "backfill")) /\ UNCHANGED boardVars
  <2> HIDE DEF k
  <2> DEFINE s == Moved(k, "backfill")
  <2> "backfill" \in Phase
    BY DEF Phase
  <2>1. /\ s \in ReplicaState /\ s.pc = "backfill" /\ s.spent = 0 /\ s.leader = k.leader
        /\ s.promised = rep[r].promised
    BY <1>4, MovedState
  <2>2. Become(r, s)
    BY <1>6
  <2> HIDE DEF s
  <2>3. Good(s)
    BY <2>1, TimeAssumption DEF Good, OnSchedule, Trusted, Allowed, Upstream, Timed
  <2>4. Covered(s, status', published')
    BY <1>1, <2>1, StateFacts DEF Covered
  <2>5. BoardKept
    BY <1>6, BoardSame
  <2> QED
    BY <1>1, <1>4, <2>1, <2>2, <2>3, <2>4, <2>5, StepKeeps
<1> QED
  BY <1>3, <1>5, <1>6

LEMMA BackfillConfigKeeps ==
    ASSUME IInv, NEW r \in Replica, BackfillConfig(r) PROVE IInv'
<1>1. PICK held \in BOOLEAN :
         /\ LeaseStillHeld(r, held)
         /\ missing' \in {missing} \union (IF held /\ missing > 0 THEN {missing - 1} ELSE {})
         /\ LET left  == IF held THEN rep[r].batch - 1 ELSE 0
                state == [Kept(r, held) EXCEPT !.batch = left]
            IN Become(r, IF left = 0 THEN Asleep(state) ELSE Moved(state, "config"))
  BY DEF BackfillConfig
<1>2. missing' \in 0..MaxMissing
  BY <1>1, BoundsAssumption DEF IInv, TypeOK
<1>3. BoardKept /\ WorldKept /\ published' = published
  BY <1>2, BoardSame DEF BackfillConfig, IInv, TypeOK, WorldKept, worldVars
<1>4. rep[r].pc = "config" /\ rep[r].pc \in Timed
  BY DEF BackfillConfig, Timed
<1> DEFINE k == Kept(r, held)
           left == IF held THEN rep[r].batch - 1 ELSE 0
           b == [k EXCEPT !.batch = left]
<1>5. /\ LeaseKept(r) /\ k \in ReplicaState
      /\ k.promised = rep[r].promised
      /\ faults' = 0 /\ k.leader => Holds(r)'
  BY <1>1, <1>4, LeaseStillHeldKeeps
<1>6. left \in 0..MaxMissing
  BY <1>4, StateFacts, BoundsAssumption DEF OnSchedule, ReplicaState
<1>7. Become(r, IF left = 0 THEN Asleep(b) ELSE Moved(b, "config"))
  BY <1>1
<1>8. k = Kept(r, held) /\ (left # 0 => held)
  OBVIOUS
<1> HIDE DEF k, left
<1>9. /\ b \in ReplicaState /\ b.promised = rep[r].promised /\ b.leader = k.leader
      /\ b.lost = k.lost /\ b.checked = k.checked /\ b.batch = left
  BY <1>5, <1>6 DEF ReplicaState
<1> HIDE DEF b
<1>10. CASE left = 0
  <2>1. Become(r, Asleep(b))
    BY <1>7, <1>10
  <2> QED
    BY <1>3, <1>5, <1>9, <2>1, AsleepKeeps
<1>11. CASE left # 0
  <2> DEFINE s == Moved(b, "config")
  <2> "config" \in Phase
    BY DEF Phase
  <2>1. /\ s \in ReplicaState /\ s.pc = "config" /\ s.spent = 0 /\ s.leader = k.leader
        /\ s.lost = k.lost /\ s.checked = k.checked /\ s.batch = left
        /\ s.promised = rep[r].promised
    BY <1>9, MovedState
  <2>2. Become(r, s)
    BY <1>7, <1>11
  <2> HIDE DEF s
  <2>3. OnSchedule(s) /\ s.pc \in Upstream
    BY <1>6, <1>11, <2>1, TimeAssumption DEF OnSchedule, Allowed, Upstream
  <2>4. Covered(s, status', published')
    BY <1>3, <2>1, StateFacts DEF Covered
  <2>5. Fit(k)
    BY <1>1, <1>4, <1>8, <1>11, HeldIsFit
  <2> QED
    BY <1>3, <1>5, <2>1, <2>2, <2>3, <2>4, <2>5, WorkKeeps
<1> QED
  BY <1>10, <1>11

(***************************************************************************)
(* The world.                                                              *)
(***************************************************************************)

\* A step that touches no replica.
LEMMA WorldStep ==
    ASSUME IInv, rep' = rep,
           lock' \in Replica \union {NoReplica}, orphan' \in BOOLEAN, faults' \in 0..MaxFaults,
           orphan' => lock' # NoReplica,
           faults' = 0 => faults = 0 /\ \A r \in Replica : rep[r].leader /\ Holds(r) => Holds(r)',
           BoardKept, WorldKept, published \subseteq published', published' \subseteq Package
    PROVE  IInv'
<1>1. TypeOK'
  BY DEF IInv, TypeOK, BoardKept, BoardType, WorldKept
<1>2. LeaseInv'
  BY DEF IInv, LeaseInv
<1>3. ASSUME NEW r \in Replica PROVE Covered(rep[r], status', published')
  BY StateFacts DEF Covered, BoardKept
<1>4. \A r \in Replica : (OnSchedule(rep[r]) /\ Trusted(rep[r]))'
  BY DEF IInv, OnSchedule, Trusted, Allowed
<1>5. \A r \in Replica : Covered(rep[r], status, published)'
  BY <1>3 DEF Covered
<1> QED
  BY <1>1, <1>2, <1>4, <1>5 DEF IInv, BoardKept

LEMMA ProducersKeep ==
    ASSUME IInv, NEW p \in Package, Publish(p) \/ Notify(p) PROVE IInv'
<1>1. CASE Publish(p)
  <2>1. BoardKept /\ WorldKept
    BY <1>1, BoardSame DEF Publish, IInv, TypeOK, WorldKept
  <2>2. published \subseteq published' /\ published' \subseteq Package
    BY <1>1 DEF Publish, IInv, TypeOK
  <2>3. rep' = rep /\ UNCHANGED <<lock, orphan, faults>>
    BY <1>1 DEF Publish, leaseVars
  <2> QED
    BY <2>1, <2>2, <2>3, WorldStep DEF IInv, TypeOK, LeaseInv, Holds
<1>2. CASE Notify(p)
  <2>1. BoardKept
    BY <1>2, BoardAsk DEF Notify
  <2>2. WorldKept
    BY <1>2, BoundsAssumption DEF Notify, IInv, TypeOK, WorldKept
  <2>3. rep' = rep /\ UNCHANGED <<lock, orphan, faults, published>>
    BY <1>2 DEF Notify, leaseVars
  <2> QED
    BY <2>1, <2>2, <2>3, WorldStep DEF IInv, TypeOK, LeaseInv, Holds
<1> QED
  BY <1>1, <1>2

LEMMA SessionsKeep ==
    ASSUME IInv, LoseSession \/ EndSession PROVE IInv'
<1>1. BoardKept /\ WorldKept /\ rep' = rep /\ published' = published
  BY BoardSame DEF LoseSession, EndSession, IInv, TypeOK, WorldKept, worldVars
<1>2. CASE LoseSession
  <2>1. faults' \in 0..MaxFaults /\ faults' # 0
    BY <1>2, BoundsAssumption DEF LoseSession, Fault, IInv, TypeOK
  <2>2. lock' = lock /\ lock # NoReplica /\ orphan' = TRUE
    BY <1>2 DEF LoseSession
  <2> QED
    BY <1>1, <2>1, <2>2, WorldStep DEF IInv, TypeOK
<1>3. CASE EndSession
  <2>1. lock' = NoReplica /\ orphan' = FALSE /\ faults' = faults
    BY <1>3 DEF EndSession
  <2>2. \A r \in Replica : ~Holds(r)
    BY <1>3 DEF EndSession, Holds
  <2> QED
    BY <1>1, <2>1, <2>2, WorldStep DEF IInv, TypeOK
<1> QED
  BY <1>2, <1>3

LEMMA CrashKeeps ==
    ASSUME IInv, NEW r \in Replica, Crash(r) PROVE IInv'
<1> DEFINE s == [Started EXCEPT !.pc = "down"]
<1>1. BoardKept /\ Become(r, s) /\ published' = published
  BY BoardLeave DEF Crash
<1>2. WorldKept
  BY BoundsAssumption DEF Crash, IInv, TypeOK, WorldKept
<1>3. LeaseKept(r)
  <2>1. lock' = lock /\ faults' = faults /\ orphan' = (orphan \/ lock = r)
    BY DEF Crash
  <2> QED
    BY <2>1, SentinelAssumption DEF IInv, TypeOK, LeaseInv, LeaseKept, Holds
<1> "down" \in Phase
  BY DEF Phase
<1>4. s \in ReplicaState /\ s.pc = "down" /\ s.leader = FALSE /\ s.promised = {} /\ s.spent = 0
  BY StartedState DEF Good, ReplicaState, Started
<1> HIDE DEF s
<1>5. Good(s)
  BY <1>4, TimeAssumption DEF Good, OnSchedule, Trusted, Allowed, Upstream, Timed
<1>6. Covered(s, status', published')
  BY <1>4 DEF Covered
<1> QED
  BY <1>1, <1>2, <1>3, <1>4, <1>5, <1>6, StepKeeps

LEMMA RestartKeeps ==
    ASSUME IInv, NEW r \in Replica, Restart(r) PROVE IInv'
<1>1. BoardKept /\ WorldKept /\ published' = published /\ Become(r, Started)
  BY BoardSame DEF Restart, IInv, TypeOK, WorldKept, worldVars
<1>2. LeaseKept(r)
  BY QuietLease DEF Restart, leaseVars
<1>3. Covered(Started, status', published')
  BY StartedState DEF Covered
<1> QED
  BY <1>1, <1>2, <1>3, StartedState, StepKeeps

\* Time passes for a replica that does not overstay its phase.
LEMMA AgedState ==
    ASSUME IInv, NEW r \in Replica, OnTime(rep[r])
    PROVE  /\ Good(Aged(r)) /\ Aged(r).leader = rep[r].leader /\ Aged(r).pc = rep[r].pc
           /\ Aged(r).promised = rep[r].promised /\ Aged(r).todo = rep[r].todo
           /\ Aged(r).cur = rep[r].cur
<1> DEFINE s == rep[r]
           spent == IF s.pc = "down" THEN 0 ELSE s.spent + 1
           checked == IF s.pc \in Timed THEN Capped(s.checked, Retry) ELSE s.checked
           lostFor == IF s.leader /\ ~Holds(r) THEN Capped(s.lost, LostCap) ELSE 0
           a == [s EXCEPT !.spent = spent, !.checked = checked, !.lost = lostFor]
<1>1. Aged(r) = a
  BY StateFacts DEF Aged, ReplicaState
<1>2. s \in ReplicaState /\ OnSchedule(s) /\ Trusted(s)
  BY StateFacts
<1>3. /\ s.spent \in Nat /\ s.lost \in 0..LostCap /\ s.checked \in 0..Retry
      /\ s.untilDue \in Nat /\ s.pc \in Phase /\ LostCap \in Nat
  BY <1>2, TimeAssumption DEF ReplicaState, LostCap
<1> HIDE DEF s
<1>4. spent <= Allowed(s) /\ spent \in Nat /\ (s.pc # "down" => spent = s.spent + 1)
  BY <1>3, TimeAssumption DEF OnTime, Allowed, s, Upstream
<1>5. spent \in 0..(Retry + WorkMax + DbMax)
  BY <1>2, <1>3, <1>4, TimeAssumption DEF Allowed, OnSchedule
<1>6. checked \in 0..Retry /\ (s.pc \in Timed /\ checked < Retry => checked = s.checked + 1)
  BY <1>3, TimeAssumption DEF Capped
<1>7. lostFor \in 0..LostCap /\ lostFor <= s.lost + 1
  BY <1>3 DEF Capped
<1> HIDE DEF spent, checked, lostFor
<1>8. /\ a \in ReplicaState /\ a.spent = spent /\ a.checked = checked /\ a.lost = lostFor
      /\ a.leader = s.leader /\ a.pc = s.pc /\ a.promised = s.promised /\ a.todo = s.todo
      /\ a.cur = s.cur /\ a.untilDue = s.untilDue /\ a.batch = s.batch /\ a.errors = s.errors
  BY <1>2, <1>5, <1>6, <1>7 DEF ReplicaState
<1> HIDE DEF a
<1>9. OnSchedule(a)
  BY <1>2, <1>4, <1>8 DEF OnSchedule, Allowed
<1>10. Trusted(a)
  <2>1. a.pc \in {"due", "recover", "record"} => a.lost <= a.spent
    BY <1>2, <1>3, <1>4, <1>7, <1>8 DEF Trusted
  <2>2. a.pc \in Timed /\ a.checked < Retry => a.lost <= a.checked + DbMax
    BY <1>2, <1>3, <1>6, <1>7, <1>8, TimeAssumption DEF Trusted
  <2>3. a.pc \in Upstream => a.leader /\ a.lost < Retry + DbMax + a.spent
    BY <1>2, <1>3, <1>4, <1>7, <1>8, TimeAssumption DEF Trusted, Upstream
  <2> QED
    BY <2>1, <2>2, <2>3 DEF Trusted
<1> QED
  BY <1>1, <1>8, <1>9, <1>10 DEF Good, s

LEMMA TickKeeps ==
    ASSUME IInv, Tick PROVE IInv'
<1>1. BoardKept
  BY BoardSame DEF Tick
<1>2. passAge' \in 0..Interval /\ sinceStart' \in 0..Interval
  BY TimeAssumption DEF Tick, IInv, TypeOK, Capped
<1>3. UNCHANGED <<lock, orphan, faults, missing, published, crashes, notifies>>
  BY DEF Tick, leaseVars, worldVars
<1>4. ASSUME NEW r \in Replica
      PROVE  /\ rep'[r] \in ReplicaState /\ OnSchedule(rep'[r]) /\ Trusted(rep'[r])
             /\ rep'[r].leader = rep[r].leader /\ Covered(rep'[r], status', published')
  <2>1. rep'[r] = Aged(r) /\ OnTime(rep[r])
    BY DEF Tick
  <2>2. Covered(rep'[r], status', published')
    BY <1>1, <1>3, <2>1, AgedState, StateFacts DEF Covered, BoardKept
  <2> QED
    BY <2>1, <2>2, AgedState DEF Good
<1>5. rep' \in [Replica -> ReplicaState]
  BY <1>4 DEF Tick
<1>6. TypeOK'
  BY <1>1, <1>2, <1>3, <1>5 DEF IInv, TypeOK, BoardKept, BoardType
<1>7. LeaseInv'
  BY <1>3, <1>4 DEF IInv, LeaseInv, Holds
<1>8. \A r \in Replica : (OnSchedule(rep[r]) /\ Trusted(rep[r]))'
  BY <1>4 DEF OnSchedule, Trusted, Allowed
<1>9. \A r \in Replica : Covered(rep[r], status, published)'
  BY <1>4 DEF Covered
<1> QED
  BY <1>1, <1>6, <1>7, <1>8, <1>9 DEF IInv, BoardKept

(***************************************************************************)
(* The invariant, and what follows from it.                                *)
(***************************************************************************)

LEMMA StepIInv ==
    ASSUME IInv, NEW r \in Replica, Step(r) PROVE IInv'
BY CheckKeeps, TimeUntilDiscoveryKeeps, NextPackageKeeps, ListTagsKeeps, EnqueueKeeps,
   EndPassKeeps, RecordKeeps, StartQueueKeeps, RecoverKeeps, DequeueKeeps, DequeueFailsKeeps,
   EndTaskKeeps, SettleKeeps, StartBackfillKeeps, BackfillConfigKeeps, WakeKeeps DEF Step

LEMMA SameKeeps ==
    ASSUME IInv, UNCHANGED vars PROVE IInv'
<1>1. UNCHANGED <<lock, orphan, faults, published, rep>>
  BY DEF vars, leaseVars, worldVars
<1>2. BoardKept /\ WorldKept
  BY BoardSame DEF vars, boardVars, worldVars, IInv, TypeOK, WorldKept
<1> QED
  BY <1>1, <1>2, WorldStep DEF IInv, TypeOK, LeaseInv, Holds

LEMMA NextIInv == IInv /\ [Next]_vars => IInv'
BY StepIInv, CrashKeeps, RestartKeeps, ProducersKeep, SessionsKeep, TickKeeps, SameKeeps DEF Next

LEMMA Invariance == Spec => []IInv
BY InitIInv, NextIInv, PTL DEF Spec

\* Type correctness: in particular a nap, a drain and a backfill are within bounds.
THEOREM TypeCorrectness == Spec => []TypeOK
<1>1. IInv => TypeOK
  BY DEF IInv
<1> QED
  BY <1>1, Invariance, PTL

\* While no session or call is lost, one replica works upstream (indexer_lease.rs),
\* although replicas crash at any time.
THEOREM OneIndexer == Spec => []SingleIndexer
<1>1. IInv => SingleIndexer
  <2> SUFFICES ASSUME IInv, faults = 0, NEW r \in Replica, NEW s \in Replica,
                      rep[r].pc \in Upstream, rep[s].pc \in Upstream
               PROVE  r = s
    BY DEF SingleIndexer
  <2>1. rep[r].leader /\ rep[s].leader
    BY StateFacts DEF Trusted
  <2> QED
    BY <2>1 DEF IInv, LeaseInv, Holds
<1> QED
  BY <1>1, Invariance, PTL

\* A replica that has lost its lease stops working after the retry interval, the
\* work at hand and one database call (lease_still_held), whatever happens.
THEOREM BoundedOverlap == Spec => []OverlapIsBounded
<1>1. IInv => OverlapIsBounded
  <2> SUFFICES ASSUME IInv, NEW r \in Replica, rep[r].pc \in Upstream
               PROVE  rep[r].lost < Retry + WorkMax + DbMax
    BY DEF OverlapIsBounded
  <2>1. rep[r].lost < Retry + DbMax + rep[r].spent
    BY StateFacts DEF Trusted
  <2>2. rep[r].spent <= WorkMax
    BY StateFacts DEF OnSchedule, Allowed, Upstream
  <2>3. rep[r].spent \in Nat /\ rep[r].lost \in Nat
    BY StateFacts, TimeAssumption DEF ReplicaState, LostCap
  <2> QED
    BY <2>1, <2>2, <2>3, TimeAssumption
<1> QED
  BY <1>1, Invariance, PTL

\* Whoever records a pass had the lease one database call ago (discover).
THEOREM LeaderRecords == Spec => RecordedByLeader
<1>1. IInv /\ [Next]_vars => [\A r \in Replica : Records(r) => rep[r].lost <= DbMax]_vars
  <2> SUFFICES ASSUME IInv, NEW r \in Replica, Records(r) PROVE rep[r].lost <= DbMax
    OBVIOUS
  <2>1. rep[r].lost <= rep[r].spent /\ rep[r].spent <= DbMax
    BY StateFacts DEF Records, Trusted, OnSchedule, Allowed, Upstream
  <2>2. rep[r].spent \in Nat /\ rep[r].lost \in Nat
    BY StateFacts, TimeAssumption DEF ReplicaState, LostCap
  <2> QED
    BY <2>1, <2>2, TimeAssumption
<1> QED
  BY <1>1, Invariance, PTL DEF Spec, RecordedByLeader

\* A recorded pass has queued every version that was upstream when it began, but
\* for the packages that it failed to index (discover, record_index_discovery).
THEOREM CompletePasses == Spec => RecordedPassIsComplete
<1>1. IInv /\ [Next]_vars =>
         [\A r \in Replica : Records(r) => \A p \in rep[r].promised : status[p] # "absent"]_vars
  <2> SUFFICES ASSUME IInv, NEW r \in Replica, Records(r), NEW p \in rep[r].promised
               PROVE  status[p] # "absent"
    OBVIOUS
  <2> QED
    BY StateFacts DEF Records, Covered
<1> QED
  BY <1>1, Invariance, PTL DEF Spec, RecordedPassIsComplete

(***************************************************************************)
(* The pace of discovery: while no session and no call is lost, a replica  *)
(* in a pass has the lock from its first step to the record of the pass.   *)
(***************************************************************************)

Passing == {"due", "discover", "listing", "enqueue", "record"}
Begun == Passing \ {"due"}

\* A pass that nobody asked for with --refetch is due as long as it runs, and
\* between passes the last one was recorded no longer ago than it began.
PaceInv ==
    /\ \A r \in Replica : rep[r].pc \in Passing => rep[r].leader
    /\ faults = 0 =>
          \A r \in Replica :
             rep[r].pc \in Begun \ {"record"} /\ ~rep[r].refetch => passAge = Interval
    /\ faults = 0 /\ crashes = 0 =>
          passAge <= sinceStart \/ \E r \in Replica : rep[r].pc \in Begun

\* The replica is outside of a pass, before and after the step.
Apart(r) ==
    /\ rep[r].pc \notin Begun /\ rep'[r].pc \notin Begun
    /\ rep'[r].pc = "due" => rep'[r].leader
    /\ \A q \in Replica \ {r} : rep'[q] = rep[q]
    /\ UNCHANGED <<passAge, sinceStart, crashes>>
    /\ faults' = 0 => faults = 0

LEMMA ApartKeeps ==
    ASSUME PaceInv, NEW r \in Replica, Apart(r) PROVE PaceInv'
<1>1. \A q \in Replica : rep'[q].pc \in Begun => rep'[q] = rep[q]
  BY DEF Apart
<1>2. \A q \in Replica : rep[q].pc \in Begun => rep'[q] = rep[q]
  BY DEF Apart
<1>3. \A q \in Replica : rep'[q].pc \in Passing => rep'[q].leader
  BY DEF PaceInv, Apart, Begun
<1>4. ASSUME faults' = 0, NEW q \in Replica, rep'[q].pc \in Begun \ {"record"}, ~rep'[q].refetch
      PROVE  passAge' = Interval
  BY <1>1, <1>4 DEF PaceInv, Apart
<1>5. ASSUME faults' = 0, crashes' = 0
      PROVE  passAge' <= sinceStart' \/ \E q \in Replica : rep'[q].pc \in Begun
  BY <1>2, <1>5 DEF PaceInv, Apart
<1> QED
  BY <1>3, <1>4, <1>5 DEF PaceInv

\* While nothing is lost, two replicas are never in a pass.
LEMMA OnePass ==
    ASSUME IInv, PaceInv, faults = 0, NEW r \in Replica, NEW q \in Replica,
           rep[r].pc \in Passing, rep[q].pc \in Passing
    PROVE  r = q
BY DEF IInv, LeaseInv, PaceInv, Holds

\* What becomes of a state in the fields that matter here.
LEMMA SamePhase ==
    ASSUME NEW s \in ReplicaState, NEW a, NEW b
    PROVE  /\ [s EXCEPT !.untilDue = a].pc = s.pc
           /\ [s EXCEPT !.checked = a, !.errors = b].pc = s.pc
           /\ [s EXCEPT !.batch = a, !.checked = b].pc = s.pc
           /\ [s EXCEPT !.errors = a, !.cur = b].pc = s.pc
           /\ [s EXCEPT !.cur = a].pc = s.pc
           /\ [[s EXCEPT !.cur = a] EXCEPT !.errors = b].pc = s.pc
BY DEF ReplicaState

LEMMA StepBecomes ==
    ASSUME IInv, NEW r \in Replica, NEW s, Become(r, s)
    PROVE  rep'[r] = s /\ \A q \in Replica \ {r} : rep'[q] = rep[q]
BY DEF IInv, TypeOK, Become

\* No call takes a fault back.
LEMMA FaultsStay ==
    ASSUME IInv, UNCHANGED faults \/ Fault PROVE faults' = 0 => faults = 0
BY BoundsAssumption DEF IInv, TypeOK, Fault

LEMMA HoldFaults ==
    ASSUME IInv, NEW r \in Replica, NEW held \in BOOLEAN,
           TryHold(r, held) \/ LeaseStillHeld(r, held)
    PROVE  UNCHANGED faults \/ Fault
BY DEF TryHold, LeaseStillHeld, leaseVars

LEMMA AsleepPhase ==
    ASSUME NEW s \in ReplicaState PROVE Asleep(s).pc = "asleep"
<1> DEFINE m == Moved(s, "asleep")
<1>1. m \in ReplicaState /\ m.pc = "asleep"
  BY MovedState DEF Phase
<1>2. Asleep(s) = [m EXCEPT !.untilDue = Lesser(IF @ = 0 THEN Interval ELSE @, Retry)]
  BY DEF Asleep
<1> HIDE DEF m
<1>3. QED
  BY <1>1, <1>2 DEF ReplicaState

LEMMA ErroredPhase ==
    ASSUME NEW s \in ReplicaState PROVE Errored(s).pc \in {"backfill", "drain"}
<1> DEFINE phase == IF TooManyErrors(s.errors + 1) THEN "backfill" ELSE "drain"
           m == Moved(s, phase)
<1>1. phase \in Phase /\ phase \in {"backfill", "drain"}
  BY DEF Phase
<1> HIDE DEF phase
<1>2. m \in ReplicaState /\ m.pc = phase
  BY <1>1, MovedState
<1>3. Errored(s) = [m EXCEPT !.errors = @ + 1, !.cur = NoPackage]
  BY DEF Errored, phase
<1> HIDE DEF m
<1>4. QED
  BY <1>1, <1>2, <1>3 DEF ReplicaState

\* The steps outside of a pass.
LEMMA CheckApart ==
    ASSUME IInv, NEW r \in Replica, Check(r) PROVE Apart(r)
<1>1. PICK held \in BOOLEAN :
         /\ TryHold(r, held)
         /\ Become(r, IF held THEN Moved(Led(r, held), "due")
                      ELSE [Moved(Led(r, held), "asleep") EXCEPT !.untilDue = Retry])
  BY DEF Check
<1>2. rep[r].pc = "check" /\ UNCHANGED <<passAge, sinceStart, crashes>>
  BY DEF Check, worldVars
<1>3. faults' = 0 => faults = 0
  BY <1>1, HoldFaults, FaultsStay
<1> DEFINE l == Led(r, held)
<1>4. l \in ReplicaState /\ l.leader = held
  BY LedState
<1>5. CASE held
  <2> DEFINE s == Moved(l, "due")
  <2>1. s.pc = "due" /\ s.leader = held
    <3> HIDE DEF l
    <3> QED
      BY <1>4, MovedState DEF Phase
  <2>2. Become(r, s)
    BY <1>1, <1>5
  <2> HIDE DEF s
  <2>3. QED
    BY <1>2, <1>3, <1>5, <2>1, <2>2, StepBecomes DEF Apart, Begun, Passing
<1>6. CASE ~held
  <2> DEFINE m == Moved(l, "asleep")
             s == [m EXCEPT !.untilDue = Retry]
  <2>1. m \in ReplicaState /\ m.pc = "asleep"
    <3> HIDE DEF l
    <3> QED
      BY <1>4, MovedState DEF Phase
  <2>2. Become(r, s)
    BY <1>1, <1>6
  <2> HIDE DEF m
  <2>3. s.pc = "asleep"
    BY <2>1, SamePhase
  <2> HIDE DEF s
  <2>4. QED
    BY <1>2, <1>3, <2>2, <2>3, StepBecomes DEF Apart, Begun, Passing
<1> QED
  BY <1>5, <1>6

\* Outside of a pass, and not on the way to one.
Aside(s) == s.pc \notin Passing

LEMMA AsideApart ==
    ASSUME IInv, NEW r \in Replica, NEW s, Become(r, s), Aside(rep[r]), Aside(s),
           UNCHANGED <<passAge, sinceStart, crashes>>, UNCHANGED faults \/ Fault
    PROVE  Apart(r)
BY StepBecomes, FaultsStay DEF Apart, Aside, Begun, Passing

LEMMA StartQueueApart ==
    ASSUME IInv, NEW r \in Replica, StartQueue(r) PROVE Apart(r)
<1>1. PICK held \in BOOLEAN :
         TryHold(r, held) /\ Become(r, Moved(Led(r, held), IF held THEN "recover" ELSE "backfill"))
  BY DEF StartQueue
<1> DEFINE l == Led(r, held)
           phase == IF held THEN "recover" ELSE "backfill"
           s == Moved(l, phase)
<1>2. l \in ReplicaState
  BY LedState
<1>3. phase \in Phase /\ phase \notin Passing
  BY DEF Phase, Passing
<1> HIDE DEF l, phase
<1>4. s.pc \notin Passing
  BY <1>2, <1>3, MovedState
<1>5. Become(r, s)
  BY <1>1 DEF l, phase
<1> HIDE DEF s
<1>6. /\ rep[r].pc = "queue" /\ UNCHANGED <<passAge, sinceStart, crashes>>
      /\ UNCHANGED faults \/ Fault
  BY <1>1, HoldFaults DEF StartQueue, worldVars
<1>7. QED
  BY <1>4, <1>5, <1>6, AsideApart DEF Aside, Passing

LEMMA RecoverApart ==
    ASSUME IInv, NEW r \in Replica, RecoverNothing(r) \/ RecoverTasks(r) PROVE Apart(r)
<1> DEFINE m == Moved(rep[r], "drain")
           s == [m EXCEPT !.checked = 0, !.errors = 0]
<1>1. StartDrain(r) /\ UNCHANGED faults
  BY DEF RecoverNothing, RecoverTasks
<1>2. m \in ReplicaState /\ m.pc = "drain"
  BY StateFacts, MovedState DEF Phase
<1>3. /\ Become(r, s) /\ rep[r].pc = "recover"
      /\ UNCHANGED <<passAge, sinceStart, crashes>>
  BY <1>1 DEF StartDrain, worldVars
<1> HIDE DEF m
<1>4. s.pc = "drain"
  BY <1>2, SamePhase
<1> HIDE DEF s
<1>5. QED
  BY <1>1, <1>3, <1>4, AsideApart DEF Aside, Passing

LEMMA DequeueApart ==
    ASSUME IInv, NEW r \in Replica, Dequeue(r) PROVE Apart(r)
<1>1. rep[r].pc = "drain" /\ UNCHANGED <<passAge, sinceStart, crashes>>
  BY DEF Dequeue, worldVars
<1>2. PICK held \in BOOLEAN, p \in Package \union {NoPackage} :
         /\ LeaseStillHeld(r, held)
         /\ \/ Become(r, [Moved(Kept(r, held), "task") EXCEPT !.cur = p])
            \/ Become(r, Moved(Kept(r, held), "backfill"))
  BY DEF Dequeue
<1> DEFINE k == Kept(r, held)
           m == Moved(k, "task")
           t == [m EXCEPT !.cur = p]
           b == Moved(k, "backfill")
<1>3. k \in ReplicaState
  BY <1>1, <1>2, LeaseStillHeldKeeps DEF Timed
<1>4. UNCHANGED faults \/ Fault
  BY <1>2, HoldFaults
<1> HIDE DEF k
<1>5. m \in ReplicaState /\ m.pc = "task" /\ b.pc = "backfill"
  BY <1>3, MovedState DEF Phase
<1> HIDE DEF m
<1>6. t.pc = "task"
  BY <1>5, SamePhase
<1>7. Become(r, t) \/ Become(r, b)
  BY <1>2 DEF k, m
<1> HIDE DEF t, b
<1>8. QED
  BY <1>1, <1>4, <1>5, <1>6, <1>7, AsideApart DEF Aside, Passing

LEMMA DequeueFailsApart ==
    ASSUME IInv, NEW r \in Replica, DequeueFails(r) PROVE Apart(r)
<1>1. rep[r] \in ReplicaState
  BY StateFacts
<1>2. Errored(rep[r]).pc \in {"backfill", "drain"}
  BY <1>1, ErroredPhase
<1>3. /\ Become(r, Errored(rep[r])) /\ rep[r].pc = "drain" /\ Fault
      /\ UNCHANGED <<passAge, sinceStart, crashes>>
  BY DEF DequeueFails, worldVars
<1>4. QED
  BY <1>2, <1>3, AsideApart DEF Aside, Passing

LEMMA EndTaskApart ==
    ASSUME IInv, NEW r \in Replica, EndTask(r) PROVE Apart(r)
<1>1. Moved(rep[r], "settle").pc = "settle"
  BY StateFacts, MovedState DEF Phase
<1>2. /\ Become(r, Moved(rep[r], "settle")) /\ rep[r].pc = "task" /\ UNCHANGED faults
      /\ UNCHANGED <<passAge, sinceStart, crashes>>
  BY DEF EndTask, worldVars, leaseVars
<1>3. QED
  BY <1>1, <1>2, AsideApart DEF Aside, Passing

LEMMA SettleApart ==
    ASSUME IInv, NEW r \in Replica, Settle(r) PROVE Apart(r)
<1> DEFINE m == Moved(rep[r], "drain")
           after == [m EXCEPT !.cur = NoPackage]
<1>1. rep[r].pc = "settle" /\ UNCHANGED <<passAge, sinceStart, crashes>>
  BY DEF Settle, worldVars
<1>2. m \in ReplicaState /\ m.pc = "drain" /\ rep[r] \in ReplicaState
  BY StateFacts, MovedState DEF Phase
<1>3. PICK n : /\ UNCHANGED faults \/ Fault
               /\ \/ Become(r, after) \/ Become(r, [after EXCEPT !.errors = n])
                  \/ Become(r, Errored(rep[r]))
  BY DEF Settle
<1> HIDE DEF m
<1>4. after.pc = "drain" /\ [after EXCEPT !.errors = n].pc = "drain"
  BY <1>2, SamePhase
<1>5. Errored(rep[r]).pc \in {"backfill", "drain"}
  BY <1>2, ErroredPhase
<1> HIDE DEF after
<1>6. QED
  BY <1>1, <1>3, <1>4, <1>5, AsideApart DEF Aside, Passing

LEMMA StartBackfillApart ==
    ASSUME IInv, NEW r \in Replica, StartBackfill(r) PROVE Apart(r)
<1>1. rep[r].pc = "backfill" /\ UNCHANGED <<passAge, sinceStart, crashes>>
  BY DEF StartBackfill, worldVars
<1>2. CASE Become(r, Asleep(rep[r])) /\ UNCHANGED leaseVars
  <2>1. rep[r] \in ReplicaState
    BY StateFacts
  <2>2. Asleep(rep[r]).pc = "asleep"
    BY <2>1, AsleepPhase
  <2>3. QED
    BY <1>1, <1>2, <2>2, AsideApart DEF Aside, Passing, leaseVars
<1>3. CASE \E held \in BOOLEAN :
                /\ TryHold(r, held)
                /\ Become(r, IF held /\ missing > 0
                             THEN [Moved(Led(r, held), "config") EXCEPT
                                     !.batch = missing, !.checked = 0]
                             ELSE Asleep(Led(r, held)))
  <2>1. PICK held \in BOOLEAN :
                /\ TryHold(r, held)
                /\ \/ Become(r, [Moved(Led(r, held), "config") EXCEPT !.batch = missing, !.checked = 0])
                   \/ Become(r, Asleep(Led(r, held)))
    BY <1>3
  <2> DEFINE l == Led(r, held)
             m == Moved(l, "config")
             s == [m EXCEPT !.batch = missing, !.checked = 0]
  <2>2. l \in ReplicaState
    BY LedState
  <2>3. UNCHANGED faults \/ Fault
    BY <2>1, HoldFaults
  <2> HIDE DEF l
  <2>4. m \in ReplicaState /\ m.pc = "config" /\ Asleep(l).pc = "asleep"
    BY <2>2, MovedState, AsleepPhase DEF Phase
  <2> HIDE DEF m
  <2>5. s.pc = "config"
    BY <2>4, SamePhase
  <2>6. Become(r, s) \/ Become(r, Asleep(l))
    BY <2>1 DEF l, m
  <2> HIDE DEF s
  <2>7. QED
    BY <1>1, <2>3, <2>4, <2>5, <2>6, AsideApart DEF Aside, Passing
<1> QED
  BY <1>2, <1>3 DEF StartBackfill

LEMMA BackfillConfigApart ==
    ASSUME IInv, NEW r \in Replica, BackfillConfig(r) PROVE Apart(r)
<1>1. rep[r].pc = "config" /\ UNCHANGED <<passAge, sinceStart, crashes>>
  BY DEF BackfillConfig, worldVars
<1>2. PICK held \in BOOLEAN, left \in {rep[r].batch - 1, 0} :
         /\ LeaseStillHeld(r, held)
         /\ left = IF held THEN rep[r].batch - 1 ELSE 0
         /\ \/ Become(r, Asleep([Kept(r, held) EXCEPT !.batch = left]))
            \/ left # 0 /\ Become(r, Moved([Kept(r, held) EXCEPT !.batch = left], "config"))
  BY DEF BackfillConfig
<1> DEFINE k == Kept(r, held)
           s == [k EXCEPT !.batch = left]
<1>3. k \in ReplicaState
  BY <1>1, <1>2, LeaseStillHeldKeeps DEF Timed
<1>4. UNCHANGED faults \/ Fault
  BY <1>2, HoldFaults
<1> HIDE DEF k
<1>5. left \in 0..MaxMissing
  <2>1. rep[r].batch \in 0..MaxMissing /\ rep[r].batch > 0
    BY <1>1, StateFacts DEF OnSchedule, ReplicaState
  <2>2. QED
    BY <1>2, <2>1, BoundsAssumption
<1>6. s \in ReplicaState
  BY <1>3, <1>5 DEF ReplicaState
<1>7. Become(r, Asleep(s)) \/ Become(r, Moved(s, "config"))
  BY <1>2 DEF k
<1> HIDE DEF s
<1>8. Asleep(s).pc = "asleep" /\ Moved(s, "config").pc = "config"
  BY <1>6, MovedState, AsleepPhase DEF Phase
<1>9. QED
  BY <1>1, <1>4, <1>7, <1>8, AsideApart DEF Aside, Passing

LEMMA WakeApart ==
    ASSUME IInv, NEW r \in Replica, Wake(r) PROVE Apart(r)
<1> DEFINE m == Moved(rep[r], "check")
           s == [m EXCEPT !.untilDue = 0]
<1>1. m \in ReplicaState /\ m.pc = "check"
  BY StateFacts, MovedState DEF Phase
<1>2. /\ Become(r, s) /\ rep[r].pc = "asleep" /\ UNCHANGED faults
      /\ UNCHANGED <<passAge, sinceStart, crashes>>
  BY DEF Wake, worldVars, leaseVars
<1> HIDE DEF m
<1>3. s.pc = "check"
  BY <1>1, SamePhase
<1> HIDE DEF s
<1>4. QED
  BY <1>2, <1>3, AsideApart DEF Aside, Passing

(***************************************************************************)
(* The steps of a pass.                                                    *)
(***************************************************************************)

\* One step of a pass that goes on with the lease.
LEMMA PassKeeps ==
    ASSUME IInv, PaceInv, NEW r \in Replica, NEW s, Become(r, s),
           rep[r].pc \in Begun \ {"record"}, s.pc \in Begun, s.leader,
           s.refetch = rep[r].refetch \/ s.pc = "record",
           UNCHANGED <<passAge, sinceStart, crashes>>, faults' = 0 => faults = 0
    PROVE  PaceInv'
<1>1. rep'[r] = s /\ \A q \in Replica \ {r} : rep'[q] = rep[q]
  BY StepBecomes
<1>2. \A q \in Replica : rep'[q].pc \in Passing => rep'[q].leader
  BY <1>1 DEF PaceInv
<1>3. ASSUME faults' = 0, NEW q \in Replica, rep'[q].pc \in Begun \ {"record"}, ~rep'[q].refetch
      PROVE  passAge' = Interval
  <2>1. CASE q = r
    BY <1>1, <1>3, <2>1 DEF PaceInv
  <2>2. CASE q # r
    BY <1>1, <1>3, <2>2 DEF PaceInv
  <2> QED
    BY <2>1, <2>2
<1>4. \E q \in Replica : rep'[q].pc \in Begun
  BY <1>1
<1> QED
  BY <1>2, <1>3, <1>4 DEF PaceInv

\* One step that has lost a session or a call.
LEMMA FaultyKeeps ==
    ASSUME IInv, PaceInv, NEW r \in Replica, NEW s, Become(r, s), faults' # 0,
           s.pc \in Passing => s.leader
    PROVE  PaceInv'
<1>1. rep'[r] = s /\ \A q \in Replica \ {r} : rep'[q] = rep[q]
  BY StepBecomes
<1> QED
  BY <1>1 DEF PaceInv

LEMMA FaultCounts == ASSUME IInv, Fault PROVE faults' # 0
BY DEF IInv, TypeOK, Fault

\* Without a loss, the lease of a pass is confirmed.
LEMMA LeaseConfirmed ==
    ASSUME IInv, NEW r \in Replica, rep[r].leader, NEW held \in BOOLEAN, ~held,
           TryHold(r, held) \/ LeaseStillHeld(r, held)
    PROVE  faults' # 0
<1>1. TryHold(r, held)
  BY DEF LeaseStillHeld
<1>2. CASE Fault
  BY <1>2, FaultCounts
<1>3. CASE held = (Holds(r) \/ lock = NoReplica) /\ UNCHANGED <<orphan, faults>>
  BY <1>3 DEF IInv, LeaseInv
<1> QED
  BY <1>1, <1>2, <1>3 DEF TryHold

\* The rest of what a check leaves behind.
LEMMA LedRefetch ==
    ASSUME IInv, NEW r \in Replica, NEW held \in BOOLEAN
    PROVE  Led(r, held).refetch = rep[r].refetch
<1>1. rep[r] \in ReplicaState
  BY StateFacts
<1> QED
  BY <1>1 DEF Led, ReplicaState

LEMMA KeptLed ==
    ASSUME IInv, NEW r \in Replica, NEW held \in BOOLEAN, LeaseStillHeld(r, held),
           rep[r].pc \in Timed
    PROVE  /\ Kept(r, held) \in ReplicaState
           /\ Kept(r, held).refetch = rep[r].refetch
           /\ held => Kept(r, held).leader
<1>1. Kept(r, held) \in ReplicaState /\ (held => Kept(r, held).leader)
  BY LeaseStillHeldKeeps
<1>2. Kept(r, held).refetch = rep[r].refetch
  <2> DEFINE l == Led(r, held)
  <2>1. l \in ReplicaState /\ l.refetch = rep[r].refetch
    BY LedState, LedRefetch
  <2>2. Kept(r, held) = [l EXCEPT !.checked = 0] \/ Kept(r, held) = rep[r]
    BY DEF Kept
  <2> HIDE DEF l
  <2> QED
    BY <2>1, <2>2 DEF ReplicaState
<1> QED
  BY <1>1, <1>2

LEMMA TimeUntilDiscoveryPaces ==
    ASSUME IInv, PaceInv, NEW r \in Replica, TimeUntilDiscovery(r) PROVE PaceInv'
<1> DEFINE m == Moved(rep[r], "discover")
           s == [m EXCEPT !.untilDue = 0, !.checked = 0, !.todo = Package, !.promised = published]
           n == Moved(rep[r], "queue")
<1>1. PICK delay \in 0..Interval :
         /\ \/ /\ delay = (IF rep[r].refetch THEN 0 ELSE DiscoveryDelay(passAge))
               /\ UNCHANGED faults
            \/ ~rep[r].refetch /\ Fault /\ delay = 0
         /\ IF delay = 0 THEN Become(r, s) /\ sinceStart' = 0
            ELSE Become(r, [n EXCEPT !.untilDue = delay]) /\ UNCHANGED sinceStart
  BY DEF TimeUntilDiscovery
<1>2. rep[r].pc = "due" /\ UNCHANGED <<passAge, crashes>>
  BY DEF TimeUntilDiscovery, worldVars
<1>3. /\ m \in ReplicaState /\ m.pc = "discover" /\ m.refetch = rep[r].refetch
      /\ m.leader = rep[r].leader
      /\ n \in ReplicaState /\ n.pc = "queue"
  BY StateFacts, MovedState DEF Phase
<1>4. rep[r].leader
  BY <1>2 DEF PaceInv, Passing
<1> HIDE DEF m, n
<1>5. /\ s.pc = "discover" /\ s.refetch = rep[r].refetch /\ s.leader
      /\ [n EXCEPT !.untilDue = delay].pc = "queue"
  BY <1>3, <1>4 DEF ReplicaState
<1> DEFINE late == [n EXCEPT !.untilDue = delay]
<1> HIDE DEF s
<1>6. CASE delay # 0
  <2>1. Become(r, late) /\ late.pc = "queue" /\ UNCHANGED sinceStart
    BY <1>1, <1>5, <1>6
  <2>2. UNCHANGED faults \/ Fault
    BY <1>1
  <2> HIDE DEF late
  <2>3. rep'[r] = late /\ \A q \in Replica \ {r} : rep'[q] = rep[q]
    BY <2>1, StepBecomes
  <2>4. Apart(r)
    BY <1>2, <2>1, <2>2, <2>3, FaultsStay DEF Apart, Begun, Passing
  <2> QED
    BY <2>4, ApartKeeps
<1>7. CASE delay = 0 /\ Fault
  <2>1. Become(r, s) /\ faults' # 0
    BY <1>1, <1>7, FaultCounts
  <2> QED
    BY <1>5, <2>1, FaultyKeeps
<1>8. CASE delay = 0 /\ UNCHANGED faults
  <2>1. Become(r, s) /\ sinceStart' = 0
    BY <1>1, <1>8
  <2>2. rep'[r] = s /\ \A q \in Replica \ {r} : rep'[q] = rep[q]
    BY <2>1, StepBecomes
  <2>3. \A q \in Replica : rep'[q].pc \in Passing => rep'[q].leader
    BY <1>5, <2>2 DEF PaceInv
  <2>4. ASSUME faults' = 0, NEW q \in Replica, rep'[q].pc \in Begun \ {"record"}, ~rep'[q].refetch
        PROVE  passAge' = Interval
    <3>1. CASE q # r
      BY <1>2, <1>8, <2>2, <2>4, <3>1 DEF PaceInv
    <3>2. CASE q = r
      <4>1. ~rep[r].refetch
        BY <1>5, <2>2, <2>4, <3>2
      <4>2. passAge \in 0..Interval /\ ~Fault
        BY <1>8, <2>4 DEF IInv, TypeOK, Fault
      <4>3. DiscoveryDelay(passAge) = 0
        BY <1>1, <1>8, <4>1, <4>2
      <4> QED
        BY <1>2, <4>2, <4>3, TimeAssumption DEF DiscoveryDelay
    <3> QED
      BY <3>1, <3>2
  <2>5. rep'[r].pc \in Begun
    BY <1>5, <2>2 DEF Begun, Passing
  <2> QED
    BY <2>3, <2>4, <2>5 DEF PaceInv
<1> QED
  BY <1>1, <1>6, <1>7, <1>8

LEMMA NextPackagePaces ==
    ASSUME IInv, PaceInv, NEW r \in Replica, NextPackage(r) PROVE PaceInv'
<1>1. PICK p \in rep[r].todo, held \in BOOLEAN :
         /\ LeaseStillHeld(r, held)
         /\ Become(r, IF held
                      THEN [Moved(Kept(r, held), "listing") EXCEPT !.cur = p, !.todo = @ \ {p}]
                      ELSE [Moved(Kept(r, held), AfterLoss) EXCEPT !.todo = {}])
  BY DEF NextPackage
<1>2. rep[r].pc = "discover" /\ UNCHANGED <<passAge, sinceStart, crashes>>
  BY DEF NextPackage, worldVars
<1>3. rep[r].leader
  BY <1>2 DEF PaceInv, Passing
<1> DEFINE k == Kept(r, held)
<1>4. k \in ReplicaState /\ k.refetch = rep[r].refetch /\ (held => k.leader)
  BY <1>1, <1>2, KeptLed DEF Timed
<1> HIDE DEF k
<1> DEFINE m == Moved(k, "listing")
           s == [m EXCEPT !.cur = p, !.todo = @ \ {p}]
           n == Moved(k, AfterLoss)
           t == [n EXCEPT !.todo = {}]
<1>5. /\ m \in ReplicaState /\ m.pc = "listing" /\ m.refetch = k.refetch /\ m.leader = k.leader
      /\ n \in ReplicaState /\ n.pc = "queue"
  BY <1>4, MovedState DEF Phase, AfterLoss
<1>6. IF held THEN Become(r, s) ELSE Become(r, t)
  BY <1>1 DEF k
<1> HIDE DEF m, n
<1>7. s.pc = "listing" /\ s.refetch = rep[r].refetch /\ s.leader = k.leader /\ t.pc = "queue"
  BY <1>4, <1>5 DEF ReplicaState
<1> HIDE DEF s, t
<1>8. CASE held
  <2>1. faults' = 0 => faults = 0
    BY <1>1, HoldFaults, FaultsStay
  <2>2. Become(r, s) /\ s.leader
    BY <1>4, <1>6, <1>7, <1>8
  <2> QED
    BY <1>2, <1>7, <2>1, <2>2, PassKeeps DEF Begun, Passing
<1>9. CASE ~held
  <2>1. faults' # 0
    BY <1>1, <1>3, <1>9, LeaseConfirmed
  <2> QED
    BY <1>6, <1>7, <1>9, <2>1, FaultyKeeps DEF Passing
<1> QED
  BY <1>8, <1>9

\* The package at hand is done with, one way or the other.
LEMMA DonePhase ==
    ASSUME IInv, NEW r \in Replica
    PROVE  /\ PackageDone(r).pc = "discover" /\ PackageDone(r).leader = rep[r].leader
           /\ PackageDone(r).refetch = rep[r].refetch
           /\ PackageFailed(r).pc = "discover" /\ PackageFailed(r).leader = rep[r].leader
           /\ PackageFailed(r).refetch = rep[r].refetch
<1> DEFINE m == Moved(rep[r], "discover")
           d == [m EXCEPT !.cur = NoPackage]
           f == [d EXCEPT !.promised = @ \ {rep[r].cur}]
<1>1. /\ m \in ReplicaState /\ m.pc = "discover" /\ m.leader = rep[r].leader
      /\ m.refetch = rep[r].refetch
  BY StateFacts, MovedState DEF Phase
<1>2. PackageDone(r) = d /\ PackageFailed(r) = f
  BY DEF PackageDone, PackageFailed
<1> HIDE DEF m
<1>3. /\ d \in ReplicaState /\ d.pc = "discover" /\ d.leader = rep[r].leader
      /\ d.refetch = rep[r].refetch
  BY <1>1 DEF ReplicaState
<1> HIDE DEF d
<1>4. f.pc = "discover" /\ f.leader = rep[r].leader /\ f.refetch = rep[r].refetch
  BY <1>3 DEF ReplicaState
<1> QED
  BY <1>2, <1>3, <1>4

LEMMA ListTagsPaces ==
    ASSUME IInv, PaceInv, NEW r \in Replica, ListTags(r) PROVE PaceInv'
<1>1. rep[r].pc = "listing" /\ UNCHANGED <<passAge, sinceStart, crashes>>
  BY DEF ListTags, worldVars
<1>2. rep[r].leader
  BY <1>1 DEF PaceInv, Passing
<1>3. PICK s \in {Moved(rep[r], "enqueue"), PackageDone(r), PackageFailed(r)} :
         Become(r, s) /\ (UNCHANGED faults \/ Fault)
  BY DEF ListTags
<1>4. /\ Moved(rep[r], "enqueue").pc = "enqueue"
      /\ Moved(rep[r], "enqueue").leader = rep[r].leader
      /\ Moved(rep[r], "enqueue").refetch = rep[r].refetch
  BY StateFacts, MovedState DEF Phase
<1>5. s.pc \in {"enqueue", "discover"} /\ s.leader /\ s.refetch = rep[r].refetch
  BY <1>2, <1>3, <1>4, DonePhase
<1>6. faults' = 0 => faults = 0
  BY <1>3, FaultsStay
<1> QED
  BY <1>1, <1>3, <1>5, <1>6, PassKeeps DEF Begun, Passing

LEMMA EnqueuePaces ==
    ASSUME IInv, PaceInv, NEW r \in Replica, Enqueue(r) PROVE PaceInv'
<1>1. rep[r].pc = "enqueue" /\ UNCHANGED <<passAge, sinceStart, crashes>>
  BY DEF Enqueue, worldVars
<1>2. rep[r].leader
  BY <1>1 DEF PaceInv, Passing
<1>3. PICK s \in {PackageDone(r), PackageFailed(r)} :
         Become(r, s) /\ (UNCHANGED faults \/ Fault)
  BY DEF Enqueue
<1>4. s.pc = "discover" /\ s.leader /\ s.refetch = rep[r].refetch
  BY <1>2, <1>3, DonePhase
<1>5. faults' = 0 => faults = 0
  BY <1>3, FaultsStay
<1> QED
  BY <1>1, <1>3, <1>4, <1>5, PassKeeps DEF Begun, Passing

LEMMA EndPassPaces ==
    ASSUME IInv, PaceInv, NEW r \in Replica, EndPass(r) PROVE PaceInv'
<1>1. PICK held \in BOOLEAN :
         /\ TryHold(r, held)
         /\ Become(r, IF held THEN [Moved(Led(r, held), "record") EXCEPT !.refetch = FALSE]
                      ELSE Moved(Led(r, held), "queue"))
  BY DEF EndPass, ConfirmLease
<1>2. rep[r].pc = "discover" /\ UNCHANGED <<passAge, sinceStart, crashes>>
  BY DEF EndPass, worldVars
<1>3. rep[r].leader
  BY <1>2 DEF PaceInv, Passing
<1> DEFINE l == Led(r, held)
<1>4. l \in ReplicaState /\ l.leader = held
  BY LedState
<1> HIDE DEF l
<1> DEFINE m == Moved(l, "record")
           s == [m EXCEPT !.refetch = FALSE]
           n == Moved(l, "queue")
<1>5. m \in ReplicaState /\ m.pc = "record" /\ m.leader = held /\ n.pc = "queue"
  BY <1>4, MovedState DEF Phase
<1>6. IF held THEN Become(r, s) ELSE Become(r, n)
  BY <1>1 DEF l
<1> HIDE DEF m, n
<1>7. s.pc = "record" /\ s.leader = held
  BY <1>5 DEF ReplicaState
<1> HIDE DEF s
<1>8. CASE held
  <2>1. faults' = 0 => faults = 0
    BY <1>1, HoldFaults, FaultsStay
  <2> QED
    BY <1>2, <1>6, <1>7, <1>8, <2>1, PassKeeps DEF Begun, Passing
<1>9. CASE ~held
  <2>1. faults' # 0
    BY <1>1, <1>3, <1>9, LeaseConfirmed
  <2> QED
    BY <1>5, <1>6, <1>9, <2>1, FaultyKeeps DEF Passing
<1> QED
  BY <1>8, <1>9

\* The pass is recorded: nobody else is in one.
LEMMA RecordPaces ==
    ASSUME IInv, PaceInv, NEW r \in Replica, Record(r) PROVE PaceInv'
<1> DEFINE s == Moved(rep[r], "queue")
<1>1. s.pc = "queue"
  BY StateFacts, MovedState DEF Phase
<1>2. /\ rep[r].pc = "record" /\ Become(r, s) /\ UNCHANGED <<sinceStart, crashes>>
      /\ (passAge' = 0 /\ UNCHANGED faults) \/ Fault
  BY DEF Record, worldVars
<1> HIDE DEF s
<1>3. CASE Fault
  <2>1. faults' # 0
    BY <1>3, FaultCounts
  <2> QED
    BY <1>1, <1>2, <2>1, FaultyKeeps DEF Passing
<1>4. CASE passAge' = 0 /\ UNCHANGED faults
  <2>1. rep'[r] = s /\ \A q \in Replica \ {r} : rep'[q] = rep[q]
    BY <1>2, StepBecomes
  <2>2. \A q \in Replica : rep'[q].pc \in Passing => rep'[q].leader
    BY <1>1, <2>1 DEF PaceInv, Passing
  <2>3. ASSUME faults' = 0, NEW q \in Replica, rep'[q].pc \in Begun PROVE FALSE
    <3>1. q # r /\ rep[q].pc \in Passing /\ rep[r].pc \in Passing
      BY <1>1, <1>2, <2>1, <2>3 DEF Begun, Passing
    <3>2. faults = 0
      BY <1>4, <2>3
    <3> QED
      BY <3>1, <3>2, OnePass
  <2>4. passAge' <= sinceStart'
    BY <1>2, <1>4 DEF IInv, TypeOK
  <2> QED
    BY <2>2, <2>3, <2>4 DEF PaceInv
<1> QED
  BY <1>2, <1>3, <1>4

(***************************************************************************)
(* The world, and the invariant.                                           *)
(***************************************************************************)

LEMMA CrashPaces ==
    ASSUME IInv, PaceInv, NEW r \in Replica, Crash(r) PROVE PaceInv'
<1> DEFINE s == [Started EXCEPT !.pc = "down"]
<1>1. /\ Become(r, s) /\ UNCHANGED <<faults, passAge>> /\ crashes' = crashes + 1
      /\ crashes \in Nat
  BY BoundsAssumption DEF Crash, IInv, TypeOK
<1>2. s.pc = "down"
  BY DEF Started
<1> HIDE DEF s
<1>3. rep'[r] = s /\ \A q \in Replica \ {r} : rep'[q] = rep[q]
  BY <1>1, StepBecomes
<1>4. \A q \in Replica : rep'[q].pc \in Passing => rep'[q] = rep[q]
  BY <1>2, <1>3 DEF Passing
<1>5. crashes' # 0
  BY <1>1
<1> QED
  BY <1>1, <1>4, <1>5 DEF PaceInv, Begun

LEMMA RestartPaces ==
    ASSUME IInv, PaceInv, NEW r \in Replica, Restart(r) PROVE PaceInv'
<1>1. /\ Become(r, Started) /\ rep[r].pc = "down" /\ UNCHANGED faults
      /\ UNCHANGED <<passAge, sinceStart, crashes>>
  BY DEF Restart, leaseVars, worldVars
<1>2. Apart(r)
  BY <1>1, StartedState, AsideApart DEF Aside, Passing
<1> QED
  BY <1>2, ApartKeeps

\* The processes stay where they are.
LEMMA WorldPaces ==
    ASSUME PaceInv, rep' = rep, UNCHANGED <<passAge, sinceStart, crashes>>,
           faults' = 0 => faults = 0
    PROVE  PaceInv'
BY DEF PaceInv

LEMMA OthersPace ==
    ASSUME IInv, PaceInv,
           (\E p \in Package : Publish(p) \/ Notify(p)) \/ LoseSession \/ EndSession
             \/ UNCHANGED vars
    PROVE  PaceInv'
<1>1. rep' = rep /\ UNCHANGED <<passAge, sinceStart, crashes>>
  BY DEF Publish, Notify, LoseSession, EndSession, vars, worldVars
<1>2. UNCHANGED faults \/ Fault
  BY DEF Publish, Notify, LoseSession, EndSession, vars, leaseVars
<1> QED
  BY <1>1, <1>2, FaultsStay, WorldPaces

LEMMA TickPaces ==
    ASSUME IInv, PaceInv, Tick PROVE PaceInv'
<1>1. /\ UNCHANGED <<faults, crashes>>
      /\ passAge' = Capped(passAge, Interval) /\ sinceStart' = Capped(sinceStart, Interval)
  BY DEF Tick, leaseVars, worldVars
<1>2. passAge \in 0..Interval /\ sinceStart \in 0..Interval
  BY DEF IInv, TypeOK
<1>3. /\ passAge = Interval => passAge' = Interval
      /\ passAge <= sinceStart => passAge' <= sinceStart'
  BY <1>1, <1>2, TimeAssumption DEF Capped
<1>4. ASSUME NEW r \in Replica
      PROVE  /\ rep'[r].pc = rep[r].pc /\ rep'[r].leader = rep[r].leader
             /\ rep'[r].refetch = rep[r].refetch
  <2>1. rep'[r] = Aged(r) /\ rep[r] \in ReplicaState
    BY StateFacts DEF Tick
  <2> QED
    BY <2>1 DEF Aged, ReplicaState
<1> QED
  BY <1>1, <1>3, <1>4 DEF PaceInv

LEMMA StepPaces ==
    ASSUME IInv, PaceInv, NEW r \in Replica, Step(r) PROVE PaceInv'
<1>1. CASE \/ TimeUntilDiscovery(r) \/ NextPackage(r) \/ ListTags(r) \/ Enqueue(r)
           \/ EndPass(r) \/ Record(r)
  BY <1>1, TimeUntilDiscoveryPaces, NextPackagePaces, ListTagsPaces, EnqueuePaces,
     EndPassPaces, RecordPaces
<1>2. CASE \/ Check(r) \/ StartQueue(r) \/ RecoverNothing(r) \/ RecoverTasks(r) \/ Dequeue(r)
           \/ DequeueFails(r) \/ EndTask(r) \/ Settle(r) \/ StartBackfill(r)
           \/ BackfillConfig(r) \/ Wake(r)
  <2>1. Apart(r)
    BY <1>2, CheckApart, StartQueueApart, RecoverApart, DequeueApart, DequeueFailsApart,
       EndTaskApart, SettleApart, StartBackfillApart, BackfillConfigApart, WakeApart
  <2> QED
    BY <2>1, ApartKeeps
<1> QED
  BY <1>1, <1>2 DEF Step

LEMMA InitPaceInv == Init => PaceInv
<1> SUFFICES ASSUME Init PROVE PaceInv
  OBVIOUS
<1>1. \A r \in Replica : rep[r].pc = "check"
  BY StartedState DEF Init
<1> QED
  BY <1>1, TimeAssumption DEF Init, PaceInv, Begun, Passing

LEMMA NextPaceInv == IInv /\ PaceInv /\ [Next]_vars => PaceInv'
BY StepPaces, CrashPaces, RestartPaces, OthersPace, TickPaces DEF Next

\* No step takes a fault back.
LEMMA NextFaults ==
    ASSUME IInv, Next, faults' = 0 PROVE faults = 0
<1>1. ASSUME NEW r \in Replica, Step(r) PROVE UNCHANGED faults \/ Fault
  <2>1. CASE \/ TimeUntilDiscovery(r) \/ ListTags(r) \/ Enqueue(r) \/ Record(r)
             \/ RecoverNothing(r) \/ RecoverTasks(r) \/ DequeueFails(r) \/ Settle(r)
             \/ EndTask(r) \/ Wake(r)
    BY <2>1 DEF TimeUntilDiscovery, ListTags, Enqueue, Record, RecoverNothing, RecoverTasks,
                DequeueFails, Settle, EndTask, Wake, leaseVars
  <2>2. CASE \/ Check(r) \/ NextPackage(r) \/ EndPass(r) \/ StartQueue(r) \/ Dequeue(r)
             \/ StartBackfill(r) \/ BackfillConfig(r)
    <3>1. \/ UNCHANGED leaseVars
          \/ \E held \in BOOLEAN : TryHold(r, held) \/ LeaseStillHeld(r, held)
      BY <2>2 DEF Check, NextPackage, EndPass, ConfirmLease, StartQueue, Dequeue,
                  StartBackfill, BackfillConfig
    <3> QED
      BY <3>1, HoldFaults DEF leaseVars
  <2> QED
    BY <1>1, <2>1, <2>2 DEF Step
<1>2. ASSUME ~\E r \in Replica : Step(r) PROVE UNCHANGED faults \/ Fault
  BY <1>2 DEF Next, Crash, Restart, Publish, Notify, LoseSession, EndSession, Tick, leaseVars
<1> QED
  BY <1>1, <1>2, FaultsStay

\* A step of one replica moves no other one.
LEMMA OneMoves ==
    ASSUME IInv, NEW r \in Replica, Step(r) \/ Crash(r) \/ Restart(r)
    PROVE  \A q \in Replica \ {r} : rep'[q] = rep[q]
<1>1. \E s : Become(r, s)
  <2>1. CASE \/ Check(r) \/ TimeUntilDiscovery(r) \/ NextPackage(r) \/ ListTags(r) \/ Enqueue(r)
             \/ EndPass(r) \/ Record(r) \/ Crash(r) \/ Restart(r)
    BY <2>1 DEF Check, TimeUntilDiscovery, NextPackage, ListTags, Enqueue, EndPass, Record,
                Crash, Restart
  <2>2. CASE \/ StartQueue(r) \/ RecoverNothing(r) \/ RecoverTasks(r) \/ Dequeue(r)
             \/ DequeueFails(r) \/ EndTask(r) \/ Settle(r) \/ StartBackfill(r)
             \/ BackfillConfig(r) \/ Wake(r)
    BY <2>2 DEF StartQueue, RecoverNothing, RecoverTasks, StartDrain, Dequeue, DequeueFails,
                EndTask, Settle, StartBackfill, BackfillConfig, Wake
  <2> QED
    BY <2>1, <2>2 DEF Step
<1> QED
  BY <1>1, StepBecomes

\* A pass begins in time_until_discovery.
LEMMA BeginsHere ==
    ASSUME IInv, Next, NEW r \in Replica, Begins(r) PROVE TimeUntilDiscovery(r)
<1>1. rep[r].pc = "due" /\ rep'[r].pc = "discover" /\ rep'[r] # rep[r]
  BY DEF Begins
<1>2. ASSUME NEW q \in Replica, Step(q) \/ Crash(q) \/ Restart(q) PROVE q = r
  BY <1>1, <1>2, OneMoves
<1>3. ~Restart(r)
  BY <1>1 DEF Restart
<1>4. ASSUME Crash(r) PROVE FALSE
  <2> DEFINE s == [Started EXCEPT !.pc = "down"]
  <2>1. Become(r, s) /\ s.pc = "down"
    BY <1>4 DEF Crash, Started
  <2> HIDE DEF s
  <2> QED
    BY <1>1, <2>1, StepBecomes
<1>5. ASSUME Tick PROVE FALSE
  <2>1. rep'[r] = Aged(r) /\ rep[r] \in ReplicaState
    BY <1>5, StateFacts DEF Tick
  <2> QED
    BY <1>1, <2>1 DEF Aged, ReplicaState
<1>6. rep' # rep
  BY <1>1
<1>7. Step(r)
  BY <1>2, <1>3, <1>4, <1>5, <1>6
     DEF Next, Publish, Notify, LoseSession, EndSession
<1> QED
  BY <1>1, <1>7
     DEF Step, Check, NextPackage, ListTags, Enqueue, EndPass, Record, StartQueue,
         RecoverNothing, RecoverTasks, StartDrain, Dequeue, DequeueFails, EndTask, Settle,
         StartBackfill, BackfillConfig, Wake

LEMMA BeginsDue ==
    ASSUME IInv, Next, NEW r \in Replica, Begins(r), faults' = 0, ~rep[r].refetch
    PROVE  passAge = Interval
<1>1. passAge \in 0..Interval /\ ~Fault
  BY DEF IInv, TypeOK, Fault
<1> DEFINE n == Moved(rep[r], "queue")
<1>2. n \in ReplicaState /\ n.pc = "queue"
  BY StateFacts, MovedState DEF Phase
<1>3. TimeUntilDiscovery(r)
  BY BeginsHere
<1>4. PICK delay \in 0..Interval :
         /\ delay = DiscoveryDelay(passAge)
         /\ delay # 0 => Become(r, [n EXCEPT !.untilDue = delay])
  BY <1>1, <1>3 DEF TimeUntilDiscovery
<1> HIDE DEF n
<1> DEFINE late == [n EXCEPT !.untilDue = delay]
<1>5. late.pc = "queue"
  BY <1>2 DEF ReplicaState
<1>6. delay # 0 => Become(r, late)
  BY <1>4
<1> HIDE DEF late
<1>7. delay = 0
  BY <1>5, <1>6, StepBecomes DEF Begins
<1> QED
  BY <1>1, <1>4, <1>7, TimeAssumption DEF DiscoveryDelay

\* While no session and no call is lost, a pass that --refetch does not ask for is
\* completed no sooner than one interval after the last one was recorded, whoever
\* crashes; and if nobody crashes, it begins no sooner than one interval after the
\* last one began (time_until_discovery, discover).
THEOREM PacedDiscovery == Spec => DiscoveryIsPaced
<1> DEFINE Paced == \A r \in Replica : (faults' = 0 /\ ~rep[r].refetch) =>
                       /\ Completes(r) => passAge = Interval
                       /\ (Begins(r) /\ crashes = 0) => sinceStart = Interval
<1>1. IInv /\ PaceInv /\ [Next]_vars => [Paced]_vars
  <2> SUFFICES ASSUME IInv, PaceInv, Next, NEW r \in Replica, faults' = 0, ~rep[r].refetch
               PROVE  /\ Completes(r) => passAge = Interval
                      /\ (Begins(r) /\ crashes = 0) => sinceStart = Interval
    OBVIOUS
  <2>1. faults = 0
    BY NextFaults
  <2>2. ASSUME Completes(r) PROVE passAge = Interval
    BY <2>1, <2>2 DEF Completes, PaceInv, Begun, Passing
  <2>3. ASSUME Begins(r), crashes = 0 PROVE sinceStart = Interval
    <3>1. passAge = Interval
      BY <2>3, BeginsDue
    <3>2. \A q \in Replica : rep[q].pc \notin Begun
      BY <2>1, <2>3, OnePass DEF Begins, Begun, Passing
    <3>3. passAge <= sinceStart
      BY <2>1, <2>3, <3>2 DEF PaceInv
    <3> QED
      BY <3>1, <3>3, TimeAssumption DEF IInv, TypeOK
  <2> QED
    BY <2>2, <2>3
<1>2. Spec => []PaceInv
  BY InitIInv, InitPaceInv, NextIInv, NextPaceInv, PTL DEF Spec
<1> QED
  BY <1>1, <1>2, Invariance, PTL DEF Spec, DiscoveryIsPaced
===============================================================================
