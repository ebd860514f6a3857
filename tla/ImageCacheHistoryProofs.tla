----------------------- MODULE ImageCacheHistoryProofs -----------------------
(* What operations leave undone is all that is missing: the proofs about      *)
(* ImageCacheHistory, on top of the invariants of ImageCache.                 *)
EXTENDS ImageCacheHistory, ImageCachePublishProofs

(***************************************************************************)
(* The strengthening.                                                      *)
(***************************************************************************)

\* The operation is about to use or to remove the blob of l.
Explains(s, l) ==
    \/ s.at = "row" /\ LayerOf[s.man] = l
    \/ s.at = "reclaim" /\ l \in s.doomed

Explained(l) == (\E m \in layer : LayerOf[m] = l) \/ (\E p \in Proc : Explains(proc[p], l))

\* A deletion that is about to commit will remove the blob, unless another row
\* needs it or somebody has left it behind.
Reckoned(s) ==
    (/\ s.op = "delete" /\ s.at = "commit" /\ s.live
     /\ s.man \in layer /\ LayerOf[s.man] \in blob \ left)
    => \/ LayerOf[s.man] \in s.doomed
       \/ \E m \in layer \ {s.man} : LayerOf[m] = LayerOf[s.man]

\* A pull knows whether its layers were stored, and then it has their row's id.
Retry(s) ==
    /\ s.repair => s.op = "pull"
    /\ s.op = "pull" /\ s.at \in {"blob", "row", "extract"} => ~s.stored
    /\ s.op = "pull" /\ s.at \in {"rewrite", "clear", "store"} => s.live

\* A retry that is about to publish has restored the metadata; wt and un stand
\* for wit and unindexed.
Restored(s, wt, un) ==
    s.op = "pull" /\ s.repair /\ s.stored /\ s.at = "publish" => s.man \in wt \union un

HInv ==
    /\ UnusedBlobsAreExplained
    /\ \A p \in Proc : /\ Reckoned(proc[p]) /\ Retry(proc[p])
                       /\ Restored(proc[p], wit, unindexed)

CInv == IInv /\ LInv /\ PInv

LEMMA InitHInv == RecordingInit => HInv
BY DEF RecordingInit, Init, Idle, HInv, UnusedBlobsAreExplained, Reckoned, Retry, Restored

\* What the record keeps.
LEMMA RecordKeeps ==
    ASSUME RecordingNext
    PROVE  /\ left \intersect blob' \subseteq left'
           /\ \A m \in unindexed : m \in wit' \union unindexed'
           /\ \A m \in Manifest : ReindexClears(m) => m \in wit' \union unindexed'
           /\ \A l \in Layer : LeavesBehind(l) /\ l \in blob' => l \in left'
BY DEF RecordingNext

(***************************************************************************)
(* Unused blobs.                                                           *)
(***************************************************************************)

LEMMA Unfolded == UnusedBlobsAreExplained <=> \A l \in blob \ left : Explained(l)
BY DEF UnusedBlobsAreExplained, Explained, Explains, At

\* In a step of p, whatever loses its explanation has been left behind.
LEMMA BlobsStayExplained ==
    ASSUME UnusedBlobsAreExplained, RecordingNext, NEW p \in Proc,
           \A q \in Proc \ {p} : /\ proc'[q].at = proc[q].at /\ proc'[q].man = proc[q].man
                                 /\ proc'[q].doomed = proc[q].doomed,
           \A l \in blob' \ blob : Explained(l)',
           \A m \in layer \ layer' : LayerOf[m] \in blob' => LayerOf[m] \in left' \/ Explained(LayerOf[m])',
           \A l \in blob' : Explains(proc[p], l) => l \in left' \/ Explained(l)'
    PROVE  UnusedBlobsAreExplained'
<1> SUFFICES ASSUME NEW l \in blob' \ left' PROVE Explained(l)'
  BY DEF UnusedBlobsAreExplained, Explained, Explains, At
<1>1. l \in blob => l \notin left
  BY RecordKeeps
<1>2. CASE l \in blob
  <2>1. Explained(l)
    BY <1>1, <1>2, Unfolded
  <2>2. CASE \E m \in layer : LayerOf[m] = l
    <3>1. PICK m \in layer : LayerOf[m] = l
      BY <2>2
    <3> QED
      BY <3>1 DEF Explained
  <2>3. CASE \E q \in Proc : Explains(proc[q], l)
    <3>1. PICK q \in Proc : Explains(proc[q], l)
      BY <2>3
    <3>2. CASE q = p
      BY <3>1, <3>2
    <3>3. CASE q # p
      <4>1. Explains(proc'[q], l)
        BY <3>1, <3>3 DEF Explains
      <4> QED
        BY <4>1 DEF Explained, Explains
    <3> QED
      BY <3>2, <3>3
  <2> QED
    BY <2>1, <2>2, <2>3 DEF Explained
<1> QED
  BY <1>2

(***************************************************************************)
(* The other processes.                                                    *)
(***************************************************************************)

\* The metadata that retries of other processes have restored.
WitKept(p) ==
    \A q \in Proc \ {p} :
        (/\ proc[q].op = "pull" /\ proc[q].at = "publish"
         /\ proc[q].man \in wit \union unindexed)
        => proc[q].man \in wit' \union unindexed'

LEMMA WitGrows ==
    ASSUME RecordingNext, wit \subseteq wit', NEW p \in Proc PROVE WitKept(p)
BY RecordKeeps DEF WitKept

LEMMA HistoryStep ==
    ASSUME CInv, HInv, NEW p \in Proc, NEW u, Become(p, u), WitKept(p),
           UnusedBlobsAreExplained', \A q \in Proc : Reckoned(proc[q])',
           Retry(u), Restored(u, wit', unindexed')
    PROVE  HInv'
<1>1. proc'[p] = u /\ \A q \in Proc \ {p} : proc'[q] = proc[q]
  BY BecomeState, OthersKeep DEF CInv
<1>3. ASSUME NEW q \in Proc PROVE Retry(proc'[q]) /\ Restored(proc'[q], wit', unindexed')
  <2>1. CASE q = p
    BY <1>1, <2>1
  <2>2. CASE q # p
    <3>1. Retry(proc[q]) /\ Restored(proc[q], wit, unindexed)
      BY DEF HInv
    <3>2. Restored(proc[q], wit', unindexed')
      BY <2>2, <3>1 DEF Restored, WitKept
    <3> QED
      BY <1>1, <2>2, <3>1, <3>2
  <2> QED
    BY <2>1, <2>2
<1>4. \A q \in Proc : (Retry(proc[q]) /\ Restored(proc[q], wit, unindexed))'
  BY <1>3 DEF Retry, Restored
<1> QED
  BY <1>4 DEF HInv

LEMMA ReckonedKept ==
    ASSUME HInv, RecordingNext, NEW q \in Proc, proc'[q] = proc[q], layer' = layer,
           blob' \subseteq blob
    PROVE  Reckoned(proc[q])'
<1>1. Reckoned(proc[q])
  BY DEF HInv
<1>2. left \intersect blob' \subseteq left'
  BY RecordKeeps
<1> QED
  BY <1>1, <1>2 DEF Reckoned

\* Nobody is about to commit a deletion while another process has the lock.
LEMMA ReckonedApart ==
    ASSUME CInv, NEW p \in Proc, Locked(proc[p]), NEW q \in Proc \ {p}, proc'[q] = proc[q]
    PROVE  Reckoned(proc[q])'
<1>1. ~(proc[q].op = "delete" /\ proc[q].at = "commit")
  BY LockExcludes DEF CInv, Locked
<1> QED
  BY <1>1 DEF Reckoned

\* Steps that leave layer rows and blobs alone.
LEMMA QuietHistory ==
    ASSUME CInv, HInv, RecordingNext, NEW p \in Proc, NEW u, Become(p, u),
           proc[p].at \notin {"row", "reclaim"}, UNCHANGED <<layer, blob>>, wit \subseteq wit',
           u.op # "delete" \/ u.at # "commit", Retry(u), Restored(u, wit', unindexed')
    PROVE  HInv'
<1>1. proc'[p] = u /\ \A q \in Proc \ {p} : proc'[q] = proc[q]
  BY BecomeState, OthersKeep DEF CInv
<1>2. \A l : ~Explains(proc[p], l)
  BY DEF Explains
<1>3. UnusedBlobsAreExplained
  BY DEF HInv
<1>4. UnusedBlobsAreExplained'
  BY <1>1, <1>2, <1>3, BlobsStayExplained
<1>5. \A q \in Proc : Reckoned(proc[q])'
  <2>1. Reckoned(proc[p])'
    BY <1>1 DEF Reckoned
  <2> QED
    BY <1>1, <2>1, ReckonedKept
<1>6. WitKept(p)
  BY WitGrows
<1> QED
  BY <1>4, <1>5, <1>6, HistoryStep

LEMMA QuietEnding ==
    ASSUME CInv, HInv, RecordingNext, NEW p \in Proc, Become(p, Idle),
           proc[p].at \notin {"row", "reclaim"}, UNCHANGED <<layer, blob>>, wit \subseteq wit'
    PROVE  HInv'
<1>1. Idle.op = "idle" /\ ~Idle.repair
  BY DEF Idle
<1>2. Retry(Idle) /\ Restored(Idle, wit', unindexed')
  BY <1>1 DEF Retry, Restored
<1> QED
  BY <1>1, <1>2, QuietHistory

LEMMA QuietBeginning ==
    ASSUME CInv, HInv, RecordingNext, NEW p \in Proc, NEW u, Begin(p, u),
           UNCHANGED <<tables, blob, cacheLock>>,
           u.repair => u.op = "pull", u.op = "pull" => u.at = "lock", u.at # "commit"
    PROVE  HInv'
<1>1. Retry(u) /\ Restored(u, wit', unindexed')
  BY DEF Retry, Restored
<1> QED
  BY <1>1, QuietHistory DEF Begin, At, tables

LEMMA StartsHistory ==
    ASSUME CInv, HInv, RecordingNext, NEW p \in Proc,
           \/ StartPull(p) \/ StartInstall(p) \/ StartRegister(p)
           \/ StartUnregister(p) \/ StartDelete(p) \/ StartReindex(p)
    PROVE  HInv'
<1> USE DEF Idle
<1>1. CASE StartPull(p)
  <2>1. PICK t \in Tag \ LocalTag, r \in BOOLEAN, m \in Manifest :
           /\ Begin(p, [Idle EXCEPT !.op = "pull", !.at = "lock", !.tag = t, !.man = m, !.repair = r])
           /\ UNCHANGED <<tables, blob, cacheLock>>
    BY <1>1, ImageAssumption DEF StartPull
  <2> DEFINE s == [Idle EXCEPT !.op = "pull", !.at = "lock", !.tag = t, !.man = m, !.repair = r]
  <2>2. s.op = "pull" /\ s.at = "lock"
    OBVIOUS
  <2> HIDE DEF s, Idle
  <2> QED
    BY <2>1, <2>2, QuietBeginning DEF s
<1>2. CASE StartInstall(p)
  <2>1. PICK t \in Tag :
           /\ Begin(p, [Idle EXCEPT !.op = "install", !.at = "cached", !.tag = t])
           /\ UNCHANGED <<tables, blob, cacheLock>>
    BY <1>2 DEF StartInstall
  <2> DEFINE s == [Idle EXCEPT !.op = "install", !.at = "cached", !.tag = t]
  <2>2. s.op # "pull" /\ ~s.repair /\ s.at = "cached"
    OBVIOUS
  <2> HIDE DEF s, Idle
  <2> QED
    BY <2>1, <2>2, QuietBeginning DEF s
<1>3. CASE StartRegister(p)
  <2>1. PICK t \in LocalTag, m \in Manifest :
           /\ Begin(p, [Idle EXCEPT !.op = "register", !.at = "lock", !.tag = t, !.man = m,
                                    !.old = tag[t]])
           /\ UNCHANGED <<tables, blob, cacheLock>>
    BY <1>3, ImageAssumption DEF StartRegister
  <2> DEFINE s == [Idle EXCEPT !.op = "register", !.at = "lock", !.tag = t, !.man = m,
                               !.old = tag[t]]
  <2>2. s.op # "pull" /\ ~s.repair /\ s.at = "lock"
    OBVIOUS
  <2> HIDE DEF s, Idle
  <2> QED
    BY <2>1, <2>2, QuietBeginning DEF s
<1>4. CASE StartUnregister(p)
  <2>1. PICK t \in LocalTag :
           /\ Begin(p, [Idle EXCEPT !.op = "unregister", !.at = "resolve", !.tag = t])
           /\ UNCHANGED <<tables, blob, cacheLock>>
    BY <1>4 DEF StartUnregister
  <2> DEFINE s == [Idle EXCEPT !.op = "unregister", !.at = "resolve", !.tag = t]
  <2>2. s.op # "pull" /\ ~s.repair /\ s.at = "resolve"
    OBVIOUS
  <2> HIDE DEF s, Idle
  <2> QED
    BY <2>1, <2>2, QuietBeginning DEF s
<1>5. CASE StartDelete(p)
  <2>1. PICK t \in Tag \ LocalTag :
           /\ Begin(p, [Idle EXCEPT !.op = "delete", !.at = "lock", !.tag = t])
           /\ UNCHANGED <<tables, blob, cacheLock>>
    BY <1>5 DEF StartDelete
  <2> DEFINE s == [Idle EXCEPT !.op = "delete", !.at = "lock", !.tag = t]
  <2>2. s.op # "pull" /\ ~s.repair /\ s.at = "lock"
    OBVIOUS
  <2> HIDE DEF s, Idle
  <2> QED
    BY <2>1, <2>2, QuietBeginning DEF s
<1>6. CASE StartReindex(p)
  <2>1. PICK t \in Tag \ LocalTag :
           /\ Begin(p, [Idle EXCEPT !.op = "reindex", !.at = "clear", !.tag = t, !.man = tag[t],
                                   !.live = TRUE])
           /\ UNCHANGED <<tables, blob, cacheLock>>
    BY <1>6 DEF StartReindex
  <2> DEFINE s == [Idle EXCEPT !.op = "reindex", !.at = "clear", !.tag = t, !.man = tag[t],
                               !.live = TRUE]
  <2>2. s.op # "pull" /\ ~s.repair /\ s.at = "clear"
    OBVIOUS
  <2> HIDE DEF s, Idle
  <2> QED
    BY <2>1, <2>2, QuietBeginning DEF s
<1> QED
  BY <1>1, <1>2, <1>3, <1>4, <1>5, <1>6

(***************************************************************************)
(* Insertions.                                                             *)
(***************************************************************************)

\* What Retry and Restored ask of the state an operation comes to.
LEMMA RetryGoesOn ==
    ASSUME CInv, HInv, NEW p \in Proc, NEW u \in ProcState,
           u.op = proc[p].op, u.repair = proc[p].repair, u.man = proc[p].man,
           u.op = "pull" /\ u.at \in {"blob", "row", "extract"} => ~u.stored,
           u.op = "pull" /\ u.at \in {"rewrite", "clear", "store"} => u.live,
           u.op = "pull" /\ u.repair /\ u.stored /\ u.at = "publish" =>
              u.man \in wit' \union unindexed'
    PROVE  Retry(u) /\ Restored(u, wit', unindexed')
BY DEF HInv, Retry, Restored

LEMMA ProceedFields ==
    ASSUME CInv, NEW p \in Proc, NEW x \in Stage
    PROVE  /\ [proc[p] EXCEPT !.at = x] \in ProcState
           /\ [proc[p] EXCEPT !.at = x].at = x
           /\ [proc[p] EXCEPT !.at = x].op = proc[p].op
           /\ [proc[p] EXCEPT !.at = x].man = proc[p].man
           /\ [proc[p] EXCEPT !.at = x].repair = proc[p].repair
           /\ [proc[p] EXCEPT !.at = x].stored = proc[p].stored
           /\ [proc[p] EXCEPT !.at = x].live = proc[p].live
           /\ [proc[p] EXCEPT !.at = x].doomed = proc[p].doomed
BY ProcessState DEF CInv, ProcState

LEMMA QuietProceed ==
    ASSUME CInv, HInv, RecordingNext, NEW p \in Proc, NEW x \in Stage, Proceed(p, x),
           proc[p].at \notin {"row", "reclaim"}, UNCHANGED <<layer, blob>>, wit \subseteq wit',
           x # "commit",
           proc[p].op = "pull" /\ x \in {"blob", "row", "extract"} => ~proc[p].stored,
           proc[p].op = "pull" /\ x \in {"rewrite", "clear", "store"} => proc[p].live,
           proc[p].op = "pull" /\ proc[p].repair /\ proc[p].stored /\ x = "publish" =>
              proc[p].man \in wit' \union unindexed'
    PROVE  HInv'
<1> DEFINE u == [proc[p] EXCEPT !.at = x]
<1>1. /\ u \in ProcState /\ u.at = x /\ u.op = proc[p].op /\ u.man = proc[p].man
      /\ u.repair = proc[p].repair /\ u.stored = proc[p].stored /\ u.live = proc[p].live
  BY ProceedFields
<1>2. Become(p, u)
  BY DEF Proceed
<1> HIDE DEF u
<1>3. Retry(u) /\ Restored(u, wit', unindexed')
  BY <1>1, RetryGoesOn
<1> QED
  BY <1>1, <1>2, <1>3, QuietHistory

LEMMA LookUpHistory ==
    ASSUME CInv, HInv, RecordingNext, NEW p \in Proc, LookUp(p) PROVE HInv'
<1>1. PICK b \in BOOLEAN : Become(p, [proc[p] EXCEPT !.at = "upsert", !.inserted = b])
  BY DEF LookUp
<1> DEFINE u == [proc[p] EXCEPT !.at = "upsert", !.inserted = b]
<1>2. /\ u \in ProcState /\ u.at = "upsert" /\ u.op = proc[p].op /\ u.man = proc[p].man
      /\ u.repair = proc[p].repair
  BY ProcessState DEF CInv, ProcState, Stage
<1>3. Become(p, u)
  BY <1>1
<1> HIDE DEF u
<1>4. Retry(u) /\ Restored(u, wit', unindexed')
  BY <1>2, RetryGoesOn
<1> QED
  BY <1>2, <1>3, <1>4, QuietHistory DEF LookUp, At, tables

LEMMA UpsertHistory ==
    ASSUME CInv, HInv, RecordingNext, NEW p \in Proc, Upsert(p) PROVE HInv'
<1> DEFINE x == IF proc[p].op = "install" THEN "publish" ELSE "plan"
           u == [proc[p] EXCEPT !.live = TRUE, !.at = x]
<1>1. /\ u \in ProcState /\ u.at = x /\ u.op = proc[p].op /\ u.man = proc[p].man
      /\ u.repair = proc[p].repair
  BY ProcessState DEF CInv, ProcState, Stage
<1>2. Become(p, u)
  BY DEF Upsert
<1> HIDE DEF u
<1>3. Retry(u) /\ Restored(u, wit', unindexed')
  BY <1>1, RetryGoesOn
<1> QED
  BY <1>1, <1>2, <1>3, QuietHistory DEF Upsert, At

LEMMA PlanHistory ==
    ASSUME CInv, HInv, RecordingNext, NEW p \in Proc, Plan(p) PROVE HInv'
<1>1. PICK b \in BOOLEAN, x \in {"blob", "rewrite", "publish"} :
         /\ Become(p, [proc[p] EXCEPT !.stored = b, !.at = x])
         /\ x = "blob" => ~b
         /\ x = "rewrite" => HasLayer(p)
         /\ x = "publish" => ~proc[p].repair
  BY DEF Plan, NextIfStored, NeedsLayers
<1> DEFINE u == [proc[p] EXCEPT !.stored = b, !.at = x]
<1>2. /\ u \in ProcState /\ u.at = x /\ u.op = proc[p].op /\ u.man = proc[p].man
      /\ u.repair = proc[p].repair /\ u.stored = b /\ u.live = proc[p].live
  BY ProcessState DEF CInv, ProcState, Stage
<1>3. Become(p, u)
  BY <1>1
<1> HIDE DEF u
<1>4. Retry(u) /\ Restored(u, wit', unindexed')
  BY <1>1, <1>2, RetryGoesOn DEF HasLayer
<1> QED
  BY <1>2, <1>3, <1>4, QuietHistory DEF Plan, At, tables

\* The blob that is new belongs to the row that is next.
LEMMA WriteBlobHistory ==
    ASSUME CInv, HInv, RecordingNext, NEW p \in Proc, WriteBlob(p) PROVE HInv'
<1> DEFINE u == [proc[p] EXCEPT !.at = "row"]
<1> "row" \in Stage
  BY DEF Stage
<1>1. /\ u \in ProcState /\ u.at = "row" /\ u.op = proc[p].op /\ u.man = proc[p].man
      /\ u.repair = proc[p].repair /\ u.stored = proc[p].stored
  BY ProceedFields
<1>2. /\ Become(p, u) /\ proc[p].at = "blob" /\ UNCHANGED tables
      /\ blob' = blob \union {LayerOf[proc[p].man]}
  BY DEF WriteBlob, At, Proceed
<1> HIDE DEF u
<1>3. proc'[p] = u /\ \A q \in Proc \ {p} : proc'[q] = proc[q]
  BY <1>2, BecomeState, OthersKeep DEF CInv
<1>4. Locked(proc[p])
  BY <1>2 DEF CInv, IInv, Sound, Fits, OnTrack, InsertStages, Locked
<1>5. UnusedBlobsAreExplained'
  <2>1. \A l \in blob' \ blob : Explained(l)'
    BY <1>1, <1>2, <1>3 DEF Explained, Explains
  <2>2. \A l : ~Explains(proc[p], l)
    BY <1>2 DEF Explains
  <2>3. UnusedBlobsAreExplained
    BY DEF HInv
  <2> QED
    BY <1>2, <1>3, <2>1, <2>2, <2>3, BlobsStayExplained DEF tables
<1>6. \A q \in Proc : Reckoned(proc[q])'
  <2>1. Reckoned(proc[p])'
    BY <1>1, <1>3 DEF Reckoned
  <2> QED
    BY <1>3, <1>4, <2>1, ReckonedApart
<1>7. Retry(u) /\ Restored(u, wit', unindexed')
  <2>1. proc[p].op = "pull" => ~proc[p].stored
    BY <1>2 DEF HInv, Retry
  <2> QED
    BY <1>1, <2>1, RetryGoesOn
<1>8. WitKept(p)
  BY <1>2, WitGrows DEF tables
<1> QED
  BY <1>2, <1>5, <1>6, <1>7, <1>8, HistoryStep

LEMMA InsertLayerRowHistory ==
    ASSUME CInv, HInv, RecordingNext, NEW p \in Proc, InsertLayerRow(p) PROVE HInv'
<1> DEFINE u == [proc[p] EXCEPT !.at = "extract"]
<1> "extract" \in Stage
  BY DEF Stage
<1>1. /\ u \in ProcState /\ u.at = "extract" /\ u.op = proc[p].op /\ u.man = proc[p].man
      /\ u.repair = proc[p].repair /\ u.stored = proc[p].stored
  BY ProceedFields
<1>2. /\ Become(p, u) /\ proc[p].at = "row" /\ UNCHANGED <<wit, blob>>
      /\ layer' = layer \union {proc[p].man}
  BY DEF InsertLayerRow, At, Proceed
<1> HIDE DEF u
<1>3. proc'[p] = u /\ \A q \in Proc \ {p} : proc'[q] = proc[q]
  BY <1>2, BecomeState, OthersKeep DEF CInv
<1>4. Locked(proc[p])
  BY <1>2 DEF CInv, IInv, Sound, Fits, OnTrack, InsertStages, Locked
<1>5. UnusedBlobsAreExplained'
  <2>1. \A l : Explains(proc[p], l) => Explained(l)'
    BY <1>2 DEF Explained, Explains
  <2>2. UnusedBlobsAreExplained
    BY DEF HInv
  <2> QED
    BY <1>2, <1>3, <2>1, <2>2, BlobsStayExplained
<1>6. \A q \in Proc : Reckoned(proc[q])'
  <2>1. Reckoned(proc[p])'
    BY <1>1, <1>3 DEF Reckoned
  <2> QED
    BY <1>3, <1>4, <2>1, ReckonedApart
<1>7. Retry(u) /\ Restored(u, wit', unindexed')
  <2>1. proc[p].op = "pull" => ~proc[p].stored
    BY <1>2 DEF HInv, Retry
  <2> QED
    BY <1>1, <2>1, RetryGoesOn
<1>8. WitKept(p)
  BY <1>2, WitGrows
<1> QED
  BY <1>2, <1>5, <1>6, <1>7, <1>8, HistoryStep

LEMMA LockHistory ==
    ASSUME CInv, HInv, RecordingNext, NEW p \in Proc, Lock(p) PROVE HInv'
<1>1. PICK x \in {"blob", "resolve", "lookup"} :
         Proceed(p, x) /\ (x = "blob" => proc[p].op = "install")
  BY DEF Lock
<1> x \in Stage
  BY DEF Stage
<1> QED
  BY <1>1, QuietProceed DEF Lock, At, tables

LEMMA ExtractHistory ==
    ASSUME CInv, HInv, RecordingNext, NEW p \in Proc, Extract(p) PROVE HInv'
<1>1. /\ proc[p].at = "extract" /\ UNCHANGED <<layer, blob>> /\ wit \subseteq wit'
      /\ \/ proc[p].op = "install" /\ Proceed(p, "vendor")
         \/ Proceed(p, "publish")
  BY DEF Extract, TryExtract, At
<1> "publish" \in Stage
  BY DEF Stage
<1> "vendor" \in Stage
  BY DEF Stage
<1>2. proc[p].op = "pull" => ~proc[p].stored
  BY <1>1 DEF HInv, Retry
<1> QED
  BY <1>1, <1>2, QuietProceed

LEMMA StoreWitHistory ==
    ASSUME CInv, HInv, RecordingNext, NEW p \in Proc, StoreWit(p) PROVE HInv'
<1>1. proc[p].at = "store" /\ UNCHANGED <<layer, blob>>
  BY DEF StoreWit, At
<1>2. CASE proc[p].op = "reindex"
  BY <1>1, <1>2, QuietEnding DEF StoreWit, TryExtract, End
<1>3. CASE proc[p].op # "reindex"
  <2>1. Proceed(p, "publish") /\ wit' = wit \union {proc[p].man}
    BY <1>3 DEF StoreWit
  <2> "publish" \in Stage
    BY DEF Stage
  <2> QED
    BY <1>1, <2>1, QuietProceed
<1> QED
  BY <1>2, <1>3

(***************************************************************************)
(* Publications, and the steps of an install around the pull.              *)
(***************************************************************************)

LEMMA PublishHistory ==
    ASSUME CInv, HInv, RecordingNext, NEW p \in Proc, Publish(p) PROVE HInv'
<1>1. /\ proc[p].at = "publish" /\ UNCHANGED <<layer, blob, wit>> /\ proc[p] \in ProcState
      /\ proc[p].repair => proc[p].op = "pull"
  BY ProcessState DEF Publish, At, CInv, HInv, Retry
<1>2. CASE End(p)
  BY <1>1, <1>2, QuietEnding DEF End
<1>3. CASE proc[p].op = "install" /\ Proceed(p, IF proc[p].inserted THEN "lock" ELSE "vendor")
  <2>1. PICK x \in {"lock", "vendor"} : Proceed(p, x)
    BY <1>3
  <2> x \in Stage
    BY DEF Stage
  <2> QED
    BY <1>1, <1>3, <2>1, QuietProceed
<1>4. CASE /\ proc[p].op = "register"
           /\ Become(p, [proc[p] EXCEPT !.at = "resolve", !.man = proc[p].old, !.live = FALSE])
  <2> DEFINE u == [proc[p] EXCEPT !.at = "resolve", !.man = proc[p].old, !.live = FALSE]
  <2>1. u.at = "resolve" /\ u.op = "register" /\ u.repair = proc[p].repair
    BY <1>1, <1>4 DEF ProcState
  <2>2. Become(p, u)
    BY <1>4
  <2> HIDE DEF u
  <2>3. Retry(u) /\ Restored(u, wit', unindexed')
    BY <1>1, <1>4, <2>1 DEF Retry, Restored
  <2> QED
    BY <1>1, <2>1, <2>2, <2>3, QuietHistory
<1> QED
  BY <1>2, <1>3, <1>4 DEF Publish, AfterPublish

LEMMA TryCacheHistory ==
    ASSUME CInv, HInv, RecordingNext, NEW p \in Proc, TryCache(p) PROVE HInv'
<1>1. /\ proc[p].at = "cached" /\ UNCHANGED <<layer, blob, wit>> /\ proc[p] \in ProcState
      /\ proc[p].repair => proc[p].op = "pull"
      /\ proc[p].op = "install"
  BY ProcessState DEF TryCache, At, tables, CInv, HInv, Retry, IInv, Sound, Fits, OnTrack,
     InsertStages
<1>2. CASE Become(p, Idle)
  BY <1>1, <1>2, QuietEnding
<1>3. CASE \E x \in {"vendor", "lookup"} : \E m : Become(p, [proc[p] EXCEPT !.at = x, !.man = m])
  <2>1. PICK x \in {"vendor", "lookup"} : \E m : Become(p, [proc[p] EXCEPT !.at = x, !.man = m])
    BY <1>3
  <2>0. PICK m : Become(p, [proc[p] EXCEPT !.at = x, !.man = m])
    BY <2>1
  <2> DEFINE u == [proc[p] EXCEPT !.at = x, !.man = m]
  <2>2. u.at = x /\ u.op = "install" /\ u.repair = proc[p].repair
    BY <1>1 DEF ProcState
  <2>3. Become(p, u)
    BY <2>0
  <2> HIDE DEF u
  <2>4. Retry(u) /\ Restored(u, wit', unindexed')
    BY <1>1, <2>2 DEF Retry, Restored
  <2> QED
    BY <1>1, <2>2, <2>3, <2>4, QuietHistory
<1> QED
  BY <1>2, <1>3 DEF TryCache

LEMMA VendorHistory ==
    ASSUME CInv, HInv, RecordingNext, NEW p \in Proc, Vendor(p) PROVE HInv'
BY QuietEnding DEF Vendor, At, End, tables

LEMMA ResolveHistory ==
    ASSUME CInv, HInv, RecordingNext, NEW p \in Proc, Resolve(p) PROVE HInv'
<1>1. /\ proc[p].at = "resolve" /\ UNCHANGED <<layer, blob, wit>> /\ proc[p] \in ProcState
      /\ proc[p].repair => proc[p].op = "pull"
      /\ proc[p].op # "pull"
  BY ProcessState DEF Resolve, At, tables, CInv, HInv, Retry, IInv, Sound, Fits, OnTrack,
     InsertStages
<1>2. CASE End(p)
  BY <1>1, <1>2, QuietEnding DEF End
<1>3. CASE Become(p, [proc[p] EXCEPT !.at = "collect", !.man = Target(p), !.live = TRUE])
  <2> DEFINE u == [proc[p] EXCEPT !.at = "collect", !.man = Target(p), !.live = TRUE]
  <2>1. u.at = "collect" /\ u.op = proc[p].op /\ u.repair = proc[p].repair
    BY <1>1 DEF ProcState
  <2>2. Become(p, u)
    BY <1>3
  <2> HIDE DEF u
  <2>3. Retry(u) /\ Restored(u, wit', unindexed')
    BY <1>1, <2>1 DEF Retry, Restored
  <2> QED
    BY <1>1, <2>1, <2>2, <2>3, QuietHistory
<1> QED
  BY <1>2, <1>3 DEF Resolve

(***************************************************************************)
(* Repairs.                                                                *)
(***************************************************************************)

\* The blob that is written again has its row.
LEMMA RewriteHistory ==
    ASSUME CInv, HInv, RecordingNext, NEW p \in Proc, Rewrite(p) PROVE HInv'
<1>1. /\ proc[p].at = "rewrite" /\ UNCHANGED <<layer, wit>>
      /\ proc[p].op = "pull" => proc[p].live /\ proc[p].man \in layer
  BY DEF Rewrite, At, tables, CInv, PInv, Stored, HInv, Retry
<1> "publish" \in Stage
  BY DEF Stage
<1> "clear" \in Stage
  BY DEF Stage
<1>2. CASE ~HasLayer(p)
  BY <1>1, <1>2, QuietProceed DEF Rewrite, HasLayer
<1>3. CASE HasLayer(p)
  <2> DEFINE u == [proc[p] EXCEPT !.at = "clear"]
  <2>1. /\ u \in ProcState /\ u.at = "clear" /\ u.op = proc[p].op /\ u.man = proc[p].man
        /\ u.repair = proc[p].repair /\ u.live = proc[p].live
    BY ProceedFields
  <2>2. Become(p, u) /\ blob' = blob \union {LayerOf[proc[p].man]} /\ proc[p].man \in layer
    BY <1>3 DEF Rewrite, Proceed, HasLayer
  <2> HIDE DEF u
  <2>3. proc'[p] = u /\ \A q \in Proc \ {p} : proc'[q] = proc[q]
    BY <2>2, BecomeState, OthersKeep DEF CInv
  <2>4. Locked(proc[p])
    BY <1>1 DEF CInv, IInv, Sound, Fits, OnTrack, InsertStages, Locked
  <2>5. UnusedBlobsAreExplained'
    <3>1. \A l \in blob' \ blob : Explained(l)'
      BY <1>1, <2>2 DEF Explained
    <3>2. \A l : ~Explains(proc[p], l)
      BY <1>1 DEF Explains
    <3>3. UnusedBlobsAreExplained
      BY DEF HInv
    <3> QED
      BY <1>1, <2>3, <3>1, <3>2, <3>3, BlobsStayExplained
  <2>6. \A q \in Proc : Reckoned(proc[q])'
    <3>1. Reckoned(proc[p])'
      BY <2>1, <2>3 DEF Reckoned
    <3> QED
      BY <2>3, <2>4, <3>1, ReckonedApart
  <2>7. Retry(u) /\ Restored(u, wit', unindexed')
    BY <1>1, <2>1, RetryGoesOn
  <2>8. WitKept(p)
    BY <1>1, WitGrows
  <2> QED
    BY <2>2, <2>5, <2>6, <2>7, <2>8, HistoryStep
<1> QED
  BY <1>2, <1>3

\* Metadata that is cleared under another retry is on record, for that retry
\* has the lock, and what clears without the lock is a reindex.
LEMMA ClearHistory ==
    ASSUME CInv, HInv, RecordingNext, NEW p \in Proc, Clear(p) PROVE HInv'
<1> "store" \in Stage
  BY DEF Stage
<1> DEFINE u == [proc[p] EXCEPT !.at = "store"]
<1>1. /\ u \in ProcState /\ u.at = "store" /\ u.op = proc[p].op /\ u.man = proc[p].man
      /\ u.repair = proc[p].repair /\ u.live = proc[p].live
  BY ProceedFields
<1>2. /\ Become(p, u) /\ proc[p].at = "clear" /\ UNCHANGED <<layer, blob>>
      /\ wit' = IF proc[p].live THEN wit \ {proc[p].man} ELSE wit
  BY DEF Clear, At, Proceed
<1> HIDE DEF u
<1>3. proc'[p] = u /\ \A q \in Proc \ {p} : proc'[q] = proc[q]
  BY <1>2, BecomeState, OthersKeep DEF CInv
<1>4. UnusedBlobsAreExplained'
  <2>1. \A l : ~Explains(proc[p], l)
    BY <1>2 DEF Explains
  <2>2. UnusedBlobsAreExplained
    BY DEF HInv
  <2> QED
    BY <1>2, <1>3, <2>1, <2>2, BlobsStayExplained
<1>5. \A q \in Proc : Reckoned(proc[q])'
  <2>1. Reckoned(proc[p])'
    BY <1>1, <1>3 DEF Reckoned
  <2> QED
    BY <1>2, <1>3, <2>1, ReckonedKept
<1>6. WitKept(p)
  <2> SUFFICES ASSUME NEW q \in Proc \ {p}, proc[q].op = "pull", proc[q].at = "publish",
                      proc[q].man \in wit \union unindexed, proc[q].man \notin wit'
               PROVE  proc[q].man \in unindexed'
    BY DEF WitKept
  <2>1. CASE proc[q].man \in unindexed
    BY <2>1, RecordKeeps
  <2>2. CASE proc[q].man \in wit
    <3>1. proc[q].man = proc[p].man /\ proc[q].man \in Manifest
      BY <1>2, <2>2 DEF CInv, IInv, TypeOK
    <3>2. Locked(proc[q])
      BY DEF Locked, InsertStages
    <3>3. ~Locked(proc[p])
      BY <3>2, LockExcludes DEF CInv
    <3>4. proc[p].op = "reindex"
      BY <1>2, <3>3 DEF CInv, IInv, Sound, Fits, OnTrack, InsertStages, Locked
    <3>5. ReindexClears(proc[q].man)
      BY <3>1, <3>4 DEF ReindexClears
    <3> QED
      BY <3>1, <3>5, RecordKeeps
  <2> QED
    BY <2>1, <2>2
<1>7. Retry(u) /\ Restored(u, wit', unindexed')
  <2>1. proc[p].op = "pull" => proc[p].live
    BY <1>2 DEF HInv, Retry
  <2> QED
    BY <1>1, <2>1, RetryGoesOn
<1> QED
  BY <1>2, <1>4, <1>5, <1>6, <1>7, HistoryStep

(***************************************************************************)
(* Deletions.                                                              *)
(***************************************************************************)

\* What a deletion collects is the layer of its manifest, unless another row
\* needs it.
LEMMA CollectHistory ==
    ASSUME CInv, HInv, RecordingNext, NEW p \in Proc, Collect(p) PROVE HInv'
<1> DEFINE D == IF proc[p].op = "delete" /\ HasLayer(p)
                THEN {LayerOf[proc[p].man]} \ Retained(p) ELSE {}
           u == [proc[p] EXCEPT !.at = "commit", !.doomed = D]
<1>1. /\ u.at = "commit" /\ u.op = proc[p].op /\ u.man = proc[p].man
      /\ u.repair = proc[p].repair /\ u.live = proc[p].live /\ u.doomed = D
  BY ProcessState DEF CInv, ProcState
<1>2. /\ Become(p, u) /\ proc[p].at = "collect" /\ UNCHANGED <<layer, blob, wit>>
  BY DEF Collect, At, tables
<1> HIDE DEF u
<1>3. proc'[p] = u /\ \A q \in Proc \ {p} : proc'[q] = proc[q]
  BY <1>2, BecomeState, OthersKeep DEF CInv
<1>4. UnusedBlobsAreExplained'
  <2>1. \A l : ~Explains(proc[p], l)
    BY <1>2 DEF Explains
  <2>2. UnusedBlobsAreExplained
    BY DEF HInv
  <2> QED
    BY <1>2, <1>3, <2>1, <2>2, BlobsStayExplained
<1>5. \A q \in Proc : Reckoned(proc[q])'
  <2>1. proc[p].op = "delete" /\ HasLayer(p) =>
           \/ LayerOf[proc[p].man] \in D
           \/ \E m \in layer \ {proc[p].man} : LayerOf[m] = LayerOf[proc[p].man]
    BY DEF Retained
  <2> HIDE DEF D
  <2>2. Reckoned(proc[p])'
    BY <1>1, <1>2, <1>3, <2>1 DEF Reckoned, HasLayer
  <2> QED
    BY <1>2, <1>3, <2>2, ReckonedKept
<1>6. WitKept(p)
  BY <1>2, WitGrows
<1>7. Retry(u) /\ Restored(u, wit', unindexed')
  <2>1. (proc[p].repair => proc[p].op = "pull") /\ proc[p].op # "pull"
    BY <1>2 DEF CInv, HInv, Retry, IInv, Sound, Fits, OnTrack, InsertStages
  <2> QED
    BY <1>1, <2>1 DEF Retry, Restored
<1> QED
  BY <1>2, <1>4, <1>5, <1>6, <1>7, HistoryStep

\* The blobs it collected are gone, and nothing else is.
LEMMA ReclaimHistory ==
    ASSUME CInv, HInv, RecordingNext, NEW p \in Proc, Reclaim(p) PROVE HInv'
<1>1. /\ Become(p, Idle) /\ proc[p].at = "reclaim" /\ UNCHANGED <<layer, wit>>
      /\ blob' = blob \ proc[p].doomed
  BY DEF Reclaim, At, End, tables
<1>2. proc'[p] = Idle /\ \A q \in Proc \ {p} : proc'[q] = proc[q]
  BY <1>1, BecomeState, OthersKeep DEF CInv
<1>3. UnusedBlobsAreExplained'
  <2>1. \A l \in blob' : ~Explains(proc[p], l)
    BY <1>1 DEF Explains
  <2>2. UnusedBlobsAreExplained
    BY DEF HInv
  <2> QED
    BY <1>1, <1>2, <2>1, <2>2, BlobsStayExplained
<1>4. Idle.op = "idle" /\ ~Idle.repair
  BY DEF Idle
<1>5. \A q \in Proc : Reckoned(proc[q])'
  <2>1. Reckoned(proc[p])'
    BY <1>2, <1>4 DEF Reckoned
  <2> QED
    BY <1>1, <1>2, <2>1, ReckonedKept
<1>6. Retry(Idle) /\ Restored(Idle, wit', unindexed')
  BY <1>4 DEF Retry, Restored
<1>7. WitKept(p)
  BY <1>1, WitGrows
<1> QED
  BY <1>1, <1>3, <1>5, <1>6, <1>7, HistoryStep

\* Whoever stops between a blob and its row leaves the blob behind.
LEMMA AbortHistory ==
    ASSUME CInv, HInv, RecordingNext, NEW p \in Proc, Abort(p) PROVE HInv'
<1>1. Become(p, Idle) /\ UNCHANGED <<layer, wit, blob>>
  BY DEF Abort, End, tables
<1>2. proc'[p] = Idle /\ \A q \in Proc \ {p} : proc'[q] = proc[q]
  BY <1>1, BecomeState, OthersKeep DEF CInv
<1>3. UnusedBlobsAreExplained'
  <2>1. ASSUME NEW l \in blob', Explains(proc[p], l) PROVE l \in left'
    <3>1. LeavesBehind(l)
      BY <2>1 DEF LeavesBehind, Explains, At
    <3>2. l \in Layer
      BY <1>1, <2>1 DEF CInv, IInv, TypeOK
    <3> QED
      BY <2>1, <3>1, <3>2, RecordKeeps
  <2>2. UnusedBlobsAreExplained
    BY DEF HInv
  <2> QED
    BY <1>1, <1>2, <2>1, <2>2, BlobsStayExplained
<1>4. Idle.op = "idle" /\ ~Idle.repair
  BY DEF Idle
<1>5. \A q \in Proc : Reckoned(proc[q])'
  <2>1. Reckoned(proc[p])'
    BY <1>2, <1>4 DEF Reckoned
  <2> QED
    BY <1>1, <1>2, <2>1, ReckonedKept
<1>6. Retry(Idle) /\ Restored(Idle, wit', unindexed')
  BY <1>4 DEF Retry, Restored
<1>7. WitKept(p)
  BY <1>1, WitGrows
<1> QED
  BY <1>1, <1>3, <1>5, <1>6, <1>7, HistoryStep

\* The operations that hold the id of a deleted row lose it, and nothing else.
LEMMA OrphanedFields ==
    ASSUME CInv, NEW m, NEW q \in Proc
    PROVE  /\ Orphaned(m)[q].doomed = proc[q].doomed /\ Orphaned(m)[q].repair = proc[q].repair
           /\ Orphaned(m)[q].stored = proc[q].stored
           /\ Orphaned(m)[q].live = (proc[q].live /\ proc[q].man # m)
<1> DEFINE v == [proc[q] EXCEPT !.live = proc[q].live /\ proc[q].man # m]
<1>1. /\ v.doomed = proc[q].doomed /\ v.repair = proc[q].repair
      /\ v.stored = proc[q].stored /\ v.live = (proc[q].live /\ proc[q].man # m)
  BY ProcessState DEF ProcState, CInv
<1>2. Orphaned(m)[q] = v
  BY DEF Orphaned
<1> HIDE DEF v
<1> QED
  BY <1>1, <1>2

\* What a deletion becomes when it has committed.
LEMMA CommittedState ==
    ASSUME CInv, HInv, NEW p \in Proc, CommitDelete(p)
    PROVE  \E u : /\ IF proc[p].live
                       THEN proc' = [Orphaned(proc[p].man) EXCEPT ![p] = u]
                       ELSE UNCHANGED tables /\ Become(p, u)
                  /\ u.at # "commit" /\ u.op # "pull" /\ ~u.repair
                  /\ proc[p].op = "delete" => u.at = "reclaim" /\ u.doomed = proc[p].doomed
<1>1. /\ proc[p].at = "commit" /\ proc[p] \in ProcState /\ proc[p].op # "pull"
      /\ proc[p].repair => proc[p].op = "pull"
  BY ProcessState
     DEF CommitDelete, At, CInv, HInv, Retry, IInv, Sound, Fits, OnTrack, InsertStages
<1>2. CASE proc[p].op = "delete"
  <2> DEFINE u == [proc[p] EXCEPT !.at = "reclaim", !.live = FALSE]
  <2>1. /\ u.at = "reclaim" /\ u.op = "delete" /\ u.repair = proc[p].repair
        /\ u.doomed = proc[p].doomed
    BY <1>1, <1>2 DEF ProcState
  <2>2. IF proc[p].live THEN proc' = [Orphaned(proc[p].man) EXCEPT ![p] = u]
        ELSE UNCHANGED tables /\ Become(p, u)
    BY <1>2 DEF CommitDelete
  <2> HIDE DEF u
  <2> QED
    BY <1>1, <2>1, <2>2
<1>3. CASE proc[p].op # "delete"
  <2>1. IF proc[p].live THEN proc' = [Orphaned(proc[p].man) EXCEPT ![p] = Idle]
        ELSE UNCHANGED tables /\ Become(p, Idle)
    BY <1>3 DEF CommitDelete
  <2>2. Idle.at # "commit" /\ Idle.op # "pull" /\ ~Idle.repair
    BY DEF Idle
  <2> QED
    BY <1>3, <2>1, <2>2
<1> QED
  BY <1>2, <1>3

\* The layer of the deleted row is reclaimed next, needed by another row, or
\* left behind; no other deletion is about to commit that counts on this row.
LEMMA CommitDeleteHistory ==
    ASSUME CInv, HInv, RecordingNext, NEW p \in Proc, CommitDelete(p) PROVE HInv'
<1>1. PICK u : /\ IF proc[p].live
                    THEN proc' = [Orphaned(proc[p].man) EXCEPT ![p] = u]
                    ELSE UNCHANGED tables /\ Become(p, u)
               /\ u.at # "commit" /\ u.op # "pull" /\ ~u.repair
               /\ proc[p].op = "delete" => u.at = "reclaim" /\ u.doomed = proc[p].doomed
  BY CommittedState
<1>2. proc[p].at = "commit" /\ blob' = blob
  BY DEF CommitDelete, At
<1>3. Retry(u) /\ Restored(u, wit', unindexed')
  BY <1>1 DEF Retry, Restored
<1>4. CASE ~proc[p].live
  BY <1>1, <1>2, <1>3, <1>4, QuietHistory DEF tables
<1>5. CASE proc[p].live
  <2>0. PICK m \in Manifest : m = proc[p].man
    BY <1>2 DEF CInv, IInv, Sound, Fits, Unchosen
  <2>1. layer' = layer \ {m} /\ wit' = wit \ {m}
    BY <1>5, <2>0 DEF CommitDelete
  <2>2. proc'[p] = u /\ \A q \in Proc \ {p} : proc'[q] = Orphaned(m)[q]
    BY <1>1, <1>5, <2>0 DEF Orphaned
  <2>3. ASSUME NEW q \in Proc \ {p}
        PROVE  /\ proc'[q].op = proc[q].op /\ proc'[q].at = proc[q].at
               /\ proc'[q].man = proc[q].man /\ proc'[q].doomed = proc[q].doomed
               /\ proc'[q].repair = proc[q].repair /\ proc'[q].stored = proc[q].stored
               /\ proc'[q].live = (proc[q].live /\ proc[q].man # m)
    BY <2>2, OrphanedKeeps, OrphanedFields DEF CInv
  <2>4. proc[p].op # "delete" => (LayerOf[m] \in blob' => LayerOf[m] \in left')
    <3>1. LayerOf[m] \in Layer
      BY ImageAssumption
    <3>2. proc[p].op # "delete" => LeavesBehind(LayerOf[m])
      BY <1>5, <2>0 DEF LeavesBehind
    <3> QED
      BY <3>1, <3>2, RecordKeeps
  <2>5. ASSUME m \in layer, LayerOf[m] \in blob', LayerOf[m] \notin left'
        PROVE  Explained(LayerOf[m])'
    <3>1. proc[p].op = "delete"
      BY <2>4, <2>5
    <3>2. LayerOf[m] \in blob \ left
      BY <1>2, <2>5, RecordKeeps
    <3>3. \/ LayerOf[m] \in proc[p].doomed
          \/ \E n \in layer \ {m} : LayerOf[n] = LayerOf[m]
      BY <1>2, <1>5, <2>0, <2>5, <3>1, <3>2 DEF HInv, Reckoned
    <3>4. LayerOf[m] \in proc[p].doomed => Explains(proc'[p], LayerOf[m])
      BY <1>1, <2>2, <3>1 DEF Explains
    <3>5. LayerOf[m] \in proc[p].doomed => \E q \in Proc : Explains(proc[q], LayerOf[m])'
      BY <3>4 DEF Explains
    <3> QED
      BY <2>1, <3>3, <3>5 DEF Explained
  <2>6. UnusedBlobsAreExplained'
    <3>1. \A l : ~Explains(proc[p], l)
      BY <1>2 DEF Explains
    <3>2. UnusedBlobsAreExplained
      BY DEF HInv
    <3>3. \A n \in layer \ layer' :
             LayerOf[n] \in blob' => LayerOf[n] \in left' \/ Explained(LayerOf[n])'
      BY <2>1, <2>5
    <3> QED
      BY <1>2, <2>3, <3>1, <3>2, <3>3, BlobsStayExplained
  <2>7. ASSUME NEW q \in Proc PROVE Reckoned(proc[q])'
    <3>1. CASE q = p
      BY <1>1, <2>2, <3>1 DEF Reckoned
    <3>2. CASE q # p
      <4> SUFFICES ASSUME proc'[q].op = "delete", proc'[q].at = "commit", proc'[q].live,
                          proc'[q].man \in layer', LayerOf[proc'[q].man] \in blob' \ left'
                   PROVE  \/ LayerOf[proc'[q].man] \in proc'[q].doomed
                          \/ \E n \in layer' \ {proc'[q].man} : LayerOf[n] = LayerOf[proc'[q].man]
        BY DEF Reckoned
      <4>1. Locked(proc[q])
        BY <2>3, <3>2 DEF Locked
      <4>2. proc[p].op # "delete"
        BY <1>2, <3>2, <4>1, LockExcludes DEF CInv, Locked
      <4>3. LayerOf[proc[q].man] \in blob \ left /\ proc[q].live /\ proc[q].man \in layer
        BY <1>2, <2>1, <2>3, <3>2, RecordKeeps
      <4>4. \/ LayerOf[proc[q].man] \in proc[q].doomed
            \/ \E n \in layer \ {proc[q].man} : LayerOf[n] = LayerOf[proc[q].man]
        BY <2>3, <3>2, <4>3 DEF HInv, Reckoned
      <4>5. LayerOf[proc[q].man] # LayerOf[m]
        BY <1>2, <2>3, <2>4, <3>2, <4>2
      <4> QED
        BY <2>1, <2>3, <3>2, <4>4, <4>5
    <3> QED
      BY <3>1, <3>2
  <2>8. ASSUME NEW q \in Proc
        PROVE  Retry(proc'[q]) /\ Restored(proc'[q], wit', unindexed')
    <3>1. CASE q = p
      BY <1>3, <2>2, <3>1
    <3>2. CASE q # p
      <4>1. Retry(proc[q]) /\ Restored(proc[q], wit, unindexed)
        BY DEF HInv
      <4>2. proc[q].op = "pull" /\ proc[q].at \in {"extract", "rewrite", "clear", "store", "publish"}
            => proc[q].man # m
        BY <1>2, <2>0, <3>2, PullsAreSpared DEF CInv
      <4>3. Retry(proc'[q])
        BY <2>3, <3>2, <4>1, <4>2 DEF Retry
      <4>4. Restored(proc'[q], wit', unindexed')
        BY <2>1, <2>3, <3>2, <4>1, <4>2, RecordKeeps DEF Restored
      <4> QED
        BY <4>3, <4>4
    <3> QED
      BY <3>1, <3>2
  <2>9. \A q \in Proc : (Retry(proc[q]) /\ Restored(proc[q], wit, unindexed))'
    BY <2>8 DEF Retry, Restored
  <2> QED
    BY <2>6, <2>7, <2>9 DEF HInv
<1> QED
  BY <1>4, <1>5

(***************************************************************************)
(* The theorems.                                                           *)
(***************************************************************************)

LEMMA StepHInv ==
    ASSUME CInv, HInv, RecordingNext PROVE HInv'
<1>1. PICK p \in Proc : Step(p)
  BY DEF RecordingNext, Next
<1> QED
  BY <1>1, StartsHistory, LockHistory, LookUpHistory, UpsertHistory, PlanHistory,
     WriteBlobHistory, InsertLayerRowHistory, ExtractHistory, RewriteHistory, ClearHistory,
     StoreWitHistory, PublishHistory, TryCacheHistory, VendorHistory, ResolveHistory,
     CollectHistory, CommitDeleteHistory, ReclaimHistory, AbortHistory DEF Step

LEMMA StutterHInv ==
    ASSUME HInv, UNCHANGED <<vars, history>> PROVE HInv'
BY DEF HInv, UnusedBlobsAreExplained, At, Reckoned, Retry, Restored, vars, tables, history

LEMMA HistoryInvariance == RecordingSpec => [](CInv /\ HInv)
<1>1. RecordingInit => CInv /\ HInv
  BY InitIInv, InitLInv, InitPInv, InitHInv DEF RecordingInit, CInv
<1>2. CInv /\ [RecordingNext]_<<vars, history>> => CInv'
  BY StepIInv, StepLInv, StepPInv, StutterIInv, StutterLInv, StutterPInv
     DEF RecordingNext, Next, CInv
<1>3. CInv /\ HInv /\ [RecordingNext]_<<vars, history>> => HInv'
  BY StepHInv, StutterHInv
<1> QED
  BY <1>1, <1>2, <1>3, PTL DEF RecordingSpec

\* Every blob without a layer row is about to be used or removed, or has been
\* left behind, for any number of processes and of packages that share layers.
THEOREM BlobsAreExplained == RecordingSpec => []UnusedBlobsAreExplained
<1>1. HInv => UnusedBlobsAreExplained
  BY DEF HInv
<1> QED
  BY HistoryInvariance, <1>1, PTL

\* A retried pull that finds its layers stored restores their metadata before
\* it publishes, whatever runs beside it; only an overlapping reindex undoes it.
THEOREM RetriesRestore == RecordingSpec => RetryRestoresMetadata
<1>1. ASSUME CInv, HInv, NEW p \in Proc, Publish(p), proc[p].repair, proc[p].stored
      PROVE  proc[p].man \in wit \union unindexed
  BY <1>1 DEF HInv, Retry, Restored, Publish, At
<1>2. CInv /\ HInv /\ [RecordingNext]_<<vars, history>> =>
         [\A p \in Proc :
            (Publish(p) /\ proc[p].repair /\ proc[p].stored)
            => proc[p].man \in wit \union unindexed]_<<vars, history>>
  BY <1>1
<1> QED
  BY HistoryInvariance, <1>2, PTL DEF RecordingSpec, RetryRestoresMetadata
===============================================================================
