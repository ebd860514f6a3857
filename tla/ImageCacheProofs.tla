--------------------------- MODULE ImageCacheProofs ---------------------------
(* Machine-checked proofs about ImageCache, for every value of its constants. *)
EXTENDS ImageCache, TLAPS

(***************************************************************************)
(* The strengthening.  LayersAreCached depends on what a process that      *)
(* writes a layer row and one that reclaims blobs know of the cache, and   *)
(* on the lock that keeps them apart.                                      *)
(***************************************************************************)

InsertStages ==
    {"lookup", "upsert", "plan", "blob", "row", "extract", "rewrite", "clear", "store", "publish"}

\* The stages each operation goes through.
OnTrack(s) ==
    \/ s.op = "idle" /\ s.at = "idle"
    \/ s.op \in {"pull", "register"} /\ s.at \in {"lock"} \union InsertStages
    \/ s.op = "install" /\ s.at \in {"cached", "lookup", "upsert", "publish", "lock", "blob",
                                     "row", "extract", "vendor"}
    \/ s.op \in {"register", "unregister"} /\ s.at \in {"resolve", "collect", "commit"}
    \/ s.op = "delete" /\ s.at \in {"lock", "resolve", "collect", "commit", "reclaim"}
    \/ s.op = "reindex" /\ s.at \in {"clear", "store"}

\* Those of them in which it holds the cache lock.
Locked(s) ==
    \/ s.op \in {"pull", "register"} /\ s.at \in InsertStages
    \/ s.op = "install" /\ s.at \in {"blob", "row", "extract"}
    \/ s.op = "delete" /\ s.at \in {"resolve", "collect", "commit", "reclaim"}

\* Stages in which no manifest has been chosen yet.
Unchosen(s) ==
    \/ s.at \in {"idle", "cached"}
    \/ s.op = "delete" /\ s.at \in {"lock", "resolve"}
    \/ s.op = "unregister" /\ s.at = "resolve"

\* An operation is at one of its stages, with the lock, tag and manifest it needs.
Fits(p, s) ==
    /\ OnTrack(s)
    /\ s.op # "idle" => s.tag \in Tag
    /\ Locked(s) => cacheLock = p
    /\ ~Unchosen(s) => s.man \in Manifest

\* The foreign key of the rows an operation is about to write.
LiveRowExists(s) == s.live => s.man \in manifest /\ ~Unchosen(s)

\* Whoever is about to write a layer row has written the blob.
BlobComesFirst(s) == s.at = "row" => LayerOf[s.man] \in blob

\* Blobs that a deletion will remove belong to no layer row but the one it
\* deletes itself.
DoomedAreUnused(s) ==
    /\ (s.at \notin {"commit", "reclaim"} \/ s.op # "delete") => s.doomed = {}
    /\ \A m \in layer :
          LayerOf[m] \in s.doomed => s.at = "commit" /\ s.live /\ s.man = m

Sound(p, s) ==
    /\ s \in ProcState
    /\ Fits(p, s)
    /\ LiveRowExists(s)
    /\ BlobComesFirst(s)
    /\ DoomedAreUnused(s)

IInv ==
    /\ TypeOK
    /\ LayersAreCached
    /\ \A p \in Proc : Sound(p, proc[p])

\* Everything in TypeOK but the processes.
TablesOK ==
    /\ manifest \subseteq Manifest
    /\ layer \subseteq manifest
    /\ wit \subseteq manifest
    /\ tag \in [Tag -> manifest \union {NoManifest}]
    /\ blob \subseteq Layer
    /\ cacheLock \in Proc \union {NoProc}

LEMMA IdleIsSound == \A p \in Proc : Sound(p, Idle)
BY DEF Sound, ProcState, Stage, Idle, Fits, OnTrack, Locked, Unchosen, InsertStages,
       LiveRowExists, BlobComesFirst, DoomedAreUnused

LEMMA InitIInv == Init => IInv
BY IdleIsSound, SentinelAssumption, ImageAssumption
   DEF Init, IInv, TypeOK, LayersAreCached, Sound

(***************************************************************************)
(* A step of one process that deletes no row, writes no layer row and      *)
(* removes no blob leaves the other processes and the cache in order.      *)
(***************************************************************************)

Changed(p) == proc' = [proc EXCEPT ![p] = proc'[p]]

LEMMA LocalStep ==
    ASSUME IInv, NEW p \in Proc, Changed(p), Sound(p, proc[p])', TablesOK',
           manifest \subseteq manifest', layer' = layer, blob \subseteq blob',
           cacheLock' = cacheLock \/ cacheLock \in {p, NoProc}
    PROVE  IInv'
<1> USE DEF IInv
<1>1. /\ proc' \in [Proc -> ProcState]
      /\ \A q \in Proc \ {p} : proc'[q] = proc[q]
  BY DEF Changed, Sound, TypeOK
<1>2. ASSUME NEW q \in Proc \ {p} PROVE Sound(q, proc[q])'
  <2>1. Sound(q, proc[q])
    OBVIOUS
  <2>2. Locked(proc[q]) => cacheLock' = q
    BY <2>1, SentinelAssumption DEF Sound, Fits
  <2> QED
    BY <1>1, <2>1, <2>2 DEF Sound, Fits, LiveRowExists, BlobComesFirst, DoomedAreUnused
<1>3. LayersAreCached'
  BY DEF LayersAreCached
<1> QED
  BY <1>1, <1>2, <1>3 DEF TypeOK, TablesOK

(***************************************************************************)
(* The operations step by step: how they begin and end.                    *)
(***************************************************************************)

LEMMA EndStep ==
    ASSUME IInv, NEW p \in Proc, End(p), TablesOK', manifest' = manifest, layer' = layer,
           blob' = blob
    PROVE  IInv'
<1>1. Changed(p) /\ proc'[p] = Idle
  BY DEF End, Become, Changed, IInv, TypeOK
<1>2. Sound(p, Idle)'
  BY DEF Sound, ProcState, Stage, Idle, Fits, OnTrack, Locked, Unchosen, InsertStages,
         LiveRowExists, BlobComesFirst, DoomedAreUnused
<1> QED
  BY <1>1, <1>2, LocalStep DEF End, Release

\* An operation begins without the lock.
LEMMA BeginStep ==
    ASSUME IInv, NEW p \in Proc, NEW s \in ProcState, Begin(p, s),
           UNCHANGED <<tables, blob, cacheLock>>,
           OnTrack(s), s.tag \in Tag, ~Locked(s), ~Unchosen(s) => s.man \in Manifest,
           s.live => s.man \in manifest /\ ~Unchosen(s), s.at # "row", s.doomed = {}
    PROVE  IInv'
<1>1. Changed(p) /\ proc'[p] = s
  BY DEF Begin, Become, Changed, IInv, TypeOK
<1>2. Sound(p, s)'
  BY DEF tables, Sound, Fits, LiveRowExists, BlobComesFirst, DoomedAreUnused
<1>3. TablesOK'
  BY DEF IInv, TypeOK, TablesOK, tables
<1> QED
  BY <1>1, <1>2, <1>3, LocalStep DEF tables

LEMMA StartPullStep ==
    ASSUME IInv, NEW p \in Proc, StartPull(p) PROVE IInv'
<1> USE ImageAssumption
    DEF ProcState, Stage, Idle, AllOperations, OnTrack, InsertStages, Locked, Unchosen
<1>1. PICK t \in Tag \ LocalTag, r \in BOOLEAN, m \in Manifest :
         /\ Begin(p, [Idle EXCEPT !.op = "pull", !.at = "lock", !.tag = t, !.man = m, !.repair = r])
         /\ UNCHANGED <<tables, blob, cacheLock>>
  BY DEF StartPull
<1> DEFINE s == [Idle EXCEPT !.op = "pull", !.at = "lock", !.tag = t, !.man = m, !.repair = r]
<1>2. /\ s \in ProcState /\ OnTrack(s) /\ ~Locked(s) /\ ~Unchosen(s) => s.man \in Manifest
      /\ s.live = FALSE /\ s.at # "row" /\ s.doomed = {} /\ s.tag \in Tag
  OBVIOUS
<1>3. Begin(p, s)
  BY <1>1
<1> HIDE DEF s
<1> QED
  BY <1>1, <1>2, <1>3, BeginStep

LEMMA StartRegisterStep ==
    ASSUME IInv, NEW p \in Proc, StartRegister(p) PROVE IInv'
<1> USE ImageAssumption
    DEF ProcState, Stage, Idle, AllOperations, OnTrack, InsertStages, Locked, Unchosen
<1>1. PICK t \in LocalTag, m \in Manifest, o \in Manifest \union {NoManifest} :
         /\ Begin(p, [Idle EXCEPT !.op = "register", !.at = "lock", !.tag = t, !.man = m, !.old = o])
         /\ UNCHANGED <<tables, blob, cacheLock>>
  <2>1. \A t \in LocalTag : tag[t] \in Manifest \union {NoManifest}
    BY DEF IInv, TypeOK
  <2> QED
    BY <2>1 DEF StartRegister
<1> DEFINE s == [Idle EXCEPT !.op = "register", !.at = "lock", !.tag = t, !.man = m, !.old = o]
<1>2. /\ s \in ProcState /\ OnTrack(s) /\ ~Locked(s) /\ ~Unchosen(s) => s.man \in Manifest
      /\ s.live = FALSE /\ s.at # "row" /\ s.doomed = {} /\ s.tag \in Tag
  OBVIOUS
<1>3. Begin(p, s)
  BY <1>1
<1> HIDE DEF s
<1> QED
  BY <1>1, <1>2, <1>3, BeginStep

LEMMA StartInstallStep ==
    ASSUME IInv, NEW p \in Proc, StartInstall(p) PROVE IInv'
<1> USE DEF ProcState, Stage, Idle, AllOperations, OnTrack, InsertStages, Locked, Unchosen
<1>1. PICK t \in Tag :
         /\ Begin(p, [Idle EXCEPT !.op = "install", !.at = "cached", !.tag = t])
         /\ UNCHANGED <<tables, blob, cacheLock>>
  BY DEF StartInstall
<1> DEFINE s == [Idle EXCEPT !.op = "install", !.at = "cached", !.tag = t]
<1>2. /\ s \in ProcState /\ OnTrack(s) /\ ~Locked(s) /\ Unchosen(s)
      /\ s.live = FALSE /\ s.at # "row" /\ s.doomed = {} /\ s.tag \in Tag
  BY ImageAssumption
<1>3. Begin(p, s)
  BY <1>1
<1> HIDE DEF s
<1> QED
  BY <1>1, <1>2, <1>3, BeginStep

LEMMA StartUnregisterStep ==
    ASSUME IInv, NEW p \in Proc, StartUnregister(p) PROVE IInv'
<1> USE DEF ProcState, Stage, Idle, AllOperations, OnTrack, InsertStages, Locked, Unchosen
<1>1. PICK t \in LocalTag :
         /\ Begin(p, [Idle EXCEPT !.op = "unregister", !.at = "resolve", !.tag = t])
         /\ UNCHANGED <<tables, blob, cacheLock>>
  BY DEF StartUnregister
<1> DEFINE s == [Idle EXCEPT !.op = "unregister", !.at = "resolve", !.tag = t]
<1>2. /\ s \in ProcState /\ OnTrack(s) /\ ~Locked(s) /\ Unchosen(s)
      /\ s.live = FALSE /\ s.at # "row" /\ s.doomed = {} /\ s.tag \in Tag
  BY ImageAssumption
<1>3. Begin(p, s)
  BY <1>1
<1> HIDE DEF s
<1> QED
  BY <1>1, <1>2, <1>3, BeginStep

LEMMA StartDeleteStep ==
    ASSUME IInv, NEW p \in Proc, StartDelete(p) PROVE IInv'
<1> USE DEF ProcState, Stage, Idle, AllOperations, OnTrack, InsertStages, Locked, Unchosen
<1>1. PICK t \in Tag \ LocalTag :
         /\ Begin(p, [Idle EXCEPT !.op = "delete", !.at = "lock", !.tag = t])
         /\ UNCHANGED <<tables, blob, cacheLock>>
  BY DEF StartDelete
<1> DEFINE s == [Idle EXCEPT !.op = "delete", !.at = "lock", !.tag = t]
<1>2. /\ s \in ProcState /\ OnTrack(s) /\ ~Locked(s) /\ Unchosen(s)
      /\ s.live = FALSE /\ s.at # "row" /\ s.doomed = {} /\ s.tag \in Tag
  BY ImageAssumption
<1>3. Begin(p, s)
  BY <1>1
<1> HIDE DEF s
<1> QED
  BY <1>1, <1>2, <1>3, BeginStep

LEMMA StartReindexStep ==
    ASSUME IInv, NEW p \in Proc, StartReindex(p) PROVE IInv'
<1> USE DEF ProcState, Stage, Idle, AllOperations, OnTrack, InsertStages, Locked, Unchosen
<1>1. PICK t \in Tag \ LocalTag, m \in manifest :
         /\ Begin(p, [Idle EXCEPT !.op = "reindex", !.at = "clear", !.tag = t, !.man = m,
                                 !.live = TRUE])
         /\ UNCHANGED <<tables, blob, cacheLock>>
  BY DEF StartReindex, IInv, TypeOK
<1> DEFINE s == [Idle EXCEPT !.op = "reindex", !.at = "clear", !.tag = t, !.man = m,
                             !.live = TRUE]
<1>2. /\ s \in ProcState /\ OnTrack(s) /\ ~Locked(s) /\ s.man = m /\ ~Unchosen(s)
      /\ s.at # "row" /\ s.doomed = {} /\ s.tag \in Tag
  BY ImageAssumption DEF IInv, TypeOK
<1>3. Begin(p, s)
  BY <1>1
<1> HIDE DEF s
<1> QED
  BY <1>1, <1>2, <1>3, BeginStep DEF IInv, TypeOK

(***************************************************************************)
(* The steps in between.                                                   *)
(***************************************************************************)

LEMMA ProceedState ==
    ASSUME IInv, NEW p \in Proc, NEW x \in Stage, Proceed(p, x)
    PROVE  /\ Changed(p)
           /\ proc'[p] \in ProcState
           /\ proc'[p].at = x
           /\ proc'[p].op = proc[p].op
           /\ proc'[p].man = proc[p].man
           /\ proc'[p].live = proc[p].live
           /\ proc'[p].doomed = proc[p].doomed /\ proc'[p].tag = proc[p].tag
BY DEF Proceed, Become, Changed, IInv, TypeOK, ProcState

LEMMA BecomeState ==
    ASSUME IInv, NEW p \in Proc, NEW s, Become(p, s)
    PROVE  Changed(p) /\ proc'[p] = s /\ proc[p] \in ProcState
BY DEF Become, Changed, IInv, TypeOK

LEMMA LockStep ==
    ASSUME IInv, NEW p \in Proc, Lock(p) PROVE IInv'
<1>1. PICK x \in {"blob", "resolve", "lookup"} :
         /\ Proceed(p, x)
         /\ x = "blob" => proc[p].op = "install"
         /\ x = "resolve" => proc[p].op = "delete"
         /\ x = "lookup" => proc[p].op \in {"pull", "register"}
  BY DEF Lock
<1>2. Sound(p, proc[p]) /\ proc[p].at = "lock" /\ UNCHANGED <<tables, blob>>
  BY DEF IInv, Lock, At
<1>3. Sound(p, proc[p])' /\ Changed(p)
  BY <1>1, <1>2, ProceedState
     DEF Sound, Stage, Fits, OnTrack, InsertStages, Locked, Unchosen, LiveRowExists,
         BlobComesFirst, DoomedAreUnused, tables, Lock, TakeLock
<1> QED
  BY <1>2, <1>3, LocalStep DEF Lock, TakeLock, tables, TablesOK, IInv, TypeOK

LEMMA LookUpStep ==
    ASSUME IInv, NEW p \in Proc, LookUp(p) PROVE IInv'
<1>1. Sound(p, proc[p]) /\ proc[p].at = "lookup" /\ UNCHANGED <<tables, blob, cacheLock>>
  BY DEF IInv, LookUp, At
<1>2. PICK b \in BOOLEAN : Become(p, [proc[p] EXCEPT !.at = "upsert", !.inserted = b])
  BY DEF LookUp
<1>3. /\ Changed(p) /\ proc'[p] \in ProcState
      /\ proc'[p].at = "upsert" /\ proc'[p].op = proc[p].op /\ proc'[p].man = proc[p].man
      /\ proc'[p].live = proc[p].live /\ proc'[p].doomed = proc[p].doomed /\ proc'[p].tag = proc[p].tag
  <2> DEFINE u == [proc[p] EXCEPT !.at = "upsert", !.inserted = b]
  <2>1. proc[p] \in ProcState
    BY <1>1 DEF Sound
  <2>2. /\ u \in ProcState /\ u.at = "upsert" /\ u.op = proc[p].op /\ u.man = proc[p].man
        /\ u.live = proc[p].live /\ u.doomed = proc[p].doomed /\ u.tag = proc[p].tag
    BY <2>1 DEF ProcState, Stage
  <2>3. Changed(p) /\ proc'[p] = u
    BY <1>2, BecomeState
  <2> HIDE DEF u
  <2> QED
    BY <2>2, <2>3
<1>4. Sound(p, proc[p])'
  BY <1>1, <1>3 DEF Sound, Fits, OnTrack, InsertStages, Locked, Unchosen, LiveRowExists,
                    BlobComesFirst, DoomedAreUnused, tables
<1> QED
  BY <1>1, <1>3, <1>4, LocalStep DEF tables, TablesOK, IInv, TypeOK

LEMMA UpsertStep ==
    ASSUME IInv, NEW p \in Proc, Upsert(p) PROVE IInv'
<1>1. Sound(p, proc[p]) /\ proc[p].at = "upsert"
  BY DEF IInv, Upsert, At
<1>2. proc[p].man \in Manifest
  BY <1>1 DEF Sound, Fits, Unchosen
<1>3. /\ Changed(p) /\ proc'[p] \in ProcState
      /\ proc'[p].at = (IF proc[p].op = "install" THEN "publish" ELSE "plan")
      /\ proc'[p].op = proc[p].op /\ proc'[p].man = proc[p].man
      /\ proc'[p].live = TRUE /\ proc'[p].doomed = proc[p].doomed /\ proc'[p].tag = proc[p].tag
  <2> DEFINE x == IF proc[p].op = "install" THEN "publish" ELSE "plan"
             u == [proc[p] EXCEPT !.live = TRUE, !.at = x]
  <2>1. proc[p] \in ProcState
    BY <1>1 DEF Sound
  <2>2. /\ u \in ProcState /\ u.at = x /\ u.op = proc[p].op /\ u.man = proc[p].man
        /\ u.live = TRUE /\ u.doomed = proc[p].doomed /\ u.tag = proc[p].tag
    BY <2>1 DEF ProcState, Stage
  <2>3. Become(p, u)
    BY DEF Upsert
  <2>4. Changed(p) /\ proc'[p] = u
    BY <2>3 DEF Become, Changed, IInv, TypeOK
  <2> HIDE DEF u
  <2> QED
    BY <2>2, <2>4
<1>4. Sound(p, proc[p])'
  BY <1>1, <1>2, <1>3 DEF Sound, Fits, OnTrack, InsertStages, Locked, Unchosen, LiveRowExists,
                    BlobComesFirst, DoomedAreUnused, tables, Upsert
<1>5. TablesOK'
  BY <1>2 DEF Upsert, TablesOK, IInv, TypeOK
<1> QED
  BY <1>3, <1>4, <1>5, LocalStep DEF Upsert

LEMMA PlanStep ==
    ASSUME IInv, NEW p \in Proc, Plan(p) PROVE IInv'
<1>1. Sound(p, proc[p]) /\ proc[p].at = "plan" /\ UNCHANGED <<tables, blob, cacheLock>>
  BY DEF IInv, Plan, At
<1>2. PICK b \in BOOLEAN, x \in {"blob", "rewrite", "publish"} :
         Become(p, [proc[p] EXCEPT !.stored = b, !.at = x])
  BY DEF Plan, NextIfStored
<1>3. /\ Changed(p) /\ proc'[p] \in ProcState /\ proc'[p].at = x
      /\ proc'[p].op = proc[p].op /\ proc'[p].man = proc[p].man
      /\ proc'[p].live = proc[p].live /\ proc'[p].doomed = proc[p].doomed /\ proc'[p].tag = proc[p].tag
  <2> DEFINE u == [proc[p] EXCEPT !.stored = b, !.at = x]
  <2>1. proc[p] \in ProcState
    BY <1>1 DEF Sound
  <2>2. /\ u \in ProcState /\ u.at = x /\ u.op = proc[p].op /\ u.man = proc[p].man
        /\ u.live = proc[p].live /\ u.doomed = proc[p].doomed /\ u.tag = proc[p].tag
    BY <2>1 DEF ProcState, Stage
  <2>3. Changed(p) /\ proc'[p] = u
    BY <1>2, BecomeState
  <2> HIDE DEF u
  <2> QED
    BY <2>2, <2>3
<1>4. Sound(p, proc[p])'
  BY <1>1, <1>3 DEF Sound, Fits, OnTrack, InsertStages, Locked, Unchosen, LiveRowExists,
                    BlobComesFirst, DoomedAreUnused, tables
<1> QED
  BY <1>1, <1>3, <1>4, LocalStep DEF tables, TablesOK, IInv, TypeOK

LEMMA WriteBlobStep ==
    ASSUME IInv, NEW p \in Proc, WriteBlob(p) PROVE IInv'
<1>1. Sound(p, proc[p]) /\ proc[p].at = "blob" /\ UNCHANGED <<tables, cacheLock>>
  BY DEF IInv, WriteBlob, At
<1>2. LayerOf[proc[p].man] \in Layer
  BY <1>1, ImageAssumption DEF Sound, Fits, Unchosen
<1>3. blob' = blob \union {LayerOf[proc[p].man]} /\ Proceed(p, "row")
  BY DEF WriteBlob
<1>4. Sound(p, proc[p])' /\ Changed(p)
  BY <1>1, <1>3, ProceedState DEF Sound, Fits, OnTrack, InsertStages, Locked, Unchosen, LiveRowExists,
                    BlobComesFirst, DoomedAreUnused, tables, Stage
<1> QED
  BY <1>1, <1>2, <1>3, <1>4, LocalStep DEF tables, TablesOK, IInv, TypeOK

LEMMA ExtractStep ==
    ASSUME IInv, NEW p \in Proc, Extract(p) PROVE IInv'
<1>1. Sound(p, proc[p]) /\ proc[p].at = "extract" /\ UNCHANGED <<manifest, layer, tag, blob>>
  BY DEF IInv, Extract, At
<1>2. \/ proc[p].op = "install" /\ Proceed(p, "vendor") /\ Release(p)
      \/ proc[p].op # "install" /\ Proceed(p, "publish") /\ UNCHANGED cacheLock
  BY DEF Extract
<1>3. Sound(p, proc[p])' /\ Changed(p)
  BY <1>1, <1>2, ProceedState DEF Sound, Fits, OnTrack, InsertStages, Locked, Unchosen, LiveRowExists,
                    BlobComesFirst, DoomedAreUnused, tables, Stage, Release
<1>4. TablesOK'
  BY <1>1, <1>2 DEF TablesOK, IInv, TypeOK, Extract, TryExtract, Sound, LiveRowExists, Release
<1> QED
  BY <1>1, <1>2, <1>3, <1>4, LocalStep DEF Release

LEMMA RewriteStep ==
    ASSUME IInv, NEW p \in Proc, Rewrite(p) PROVE IInv'
<1>1. Sound(p, proc[p]) /\ proc[p].at = "rewrite" /\ UNCHANGED <<tables, cacheLock>>
  BY DEF IInv, Rewrite, At
<1>2. LayerOf[proc[p].man] \in Layer
  BY <1>1, ImageAssumption DEF Sound, Fits, Unchosen
<1>3. PICK x \in {"clear", "publish"} : Proceed(p, x)
  BY DEF Rewrite
<1>4. Sound(p, proc[p])' /\ Changed(p)
  BY <1>1, <1>3, ProceedState DEF Sound, Fits, OnTrack, InsertStages, Locked, Unchosen, LiveRowExists,
                    BlobComesFirst, DoomedAreUnused, tables, Stage
<1>5. blob \subseteq blob' /\ blob' \subseteq Layer
  BY <1>2 DEF Rewrite, IInv, TypeOK
<1> QED
  BY <1>1, <1>4, <1>5, LocalStep DEF tables, TablesOK, IInv, TypeOK

LEMMA ClearStep ==
    ASSUME IInv, NEW p \in Proc, Clear(p) PROVE IInv'
<1>1. /\ Sound(p, proc[p]) /\ proc[p].at = "clear" /\ Proceed(p, "store")
      /\ UNCHANGED <<manifest, layer, tag, blob, cacheLock>> /\ wit' \subseteq wit
  BY DEF IInv, Clear, At
<1>2. Sound(p, proc[p])' /\ Changed(p)
  BY <1>1, ProceedState DEF Sound, Fits, OnTrack, InsertStages, Locked, Unchosen, LiveRowExists,
                    BlobComesFirst, DoomedAreUnused, tables, Stage
<1> QED
  BY <1>1, <1>2, LocalStep DEF tables, TablesOK, IInv, TypeOK

LEMMA StoreWitStep ==
    ASSUME IInv, NEW p \in Proc, StoreWit(p) PROVE IInv'
<1>1. Sound(p, proc[p]) /\ proc[p].at = "store" /\ UNCHANGED <<manifest, layer, tag, blob>>
  BY DEF IInv, StoreWit, At
<1>2. wit' \subseteq manifest
  BY <1>1 DEF StoreWit, TryExtract, Sound, LiveRowExists, IInv, TypeOK
<1>3. CASE proc[p].op = "reindex"
  <2>1. End(p)
    BY <1>3 DEF StoreWit
  <2> QED
    BY <1>1, <1>2, <2>1, EndStep DEF End, Release, TablesOK, IInv, TypeOK
<1>4. CASE proc[p].op # "reindex"
  <2>1. Proceed(p, "publish") /\ UNCHANGED cacheLock
    BY <1>4 DEF StoreWit
  <2>2. Sound(p, proc[p])' /\ Changed(p)
    BY <1>1, <1>4, <2>1, ProceedState DEF Sound, Fits, OnTrack, InsertStages, Locked, Unchosen, LiveRowExists,
                    BlobComesFirst, DoomedAreUnused, tables, Stage
  <2> QED
    BY <1>1, <1>2, <2>1, <2>2, LocalStep DEF TablesOK, IInv, TypeOK
<1> QED
  BY <1>3, <1>4

LEMMA PublishStep ==
    ASSUME IInv, NEW p \in Proc, Publish(p) PROVE IInv'
<1>1. /\ Sound(p, proc[p]) /\ proc[p].at = "publish" /\ proc[p].man \in manifest
      /\ UNCHANGED <<manifest, layer, wit, blob>>
  BY DEF IInv, Publish, At
<1>2. tag' \in [Tag -> manifest \union {NoManifest}]
  BY <1>1 DEF Publish, IInv, TypeOK
<1>3. CASE End(p)
  BY <1>1, <1>2, <1>3, EndStep DEF End, Release, TablesOK, IInv, TypeOK
<1>4. CASE proc[p].op = "install" /\ UNCHANGED cacheLock
           /\ Proceed(p, IF proc[p].inserted THEN "lock" ELSE "vendor")
  <2>1. PICK x \in {"lock", "vendor"} : Proceed(p, x)
    BY <1>4
  <2>2. Sound(p, proc[p])' /\ Changed(p)
    BY <1>1, <1>4, <2>1, ProceedState DEF Sound, Fits, OnTrack, InsertStages, Locked, Unchosen,
       LiveRowExists, BlobComesFirst, DoomedAreUnused, Stage
  <2> QED
    BY <1>1, <1>2, <1>4, <2>2, LocalStep DEF TablesOK, IInv, TypeOK
<1>5. CASE /\ proc[p].op = "register" /\ Replaces(p) /\ Release(p)
           /\ Become(p, [proc[p] EXCEPT !.at = "resolve", !.man = proc[p].old, !.live = FALSE])
  <2> DEFINE u == [proc[p] EXCEPT !.at = "resolve", !.man = proc[p].old, !.live = FALSE]
  <2>1. proc[p] \in ProcState
    BY <1>1 DEF Sound
  <2>2. /\ u \in ProcState /\ u.at = "resolve" /\ u.op = "register" /\ u.man \in Manifest
        /\ u.live = FALSE /\ u.doomed = proc[p].doomed /\ u.tag = proc[p].tag
    BY <1>5, <2>1 DEF ProcState, Stage, Replaces
  <2>3. Changed(p) /\ proc'[p] = u
    BY <1>5, BecomeState
  <2> HIDE DEF u
  <2>4. Sound(p, proc[p])'
    BY <1>1, <1>5, <2>2, <2>3 DEF Sound, Fits, OnTrack, InsertStages, Locked, Unchosen,
       LiveRowExists, BlobComesFirst, DoomedAreUnused
  <2> QED
    BY <1>1, <1>2, <1>5, <2>3, <2>4, LocalStep DEF TablesOK, IInv, TypeOK, Release
<1> QED
  BY <1>3, <1>4, <1>5 DEF Publish, AfterPublish

LEMMA TryCacheStep ==
    ASSUME IInv, NEW p \in Proc, TryCache(p) PROVE IInv'
<1>1. Sound(p, proc[p]) /\ proc[p].at = "cached" /\ UNCHANGED <<tables, blob, cacheLock>>
  BY DEF IInv, TryCache, At
<1>2. proc[p] \in ProcState /\ proc[p].op = "install" /\ proc[p].tag \in Tag /\ proc[p].live = FALSE
  BY <1>1 DEF Sound, Fits, OnTrack, InsertStages, ProcState, LiveRowExists, Unchosen
<1>3. CASE Become(p, Idle)
  <2>1. Changed(p) /\ proc'[p] = Idle
    BY <1>3, BecomeState
  <2>2. Sound(p, Idle)'
    BY DEF Sound, ProcState, Stage, Idle, Fits, OnTrack, Locked, Unchosen, InsertStages,
           LiveRowExists, BlobComesFirst, DoomedAreUnused
  <2> QED
    BY <1>1, <2>1, <2>2, LocalStep DEF tables, TablesOK, IInv, TypeOK
<1>4. CASE \E x \in {"vendor", "lookup"}, m \in Manifest :
             Become(p, [proc[p] EXCEPT !.at = x, !.man = m])
  <2>1. PICK x \in {"vendor", "lookup"}, m \in Manifest :
               Become(p, [proc[p] EXCEPT !.at = x, !.man = m])
    BY <1>4
  <2> DEFINE u == [proc[p] EXCEPT !.at = x, !.man = m]
  <2>2. /\ u \in ProcState /\ u.at = x /\ u.op = "install" /\ u.man = m
        /\ u.live = proc[p].live /\ u.doomed = proc[p].doomed /\ u.tag = proc[p].tag
    BY <1>2 DEF ProcState, Stage
  <2>3. Changed(p) /\ proc'[p] = u
    BY <2>1, BecomeState
  <2> HIDE DEF u
  <2>4. Sound(p, proc[p])'
    BY <1>1, <2>2, <2>3 DEF Sound, Fits, OnTrack, InsertStages, Locked, Unchosen,
       LiveRowExists, BlobComesFirst, DoomedAreUnused, tables
  <2> QED
    BY <1>1, <2>3, <2>4, LocalStep DEF tables, TablesOK, IInv, TypeOK
<1>5. /\ \A m \in Image[proc[p].tag] : m \in Manifest
      /\ Hit(proc[p].tag) => tag[proc[p].tag] \in Manifest
  BY <1>2, ImageAssumption DEF Hit, IInv, TypeOK
<1>6. \/ Hit(proc[p].tag)
         /\ Become(p, [proc[p] EXCEPT !.at = "vendor", !.man = tag[proc[p].tag]])
      \/ \E m \in Image[proc[p].tag] : Become(p, [proc[p] EXCEPT !.at = "lookup", !.man = m])
      \/ Become(p, Idle)
  BY DEF TryCache
<1> QED
  BY <1>3, <1>4, <1>5, <1>6

LEMMA ResolveStep ==
    ASSUME IInv, NEW p \in Proc, Resolve(p) PROVE IInv'
<1>1. Sound(p, proc[p]) /\ proc[p].at = "resolve" /\ UNCHANGED <<tables, blob>>
  BY DEF IInv, Resolve, At
<1>2. CASE End(p)
  BY <1>1, <1>2, EndStep DEF End, Release, tables, TablesOK, IInv, TypeOK
<1>3. CASE \E m \in manifest :
             /\ Become(p, [proc[p] EXCEPT !.at = "collect", !.man = m, !.live = TRUE])
             /\ UNCHANGED cacheLock
  <2>1. PICK m \in manifest : Become(p, [proc[p] EXCEPT !.at = "collect", !.man = m, !.live = TRUE])
    BY <1>3
  <2> DEFINE u == [proc[p] EXCEPT !.at = "collect", !.man = m, !.live = TRUE]
  <2>2. /\ u \in ProcState /\ u.at = "collect" /\ u.op = proc[p].op /\ u.man = m
        /\ u.live = TRUE /\ u.doomed = proc[p].doomed /\ u.tag = proc[p].tag /\ m \in Manifest
    BY <1>1 DEF Sound, ProcState, Stage, IInv, TypeOK
  <2>3. Changed(p) /\ proc'[p] = u
    BY <2>1, BecomeState
  <2> HIDE DEF u
  <2>4. Sound(p, proc[p])'
    BY <1>1, <1>3, <2>2, <2>3 DEF Sound, Fits, OnTrack, InsertStages, Locked, Unchosen,
       LiveRowExists, BlobComesFirst, DoomedAreUnused, tables
  <2> QED
    BY <1>1, <1>3, <2>3, <2>4, LocalStep DEF tables, TablesOK, IInv, TypeOK
<1> QED
  BY <1>2, <1>3 DEF Resolve

LEMMA CollectStep ==
    ASSUME IInv, NEW p \in Proc, Collect(p) PROVE IInv'
<1>1. Sound(p, proc[p]) /\ proc[p].at = "collect" /\ UNCHANGED <<tables, blob, cacheLock>>
  BY DEF IInv, Collect, At
<1>2. proc[p].man \in Manifest /\ LayerOf[proc[p].man] \in Layer /\ proc[p] \in ProcState
  BY <1>1, ImageAssumption DEF Sound, Fits, Unchosen
<1>3. PICK D \in SUBSET Layer :
         /\ Become(p, [proc[p] EXCEPT !.at = "commit", !.doomed = D])
         /\ D # {} => proc[p].op = "delete" /\ proc[p].live
         /\ \A m \in layer : LayerOf[m] \in D => m = proc[p].man
  <2> DEFINE E == IF proc[p].op = "delete" /\ HasLayer(p)
                  THEN {LayerOf[proc[p].man]} \ Retained(p) ELSE {}
  <2>1. Become(p, [proc[p] EXCEPT !.at = "commit", !.doomed = E])
    BY DEF Collect
  <2>2. E \in SUBSET Layer /\ (E # {} => proc[p].op = "delete" /\ proc[p].live)
    BY <1>2 DEF HasLayer
  <2>3. \A m \in layer : LayerOf[m] \in E => m = proc[p].man
    BY DEF Retained
  <2> HIDE DEF E
  <2> QED
    BY <2>1, <2>2, <2>3
<1> DEFINE u == [proc[p] EXCEPT !.at = "commit", !.doomed = D]
<1>4. /\ u \in ProcState /\ u.at = "commit" /\ u.op = proc[p].op /\ u.man = proc[p].man
      /\ u.live = proc[p].live /\ u.doomed = D /\ u.tag = proc[p].tag
  BY <1>2 DEF ProcState, Stage
<1>5. Changed(p) /\ proc'[p] = u
  BY <1>3, BecomeState
<1> HIDE DEF u
<1>6. Sound(p, proc[p])'
  BY <1>1, <1>3, <1>4, <1>5 DEF Sound, Fits, OnTrack, InsertStages, Locked, Unchosen,
     LiveRowExists, BlobComesFirst, DoomedAreUnused, tables
<1> QED
  BY <1>1, <1>5, <1>6, LocalStep DEF tables, TablesOK, IInv, TypeOK

(***************************************************************************)
(* The steps that the lock is for.  Two processes never hold it at once.   *)
(***************************************************************************)

LEMMA LockExcludes ==
    ASSUME IInv, NEW p \in Proc, Locked(proc[p]), NEW q \in Proc \ {p}
    PROVE  ~Locked(proc[q])
BY DEF IInv, Sound, Fits

\* Only a deletion that is about to commit or reclaim has doomed blobs.
LEMMA DoomedIsLocked ==
    ASSUME NEW p \in Proc, Sound(p, proc[p]), proc[p].doomed # {}
    PROVE  proc[p].op = "delete" /\ proc[p].at \in {"commit", "reclaim"} /\ Locked(proc[p])
BY DEF Sound, DoomedAreUnused, Locked

\* No deletion is between collecting its digests and removing the blobs.
LEMMA InsertLayerRowStep ==
    ASSUME IInv, NEW p \in Proc, InsertLayerRow(p) PROVE IInv'
<1>1. /\ Sound(p, proc[p]) /\ proc[p].at = "row" /\ proc[p].live
      /\ UNCHANGED <<manifest, wit, tag, blob, cacheLock>>
      /\ layer' = layer \union {proc[p].man} /\ Proceed(p, "extract")
  BY DEF IInv, InsertLayerRow, At
<1>2. Locked(proc[p]) /\ LayerOf[proc[p].man] \in blob /\ proc[p].man \in manifest
  BY <1>1 DEF Sound, Fits, OnTrack, InsertStages, Locked, BlobComesFirst, LiveRowExists
<1>3. /\ proc' \in [Proc -> ProcState]
      /\ \A q \in Proc \ {p} : proc'[q] = proc[q]
  BY <1>1, ProceedState DEF Changed, Stage, IInv, TypeOK
<1>4. Sound(p, proc[p])'
  BY <1>1, ProceedState DEF Sound, Fits, OnTrack, InsertStages, Locked, Unchosen,
     LiveRowExists, BlobComesFirst, DoomedAreUnused, Stage
<1>5. ASSUME NEW q \in Proc \ {p} PROVE Sound(q, proc[q])'
  <2>1. Sound(q, proc[q]) /\ proc[q].doomed = {}
    BY <1>2, LockExcludes, DoomedIsLocked DEF IInv
  <2> QED
    BY <1>1, <1>3, <2>1 DEF Sound, Fits, LiveRowExists, BlobComesFirst, DoomedAreUnused
<1>6. TypeOK' /\ LayersAreCached'
  BY <1>1, <1>2, <1>3 DEF IInv, TypeOK, LayersAreCached
<1> QED
  BY <1>4, <1>5, <1>6 DEF IInv

\* What the deletion of a manifest leaves of the other operations.
LEMMA OrphanedState ==
    ASSUME IInv, NEW q \in Proc, NEW m \in Manifest,
           manifest' = manifest \ {m}, layer' = layer \ {m}, UNCHANGED <<blob, cacheLock>>,
           proc'[q] = Orphaned(m)[q]
    PROVE  Sound(q, proc[q])'
<1>1. Sound(q, proc[q]) /\ proc[q] \in ProcState
  BY DEF IInv, Sound
<1> DEFINE u == [proc[q] EXCEPT !.live = proc[q].live /\ proc[q].man # m]
<1>2. /\ u \in ProcState /\ u.at = proc[q].at /\ u.op = proc[q].op /\ u.tag = proc[q].tag
      /\ u.man = proc[q].man /\ u.doomed = proc[q].doomed
      /\ u.live = (proc[q].live /\ proc[q].man # m)
  BY <1>1 DEF ProcState
<1>3. proc'[q] = u
  BY DEF Orphaned
<1> HIDE DEF u
<1>4. /\ proc'[q] \in ProcState /\ proc'[q].at = proc[q].at /\ proc'[q].op = proc[q].op
      /\ proc'[q].tag = proc[q].tag /\ proc'[q].man = proc[q].man
      /\ proc'[q].doomed = proc[q].doomed
      /\ proc'[q].live = (proc[q].live /\ proc[q].man # m)
  BY <1>2, <1>3
<1>5. Fits(q, proc[q])' /\ LiveRowExists(proc[q])' /\ BlobComesFirst(proc[q])'
  BY <1>1, <1>4 DEF Sound, Fits, OnTrack, Locked, Unchosen, LiveRowExists, BlobComesFirst
<1>6. DoomedAreUnused(proc[q])'
  BY <1>1, <1>4 DEF Sound, DoomedAreUnused
<1> QED
  BY <1>4, <1>5, <1>6 DEF Sound

LEMMA CommitDeleteStep ==
    ASSUME IInv, NEW p \in Proc, CommitDelete(p) PROVE IInv'
<1>1. /\ Sound(p, proc[p]) /\ proc[p].at = "commit" /\ UNCHANGED <<blob, cacheLock>>
      /\ proc[p] \in ProcState /\ proc[p].man \in Manifest
  BY DEF IInv, CommitDelete, At, Sound, Fits, Unchosen
<1> DEFINE m == proc[p].man
           u == [proc[p] EXCEPT !.at = "reclaim", !.live = FALSE]
           after == IF proc[p].op = "delete" THEN u ELSE Idle
<1>2. /\ u \in ProcState /\ u.at = "reclaim" /\ u.op = proc[p].op /\ u.man = m
      /\ u.live = FALSE /\ u.doomed = proc[p].doomed /\ u.tag = proc[p].tag
  BY <1>1 DEF ProcState, Stage
<1>3. ASSUME layer' \subseteq layer, proc[p].live => m \notin layer', proc'[p] = after
      PROVE  Sound(p, proc[p])'
  <2>1. CASE proc[p].op = "delete"
    <3>1. proc'[p] = u
      BY <1>3, <2>1
    <3> HIDE DEF u, after
    <3>2. /\ proc'[p] \in ProcState /\ proc'[p].at = "reclaim" /\ proc'[p].op = "delete"
          /\ proc'[p].live = FALSE /\ proc'[p].doomed = proc[p].doomed
          /\ proc'[p].tag = proc[p].tag /\ proc'[p].man \in Manifest
      BY <1>1, <1>2, <2>1, <3>1
    <3>3. cacheLock = p /\ proc[p].tag \in Tag
      BY <1>1, <2>1 DEF Sound, Fits, Locked
    <3>4. \A l \in layer' : LayerOf[l] \notin proc[p].doomed
      BY <1>1, <1>3 DEF Sound, DoomedAreUnused
    <3> QED
      BY <1>1, <3>2, <3>3, <3>4 DEF Sound, Fits, OnTrack, Unchosen, LiveRowExists,
         BlobComesFirst, DoomedAreUnused
  <2>2. CASE proc[p].op # "delete"
    <3>1. proc'[p] = Idle
      BY <1>3, <2>2
    <3> QED
      BY <3>1 DEF Sound, ProcState, Stage, Idle, Fits, OnTrack, Locked, Unchosen,
         InsertStages, LiveRowExists, BlobComesFirst, DoomedAreUnused
  <2> QED
    BY <2>1, <2>2
<1>4. CASE ~proc[p].live
  <2>1. UNCHANGED tables /\ Become(p, after)
    BY <1>4 DEF CommitDelete
  <2> HIDE DEF after
  <2>2. Changed(p) /\ proc'[p] = after
    BY <2>1 DEF Become, Changed, IInv, TypeOK
  <2>3. Sound(p, proc[p])'
    BY <1>3, <1>4, <2>1, <2>2 DEF tables
  <2> QED
    BY <1>1, <2>1, <2>2, <2>3, LocalStep DEF tables, TablesOK, IInv, TypeOK
<1>5. CASE proc[p].live
  <2>1. /\ manifest' = manifest \ {m} /\ layer' = layer \ {m} /\ wit' = wit \ {m}
        /\ tag' = [t \in Tag |-> IF tag[t] = m THEN NoManifest ELSE tag[t]]
        /\ proc' = [Orphaned(m) EXCEPT ![p] = after]
    BY <1>5 DEF CommitDelete
  <2> HIDE DEF after, m
  <2>2. /\ proc'[p] = after /\ DOMAIN proc' = Proc
        /\ \A q \in Proc \ {p} : proc'[q] = Orphaned(m)[q]
        /\ proc' = [q \in Proc |-> proc'[q]]
    BY <2>1 DEF Orphaned
  <2>3. Sound(p, proc[p])'
    BY <1>3, <2>1, <2>2
  <2>4. \A q \in Proc \ {p} : Sound(q, proc[q])'
    <3>1. PICK d \in Manifest : d = m
      BY <1>1 DEF m
    <3> QED
      BY <1>1, <2>1, <2>2, <3>1, OrphanedState
  <2>5. proc' \in [Proc -> ProcState]
    BY <2>2, <2>3, <2>4 DEF Sound
  <2>6. TypeOK'
    BY <1>1, <2>1, <2>5 DEF IInv, TypeOK
  <2>7. LayersAreCached'
    BY <1>1, <2>1 DEF IInv, LayersAreCached
  <2> QED
    BY <2>3, <2>4, <2>6, <2>7 DEF IInv
<1> QED
  BY <1>4, <1>5

\* Nobody has written a blob whose layer row is still to come.
LEMMA ReclaimStep ==
    ASSUME IInv, NEW p \in Proc, Reclaim(p) PROVE IInv'
<1>1. /\ Sound(p, proc[p]) /\ proc[p].at = "reclaim" /\ End(p) /\ UNCHANGED tables
      /\ blob' = blob \ proc[p].doomed
  BY DEF IInv, Reclaim, At
<1>2. Locked(proc[p]) /\ \A m \in layer : LayerOf[m] \notin proc[p].doomed
  BY <1>1 DEF Sound, Fits, OnTrack, InsertStages, Locked, DoomedAreUnused
<1>3. /\ proc' \in [Proc -> ProcState] /\ proc'[p] = Idle
      /\ \A q \in Proc \ {p} : proc'[q] = proc[q]
      /\ cacheLock' = NoProc
  BY <1>1, <1>2, IdleIsSound DEF End, Become, Release, IInv, TypeOK, Sound, Fits
<1>4. Sound(p, proc[p])'
  BY <1>3 DEF Sound, ProcState, Stage, Idle, Fits, OnTrack, Locked, Unchosen, InsertStages,
     LiveRowExists, BlobComesFirst, DoomedAreUnused
<1>5. ASSUME NEW q \in Proc \ {p} PROVE Sound(q, proc[q])'
  <2>1. Sound(q, proc[q]) /\ ~Locked(proc[q])
    BY <1>2, LockExcludes DEF IInv
  <2>2. proc[q].at # "row"
    BY <2>1 DEF Sound, Fits, OnTrack, InsertStages, Locked
  <2> QED
    BY <1>1, <1>3, <2>1, <2>2
       DEF tables, Sound, Fits, LiveRowExists, BlobComesFirst, DoomedAreUnused
<1>6. TypeOK' /\ LayersAreCached'
  BY <1>1, <1>2, <1>3 DEF tables, IInv, TypeOK, LayersAreCached
<1> QED
  BY <1>4, <1>5, <1>6 DEF IInv

(***************************************************************************)
(* The theorems.                                                           *)
(***************************************************************************)

LEMMA FinalSteps ==
    ASSUME IInv, NEW p \in Proc, Vendor(p) \/ Abort(p) PROVE IInv'
BY EndStep DEF Vendor, Abort, End, Release, tables, TablesOK, IInv, TypeOK

LEMMA StepIInv ==
    ASSUME IInv, NEW p \in Proc, Step(p) PROVE IInv'
BY StartPullStep, StartInstallStep, StartRegisterStep, StartUnregisterStep, StartDeleteStep,
   StartReindexStep, LockStep, LookUpStep, UpsertStep, PlanStep, WriteBlobStep,
   InsertLayerRowStep, ExtractStep, RewriteStep, ClearStep, StoreWitStep, PublishStep,
   TryCacheStep, ResolveStep, CollectStep, CommitDeleteStep, ReclaimStep, FinalSteps
   DEF Step

LEMMA StutterIInv ==
    ASSUME IInv, UNCHANGED vars PROVE IInv'
BY DEF IInv, vars, tables, TypeOK, LayersAreCached, Sound, Fits, OnTrack, Locked, Unchosen,
       InsertStages, LiveRowExists, BlobComesFirst, DoomedAreUnused

\* The inductive invariant holds for any number of processes, packages and
\* shared layers, whichever operations they run and wherever they stop.
THEOREM Invariance == Spec => []IInv
<1>1. IInv /\ [Next]_vars => IInv'
  BY StepIInv, StutterIInv DEF Next
<1> QED
  BY InitIInv, <1>1, PTL DEF Spec

\* Every table keeps its type, and no row outlives the manifest it refers to.
THEOREM TypeCorrectness == Spec => []TypeOK
<1>1. IInv => TypeOK
  BY DEF IInv
<1> QED
  BY Invariance, <1>1, PTL

\* A layer row always has its blob: whatever delete reclaims is unused.
THEOREM LayersCached == Spec => []LayersAreCached
<1>1. IInv => LayersAreCached
  BY DEF IInv
<1> QED
  BY Invariance, <1>1, PTL

===============================================================================
