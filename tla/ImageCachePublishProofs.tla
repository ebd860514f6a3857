----------------------- MODULE ImageCachePublishProofs -----------------------
(* A registered local component can be installed, what is published is        *)
(* complete, and only its removal unregisters a local name: the proofs, on    *)
(* top of the inductive invariant of ImageCacheProofs.                        *)
EXTENDS ImageCacheProofs

(***************************************************************************)
(* The strengthening.  A tag of local.invalid is published by a            *)
(* registration only, which holds the cache lock; what else inserts rows   *)
(* meanwhile, an install, inserts manifests of remote repositories.        *)
(***************************************************************************)

\* Which names and manifests the operations that insert rows work on.
Own(s) ==
    /\ s.op = "register" =>
          s.tag \in LocalTag /\ s.repair = FALSE /\ s.at \notin {"rewrite", "clear", "store"}
    /\ s.op = "pull" => s.tag \notin LocalTag
    /\ s.op = "install" /\ s.at \notin {"cached", "vendor"} => s.tag \notin LocalTag
    /\ s.op \in {"pull", "install", "register"} /\ s.at \in {"lock"} \union InsertStages =>
          s.man \in Image[s.tag]

\* A registration that is about to publish has its layer, or has lost its row.
Complete(s) ==
    s.op = "register" /\ s.at \in {"extract", "publish"} /\ s.man \in manifest => s.man \in layer

LocalTagsComplete == \A t \in LocalTag : tag[t] # NoManifest => tag[t] \in layer

LInv == LocalTagsComplete /\ \A p \in Proc : Own(proc[p]) /\ Complete(proc[p])

LEMMA InitLInv == Init => LInv
BY ImageAssumption DEF Init, LInv, LocalTagsComplete, Own, Complete, Idle, InsertStages

(***************************************************************************)
(* Steps that write no manifest row, layer row or tag.                     *)
(***************************************************************************)

LEMMA QuietStep ==
    ASSUME LInv, NEW p \in Proc, Changed(p), proc \in [Proc -> ProcState],
           UNCHANGED <<manifest, layer, tag>>, Own(proc'[p]), Complete(proc'[p])
    PROVE  LInv'
<1>1. \A q \in Proc \ {p} : proc'[q] = proc[q]
  BY DEF Changed
<1>2. LocalTagsComplete'
  BY DEF LInv, LocalTagsComplete
<1>3. \A q \in Proc : Own(proc'[q]) /\ Complete(proc'[q])
  BY <1>1 DEF LInv
<1>4. \A q \in Proc : Own(proc[q])'
  BY <1>3 DEF Own
<1>5. \A q \in Proc : Complete(proc[q])'
  BY <1>3 DEF Complete
<1> QED
  BY <1>2, <1>4, <1>5 DEF LInv

\* A step of one process leaves the states of the others alone.
LEMMA OthersKeep ==
    ASSUME IInv, NEW p \in Proc, Changed(p)
    PROVE  \A q \in Proc \ {p} : proc'[q] = proc[q]
BY DEF Changed, IInv, TypeOK

LEMMA QuietEnd ==
    ASSUME IInv, LInv, NEW p \in Proc, Become(p, Idle), UNCHANGED <<manifest, layer, tag>>
    PROVE  LInv'
<1>1. Changed(p) /\ proc'[p] = Idle
  BY BecomeState DEF Idle
<1>2. Own(Idle) /\ Complete(Idle)
  BY DEF Own, Complete, Idle
<1> QED
  BY <1>1, <1>2, QuietStep DEF IInv, TypeOK

\* An operation begins in a state that suits its name.
LEMMA QuietBegin ==
    ASSUME IInv, LInv, NEW p \in Proc, NEW s, Begin(p, s), Own(s), s.at \notin {"extract", "publish"},
           UNCHANGED <<tables, blob, cacheLock>>
    PROVE  LInv'
<1>1. Changed(p) /\ proc'[p] = s
  BY BecomeState DEF Begin
<1>2. Complete(s)
  BY DEF Complete
<1> QED
  BY <1>1, <1>2, QuietStep DEF IInv, TypeOK, tables

LEMMA StartsLocal ==
    ASSUME IInv, LInv, NEW p \in Proc,
           \/ StartPull(p) \/ StartInstall(p) \/ StartRegister(p)
           \/ StartUnregister(p) \/ StartDelete(p) \/ StartReindex(p)
    PROVE  LInv'
<1> USE DEF Idle, Own, InsertStages
<1>1. CASE StartPull(p)
  <2>1. PICK t \in Tag \ LocalTag, r \in BOOLEAN, m \in Manifest :
           /\ m \in Image[t]
           /\ Begin(p, [Idle EXCEPT !.op = "pull", !.at = "lock", !.tag = t, !.man = m, !.repair = r])
           /\ UNCHANGED <<tables, blob, cacheLock>>
    BY <1>1, ImageAssumption DEF StartPull
  <2> DEFINE s == [Idle EXCEPT !.op = "pull", !.at = "lock", !.tag = t, !.man = m, !.repair = r]
  <2>2. Own(s) /\ s.at = "lock"
    BY <2>1
  <2> HIDE DEF s
  <2> QED
    BY <2>1, <2>2, QuietBegin DEF s
<1>2. CASE StartInstall(p)
  <2>1. PICK t \in Tag :
           /\ Begin(p, [Idle EXCEPT !.op = "install", !.at = "cached", !.tag = t])
           /\ UNCHANGED <<tables, blob, cacheLock>>
    BY <1>2 DEF StartInstall
  <2> DEFINE s == [Idle EXCEPT !.op = "install", !.at = "cached", !.tag = t]
  <2>2. Own(s) /\ s.at = "cached"
    BY <2>1
  <2> HIDE DEF s
  <2> QED
    BY <2>1, <2>2, QuietBegin DEF s
<1>3. CASE StartRegister(p)
  <2>1. PICK t \in LocalTag, m \in Manifest :
           /\ m \in Image[t]
           /\ Begin(p, [Idle EXCEPT !.op = "register", !.at = "lock", !.tag = t, !.man = m,
                                    !.old = tag[t]])
           /\ UNCHANGED <<tables, blob, cacheLock>>
    BY <1>3, ImageAssumption DEF StartRegister
  <2> DEFINE s == [Idle EXCEPT !.op = "register", !.at = "lock", !.tag = t, !.man = m,
                               !.old = tag[t]]
  <2>2. Own(s) /\ s.at = "lock"
    BY <2>1
  <2> HIDE DEF s
  <2> QED
    BY <2>1, <2>2, QuietBegin DEF s
<1>4. CASE StartUnregister(p)
  <2>1. PICK t \in LocalTag :
           /\ Begin(p, [Idle EXCEPT !.op = "unregister", !.at = "resolve", !.tag = t])
           /\ UNCHANGED <<tables, blob, cacheLock>>
    BY <1>4 DEF StartUnregister
  <2> DEFINE s == [Idle EXCEPT !.op = "unregister", !.at = "resolve", !.tag = t]
  <2>2. Own(s) /\ s.at = "resolve"
    BY <2>1
  <2> HIDE DEF s
  <2> QED
    BY <2>1, <2>2, QuietBegin DEF s
<1>5. CASE StartDelete(p)
  <2>1. PICK t \in Tag \ LocalTag :
           /\ Begin(p, [Idle EXCEPT !.op = "delete", !.at = "lock", !.tag = t])
           /\ UNCHANGED <<tables, blob, cacheLock>>
    BY <1>5 DEF StartDelete
  <2> DEFINE s == [Idle EXCEPT !.op = "delete", !.at = "lock", !.tag = t]
  <2>2. Own(s) /\ s.at = "lock"
    BY <2>1
  <2> HIDE DEF s
  <2> QED
    BY <2>1, <2>2, QuietBegin DEF s
<1>6. CASE StartReindex(p)
  <2>1. PICK t \in Tag \ LocalTag :
           /\ Begin(p, [Idle EXCEPT !.op = "reindex", !.at = "clear", !.tag = t, !.man = tag[t],
                                   !.live = TRUE])
           /\ UNCHANGED <<tables, blob, cacheLock>>
    BY <1>6 DEF StartReindex
  <2> DEFINE s == [Idle EXCEPT !.op = "reindex", !.at = "clear", !.tag = t, !.man = tag[t],
                               !.live = TRUE]
  <2>2. Own(s) /\ s.at = "clear"
    BY <2>1
  <2> HIDE DEF s
  <2> QED
    BY <2>1, <2>2, QuietBegin DEF s
<1> QED
  BY <1>1, <1>2, <1>3, <1>4, <1>5, <1>6

\* A state that differs in the stage and in what Own says nothing of.
LEMMA KeptOwn ==
    ASSUME NEW s \in ProcState, NEW u \in ProcState, Own(s), OnTrack(s), OnTrack(u),
           u.op = s.op, u.tag = s.tag, u.man = s.man, u.repair = s.repair,
           s.at \notin {"cached", "resolve", "collect", "commit", "vendor"},
           u.op = "register" => u.at \notin {"rewrite", "clear", "store"}
    PROVE  Own(u)
BY DEF Own, OnTrack, InsertStages

LEMMA ProcessState ==
    ASSUME IInv, NEW p \in Proc PROVE proc[p] \in ProcState
BY DEF IInv, TypeOK

LEMMA KeepsLocal ==
    ASSUME IInv, IInv', LInv, NEW p \in Proc, NEW u \in ProcState, Become(p, u),
           UNCHANGED <<manifest, layer, tag>>,
           u.op = proc[p].op, u.tag = proc[p].tag, u.man = proc[p].man,
           u.repair = proc[p].repair,
           proc[p].at \notin {"cached", "resolve", "collect", "commit", "vendor"},
           u.op = "register" => u.at \notin {"rewrite", "clear", "store"},
           Complete(u)
    PROVE  LInv'
<1>1. Changed(p) /\ proc'[p] = u
  BY BecomeState
<1>2. OnTrack(proc[p]) /\ proc[p] \in ProcState /\ OnTrack(u)
  <2>1. Sound(p, proc[p]) /\ Sound(p, proc[p])'
    BY DEF IInv
  <2> QED
    BY <1>1, <2>1 DEF Sound, Fits, OnTrack
<1>3. Own(u)
  BY <1>2, KeptOwn DEF LInv
<1> QED
  BY <1>1, <1>3, QuietStep DEF IInv, TypeOK

LEMMA ProceedsLocal ==
    ASSUME IInv, IInv', LInv, NEW p \in Proc, NEW x \in Stage, Proceed(p, x),
           UNCHANGED <<manifest, layer, tag>>,
           proc[p].at \notin {"cached", "resolve", "collect", "commit", "vendor"},
           proc[p].op = "register" => x \notin {"rewrite", "clear", "store"},
           proc[p].op = "register" /\ x = "publish" => proc[p].at = "extract",
           x # "extract"
    PROVE  LInv'
<1> DEFINE u == [proc[p] EXCEPT !.at = x]
<1>1. proc[p] \in ProcState
  BY DEF IInv, TypeOK
<1>2. /\ u \in ProcState /\ u.at = x /\ u.op = proc[p].op /\ u.tag = proc[p].tag
      /\ u.man = proc[p].man /\ u.repair = proc[p].repair
  BY <1>1 DEF ProcState
<1>3. Become(p, u)
  BY DEF Proceed
<1> HIDE DEF u
<1>4. Complete(u)
  BY <1>2 DEF LInv, Complete
<1> QED
  BY <1>2, <1>3, <1>4, KeepsLocal

\* Only a pull rewrites what is stored.
LEMMA RegisterNeverRepairs ==
    ASSUME LInv, NEW p \in Proc, proc[p].at \in {"rewrite", "clear", "store"}
    PROVE  proc[p].op # "register"
BY DEF LInv, Own

LEMMA MovesLocal ==
    ASSUME IInv, IInv', LInv, NEW p \in Proc,
           Lock(p) \/ WriteBlob(p) \/ Extract(p) \/ Rewrite(p) \/ Clear(p)
    PROVE  LInv'
<1>1. CASE Lock(p)
  <2>1. PICK x \in {"blob", "resolve", "lookup"} : Proceed(p, x)
    BY <1>1 DEF Lock
  <2> QED
    BY <1>1, <2>1, ProceedsLocal DEF Lock, At, Stage, tables
<1>2. CASE WriteBlob(p)
  BY <1>2, ProceedsLocal DEF WriteBlob, At, Stage, tables
<1>3. CASE Extract(p)
  <2>1. PICK x \in {"vendor", "publish"} : Proceed(p, x)
    BY <1>3 DEF Extract
  <2> QED
    BY <1>3, <2>1, ProceedsLocal DEF Extract, At, Stage
<1>4. CASE Rewrite(p)
  <2>1. PICK x \in {"clear", "publish"} : Proceed(p, x)
    BY <1>4 DEF Rewrite
  <2> QED
    BY <1>4, <2>1, ProceedsLocal, RegisterNeverRepairs DEF Rewrite, At, Stage, tables
<1>5. CASE Clear(p)
  BY <1>5, ProceedsLocal, RegisterNeverRepairs DEF Clear, At, Stage
<1> QED
  BY <1>1, <1>2, <1>3, <1>4, <1>5

LEMMA LookUpLocal ==
    ASSUME IInv, IInv', LInv, NEW p \in Proc, LookUp(p) PROVE LInv'
<1>1. PICK b \in BOOLEAN : Become(p, [proc[p] EXCEPT !.at = "upsert", !.inserted = b])
  BY DEF LookUp
<1> DEFINE u == [proc[p] EXCEPT !.at = "upsert", !.inserted = b]
<1>2. /\ u \in ProcState /\ u.at = "upsert" /\ u.op = proc[p].op /\ u.tag = proc[p].tag
      /\ u.man = proc[p].man /\ u.repair = proc[p].repair
  BY ProcessState DEF ProcState, Stage
<1>3. Become(p, u)
  BY <1>1
<1> HIDE DEF u
<1> QED
  BY <1>2, <1>3, KeepsLocal DEF LookUp, At, tables, Complete

\* A registration that skips its layer has found the row of its manifest.
LEMMA PlanLocal ==
    ASSUME IInv, IInv', LInv, NEW p \in Proc, Plan(p) PROVE LInv'
<1>1. PICK b \in BOOLEAN, x \in {"blob", "rewrite", "publish"} :
         /\ Become(p, [proc[p] EXCEPT !.stored = b, !.at = x])
         /\ x # "blob" => HasLayer(p)
         /\ ~proc[p].repair => x # "rewrite"
  BY DEF Plan, NextIfStored, NeedsLayers
<1> DEFINE u == [proc[p] EXCEPT !.stored = b, !.at = x]
<1>2. /\ u \in ProcState /\ u.at = x /\ u.op = proc[p].op /\ u.tag = proc[p].tag
      /\ u.man = proc[p].man /\ u.repair = proc[p].repair
  BY ProcessState DEF ProcState, Stage
<1>3. Become(p, u)
  BY <1>1
<1> HIDE DEF u
<1>4. Complete(u)
  BY <1>1, <1>2 DEF Complete, HasLayer
<1>5. u.op = "register" => u.at \notin {"rewrite", "clear", "store"}
  BY <1>1, <1>2 DEF LInv, Own
<1> QED
  BY <1>2, <1>3, <1>4, <1>5, KeepsLocal DEF Plan, At, tables

LEMMA StoreWitLocal ==
    ASSUME IInv, IInv', LInv, NEW p \in Proc, StoreWit(p) PROVE LInv'
<1>1. CASE End(p)
  BY <1>1, QuietEnd DEF StoreWit, End
<1>2. CASE Proceed(p, "publish")
  BY <1>2, ProceedsLocal, RegisterNeverRepairs DEF StoreWit, At, Stage
<1> QED
  BY <1>1, <1>2 DEF StoreWit

\* An install of a local name is served from the cache or not at all.
LEMMA TryCacheLocal ==
    ASSUME IInv, LInv, NEW p \in Proc, TryCache(p) PROVE LInv'
<1>1. CASE Become(p, Idle)
  BY <1>1, QuietEnd DEF TryCache, tables
<1>2. CASE \E x \in {"vendor", "lookup"}, m \in Manifest :
             /\ Become(p, [proc[p] EXCEPT !.at = x, !.man = m])
             /\ x = "lookup" => m \in Image[proc[p].tag] /\ proc[p].tag \notin LocalTag
  <2>1. PICK x \in {"vendor", "lookup"}, m \in Manifest :
           /\ Become(p, [proc[p] EXCEPT !.at = x, !.man = m])
           /\ x = "lookup" => m \in Image[proc[p].tag] /\ proc[p].tag \notin LocalTag
    BY <1>2
  <2> DEFINE u == [proc[p] EXCEPT !.at = x, !.man = m]
  <2>2. proc[p] \in ProcState /\ proc[p].op = "install" /\ proc[p].at = "cached"
    BY DEF IInv, Sound, Fits, OnTrack, InsertStages, TryCache, At
  <2>3. u.at = x /\ u.op = "install" /\ u.tag = proc[p].tag /\ u.man = m
    BY <2>2 DEF ProcState
  <2>4. Changed(p) /\ proc'[p] = u
    BY <2>1, BecomeState
  <2> HIDE DEF u
  <2>5. Own(u) /\ Complete(u)
    BY <2>1, <2>3 DEF Own, Complete, InsertStages
  <2> QED
    BY <2>4, <2>5, QuietStep DEF IInv, TypeOK, TryCache, tables
<1>3. PICK t \in Tag : t = proc[p].tag
  BY DEF IInv, Sound, Fits, OnTrack, TryCache, At
<1>4. Image[t] \subseteq Manifest /\ (Hit(t) => tag[t] \in Manifest)
  BY ImageAssumption DEF IInv, TypeOK, Hit
<1>5. CASE \/ Hit(t) /\ Become(p, [proc[p] EXCEPT !.at = "vendor", !.man = tag[t]])
           \/ t \notin LocalTag /\ \E m \in Image[t] : Become(p, [proc[p] EXCEPT !.at = "lookup", !.man = m])
  BY <1>2, <1>3, <1>4, <1>5
<1> QED
  BY <1>1, <1>3, <1>5 DEF TryCache

\* A deletion, also that of what a registration replaces, publishes nothing.
LEMMA DeletingLocal ==
    ASSUME IInv, LInv, NEW p \in Proc, Resolve(p) \/ Collect(p) PROVE LInv'
<1>1. CASE End(p)
  BY <1>1, QuietEnd DEF Resolve, Collect, End, tables
<1>2. CASE \E u \in ProcState :
             /\ Become(p, u) /\ u.at \in {"collect", "commit"}
             /\ u.op = proc[p].op /\ u.tag = proc[p].tag /\ u.repair = proc[p].repair
  <2>1. PICK u \in ProcState :
             /\ Become(p, u) /\ u.at \in {"collect", "commit"}
             /\ u.op = proc[p].op /\ u.tag = proc[p].tag /\ u.repair = proc[p].repair
    BY <1>2
  <2>2. proc[p].op \in {"register", "unregister", "delete"} /\ Own(proc[p])
    BY DEF IInv, LInv, Sound, Fits, OnTrack, InsertStages, Resolve, Collect, At
  <2>3. Own(u) /\ Complete(u)
    BY <2>1, <2>2 DEF Own, Complete, InsertStages
  <2>4. Changed(p) /\ proc'[p] = u
    BY <2>1, BecomeState
  <2> QED
    BY <2>3, <2>4, QuietStep DEF IInv, TypeOK, Resolve, Collect, tables
<1>3. CASE Resolve(p) /\ ~End(p)
  <2> DEFINE u == [proc[p] EXCEPT !.at = "collect", !.man = Target(p), !.live = TRUE]
  <2>1. Become(p, u) /\ Target(p) \in Manifest
    BY <1>3 DEF Resolve, IInv, TypeOK
  <2>2. /\ u \in ProcState /\ u.at = "collect" /\ u.op = proc[p].op
        /\ u.tag = proc[p].tag /\ u.repair = proc[p].repair
    BY <2>1, ProcessState DEF ProcState, Stage
  <2> HIDE DEF u
  <2> QED
    BY <1>2, <2>1, <2>2
<1>4. CASE Collect(p)
  <2> DEFINE D == IF proc[p].op = "delete" /\ HasLayer(p)
                  THEN {LayerOf[proc[p].man]} \ Retained(p) ELSE {}
             u == [proc[p] EXCEPT !.at = "commit", !.doomed = D]
  <2>1. Become(p, u)
    BY <1>4 DEF Collect
  <2>2. D \in SUBSET Layer
    BY <1>4, ImageAssumption DEF Collect, At, HasLayer, IInv, TypeOK
  <2> HIDE DEF D
  <2>3. /\ u \in ProcState /\ u.at = "commit" /\ u.op = proc[p].op
        /\ u.tag = proc[p].tag /\ u.repair = proc[p].repair
    BY <2>2, ProcessState DEF ProcState, Stage
  <2> HIDE DEF u
  <2> QED
    BY <1>2, <2>1, <2>3
<1> QED
  BY <1>1, <1>3, <1>4

(***************************************************************************)
(* Steps that write manifest rows, layer rows and tags.                    *)
(***************************************************************************)

\* Repositories are local or remote, and registrations exclude each other.
LEMMA InsertersDiffer ==
    ASSUME IInv, LInv, NEW p \in Proc, proc[p].at = "upsert",
           NEW q \in Proc \ {p}, proc[q].op = "register", proc[q].at \in {"extract", "publish"}
    PROVE  proc[p].man # proc[q].man
<1>1. Locked(proc[q]) /\ Own(proc[p]) /\ Own(proc[q])
  BY DEF Locked, InsertStages, LInv
<1>2. Sound(p, proc[p]) /\ Sound(q, proc[q])
  BY DEF IInv
<1>3. CASE proc[p].op = "install"
  <2>1. proc[p].tag \in Tag \ LocalTag /\ proc[p].man \in Image[proc[p].tag]
    BY <1>1, <1>2, <1>3 DEF Own, Sound, Fits, InsertStages
  <2>2. proc[q].tag \in LocalTag /\ proc[q].man \in Image[proc[q].tag]
    BY <1>1 DEF Own, InsertStages
  <2> QED
    BY <2>1, <2>2, RepositoryAssumption
<1>4. CASE proc[p].op # "install"
  <2>1. Locked(proc[p])
    BY <1>2, <1>4 DEF Sound, Fits, OnTrack, InsertStages, Locked
  <2> QED
    BY <1>1, <2>1, LockExcludes
<1> QED
  BY <1>3, <1>4

LEMMA UpsertLocal ==
    ASSUME IInv, IInv', LInv, NEW p \in Proc, Upsert(p) PROVE LInv'
<1> DEFINE x == IF proc[p].op = "install" THEN "publish" ELSE "plan"
           u == [proc[p] EXCEPT !.live = TRUE, !.at = x]
<1>1. /\ u \in ProcState /\ u.at = x /\ u.op = proc[p].op /\ u.tag = proc[p].tag
      /\ u.man = proc[p].man /\ u.repair = proc[p].repair
  BY ProcessState DEF ProcState, Stage
<1>2. Changed(p) /\ proc'[p] = u
  <2>1. Become(p, u)
    BY DEF Upsert
  <2> QED
    BY <2>1, BecomeState
<1> HIDE DEF u
<1>3. /\ proc[p].at = "upsert" /\ manifest' = manifest \union {proc[p].man}
      /\ UNCHANGED <<layer, tag>>
  BY DEF Upsert, At
<1>4. OnTrack(proc[p]) /\ OnTrack(u)
  BY <1>2 DEF IInv, Sound, Fits, OnTrack
<1>5. Own(u)
  BY <1>1, <1>3, <1>4, ProcessState, KeptOwn DEF LInv
<1>6. \A q \in Proc : Own(proc'[q])
  BY <1>2, <1>5, OthersKeep DEF LInv
<1>7. ASSUME NEW q \in Proc PROVE Complete(proc[q])'
  <2>1. CASE q = p
    BY <1>1, <1>2, <2>1 DEF Complete
  <2>2. CASE q # p
    <3>1. proc'[q] = proc[q] /\ Complete(proc[q])
      BY <1>2, <2>2, OthersKeep DEF LInv
    <3> QED
      BY <1>3, <2>2, <3>1, InsertersDiffer DEF Complete
  <2> QED
    BY <2>1, <2>2
<1>8. LocalTagsComplete'
  BY <1>3 DEF LInv, LocalTagsComplete
<1>9. \A q \in Proc : Own(proc[q])'
  BY <1>6 DEF Own
<1> QED
  BY <1>7, <1>8, <1>9 DEF LInv

LEMMA InsertLayerRowLocal ==
    ASSUME IInv, IInv', LInv, NEW p \in Proc, InsertLayerRow(p) PROVE LInv'
<1>1. /\ proc[p].at = "row" /\ layer' = layer \union {proc[p].man}
      /\ UNCHANGED <<manifest, tag>> /\ Proceed(p, "extract")
  BY DEF InsertLayerRow, At
<1> DEFINE u == [proc[p] EXCEPT !.at = "extract"]
<1>2. /\ u \in ProcState /\ u.at = "extract" /\ u.op = proc[p].op /\ u.tag = proc[p].tag
      /\ u.man = proc[p].man /\ u.repair = proc[p].repair
  BY ProcessState DEF ProcState, Stage
<1>3. Changed(p) /\ proc'[p] = u
  BY <1>1, BecomeState DEF Proceed
<1> HIDE DEF u
<1>4. OnTrack(proc[p]) /\ OnTrack(u)
  BY <1>3 DEF IInv, Sound, Fits, OnTrack
<1>5. Own(u)
  BY <1>1, <1>2, <1>4, ProcessState, KeptOwn DEF LInv
<1>6. \A q \in Proc : Own(proc[q])'
  <2>1. \A q \in Proc : Own(proc'[q])
    BY <1>3, <1>5, OthersKeep DEF LInv
  <2> QED
    BY <2>1 DEF Own
<1>7. ASSUME NEW q \in Proc PROVE Complete(proc[q])'
  <2>1. CASE q = p
    <3>1. proc'[q] = u
      BY <1>3, <2>1
    <3>2. u.op = "register" => u.man \in layer'
      BY <1>1, <1>2
    <3> QED
      BY <3>1, <3>2 DEF Complete
  <2>2. CASE q # p
    <3>1. proc'[q] = proc[q] /\ Complete(proc[q])
      BY <1>3, <2>2, OthersKeep DEF LInv
    <3> QED
      BY <1>1, <3>1 DEF Complete
  <2> QED
    BY <2>1, <2>2
<1>8. LocalTagsComplete'
  BY <1>1 DEF LInv, LocalTagsComplete
<1> QED
  BY <1>6, <1>7, <1>8 DEF LInv

LEMMA PublishLocal ==
    ASSUME IInv, IInv', LInv, NEW p \in Proc, Publish(p) PROVE LInv'
<1>1. /\ proc[p].at = "publish" /\ proc[p].man \in manifest
      /\ tag' = [tag EXCEPT ![proc[p].tag] = proc[p].man]
      /\ UNCHANGED <<manifest, layer>>
  BY DEF Publish, At
<1>2. Own(proc[p]) /\ Complete(proc[p]) /\ OnTrack(proc[p]) /\ proc[p] \in ProcState
  BY ProcessState DEF LInv, IInv, Sound, Fits
<1>3. LocalTagsComplete'
  <2>1. proc[p].tag \in LocalTag => proc[p].man \in layer
    BY <1>1, <1>2 DEF Own, Complete, OnTrack
  <2> QED
    BY <1>1, <2>1, ImageAssumption DEF LInv, LocalTagsComplete, IInv, TypeOK
<1>4. CASE \E u : Become(p, u) /\ Own(u) /\ u.at \notin {"extract", "publish"}
  <2>1. PICK u : Become(p, u) /\ Own(u) /\ u.at \notin {"extract", "publish"}
    BY <1>4
  <2>2. Changed(p) /\ proc'[p] = u
    BY <2>1, BecomeState
  <2>3. \A q \in Proc : Own(proc[q])'
    <3>1. \A q \in Proc : Own(proc'[q])
      BY <2>1, <2>2, OthersKeep DEF LInv
    <3> QED
      BY <3>1 DEF Own
  <2>4. \A q \in Proc : Complete(proc[q])'
    <3>1. \A q \in Proc : Complete(proc'[q])
      <4>1. Complete(u)
        BY <2>1 DEF Complete
      <4> QED
        BY <2>2, <4>1, OthersKeep DEF LInv
    <3> QED
      BY <1>1, <3>1 DEF Complete
  <2> QED
    BY <1>3, <2>3, <2>4 DEF LInv
<1>5. CASE End(p)
  <2>1. Own(Idle) /\ Idle.at \notin {"extract", "publish"}
    BY DEF Own, Idle
  <2> QED
    BY <1>4, <1>5, <2>1 DEF End
<1>6. CASE proc[p].op = "install"
           /\ Proceed(p, IF proc[p].inserted THEN "lock" ELSE "vendor")
  <2>1. PICK x \in {"lock", "vendor"} : Proceed(p, x)
    BY <1>6
  <2> DEFINE u == [proc[p] EXCEPT !.at = x]
  <2>2. u.at = x /\ u.op = "install" /\ u.tag = proc[p].tag /\ u.man = proc[p].man
    BY <1>2, <1>6 DEF ProcState
  <2>3. Become(p, u)
    BY <2>1 DEF Proceed
  <2> HIDE DEF u
  <2>4. Own(u)
    BY <1>1, <1>2, <1>6, <2>2 DEF Own, InsertStages
  <2> QED
    BY <1>4, <2>2, <2>3, <2>4
<1>7. CASE /\ proc[p].op = "register"
           /\ Become(p, [proc[p] EXCEPT !.at = "resolve", !.man = proc[p].old, !.live = FALSE])
  <2> DEFINE u == [proc[p] EXCEPT !.at = "resolve", !.man = proc[p].old, !.live = FALSE]
  <2>1. u.at = "resolve" /\ u.op = "register" /\ u.tag = proc[p].tag /\ u.repair = proc[p].repair
    BY <1>2, <1>7 DEF ProcState
  <2>2. Become(p, u)
    BY <1>7
  <2> HIDE DEF u
  <2>3. Own(u)
    BY <1>2, <1>7, <2>1 DEF Own, InsertStages
  <2> QED
    BY <1>4, <2>1, <2>2, <2>3
<1> QED
  BY <1>5, <1>6, <1>7 DEF Publish, AfterPublish

\* A deletion takes the tags of a manifest away with its layer row.
LEMMA CommitDeleteLocal ==
    ASSUME IInv, IInv', LInv, NEW p \in Proc, CommitDelete(p) PROVE LInv'
<1> DEFINE m == proc[p].man
           u == [proc[p] EXCEPT !.at = "reclaim", !.live = FALSE]
           after == IF proc[p].op = "delete" THEN u ELSE Idle
<1>1. Own(after) /\ Complete(after)
  <2>1. CASE proc[p].op = "delete"
    <3>1. u.op = "delete" /\ u.at = "reclaim"
      BY <2>1, ProcessState DEF ProcState
    <3>2. after = u
      BY <2>1
    <3> HIDE DEF u, after
    <3> QED
      BY <3>1, <3>2 DEF Own, Complete
  <2>2. CASE proc[p].op # "delete"
    <3>1. after = Idle
      BY <2>2
    <3> HIDE DEF after
    <3> QED
      BY <3>1 DEF Own, Complete, Idle
  <2> QED
    BY <2>1, <2>2
<1>2. CASE ~proc[p].live
  <2>1. UNCHANGED tables /\ Become(p, after)
    BY <1>2 DEF CommitDelete
  <2> HIDE DEF after
  <2>2. Changed(p) /\ proc'[p] = after
    BY <2>1, BecomeState
  <2> QED
    BY <1>1, <2>1, <2>2, QuietStep DEF IInv, TypeOK, tables
<1>3. CASE proc[p].live
  <2>1. /\ manifest' = manifest \ {m} /\ layer' = layer \ {m}
        /\ tag' = [t \in Tag |-> IF tag[t] = m THEN NoManifest ELSE tag[t]]
        /\ proc' = [Orphaned(m) EXCEPT ![p] = after]
    BY <1>3 DEF CommitDelete
  <2> HIDE DEF after, m
  <2>2. proc'[p] = after /\ \A q \in Proc \ {p} : proc'[q] = Orphaned(m)[q]
    BY <2>1 DEF Orphaned
  <2>3. ASSUME NEW q \in Proc \ {p}
        PROVE  /\ proc'[q].op = proc[q].op /\ proc'[q].at = proc[q].at
               /\ proc'[q].tag = proc[q].tag /\ proc'[q].man = proc[q].man
               /\ proc'[q].repair = proc[q].repair
    <3> DEFINE v == [proc[q] EXCEPT !.live = proc[q].live /\ proc[q].man # m]
    <3>1. /\ v.op = proc[q].op /\ v.at = proc[q].at /\ v.tag = proc[q].tag
          /\ v.man = proc[q].man /\ v.repair = proc[q].repair
      BY ProcessState DEF ProcState
    <3>2. proc'[q] = v
      BY <2>2 DEF Orphaned
    <3> HIDE DEF v
    <3> QED
      BY <3>1, <3>2
  <2>4. ASSUME NEW q \in Proc PROVE Own(proc[q])'
    <3>1. CASE q = p
      BY <1>1, <2>2, <3>1 DEF Own
    <3>2. CASE q # p
      BY <2>3, <3>2 DEF LInv, Own
    <3> QED
      BY <3>1, <3>2
  <2>5. ASSUME NEW q \in Proc PROVE Complete(proc[q])'
    <3>1. CASE q = p
      <4>1. after.op # "register"
        BY ProcessState DEF after, Idle, ProcState
      <4> QED
        BY <2>2, <3>1, <4>1 DEF Complete
    <3>2. CASE q # p
      BY <2>1, <2>3, <3>2 DEF LInv, Complete
    <3> QED
      BY <3>1, <3>2
  <2>6. LocalTagsComplete'
    BY <2>1, ImageAssumption DEF LInv, LocalTagsComplete
  <2> QED
    BY <2>4, <2>5, <2>6 DEF LInv
<1> QED
  BY <1>2, <1>3

(***************************************************************************)
(* The theorem.                                                            *)
(***************************************************************************)

LEMMA EndsLocal ==
    ASSUME IInv, LInv, NEW p \in Proc, Vendor(p) \/ Reclaim(p) \/ Abort(p) PROVE LInv'
BY QuietEnd DEF Vendor, Reclaim, Abort, End, tables

LEMMA StepLInv ==
    ASSUME IInv, IInv', LInv, NEW p \in Proc, Step(p) PROVE LInv'
BY StartsLocal, MovesLocal, LookUpLocal, PlanLocal, StoreWitLocal, TryCacheLocal, DeletingLocal,
   UpsertLocal, InsertLayerRowLocal, PublishLocal, CommitDeleteLocal, EndsLocal DEF Step

LEMMA StutterLInv ==
    ASSUME LInv, UNCHANGED vars PROVE LInv'
BY DEF LInv, LocalTagsComplete, Own, Complete, vars, tables

\* A registered component can be installed, with any number of processes and
\* names, although registrations stop half way, replace each other's rows, and
\* remote packages that share the layer come and go.
THEOREM RegisteredIsInstallable == Spec => []LocalIsInstallable
<1>1. IInv /\ IInv' /\ LInv /\ [Next]_vars => LInv'
  BY StepLInv, StutterLInv DEF Next
<1>2. IInv /\ LInv => LocalIsInstallable
  BY DEF IInv, LInv, LocalTagsComplete, LayersAreCached, LocalIsInstallable
<1> QED
  BY InitLInv, Invariance, <1>1, <1>2, PTL DEF Spec

-------------------------------------------------------------------------------
(***************************************************************************)
(* The strengthening.  A deletion without the cache lock aims at a         *)
(* manifest of its own local name, so that a pull, which holds the lock,   *)
(* keeps the layer row it has found or written; and it aims at the         *)
(* manifest that was replaced, because nobody else works on that name.     *)
(***************************************************************************)

\* The operation knows which manifest row it deletes.
Deletes(s) ==
    \/ s.at \in {"collect", "commit"}
    \/ s.op = "register" /\ s.at = "resolve"

\* A deletion works on its own tag.
Aims(s) ==
    /\ s.op \in {"pull", "delete", "reindex"} => s.tag \notin LocalTag
    /\ s.op \in {"register", "unregister"} => s.tag \in LocalTag
    /\ s.op = "register" /\ s.old # NoManifest => s.old \in Image[s.tag]
    /\ Deletes(s) => s.man \in Image[s.tag]

\* A pull that has passed its layer has its row in lay; the parameters of this
\* and the next operator stand for the tables layer and tag.
Stored(s, lay) ==
    s.op = "pull" /\ s.at \in {"extract", "rewrite", "clear", "store", "publish"} => s.man \in lay

\* What a registration deletes is no longer what the name has in tg.
Outdated(s, tg) == s.op = "register" /\ Deletes(s) => tg[s.tag] # s.man

\* A tag names an image of its repository.
TagsFit == \A t \in Tag : tag[t] # NoManifest => tag[t] \in Image[t]

\* One operation at a time works on a local name.
NamesLocked ==
    \A p, q \in Proc : proc[p].tag \in LocalTag /\ proc[q].tag = proc[p].tag => p = q

PInv ==
    /\ TagsFit /\ NamesLocked
    /\ \A p \in Proc : Aims(proc[p]) /\ Stored(proc[p], layer) /\ Outdated(proc[p], tag)

LEMMA IdleFits ==
    /\ Aims(Idle) /\ Idle.tag \notin LocalTag
    /\ \A lay : Stored(Idle, lay)
    /\ \A tg : Outdated(Idle, tg)
BY SentinelAssumption, ImageAssumption DEF Idle, Aims, Deletes, Stored, Outdated

LEMMA InitPInv == Init => PInv
BY IdleFits DEF Init, PInv, TagsFit, NamesLocked

(***************************************************************************)
(* Steps that remove no layer row and write no tag.                        *)
(***************************************************************************)

LEMMA NamesStayLocked ==
    ASSUME PInv, NEW p \in Proc, NEW u, proc'[p] = u,
           \A q \in Proc \ {p} : proc'[q].tag = proc[q].tag,
           u.tag = proc[p].tag \/ u.tag \notin LocalTag \/ NameFree(u.tag)
    PROVE  NamesLocked'
<1> SUFFICES ASSUME NEW q \in Proc, NEW r \in Proc, q # r,
                    proc'[q].tag \in LocalTag, proc'[r].tag = proc'[q].tag
             PROVE  FALSE
  BY DEF NamesLocked
<1>1. CASE q # p /\ r # p
  BY <1>1 DEF PInv, NamesLocked
<1>2. CASE q = p
  BY <1>2 DEF PInv, NamesLocked, NameFree
<1>3. CASE r = p
  BY <1>3 DEF PInv, NamesLocked, NameFree
<1> QED
  BY <1>1, <1>2, <1>3

LEMMA AimedStep ==
    ASSUME IInv, PInv, NEW p \in Proc, NEW u, Become(p, u),
           layer \subseteq layer', tag' = tag,
           Aims(u), Stored(u, layer'), Outdated(u, tag),
           u.tag = proc[p].tag \/ u.tag \notin LocalTag \/ NameFree(u.tag)
    PROVE  PInv'
<1>1. proc'[p] = u /\ \A q \in Proc \ {p} : proc'[q] = proc[q]
  BY BecomeState, OthersKeep
<1>2. NamesLocked'
  BY <1>1, NamesStayLocked
<1>3. TagsFit'
  BY DEF PInv, TagsFit
<1>4. ASSUME NEW q \in Proc
      PROVE  Aims(proc'[q]) /\ Stored(proc'[q], layer') /\ Outdated(proc'[q], tag')
  <2>1. CASE q = p
    BY <1>1, <2>1
  <2>2. CASE q # p
    <3>1. Aims(proc[q]) /\ Stored(proc[q], layer) /\ Outdated(proc[q], tag)
      BY DEF PInv
    <3>2. Stored(proc[q], layer')
      BY <3>1 DEF Stored
    <3> QED
      BY <1>1, <2>2, <3>1, <3>2
  <2> QED
    BY <2>1, <2>2
<1>5. \A q \in Proc : (Aims(proc[q]) /\ Stored(proc[q], layer) /\ Outdated(proc[q], tag))'
  BY <1>4 DEF Aims, Deletes, Stored, Outdated
<1> QED
  BY <1>2, <1>3, <1>5 DEF PInv

\* The operation goes on with the manifest it has.
LEMMA GoesOn ==
    ASSUME IInv, PInv, NEW p \in Proc, NEW u \in ProcState, Become(p, u),
           layer \subseteq layer', tag' = tag,
           u.op = proc[p].op, u.tag = proc[p].tag, u.man = proc[p].man, u.old = proc[p].old,
           Deletes(u) => Deletes(proc[p]), Stored(u, layer')
    PROVE  PInv'
<1>1. Aims(proc[p]) /\ Outdated(proc[p], tag)
  BY DEF PInv
<1>2. Aims(u) /\ Outdated(u, tag)
  BY <1>1 DEF Aims, Outdated
<1> QED
  BY <1>2, AimedStep

LEMMA ProceedsOn ==
    ASSUME IInv, PInv, NEW p \in Proc, NEW x \in Stage, Proceed(p, x),
           layer \subseteq layer', tag' = tag,
           x \notin {"collect", "commit"}, x = "resolve" => proc[p].op = "delete",
           x \in {"extract", "rewrite", "clear", "store", "publish"} /\ proc[p].op = "pull" =>
              proc[p].man \in layer'
    PROVE  PInv'
<1> DEFINE u == [proc[p] EXCEPT !.at = x]
<1>1. /\ u \in ProcState /\ u.at = x /\ u.op = proc[p].op /\ u.tag = proc[p].tag
      /\ u.man = proc[p].man /\ u.old = proc[p].old
  BY ProcessState DEF ProcState
<1>2. Become(p, u)
  BY DEF Proceed
<1> HIDE DEF u
<1>3. (Deletes(u) => Deletes(proc[p])) /\ Stored(u, layer')
  BY <1>1 DEF Deletes, Stored
<1> QED
  BY <1>1, <1>2, <1>3, GoesOn

LEMMA EndsOn ==
    ASSUME IInv, PInv, NEW p \in Proc, Become(p, Idle), UNCHANGED <<layer, tag>>
    PROVE  PInv'
BY IdleFits, AimedStep

\* An operation begins on a tag that suits it.
LEMMA BeginsOn ==
    ASSUME IInv, PInv, NEW p \in Proc, NEW u, Begin(p, u), Aims(u), ~Deletes(u),
           u.at \in {"lock", "cached", "resolve"} \/ u.op # "pull",
           u.tag \notin LocalTag \/ NameFree(u.tag),
           UNCHANGED <<tables, blob, cacheLock>>
    PROVE  PInv'
<1>1. Stored(u, layer') /\ Outdated(u, tag)
  BY DEF Stored, Outdated
<1> QED
  BY <1>1, AimedStep DEF Begin, tables

LEMMA StartsOn ==
    ASSUME IInv, PInv, NEW p \in Proc,
           \/ StartPull(p) \/ StartInstall(p) \/ StartRegister(p)
           \/ StartUnregister(p) \/ StartDelete(p) \/ StartReindex(p)
    PROVE  PInv'
<1> USE DEF Idle, Aims, Deletes
<1>1. CASE StartPull(p)
  <2>1. PICK t \in Tag \ LocalTag, r \in BOOLEAN, m \in Manifest :
           /\ Begin(p, [Idle EXCEPT !.op = "pull", !.at = "lock", !.tag = t, !.man = m, !.repair = r])
           /\ UNCHANGED <<tables, blob, cacheLock>>
    BY <1>1, ImageAssumption DEF StartPull
  <2> DEFINE s == [Idle EXCEPT !.op = "pull", !.at = "lock", !.tag = t, !.man = m, !.repair = r]
  <2>2. Aims(s) /\ ~Deletes(s) /\ s.at = "lock" /\ s.tag \notin LocalTag
    BY <2>1
  <2> HIDE DEF s, Idle, Aims, Deletes
  <2> QED
    BY <2>1, <2>2, BeginsOn DEF s
<1>2. CASE StartInstall(p)
  <2>1. PICK t \in Tag :
           /\ Begin(p, [Idle EXCEPT !.op = "install", !.at = "cached", !.tag = t])
           /\ t \in LocalTag => NameFree(t)
           /\ UNCHANGED <<tables, blob, cacheLock>>
    BY <1>2 DEF StartInstall
  <2> DEFINE s == [Idle EXCEPT !.op = "install", !.at = "cached", !.tag = t]
  <2>2. Aims(s) /\ ~Deletes(s) /\ s.at = "cached" /\ s.tag = t
    BY <2>1
  <2> HIDE DEF s, Idle, Aims, Deletes
  <2> QED
    BY <2>1, <2>2, BeginsOn DEF s
<1>3. CASE StartRegister(p)
  <2>1. PICK t \in LocalTag, m \in Manifest :
           /\ Begin(p, [Idle EXCEPT !.op = "register", !.at = "lock", !.tag = t, !.man = m,
                                    !.old = tag[t]])
           /\ NameFree(t)
           /\ UNCHANGED <<tables, blob, cacheLock>>
    BY <1>3, ImageAssumption DEF StartRegister
  <2> DEFINE s == [Idle EXCEPT !.op = "register", !.at = "lock", !.tag = t, !.man = m,
                               !.old = tag[t]]
  <2>2. tag[t] # NoManifest => tag[t] \in Image[t]
    BY <2>1, ImageAssumption DEF PInv, TagsFit
  <2>3. Aims(s) /\ ~Deletes(s) /\ s.at = "lock" /\ s.tag = t
    BY <2>1, <2>2
  <2> HIDE DEF s, Idle, Aims, Deletes
  <2> QED
    BY <2>1, <2>3, BeginsOn DEF s
<1>4. CASE StartUnregister(p)
  <2>1. PICK t \in LocalTag :
           /\ Begin(p, [Idle EXCEPT !.op = "unregister", !.at = "resolve", !.tag = t])
           /\ NameFree(t)
           /\ UNCHANGED <<tables, blob, cacheLock>>
    BY <1>4 DEF StartUnregister
  <2> DEFINE s == [Idle EXCEPT !.op = "unregister", !.at = "resolve", !.tag = t]
  <2>2. Aims(s) /\ ~Deletes(s) /\ s.at = "resolve" /\ s.tag = t
    BY <2>1
  <2> HIDE DEF s, Idle, Aims, Deletes
  <2> QED
    BY <2>1, <2>2, BeginsOn DEF s
<1>5. CASE StartDelete(p)
  <2>1. PICK t \in Tag \ LocalTag :
           /\ Begin(p, [Idle EXCEPT !.op = "delete", !.at = "lock", !.tag = t])
           /\ UNCHANGED <<tables, blob, cacheLock>>
    BY <1>5 DEF StartDelete
  <2> DEFINE s == [Idle EXCEPT !.op = "delete", !.at = "lock", !.tag = t]
  <2>2. Aims(s) /\ ~Deletes(s) /\ s.at = "lock" /\ s.tag \notin LocalTag
    BY <2>1
  <2> HIDE DEF s, Idle, Aims, Deletes
  <2> QED
    BY <2>1, <2>2, BeginsOn DEF s
<1>6. CASE StartReindex(p)
  <2>1. PICK t \in Tag \ LocalTag :
           /\ Begin(p, [Idle EXCEPT !.op = "reindex", !.at = "clear", !.tag = t, !.man = tag[t],
                                   !.live = TRUE])
           /\ UNCHANGED <<tables, blob, cacheLock>>
    BY <1>6 DEF StartReindex
  <2> DEFINE s == [Idle EXCEPT !.op = "reindex", !.at = "clear", !.tag = t, !.man = tag[t],
                               !.live = TRUE]
  <2>2. Aims(s) /\ ~Deletes(s) /\ s.op # "pull" /\ s.tag \notin LocalTag
    BY <2>1
  <2> HIDE DEF s, Idle, Aims, Deletes
  <2> QED
    BY <2>1, <2>2, BeginsOn DEF s
<1> QED
  BY <1>1, <1>2, <1>3, <1>4, <1>5, <1>6

\* What a pull has found or written of its layer it keeps.
LEMMA MovesOn ==
    ASSUME IInv, PInv, NEW p \in Proc,
           \/ Lock(p) \/ WriteBlob(p) \/ InsertLayerRow(p) \/ Extract(p)
           \/ Rewrite(p) \/ Clear(p) \/ StoreWit(p)
    PROVE  PInv'
<1>1. CASE Lock(p)
  <2>1. PICK x \in {"blob", "resolve", "lookup"} :
           Proceed(p, x) /\ (x = "resolve" => proc[p].op = "delete")
    BY <1>1 DEF Lock
  <2> QED
    BY <1>1, <2>1, ProceedsOn DEF Lock, Stage, tables
<1>2. CASE WriteBlob(p)
  BY <1>2, ProceedsOn DEF WriteBlob, Stage, tables
<1>3. CASE InsertLayerRow(p)
  BY <1>3, ProceedsOn DEF InsertLayerRow, Stage
<1>4. ASSUME proc[p].at \in {"extract", "rewrite", "clear", "store"}, proc[p].op = "pull"
      PROVE  proc[p].man \in layer
  BY <1>4 DEF PInv, Stored
<1>5. CASE Extract(p)
  <2>1. PICK x \in {"vendor", "publish"} : Proceed(p, x)
    BY <1>5 DEF Extract
  <2> QED
    BY <1>4, <1>5, <2>1, ProceedsOn DEF Extract, At, Stage
<1>6. CASE Rewrite(p)
  <2>1. PICK x \in {"clear", "publish"} : Proceed(p, x)
    BY <1>6 DEF Rewrite
  <2> QED
    BY <1>4, <1>6, <2>1, ProceedsOn DEF Rewrite, At, Stage, tables
<1>7. CASE Clear(p)
  BY <1>4, <1>7, ProceedsOn DEF Clear, At, Stage
<1>8. CASE StoreWit(p)
  <2>1. CASE End(p)
    BY <1>8, <2>1, EndsOn DEF StoreWit, End
  <2>2. CASE Proceed(p, "publish")
    BY <1>4, <1>8, <2>2, ProceedsOn DEF StoreWit, At, Stage
  <2> QED
    BY <1>8, <2>1, <2>2 DEF StoreWit
<1> QED
  BY <1>1, <1>2, <1>3, <1>5, <1>6, <1>7, <1>8

LEMMA ChoosesOn ==
    ASSUME IInv, PInv, NEW p \in Proc, LookUp(p) \/ Upsert(p) \/ Plan(p) PROVE PInv'
<1>1. CASE LookUp(p)
  <2>1. PICK b \in BOOLEAN : Become(p, [proc[p] EXCEPT !.at = "upsert", !.inserted = b])
    BY <1>1 DEF LookUp
  <2> DEFINE u == [proc[p] EXCEPT !.at = "upsert", !.inserted = b]
  <2>2. /\ u \in ProcState /\ u.at = "upsert" /\ u.op = proc[p].op /\ u.tag = proc[p].tag
        /\ u.man = proc[p].man /\ u.old = proc[p].old
    BY ProcessState DEF ProcState, Stage
  <2>3. Become(p, u)
    BY <2>1
  <2> HIDE DEF u
  <2> QED
    BY <1>1, <2>2, <2>3, GoesOn DEF LookUp, tables, Deletes, Stored
<1>2. CASE Upsert(p)
  <2> DEFINE x == IF proc[p].op = "install" THEN "publish" ELSE "plan"
             u == [proc[p] EXCEPT !.live = TRUE, !.at = x]
  <2>1. /\ u \in ProcState /\ u.at = x /\ u.op = proc[p].op /\ u.tag = proc[p].tag
        /\ u.man = proc[p].man /\ u.old = proc[p].old
    BY ProcessState DEF ProcState, Stage
  <2>2. Become(p, u)
    BY <1>2 DEF Upsert
  <2> HIDE DEF u
  <2> QED
    BY <1>2, <2>1, <2>2, GoesOn DEF Upsert, Deletes, Stored
<1>3. CASE Plan(p)
  <2>1. PICK b \in BOOLEAN, x \in {"blob", "rewrite", "publish"} :
           /\ Become(p, [proc[p] EXCEPT !.stored = b, !.at = x])
           /\ x # "blob" => HasLayer(p)
    BY <1>3 DEF Plan, NextIfStored, NeedsLayers
  <2> DEFINE u == [proc[p] EXCEPT !.stored = b, !.at = x]
  <2>2. /\ u \in ProcState /\ u.at = x /\ u.op = proc[p].op /\ u.tag = proc[p].tag
        /\ u.man = proc[p].man /\ u.old = proc[p].old
    BY ProcessState DEF ProcState, Stage
  <2>3. Become(p, u)
    BY <2>1
  <2> HIDE DEF u
  <2>4. ~Deletes(u) /\ Stored(u, layer)
    BY <2>1, <2>2 DEF Deletes, Stored, HasLayer
  <2> QED
    BY <1>3, <2>2, <2>3, <2>4, GoesOn DEF Plan, tables
<1> QED
  BY <1>1, <1>2, <1>3

LEMMA TryCacheOn ==
    ASSUME IInv, PInv, NEW p \in Proc, TryCache(p) PROVE PInv'
<1>1. CASE Become(p, Idle)
  BY <1>1, EndsOn DEF TryCache, tables
<1>2. CASE \E x \in {"vendor", "lookup"}, m \in Manifest \union {NoManifest} :
             Become(p, [proc[p] EXCEPT !.at = x, !.man = m])
  <2>1. PICK x \in {"vendor", "lookup"}, m \in Manifest \union {NoManifest} :
             Become(p, [proc[p] EXCEPT !.at = x, !.man = m])
    BY <1>2
  <2> DEFINE u == [proc[p] EXCEPT !.at = x, !.man = m]
  <2>2. proc[p].op = "install"
    BY DEF IInv, Sound, Fits, OnTrack, InsertStages, TryCache, At
  <2>3. u.at = x /\ u.op = "install" /\ u.tag = proc[p].tag
    BY <2>2, ProcessState DEF ProcState
  <2>4. Become(p, u)
    BY <2>1
  <2> HIDE DEF u
  <2>5. Aims(u) /\ Stored(u, layer') /\ Outdated(u, tag)
    BY <2>3 DEF Aims, Deletes, Stored, Outdated
  <2> QED
    BY <2>3, <2>4, <2>5, AimedStep DEF TryCache, tables
<1>3. PICK t \in Tag : t = proc[p].tag
  BY DEF IInv, Sound, Fits, OnTrack, TryCache, At
<1>4. Image[t] \subseteq Manifest /\ tag[t] \in Manifest \union {NoManifest}
  BY ImageAssumption DEF IInv, TypeOK
<1>5. CASE \/ Become(p, [proc[p] EXCEPT !.at = "vendor", !.man = tag[t]])
           \/ \E m \in Image[t] : Become(p, [proc[p] EXCEPT !.at = "lookup", !.man = m])
  BY <1>2, <1>4, <1>5
<1> QED
  BY <1>1, <1>3, <1>5 DEF TryCache

\* A deletion chooses the manifest of its tag, or keeps what it was to replace.
LEMMA ResolveOn ==
    ASSUME IInv, PInv, NEW p \in Proc, Resolve(p) PROVE PInv'
<1>1. CASE End(p)
  BY <1>1, EndsOn DEF Resolve, End, tables
<1>2. CASE Target(p) \in manifest /\ ~End(p)
  <2> DEFINE m == Target(p)
             u == [proc[p] EXCEPT !.at = "collect", !.man = m, !.live = TRUE]
  <2>1. Become(p, u) /\ UNCHANGED tables
    BY <1>2 DEF Resolve
  <2>2. /\ u.at = "collect" /\ u.op = proc[p].op /\ u.tag = proc[p].tag
        /\ u.man = m /\ u.old = proc[p].old
    BY ProcessState DEF ProcState
  <2>3. /\ proc[p].at = "resolve" /\ proc[p].tag \in Tag
        /\ proc[p].op \in {"register", "unregister", "delete"}
    BY DEF IInv, Sound, Fits, OnTrack, InsertStages, Resolve, At
  <2>4. Aims(proc[p]) /\ Outdated(proc[p], tag) /\ TagsFit
    BY DEF PInv
  <2>5. m \in Image[proc[p].tag] /\ (proc[p].op = "register" => tag[proc[p].tag] # m)
    <3>1. CASE proc[p].op = "register"
      BY <2>3, <2>4, <3>1 DEF Target, Aims, Deletes, Outdated
    <3>2. CASE proc[p].op # "register"
      BY <1>2, <2>3, <2>4, <3>2, SentinelAssumption DEF Target, TagsFit, IInv, TypeOK
    <3> QED
      BY <3>1, <3>2
  <2> HIDE DEF u, m
  <2>6. Aims(u) /\ Stored(u, layer') /\ Outdated(u, tag)
    BY <2>2, <2>3, <2>4, <2>5 DEF Aims, Deletes, Stored, Outdated
  <2> QED
    BY <2>1, <2>2, <2>6, AimedStep DEF tables
<1> QED
  BY <1>1, <1>2 DEF Resolve

LEMMA CollectOn ==
    ASSUME IInv, PInv, NEW p \in Proc, Collect(p) PROVE PInv'
<1> DEFINE D == IF proc[p].op = "delete" /\ HasLayer(p)
                THEN {LayerOf[proc[p].man]} \ Retained(p) ELSE {}
           u == [proc[p] EXCEPT !.at = "commit", !.doomed = D]
<1>1. Become(p, u) /\ proc[p].at = "collect" /\ UNCHANGED tables
  BY DEF Collect, At
<1>2. D \in SUBSET Layer
  BY ImageAssumption DEF HasLayer, IInv, TypeOK
<1> HIDE DEF D
<1>3. /\ u \in ProcState /\ u.at = "commit" /\ u.op = proc[p].op /\ u.tag = proc[p].tag
      /\ u.man = proc[p].man /\ u.old = proc[p].old
  BY <1>2, ProcessState DEF ProcState, Stage
<1> HIDE DEF u
<1> QED
  BY <1>1, <1>3, GoesOn DEF Deletes, Stored, tables

(***************************************************************************)
(* Publishing.                                                             *)
(***************************************************************************)

\* What follows a publication works on the same name, and if it deletes, then
\* what was replaced.
LEMMA AfterPublishState ==
    ASSUME IInv, PInv, NEW p \in Proc, Publish(p)
    PROVE  \E u : /\ Become(p, u) /\ Aims(u) /\ Stored(u, layer)
                  /\ u.tag = proc[p].tag \/ u.tag \notin LocalTag
                  /\ u.op = "register" /\ Deletes(u) => u.man # proc[p].man /\ u.tag = proc[p].tag
<1>1. Aims(proc[p]) /\ proc[p].at = "publish" /\ proc[p] \in ProcState
  BY ProcessState DEF PInv, Publish, At
<1>2. CASE End(p)
  <2>1. Become(p, Idle) /\ Idle.op # "register"
    BY <1>2 DEF End, Idle
  <2> QED
    BY <2>1, IdleFits
<1>3. CASE proc[p].op = "install" /\ Proceed(p, IF proc[p].inserted THEN "lock" ELSE "vendor")
  <2>1. PICK x \in {"lock", "vendor"} : Proceed(p, x)
    BY <1>3
  <2> DEFINE u == [proc[p] EXCEPT !.at = x]
  <2>2. u.at = x /\ u.op = "install" /\ u.tag = proc[p].tag
    BY <1>1, <1>3 DEF ProcState
  <2>3. Become(p, u)
    BY <2>1 DEF Proceed
  <2> HIDE DEF u
  <2> QED
    BY <2>2, <2>3 DEF Aims, Deletes, Stored
<1>4. CASE /\ proc[p].op = "register" /\ Replaces(p)
           /\ Become(p, [proc[p] EXCEPT !.at = "resolve", !.man = proc[p].old, !.live = FALSE])
  <2> DEFINE u == [proc[p] EXCEPT !.at = "resolve", !.man = proc[p].old, !.live = FALSE]
  <2>1. /\ u.at = "resolve" /\ u.op = "register" /\ u.tag = proc[p].tag
        /\ u.man = proc[p].old /\ u.old = proc[p].old
    BY <1>1, <1>4 DEF ProcState
  <2>2. Become(p, u)
    BY <1>4
  <2> HIDE DEF u
  <2>3. Aims(u) /\ Stored(u, layer)
    BY <1>1, <1>4, <2>1 DEF Aims, Deletes, Stored, Replaces
  <2> QED
    BY <1>4, <2>1, <2>2, <2>3 DEF Replaces
<1> QED
  BY <1>2, <1>3, <1>4 DEF Publish, AfterPublish

LEMMA PublishOn ==
    ASSUME IInv, LInv, PInv, NEW p \in Proc, Publish(p) PROVE PInv'
<1>1. PICK u : /\ Become(p, u) /\ Aims(u) /\ Stored(u, layer)
               /\ u.tag = proc[p].tag \/ u.tag \notin LocalTag
               /\ u.op = "register" /\ Deletes(u) => u.man # proc[p].man /\ u.tag = proc[p].tag
  BY AfterPublishState
<1>2. /\ proc[p].at = "publish" /\ tag' = [tag EXCEPT ![proc[p].tag] = proc[p].man]
      /\ layer' = layer
  BY DEF Publish, At
<1>3. /\ proc[p].tag \in Tag /\ proc[p].man \in Image[proc[p].tag]
      /\ tag'[proc[p].tag] = proc[p].man
      /\ \A t \in Tag \ {proc[p].tag} : tag'[t] = tag[t]
  BY <1>2 DEF IInv, TypeOK, LInv, Own, Sound, Fits, OnTrack, InsertStages
<1>4. proc'[p] = u /\ \A q \in Proc \ {p} : proc'[q] = proc[q]
  BY <1>1, BecomeState, OthersKeep
<1>5. TagsFit'
  BY <1>3 DEF PInv, TagsFit
<1>6. NamesLocked'
  BY <1>1, <1>4, NamesStayLocked
<1>7. ASSUME NEW q \in Proc
      PROVE  Aims(proc'[q]) /\ Stored(proc'[q], layer') /\ Outdated(proc'[q], tag')
  <2>1. CASE q = p
    BY <1>1, <1>2, <1>3, <1>4, <2>1 DEF Outdated
  <2>2. CASE q # p
    <3>1. Aims(proc[q]) /\ Stored(proc[q], layer) /\ Outdated(proc[q], tag)
      BY DEF PInv
    <3>2. proc[q].op = "register" => proc[q].tag \in LocalTag /\ proc[q].tag # proc[p].tag
      BY <2>2, <3>1 DEF PInv, NamesLocked, Aims
    <3>3. Outdated(proc[q], tag')
      BY <1>3, <3>1, <3>2, ImageAssumption DEF Outdated
    <3> QED
      BY <1>2, <1>4, <2>2, <3>1, <3>3
  <2> QED
    BY <2>1, <2>2
<1>8. \A q \in Proc : (Aims(proc[q]) /\ Stored(proc[q], layer) /\ Outdated(proc[q], tag))'
  BY <1>7 DEF Aims, Deletes, Stored, Outdated
<1> QED
  BY <1>5, <1>6, <1>8 DEF PInv

(***************************************************************************)
(* Deleting.                                                               *)
(***************************************************************************)

\* A deletion that has the lock runs beside no pull; one without it deletes an
\* image of its own local name, which no pull is about.
LEMMA PullsAreSpared ==
    ASSUME IInv, LInv, PInv, NEW p \in Proc, proc[p].at = "commit",
           NEW q \in Proc \ {p}, proc[q].op = "pull",
           proc[q].at \in {"extract", "rewrite", "clear", "store", "publish"}
    PROVE  proc[q].man # proc[p].man
<1>1. Locked(proc[q]) /\ Own(proc[q]) /\ proc[q].tag \in Tag \ LocalTag
  BY DEF IInv, LInv, Sound, Fits, Own, Locked, InsertStages
<1>2. Sound(p, proc[p]) /\ Aims(proc[p])
  BY DEF IInv, PInv
<1>3. CASE proc[p].op = "delete"
  <2>1. Locked(proc[p])
    BY <1>3 DEF Locked
  <2> QED
    BY <1>1, <2>1, LockExcludes
<1>4. CASE proc[p].op \in {"register", "unregister"}
  <2>1. proc[p].tag \in LocalTag /\ proc[p].man \in Image[proc[p].tag]
    BY <1>2, <1>4 DEF Aims, Deletes
  <2>2. proc[q].man \in Image[proc[q].tag]
    BY <1>1 DEF Own, InsertStages
  <2> QED
    BY <1>1, <2>1, <2>2, RepositoryAssumption
<1> QED
  BY <1>2, <1>3, <1>4 DEF Sound, Fits, OnTrack, InsertStages

\* The other operations lose the row id, and nothing else.
LEMMA OrphanedKeeps ==
    ASSUME IInv, NEW m, NEW q \in Proc
    PROVE  /\ Orphaned(m)[q].op = proc[q].op /\ Orphaned(m)[q].at = proc[q].at
           /\ Orphaned(m)[q].tag = proc[q].tag /\ Orphaned(m)[q].man = proc[q].man
           /\ Orphaned(m)[q].old = proc[q].old
<1> DEFINE v == [proc[q] EXCEPT !.live = proc[q].live /\ proc[q].man # m]
<1>1. /\ v.op = proc[q].op /\ v.at = proc[q].at /\ v.tag = proc[q].tag
      /\ v.man = proc[q].man /\ v.old = proc[q].old
  BY ProcessState DEF ProcState
<1>2. Orphaned(m)[q] = v
  BY DEF Orphaned
<1> HIDE DEF v
<1> QED
  BY <1>1, <1>2

LEMMA CommitDeleteOn ==
    ASSUME IInv, LInv, PInv, NEW p \in Proc, CommitDelete(p) PROVE PInv'
<1> DEFINE m == proc[p].man
           w == [proc[p] EXCEPT !.at = "reclaim", !.live = FALSE]
           u == IF proc[p].op = "delete" THEN w ELSE Idle
<1>1. /\ Aims(u)
      /\ u.tag = proc[p].tag \/ u.tag \notin LocalTag
      /\ \A lay : Stored(u, lay)
      /\ \A tg : Outdated(u, tg)
  <2>1. CASE proc[p].op = "delete"
    <3>1. w.op = "delete" /\ w.at = "reclaim" /\ w.tag = proc[p].tag
      BY <2>1, ProcessState DEF ProcState
    <3>2. u = w /\ Aims(proc[p])
      BY <2>1 DEF PInv
    <3> HIDE DEF w, u
    <3> QED
      BY <2>1, <3>1, <3>2 DEF Aims, Deletes, Stored, Outdated
  <2>2. CASE proc[p].op # "delete"
    <3>1. u = Idle
      BY <2>2
    <3> HIDE DEF u
    <3> QED
      BY <3>1, IdleFits
  <2> QED
    BY <2>1, <2>2
<1> HIDE DEF w
<1>2. CASE ~proc[p].live
  <2>1. UNCHANGED tables /\ Become(p, u)
    BY <1>2 DEF CommitDelete, w
  <2> HIDE DEF u
  <2> QED
    BY <1>1, <2>1, AimedStep DEF tables
<1>3. CASE proc[p].live
  <2>1. /\ layer' = layer \ {m}
        /\ tag' = [t \in Tag |-> IF tag[t] = m THEN NoManifest ELSE tag[t]]
        /\ proc' = [Orphaned(m) EXCEPT ![p] = u]
        /\ proc[p].at = "commit"
    BY <1>3 DEF CommitDelete, At, w
  <2> HIDE DEF u, m
  <2>2. proc'[p] = u /\ \A q \in Proc \ {p} : proc'[q] = Orphaned(m)[q]
    BY <2>1 DEF Orphaned
  <2>3. ASSUME NEW q \in Proc \ {p}
        PROVE  /\ proc'[q].op = proc[q].op /\ proc'[q].at = proc[q].at
               /\ proc'[q].tag = proc[q].tag /\ proc'[q].man = proc[q].man
               /\ proc'[q].old = proc[q].old
    BY <2>2, OrphanedKeeps
  <2>4. TagsFit'
    BY <2>1 DEF PInv, TagsFit
  <2>5. NamesLocked'
    BY <1>1, <2>2, <2>3, NamesStayLocked
  <2>6. ASSUME NEW q \in Proc
        PROVE  Aims(proc'[q]) /\ Stored(proc'[q], layer') /\ Outdated(proc'[q], tag')
    <3>1. CASE q = p
      BY <1>1, <2>2, <3>1
    <3>2. CASE q # p
      <4>1. Aims(proc[q]) /\ Stored(proc[q], layer) /\ Outdated(proc[q], tag)
        BY DEF PInv
      <4>2. Aims(proc'[q])
        BY <2>3, <3>2, <4>1 DEF Aims, Deletes
      <4>3. Stored(proc'[q], layer')
        BY <2>1, <2>3, <3>2, <4>1, PullsAreSpared DEF Stored, m
      <4>4. proc[q].op = "register" /\ Deletes(proc[q]) =>
               proc[q].tag \in Tag /\ proc[q].man # NoManifest
        BY <4>1, ImageAssumption, SentinelAssumption DEF Aims
      <4>5. Outdated(proc'[q], tag')
        BY <2>1, <2>3, <3>2, <4>1, <4>4 DEF Outdated, Deletes
      <4> QED
        BY <4>2, <4>3, <4>5
    <3> QED
      BY <3>1, <3>2
  <2>7. \A q \in Proc : (Aims(proc[q]) /\ Stored(proc[q], layer) /\ Outdated(proc[q], tag))'
    BY <2>6 DEF Aims, Deletes, Stored, Outdated
  <2> QED
    BY <2>4, <2>5, <2>7 DEF PInv
<1> QED
  BY <1>2, <1>3

(***************************************************************************)
(* The theorems.                                                           *)
(***************************************************************************)

LEMMA EndingOn ==
    ASSUME IInv, PInv, NEW p \in Proc, Vendor(p) \/ Reclaim(p) \/ Abort(p) PROVE PInv'
BY EndsOn DEF Vendor, Reclaim, Abort, End, tables

LEMMA StepPInv ==
    ASSUME IInv, LInv, PInv, NEW p \in Proc, Step(p) PROVE PInv'
BY StartsOn, MovesOn, ChoosesOn, TryCacheOn, ResolveOn, CollectOn, PublishOn, CommitDeleteOn,
   EndingOn DEF Step

LEMMA StutterPInv ==
    ASSUME PInv, UNCHANGED vars PROVE PInv'
BY DEF PInv, TagsFit, NamesLocked, Aims, Deletes, Stored, Outdated, vars, tables

LEMMA Together == Spec => [](IInv /\ LInv /\ PInv)
<1>1. IInv /\ IInv' /\ LInv /\ [Next]_vars => LInv'
  BY StepLInv, StutterLInv DEF Next
<1>2. IInv /\ LInv /\ PInv /\ [Next]_vars => PInv'
  BY StepPInv, StutterPInv DEF Next
<1> QED
  BY InitLInv, InitPInv, Invariance, <1>1, <1>2, PTL DEF Spec

\* What a pull or a registration publishes has its layer row and its blob, for
\* any number of processes and packages, whatever attempts stopped before it
\* and whatever is deleted meanwhile.
THEOREM CompletePublications == Spec => PublishedIsComplete
<1>1. ASSUME IInv, LInv, PInv, NEW p \in Proc, Publish(p), proc[p].op \in {"pull", "register"}
      PROVE  proc[p].man \in layer /\ LayerOf[proc[p].man] \in blob
  <2>1. proc[p].at = "publish" /\ proc[p].man \in manifest
    BY <1>1 DEF Publish, At
  <2>2. proc[p].man \in layer
    BY <1>1, <2>1 DEF LInv, Complete, PInv, Stored
  <2> QED
    BY <1>1, <2>2 DEF IInv, LayersAreCached
<1>2. IInv /\ LInv /\ PInv /\ [Next]_vars =>
         [\A p \in Proc :
            (Publish(p) /\ proc[p].op \in {"pull", "register"})
            => (proc[p].man \in layer /\ LayerOf[proc[p].man] \in blob)]_vars
  BY <1>1
<1> QED
  BY Together, <1>2, PTL DEF Spec, PublishedIsComplete

LEMMA TagWriters ==
    ASSUME NEW p \in Proc, Step(p), tag' # tag PROVE Publish(p) \/ CommitDelete(p)
BY DEF Step, StartPull, StartInstall, StartRegister, StartUnregister, StartDelete, StartReindex,
       Lock, LookUp, Upsert, Plan, WriteBlob, InsertLayerRow, Extract, Rewrite, Clear, StoreWit,
       TryCache, Vendor, Resolve, Collect, Reclaim, Abort, tables

\* Only its removal unregisters a local name, for any number of names and
\* processes: neither its replacement nor the deletion of a package does.
THEOREM NamesAreKept == Spec => OnlyRemovalUnregisters
<1>1. ASSUME IInv, LInv, PInv, NEW p \in Proc, Step(p),
             NEW t \in LocalTag, tag[t] # NoManifest, tag'[t] = NoManifest
      PROVE  proc[p].op = "unregister" /\ At(p, "commit")
  <2>1. t \in Tag /\ tag[t] \in Image[t]
    BY <1>1, ImageAssumption DEF PInv, TagsFit
  <2>2. ~Publish(p)
    <3>1. SUFFICES ASSUME Publish(p) PROVE FALSE
      OBVIOUS
    <3>2. tag' = [tag EXCEPT ![proc[p].tag] = proc[p].man] /\ proc[p].man \in manifest
      BY <3>1 DEF Publish
    <3> QED
      BY <1>1, <2>1, <3>2, SentinelAssumption DEF IInv, TypeOK
  <2>3. CommitDelete(p)
    BY <1>1, <2>2, TagWriters
  <2>4. proc[p].at = "commit" /\ tag[t] = proc[p].man
    BY <1>1, <2>1, <2>3 DEF CommitDelete, At, tables
  <2>5. /\ proc[p].op \in {"register", "unregister", "delete"} /\ proc[p].tag \in Tag
        /\ Aims(proc[p]) /\ Outdated(proc[p], tag)
    BY <1>1, <2>4 DEF IInv, PInv, Sound, Fits, OnTrack, InsertStages
  <2>6. proc[p].man \in Image[proc[p].tag]
    BY <2>4, <2>5 DEF Aims, Deletes
  <2>7. proc[p].tag = t
    BY <2>1, <2>4, <2>5, <2>6, RepositoryAssumption
  <2> QED
    BY <1>1, <2>4, <2>5, <2>7 DEF Aims, Deletes, Outdated, At
<1>2. IInv /\ LInv /\ PInv /\ [Next]_vars =>
         [\A t \in LocalTag :
            (tag[t] # NoManifest /\ tag'[t] = NoManifest)
            => \E p \in Proc : proc[p].op = "unregister" /\ At(p, "commit")]_vars
  BY <1>1 DEF Next
<1> QED
  BY Together, <1>2, PTL DEF Spec, OnlyRemovalUnregisters
===============================================================================
