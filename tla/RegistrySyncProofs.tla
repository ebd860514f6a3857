-------------------------- MODULE RegistrySyncProofs --------------------------
(* Machine-checked proofs about RegistrySync, for every value of its constants. *)
EXTENDS RegistrySync, TLAPS

(***************************************************************************)
(* The strengthening: what a running sync knows of the page it works on.   *)
(***************************************************************************)

\* The rows that exist and have their dependencies, or are in the histories.
known == (stub \union pulled \union lost) \intersect (whole \union pulled \union bare)

\* The package of a page is in the index, with a row of its version: r and k
\* stand for repo and known.
Indexed(r, k, page, q) == q \in r /\ (q \in WitPackage => <<q, page[q]>> \in k)

AllIndexed(r, k, page) == \A q \in Listed(page) : Indexed(r, k, page, q)

EtagIndexed(r, k, e) == e # NoEtag => AllIndexed(r, k, e)

\* A sync in state s has stored the page up to the item it has reached; inside
\* upsert_package_dependencies_from_sync only that item is missing.  The ETag it has read stays
\* earned while the request is under way.
Sound(r, k, s) ==
    /\ EtagIndexed(r, k, s.sent)
    /\ s.at = "repo" => \A q \in Listed(s.page) : q <= s.item => Indexed(r, k, s.page, q)
    /\ s.at \in {"row", "insert", "deps"} =>
          /\ s.item \in Listed(s.page) /\ s.item \in r
          /\ \A q \in Listed(s.page) : q < s.item => Indexed(r, k, s.page, q)
    /\ s.at = "stamp" => AllIndexed(r, k, s.page)

SyncsAreSound == \A p \in Proc : Sound(repo, known, sync[p])

\* The row that a sync in state s is about to give its dependencies is there; b
\* and d stand for stub and pulled.
Held(b, d, s) ==
    s.at = "deps" => /\ s.anchor = "stub" => <<s.item, s.page[s.item]>> \in b
                     /\ s.anchor = "pulled" => <<s.item, s.page[s.item]>> \in d

AnchorsHold == \A p \in Proc : Held(stub, pulled, sync[p])

IInv ==
    /\ TypeOK
    /\ AnchorsHold
    /\ EtagIndexed(repo, known, etag)
    /\ SyncsAreSound

(***************************************************************************)
(* Type correctness.                                                       *)
(***************************************************************************)

LEMMA PageType ==
    ASSUME NEW list \in Listing
    PROVE  PageOf(list) \in Page
BY DEF PageOf, Page, Listing

LEMMA IdleType == Idle \in SyncState
BY PackageAssumption DEF Idle, SyncState, EmptyPage, Page

\* What is known of a sync that has its answer.
LEMMA AnswerType ==
    ASSUME TypeOK, NEW stage \in {"repo", "stamp"}
    PROVE  /\ Answered(stage) \in SyncState
           /\ Answered(stage).at = stage
           /\ Answered(stage).sent = NoEtag
           /\ Answered(stage).page = PageOf(listing)
           /\ Answered(stage).item = 0
<1>1. PageOf(listing) \in Page
  BY PageType DEF TypeOK
<1> QED
  BY <1>1, IdleType DEF Answered, SyncState, Idle

LEMMA UnanchoredType ==
    ASSUME NEW s \in SyncState, NEW row
    PROVE  /\ Unanchored(s, row) \in SyncState
           /\ Unanchored(s, row).at = s.at /\ Unanchored(s, row).sent = s.sent
           /\ Unanchored(s, row).page = s.page /\ Unanchored(s, row).item = s.item
BY DEF Unanchored, SyncState

\* What is known of a sync that goes on with its package.
LEMMA GoType ==
    ASSUME TypeOK, NEW p \in Proc, NEW anchor \in {"none", "stub", "pulled"},
           NEW stage \in {"repo", "insert", "deps"}, Go(p, stage, anchor)
    PROVE  /\ sync' \in [Proc -> SyncState]
           /\ sync'[p].at = stage /\ sync'[p].anchor = anchor
           /\ sync'[p].sent = sync[p].sent
           /\ sync'[p].page = sync[p].page /\ sync'[p].item = sync[p].item
<1> DEFINE s == sync[p]
           u == [s EXCEPT !.at = stage, !.anchor = anchor]
<1>1. s \in SyncState
  BY DEF TypeOK
<1>2. /\ u \in SyncState /\ u.at = stage /\ u.anchor = anchor /\ u.sent = s.sent
      /\ u.page = s.page /\ u.item = s.item
  BY <1>1 DEF SyncState
<1>3. sync' = [sync EXCEPT ![p] = u]
  BY DEF Go, Become
<1> HIDE DEF u
<1> QED
  BY <1>2, <1>3 DEF TypeOK

LEMMA FoundIsGo ==
    ASSUME NEW p, NEW row, Found(p, row)
    PROVE  \E anchor \in {"stub", "pulled"} :
              /\ Go(p, "deps", anchor)
              /\ anchor = IF row \in pulled THEN "pulled" ELSE "stub"
BY DEF Found

LEMMA InitType == Init => TypeOK
<1> SUFFICES ASSUME Init PROVE TypeOK
  OBVIOUS
<1>1. changes \in 0 .. MaxChanges
  BY PackageAssumption DEF Init
<1>2. synced \in BOOLEAN
  BY DEF Init
<1>3. sync \in [Proc -> SyncState]
  BY IdleType DEF Init
<1> QED
  BY <1>1, <1>2, <1>3 DEF Init, TypeOK

\* The package that a sync stores is one of its page.
LEMMA ItemRowType ==
    ASSUME TypeOK, SyncsAreSound, NEW p \in Proc, sync[p].at \in {"row", "insert", "deps"}
    PROVE  ItemRow(p) \in Row
<1>1. sync[p].item \in Listed(sync[p].page)
  BY DEF SyncsAreSound, Sound
<1> QED
  BY <1>1 DEF Listed, Row, ItemRow, TypeOK, SyncState, Page

LEMMA TypeStep == TypeOK /\ AnchorsHold /\ SyncsAreSound /\ [Next]_vars => TypeOK'
<1> SUFFICES ASSUME TypeOK, AnchorsHold, SyncsAreSound, [Next]_vars PROVE TypeOK'
  OBVIOUS
<1> USE DEF TypeOK
<1>1. ASSUME NEW p \in Proc, SyncStep(p) PROVE TypeOK'
  <2> USE DEF Become
  <2>1. CASE Start(p)
    BY <2>1, IdleType DEF Start, registry, tables, wit, meta, history, SyncState
  <2>2. CASE ReadEtag(p)
    BY <2>2 DEF ReadEtag, registry, tables, wit, meta, history, SyncState
  <2>3. CASE LookForData(p)
    <3>1. HasCachedData \in BOOLEAN
      BY DEF HasCachedData
    <3> QED
      BY <2>3, <3>1 DEF LookForData, registry, tables, wit, meta, history, SyncState
  <2>4. CASE FetchNotModified(p) \/ FetchUpdated(p)
    BY <2>4, AnswerType
    DEF FetchNotModified, FetchUpdated, registry, tables, wit, meta, history
  <2>5. CASE Degrade(p) \/ Refuse(p) \/ Abort(p)
    BY <2>5, IdleType DEF Degrade, Refuse, Abort, registry, tables, wit, meta, history
  <2>6. CASE UpsertRepo(p)
    <3>1. PICK q \in Rest(p) :
              /\ SaveRepo(q)
              /\ sync' = [sync EXCEPT ![p] = [sync[p] EXCEPT !.item = q,
                            !.at = IF q \in WitPackage THEN "row" ELSE "repo"]]
      BY <2>6 DEF UpsertRepo
    <3>2. q \in Package /\ q \in 0 .. PackageCount
      BY PackageAssumption DEF Rest, Listed, Package
    <3>3. sync' \in [Proc -> SyncState]
      <4>1. sync[p] \in SyncState
        OBVIOUS
      <4>2. ASSUME NEW stage \in {"row", "repo"}
            PROVE  [sync[p] EXCEPT !.item = q, !.at = stage] \in SyncState
        BY <3>2, <4>1 DEF SyncState
      <4> QED
        BY <3>1, <4>2
    <3>4. repo' \subseteq Package
      BY <3>1, <3>2 DEF SaveRepo
    <3>5. UNCHANGED <<registry, wit, meta, history>>
      BY <2>6 DEF UpsertRepo
    <3> QED
      BY <3>3, <3>4, <3>5 DEF registry, wit, meta, history
  <2>7. CASE FindRow(p)
    <3>1. sync' \in [Proc -> SyncState]
      BY <2>7, GoType, FoundIsGo DEF FindRow
    <3> QED
      BY <2>7, <3>1 DEF FindRow, registry, tables, wit, meta, history
  <2>8. CASE InsertRow(p)
    <3>1. sync' \in [Proc -> SyncState]
      BY <2>8, GoType DEF InsertRow
    <3>2. ItemRow(p) \in Row
      BY <2>8, ItemRowType DEF InsertRow, At
    <3> QED
      BY <2>8, <3>1, <3>2 DEF InsertRow, registry, meta, history
  <2>9. CASE StoreDeps(p)
    <3>1. sync' \in [Proc -> SyncState]
      BY <2>9, GoType DEF StoreDeps
    <3>2. sync[p].anchor = "stub" => ItemRow(p) \in stub
      BY <2>9 DEF StoreDeps, AnchorsHold, Held, ItemRow, At
    <3>3. whole' \subseteq stub
      BY <2>9, <3>2 DEF StoreDeps
    <3> QED
      BY <2>9, <3>1, <3>3 DEF StoreDeps, registry, meta, history
  <2>10. CASE FailRow(p)
    <3>1. sync' \in [Proc -> SyncState]
      BY <2>10, GoType DEF FailRow
    <3>2. ItemRow(p) \in Row
      BY <2>10, ItemRowType DEF FailRow
    <3> QED
      BY <2>10, <3>1, <3>2 DEF FailRow, registry, tables, wit, meta
  <2>11. CASE StoreEtag(p)
    BY <2>11 DEF StoreEtag, registry, tables, wit, history, SyncState
  <2>12. CASE Stamp(p)
    BY <2>12, IdleType DEF Stamp, registry, tables, wit, history
  <2> QED
    BY <1>1, <2>1, <2>2, <2>3, <2>4, <2>5, <2>6, <2>7, <2>8, <2>9, <2>10, <2>11, <2>12
    DEF SyncStep
<1>2. ASSUME NEW q \in Package, NEW v \in Version \union {Unreleased}, Change(q, v)
      PROVE  TypeOK'
  BY <1>2, PackageAssumption DEF Change, Listing, tables, wit, meta, history
<1>3. ASSUME NEW q \in Pullable, Pull(q) PROVE TypeOK'
  BY <1>3, PackageAssumption DEF Pull, registry, meta, history, Row
<1>4. ASSUME NEW row \in pulled, Delete(row) PROVE TypeOK'
  <2>1. sync' \in [Proc -> SyncState]
    BY <1>4, UnanchoredType DEF Delete
  <2> QED
    BY <1>4, <2>1 DEF Delete, registry, meta
<1>5. CASE UNCHANGED vars
  BY <1>5 DEF vars, registry, tables, wit, meta, history
<1> QED
  BY <1>1, <1>2, <1>3, <1>4, <1>5 DEF Next

(***************************************************************************)
(* A sync holds on to a row that is there.                                 *)
(***************************************************************************)

LEMMA AnchorStep == TypeOK /\ AnchorsHold /\ [Next]_vars => AnchorsHold'
<1> SUFFICES ASSUME TypeOK, AnchorsHold, [Next]_vars, NEW o \in Proc
             PROVE  Held(stub', pulled', sync'[o])
  BY DEF AnchorsHold
<1> USE DEF TypeOK
<1>a. sync[o] \in SyncState /\ Held(stub, pulled, sync[o])
  BY DEF AnchorsHold
<1>1. ASSUME NEW p \in Proc, SyncStep(p) PROVE Held(stub', pulled', sync'[o])
  <2>1. stub \subseteq stub' /\ pulled \subseteq pulled'
    BY <1>1 DEF SyncStep, Start, ReadEtag, LookForData, FetchNotModified, FetchUpdated,
       Degrade, Refuse, UpsertRepo, FindRow, InsertRow, StoreDeps, FailRow, StoreEtag,
       Stamp, Abort, tables, wit
  <2>2. CASE sync'[o] = sync[o]
    BY <1>a, <2>1, <2>2 DEF Held
  <2>3. CASE o = p /\ FindRow(p)
    <3>1. CASE HasRow(ItemRow(p)) /\ Found(p, ItemRow(p))
      <4>1. PICK anchor \in {"stub", "pulled"} :
                /\ Go(p, "deps", anchor)
                /\ anchor = IF ItemRow(p) \in pulled THEN "pulled" ELSE "stub"
        BY <3>1, FoundIsGo
      <4> QED
        BY <2>1, <2>3, <3>1, <4>1, GoType DEF HasRow, ItemRow, Held
    <3>2. CASE Go(p, "insert", "none")
      BY <2>3, <3>2, GoType DEF Held
    <3> QED
      BY <2>3, <3>1, <3>2 DEF FindRow
  <2>4. CASE o = p /\ InsertRow(p)
    BY <2>4, GoType DEF InsertRow, ItemRow, Held
  <2>5. CASE sync'[o].at # "deps"
    BY <2>5 DEF Held
  <2>6. CASE o = p /\ ~FindRow(p) /\ ~InsertRow(p)
    <3>1. CASE UpsertRepo(p)
      <4>1. PICK q \in Rest(p) :
                sync'[p].at = IF q \in WitPackage THEN "row" ELSE "repo"
        BY <2>6, <3>1, <1>a DEF UpsertRepo, Become, SyncState
      <4> QED
        BY <2>5, <2>6, <4>1
    <3>2. CASE FetchNotModified(p) \/ FetchUpdated(p)
      BY <2>5, <2>6, <3>2, AnswerType DEF FetchNotModified, FetchUpdated, Become
    <3>3. CASE Start(p) \/ Degrade(p) \/ Refuse(p) \/ Stamp(p) \/ Abort(p)
      BY <2>5, <2>6, <3>3 DEF Start, Degrade, Refuse, Stamp, Abort, Become, Idle
    <3>4. CASE ReadEtag(p) \/ LookForData(p) \/ StoreEtag(p)
      <4>1. ReadEtag(p) => sync'[p].at = "cached"
        BY <1>a, <2>6 DEF ReadEtag, Become, SyncState
      <4>2. LookForData(p) => sync'[p].at = "fetch"
        BY <1>a, <2>6 DEF LookForData, Become, SyncState
      <4>3. StoreEtag(p) => sync'[p].at = "stamp"
        BY <1>a, <2>6 DEF StoreEtag, Become, SyncState
      <4> QED
        BY <2>5, <2>6, <3>4, <4>1, <4>2, <4>3
    <3>5. CASE StoreDeps(p) \/ FailRow(p)
      BY <2>5, <2>6, <3>5, GoType DEF StoreDeps, FailRow
    <3> QED
      BY <1>1, <2>6, <3>1, <3>2, <3>3, <3>4, <3>5 DEF SyncStep
  <2>7. CASE o # p
    <3>1. sync'[o] = sync[o]
      BY <1>1, <2>7 DEF SyncStep, Start, ReadEtag, LookForData, FetchNotModified,
         FetchUpdated, Degrade, Refuse, UpsertRepo, FindRow, Found, InsertRow, StoreDeps,
         FailRow, StoreEtag, Stamp, Abort, Become, Go
    <3> QED
      BY <2>2, <3>1
  <2> QED
    BY <2>3, <2>4, <2>6, <2>7
<1>2. ASSUME NEW row \in pulled, Delete(row) PROVE Held(stub', pulled', sync'[o])
  <2>1. sync'[o] = Unanchored(sync[o], row) /\ stub' = stub /\ pulled' = pulled \ {row}
    BY <1>2 DEF Delete
  <2>2. row = <<row[1], row[2]>>
    BY DEF Row
  <2>3. CASE sync'[o] = sync[o]
    BY <1>a, <2>1, <2>2, <2>3 DEF Held, Unanchored, SyncState
  <2>4. CASE sync'[o] # sync[o]
    <3>1. sync'[o].anchor = "none"
      BY <1>a, <2>1, <2>4 DEF Unanchored, SyncState
    <3> QED
      BY <3>1 DEF Held
  <2> QED
    BY <2>3, <2>4
<1>3. ASSUME ~(\E p \in Proc : SyncStep(p)), ~(\E row \in pulled : Delete(row))
      PROVE  Held(stub', pulled', sync'[o])
  <2>1. sync' = sync /\ stub' = stub /\ pulled \subseteq pulled'
    BY <1>3 DEF Next, Change, Pull, vars, tables, wit
  <2> QED
    BY <1>a, <2>1 DEF Held
<1> QED
  BY <1>1, <1>2, <1>3

(***************************************************************************)
(* What has been stored of a page stays stored.                            *)
(***************************************************************************)

\* No step takes a package or a row out of what is known.
Grows == repo \subseteq repo' /\ known \subseteq known'

LEMMA KnownGrows == [Next]_vars => Grows
<1> SUFFICES ASSUME [Next]_vars PROVE Grows
  OBVIOUS
<1> USE DEF Grows, known, tables, wit, history
<1>1. ASSUME NEW p \in Proc, SyncStep(p) PROVE Grows
  BY <1>1 DEF SyncStep, Start, ReadEtag, LookForData, FetchNotModified, FetchUpdated,
     Degrade, Refuse, UpsertRepo, SaveRepo, FindRow, InsertRow, StoreDeps, FailRow,
     StoreEtag, Stamp, Abort
<1>2. ASSUME NEW q \in Package, NEW v \in Version \union {Unreleased}, Change(q, v)
      PROVE  Grows
  BY <1>2 DEF Change
<1>3. ASSUME NEW q \in Pullable, Pull(q) PROVE Grows
  BY <1>3 DEF Pull
<1>4. ASSUME NEW row \in pulled, Delete(row) PROVE Grows
  BY <1>4 DEF Delete
<1>5. CASE UNCHANGED vars
  BY <1>5 DEF vars
<1> QED
  BY <1>1, <1>2, <1>3, <1>4, <1>5 DEF Next

LEMMA EtagStays ==
    ASSUME Grows, NEW e, EtagIndexed(repo, known, e)
    PROVE  EtagIndexed(repo', known', e)
BY DEF Grows, EtagIndexed, AllIndexed, Indexed

LEMMA SoundStays ==
    ASSUME Grows, NEW s, Sound(repo, known, s)
    PROVE  Sound(repo', known', s)
<1>1. EtagIndexed(repo', known', s.sent)
  BY EtagStays DEF Sound
<1>2. ASSUME NEW q, Indexed(repo, known, s.page, q)
      PROVE  Indexed(repo', known', s.page, q)
  BY <1>2 DEF Grows, Indexed
<1> QED
  BY <1>1, <1>2 DEF Sound, AllIndexed, Grows

(***************************************************************************)
(* The steps of a sync.                                                    *)
(***************************************************************************)

\* Once nothing of the page is left, all of it is indexed.
LEMMA LoopEnds ==
    ASSUME TypeOK, NEW p \in Proc, NEW r, NEW k,
           Sound(r, k, sync[p]), At(p, "repo"), Rest(p) = {}
    PROVE  AllIndexed(r, k, sync[p].page)
<1> SUFFICES ASSUME NEW q \in Listed(sync[p].page) PROVE Indexed(r, k, sync[p].page, q)
  BY DEF AllIndexed
<1>1. q \in Int /\ sync[p].item \in Int
  BY PackageAssumption DEF Listed, Package, TypeOK, SyncState
<1>2. q <= sync[p].item
  BY <1>1 DEF Rest
<1> QED
  BY <1>2 DEF Sound, At

\* The sync that takes a step is sound after it.
LEMMA SyncStepSound ==
    ASSUME TypeOK, AnchorsHold, EtagIndexed(repo, known, etag), SyncsAreSound,
           Grows, NEW p \in Proc, SyncStep(p)
    PROVE  Sound(repo', known', sync'[p])
<1> USE DEF TypeOK, Become
<1> DEFINE page == sync[p].page
           item == sync[p].item
<1>a. sync[p] \in SyncState
  OBVIOUS
<1>b. Sound(repo', known', sync[p])
  BY SoundStays DEF SyncsAreSound
<1>c. EtagIndexed(repo', known', etag)
  BY EtagStays
<1>d. EtagIndexed(repo', known', NoEtag)
  BY DEF EtagIndexed
<1>e. \A q \in Listed(page) : q \in Int
  BY PackageAssumption DEF Listed, Package
<1>1. CASE \/ Start(p)
           \/ Degrade(p) \/ Refuse(p) \/ Stamp(p) \/ Abort(p)
  <2>1. sync'[p].sent = NoEtag /\ sync'[p].at \in {"idle", "etag"}
    BY <1>1 DEF Start, Degrade, Refuse, Stamp, Abort, Idle
  <2> QED
    BY <1>d, <2>1 DEF Sound
<1>2. CASE ReadEtag(p)
  <2>1. sync'[p].sent = etag /\ sync'[p].at = "cached"
    BY <1>2, <1>a DEF ReadEtag, SyncState
  <2> QED
    BY <1>c, <2>1 DEF Sound
<1>3. CASE LookForData(p)
  <2>1. sync'[p].sent = sync[p].sent /\ sync'[p].at = "fetch"
    BY <1>3, <1>a DEF LookForData, SyncState
  <2> QED
    BY <1>b, <2>1 DEF Sound
<1>4. CASE FetchNotModified(p)
  <2>1. sync'[p] = Answered("stamp")
    BY <1>4 DEF FetchNotModified
  <2>2. sync'[p].sent = NoEtag /\ sync'[p].at = "stamp" /\ sync'[p].page = PageOf(listing)
    BY <2>1, AnswerType
  <2>3. sync[p].sent = PageOf(listing) /\ sync[p].sent # NoEtag
    BY <1>4, PageType, EtagAssumption DEF FetchNotModified
  <2>4. AllIndexed(repo', known', sync'[p].page)
    BY <1>b, <2>2, <2>3 DEF Sound, EtagIndexed
  <2> QED
    BY <1>d, <2>2, <2>4 DEF Sound
<1>5. CASE FetchUpdated(p)
  <2>1. sync'[p] = Answered("repo")
    BY <1>5 DEF FetchUpdated
  <2>2. sync'[p].sent = NoEtag /\ sync'[p].at = "repo" /\ sync'[p].item = 0
    BY <2>1, AnswerType
  <2>3. \A q \in Listed(sync'[p].page) : ~(q <= 0)
    BY PackageAssumption DEF Package, Listed
  <2> QED
    BY <1>d, <2>2, <2>3 DEF Sound
<1>6. CASE UpsertRepo(p)
  <2>1. PICK q \in Rest(p) :
            /\ \A r \in Rest(p) : q <= r
            /\ repo' = repo \union {q}
            /\ sync' = [sync EXCEPT ![p] = [sync[p] EXCEPT !.item = q,
                            !.at = IF q \in WitPackage THEN "row" ELSE "repo"]]
    BY <1>6 DEF UpsertRepo, SaveRepo
  <2>2. /\ sync'[p].item = q /\ sync'[p].page = page /\ sync'[p].sent = sync[p].sent
        /\ sync'[p].at = IF q \in WitPackage THEN "row" ELSE "repo"
    BY <2>1, <1>a DEF SyncState
  <2>3. q \in Listed(page) /\ q \in repo' /\ At(p, "repo")
    BY <1>6, <2>1 DEF Rest, UpsertRepo
  <2>4. \A r \in Listed(page) : r < q => Indexed(repo', known', page, r)
    <3>1. item \in Int
      BY <1>a DEF SyncState
    <3>2. \A r \in Listed(page) : r < q => r <= item
      BY <1>e, <2>1, <2>3, <3>1 DEF Rest
    <3> QED
      BY <1>b, <2>3, <3>2 DEF Sound, At
  <2>5. CASE q \in WitPackage
    BY <1>b, <2>2, <2>3, <2>4, <2>5 DEF Sound
  <2>6. CASE q \notin WitPackage
    <3>1. \A r \in Listed(page) : r <= q => Indexed(repo', known', page, r)
      BY <1>e, <2>3, <2>4, <2>6 DEF Indexed
    <3> QED
      BY <1>b, <2>2, <2>6, <3>1 DEF Sound
  <2> QED
    BY <2>5, <2>6
<1>7. CASE FindRow(p) \/ InsertRow(p)
  <2>1. /\ sync'[p].item = item /\ sync'[p].page = page /\ sync'[p].sent = sync[p].sent
        /\ sync'[p].at \in {"insert", "deps"} /\ sync[p].at \in {"row", "insert"}
    BY <1>7, GoType, FoundIsGo DEF FindRow, InsertRow, At
  <2> QED
    BY <1>b, <2>1 DEF Sound
<1>8. CASE StoreDeps(p) \/ FailRow(p)
  <2>1. /\ sync'[p].item = item /\ sync'[p].page = page /\ sync'[p].sent = sync[p].sent
        /\ sync'[p].at = "repo" /\ sync[p].at \in {"row", "insert", "deps"}
    BY <1>8, GoType DEF StoreDeps, FailRow, At
  <2>2. Indexed(repo', known', page, item)
    <3>1. item \in repo'
      BY <1>b, <2>1 DEF Sound
    <3>2. CASE StoreDeps(p)
      <4>1. /\ sync[p].anchor = "stub" => ItemRow(p) \in stub
            /\ sync[p].anchor = "pulled" => ItemRow(p) \in pulled
        BY <3>2 DEF StoreDeps, AnchorsHold, Held, ItemRow, At
      <4>2. sync[p].anchor \in {"stub", "pulled"}
        BY <1>a, <3>2 DEF StoreDeps, SyncState
      <4> QED
        BY <3>1, <3>2, <4>1, <4>2 DEF StoreDeps, ItemRow, known, Indexed
    <3>3. CASE FailRow(p)
      BY <3>1, <3>3 DEF FailRow, ItemRow, known, Indexed, tables, wit
    <3> QED
      BY <1>8, <3>2, <3>3
  <2>3. \A r \in Listed(page) : r <= item => r = item \/ r < item
    BY <1>a, <1>e DEF SyncState
  <2>4. \A r \in Listed(page) : r <= item => Indexed(repo', known', page, r)
    BY <1>b, <2>1, <2>2, <2>3 DEF Sound
  <2> QED
    BY <1>b, <2>1, <2>4 DEF Sound
<1>9. CASE StoreEtag(p)
  <2>1. /\ sync'[p].page = page /\ sync'[p].sent = sync[p].sent
        /\ sync'[p].at = "stamp"
    BY <1>9, <1>a DEF StoreEtag, SyncState
  <2>2. AllIndexed(repo', known', page)
    BY <1>9, <1>b, LoopEnds DEF StoreEtag
  <2> QED
    BY <1>b, <2>1, <2>2 DEF Sound
<1> QED
  BY <1>1, <1>2, <1>3, <1>4, <1>5, <1>6, <1>7, <1>8, <1>9 DEF SyncStep

(***************************************************************************)
(* The inductive invariant.                                                *)
(***************************************************************************)

LEMMA InitIInv == Init => IInv
<1> SUFFICES ASSUME Init PROVE IInv
  OBVIOUS
<1>1. Sound(repo, known, Idle)
  BY DEF Sound, Idle, EtagIndexed
<1>2. SyncsAreSound
  BY <1>1 DEF Init, SyncsAreSound
<1>3. AnchorsHold
  BY DEF Init, AnchorsHold, Held, Idle
<1> QED
  BY <1>2, <1>3, InitType DEF Init, IInv, EtagIndexed

\* Only StoreEtag changes the ETag, when the whole page is stored.
LEMMA EtagStep ==
    ASSUME IInv, Grows, [Next]_vars
    PROVE  EtagIndexed(repo', known', etag')
<1>1. EtagIndexed(repo', known', etag)
  BY EtagStays DEF IInv
<1>2. ASSUME NEW p \in Proc, StoreEtag(p) PROVE EtagIndexed(repo', known', etag')
  <2>1. Sound(repo', known', sync[p])
    BY SoundStays DEF IInv, SyncsAreSound
  <2>2. AllIndexed(repo', known', sync[p].page)
    BY <1>2, <2>1, LoopEnds DEF StoreEtag, IInv
  <2> QED
    BY <1>2, <2>2 DEF StoreEtag, EtagIndexed
<1>3. ASSUME NEW p \in Proc, SyncStep(p), ~StoreEtag(p) PROVE etag' = etag
  BY <1>3 DEF SyncStep, Start, ReadEtag, LookForData, FetchNotModified, FetchUpdated,
     Degrade, Refuse, UpsertRepo, FindRow, InsertRow, StoreDeps, FailRow, Stamp, Abort, meta
<1>4. CASE ~(\E p \in Proc : SyncStep(p))
  <2>1. etag' = etag
    BY <1>4 DEF Next, Change, Pull, Delete, vars, meta
  <2> QED
    BY <1>1, <2>1
<1> QED
  BY <1>1, <1>2, <1>3, <1>4

LEMMA SoundStep ==
    ASSUME IInv, Grows, [Next]_vars
    PROVE  SyncsAreSound'
<1>1. SUFFICES ASSUME NEW p \in Proc PROVE Sound(repo', known', sync'[p])
  BY DEF SyncsAreSound
<1>2. CASE SyncStep(p)
  BY <1>2, SyncStepSound DEF IInv
<1>3. CASE ~SyncStep(p)
  <2>1. Sound(repo', known', sync[p])
    BY SoundStays DEF IInv, SyncsAreSound
  <2>2. /\ sync'[p].at = sync[p].at /\ sync'[p].sent = sync[p].sent
        /\ sync'[p].page = sync[p].page /\ sync'[p].item = sync[p].item
    <3>1. ASSUME NEW o \in Proc, SyncStep(o), o # p PROVE sync'[p] = sync[p]
      BY <3>1 DEF SyncStep, Start, ReadEtag, LookForData, FetchNotModified, FetchUpdated,
         Degrade, Refuse, UpsertRepo, FindRow, Found, InsertRow, StoreDeps, FailRow,
         StoreEtag, Stamp, Abort, Become, Go, IInv, TypeOK
    <3>2. ASSUME NEW row \in pulled, Delete(row) PROVE sync'[p] = Unanchored(sync[p], row)
      BY <3>2 DEF Delete
    <3>3. ASSUME ~(\E o \in Proc : SyncStep(o)), ~(\E row \in pulled : Delete(row))
          PROVE  sync' = sync
      BY <3>3 DEF Next, Change, Pull, vars
    <3>4. sync[p] \in SyncState
      BY DEF IInv, TypeOK
    <3> QED
      BY <1>3, <3>1, <3>2, <3>3, <3>4, UnanchoredType
  <2> QED
    BY <2>1, <2>2 DEF Sound
<1> QED
  BY <1>2, <1>3

LEMMA NextIInv == IInv /\ [Next]_vars => IInv'
<1> SUFFICES ASSUME IInv, [Next]_vars PROVE IInv'
  OBVIOUS
<1>1. Grows
  BY KnownGrows
<1>2. TypeOK' /\ AnchorsHold'
  BY TypeStep, AnchorStep DEF IInv
<1> QED
  BY <1>1, <1>2, EtagStep, SoundStep DEF IInv

LEMMA Invariance == Spec => []IInv
BY InitIInv, NextIInv, PTL DEF Spec

(***************************************************************************)
(* Theorems.                                                               *)
(***************************************************************************)

\* The variables keep their types: a row is stored for a version that the
\* registry listed, never for a package outside the page.
THEOREM TypeCorrectness == Spec => []TypeOK
<1>1. IInv => TypeOK
  BY DEF IInv
<1> QED
  BY <1>1, Invariance, PTL

\* However many processes sync, and wherever their syncs end, a page whose ETag
\* is stored (handle_update) is in the index with every package.
THEOREM EtagEarned == Spec => []EtagIsEarned
<1>1. IInv => EtagIsEarned
  BY DEF IInv, EtagIndexed, AllIndexed, Indexed, EtagIsEarned
<1> QED
  BY <1>1, Invariance, PTL

\* The rows that the resolver needs are missing from a page that the ETag
\* suppresses only if their insertion failed or their image was deleted.
THEOREM RowsKept == Spec => []RowsUnlessLost
<1>1. IInv => RowsUnlessLost
  BY DEF IInv, EtagIndexed, AllIndexed, Indexed, known, RowsUnlessLost
<1> QED
  BY <1>1, Invariance, PTL

\* A package of a suppressed page lacks dependencies in its row only if storing
\* them failed or a deletion took them: the sync after one that was cut off
\* completes the row it finds (upsert_package_dependencies_from_sync).
THEOREM DependenciesKept == Spec => []DependenciesUnlessLost
<1>1. IInv => DependenciesUnlessLost
  BY DEF IInv, EtagIndexed, AllIndexed, Indexed, known, DependenciesUnlessLost
<1> QED
  BY <1>1, Invariance, PTL

\* update_last_synced_at is reached only with the whole answer in the index.
THEOREM StampEarned == Spec => StampIsEarned
<1>1. ASSUME IInv, NEW p \in Proc, Stamp(p) PROVE Listed(sync[p].page) \subseteq repo
  <2>1. Sound(repo, known, sync[p])
    BY <1>1 DEF IInv, SyncsAreSound
  <2>2. AllIndexed(repo, known, sync[p].page)
    BY <1>1, <2>1, LoopEnds DEF Stamp, Sound, At, IInv
  <2> QED
    BY <2>2 DEF AllIndexed, Indexed
<1>2. IInv /\ [Next]_vars =>
        [\A p \in Proc : Stamp(p) => Listed(sync[p].page) \subseteq repo]_vars
  BY <1>1
<1> QED
  BY <1>2, Invariance, PTL DEF Spec, StampIsEarned
===============================================================================
