----------------------------- MODULE RegistrySync -----------------------------
(***************************************************************************)
(* How the processes that share one data directory keep their index of     *)
(* known packages up to date: Manager::sync_from_meta_registry and         *)
(* handle_update over the tables of storage/store.rs, the conditional      *)
(* request of wasm-meta-registry-client and the listing of                 *)
(* component-meta-registry.  Every statement commits on its own, and no    *)
(* lock is held: another sync, a pull or a deletion may run between any    *)
(* two of them, and a sync may end at any of them.                         *)
(*                                                                         *)
(* A package has one version at a time in the registry's listing, the      *)
(* latest stable one of its tags.  An ETag is the page it was sent with.   *)
(***************************************************************************)
EXTENDS Integers, FiniteSets

CONSTANTS
    Proc,
    PackageCount,   \* packages are numbered as the listing orders them
    WitPackage,     \* those with a WIT namespace and name
    Version,
    Unreleased,     \* a repository of the registry without a version to list,
    Absent,         \* or none; a package outside a page is Unreleased, too
    PageSize,       \* clamp_limit of the 1000 packages the client asks for
    Pullable,       \* packages that are pulled and deleted locally
    NoEtag,
    MaxChanges      \* bound: changes to the registry

Package == 1 .. PackageCount
Row == Package \X Version

\* A page of the listing.
Page == [Package -> Version \union {Unreleased}]

Listing == [Package -> Version \union {Unreleased, Absent}]

ASSUME PackageAssumption ==
    /\ PackageCount \in Nat /\ PageSize \in Nat /\ MaxChanges \in Nat
    /\ WitPackage \subseteq Package /\ Pullable \subseteq Package
ASSUME VersionAssumption == Unreleased \notin Version /\ Absent \notin Version
ASSUME EtagAssumption == NoEtag \notin Page

VARIABLES
    listing,    \* Listing: what the registry has
    changes,    \* Nat: changes to it so far
    repo,       \* SUBSET Package: oci_repository rows
    stub,       \* SUBSET Row: wit_package rows without a manifest
    whole,      \* SUBSET stub: those with all their wit_package_dependency rows
    pulled,     \* SUBSET Row: tags of pulled manifests, with their wit_package row
                \* and the dependencies found in the image
    etag,       \* _sync_meta packages_etag
    synced,     \* BOOLEAN: whether _sync_meta has a last_synced_at
    sync,       \* [Proc -> SyncState]: the sync each process runs
    lost,       \* SUBSET Row: history of rows not stored, or deleted without a stub
    bare        \* SUBSET Row: history of dependencies not stored, or deleted

registry == <<listing, changes>>
wit == <<stub, whole, pulled>>
tables == <<repo, wit>>
meta == <<etag, synced>>
history == <<lost, bare>>
vars == <<registry, tables, meta, sync, history>>

SyncState == [
    at     : {"idle", "etag", "cached", "fetch", "repo", "row", "insert", "deps", "stamp"},
    sent   : Page \union {NoEtag},  \* If-None-Match
    cached : BOOLEAN,               \* has_cached_data
    page   : Page,                  \* the response
    item   : 0 .. PackageCount,     \* where handle_update is in it
    anchor : {"none", "stub", "pulled"}]    \* the row of pkg_id, if it is there

EmptyPage == [q \in Package |-> Unreleased]

Idle == [at |-> "idle", sent |-> NoEtag, cached |-> FALSE, page |-> EmptyPage,
         item |-> 0, anchor |-> "none"]

Init ==
    /\ listing \in Listing
    /\ changes = 0
    /\ repo = {} /\ stub = {} /\ whole = {} /\ pulled = {}
    /\ lost = {} /\ bare = {}
    /\ etag = NoEtag /\ synced = FALSE
    /\ sync = [p \in Proc |-> Idle]

At(p, stage) == sync[p].at = stage

Become(p, state) == sync' = [sync EXCEPT ![p] = state]

Listed(page) == {q \in Package : page[q] # Unreleased}

-------------------------------------------------------------------------------
(* The registry. *)

\* Store::list_known_packages: the limit counts repositories, and those
\* without a release are dropped from the page afterwards.
PageOf(list) ==
    [q \in Package |->
        IF /\ list[q] \in Version
           /\ Cardinality({r \in Package : r <= q /\ list[r] # Absent}) <= PageSize
        THEN list[q] ELSE Unreleased]

\* The indexer finds a package or a release, or the last release is deleted.
Change(q, v) ==
    /\ changes < MaxChanges
    /\ listing[q] # v
    /\ listing' = [listing EXCEPT ![q] = v]
    /\ changes' = changes + 1
    /\ UNCHANGED <<tables, meta, sync, history>>

-------------------------------------------------------------------------------
(* Manager::sync_from_meta_registry. *)

\* SyncPolicy::Force, or SyncPolicy::IfStale when sync_interval has passed since
\* the last one; a sync that is skipped changes nothing.
Start(p) ==
    /\ At(p, "idle")
    /\ Become(p, [Idle EXCEPT !.at = "etag"])
    /\ UNCHANGED <<registry, tables, meta, history>>

ReadEtag(p) ==
    /\ At(p, "etag")
    /\ Become(p, [sync[p] EXCEPT !.at = "cached", !.sent = etag])
    /\ UNCHANGED <<registry, tables, meta, history>>

\* list_known_packages(0, 1): the first repository, if it has a pulled tag.
HasCachedData ==
    \E q \in repo : (\A r \in repo : q <= r) /\ (\E v \in Version : <<q, v>> \in pulled)

LookForData(p) ==
    /\ At(p, "cached")
    /\ Become(p, [sync[p] EXCEPT !.at = "fetch", !.cached = HasCachedData])
    /\ UNCHANGED <<registry, tables, meta, history>>

\* The sync has its answer about the present page.
Answered(stage) == [Idle EXCEPT !.at = stage, !.page = PageOf(listing)]

\* FetchResult::NotModified: the server knows its page by the ETag.
FetchNotModified(p) ==
    /\ At(p, "fetch")
    /\ sync[p].sent = PageOf(listing)
    /\ Become(p, Answered("stamp"))
    /\ UNCHANGED <<registry, tables, meta, history>>

\* FetchResult::Updated, also when the server takes no notice of ETags.
FetchUpdated(p) ==
    /\ At(p, "fetch")
    /\ Become(p, Answered("repo"))
    /\ UNCHANGED <<registry, tables, meta, history>>

\* All attempts of fetch_packages have failed: SyncResult::Degraded ...
Degrade(p) ==
    /\ At(p, "fetch")
    /\ sync[p].cached
    /\ Become(p, Idle)
    /\ UNCHANGED <<registry, tables, meta, history>>

\* ... or ManagerError::SyncNoLocalData.
Refuse(p) ==
    /\ At(p, "fetch")
    /\ ~sync[p].cached
    /\ Become(p, Idle)
    /\ UNCHANGED <<registry, tables, meta, history>>

-------------------------------------------------------------------------------
(* Manager::handle_update. *)

\* Fault: the package after each one is left out.
RestShort(p) == {q \in Listed(sync[p].page) : q > sync[p].item + 1}

\* Fault: packages outside the page are stored, too.
RestAll(p) == {q \in Package : q > sync[p].item}

Rest(p) == {q \in Listed(sync[p].page) : q > sync[p].item}

\* Fault: an error is logged and the sync goes on.
SaveRepoLenient(q) == repo' \in {repo, repo \union {q}}

\* upsert_oci_repository_full; its error ends the sync (Abort).
SaveRepo(q) == repo' = repo \union {q}

\* add_known_package_with_params for every tag; it stores no tag.
UpsertRepo(p) ==
    /\ At(p, "repo")
    /\ \E q \in Rest(p) :
          /\ \A r \in Rest(p) : q <= r
          /\ SaveRepo(q)
          /\ Become(p, [sync[p] EXCEPT !.item = q,
                                       !.at = IF q \in WitPackage THEN "row" ELSE "repo"])
    /\ UNCHANGED <<registry, wit, meta, history>>

(* Store::upsert_package_dependencies_from_sync: its failure is only logged. *)

\* To the next statement, with the row in hand.
Go(p, stage, anchor) ==
    Become(p, [sync[p] EXCEPT !.at = stage, !.anchor = anchor])

\* Fault: any version of the package is taken for its row.
HasRowOfAny(row) == \E v \in Version : <<row[1], v>> \in stub \union pulled

HasRow(row) == row \in stub \union pulled

ItemRow(p) == <<sync[p].item, sync[p].page[sync[p].item]>>

\* Fault: a row that is there already is left alone.
FoundLeft(p, row) == Go(p, "repo", "none")

\* A row that is there takes the dependencies, a pulled one first.
Found(p, row) == Go(p, "deps", IF row \in pulled THEN "pulled" ELSE "stub")

FindRow(p) ==
    /\ At(p, "row")
    /\ \/ HasRow(ItemRow(p)) /\ Found(p, ItemRow(p))
       \/ ~HasRow(ItemRow(p)) /\ Go(p, "insert", "none")
    /\ UNCHANGED <<registry, tables, meta, history>>

\* A second stub of the version would break the unique index (FailRow).
InsertRow(p) ==
    /\ At(p, "insert")
    /\ ItemRow(p) \notin stub
    /\ stub' = stub \union {ItemRow(p)}
    /\ Go(p, "deps", "stub")
    /\ UNCHANGED <<registry, repo, whole, pulled, meta, history>>

\* insert_wit_package_dependency for each of them.
StoreDeps(p) ==
    /\ At(p, "deps")
    /\ sync[p].anchor # "none"
    /\ whole' = IF sync[p].anchor = "stub" THEN whole \union {ItemRow(p)} ELSE whole
    /\ Go(p, "repo", "none")
    /\ UNCHANGED <<registry, repo, stub, pulled, meta, history>>

\* One of these statements fails, also because another sync has inserted the
\* row or a deletion has taken it.  handle_update goes on to the next package.
FailRow(p) ==
    /\ sync[p].at \in {"row", "insert", "deps"}
    /\ lost' = lost \union ({ItemRow(p)} \ (stub \union pulled))
    /\ bare' = bare \union {ItemRow(p)}
    /\ Go(p, "repo", "none")
    /\ UNCHANGED <<registry, tables, meta>>

\* The response had an ETag.
StoreEtag(p) ==
    /\ At(p, "repo") /\ Rest(p) = {}
    /\ etag' = sync[p].page
    /\ Become(p, [sync[p] EXCEPT !.at = "stamp"])
    /\ UNCHANGED <<registry, tables, synced, history>>

\* update_last_synced_at, at once when the response had no ETag; the sync returns.
Stamp(p) ==
    /\ \/ At(p, "stamp")
       \/ At(p, "repo") /\ Rest(p) = {}
    /\ synced' = TRUE
    /\ Become(p, Idle)
    /\ UNCHANGED <<registry, tables, etag, history>>

\* A statement fails and the error is returned, or the process dies.
Abort(p) ==
    /\ ~At(p, "idle")
    /\ Become(p, Idle)
    /\ UNCHANGED <<registry, tables, meta, history>>

-------------------------------------------------------------------------------
(* What else writes these tables: images that come and go (see ImageCache). *)

\* Manager::pull of a version that the registry offers
Pull(q) ==
    /\ listing[q] \in Version
    /\ repo' = repo \union {q}
    /\ pulled' = pulled \union {<<q, listing[q]>>}
    /\ UNCHANGED <<registry, stub, whole, meta, sync, history>>

\* The sync in state s held the id of the row that is deleted.
Unanchored(s, row) ==
    IF /\ s.at = "deps" /\ s.anchor = "pulled" /\ s.item = row[1]
       /\ s.page[s.item] = row[2]
    THEN [s EXCEPT !.anchor = "none"] ELSE s

\* Manager::delete: the tag and the WIT rows go with the manifest, the
\* repository stays.
Delete(row) ==
    /\ row \in pulled
    /\ pulled' = pulled \ {row}
    /\ lost' = lost \union ({row} \ stub)
    /\ bare' = bare \union ({row} \ whole)
    /\ sync' = [p \in Proc |-> Unanchored(sync[p], row)]
    /\ UNCHANGED <<registry, repo, stub, whole, meta>>

-------------------------------------------------------------------------------

SyncStep(p) ==
    \/ Start(p) \/ ReadEtag(p) \/ LookForData(p)
    \/ FetchNotModified(p) \/ FetchUpdated(p) \/ Degrade(p) \/ Refuse(p)
    \/ UpsertRepo(p) \/ FindRow(p) \/ InsertRow(p) \/ StoreDeps(p) \/ FailRow(p)
    \/ StoreEtag(p) \/ Stamp(p)
    \/ Abort(p)

Next ==
    \/ \E p \in Proc : SyncStep(p)
    \/ \E q \in Package, v \in Version \union {Unreleased} : Change(q, v)
    \/ \E q \in Pullable : Pull(q)
    \/ \E row \in pulled : Delete(row)

Spec == Init /\ [][Next]_vars

-------------------------------------------------------------------------------
(* Properties. *)

\* Type invariant.
TypeOK ==
    /\ listing \in Listing
    /\ changes \in 0 .. MaxChanges
    /\ repo \subseteq Package
    /\ stub \subseteq Row /\ whole \subseteq stub /\ pulled \subseteq Row
    /\ lost \subseteq Row /\ bare \subseteq Row
    /\ etag \in Page \union {NoEtag}
    /\ synced \in BOOLEAN
    /\ sync \in [Proc -> SyncState]

\* The stored ETag keeps the registry from sending its page again, so the whole
\* page must be in the index: whatever syncs ran at the same time with older or
\* newer pages, and wherever syncs before it were cut off.
EtagIsEarned == etag # NoEtag => Listed(etag) \subseteq repo

\* The time of the last sync holds off the next ones.  It is written only when
\* everything the registry answered that sync with is in the index, also when
\* the answer was "304 Not Modified", which says so of what another sync stored.
StampIsEarned ==
    [][\A p \in Proc : Stamp(p) => Listed(sync[p].page) \subseteq repo]_vars

\* The comment in handle_update: "the resolver needs the row to exist".  As long
\* as an ETag suppresses its page, each WIT package of the page has a row of its
\* version, except those whose row could not be stored and those whose row was a
\* pulled one, deleted with its image: these the registry never sends again.
RowsUnlessLost ==
    etag # NoEtag =>
        \A q \in Listed(etag) \intersect WitPackage :
            <<q, etag[q]>> \in stub \union pulled \union lost

\* handle_update stores the dependencies "so the local database can answer
\* dependency [...] queries without network access".  A package whose page is
\* suppressed has all of them, in its pulled row or in its stub, except where
\* storing them failed or the pulled row that took them was deleted: not where a
\* sync was cut off after it inserted the row, for the next one completes it.
DependenciesUnlessLost ==
    etag # NoEtag =>
        \A q \in Listed(etag) \intersect WitPackage :
            <<q, etag[q]>> \in whole \union pulled \union bare

\* The documentation of sync_from_meta_registry: it "returns an error only when
\* the sync fails and no cached data exists".  At least what a completed sync
\* stored is cached data.
ErrorMeansNoData ==
    [][\A p \in Proc : Refuse(p) => repo = {} \/ ~synced]_vars

===============================================================================
