------------------------------ MODULE ImageCache ------------------------------
(***************************************************************************)
(* The local image store of the package manager (storage/store.rs) as the  *)
(* operations of manager/mod.rs use it: rows of OCI manifests, layers,     *)
(* tags and WIT metadata in a database, and layer contents in a cache of   *)
(* blobs shared by all packages.  Several processes work on one data       *)
(* directory.  Every statement commits on its own, so another process may  *)
(* run, or this one may stop, between any two of them; only some of the    *)
(* operations take the lock file on cache mutations.                       *)
(*                                                                         *)
(* An image has exactly one layer, and that layer a named WIT package      *)
(* (oci::validate_single_wasm_layer rejects other bundles).                *)
(***************************************************************************)
EXTENDS FiniteSets

CONSTANTS
    Proc, Manifest, Layer, Tag, NoProc, NoManifest, NoTag,
    LayerOf,    \* [Manifest -> Layer]: the digest of the one layer
    Image,      \* [Tag -> SUBSET Manifest]: what a tag may name upstream
    LocalTag,   \* tags of local.invalid, written by register_local only
    Floating,   \* tags that are never served from the cache ("latest")
    Operation   \* the operations a run starts, a subset of AllOperations

AllOperations == {"pull", "install", "register", "unregister", "delete", "reindex"}

ASSUME SentinelAssumption ==
    NoProc \notin Proc /\ NoManifest \notin Manifest /\ NoTag \notin Tag
ASSUME ImageAssumption ==
    /\ LayerOf \in [Manifest -> Layer]
    /\ Image \in [Tag -> SUBSET Manifest]
    /\ LocalTag \subseteq Tag /\ Floating \subseteq Tag
ASSUME OperationAssumption == Operation \subseteq AllOperations
\* A local name is a repository of its own, with one tag, and a manifest row
\* belongs to one repository.
ASSUME RepositoryAssumption ==
    \A s \in LocalTag : \A t \in Tag \ {s} : Image[s] \cap Image[t] = {}

VARIABLES
    manifest,   \* SUBSET Manifest: oci_manifest rows
    layer,      \* SUBSET Manifest: manifests with their oci_layer row
    wit,        \* SUBSET Manifest: manifests with their wit_package row
    tag,        \* [Tag -> Manifest \union {NoManifest}]: oci_tag rows
    blob,       \* SUBSET Layer: contents in the cacache directory
    cacheLock,  \* Proc \union {NoProc}: who holds cache-mutations.lock
    proc        \* [Proc -> ProcState]: the operation each process runs

tables == <<manifest, layer, wit, tag>>
vars == <<tables, blob, cacheLock, proc>>

\* Where an operation stands: the step it takes next.
Stage == {"idle",
          "cached",                                 \* try_install_from_cache
          "lock",                                   \* cache_mutation_lock
          "lookup", "upsert",                       \* upsert_oci_manifest
          "plan", "blob", "row", "extract",         \* insert, insert_layer
          "rewrite", "clear", "store",              \* repair_layer_metadata
          "publish",                                \* upsert_oci_tag
          "vendor",                                 \* vendor_manifest
          "resolve", "collect", "commit", "reclaim"}    \* delete_with_blob_cleanup

ProcState == [
    op       : AllOperations \union {"idle"},
    at       : Stage,
    tag      : Tag \union {NoTag},
    man      : Manifest \union {NoManifest},    \* manifest at hand
    old      : Manifest \union {NoManifest},    \* register_local: old_digest
    repair   : BOOLEAN,
    inserted : BOOLEAN,     \* was_inserted
    live     : BOOLEAN,     \* the row whose id was read still exists
    stored   : BOOLEAN,     \* the layers were stored already
    doomed   : SUBSET Layer]    \* digests to remove after a deletion

Idle == [op |-> "idle", at |-> "idle", tag |-> NoTag, man |-> NoManifest,
         old |-> NoManifest, repair |-> FALSE, inserted |-> FALSE, live |-> FALSE,
         stored |-> FALSE, doomed |-> {}]

Init ==
    /\ manifest = {} /\ layer = {} /\ wit = {} /\ blob = {}
    /\ tag = [t \in Tag |-> NoManifest]
    /\ cacheLock = NoProc
    /\ proc = [p \in Proc |-> Idle]

At(p, stage) == proc[p].at = stage

Become(p, state) == proc' = [proc EXCEPT ![p] = state]

Proceed(p, stage) == Become(p, [proc[p] EXCEPT !.at = stage])

Release(p) == cacheLock' = IF cacheLock = p THEN NoProc ELSE cacheLock

\* The operation ends: it has returned, or its process is gone.
End(p) == Become(p, Idle) /\ Release(p)

\* The layer row of the manifest row whose id the operation read.
HasLayer(p) == proc[p].live /\ proc[p].man \in layer

-------------------------------------------------------------------------------
(* How operations begin. *)

Begin(p, state) ==
    /\ At(p, "idle")
    /\ state.op \in Operation
    /\ Become(p, state)

\* Fault: local names are not locked.
NameFreeAlways(t) == TRUE

\* local_registration_lock and local_registration_process_lock: one operation
\* at a time on a local name.
NameFree(t) == \A q \in Proc : proc[q].tag # t

\* Manager::pull: the queue repairs with it when it retries a task.
StartPull(p) ==
    /\ \E t \in Tag \ LocalTag, repair \in BOOLEAN : \E m \in Image[t] :
          Begin(p, [Idle EXCEPT !.op = "pull", !.at = "lock", !.tag = t, !.man = m,
                             !.repair = repair])
    /\ UNCHANGED <<tables, blob, cacheLock>>

\* Manager::install_with_progress
StartInstall(p) ==
    /\ \E t \in Tag :
          /\ t \in LocalTag => NameFree(t)
          /\ Begin(p, [Idle EXCEPT !.op = "install", !.at = "cached", !.tag = t])
    /\ UNCHANGED <<tables, blob, cacheLock>>

\* Manager::register_local: the manifest it replaces is read under the name lock.
StartRegister(p) ==
    /\ \E t \in LocalTag : \E m \in Image[t] :
          /\ NameFree(t)
          /\ Begin(p, [Idle EXCEPT !.op = "register", !.at = "lock", !.tag = t, !.man = m,
                             !.old = tag[t]])
    /\ UNCHANGED <<tables, blob, cacheLock>>

\* Manager::delete of a local name
StartUnregister(p) ==
    /\ \E t \in LocalTag :
          /\ NameFree(t)
          /\ Begin(p, [Idle EXCEPT !.op = "unregister", !.at = "resolve", !.tag = t])
    /\ UNCHANGED <<tables, blob, cacheLock>>

\* Manager::delete of a reference with a tag
StartDelete(p) ==
    /\ \E t \in Tag \ LocalTag :
          Begin(p, [Idle EXCEPT !.op = "delete", !.at = "lock", !.tag = t])
    /\ UNCHANGED <<tables, blob, cacheLock>>

\* Store::reindex_tag up to its first write: it needs the layer row and its blob.
StartReindex(p) ==
    /\ \E t \in Tag \ LocalTag :
          /\ tag[t] \in layer
          /\ LayerOf[tag[t]] \in blob
          /\ Begin(p, [Idle EXCEPT !.op = "reindex", !.at = "clear", !.tag = t, !.man = tag[t],
                             !.live = TRUE])
    /\ UNCHANGED <<tables, blob, cacheLock>>

\* Fault: the lock file is not taken.
LockSkipped(p) == cacheLock' = cacheLock

TakeLock(p) == cacheLock = NoProc /\ cacheLock' = p

Lock(p) ==
    /\ At(p, "lock")
    /\ TakeLock(p)
    /\ \/ proc[p].op = "install" /\ Proceed(p, "blob")
       \/ proc[p].op = "delete" /\ Proceed(p, "resolve")
       \/ proc[p].op \in {"pull", "register"} /\ Proceed(p, "lookup")
    /\ UNCHANGED <<tables, blob>>

-------------------------------------------------------------------------------
(* Store::insert, insert_metadata and insert_layer. *)

LookUp(p) ==
    /\ At(p, "lookup")
    /\ Become(p, [proc[p] EXCEPT !.at = "upsert", !.inserted = proc[p].man \notin manifest])
    /\ UNCHANGED <<tables, blob, cacheLock>>

\* insert_metadata publishes the tag at once, insert looks for layers first.
Upsert(p) ==
    /\ At(p, "upsert")
    /\ manifest' = manifest \union {proc[p].man}
    /\ Become(p, [proc[p] EXCEPT !.live = TRUE,
                    !.at = IF proc[p].op = "install" THEN "publish" ELSE "plan"])
    /\ UNCHANGED <<layer, wit, tag, blob, cacheLock>>

\* Fault: a manifest row without layers counts as a stored image.
NeedsLayersNew(p) == proc[p].inserted

NeedsLayers(p) == proc[p].inserted \/ ~HasLayer(p)

\* Fault: a retried pull leaves what is stored alone.
NextIfStoredSkip(p) == "publish"

NextIfStored(p) == IF proc[p].repair THEN "rewrite" ELSE "publish"

Plan(p) ==
    /\ At(p, "plan")
    /\ Become(p, [proc[p] EXCEPT !.stored = ~NeedsLayers(p),
                    !.at = IF NeedsLayers(p) THEN "blob" ELSE NextIfStored(p)])
    /\ UNCHANGED <<tables, blob, cacheLock>>

WriteBlob(p) ==
    /\ At(p, "blob")
    /\ blob' = blob \union {LayerOf[proc[p].man]}
    /\ Proceed(p, "row")
    /\ UNCHANGED <<tables, cacheLock>>

\* The foreign key fails when the manifest row is gone, and the operation ends
\* with that error (Abort).
InsertLayerRow(p) ==
    /\ At(p, "row")
    /\ proc[p].live
    /\ layer' = layer \union {proc[p].man}
    /\ Proceed(p, "extract")
    /\ UNCHANGED <<manifest, wit, tag, blob, cacheLock>>

\* try_extract_wit_package writes the metadata, or only logs that it could not.
TryExtract(p) ==
    \/ proc[p].live /\ wit' = wit \union {proc[p].man}
    \/ UNCHANGED wit

Extract(p) ==
    /\ At(p, "extract")
    /\ TryExtract(p)
    /\ IF proc[p].op = "install"
         THEN Proceed(p, "vendor") /\ Release(p)
         ELSE Proceed(p, "publish") /\ UNCHANGED cacheLock
    /\ UNCHANGED <<manifest, layer, tag, blob>>

\* repair_layer_metadata: the layers are written into the cache again.
Rewrite(p) ==
    /\ At(p, "rewrite")
    /\ IF HasLayer(p)
         THEN blob' = blob \union {LayerOf[proc[p].man]} /\ Proceed(p, "clear")
         ELSE UNCHANGED blob /\ Proceed(p, "publish")
    /\ UNCHANGED <<tables, cacheLock>>

\* clear_wit_for_manifest, in a repair and in a reindex
Clear(p) ==
    /\ At(p, "clear")
    /\ wit' = IF proc[p].live THEN wit \ {proc[p].man} ELSE wit
    /\ Proceed(p, "store")
    /\ UNCHANGED <<manifest, layer, tag, blob, cacheLock>>

\* A repair fails with its write (Abort); a reindex is done either way.
StoreWit(p) ==
    /\ At(p, "store")
    /\ IF proc[p].op = "reindex"
         THEN TryExtract(p) /\ End(p)
         ELSE /\ proc[p].live
              /\ wit' = wit \union {proc[p].man}
              /\ Proceed(p, "publish")
              /\ UNCHANGED cacheLock
    /\ UNCHANGED <<manifest, layer, tag, blob>>

\* Fault: what is registered again replaces itself.
ReplacesAny(p) == proc[p].old # NoManifest

\* register_local drops the manifest the name had before.
Replaces(p) == proc[p].old \notin {NoManifest, proc[p].man}

AfterPublish(p) ==
    \/ /\ proc[p].op = "install"
       /\ Proceed(p, IF proc[p].inserted THEN "lock" ELSE "vendor")
       /\ UNCHANGED cacheLock
    \/ /\ proc[p].op = "register" /\ Replaces(p)
       /\ Become(p, [proc[p] EXCEPT !.at = "resolve", !.man = proc[p].old, !.live = FALSE])
       /\ Release(p)
    \/ /\ proc[p].op = "pull" \/ (proc[p].op = "register" /\ ~Replaces(p))
       /\ End(p)

\* upsert_oci_tag; the foreign key names the manifest by its digest.
Publish(p) ==
    /\ At(p, "publish")
    /\ proc[p].man \in manifest
    /\ tag' = [tag EXCEPT ![proc[p].tag] = proc[p].man]
    /\ AfterPublish(p)
    /\ UNCHANGED <<manifest, layer, wit, blob>>

-------------------------------------------------------------------------------
(* Manager::install_inner around pull_with_progress. *)

\* A concrete version whose layer is cached is served without the network.
Hit(t) == t \notin Floating /\ tag[t] # NoManifest /\ LayerOf[tag[t]] \in blob

TryCache(p) ==
    /\ At(p, "cached")
    /\ LET t == proc[p].tag IN
       \/ Hit(t) /\ Become(p, [proc[p] EXCEPT !.at = "vendor", !.man = tag[t]])
       \/ /\ ~Hit(t) /\ t \notin LocalTag
          /\ \E m \in Image[t] : Become(p, [proc[p] EXCEPT !.at = "lookup", !.man = m])
       \/ ~Hit(t) /\ t \in LocalTag /\ Become(p, Idle)
    /\ UNCHANGED <<tables, blob, cacheLock>>

\* vendor_manifest copies the layer out of the cache, or fails.
Vendor(p) ==
    /\ At(p, "vendor")
    /\ End(p)
    /\ UNCHANGED <<tables, blob>>

-------------------------------------------------------------------------------
(* Store::delete_with_blob_cleanup. *)

\* The manifest to delete: that of the tag, or for register_local the old one.
Target(p) == IF proc[p].op = "register" THEN proc[p].man ELSE tag[proc[p].tag]

Resolve(p) ==
    /\ At(p, "resolve")
    /\ IF Target(p) \in manifest
         THEN /\ Become(p, [proc[p] EXCEPT !.at = "collect", !.man = Target(p), !.live = TRUE])
              /\ UNCHANGED cacheLock
         ELSE End(p)
    /\ UNCHANGED <<tables, blob>>

\* Fault: layers are not shared between packages.
RetainedNone(p) == {}

\* Fault: the layers of the manifest that is deleted count as used.
RetainedAll(p) == {LayerOf[m] : m \in layer}

\* retained_layer_digests
Retained(p) == {LayerOf[m] : m \in layer \ {proc[p].man}}

\* Only delete cleans up blobs; delete_preserving_blobs has no lock either.
Collect(p) ==
    /\ At(p, "collect")
    /\ Become(p, [proc[p] EXCEPT !.at = "commit",
                    !.doomed = IF proc[p].op = "delete" /\ HasLayer(p)
                               THEN {LayerOf[proc[p].man]} \ Retained(p) ELSE {}])
    /\ UNCHANGED <<tables, blob, cacheLock>>

\* Fault: foreign keys are not enforced.
OrphanedNone(m) == proc

\* The manifest row takes its layer, metadata and tags along; operations that
\* hold its id are left with nothing.
Orphaned(m) ==
    [q \in Proc |-> [proc[q] EXCEPT !.live = @ /\ proc[q].man # m]]

CommitDelete(p) ==
    /\ At(p, "commit")
    /\ LET m == proc[p].man
           after == IF proc[p].op = "delete" THEN [proc[p] EXCEPT !.at = "reclaim", !.live = FALSE]
                    ELSE Idle
       IN IF proc[p].live
          THEN /\ manifest' = manifest \ {m}
               /\ layer' = layer \ {m}
               /\ wit' = wit \ {m}
               /\ tag' = [t \in Tag |-> IF tag[t] = m THEN NoManifest ELSE tag[t]]
               /\ proc' = [Orphaned(m) EXCEPT ![p] = after]
          ELSE UNCHANGED tables /\ Become(p, after)
    /\ UNCHANGED <<blob, cacheLock>>

\* remove_orphaned_blobs
Reclaim(p) ==
    /\ At(p, "reclaim")
    /\ blob' = blob \ proc[p].doomed
    /\ End(p)
    /\ UNCHANGED tables

-------------------------------------------------------------------------------

\* The network, the disk or the database fails under the operation, or its
\* process dies; the lock files are released either way.
Abort(p) ==
    /\ ~At(p, "idle")
    /\ End(p)
    /\ UNCHANGED <<tables, blob>>

Step(p) ==
    \/ StartPull(p) \/ StartInstall(p) \/ StartRegister(p)
    \/ StartUnregister(p) \/ StartDelete(p) \/ StartReindex(p)
    \/ Lock(p) \/ LookUp(p) \/ Upsert(p) \/ Plan(p)
    \/ WriteBlob(p) \/ InsertLayerRow(p) \/ Extract(p)
    \/ Rewrite(p) \/ Clear(p) \/ StoreWit(p) \/ Publish(p)
    \/ TryCache(p) \/ Vendor(p)
    \/ Resolve(p) \/ Collect(p) \/ CommitDelete(p) \/ Reclaim(p)
    \/ Abort(p)

Next == \E p \in Proc : Step(p)

Spec == Init /\ [][Next]_vars

-------------------------------------------------------------------------------
(* Properties. *)

\* Type invariant, with the foreign keys of the schema.
TypeOK ==
    /\ manifest \subseteq Manifest
    /\ layer \subseteq manifest
    /\ wit \subseteq manifest
    /\ tag \in [Tag -> manifest \union {NoManifest}]
    /\ blob \subseteq Layer
    /\ cacheLock \in Proc \union {NoProc}
    /\ proc \in [Proc -> ProcState]

\* A layer row promises the layer's contents: they are in the cache, although
\* deletions reclaim blobs that several packages share after their own commit,
\* while pulls, installs and registrations of the same layer come and go or die.
LayersAreCached == \A m \in layer : LayerOf[m] \in blob

\* The comment in Store::insert: the tag is published last, "so replacing a
\* reference never exposes an incomplete manifest".  What a pull or a
\* registration publishes has its layer, however the attempts before it ended.
PublishedIsComplete ==
    [][\A p \in Proc :
         (Publish(p) /\ proc[p].op \in {"pull", "register"})
         => (proc[p].man \in layer /\ LayerOf[proc[p].man] \in blob)]_vars

\* A local name that is registered stays registered until it is removed:
\* replacing a component, with itself too, never takes the name away, and
\* neither does anything that happens to remote packages.
OnlyRemovalUnregisters ==
    [][\A t \in LocalTag :
         (tag[t] # NoManifest /\ tag'[t] = NoManifest)
         => \E p \in Proc : proc[p].op = "unregister" /\ At(p, "commit")]_vars

\* A registered local component can be installed: its layer is in the cache.
LocalIsInstallable ==
    \A t \in LocalTag : tag[t] # NoManifest => tag[t] \in layer /\ LayerOf[tag[t]] \in blob

\* pull_with_progress takes a manifest that exists already for "Package already
\* cached", and install_inner vendors what it returns: a pull that succeeded has
\* brought any missing layer.
PulledIsCached ==
    \A p \in Proc : At(p, "vendor") => LayerOf[proc[p].man] \in blob

===============================================================================
