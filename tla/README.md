# wasm.directory in TLA+

Formal models of the stateful core of this repository: the registry behind
wasm.directory (`component-meta-registry`) and the package manager it shares
with the `component` command line (`wasm-package-manager`). TLC checks the
models on small instances, TLAPS proves the main safety properties for every
instance.

`PROJECT.json` lists the components, the runs, the lines of source each
definition translates (`map`), the faults each property detects (`mutants`),
the hazards and the theorems.

## The system

| Part | State it keeps | Operations | Model |
|---|---|---|---|
| Fetch queue (`storage/store.rs`, table `fetch_queue`) | one row per (registry, repository, tag, kind): status, claim, attempts, priority, created_at, updated_at | enqueue, refetch, dequeue, complete, fail, recover | `FetchQueue`, `TaskBoard`, `FetchQueueBoard` |
| Background indexer (`indexer.rs`, `indexer_lease.rs`) | per process: is_leader, refetch, timers; shared: a Postgres advisory lock, the time of the last discovery | lease check, discovery pass, queue drain, config backfill, sleep | `Indexer` |
| Package indexing (`manager/index.rs`) | none of its own | list tags, enqueue the new ones | in `Indexer` and `FetchQueue` |
| Image store (`storage/store.rs`, `manager/mod.rs`) | rows for manifests, layers, tags, WIT packages; a blob cache on disk; lock files | pull, install, register and remove local components, delete, reindex | `ImageCache` |
| HTTP server (`server.rs`) | none but the stats cache | `notify`; read-only queries | `notify` in `Indexer` |
| Stats cache (`stats_cache.rs`) | one value with a time to live | get or compute | planned |
| Registry sync (`sync_from_meta_registry`, the client) | ETag, time of the last sync, known packages and their WIT rows | conditional fetch, update | `RegistrySync` |
| Startup (`store.rs`, migrations crate) | schema version, a second advisory lock | migrate | planned |
| Project directory (`component-cli`, `wasm-manifest`, the resolver) | `wasm.toml`, `wasm.lock.toml`, `vendor/wasm`, `vendor/wit` | init, install, run, local clean | `Project` |
| Command line of a library component (`wit2cli`) | none that outlives a call | extract functions, build a clap command, collect the values of a call | `LibraryCli` |
| Detector, compose, publish, WIT parser, wire types, frontend, xtask | none that outlives a call | | not modelled |

How they interact. The command line and the indexer both use one `Manager`,
which owns one `Store`. A discovery pass of the indexer asks the upstream
registries for tags and *enqueues* new versions; the drain *dequeues* rows and
pulls images into the image store under a timeout, then *settles* the row.
`notify` resets a row from the HTTP server, at any moment. Replicas share the
database and nothing else; the advisory lock elects the one that indexes. The
processes of one machine share a data directory: its database, its blob cache
and two kinds of lock files. The commands of a project share its directory, too,
and no lock at all: each reads the files it needs, works, and writes them back.

What is hard here:

* A dequeue is two statements in a transaction; a settling update may come from
  a worker whose row was recovered, or reset, and claimed by another since.
* Timers on two clocks (the worker's and the database's) have to agree that an
  abandoned row is really abandoned.
* The advisory lock belongs to a database session. It is gone the moment the
  server drops the session, and it stays when the server does not notice that
  the client is gone.
* The statements of a pull commit one by one; a crash may come between any two,
  and the tag, the manifest and the blob live in different stores.
* Blobs are shared by packages: a deletion decides what nobody uses and removes
  it later.
* A sync stores packages one by one, and then an ETag that keeps the registry
  from ever sending them again; other syncs, pulls and deletions run beside it.
* An install writes two files in place, one after the other, and vendored files
  whose names `run` has to reconstruct later. Its entries are vendored
  concurrently into one directory, and a failure may end it in the middle.
* The command line of a library component walks a signature twice, once to build
  the command and once to collect its values, and clap panics where they differ, or
  where two parameters come to share one argument.

`PROJECT.json` lists each hazard at its line with the properties that cover it,
or why none does.

What makes each part correct:

* queue: a row is handed to one worker at a time, nobody's stale result counts,
  a refetch is not lost, attempts are bounded, no row is stuck;
* indexer: one replica works, up to a bounded overlap after a lost session; a
  recorded pass is complete and recorded by a leader; the index stays fresh and
  every published version is pulled or given up;
* image store: a layer row has its blob, a published tag has its layer, a local
  name stays registered until it is removed, a retry repairs what a crash left;
* registry sync: an ETag and a time are stored only for a page that is wholly in
  the index, and the resolver's rows of that page stay;
* project directory: an install that succeeds leaves what can be run, locked and
  unpacked, whatever the directory went through, and takes nothing away;
* library command line: every call that can be said is made, from one command
  line, and what clap accepts is called, unless parameters share an argument.

## Modules

```
TaskBoard  <---refines---  FetchQueueBoard --extends--> FetchQueue
    ^                             ^
    |                             '-- FetchQueueProofs
    '---instance---  Indexer <-- IndexerProofs

ImageCache <-- ImageCacheProofs <-- ImageCachePublishProofs
    ^                                       ^
    '---extends---  ImageCacheHistory <-- ImageCacheHistoryProofs

Project <-- ProjectProofs

LibraryCli <-- LibraryCliProofs

RegistrySync <-- RegistrySyncProofs

MCFetchQueue, MCIndexer, MCImageCache, MCRegistrySync, MCProject, MCLibraryCli:
constants of the runs
```

### FetchQueue

The table `fetch_queue` and `Manager::process_next_task`.

| Model | Code |
|---|---|
| `status`, `claim`, `attempts`, `priority`, `created` | the columns; `created` is only the rank of `created_at` |
| `age` | now minus `updated_at` of an in_progress row, up to `AgeCap` |
| `pc`, `job`, `held`, `spent` | where a worker is in `process_next_task`, its `FetchTask`, and how long it has been there |
| `requested` | history: the claim when the last refetch came |
| `EnqueuePull`, `EnqueueReindex`, `RecordCompleted` | the `INSERT ... ON CONFLICT DO NOTHING` producers |
| `EnqueueRefetch` | the upsert that resets status, priority and attempts, and waits for the row lock |
| `SelectPending`, `CommitClaim` | the two statements of `dequeue_next`; `Candidate` is `FOR UPDATE SKIP LOCKED` |
| `StartWork`, `WorkSucceeds`, `WorkFails`, `WorkTimesOut` | the pull or reindex under `tokio::time::timeout` |
| `CompleteTask`, `FailTask` | `complete_task`, `fail_task` with `still_claimed` |
| `Recover` | `reset_stale_in_progress_tasks` |
| `Crash` | the process dies, or a database call fails |

The model is of the Postgres backend, where replicas exist. `Prompt` says
whether timers are on time. With `Prompt = FALSE` a worker can be suspended
anywhere for any time, so that it comes back to a row that others have since
recovered, completed and claimed again.

`TASK_TIMEOUT_SECS < STALE_TASK_SECS` is asserted at compile time. The model
asks for `TaskTimeout + ReplyDelay <= StaleAfter`, because `updated_at` is the
start of the dequeue transaction and the worker's timer starts when it has the
reply. With the constants of the code that leaves 5 minutes for the reply.

### TaskBoard and FetchQueueBoard

`TaskBoard` is what the queue promises: a task is open, owned by at most one
worker whose report counts, or settled. It has no claims, locks, timers or
ages. `FetchQueueBoard` maps the queue to it: the owner of a task is the worker
whose claim passes `StillClaimed`. `Indexer` uses the board in place of the
queue.

### Indexer

`Indexer::run` of several replicas. A step of a replica is one call: a lease
query, listing the tags of a package, an enqueue, a dequeue, a pull, a settling
update, a config blob. `rep[r]` holds what the process has in memory. `lock` and
`orphan` are the advisory lock and whether the session that holds it has lost
its client. A package stands for a version tag.

| Model | Code |
|---|---|
| `TryHold`, `Check`, `LeaseStillHeld` | `IndexerLease::try_hold` in `check_leadership` and `lease_still_held` |
| `TimeUntilDiscovery`, `DiscoveryDelay` | `time_until_discovery` |
| `NextPackage`, `ListTags`, `Enqueue`, `EndPass`, `Record` | `discover`, `index_package_inner`, `enqueue_new_tags`, `record_index_discovery` |
| `StartQueue`, `RecoverNothing`, `RecoverTasks`, `Dequeue`, `DequeueFails`, `EndTask`, `Settle` | `process_queue` |
| `StartBackfill`, `BackfillConfig`, `Wake` | the rest of `run` |
| `LoseSession`, `EndSession` | a broken connection; the server ends the session |
| `Notify` | the `notify` endpoint of any replica, for a version that is in the queue or not |

`checked` is the local `last_lease_check` of whichever phase runs. The order of
packages in a pass is left open. Pauses between tasks (250 ms, 2 s) count as
part of the task.

### ImageCache

Processes on one data directory. Every statement of `Store::insert`,
`insert_metadata`, `insert_layer`, `repair_layer_metadata`, `reindex_tag` and
`delete_with_blob_cleanup` is an action, and `Abort` may end an operation before
any of them. An image is a manifest with one layer that holds a named WIT
package. `live` is whether the row whose id an operation remembers still
exists: ids are not reused, so a deleted and reinserted manifest does not revive
it. `cacheLock` is `cache-mutations.lock`; local names have their own lock
(`NameFree`), held for the whole operation.

The lock is held by `insert` and `insert_layer` from before the blob is written
until after the row and its metadata, and by a deletion with cleanup from
before it resolves the reference. `insert_metadata`, `reindex_tag`,
`delete_preserving_blobs` and the reads do not take it.

`ImageCacheHistory` adds two history variables: the manifests whose metadata a
reindex cleared (`unindexed`), and the layers whose blob an operation left behind
(`left`) because it stopped between blob and row, or between row and blob, or
because it removed a local component, which keeps its blob on purpose.
`UnusedBlobsAreExplained` says that there is no other leak.

### RegistrySync

`Manager::sync_from_meta_registry` of several processes that share one index.

| Model | Code |
|---|---|
| `repo` | rows of `oci_repository` |
| `stub`, `pulled` | rows of `wit_package` without and with a manifest; a `pulled` row stands for the tag of its image, too, and has what dependencies its image names |
| `whole` | the stubs with all their `wit_package_dependency` rows |
| `etag`, `synced` | `packages_etag`, and whether there is a `last_synced_at`, in `_sync_meta` |
| `listing`, `PageOf` | what the registry lists, and the page `list_known_packages` makes of it |
| `Start` | a sync that is not skipped: `SyncPolicy::Force` may start one at any time, so the interval of `should_sync` is left open |
| `ReadEtag`, `LookForData` | the two reads before the request |
| `FetchNotModified`, `FetchUpdated`, `Degrade`, `Refuse` | the results of `fetch_packages`, and what becomes of them |
| `UpsertRepo`, `StoreEtag`, `Stamp` | the statements of `handle_update` and `update_last_synced_at` |
| `FindRow`, `InsertRow`, `StoreDeps`, `FailRow` | those of `upsert_package_dependencies_from_sync`, and what `handle_update` makes of its error |
| `Abort` | a statement fails, or the process dies |
| `Pull`, `Delete` | `ImageCache` in two actions, as far as these tables go |
| `lost`, `bare` | history: rows, and dependencies of rows, that a sync failed to store or that went with a deleted image |

An ETag is the page it came with. The server in this repository sends none: a
response with one, or a 304, comes from whatever stands before it, so
`StoreEtag` is free not to happen. Between any two statements of
`upsert_package_dependencies_from_sync` another process may act: a stub that
appears after `FindRow` makes the insertion fail on its unique index, and the
deletion of a pulled row leaves the sync with the id of no row (`Unanchored`).
`StoreDeps` stands for all dependencies of a package; if one fails, the package
counts as `bare`. Attempts of `fetch_packages` that are repeated have no
effect, so only the last one is a step.

### Project

The commands that work in a project directory, statement by statement as far as
the files go. The package manager is `ImageCache`; here an entry of an install is
fetched or fails.

| Model | Code |
|---|---|
| `manifest`, `lock` | `wasm.toml` (there or not, its entries) and `wasm.lock.toml` (missing, whole, or empty after a crash) |
| `wasm`, `wit` | the files of `vendor/wasm`, with the package and version they hold, and those of `vendor/wit` that are whole |
| `proc[p]` | the command of a process: where it is, the entries and locked packages it has in memory, its planned entries and how far each has got |
| `ReadManifest`, `ReadLock` | `install::Opts::run` up to the plan; `Plan` is what follows without another effect: `Wanted` from `resolve_install_inputs`, `Selections` from the resolver, `Transitive` and `Skipped` |
| `Fetch`, `ReadWasm`, `WriteWit`, `RemoveWasm` | one entry: `Manager::install` up to the rename into `vendor/wasm`, then the three effects of `re_vendor_wit_files`, each of which may fail (`FailUnpack`); entries interleave |
| `WithResult` | `process_top_level_result`, or the lockfile entry of a transitive package |
| `WriteManifest`, `WriteLock` | the two files are written back |
| `LookUp`, `Skeleton`, `EmptyManifest`, `SkeletonLock`, `EmptyLock`, `LookUpAgain` | `resolve_remote_bytes` and `auto_install` |
| `CleanLock`, `CleanWasm`, `CleanWit` | `local clean` |
| `Crash` | the process dies; a file of the project that it was writing stays empty, one of `vendor/wit` is not whole |

A name with a version (`scope:name@1`) is a record, because install and run treat
the version differently. `Embedded` is the package name inside the binary, which
names the vendored file; it may be the placeholder `root:component`. PubGrub is a
library: `Selections` is every answer its provider (`get_dependencies`,
`choose_version`, `VirtualRootProvider`) allows. Results of entries are merged
into the files in memory as they complete, where the code merges them after the
last one; nothing reads them in between. A transitive entry that cannot be unpacked
is "raw": the code logs the error and merges its result like any other. `alone` and `planned` are auxiliary: no
other command ran since this one began, and its dependencies were planned.

### LibraryCli

`component run` of a component that exports functions: `extract_library_surface`,
`build_clap`, clap's matches and `parse_invocation`, one action each. A signature
is a tree of kinds and names; the types that the code treats alike are one kind
("int" for bool, integers and f32, "f64" for f64 and char, "tuple" for tuple,
result and flags). A flag's name is a sequence of words, so that `a-b` of a field
and `a` with field `b` can collide.

Exports and functions are dropped on the way, each time for another reason: those
without a `WitTy`, then those without an argument for a parameter. Lists from which
things are dropped keep the places of what is left (`Surface`, `Commands` and `Tree`
are functions on places), so that a subcommand can be compared with the export it was
built from. The code knows no places: it looks a name up (`Named`).

clap is external. `Accepts` is what it vouches for in a release build: values for the
ids of the command's arguments, of a type that was stored for the id, one at least where
one is required, one at most where it is not repeated, positional ones in their order.
`Matches` lists them, up to `MaxRepeats` values of a repeated argument; the proofs
use `Accepts` alone. `Panics` is what `ArgMatches` asserts. A debug build of clap also
asserts something of a command before it parses a line (`Asserted`, `AssertFails`).

That the arguments of a command have different ids is up to `build_func_command`, and
it does not see to all of it: `seen` holds the flags of records, and neither the names
of positional parameters nor the flags of lists. For
`f: func(id: u32, r: record { id: string })` it builds two arguments `id`. The values of
both are filed together (`Sharing`, `Filed`), as clap does it. A debug build fails an
assertion; a release build accepts `f 1` and panics when it reads the number as text,
and where the types agree it reads the one value for both. `Shadowed` names these
functions: `ReadsWhatIsStored` says that nothing else makes the program panic, and
`SpelledFunc` and `AcceptedIsInvoked` leave them out. A debug build fails an assertion
for three more things a component may have: a mandatory parameter after an optional one
(`Backwards`, as in `f: func(a: option<u32>, b: u32)`), an argument named `help`, and
two exports of one short name.

A list of records is one JSON object for each record. It is collected as the code does
(`JsonToVal`, but for fields that are themselves records or lists, which a JSON member
may be and the model leaves out), and no property speaks of its values: `Plain` leaves
it out of the calls that `EveryCallCanBeMade`, `NothingIsIgnored` and
`AcceptedIsInvoked` are about, although most such calls can be made.

Two packages may each export an interface `run`. Both items have that short name,
`parse_invocation` takes the first, and collects for its functions what clap matched
for a command of the other, if it gets so far: such calls are outside the properties
(`Invoked`), and debug builds of clap refuse the two subcommands.

## Runs

| Run | Question | Size |
|---|---|---|
| `fetch_queue_suspended` | Do claims fence workers that were suspended for any time? | 244k states |
| `fetch_queue_live` | Does only a refetch let two workers pull one version? Does the queue implement the board? Does every row settle although workers crash? | 343k |
| `indexer_lease` | What can a replica that lost its session still do? | 2.5M |
| `indexer_live` | Is there one indexer when sessions hold? Does the index stay fresh, does every version settle, and how far apart are passes? | 242k |
| `indexer_interval` | *Violated:* is there one discovery per interval, across restarts? | |
| `image_cache` | Do shared blobs, published tags and local names survive any interleaving? Do retries repair? Which blobs leak? | 736k |
| `image_cache_install` | *Violated:* does a successful pull bring the layers an install vendors? | |
| `registry_sync` | Are ETag and time earned, whatever else happens? Which rows and dependencies can be missing? | 1.7M |
| `registry_sync_nodata` | *Violated:* does a sync only fail without cached data? | |
| `project_install` | Can what was installed be run, and does it stay so? Are dependencies locked and interfaces unpacked, wherever a step fails? | 110k |
| `project_run` | *Violated:* does `run` find what it has just installed? | |
| `library_cli` | Can every function that is offered be called, with every value, in one way? Which ones panic? | 114k |

Every passing property has a mutant: one definition of the model changed the way
a plausible bug would change the code, for which TLC finds the property violated.
The changed definitions stand before the right ones under the comment `Fault:`.

### Bounds, and why they are enough

* Two workers or replicas: every hazard of the queue and of the lease is a
  conflict of one actor with one that came after it. Two processes in the image
  store: one deletes while the other pulls the same layer under another name, or
  registers, or installs without the lock; a third only adds operations that end
  between the steps of these two, and an operation may end anywhere.
* `TaskTimeout = 2`, `ReplyDelay = 1`, and `StaleAfter` 3 for suspended workers,
  the tightest value the assumption allows, and 4 for prompt ones, where the
  mutant that recovers a row at the timeout shows.
* `MaxAttempts` 2 or 3, `MaxClaims` 4: a row can be claimed, recovered, claimed,
  refetched and claimed again. `MaxClaims` is 10 in the liveness run, where it
  never binds: attempts, faults and refetches run out first.
* `Retry = 1`: a lease can grow stale in a pass, a drain or a backfill.
  `Interval = 2` in the runs about passes, where a nap may be shorter than the
  interval, and 1 in `indexer_lease`, which is not about the interval.
  `WorkMax = DbMax = 1`.
* `MaxFaults = 2` in `indexer_lease`: lose a session and then fail a call, or
  lose it twice.
* `MaxQueueErrors = 1` for 5: the first error ends the drain. With the bound on
  faults, five in a row would not happen at all.
* One remote tag and one local name, with three manifests that share one layer:
  the name is replaced by itself and by another manifest, while the remote package
  comes and goes. A layer of its own is no more than a layer whose other users are
  gone, which this instance has too; the theorems are for any layers.
* Two commands at once in a project and `MaxCommands = 3` in all: two that may
  overlap and spoil the directory, and a last one, alone, that has to cope with
  it; what the properties promise, they promise to a command alone. A component
  that needs an interface of at least its own version, in two versions, and a
  component with the placeholder name; a manifest with a bare and an explicit
  entry to begin with.
* Functions of one and two parameters over twenty types: the rules of `wit2cli`
  depend on a parameter's type, on whether it is the last, and on whether more
  than one is a record, so that two show every case; also two parameters of which one
  has the name of a flag of the other. `MaxRepeats = 2`.
* Two syncs, two packages, one of them with a WIT name that is also pulled and
  deleted, any initial listing of two versions and one change to it: a sync may
  overlap another with an older page, and the second package shows what a loop
  that is cut off leaves out. The page holds both packages; the violated run has
  a page of one.

Symmetry is used in safety runs only. Two systems really stop, and their runs do
not check for deadlock: a command line that has made its call, and a project whose
user asks for nothing more (after `MaxCommands`).

### Fairness

* `FetchQueue`: `process_next_task` is called in an endless loop, so each
  worker's `Step` and `Recover` are weakly fair, and time passes. Whether a pull
  succeeds, and what producers do, is left open; crashes are bounded.
* `Indexer`: `run` is an endless loop on a thread of its own (`Step`), the
  platform restarts a dead replica, Postgres eventually ends the session of a
  dead client, time passes. `RecoverTasks` is strongly fair. Its guard comes and
  goes with the phase of the replica, while the code recovers a row at the first
  such point after the row got stale; the board has no ages, and `FetchQueue`
  shows on its own that recovery works from them.

## Findings

1. `indexer_interval`. `Indexer::run` is documented to discover "at most once
   per `sync_interval`, including across restarts". Only completed passes are
   recorded, so a replica that restarts during a pass begins another at once.
   `DiscoveryIsPaced` says what is left: completed passes are an interval apart
   across crashes, and passes begin an interval apart while no replica crashes,
   as long as no session or call is lost and `--refetch` does not ask.
2. `image_cache_install`. `insert_metadata` commits the manifest and the tag
   before any layer is stored, and `pull_with_progress` takes a manifest that
   exists for a cached package. After an install or a pull that stopped in between, the
   next installs of that reference bring no layer and fail to vendor.
   `Store::insert` has a check for exactly that (`needs_layers`).
3. `registry_sync_nodata`. A sync that fails should report an error "only when
   the sync fails **and** no cached data exists". Whether there is cached data is
   asked of the first repository by name, which counts only if it has a version
   tag, and syncs store no tags. After any number of complete syncs, one that
   fails reports that there is no local data.
4. `project_run`. `component run scope:name@1` of a component that is not
   installed yet installs it under the manifest key `scope:name@1`, looks for
   `scope:name`, as its comments say, and does not find it.

The model of the project directory shows more that no document speaks about, so
that the properties name it as an exception:

* a component that carries `root:component` is vendored as
  `root-component-1.wasm`, and `run` reconstructs another name from its lockfile
  key: `OwnName` in `InstalledIsRunnable`;
* after `component install scope:name@1` the manifest has a key that a second
  install turns into `scope:name@1@1`, which is no reference: `CanInstall`;
* a transitive interface that cannot be unpacked is only logged and locked all the
  same, so that an install succeeds without it, and later installs skip it because
  its name is in the lockfile: "raw" in `WitIsUnpacked`;
* a dependency whose name is in the lockfile is skipped at whatever version it
  is, so that an upgrade may keep one that is too old: the last conjunct of
  `DependenciesAreLocked`;
* two commands at once lose each other's entries, and `run` may replace a
  manifest that was written after it looked: `alone`.

And that of the command line: a parameter with the name of a flag of a record makes
the program panic (`Shadowed`, above); `json_scalar_to_val` has no case for f64, char, enum
and variant, so that a function whose list of records has such a field is offered
and cannot be called; neither can one with a field of a type that has no argument,
although `build_clap` means to skip "exports that use unsupported argument types"
(crates/wit2cli/src/cli.rs:90). `Spelled` excludes these types by name. Two
things cannot be said on any command line (`Unsayable`): an optional positional
argument left out before one that is given, and an optional record that is there
with nothing in it.

`RowsUnlessLost` names two ways to a package the resolver cannot see although
the registry says "not modified": storing its row failed, which is only logged,
or the sync found the row of a pulled image, whose deletion then took it away.
`DependenciesUnlessLost` says the same of the dependencies, with a third way: two
syncs that insert one row at once, where the one that succeeds stops before it
stores the dependencies and the other has only logged its failure.
Only a change of the registry's page brings the row back.

`OverlapIsBounded` is not a finding but deserves attention: that one replica
indexes, as the docs put it, holds only while the leader's database session
lives (`SingleIndexer`). After a lost session two may work for one retry
interval, one unit of work and a database call; the claims of the queue make
that harmless.

The model of the queue also assumes that crashes stop. Recovery does not count
an attempt, so a version whose pull kills the worker is tried for ever.

## Proofs

The modules whose names end in `Proofs`. Assumptions are only the `ASSUME`s of the
modules, which TLC evaluates in every run.

**FetchQueue.** `IInv` is inductive, for any sets of tasks and workers:

* `TypeOK`, `AttemptsAgreeWithStatus`, `JobsAreTasks` (a busy worker has a job);
* `LocksHold`: of the workers inside a dequeue transaction at most one has a
  given row; that row is still pending, and the claim it will commit is one more
  than the row's. `ClaimsAreUnique` alone is not inductive without it;
* `ClaimsFollowRequests`: no claim is larger than the row's counter, nor was any
  refetch asked for at a larger one;
* `ClaimsAreUnique`.

From it follow `TypeCorrectness`, `ClaimUniqueness`, `AttemptsCorrectness`,
`NewestSettles` and `RefetchKept` (an action property: a worker that completes a row passes
`StillClaimed`, and a refetch set the row to pending, so its claim is newer).
`NoOverlap` adds the arithmetic of ages: under `Prompt`, while a worker has a
current claim, its row is younger than `StaleAfter` (`WorkIsTimely`), so only a
refetch can have revoked the claim of a worker that pulls (`RevokedByRefetch`).

`QueueIsBoard` is the refinement. The owner of a task is the
worker whose claim is current, one at most by `ClaimsAreUnique`. Insertions, claims,
refetches, crashes and reports that pass the `WHERE` clause each map to an action of
the board; what a worker does whose claim is stale maps to a stutter. `Recover` maps
to `Reopen`, which the board allows only for tasks that nobody pulls, and that
nobody does is `WorkIsTimely`: the theorem assumes `Prompt`.

**Indexer.** `IInv` of `IndexerProofs` holds for any number of replicas and packages
and any lengths of the timers:

* `TypeOK`; `LeaseInv` (a lost session is that of the lock; without faults a
  replica that believes it leads holds the lock) and `BoardInv` (a task has an
  owner only while it is in progress);
* `OnSchedule`: the time spent in a phase, the batch and the errors of a replica
  are within what its `pc` allows;
* `Trusted`: how old the loss of its lease can be at each place without being
  noticed. Work begins within one retry and one database call of a loss, because
  the lease is checked whenever the retry timer has run out; a pass is
  recorded right after a check;
* `Covered`: in a pass, each version that was published when it began is in the
  queue already, or in the packages still to do, or in the current one.

From it follow `TypeCorrectness`, `OneIndexer`, `BoundedOverlap`, `LeaderRecords`
and `CompletePasses`. `Covered` is about one replica but must survive the steps of
all: versions never leave the queue (`BoardKept`), so that workers, notifications
and a second indexer cannot take away what a pass has promised.

`PacedDiscovery` proves what is left of the promise that finding 1 refutes. It needs
a second invariant, `PaceInv`, relative to `IInv`: a replica in a pass believes it
leads; a pass that `--refetch` did not ask for stays due until it is recorded; and
between passes the last one was recorded no longer ago than it began. The last two
assume that nothing was lost, the third also that nobody crashed: then two replicas
are never in a pass (`OnePass`), none stops half-way (`LeaseConfirmed`), and nobody
else can record one in between. Most steps are `Apart` from all this and share one
lemma.

**ImageCache.** `LayersAreCached` needs to know where every process stands:

* `ProcState`, `Fits`: stage, operation and manifest fit together, and a process
  between `Lock` and its release holds the lock;
* `LiveRowExists`: `live` implies that the manifest row exists;
* `BlobComesFirst`: a process about to write a layer row has its blob in place;
* `DoomedAreUnused`: a digest that a deletion is going to remove belongs to no
  layer row but that of the manifest it deletes.

The argument is the lock: a process between blob and row, and a process between
collecting digests and removing them, exclude each other, so that nothing doomed
gets a new row. The deletions without the lock only remove rows. Proved:
`TypeCorrectness`, which includes the foreign keys, and `LayersCached`.

`ImageCachePublishProofs` goes on to `RegisteredIsInstallable`: a registered name
has its manifest and its layer row, and so its blob. The strengthening `LInv` says
of every process whose images it may touch (`Own`: a pull or an install publishes
no local name, a deletion of a registration aims at the manifest that was replaced)
and that one which is about to publish a local name has stored its layer
(`Complete`). Images of local names belong to no repository but their own
(`RepositoryAssumption`), so that no deletion of a package can take them.

In the same module are `CompletePublications` and `NamesAreKept`. What a pull has
found or written must stay until it publishes, although two deletions take no lock.
`PInv` says that those aim at a manifest of their own local name (`Aims`), which no
pull is about; that such a name is locked for the whole operation (`NamesLocked`);
and that what a registration deletes is no longer what the name stands for
(`Outdated`).

`ImageCacheHistoryProofs`: `BlobsAreExplained` and `RetriesRestore`. A deletion that
is about to commit has doomed the layer, or another row needs it, or somebody has left
it behind (`Reckoned`); a row that is deleted without the lock meanwhile is that of a
local component, whose layer counts as left. A retry that found its layers stored
keeps the id of their row (`Retry`), because no deletion of its manifest runs beside
it, and what clears metadata under it is a reindex, on record (`Restored`).

**RegistrySync.** `Sound` says what a sync knows of its page: everything up to
the item it has reached is indexed, all of it at "stamp", and all of the page of
an ETag it has read. What is indexed stays so (`Grows`), whoever takes a step:
that is why syncs need no lock for these properties. What a sync holds the id of
is not as lasting, and has an invariant of its own (`AnchorsHold`). Proved:
`TypeCorrectness`, `EtagEarned`, `RowsKept`, `DependenciesKept` and `StampEarned`.

**Project.** All properties of `project_install` are theorems, for any number of
commands at once, any packages, releases and dependencies. `IInv` has three parts:

* `Sound`, what a command knows by itself, whatever the others do to the files. An
  entry that is written under its package's name has its line in the manifest in
  memory (`Entered`); what is done or raw is in the lockfile in memory, and nothing else is
  there in its place, if the entries have different keys (`DoneAreLocked`); the
  dependencies that were planned are a whole selection of the resolver, each of it an
  entry of this install or locked before (`PlanHolds`);
* `Agrees`, what the files hold for a command that is alone: the manifest and the
  lockfile are those it read, line by line, or those it wrote (`ManifestAgrees`,
  `LockAgrees`), and vendored files are there until their entry moves on, whole and unpacked once it
  is done (`FilesAgree`);
* `OthersAreIdle`: beside a command that is alone nobody works. A start ends being
  alone for everybody, so that `Agrees` need not survive the steps of others.

The files themselves may be in any state that crashes and overlapping commands leave;
`IInv` asks of them only that a bare entry stands in the section of its package and
that a package's own name is locked for that package (`EntriesFit`, `LocksFit`). The
first of it is an assumption about manifests that users write (`UserAssumption`);
`ReleaseAssumption` lets `Latest` exist. Proved: `TypeCorrect`, `InstalledAlwaysRuns`,
`DependenciesAlwaysLocked`, `UnpackAlwaysFindsFile`, `WitAlwaysUnpacked` and the action
property `AlwaysStaysRunnable`, which rests on `OwnFile`: the file of a package that
carries its own name is nobody else's.

**LibraryCli.** All six properties are theorems, for every component that WIT allows:
a list holds one type, the fields of a record and the cases of a variant have different
names (`TypeAssumption`), and so have the functions of an interface and the parameters
of a function (`ComponentAssumption`). Nothing is assumed of the arguments of a command. The
invariant `IInv` is small, for every stage keeps what the earlier ones made; the work
is in the lemmas about building and collecting, which walk a signature separately:

* `OneReadsItsArgs`: where collecting a parameter panics, it does so at an argument
  that building added for that very parameter, with the same prefix and the same type;
* `IdsApart`: the ids of a command are different unless a parameter has the name of a
  flag (`Shadowed`). An argument is a flag that building has compared with the others,
  or the only one of its parameter, under its name (`SeenOrNamed`). So each id files the
  values of one argument (`AcceptsIs`, `VouchedFor`). With `AssertedIs`, which
  goes through the assertions of clap, this gives `AlwaysReadsStored`;
* `DispatchedIs`: the first item and function with the names of the subcommand are
  those it was built from, because names of functions differ and places are kept. From
  this `AlwaysInvokesOffered`;
* `OneOk`: an accepted argument of a type that can be spelled out is collected without
  an error, unless a field of an optional record is missing. From this
  `AcceptedAlwaysInvoked`;
* `OneSame`: the values of every argument can be read off what is collected, kind by
  kind: no two lists, no two sets of flags, and no absent and present option give one
  value. From this `NothingIsEverIgnored`;
* `ParamIsMade`, the converse: where clap has stored, for the arguments of a parameter,
  what `SaidFor` says for a value, the parameter is collected into this value, the
  arguments are accepted, and a positional one is empty exactly where the value takes
  nothing. `CommandLine` puts these together for a whole call. It is accepted unless a
  positional argument would follow one that is left out, or an optional record is there
  with nothing in it (`Unsayable`). From this `EveryCallIsMade`.

Only model-checked: liveness, because it rests on fairness and `ENABLED`, beyond
the prover, and what the violated runs show.

## Not modelled, and why

* Referrers and their placeholder manifests, deletion by digest, known packages:
  further rows beside the ones modelled.
* The cooldown of `notify`, `known_tags` as a snapshot of two tables, the choice
  of the tag that names a package: data the properties do not tell apart yet.
* SQLite in one process: the same statements without replicas.
* Several data directories on one database: each replica has its own blob cache;
  the image store is modelled for processes that share theirs.
* In `Project`: `local:` entries, `--global` and OCI references of `run`; names
  whose vendored files coincide once `:` and `/` are `-`; binaries whose embedded
  version is not their tag; tags that move. `wasm.toml` and `wasm.lock.toml` are written whole or left empty; a
  write that fails ends the command, as `Crash` does.
* In `LibraryCli`: reading numbers, floats and characters; help texts; the
  fallback for components without a component-type section; more than one level
  of types inside a list or an option.
* `validate` of a lockfile (no command calls it), the merge of permissions, the
  order of tags: pure functions beside the state that is modelled.
* The progress bars of an install: display only.
* In `RegistrySync`: descriptions and kinds of a package, which
  an older page may write over newer ones; what lies beyond the first page,
  which is never fetched; the interval between syncs; a second registry URL.
* Everything in the table above without state.

## Plan

Order of work; the first six are done.

1. `FetchQueue`, its proofs, `TaskBoard` and the refinement.
2. `Indexer` on the board: lease, passes, drain, backfill; its proofs.
3. `ImageCache` and its proofs, `ImageCacheHistory`.
4. `RegistrySync` and its proofs.
5. `Project`: the directory and its commands; its proofs.
6. `LibraryCli` and its proofs.
7. Referrer placeholders and deletion by digest in `ImageCache`; the cooldown
   (`is_tag_fresh`) between `FetchQueue` and `ImageCache`; attributes of packages
   in `RegistrySync`; `compose` and `local:` entries in `Project`.
8. `StatsCache` and `MigrationLock`: single flight, no value older than its time
   to live, cancelled computations; one migrator.
9. Operators checked against reference definitions: `pick_latest_stable_tag`,
   lockfile validation, the merge of permissions.

## Running it

```
tlc -config FetchQueue_live.cfg MCFetchQueue
tlapm FetchQueueProofs.tla
```
