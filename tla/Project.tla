-------------------------------- MODULE Project --------------------------------
(***************************************************************************)
(* The project directory and the commands that work in it: `component      *)
(* init`, `install`, `run` and `local clean`.  They share the files        *)
(* wasm.toml, wasm.lock.toml, vendor/wasm and vendor/wit, and no lock.     *)
(* An install reads both files into memory, plans, vendors its entries     *)
(* concurrently, and writes both files back.                               *)
(*                                                                         *)
(* A package is a WIT package with a repository of its own; a version is   *)
(* its tag.  The package manager behind the commands is ImageCache: here   *)
(* an install of an entry succeeds or fails.                               *)
(***************************************************************************)
EXTENDS Integers, FiniteSets

CONSTANTS
    Proc, Package, Version, NoPackage,
    Component,      \* SUBSET Package; the others are WIT interfaces
    Placeholder,    \* the name root:component
    Embedded,       \* [Package -> Package \union {Placeholder}]: the name in the binary
    Published,      \* [Package -> SUBSET Version]: indexed and in the registry
    Depends,        \* [Package \X Version -> SUBSET (Package \X (Version \union {0}))]
    HandWritten,    \* manifests a user may begin with
    Requests        \* the commands a run starts

Name == Package \union {Placeholder}

\* A manifest or lockfile key, and a vendored file: a name and "@version", or 0.
Tagged == [name : Name, at : Version \union {0}]

Plain(n) == [name |-> n, at |-> 0]

Section == {"components", "interfaces"}

SectionOf(p) == IF p \in Component THEN "components" ELSE "interfaces"

\* An entry of wasm.toml: a bare version, or an explicit repository and version.
Entry == [section : Section, key : Tagged, ver : Version, repo : Package \union {NoPackage}]

Locked == [section : Section, key : Tagged, ver : Version, repo : Package,
           deps : SUBSET (Package \X Version)]

\* What a user asks for: a WIT name, or an OCI reference.
Input == [by : {"name"}, pkg : Package, at : Version \union {0}]
         \union [by : {"reference"}, pkg : Package, at : Version]

Command == [op : {"init", "clean"}, inputs : {{}}]
           \union [op : {"install", "run"}, inputs : SUBSET Input]

ASSUME NameAssumption == Placeholder \notin Package /\ NoPackage \notin Package
ASSUME VersionAssumption == Version \subseteq Nat \ {0}
ASSUME PackageAssumption ==
    /\ Component \subseteq Package
    /\ Embedded \in [Package -> Name]
    /\ Published \in [Package -> SUBSET Version]
    /\ Depends \in [Package \X Version -> SUBSET (Package \X (Version \union {0}))]
\* What is published of a package is finite.
ASSUME ReleaseAssumption ==
    \A p \in Package : Published[p] # {} =>
        \E v \in Published[p] : \A w \in Published[p] : w <= v
\* A bare version that a user writes stands in the section of its package.
ASSUME UserAssumption ==
    /\ HandWritten \subseteq SUBSET Entry
    /\ \A m \in HandWritten : \A d \in m :
          d.repo = NoPackage /\ d.key.name \in Package => d.section = SectionOf(d.key.name)
    /\ Requests \subseteq Command
    /\ \A c \in Requests : c.op = "run" =>
          \E i \in Input : i.by = "name" /\ c.inputs = {i}

\* An entry of an install: PlannedInstall, and how far it has got.
NoKey == [name |-> NoPackage, at |-> 0]

Task == [pkg : Package, ver : Version, key : Tagged \union {NoKey},
         update : BOOLEAN, transitive : BOOLEAN]
\* "raw" is installed, but not unpacked.
TaskStage == {"fetch", "read", "write", "remove", "done", "raw", "failed"}
Installed == {"done", "raw"}
Settled == Installed \union {"failed"}

Stage == {"idle", "lookup", "skeleton", "makeManifest", "skeletonLock", "makeLock",
          "manifest", "lock", "work", "saveLock", "done", "again",
          "init", "initLock", "clean", "cleanWasm", "cleanWit"}

VARIABLES
    manifest,   \* wasm.toml: [there, entries]
    lock,       \* wasm.lock.toml: [is : "missing", "ok" or "torn", pkgs]
    wasm,       \* vendor/wasm: files, and what they hold
    wit,        \* vendor/wit: the files that are whole
    proc        \* [Proc -> ...]: the command each process runs

files == <<manifest, lock, wasm, wit>>
vars == <<files, proc>>

Idle == [at |-> "idle", cmd |-> [op |-> "init", inputs |-> {}], entries |-> {}, pkgs |-> {},
         tasks |-> {}, stage |-> [t \in {} |-> "done"], planned |-> FALSE, alone |-> TRUE]

Init ==
    /\ manifest \in [there : {TRUE}, entries : HandWritten]
                    \union {[there |-> FALSE, entries |-> {}]}
    /\ lock = [is |-> "missing", pkgs |-> {}]
    /\ wasm = {} /\ wit = {}
    /\ proc = [p \in Proc |-> Idle]

At(p, stage) == proc[p].at = stage

Become(p, state) == proc' = [proc EXCEPT ![p] = state]

Proceed(p, stage) == Become(p, [proc[p] EXCEPT !.at = stage])

End(p) == Become(p, Idle)

\* The next command: it is alone until another one starts.
First(c) == CASE c.op = "install" -> "manifest" [] c.op = "run" -> "lookup" [] OTHER -> c.op

Start(p) ==
    /\ At(p, "idle")
    /\ \E c \in Requests :
          proc' = [q \in Proc |->
                     IF q = p
                       THEN [Idle EXCEPT !.cmd = c, !.at = First(c),
                                         !.alone = \A r \in Proc \ {p} : At(r, "idle")]
                       ELSE [proc[q] EXCEPT !.alone = At(q, "idle")]]
    /\ UNCHANGED files

-------------------------------------------------------------------------------
(* Vendored files. *)

\* vendor_filename: the version in the name, or else the one it is given.
VendorFilename(key, v) == [key EXCEPT !.at = IF @ # 0 THEN @ ELSE v]

\* Fault: the file has no version.
FileOfName(p, v) == Plain(Embedded[p])

\* install names the file after the binary and its tag, run after the lockfile.
FileOf(p, v) == VendorFilename(Plain(Embedded[p]), v)
FileOfLocked(l) == VendorFilename(l.key, l.ver)

Vendored == [file : Tagged, pkg : Package, ver : Version]

FilesIn(dir) == {f.file : f \in dir}

-------------------------------------------------------------------------------
(* Resolving what to install. *)

Latest(p) == CHOOSE v \in Published[p] : \A w \in Published[p] : w <= v

\* resolve_wit_dependency: a version that is asked for is not checked.
CanResolve(n) == n \in Package /\ Published[n] # {}
Resolved(n, v) == IF v = 0 THEN Latest(n) ELSE v

\* resolve_manifest_dependency: the key of a bare version names the package.
\* "name@1" = "1" asks for "name@1@1", which is no reference.
CanInstall(d) == d.repo # NoPackage \/ (d.key.at = 0 /\ CanResolve(d.key.name))
FromManifest(d) ==
    [pkg |-> IF d.repo # NoPackage THEN d.repo ELSE d.key.name, ver |-> d.ver,
     key |-> IF d.repo # NoPackage THEN NoKey ELSE d.key,
     update |-> FALSE, transitive |-> FALSE]

\* resolve_install_inputs: a key of the manifest, where a component goes before an
\* interface, a WIT name or a reference.
Matching(p, i) ==
    LET of(section) == {d \in proc[p].entries : /\ d.section = section /\ i.by = "name"
                                                /\ d.key = [name |-> i.pkg, at |-> i.at]}
    IN IF of("components") # {} THEN of("components") ELSE of("interfaces")
CanUse(p, i) ==
    IF Matching(p, i) # {} THEN \A d \in Matching(p, i) : CanInstall(d)
    ELSE i.by = "reference" \/ CanResolve(i.pkg)
FromInput(p, i) ==
    IF Matching(p, i) # {} THEN {FromManifest(d) : d \in Matching(p, i)}
    ELSE {[pkg |-> i.pkg, ver |-> Resolved(i.pkg, i.at),
           key |-> IF i.by = "name" THEN [name |-> i.pkg, at |-> i.at] ELSE NoKey,
           update |-> TRUE, transitive |-> FALSE]}

Wanted(p) ==
    IF proc[p].cmd.inputs = {} THEN {FromManifest(d) : d \in proc[p].entries}
    ELSE UNION {FromInput(p, i) : i \in proc[p].cmd.inputs}

CanPlan(p) ==
    IF proc[p].cmd.inputs = {} THEN \A d \in proc[p].entries : CanInstall(d)
    ELSE \A i \in proc[p].cmd.inputs : CanUse(p, i)

\* Entries with a WIT name are roots, at the version of their key or their tag.
Roots(tasks) ==
    {<<t.key.name, IF t.key.at # 0 THEN t.key.at ELSE t.ver>> : t \in {u \in tasks : u.key # NoKey}}
RootNames(tasks) == {r[1] : r \in Roots(tasks)}

\* get_dependencies: a declared version is a lower bound, 0 is none.
Satisfied(f, q) ==
    \A d \in Depends[q, f[q]] : d[1] \in DOMAIN f /\ d[2] <= f[d[1]]

\* What PubGrub, a library, may answer: a selection that has every root at its
\* version (resolve_all_from_db), other packages at versions of the index
\* (choose_version), and nothing that is not needed.
Selections(tasks) ==
    {f \in UNION {[S -> Version] : S \in SUBSET Package} :
        /\ \A r \in Roots(tasks) : r[1] \in DOMAIN f /\ f[r[1]] = r[2]
        /\ \A q \in DOMAIN f : Satisfied(f, q)
        /\ \A q \in DOMAIN f \ RootNames(tasks) :
              /\ f[q] \in Published[q]
              /\ \E o \in DOMAIN f : q \in {d[1] : d \in Depends[o, f[o]]}}

\* Fault: what the manifest names is not installed as a dependency.
SkippedIfNamed(p, pkgs, q) == q \in {d.key.name : d \in proc[p].entries}

\* A dependency whose name the lockfile has is not installed again.
Skipped(p, pkgs, q) ==
    Plain(q) \in {l.key : l \in {k \in pkgs : k.section = "interfaces"}}

Transitive(p, pkgs, f) ==
    {[pkg |-> q, ver |-> f[q], key |-> NoKey, update |-> FALSE, transitive |-> TRUE] :
        q \in {o \in DOMAIN f \ RootNames(Wanted(p)) : ~Skipped(p, pkgs, o)}}

-------------------------------------------------------------------------------
(* The steps of an install. *)

\* A file that another process is writing may be read empty.
Collected(p) ==
    At(p, "work") /\ \A t \in proc[p].tasks : proc[p].stage[t] \in Settled

WritesManifest(p) == Collected(p) \/ proc[p].at \in {"init", "makeManifest"}
WritesLock(p) == proc[p].at \in {"saveLock", "initLock", "makeLock"}

Others(p) == Proc \ {p}

ReadManifest(p) ==
    /\ At(p, "manifest")
    /\ IF ~manifest.there THEN End(p)
       ELSE \E seen \in {manifest.entries}
                        \union {{} : q \in {o \in Others(p) : WritesManifest(o)}} :
              Become(p, [proc[p] EXCEPT !.entries = seen, !.at = "lock"])
    /\ UNCHANGED files

Planned(p, pkgs, transitive, planned) ==
    LET tasks == Wanted(p) \union transitive IN
    Become(p, [proc[p] EXCEPT !.at = "work", !.pkgs = pkgs, !.tasks = tasks, !.planned = planned,
                              !.stage = [t \in tasks |-> "fetch"]])

\* Offline, or without data on dependencies, nothing transitive is planned.
Plan(p, pkgs) ==
    \/ ~CanPlan(p) /\ End(p)
    \/ CanPlan(p) /\ Planned(p, pkgs, {}, FALSE)
    \/ /\ CanPlan(p)
       /\ \E f \in Selections(Wanted(p)) : Planned(p, pkgs, Transitive(p, pkgs, f), TRUE)
    \/ CanPlan(p) /\ Selections(Wanted(p)) = {} /\ End(p)

\* An empty wasm.lock.toml has no version and is refused.  The plan follows from
\* what was read and from the index.
ReadLock(p) ==
    /\ At(p, "lock")
    /\ \/ lock.is # "torn" /\ Plan(p, lock.pkgs)
       \/ lock.is = "torn" /\ End(p)
       \/ (\E q \in Others(p) : WritesLock(q)) /\ End(p)
    /\ UNCHANGED files

\* Fault: the name the user gave is all there is.
KeyAsGiven(t) == t.key

KeyOf(t) == IF t.key # NoKey THEN t.key ELSE Plain(Embedded[t.pkg])

\* upsert_lockfile_package, upsert_lockfile_type
Replaces(l, new) == l.section = new.section /\ l.key = new.key /\ l.repo = new.repo

LockedAs(t) ==
    [section |-> IF t.transitive THEN "interfaces" ELSE SectionOf(t.pkg),
     key |-> KeyOf(t), ver |-> t.ver, repo |-> t.pkg,
     deps |-> {d \in Depends[t.pkg, t.ver] : d[2] # 0}]

\* The result of an entry, unpacked or not, goes into the manifest and the lockfile
\* in memory.
WithResult(state, t, stage) ==
    LET d == [section |-> SectionOf(t.pkg), key |-> KeyOf(t), ver |-> t.ver, repo |-> NoPackage]
    IN [state EXCEPT
          !.entries = IF ~t.update THEN @
                      ELSE {e \in @ : e.section # d.section \/ e.key # d.key} \union {d},
          !.pkgs = {l \in @ : ~Replaces(l, LockedAs(t))} \union {LockedAs(t)},
          !.stage[t] = stage]

ToDo(p, stage) == {t \in proc[p].tasks : At(p, "work") /\ proc[p].stage[t] = stage}

Advance(p, t, stage) == Become(p, [proc[p] EXCEPT !.stage[t] = stage])

\* A top-level failure ends the command and drops the other entries where they
\* are; a transitive one is skipped.
Fail(p, t) == IF t.transitive THEN Advance(p, t, "failed") ELSE End(p)

Unpacked(t) == t.pkg \notin Component

\* Manager::install: the layer is copied to a temporary file and renamed.
Fetch(p) ==
    \E t \in ToDo(p, "fetch") :
       \/ /\ t.ver \in Published[t.pkg]
          /\ LET file == FileOf(t.pkg, t.ver) IN
             wasm' = {f \in wasm : f.file # file}
                     \union {[file |-> file, pkg |-> t.pkg, ver |-> t.ver]}
          /\ IF Unpacked(t) THEN Advance(p, t, "read") ELSE Become(p, WithResult(proc[p], t, "done"))
          /\ UNCHANGED <<manifest, lock, wit>>
       \/ Fail(p, t) /\ UNCHANGED files

\* Fault: an error is logged, whoever asked for the entry.
LoggedOnly(p, t) == Become(p, WithResult(proc[p], t, "raw"))

\* re_vendor_wit_files: what an interface vendored is read, unpacked and removed.
\* Each step may fail.  An error ends the command, but for a transitive entry it is
\* only logged: the entry is a result like any other.
FailUnpack(p, t) ==
    IF t.transitive THEN Become(p, WithResult(proc[p], t, "raw")) ELSE End(p)

\* The file is not there or not readable, or is no WIT package.
ReadWasm(p) ==
    \E t \in ToDo(p, "read") :
       /\ \/ FileOf(t.pkg, t.ver) \in FilesIn(wasm) /\ Advance(p, t, "write")
          \/ FailUnpack(p, t)
       /\ UNCHANGED files

WriteWit(p) ==
    \E t \in ToDo(p, "write") :
       /\ \/ wit' = wit \union {FileOf(t.pkg, t.ver)} /\ Advance(p, t, "remove")
          \/ wit' \in {wit, wit \ {FileOf(t.pkg, t.ver)}} /\ FailUnpack(p, t)
       /\ UNCHANGED <<manifest, lock, wasm>>

\* Fault: vendor/wasm is emptied.
LeftOfNone(t) == {}

Left(t) == {f \in wasm : f.file # FileOf(t.pkg, t.ver)}

RemoveWasm(p) ==
    \E t \in ToDo(p, "remove") :
       /\ \/ wasm' = Left(t) /\ Become(p, WithResult(proc[p], t, "done"))
          \/ wasm' = wasm /\ FailUnpack(p, t)
       /\ UNCHANGED <<manifest, lock, wit>>

WriteManifest(p) ==
    /\ Collected(p)
    /\ manifest' = [there |-> TRUE, entries |-> proc[p].entries]
    /\ Proceed(p, "saveLock")
    /\ UNCHANGED <<lock, wasm, wit>>

Held(pkgs, d) == \E l \in pkgs : l.key = Plain(d[1]) /\ l.ver = d[2]

\* resolve_dependency_details drops dependencies that the lockfile does not have.
Detailed(pkgs) ==
    {[l EXCEPT !.deps = {d \in @ : Held(pkgs, d)}] : l \in pkgs}

WriteLock(p) ==
    /\ At(p, "saveLock")
    /\ lock' = [is |-> "ok", pkgs |-> Detailed(proc[p].pkgs)]
    /\ Proceed(p, IF proc[p].cmd.op = "run" THEN "again" ELSE "done")
    /\ UNCHANGED <<manifest, wasm, wit>>

Done(p) == At(p, "done") /\ End(p) /\ UNCHANGED files

-------------------------------------------------------------------------------
(* The steps of run. *)

\* strip_at_version
RunKey(p) == Plain((CHOOSE i \in proc[p].cmd.inputs : TRUE).pkg)

InManifest(k) ==
    manifest.there /\ \E d \in manifest.entries : d.section = "components" /\ d.key = k

\* resolve_manifest_key: the first component of the lockfile with that key.
Found(k) ==
    /\ InManifest(k) /\ lock.is = "ok"
    /\ \E l \in lock.pkgs :
          l.section = "components" /\ l.key = k /\ FileOfLocked(l) \in FilesIn(wasm)

\* What the manifest does not have is installed; what it has is run, or refused.
LookUp(p) ==
    /\ At(p, "lookup")
    /\ \/ InManifest(RunKey(p)) /\ lock.is = "ok" /\ End(p)
       \/ ~(InManifest(RunKey(p)) /\ lock.is = "ok") /\ Proceed(p, "skeleton")
       \/ (\E q \in Others(p) : WritesManifest(q) \/ WritesLock(q)) /\ Proceed(p, "skeleton")
    /\ UNCHANGED files

\* auto_install: what does not exist is made.
Skeleton(p) ==
    /\ At(p, "skeleton")
    /\ Proceed(p, IF manifest.there THEN "skeletonLock" ELSE "makeManifest")
    /\ UNCHANGED files

SkeletonLock(p) ==
    /\ At(p, "skeletonLock")
    /\ Proceed(p, IF lock.is = "missing" THEN "makeLock" ELSE "manifest")
    /\ UNCHANGED files

LookUpAgain(p) == At(p, "again") /\ End(p) /\ UNCHANGED files

-------------------------------------------------------------------------------
(* init and local clean. *)

EmptyManifest(p) ==
    /\ \/ At(p, "init") /\ Proceed(p, "initLock")
       \/ At(p, "makeManifest") /\ Proceed(p, "skeletonLock")
    /\ manifest' = [there |-> TRUE, entries |-> {}]
    /\ UNCHANGED <<lock, wasm, wit>>

EmptyLock(p) ==
    /\ \/ At(p, "initLock") /\ End(p)
       \/ At(p, "makeLock") /\ Proceed(p, "manifest")
    /\ lock' = [is |-> "ok", pkgs |-> {}]
    /\ UNCHANGED <<manifest, wasm, wit>>

CleanLock(p) ==
    /\ At(p, "clean")
    /\ lock' = [is |-> "missing", pkgs |-> {}]
    /\ Proceed(p, "cleanWasm")
    /\ UNCHANGED <<manifest, wasm, wit>>

CleanWasm(p) ==
    /\ At(p, "cleanWasm")
    /\ wasm' = {}
    /\ Proceed(p, "cleanWit")
    /\ UNCHANGED <<manifest, lock, wit>>

CleanWit(p) ==
    /\ At(p, "cleanWit")
    /\ wit' = {}
    /\ End(p)
    /\ UNCHANGED <<manifest, lock, wasm>>

-------------------------------------------------------------------------------

\* The process dies; a file it was writing stays empty, or is not whole.
Crash(p) ==
    /\ ~At(p, "idle")
    /\ End(p)
    /\ \/ UNCHANGED files
       \/ /\ WritesManifest(p)
          /\ manifest' = [there |-> TRUE, entries |-> {}]
          /\ UNCHANGED <<lock, wasm, wit>>
       \/ /\ WritesLock(p)
          /\ lock' = [is |-> "torn", pkgs |-> {}]
          /\ UNCHANGED <<manifest, wasm, wit>>
       \/ /\ wit' \in {wit \ {FileOf(t.pkg, t.ver)} : t \in ToDo(p, "write")}
          /\ UNCHANGED <<manifest, lock, wasm>>

Work(p) ==
    \/ ReadManifest(p) \/ ReadLock(p)
    \/ Fetch(p) \/ ReadWasm(p) \/ WriteWit(p) \/ RemoveWasm(p)
    \/ WriteManifest(p) \/ WriteLock(p) \/ Done(p)

Step(p) ==
    \/ Start(p) \/ Work(p)
    \/ LookUp(p) \/ Skeleton(p) \/ SkeletonLock(p) \/ LookUpAgain(p)
    \/ EmptyManifest(p) \/ EmptyLock(p)
    \/ CleanLock(p) \/ CleanWasm(p) \/ CleanWit(p)
    \/ Crash(p)

Next == \E p \in Proc : Step(p)

Spec == Init /\ [][Next]_vars
-------------------------------------------------------------------------------
(* What the commands promise. *)

\* Every variable has its type; an entry of an install is at one step.
TypeOK ==
    /\ manifest \in [there : BOOLEAN, entries : SUBSET Entry]
    /\ lock \in [is : {"missing", "ok", "torn"}, pkgs : SUBSET Locked]
    /\ wasm \subseteq Vendored /\ wit \subseteq Tagged
    /\ \A f, g \in wasm : f.file = g.file => f = g
    /\ DOMAIN proc = Proc
    /\ \A p \in Proc :
          /\ proc[p].at \in Stage /\ proc[p].cmd \in Command
          /\ proc[p].entries \subseteq Entry /\ proc[p].pkgs \subseteq Locked
          /\ proc[p].tasks \subseteq Task
          /\ proc[p].stage \in [proc[p].tasks -> TaskStage]
          /\ proc[p].planned \in BOOLEAN /\ proc[p].alone \in BOOLEAN

\* A package that carries its own name: no other package's file can be its file.
OwnName(q) == \A o \in Package : Embedded[o] = q <=> o = q

\* A component that `component run` finds and that is what the lockfile says.
Runnable(k) ==
    /\ InManifest(k) /\ lock.is = "ok"
    /\ \E l \in lock.pkgs : l.section = "components" /\ l.key = k
    /\ \A l \in lock.pkgs : l.section = "components" /\ l.key = k =>
          [file |-> FileOfLocked(l), pkg |-> l.repo, ver |-> l.ver] \in wasm

\* An install that is over and shared the directory with no other command.
Finished(p) == proc[p].at \in {"done", "again"} /\ proc[p].alone

\* No two entries of an install go to one file or one package of the lockfile.
Apart(p) ==
    \A t, u \in proc[p].tasks : t # u =>
        /\ FileOf(t.pkg, t.ver) # FileOf(u.pkg, u.ver)
        /\ KeyOf(t) # KeyOf(u)

\* An install that succeeded undisturbed leaves its components in a state that
\* `component run` accepts, whatever the directory went through before: crashes,
\* overlapping commands, a clean.  Excepted is a name that two packages carry,
\* and a key "name@version".
InstalledIsRunnable ==
    \A p \in Proc : Finished(p) /\ Apart(p) =>
        \A t \in proc[p].tasks :
            (/\ t.pkg \in Component /\ OwnName(t.pkg) /\ ~t.transitive
             /\ t.update \/ t.key # NoKey
             /\ KeyOf(t) = Plain(t.pkg))
            => Runnable(KeyOf(t))

\* What can be run stays so under every step of an install that is alone, and
\* under its crash, but for the moment in which a file is rewritten: fetched
\* files are new files, and both files are written from what was read of them.
StaysRunnable ==
    [][\A q \in Component, p \in Proc :
          (/\ Runnable(Plain(q)) /\ OwnName(q)
           /\ proc[p].alone /\ proc[p].cmd.op \in {"install", "run"}
           /\ proc'[p] # proc[p]
           /\ proc'[p].at # "idle" \/ UNCHANGED <<manifest, lock>>)
          => Runnable(Plain(q))']_vars

\* An install whose dependencies were planned locks every dependency of what it
\* planned, under its name or that of its binary, at a version that is new
\* enough, whatever else of its plan failed: only a dependency that itself could
\* not be installed is missing.  One whose name was locked before is left as it is.
DependenciesAreLocked ==
    \A p \in Proc :
        (/\ Finished(p) /\ Apart(p) /\ proc[p].planned
         /\ \A t \in proc[p].tasks : t.transitive \/ t.key # NoKey)
        => \A t \in proc[p].tasks : \A d \in Depends[t.pkg, t.ver] :
              \/ \E u \in proc[p].tasks : u.pkg = d[1] /\ proc[p].stage[u] = "failed"
              \/ \E l \in lock.pkgs :
                    /\ l.key.name \in {d[1], Embedded[d[1]]}
                    /\ d[1] \in {u.pkg : u \in proc[p].tasks} => l.ver >= d[2]

\* What an entry vendored is there when it is unpacked, with the contents it
\* vendored, unless another entry of the install goes to the same file.
UnpackFindsFile ==
    \A p \in Proc : proc[p].alone =>
        \A t \in ToDo(p, "read") :
            \/ [file |-> FileOf(t.pkg, t.ver), pkg |-> t.pkg, ver |-> t.ver] \in wasm
            \/ \E u \in proc[p].tasks \ {t} : FileOf(u.pkg, u.ver) = FileOf(t.pkg, t.ver)

\* After an install every interface it locked is unpacked, and its binary gone,
\* but for a dependency whose unpacking failed: it is locked all the same.
WitIsUnpacked ==
    \A p \in Proc : Finished(p) /\ Apart(p) =>
        \A t \in proc[p].tasks :
            (t.pkg \notin Component /\ proc[p].stage[t] # "failed") =>
                \/ FileOf(t.pkg, t.ver) \in wit \ FilesIn(wasm)
                \/ t.transitive /\ proc[p].stage[t] = "raw"

\* What run installed is what run then finds: the entry is stored under the key
\* that run looks up.
RunFindsInstalled ==
    \A p \in Proc : At(p, "again") /\ proc[p].alone => Found(RunKey(p))
===============================================================================
