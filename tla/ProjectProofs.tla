----------------------------- MODULE ProjectProofs -----------------------------
(* Machine-checked proofs about Project, for every value of its constants. *)
EXTENDS Project, TLAPS

(***************************************************************************)
(* The strengthening, of three parts: what a command knows by itself       *)
(* (Sound), what the files hold for it as long as it is alone (Agrees),    *)
(* and that the others are idle then (OthersAreIdle).                      *)
(***************************************************************************)

StageOf == UNION {[T -> TaskStage] : T \in SUBSET Task}

State == [at : Stage, cmd : Command, entries : SUBSET Entry, pkgs : SUBSET Locked,
          tasks : SUBSET Task, stage : StageOf, planned : BOOLEAN, alone : BOOLEAN]

Typed(s) == s \in State /\ s.stage \in [s.tasks -> TaskStage]

FilesTyped ==
    /\ manifest \in [there : BOOLEAN, entries : SUBSET Entry]
    /\ lock \in [is : {"missing", "ok", "torn"}, pkgs : SUBSET Locked]
    /\ wasm \subseteq Vendored /\ wit \subseteq Tagged
    /\ \A f, g \in wasm : f.file = g.file => f = g

Types == FilesTyped /\ proc \in [Proc -> State] /\ \A p \in Proc : Typed(proc[p])

Working == {"work", "saveLock", "done", "again"}
Over == {"saveLock", "done", "again"}

\* A bare entry stands in the section of its package, and a locked package under
\* its own name is the package itself.
EntriesFit(entries) ==
    \A d \in entries : \A q \in Package :
        (d.repo = NoPackage /\ d.key = Plain(q) /\ OwnName(q)) => d.section = SectionOf(q)

LocksFit(pkgs) ==
    \A l \in pkgs : \A q \in Package : (l.key = Plain(q) /\ OwnName(q)) => l.repo = q

\* An entry that is written under the package's own name, and its line in wasm.toml.
Named(t) == OwnName(t.pkg) /\ KeyOf(t) = Plain(t.pkg) /\ ~t.transitive
Entered(entries, t) ==
    \E e \in entries : e.section = SectionOf(t.pkg) /\ e.key = KeyOf(t)

TasksFit(s) ==
    \A t \in s.tasks :
        /\ t.key # NoKey => t.key.name = t.pkg
        /\ s.stage[t] \in {"raw", "failed"} => t.transitive
        /\ s.stage[t] \in {"read", "write", "remove", "raw"} => t.pkg \notin Component
        /\ s.at \in Over => s.stage[t] \in Settled
        /\ (/\ Named(t)
            /\ IF t.update THEN s.stage[t] = "done" ELSE t.key # NoKey)
           => Entered(s.entries, t)

\* What an install locked stays locked if its entries have different keys.
Separate(s) == \A t, u \in s.tasks : t # u => KeyOf(t) # KeyOf(u)
DoneAreLocked(s) ==
    \A t \in s.tasks : s.stage[t] \in Installed /\ Separate(s) =>
        /\ LockedAs(t) \in s.pkgs
        /\ \A l \in s.pkgs : Replaces(l, LockedAs(t)) => l = LockedAs(t)

\* The selection that was planned: every package of it is an entry of the
\* install, at that version, or was locked before.
Chosen == UNION {[S -> Version] : S \in SUBSET Package}
Resolving(t) == t.transitive \/ t.key # NoKey
Follows(s, f) ==
    /\ \A q \in DOMAIN f : Satisfied(f, q)
    /\ \A t \in s.tasks : Resolving(t) => t.pkg \in DOMAIN f /\ f[t.pkg] = t.ver
    /\ \A q \in DOMAIN f : \/ \E t \in s.tasks : Resolving(t) /\ t.pkg = q
                           \/ \E l \in s.pkgs : l.key = Plain(q)
PlanHolds(s) == s.planned => \E f \in Chosen : Follows(s, f)

\* init and clean have their own stages; an install has no entries before it has
\* planned them.
StagesFit(s) ==
    /\ s.at \notin Working => s.tasks = {} /\ ~s.planned
    /\ s.at = "idle" => s.cmd.op = "init"
    /\ s.at \in {"init", "initLock"} => s.cmd.op = "init"
    /\ s.at \in {"clean", "cleanWasm", "cleanWit"} => s.cmd.op = "clean"

Sound(s) ==
    /\ EntriesFit(s.entries) /\ LocksFit(s.pkgs)
    /\ TasksFit(s) /\ DoneAreLocked(s) /\ PlanHolds(s) /\ StagesFit(s)

\* What is read or written only by a command that is alone.
FileOfTask(t) == [file |-> FileOf(t.pkg, t.ver), pkg |-> t.pkg, ver |-> t.ver]

SameLine(e, d) == e.section = d.section /\ e.key = d.key
SameLock(k, l) == SameLine(k, l) /\ k.ver = l.ver /\ k.repo = l.repo

\* The manifest, m, as the command read and wrote it.
ManifestAgrees(m, s) ==
    /\ s.at = "makeManifest" => ~m.there
    /\ s.at \in {"lock", "work"} =>
          m.there /\ \A d \in m.entries : \E e \in s.entries : SameLine(e, d)
    /\ s.at \in Over => m = [there |-> TRUE, entries |-> s.entries]

\* The lockfile, k: a package in memory was read from it or is of an entry that
\* is installed.
LockAgrees(k, s) ==
    /\ s.at = "makeLock" => k.is = "missing"
    /\ s.at \in {"work", "saveLock"} =>
          /\ \A l \in k.pkgs : \E n \in s.pkgs : SameLine(n, l)
          /\ \A n \in s.pkgs : \/ \E l \in k.pkgs : SameLock(n, l)
                               \/ \E t \in s.tasks : s.stage[t] \in Installed /\ n = LockedAs(t)
    /\ s.at \in {"done", "again"} => k = [is |-> "ok", pkgs |-> Detailed(s.pkgs)]

\* The files: w is vendor/wasm, x is vendor/wit.
Distinct(s) == \A t, u \in s.tasks : t # u => FileOf(t.pkg, t.ver) # FileOf(u.pkg, u.ver)

FilesAgree(w, x, s) ==
    s.at \in Working =>
        \A t \in s.tasks :
            /\ s.stage[t] = "read" =>
                  \/ FileOfTask(t) \in w
                  \/ \E u \in s.tasks \ {t} : FileOf(u.pkg, u.ver) = FileOf(t.pkg, t.ver)
            /\ s.stage[t] = "done" /\ t.pkg \in Component /\ OwnName(t.pkg) =>
                  FileOfTask(t) \in w
            /\ s.stage[t] = "remove" /\ Distinct(s) => FileOf(t.pkg, t.ver) \in x
            /\ s.stage[t] = "done" /\ t.pkg \notin Component /\ Distinct(s) =>
                  FileOf(t.pkg, t.ver) \in x \ FilesIn(w)

Agrees(p) ==
    /\ ManifestAgrees(manifest, proc[p])
    /\ LockAgrees(lock, proc[p])
    /\ FilesAgree(wasm, wit, proc[p])

OthersAreIdle ==
    \A p \in Proc : proc[p].alone /\ ~At(p, "idle") => \A q \in Others(p) : At(q, "idle")

IInv ==
    /\ Types
    /\ EntriesFit(manifest.entries) /\ LocksFit(lock.pkgs)
    /\ OthersAreIdle
    /\ \A p \in Proc : Sound(proc[p])
    /\ \A p \in Proc : proc[p].alone => Agrees(p)
-------------------------------------------------------------------------------
(* Records: what a step leaves of the state of its process. *)

LEMMA StageOfType == \A T \in SUBSET Task : [T -> TaskStage] \subseteq StageOf
BY DEF StageOf

\* Everything but the stage of the command, s.at.
SameBut(n, s) ==
    /\ n.cmd = s.cmd /\ n.entries = s.entries /\ n.pkgs = s.pkgs /\ n.tasks = s.tasks
    /\ n.stage = s.stage /\ n.planned = s.planned /\ n.alone = s.alone

\* A step to another stage changes nothing else.
LEMMA AtOnly ==
    ASSUME NEW s, Typed(s), NEW a \in Stage
    PROVE  LET n == [s EXCEPT !.at = a] IN Typed(n) /\ n.at = a /\ SameBut(n, s)
BY DEF Typed, State, SameBut

\* Everything but how far one entry has got.
SameButStage(n, s) ==
    /\ n.at = s.at /\ n.cmd = s.cmd /\ n.entries = s.entries /\ n.pkgs = s.pkgs
    /\ n.tasks = s.tasks /\ n.planned = s.planned /\ n.alone = s.alone

LEMMA StageOnly ==
    ASSUME NEW s, Typed(s), NEW t \in s.tasks, NEW a \in TaskStage
    PROVE  LET n == [s EXCEPT !.stage[t] = a]
           IN  /\ Typed(n) /\ SameButStage(n, s)
               /\ n.stage = [s.stage EXCEPT ![t] = a]
<1> DEFINE f == [s.stage EXCEPT ![t] = a]
<1>1. f \in [s.tasks -> TaskStage]
  BY DEF Typed
<1>2. s.tasks \in SUBSET Task
  BY DEF Typed, State
<1>3. f \in StageOf
  BY <1>1, <1>2, StageOfType
<1> HIDE DEF f
<1>4. LET n == [s EXCEPT !.stage = f] IN n \in State /\ SameButStage(n, s) /\ n.stage = f
  BY <1>3 DEF Typed, State, SameButStage
<1>5. QED
  BY <1>1, <1>4 DEF Typed, SameButStage, f

LEMMA KeyOfType == \A t \in Task : KeyOf(t) \in Tagged
BY PackageAssumption DEF Task, KeyOf, Tagged, Plain

LEMMA LockedAsType == \A t \in Task : LockedAs(t) \in Locked
<1> SUFFICES ASSUME NEW t \in Task PROVE LockedAs(t) \in Locked
  OBVIOUS
<1>1. KeyOf(t) \in Tagged /\ t.pkg \in Package /\ t.ver \in Version
  BY KeyOfType DEF Task
<1>2. Depends[t.pkg, t.ver] \subseteq Package \X (Version \union {0})
  BY <1>1, PackageAssumption
<1>3. {d \in Depends[t.pkg, t.ver] : d[2] # 0} \subseteq Package \X Version
  BY <1>2
<1>4. "components" \in Section /\ "interfaces" \in Section /\ SectionOf(t.pkg) \in Section
  BY DEF Section, SectionOf
<1>5. QED
  BY <1>1, <1>3, <1>4 DEF LockedAs, Locked

\* The line of an entry in wasm.toml.
LineOf(t) == [section |-> SectionOf(t.pkg), key |-> KeyOf(t), ver |-> t.ver, repo |-> NoPackage]

LEMMA LineOfType == \A t \in Task : LineOf(t) \in Entry
<1> SUFFICES ASSUME NEW t \in Task PROVE LineOf(t) \in Entry
  OBVIOUS
<1>1. KeyOf(t) \in Tagged /\ t.ver \in Version
  BY KeyOfType DEF Task
<1>2. SectionOf(t.pkg) \in Section
  BY DEF Section, SectionOf
<1>3. QED
  BY <1>1, <1>2 DEF LineOf, Entry

\* The manifest and the lockfile in memory once an entry is done.
EntriesWith(s, t) ==
    IF ~t.update THEN s.entries
    ELSE {e \in s.entries : e.section # SectionOf(t.pkg) \/ e.key # KeyOf(t)} \union {LineOf(t)}
PkgsWith(s, t) == {l \in s.pkgs : ~Replaces(l, LockedAs(t))} \union {LockedAs(t)}

LEMMA ResultFields ==
    ASSUME NEW s, Typed(s), NEW t \in s.tasks, NEW a \in Installed
    PROVE  LET n == WithResult(s, t, a)
           IN  /\ Typed(n)
               /\ n.at = s.at /\ n.cmd = s.cmd /\ n.tasks = s.tasks
               /\ n.planned = s.planned /\ n.alone = s.alone
               /\ n.entries = EntriesWith(s, t) /\ n.pkgs = PkgsWith(s, t)
               /\ n.stage = [s.stage EXCEPT ![t] = a]
<1> DEFINE f == [s.stage EXCEPT ![t] = a]
<1> DEFINE E == EntriesWith(s, t)
<1> DEFINE P == PkgsWith(s, t)
<1>1. t \in Task /\ s.tasks \in SUBSET Task /\ s.entries \subseteq Entry /\ s.pkgs \subseteq Locked
  BY DEF Typed, State
<1>2. a \in TaskStage
  BY DEF TaskStage, Installed
<1>3. f \in [s.tasks -> TaskStage] /\ f \in StageOf
  BY <1>1, <1>2, StageOfType DEF Typed
<1>4. E \subseteq Entry
  BY <1>1, LineOfType DEF EntriesWith
<1>5. P \subseteq Locked
  BY <1>1, LockedAsType DEF PkgsWith
<1>6. WithResult(s, t, a) = [s EXCEPT !.entries = E, !.pkgs = P, !.stage = f]
  BY DEF WithResult, EntriesWith, PkgsWith, LineOf, Typed, State
<1> HIDE DEF f, E, P
<1>7. LET n == [s EXCEPT !.entries = E, !.pkgs = P, !.stage = f]
      IN  /\ n \in State /\ n.at = s.at /\ n.cmd = s.cmd /\ n.tasks = s.tasks
          /\ n.planned = s.planned /\ n.alone = s.alone
          /\ n.entries = E /\ n.pkgs = P /\ n.stage = f
  BY <1>3, <1>4, <1>5 DEF Typed, State
<1>8. QED
  BY <1>3, <1>6, <1>7 DEF Typed, f, E, P

\* A command that holds nothing.
Empty(s) ==
    /\ s.entries = {} /\ s.pkgs = {} /\ s.tasks = {} /\ s.planned = FALSE

LEMMA IdleType == Typed(Idle) /\ Empty(Idle) /\ Idle.at = "idle" /\ Idle.cmd.op = "init" /\ Idle.alone = TRUE
<1> DEFINE f == [t \in {} |-> "done"]
<1> DEFINE c == [op |-> "init", inputs |-> {}]
<1>1. f \in [{} -> TaskStage]
  OBVIOUS
<1>2. f \in StageOf
  BY <1>1, StageOfType
<1>3. c \in Command /\ c.op = "init"
  BY DEF Command
<1>4. "idle" \in Stage
  BY DEF Stage
<1>5. Idle = [at |-> "idle", cmd |-> c, entries |-> {}, pkgs |-> {},
              tasks |-> {}, stage |-> f, planned |-> FALSE, alone |-> TRUE]
  BY DEF Idle
<1> HIDE DEF f, c
<1>6. QED
  BY <1>1, <1>2, <1>3, <1>4, <1>5 DEF Typed, State, Empty

LEMMA FirstType ==
    ASSUME NEW c \in Requests
    PROVE  /\ c \in Command /\ First(c) \in {"manifest", "lookup", "init", "clean"}
           /\ First(c) \in Stage
           /\ First(c) = "init" => c.op = "init"
           /\ First(c) = "clean" => c.op = "clean"
<1>1. c \in Command
  BY UserAssumption
<1>2. c.op \in {"init", "clean", "install", "run"}
  BY <1>1 DEF Command
<1>3. QED
  BY <1>1, <1>2 DEF First, Stage

LEMMA StartFields ==
    ASSUME NEW c \in Requests, NEW b \in BOOLEAN
    PROVE  LET n == [Idle EXCEPT !.cmd = c, !.at = First(c), !.alone = b]
           IN  Typed(n) /\ Empty(n) /\ n.at = First(c) /\ n.cmd = c /\ n.alone = b
<1>1. c \in Command /\ First(c) \in Stage
  BY FirstType
<1> DEFINE s == Idle
<1>2. Typed(s) /\ Empty(s)
  BY IdleType
<1> HIDE DEF s
<1>3. LET n == [s EXCEPT !.cmd = c, !.at = First(c), !.alone = b]
      IN  Typed(n) /\ Empty(n) /\ n.at = First(c) /\ n.cmd = c /\ n.alone = b
  BY <1>1, <1>2 DEF Typed, State, Empty
<1>4. QED
  BY <1>3 DEF s

\* A step of p gives it a new state and leaves the others theirs.
LEMMA BecomeEffect ==
    ASSUME proc \in [Proc -> State], NEW p \in Proc, NEW n, Become(p, n)
    PROVE  /\ proc'[p] = n /\ \A q \in Proc \ {p} : proc'[q] = proc[q]
           /\ n \in State => proc' \in [Proc -> State]
BY DEF Become

\* Another command's start only ends being alone.
LEMMA AloneOnly ==
    ASSUME NEW s, Typed(s), NEW b \in BOOLEAN
    PROVE  LET n == [s EXCEPT !.alone = b]
           IN  /\ Typed(n) /\ n.alone = b
               /\ n.at = s.at /\ n.cmd = s.cmd /\ n.entries = s.entries /\ n.pkgs = s.pkgs
               /\ n.tasks = s.tasks /\ n.stage = s.stage /\ n.planned = s.planned
BY DEF Typed, State

-------------------------------------------------------------------------------
(* What a command knows by itself. *)

\* A key that is a package's own name is of an entry of that package.
LEMMA OwnKey ==
    ASSUME NEW t \in Task, t.key # NoKey => t.key.name = t.pkg,
           NEW q \in Package, OwnName(q), KeyOf(t) = Plain(q)
    PROVE  t.pkg = q
<1>1. CASE t.key # NoKey
  BY <1>1 DEF KeyOf, Plain
<1>2. CASE t.key = NoKey
  <2>1. Plain(Embedded[t.pkg]) = Plain(q)
    BY <1>2 DEF KeyOf
  <2>2. Embedded[t.pkg] = q
    BY <2>1 DEF Plain
  <2>3. QED
    BY <2>2 DEF OwnName, Task
<1>3. QED
  BY <1>1, <1>2

LEMMA EmptySound ==
    ASSUME NEW s, Empty(s), StagesFit(s)
    PROVE  Sound(s)
BY DEF Empty, Sound, EntriesFit, LocksFit, TasksFit, DoneAreLocked, PlanHolds

\* Another stage is sound if it is one of the command's, and a collected install
\* has no entry under way.
LEMMA StageSound ==
    ASSUME NEW s, NEW n, Sound(s), n.entries = s.entries, n.pkgs = s.pkgs, n.tasks = s.tasks,
           n.stage = s.stage, n.planned = s.planned, StagesFit(n),
           n.at \in Over => \A t \in s.tasks : s.stage[t] \in Settled
    PROVE  Sound(n)
<1>1. EntriesFit(n.entries) /\ LocksFit(n.pkgs)
  BY DEF Sound
<1>2. TasksFit(n)
  BY DEF Sound, TasksFit
<1>3. DoneAreLocked(n)
  BY DEF Sound, DoneAreLocked, Separate
<1>4. PlanHolds(n)
  BY DEF Sound, PlanHolds, Follows
<1>5. QED
  BY <1>1, <1>2, <1>3, <1>4 DEF Sound

\* What has been read of the files is sound if they are.
LEMMA ReadSound ==
    ASSUME NEW n, n.tasks = {}, ~n.planned, EntriesFit(n.entries), LocksFit(n.pkgs), StagesFit(n)
    PROVE  Sound(n)
BY DEF Sound, TasksFit, DoneAreLocked, PlanHolds

LEMMA AdvanceSound ==
    ASSUME NEW s, Typed(s), Sound(s), s.at = "work", NEW n, SameButStage(n, s),
           NEW t \in s.tasks, NEW a \in {"read", "write", "remove", "failed"},
           n.stage = [s.stage EXCEPT ![t] = a],
           a = "failed" => t.transitive,
           a # "failed" => t.pkg \notin Component
    PROVE  Sound(n)
<1>1. /\ n.at = "work" /\ n.cmd = s.cmd /\ n.entries = s.entries /\ n.pkgs = s.pkgs
      /\ n.tasks = s.tasks /\ n.planned = s.planned
  BY DEF SameButStage
<1>2. \A u \in s.tasks : n.stage[u] = IF u = t THEN a ELSE s.stage[u]
  BY DEF Typed
<1>3. TasksFit(n)
  <2> SUFFICES ASSUME NEW u \in s.tasks
               PROVE  /\ u.key # NoKey => u.key.name = u.pkg
                      /\ n.stage[u] \in {"raw", "failed"} => u.transitive
                      /\ n.stage[u] \in {"read", "write", "remove", "raw"} => u.pkg \notin Component
                      /\ (/\ Named(u)
                          /\ IF u.update THEN n.stage[u] = "done" ELSE u.key # NoKey)
                         => Entered(s.entries, u)
    BY <1>1 DEF TasksFit, Over
  <2> QED
    BY <1>2 DEF Sound, TasksFit
<1>4. DoneAreLocked(n)
  BY <1>1, <1>2 DEF Sound, DoneAreLocked, Separate, Installed
<1>5. PlanHolds(n)
  BY <1>1 DEF Sound, PlanHolds, Follows
<1>6. StagesFit(n)
  BY <1>1 DEF Sound, StagesFit
<1>7. QED
  BY <1>1, <1>3, <1>4, <1>5, <1>6 DEF Sound

\* A done entry puts a line in the manifest and the lockfile, and leaves the lines
\* of every other key.
LEMMA LineStays ==
    ASSUME NEW s, NEW t, NEW e \in s.entries
    PROVE  \E d \in EntriesWith(s, t) : SameLine(d, e)
<1>1. CASE e \in EntriesWith(s, t)
  BY <1>1 DEF SameLine
<1>2. CASE e \notin EntriesWith(s, t)
  <2>1. e.section = SectionOf(t.pkg) /\ e.key = KeyOf(t) /\ LineOf(t) \in EntriesWith(s, t)
    BY <1>2 DEF EntriesWith
  <2>2. LineOf(t).section = SectionOf(t.pkg) /\ LineOf(t).key = KeyOf(t)
    BY DEF LineOf
  <2>3. QED
    BY <2>1, <2>2 DEF SameLine
<1>3. QED
  BY <1>1, <1>2

LEMMA LockedFields ==
    ASSUME NEW t
    PROVE  LET l == LockedAs(t)
           IN  /\ l.section = IF t.transitive THEN "interfaces" ELSE SectionOf(t.pkg)
               /\ l.key = KeyOf(t) /\ l.ver = t.ver /\ l.repo = t.pkg
               /\ l.deps = {d \in Depends[t.pkg, t.ver] : d[2] # 0}
BY DEF LockedAs

LEMMA LockStays ==
    ASSUME NEW s, NEW t, NEW l \in s.pkgs
    PROVE  \E n \in PkgsWith(s, t) : SameLine(n, l)
<1>1. CASE l \in PkgsWith(s, t)
  BY <1>1 DEF SameLine
<1>2. CASE l \notin PkgsWith(s, t)
  BY <1>2 DEF PkgsWith, Replaces, SameLine
<1>3. QED
  BY <1>1, <1>2

LEMMA ResultSound ==
    ASSUME NEW s, Typed(s), Sound(s), s.at = "work",
           NEW t \in s.tasks,
           NEW n, n.at = s.at, n.cmd = s.cmd, n.tasks = s.tasks, n.planned = s.planned,
           n.entries = EntriesWith(s, t), n.pkgs = PkgsWith(s, t),
           NEW a \in Installed, n.stage = [s.stage EXCEPT ![t] = a],
           a = "raw" => t.transitive /\ t.pkg \notin Component
    PROVE  Sound(n)
<1> DEFINE d == LineOf(t)
<1> DEFINE l == LockedAs(t)
<1>1. /\ \A u \in s.tasks : u \in Task /\ (u.key # NoKey => u.key.name = u.pkg)
      /\ \A u \in s.tasks : n.stage[u] = IF u = t THEN a ELSE s.stage[u]
      /\ a \in {"done", "raw"}
  BY DEF Typed, State, Sound, TasksFit, Installed
<1>2. d.section = SectionOf(t.pkg) /\ d.key = KeyOf(t)
  BY DEF LineOf
<1>3. l.key = KeyOf(t) /\ l.repo = t.pkg
  BY LockedFields
<1>4. /\ \A e \in n.entries : e \in s.entries \/ (t.update /\ e = d)
      /\ t.update => d \in n.entries
  BY DEF EntriesWith
<1>5. /\ \A k \in n.pkgs : k = l \/ (k \in s.pkgs /\ ~Replaces(k, l))
      /\ \A k \in s.pkgs : Replaces(k, l) \/ k \in n.pkgs
      /\ l \in n.pkgs
  BY DEF PkgsWith
<1> HIDE DEF d, l
<1>6. \A q \in Package : OwnName(q) /\ KeyOf(t) = Plain(q) => t.pkg = q
  BY <1>1, OwnKey
<1>7. EntriesFit(n.entries)
  BY <1>2, <1>4, <1>6 DEF EntriesFit, Sound
<1>8. LocksFit(n.pkgs)
  BY <1>3, <1>5, <1>6 DEF LocksFit, Sound
<1>9. TasksFit(n)
  <2>1. \A u : Entered(s.entries, u) => Entered(n.entries, u)
    <3> SUFFICES ASSUME NEW u, NEW e \in s.entries,
                        e.section = SectionOf(u.pkg) /\ e.key = KeyOf(u)
                 PROVE  \E c \in n.entries : c.section = SectionOf(u.pkg) /\ c.key = KeyOf(u)
      BY DEF Entered
    <3>1. PICK c \in EntriesWith(s, t) : SameLine(c, e)
      BY LineStays
    <3>2. QED
      BY <3>1 DEF SameLine
  <2>2. t.update => Entered(n.entries, t)
    BY <1>2, <1>4 DEF Entered
  <2> SUFFICES ASSUME NEW u \in s.tasks
               PROVE  /\ u.key # NoKey => u.key.name = u.pkg
                      /\ n.stage[u] \in {"raw", "failed"} => u.transitive
                      /\ n.stage[u] \in {"read", "write", "remove", "raw"} => u.pkg \notin Component
                      /\ (/\ Named(u)
                          /\ IF u.update THEN n.stage[u] = "done" ELSE u.key # NoKey)
                         => Entered(n.entries, u)
    BY DEF TasksFit, Over
  <2>3. QED
    BY <1>1, <2>1, <2>2 DEF Sound, TasksFit
<1>10. DoneAreLocked(n)
  <2> SUFFICES ASSUME NEW u \in s.tasks, n.stage[u] \in Installed, Separate(n)
               PROVE  /\ LockedAs(u) \in n.pkgs
                      /\ \A k \in n.pkgs : Replaces(k, LockedAs(u)) => k = LockedAs(u)
    BY DEF DoneAreLocked
  <2>1. CASE u = t
    BY <1>5, <2>1 DEF l
  <2>2. CASE u # t
    <3> DEFINE own == LockedAs(u)
    <3>0. own.key = KeyOf(u)
      BY LockedFields
    <3>1. own.key # l.key
      BY <2>2, <3>0, <1>3 DEF Separate
    <3>2. /\ LockedAs(u) \in s.pkgs
          /\ \A k \in s.pkgs : Replaces(k, LockedAs(u)) => k = LockedAs(u)
      BY <1>1, <2>2 DEF Sound, DoneAreLocked, Separate
    <3>3. QED
      BY <1>5, <3>1, <3>2 DEF Replaces
  <2>3. QED
    BY <2>1, <2>2
<1>11. PlanHolds(n)
  <2>1. \A k \in s.pkgs : \E m \in n.pkgs : m.key = k.key
    BY LockStays DEF SameLine
  <2>2. QED
    BY <2>1 DEF Sound, PlanHolds, Follows
<1>12. StagesFit(n)
  BY DEF Sound, StagesFit, Working
<1>13. QED
  BY <1>7, <1>8, <1>9, <1>10, <1>11, <1>12 DEF Sound

-------------------------------------------------------------------------------
(* What an install plans. *)

LEMMA LatestType == \A q \in Package : CanResolve(q) => Latest(q) \in Published[q] /\ Latest(q) \in Version
BY ReleaseAssumption, PackageAssumption DEF CanResolve, Latest

\* An entry that was asked for: its key is its package's, at its version, and if
\* the manifest is not rewritten it stands there already.
Asked(s, t) ==
    /\ t \in Task /\ ~t.transitive
    /\ t.key # NoKey =>
          /\ t.key.name = t.pkg
          /\ t.key.at # 0 => t.ver = t.key.at
          /\ ~t.update => \E d \in s.entries : d.repo = NoPackage /\ d.key = t.key

LEMMA ManifestAsks ==
    ASSUME NEW s, Typed(s), NEW d \in s.entries, CanInstall(d)
    PROVE  Asked(s, FromManifest(d))
<1> DEFINE t == FromManifest(d)
<1>1. d \in Entry
  BY DEF Typed, State
<1>2. d.key \in Tagged /\ d.ver \in Version /\ d.repo \in Package \union {NoPackage}
  BY <1>1 DEF Entry
<1>3. CASE d.repo # NoPackage
  <2>1. t = [pkg |-> d.repo, ver |-> d.ver, key |-> NoKey, update |-> FALSE, transitive |-> FALSE]
    BY <1>3 DEF FromManifest
  <2>2. t \in Task /\ ~t.transitive /\ t.key = NoKey
    BY <1>2, <1>3, <2>1 DEF Task
  <2>3. QED
    BY <2>2 DEF Asked
<1>4. CASE d.repo = NoPackage
  <2>1. t = [pkg |-> d.key.name, ver |-> d.ver, key |-> d.key, update |-> FALSE, transitive |-> FALSE]
    BY <1>4 DEF FromManifest
  <2>2. d.key.at = 0 /\ d.key.name \in Package
    BY <1>4 DEF CanInstall, CanResolve
  <2>3. /\ t \in Task /\ ~t.transitive
        /\ t.key = d.key /\ t.pkg = d.key.name
    BY <1>2, <2>1, <2>2 DEF Task
  <2>4. QED
    BY <1>4, <2>2, <2>3 DEF Asked
<1>5. QED
  BY <1>3, <1>4

LEMMA InputAsks ==
    ASSUME NEW p \in Proc, Typed(proc[p]), NEW i \in Input, CanUse(p, i), NEW t \in FromInput(p, i)
    PROVE  Asked(proc[p], t)
<1>1. CASE Matching(p, i) # {}
  <2>1. PICK d \in Matching(p, i) : t = FromManifest(d)
    BY <1>1 DEF FromInput
  <2>2. d \in proc[p].entries /\ CanInstall(d)
    BY <1>1 DEF Matching, CanUse
  <2>3. QED
    BY <2>1, <2>2, ManifestAsks
<1>2. CASE Matching(p, i) = {}
  <2>1. t = [pkg |-> i.pkg, ver |-> Resolved(i.pkg, i.at),
             key |-> IF i.by = "name" THEN [name |-> i.pkg, at |-> i.at] ELSE NoKey,
             update |-> TRUE, transitive |-> FALSE]
    BY <1>2 DEF FromInput
  <2>2. /\ i.pkg \in Package /\ i.at \in Version \union {0} /\ i.by \in {"name", "reference"}
        /\ i.by = "reference" => i.at # 0
    BY VersionAssumption DEF Input
  <2>3. i.by = "reference" \/ CanResolve(i.pkg)
    BY <1>2 DEF CanUse
  <2>4. Resolved(i.pkg, i.at) \in Version /\ (i.at # 0 => Resolved(i.pkg, i.at) = i.at)
    BY <2>2, <2>3, LatestType DEF Resolved
  <2>5. CASE i.by = "name"
    <3> DEFINE k == [name |-> i.pkg, at |-> i.at]
    <3>1. k \in Tagged /\ k.name = i.pkg /\ k.at = i.at
      BY <2>2 DEF Tagged, Name
    <3>2. t = [pkg |-> i.pkg, ver |-> Resolved(i.pkg, i.at), key |-> k,
               update |-> TRUE, transitive |-> FALSE]
      BY <2>1, <2>5
    <3> HIDE DEF k
    <3>3. t \in Task /\ ~t.transitive /\ t.key = k /\ t.pkg = i.pkg /\ t.update
          /\ t.ver = Resolved(i.pkg, i.at)
      BY <2>2, <2>4, <3>1, <3>2 DEF Task
    <3>4. QED
      BY <2>4, <3>1, <3>3 DEF Asked
  <2>6. CASE i.by = "reference"
    <3>1. t = [pkg |-> i.pkg, ver |-> Resolved(i.pkg, i.at), key |-> NoKey,
               update |-> TRUE, transitive |-> FALSE]
      BY <2>1, <2>6
    <3>2. t \in Task /\ ~t.transitive /\ t.key = NoKey
      BY <2>2, <2>4, <3>1 DEF Task
    <3>3. QED
      BY <3>2 DEF Asked
  <2>7. QED
    BY <2>2, <2>5, <2>6
<1>3. QED
  BY <1>1, <1>2

LEMMA WantedAsks ==
    ASSUME NEW p \in Proc, Typed(proc[p]), CanPlan(p), NEW t \in Wanted(p)
    PROVE  Asked(proc[p], t)
<1>1. CASE proc[p].cmd.inputs = {}
  BY <1>1, ManifestAsks DEF Wanted, CanPlan
<1>2. CASE proc[p].cmd.inputs # {}
  <2>1. PICK i \in proc[p].cmd.inputs : t \in FromInput(p, i)
    BY <1>2 DEF Wanted
  <2>2. proc[p].cmd \in Command
    BY DEF Typed, State
  <2>3. proc[p].cmd.inputs \subseteq Input
    BY <2>2 DEF Command
  <2>4. CanUse(p, i)
    BY <1>2 DEF CanPlan
  <2>5. QED
    BY <2>1, <2>3, <2>4, InputAsks
<1>3. QED
  BY <1>1, <1>2

LEMMA ChosenType == \A f \in Chosen : DOMAIN f \subseteq Package /\ \A q \in DOMAIN f : f[q] \in Version
BY DEF Chosen

LEMMA SelectionType ==
    ASSUME NEW tasks, NEW f \in Selections(tasks)
    PROVE  f \in Chosen
BY DEF Selections, Chosen

\* A selection that was planned.
LEMMA TransitiveFields ==
    ASSUME NEW p, NEW pkgs, NEW f \in Chosen, NEW t \in Transitive(p, pkgs, f)
    PROVE  /\ t \in Task /\ t.transitive /\ ~t.update /\ t.key = NoKey
           /\ t.pkg \in DOMAIN f /\ t.ver = f[t.pkg]
<1>1. PICK q \in DOMAIN f :
        t = [pkg |-> q, ver |-> f[q], key |-> NoKey, update |-> FALSE, transitive |-> TRUE]
  BY DEF Transitive
<1>2. q \in Package /\ f[q] \in Version
  BY ChosenType
<1>3. QED
  BY <1>1, <1>2 DEF Task

\* The state of an install once it has planned.
PlannedState(n, p, pkgs, more, planned) ==
    /\ n.at = "work" /\ n.cmd = proc[p].cmd /\ n.entries = proc[p].entries /\ n.pkgs = pkgs
    /\ n.tasks = Wanted(p) \union more /\ n.planned = planned /\ n.alone = proc[p].alone
    /\ \A t \in n.tasks : n.stage[t] = "fetch"

LEMMA PlannedFields ==
    ASSUME NEW p \in Proc, proc \in [Proc -> State], NEW pkgs \in SUBSET Locked,
           NEW more \in SUBSET Task, NEW b \in BOOLEAN,
           Wanted(p) \subseteq Task, Planned(p, pkgs, more, b)
    PROVE  /\ Typed(proc'[p]) /\ PlannedState(proc'[p], p, pkgs, more, b)
           /\ \A q \in Proc \ {p} : proc'[q] = proc[q]
           /\ proc' \in [Proc -> State]
<1> DEFINE T == Wanted(p) \union more
<1> DEFINE f == [t \in T |-> "fetch"]
<1> DEFINE s == proc[p]
<1> DEFINE n == [s EXCEPT !.at = "work", !.pkgs = pkgs, !.tasks = T, !.planned = b, !.stage = f]
<1>1. Become(p, n)
  BY DEF Planned
<1>2. f \in [T -> TaskStage] /\ T \in SUBSET Task /\ \A t \in T : f[t] = "fetch"
  BY DEF TaskStage
<1>3. f \in StageOf
  BY <1>2, StageOfType
<1>4. "work" \in Stage
  BY DEF Stage
<1>5. s \in State
  OBVIOUS
<1> HIDE DEF T, f, s
<1>6. /\ n \in State /\ n.at = "work" /\ n.cmd = s.cmd /\ n.entries = s.entries /\ n.pkgs = pkgs
      /\ n.tasks = T /\ n.planned = b /\ n.alone = s.alone /\ n.stage = f
  BY <1>2, <1>3, <1>4, <1>5 DEF State
<1> HIDE DEF n
<1>7. /\ proc'[p] = n /\ \A q \in Proc \ {p} : proc'[q] = proc[q]
      /\ proc' \in [Proc -> State]
  BY <1>1, <1>6, BecomeEffect
<1>8. QED
  BY <1>2, <1>6, <1>7 DEF Typed, PlannedState, T, s

\* Without dependencies, or with a whole selection of them.
PlansWell(p, pkgs, more, planned) ==
    \/ more = {} /\ planned = FALSE
    \/ planned = TRUE /\ \E f \in Selections(Wanted(p)) : more = Transitive(p, pkgs, f)

LEMMA RootOf ==
    ASSUME NEW tasks, NEW t \in tasks, t.key # NoKey
    PROVE  <<t.key.name, IF t.key.at # 0 THEN t.key.at ELSE t.ver>> \in Roots(tasks)
BY DEF Roots

LEMMA RootNameOf ==
    ASSUME NEW tasks, NEW q \in RootNames(tasks)
    PROVE  \E t \in tasks : t.key # NoKey /\ t.key.name = q
BY DEF RootNames, Roots

LEMMA SelectionFollows ==
    ASSUME NEW p \in Proc, Typed(proc[p]), CanPlan(p), NEW pkgs, NEW b,
           NEW f \in Selections(Wanted(p)),
           NEW n, PlannedState(n, p, pkgs, Transitive(p, pkgs, f), b)
    PROVE  Follows(n, f)
<1>1. f \in Chosen
  BY SelectionType
<1>2. \A q \in DOMAIN f : Satisfied(f, q)
  BY DEF Selections
<1>3. \A r \in Roots(Wanted(p)) : r[1] \in DOMAIN f /\ f[r[1]] = r[2]
  BY DEF Selections
<1>4. ASSUME NEW t \in Wanted(p), t.key # NoKey
      PROVE  t.pkg \in DOMAIN f /\ f[t.pkg] = t.ver
  <2>1. Asked(proc[p], t)
    BY WantedAsks
  <2> DEFINE r == <<t.key.name, IF t.key.at # 0 THEN t.key.at ELSE t.ver>>
  <2>2. r[1] \in DOMAIN f /\ f[r[1]] = r[2]
    BY <1>3, <1>4, RootOf
  <2>3. QED
    BY <1>4, <2>1, <2>2 DEF Asked
<1>5. ASSUME NEW t \in n.tasks, Resolving(t)
      PROVE  t.pkg \in DOMAIN f /\ f[t.pkg] = t.ver
  <2>1. CASE t \in Wanted(p)
    BY <1>4, <1>5, <2>1, WantedAsks DEF Resolving, Asked
  <2>2. CASE t \in Transitive(p, pkgs, f)
    BY <1>1, <2>2, TransitiveFields
  <2>3. QED
    BY <2>1, <2>2 DEF PlannedState
<1>6. ASSUME NEW q \in DOMAIN f
      PROVE  \/ \E t \in n.tasks : Resolving(t) /\ t.pkg = q
             \/ \E l \in n.pkgs : l.key = Plain(q)
  <2>1. CASE q \in RootNames(Wanted(p))
    <3>1. PICK t \in Wanted(p) : t.key # NoKey /\ t.key.name = q
      BY <2>1, RootNameOf
    <3>2. t.pkg = q
      BY <3>1, WantedAsks DEF Asked
    <3>3. QED
      BY <3>1, <3>2 DEF Resolving, PlannedState
  <2>2. CASE q \notin RootNames(Wanted(p)) /\ Skipped(p, pkgs, q)
    BY <2>2 DEF Skipped, PlannedState
  <2>3. CASE q \notin RootNames(Wanted(p)) /\ ~Skipped(p, pkgs, q)
    <3> DEFINE t == [pkg |-> q, ver |-> f[q], key |-> NoKey, update |-> FALSE, transitive |-> TRUE]
    <3>1. t \in Transitive(p, pkgs, f)
      BY <2>3 DEF Transitive
    <3>2. t.transitive /\ t.pkg = q
      OBVIOUS
    <3> HIDE DEF t
    <3>3. QED
      BY <3>1, <3>2 DEF Resolving, PlannedState
  <2>4. QED
    BY <2>1, <2>2, <2>3
<1>7. QED
  BY <1>2, <1>5, <1>6 DEF Follows

LEMMA PlanSound ==
    ASSUME NEW p \in Proc, Typed(proc[p]), Sound(proc[p]), proc[p].at = "lock", CanPlan(p),
           NEW pkgs, LocksFit(pkgs), NEW more, NEW b, PlansWell(p, pkgs, more, b),
           NEW n, PlannedState(n, p, pkgs, more, b)
    PROVE  Sound(n)
<1>1. EntriesFit(n.entries) /\ LocksFit(n.pkgs)
  BY DEF PlannedState, Sound
<1>2. TasksFit(n)
  <2> SUFFICES ASSUME NEW t \in n.tasks
               PROVE  /\ t.key # NoKey => t.key.name = t.pkg
                      /\ Named(t) /\ ~t.update /\ t.key # NoKey => Entered(n.entries, t)
    BY DEF TasksFit, PlannedState, Over
  <2>1. CASE t \in more
    BY <2>1, SelectionType, TransitiveFields DEF PlansWell
  <2>2. CASE t \in Wanted(p)
    <3>1. Asked(proc[p], t)
      BY <2>2, WantedAsks
    <3>2. t.key # NoKey => t.key.name = t.pkg
      BY <3>1 DEF Asked
    <3>3. ASSUME Named(t), ~t.update, t.key # NoKey
          PROVE  Entered(n.entries, t)
      <4>1. PICK d \in proc[p].entries : d.repo = NoPackage /\ d.key = t.key
        BY <3>1, <3>3 DEF Asked
      <4>2. t.pkg \in Package /\ OwnName(t.pkg) /\ KeyOf(t) = Plain(t.pkg) /\ KeyOf(t) = t.key
        BY <3>1, <3>3 DEF Asked, Task, Named, KeyOf
      <4>3. d.section = SectionOf(t.pkg)
        BY <4>1, <4>2 DEF Sound, EntriesFit
      <4>4. QED
        BY <4>1, <4>2, <4>3 DEF Entered, PlannedState
    <3>4. QED
      BY <3>2, <3>3
  <2>3. QED
    BY <2>1, <2>2 DEF PlannedState
<1>3. DoneAreLocked(n)
  BY DEF DoneAreLocked, PlannedState, Installed
<1>4. PlanHolds(n)
  <2>1. CASE ~n.planned
    BY <2>1 DEF PlanHolds
  <2>2. CASE n.planned
    <3>1. PICK f \in Selections(Wanted(p)) : more = Transitive(p, pkgs, f)
      BY <2>2 DEF PlansWell, PlannedState
    <3>2. f \in Chosen /\ Follows(n, f)
      BY <3>1, SelectionType, SelectionFollows
    <3>3. QED
      BY <3>2 DEF PlanHolds
  <2>3. QED
    BY <2>1, <2>2
<1>5. StagesFit(n)
  BY DEF StagesFit, PlannedState, Working
<1>6. QED
  BY <1>1, <1>2, <1>3, <1>4, <1>5 DEF Sound

-------------------------------------------------------------------------------
(* The steps, and what each leaves of the invariant. *)

\* What a step of p may rely on.
Before(p) ==
    /\ Types /\ EntriesFit(manifest.entries) /\ LocksFit(lock.pkgs)
    /\ Sound(proc[p])
    /\ proc[p].alone /\ ~At(p, "idle") => \A q \in Others(p) : At(q, "idle")

\* What it does to its own state, and to the files.
OwnStep(p) ==
    /\ proc' \in [Proc -> State] /\ \A q \in Proc \ {p} : proc'[q] = proc[q]
    /\ Typed(proc'[p]) /\ Sound(proc'[p])
    /\ proc[p].at # "idle"
    /\ proc'[p].at # "idle" => proc'[p].alone = proc[p].alone
FilesFit == FilesTyped' /\ EntriesFit(manifest'.entries) /\ LocksFit(lock'.pkgs)
AgreesNext(p) ==
    /\ ManifestAgrees(manifest', proc'[p])
    /\ LockAgrees(lock', proc'[p])
    /\ FilesAgree(wasm', wit', proc'[p])
Keeps(p) == OwnStep(p) /\ FilesFit /\ (proc[p].alone /\ Agrees(p) => AgreesNext(p))

\* In the other stages the files are nothing to a command.
Light == Stage \ ({"makeManifest", "makeLock", "lock"} \union Working)
LEMMA LightAgrees ==
    ASSUME NEW s, s.at \in Light, NEW m, NEW k, NEW w, NEW x
    PROVE  ManifestAgrees(m, s) /\ LockAgrees(k, s) /\ FilesAgree(w, x, s)
BY DEF Light, Working, Over, ManifestAgrees, LockAgrees, FilesAgree

LEMMA SameFiles ==
    ASSUME NEW p, Before(p), UNCHANGED files
    PROVE  FilesFit /\ manifest' = manifest /\ lock' = lock /\ wasm' = wasm /\ wit' = wit
BY DEF Before, Types, FilesFit, FilesTyped, files

\* Alone, a command sees the files whole.
LEMMA AloneSees ==
    ASSUME NEW p \in Proc, Before(p), proc[p].alone, proc[p].at # "idle"
    PROVE  \A q \in Others(p) : ~WritesManifest(q) /\ ~WritesLock(q)
<1>1. \A q \in Others(p) : proc[q].at = "idle"
  BY DEF Before, At
<1>2. QED
  BY <1>1 DEF WritesManifest, WritesLock, Collected, At

LEMMA EndEffect ==
    ASSUME NEW p \in Proc, Before(p), proc[p].at # "idle", End(p)
    PROVE  OwnStep(p) /\ AgreesNext(p) /\ proc'[p] = Idle
<1>1. Typed(Idle) /\ Empty(Idle) /\ Idle.at = "idle" /\ Idle.cmd.op = "init"
  BY IdleType
<1>2. Sound(Idle)
  BY <1>1, EmptySound DEF StagesFit, Empty
<1>3. /\ proc' \in [Proc -> State] /\ \A q \in Proc \ {p} : proc'[q] = proc[q]
      /\ proc'[p] = Idle
  BY <1>1, BecomeEffect DEF End, Before, Types, Typed
<1>4. "idle" \in Light
  BY DEF Light, Working, Stage
<1>5. AgreesNext(p)
  BY <1>1, <1>3, <1>4, LightAgrees DEF AgreesNext
<1>6. QED
  BY <1>1, <1>2, <1>3, <1>5 DEF OwnStep

LEMMA ProceedEffect ==
    ASSUME NEW p \in Proc, Before(p), proc[p].at # "idle", NEW a \in Stage, a # "idle",
           Proceed(p, a),
           a \in Over => \A t \in proc[p].tasks : proc[p].stage[t] \in Settled,
           a \in Working <=> proc[p].at \in Working,
           a \in {"init", "initLock"} => proc[p].cmd.op = "init",
           a \in {"clean", "cleanWasm", "cleanWit"} => proc[p].cmd.op = "clean"
    PROVE  /\ OwnStep(p) /\ proc'[p].at = a /\ SameBut(proc'[p], proc[p])
           /\ a \in Light => AgreesNext(p)
<1> DEFINE s == proc[p]
<1> DEFINE n == [s EXCEPT !.at = a]
<1>1. Typed(s) /\ Sound(s) /\ proc \in [Proc -> State]
  BY DEF Before, Types
<1>2. Typed(n) /\ n.at = a /\ SameBut(n, s)
  BY <1>1, AtOnly
<1>3. Become(p, n)
  BY DEF Proceed
<1> HIDE DEF n, s
<1>4. /\ proc' \in [Proc -> State] /\ \A q \in Proc \ {p} : proc'[q] = proc[q]
      /\ proc'[p] = n
  BY <1>1, <1>2, <1>3, BecomeEffect DEF Typed
<1>5. StagesFit(n)
  BY <1>1, <1>2 DEF StagesFit, SameBut, Sound, s, Working
<1>6. n.at \in Over => \A t \in s.tasks : s.stage[t] \in Settled
  BY <1>2 DEF s
<1>7. Sound(n)
  BY <1>1, <1>2, <1>5, <1>6, StageSound DEF SameBut
<1>8. a \in Light => AgreesNext(p)
  BY <1>2, <1>4, LightAgrees DEF AgreesNext
<1>9. QED
  BY <1>2, <1>4, <1>7, <1>8 DEF OwnStep, SameBut, s

LEMMA AdvanceEffect ==
    ASSUME NEW p \in Proc, Before(p), proc[p].at = "work", NEW t \in proc[p].tasks,
           NEW a \in {"read", "write", "remove", "failed"}, Advance(p, t, a),
           a = "failed" => t.transitive,
           a # "failed" => t.pkg \notin Component
    PROVE  /\ OwnStep(p) /\ SameButStage(proc'[p], proc[p])
           /\ \A u \in proc[p].tasks : proc'[p].stage[u] = IF u = t THEN a ELSE proc[p].stage[u]
<1> DEFINE s == proc[p]
<1> DEFINE n == [s EXCEPT !.stage[t] = a]
<1>1. Typed(s) /\ Sound(s) /\ proc \in [Proc -> State]
  BY DEF Before, Types
<1>2. a \in TaskStage
  BY DEF TaskStage
<1>3. Typed(n) /\ SameButStage(n, s) /\ n.stage = [s.stage EXCEPT ![t] = a]
  BY <1>1, <1>2, StageOnly
<1>4. Become(p, n)
  BY DEF Advance
<1>5. s.at = "work" /\ t \in s.tasks
  OBVIOUS
<1> HIDE DEF n, s
<1>6. /\ proc' \in [Proc -> State] /\ \A q \in Proc \ {p} : proc'[q] = proc[q]
      /\ proc'[p] = n
  BY <1>1, <1>3, <1>4, BecomeEffect DEF Typed
<1>7. Sound(n)
  BY <1>1, <1>3, <1>5, AdvanceSound
<1>8. \A u \in s.tasks : n.stage[u] = IF u = t THEN a ELSE s.stage[u]
  BY <1>1, <1>3 DEF Typed
<1>9. QED
  BY <1>3, <1>5, <1>6, <1>7, <1>8 DEF OwnStep, SameButStage, s

LEMMA ResultEffect ==
    ASSUME NEW p \in Proc, Before(p), proc[p].at = "work", NEW t \in proc[p].tasks,
           NEW a \in Installed, Become(p, WithResult(proc[p], t, a)),
           a = "raw" => t.transitive /\ t.pkg \notin Component
    PROVE  LET s == proc[p]
               n == proc'[p]
           IN  /\ OwnStep(p)
               /\ n.at = s.at /\ n.cmd = s.cmd /\ n.tasks = s.tasks
               /\ n.planned = s.planned /\ n.alone = s.alone
               /\ n.entries = EntriesWith(s, t) /\ n.pkgs = PkgsWith(s, t)
               /\ \A u \in s.tasks : n.stage[u] = IF u = t THEN a ELSE s.stage[u]
<1> DEFINE s == proc[p]
<1> DEFINE n == WithResult(s, t, a)
<1>1. Typed(s) /\ Sound(s) /\ proc \in [Proc -> State]
  BY DEF Before, Types
<1>2. /\ Typed(n) /\ n.at = s.at /\ n.cmd = s.cmd /\ n.tasks = s.tasks
      /\ n.planned = s.planned /\ n.alone = s.alone
      /\ n.entries = EntriesWith(s, t) /\ n.pkgs = PkgsWith(s, t)
      /\ n.stage = [s.stage EXCEPT ![t] = a]
  BY <1>1, ResultFields
<1>3. Become(p, n) /\ s.at = "work" /\ t \in s.tasks
  OBVIOUS
<1> HIDE DEF n, s
<1>4. /\ proc' \in [Proc -> State] /\ \A q \in Proc \ {p} : proc'[q] = proc[q]
      /\ proc'[p] = n
  BY <1>1, <1>2, <1>3, BecomeEffect DEF Typed
<1>5. Sound(n)
  BY <1>1, <1>2, <1>3, ResultSound
<1>6. \A u \in s.tasks : n.stage[u] = IF u = t THEN a ELSE s.stage[u]
  BY <1>1, <1>2 DEF Typed
<1>7. QED
  BY <1>2, <1>3, <1>4, <1>5, <1>6 DEF OwnStep, s

LEMMA OldFiles ==
    ASSUME NEW p, Before(p)
    PROVE  FilesTyped /\ EntriesFit(manifest.entries) /\ LocksFit(lock.pkgs)
BY DEF Before, Types

LEMMA NewManifest ==
    ASSUME NEW p, Before(p), NEW e \in SUBSET Entry, EntriesFit(e),
           manifest' = [there |-> TRUE, entries |-> e], UNCHANGED <<lock, wasm, wit>>
    PROVE  FilesFit
BY OldFiles DEF FilesFit, FilesTyped

LEMMA NewLock ==
    ASSUME NEW p, Before(p), NEW i \in {"missing", "ok", "torn"}, NEW k \in SUBSET Locked,
           LocksFit(k), lock' = [is |-> i, pkgs |-> k], UNCHANGED <<manifest, wasm, wit>>
    PROVE  FilesFit
BY OldFiles DEF FilesFit, FilesTyped

LEMMA LessWit ==
    ASSUME NEW p, Before(p), wit' \subseteq wit, UNCHANGED <<manifest, lock, wasm>>
    PROVE  FilesFit
BY OldFiles DEF FilesFit, FilesTyped

LEMMA EmptyFits == EntriesFit({}) /\ LocksFit({})
BY DEF EntriesFit, LocksFit

LEMMA SkeletonsKeep ==
    ASSUME NEW p \in Proc, Before(p), Skeleton(p) \/ SkeletonLock(p) \/ LookUp(p)
    PROVE  Keeps(p)
<1> "skeleton" \in Stage /\ "makeManifest" \in Stage /\ "skeletonLock" \in Stage
    /\ "makeLock" \in Stage /\ "manifest" \in Stage
  BY DEF Stage
<1> "skeleton" \in Light /\ "skeletonLock" \in Light /\ "manifest" \in Light
  BY DEF Light, Working, Stage
<1>1. FilesFit /\ manifest' = manifest /\ lock' = lock
  BY SameFiles DEF Skeleton, SkeletonLock, LookUp
<1>2. ASSUME NEW a \in {"skeleton", "skeletonLock", "manifest"}, Proceed(p, a),
             proc[p].at \in {"lookup", "skeleton", "skeletonLock"}
      PROVE  Keeps(p)
  BY <1>1, <1>2, ProceedEffect DEF Keeps, Working, Over
<1>3. CASE LookUp(p)
  BY <1>1, <1>2, <1>3, EndEffect DEF LookUp, At, Keeps
<1>4. CASE Skeleton(p)
  <2>1. CASE manifest.there
    BY <1>2, <1>4, <2>1 DEF Skeleton, At
  <2>2. CASE ~manifest.there
    <3>1. OwnStep(p) /\ proc'[p].at = "makeManifest"
      BY <1>4, <2>2, ProceedEffect DEF Skeleton, At, Working, Over
    <3>2. AgreesNext(p)
      BY <1>1, <2>2, <3>1 DEF AgreesNext, ManifestAgrees, LockAgrees, FilesAgree, Working, Over
    <3>3. QED
      BY <1>1, <3>1, <3>2 DEF Keeps
  <2>3. QED
    BY <2>1, <2>2
<1>5. CASE SkeletonLock(p)
  <2>1. CASE lock.is # "missing"
    BY <1>2, <1>5, <2>1 DEF SkeletonLock, At
  <2>2. CASE lock.is = "missing"
    <3>1. OwnStep(p) /\ proc'[p].at = "makeLock"
      BY <1>5, <2>2, ProceedEffect DEF SkeletonLock, At, Working, Over
    <3>2. AgreesNext(p)
      BY <1>1, <2>2, <3>1 DEF AgreesNext, ManifestAgrees, LockAgrees, FilesAgree, Working, Over
    <3>3. QED
      BY <1>1, <3>1, <3>2 DEF Keeps
  <2>3. QED
    BY <2>1, <2>2
<1>6. QED
  BY <1>3, <1>4, <1>5

LEMMA EndsKeep ==
    ASSUME NEW p \in Proc, Before(p), Done(p) \/ LookUpAgain(p)
    PROVE  Keeps(p)
BY SameFiles, EndEffect DEF Done, LookUpAgain, At, Keeps

LEMMA EmptiesKeep ==
    ASSUME NEW p \in Proc, Before(p), EmptyManifest(p) \/ EmptyLock(p)
    PROVE  Keeps(p)
<1> "initLock" \in Stage /\ "skeletonLock" \in Stage /\ "manifest" \in Stage
  BY DEF Stage
<1> "initLock" \in Light /\ "skeletonLock" \in Light /\ "manifest" \in Light
  BY DEF Light, Working, Stage
<1>1. FilesFit
  BY NewManifest, NewLock, EmptyFits DEF EmptyManifest, EmptyLock
<1>2. proc[p].at = "init" => proc[p].cmd.op = "init"
  BY DEF Before, Sound, StagesFit
<1>3. CASE At(p, "init") /\ Proceed(p, "initLock")
  BY <1>1, <1>2, <1>3, ProceedEffect DEF At, Keeps, Working, Over
<1>4. CASE At(p, "makeManifest") /\ Proceed(p, "skeletonLock")
  BY <1>1, <1>4, ProceedEffect DEF At, Keeps, Working, Over
<1>5. CASE At(p, "initLock") /\ End(p)
  BY <1>1, <1>5, EndEffect DEF At, Keeps
<1>6. CASE At(p, "makeLock") /\ Proceed(p, "manifest")
  BY <1>1, <1>6, ProceedEffect DEF At, Keeps, Working, Over
<1>7. QED
  BY <1>3, <1>4, <1>5, <1>6 DEF EmptyManifest, EmptyLock

LEMMA CleansKeep ==
    ASSUME NEW p \in Proc, Before(p), CleanLock(p) \/ CleanWasm(p) \/ CleanWit(p)
    PROVE  Keeps(p)
<1> "cleanWasm" \in Stage /\ "cleanWit" \in Stage
  BY DEF Stage
<1> "cleanWasm" \in Light /\ "cleanWit" \in Light
  BY DEF Light, Working, Stage
<1>1. proc[p].at \in {"clean", "cleanWasm"} => proc[p].cmd.op = "clean"
  BY DEF Before, Sound, StagesFit
<1>2. CASE CleanLock(p)
  <2>1. FilesFit
    BY <1>2, NewLock, EmptyFits DEF CleanLock
  <2>2. QED
    BY <1>1, <1>2, <2>1, ProceedEffect DEF CleanLock, At, Keeps, Working, Over
<1>3. CASE CleanWasm(p)
  <2>1. FilesFit
    BY <1>3, OldFiles DEF CleanWasm, FilesFit, FilesTyped
  <2>2. QED
    BY <1>1, <1>3, <2>1, ProceedEffect DEF CleanWasm, At, Keeps, Working, Over
<1>4. CASE CleanWit(p)
  <2>1. FilesFit
    BY <1>4, OldFiles DEF CleanWit, FilesFit, FilesTyped
  <2>2. QED
    BY <1>4, <2>1, EndEffect DEF CleanWit, At, Keeps
<1>5. QED
  BY <1>2, <1>3, <1>4

LEMMA CrashKeeps ==
    ASSUME NEW p \in Proc, Before(p), Crash(p)
    PROVE  Keeps(p)
<1>1. FilesFit
  <2>1. CASE wit' \subseteq wit /\ UNCHANGED <<manifest, lock, wasm>>
    BY <2>1, LessWit
  <2>2. QED
    BY <2>1, SameFiles, NewManifest, NewLock, EmptyFits DEF Crash
<1>2. QED
  BY <1>1, EndEffect DEF Crash, At, Keeps

LEMMA ReadManifestKeeps ==
    ASSUME NEW p \in Proc, Before(p), ReadManifest(p)
    PROVE  Keeps(p)
<1> DEFINE s == proc[p]
<1>1. s.at = "manifest" /\ s.at # "idle"
  BY DEF ReadManifest, At
<1>2. FilesFit /\ manifest' = manifest
  BY SameFiles DEF ReadManifest
<1>3. CASE ~manifest.there
  BY <1>1, <1>2, <1>3, EndEffect DEF ReadManifest, Keeps
<1>4. CASE manifest.there
  <2>1. PICK seen \in {manifest.entries} \union {{} : q \in {o \in Others(p) : WritesManifest(o)}} :
          Become(p, [s EXCEPT !.entries = seen, !.at = "lock"])
    BY <1>4 DEF ReadManifest
  <2>2. seen \in {manifest.entries, {}} /\ (s.alone => seen = manifest.entries)
    BY <1>1, <2>1, AloneSees
  <2>3. seen \subseteq Entry /\ EntriesFit(seen)
    BY <2>2, OldFiles, EmptyFits DEF FilesTyped
  <2>4. Typed(s) /\ s.tasks = {} /\ ~s.planned /\ LocksFit(s.pkgs) /\ proc \in [Proc -> State]
    BY <1>1 DEF Before, Types, Sound, StagesFit, Working
  <2> "lock" \in Stage
    BY DEF Stage
  <2> DEFINE n == [s EXCEPT !.entries = seen, !.at = "lock"]
  <2> HIDE DEF s
  <2>5. /\ Typed(n) /\ n.at = "lock" /\ n.entries = seen /\ n.cmd = s.cmd /\ n.pkgs = s.pkgs
        /\ n.tasks = s.tasks /\ n.planned = s.planned /\ n.alone = s.alone
    BY <2>3, <2>4 DEF Typed, State
  <2> HIDE DEF n
  <2>6. /\ proc' \in [Proc -> State] /\ \A q \in Proc \ {p} : proc'[q] = proc[q]
        /\ proc'[p] = n
    BY <2>1, <2>4, <2>5, BecomeEffect DEF Typed, n
  <2>7. StagesFit(n)
    BY <2>4, <2>5 DEF StagesFit
  <2>8. Sound(n)
    BY <2>3, <2>4, <2>5, <2>7, ReadSound
  <2>9. OwnStep(p)
    BY <1>1, <2>5, <2>6, <2>8 DEF OwnStep, s
  <2>10. ManifestAgrees(manifest', n) \/ ~s.alone
    BY <1>2, <1>4, <2>2, <2>5 DEF ManifestAgrees, SameLine, Over
  <2>11. LockAgrees(lock', n) /\ FilesAgree(wasm', wit', n)
    BY <2>5 DEF LockAgrees, FilesAgree, Working
  <2>12. s.alone => AgreesNext(p)
    BY <2>6, <2>10, <2>11 DEF AgreesNext
  <2>13. QED
    BY <1>2, <2>9, <2>12 DEF Keeps, s
<1>5. QED
  BY <1>3, <1>4

LEMMA WantedType ==
    ASSUME NEW p \in Proc, Typed(proc[p]), CanPlan(p)
    PROVE  Wanted(p) \subseteq Task
BY WantedAsks DEF Asked

LEMMA PlannedKeeps ==
    ASSUME NEW p \in Proc, Before(p), proc[p].at = "lock", UNCHANGED files, CanPlan(p),
           NEW more, NEW b \in BOOLEAN, PlansWell(p, lock.pkgs, more, b),
           Planned(p, lock.pkgs, more, b)
    PROVE  Keeps(p)
<1>1. FilesFit /\ manifest' = manifest /\ lock' = lock
  BY SameFiles
<1>2. more \in SUBSET Task
  BY SelectionType, TransitiveFields DEF PlansWell
<1>3. Typed(proc[p]) /\ Sound(proc[p]) /\ proc \in [Proc -> State]
  BY DEF Before, Types
<1>4. lock.pkgs \in SUBSET Locked /\ LocksFit(lock.pkgs)
  BY OldFiles DEF FilesTyped
<1>5. Wanted(p) \subseteq Task
  BY <1>3, WantedType
<1>6. /\ Typed(proc'[p]) /\ PlannedState(proc'[p], p, lock.pkgs, more, b)
      /\ \A q \in Proc \ {p} : proc'[q] = proc[q]
      /\ proc' \in [Proc -> State]
  BY <1>2, <1>3, <1>4, <1>5, PlannedFields
<1> DEFINE s == proc[p]
<1> DEFINE n == proc'[p]
<1>7. Sound(n)
  BY <1>3, <1>4, <1>6, PlanSound
<1>8. OwnStep(p)
  BY <1>6, <1>7 DEF OwnStep, PlannedState
<1>9. ManifestAgrees(manifest, s) => ManifestAgrees(manifest', n)
  BY <1>1, <1>6 DEF ManifestAgrees, PlannedState, Over
<1>10. LockAgrees(lock', n)
  BY <1>1, <1>6 DEF LockAgrees, PlannedState, SameLine, SameLock
<1>11. FilesAgree(wasm', wit', n)
  BY <1>6 DEF FilesAgree, PlannedState
<1>12. QED
  BY <1>1, <1>8, <1>9, <1>10, <1>11 DEF Keeps, Agrees, AgreesNext

LEMMA ReadLockKeeps ==
    ASSUME NEW p \in Proc, Before(p), ReadLock(p)
    PROVE  Keeps(p)
<1>1. proc[p].at = "lock" /\ UNCHANGED files /\ FilesFit
  BY SameFiles DEF ReadLock, At
<1>2. CASE End(p)
  BY <1>1, <1>2, EndEffect DEF Keeps
<1>3. CASE CanPlan(p) /\ Planned(p, lock.pkgs, {}, FALSE)
  <2>1. PlansWell(p, lock.pkgs, {}, FALSE)
    BY DEF PlansWell
  <2>2. QED
    BY <1>1, <1>3, <2>1, PlannedKeeps
<1>4. ASSUME CanPlan(p), NEW f \in Selections(Wanted(p)),
             Planned(p, lock.pkgs, Transitive(p, lock.pkgs, f), TRUE)
      PROVE  Keeps(p)
  <2>1. PlansWell(p, lock.pkgs, Transitive(p, lock.pkgs, f), TRUE)
    BY DEF PlansWell
  <2>2. QED
    BY <1>1, <1>4, <2>1, PlannedKeeps
<1>5. QED
  BY <1>2, <1>3, <1>4 DEF ReadLock, Plan

\* An entry under way does not change what the files of the others are.
LEMMA AdvanceAgrees ==
    ASSUME NEW p, proc[p].at = "work", SameButStage(proc'[p], proc[p]),
           NEW t \in proc[p].tasks, NEW a \in {"read", "write", "remove", "failed"},
           \A u \in proc[p].tasks : proc'[p].stage[u] = IF u = t THEN a ELSE proc[p].stage[u],
           proc[p].stage[t] \notin Installed, manifest' = manifest, lock' = lock,
           Agrees(p)
    PROVE  ManifestAgrees(manifest', proc'[p]) /\ LockAgrees(lock', proc'[p])
<1>1. ManifestAgrees(manifest, proc[p]) /\ LockAgrees(lock, proc[p])
  BY DEF Agrees
<1>2. ManifestAgrees(manifest', proc'[p])
  BY <1>1 DEF ManifestAgrees, SameButStage
<1>3. LockAgrees(lock', proc'[p])
  <2>1. a \notin Installed
    BY DEF Installed
  <2>2. QED
    BY <1>1, <2>1 DEF LockAgrees, SameButStage
<1>4. QED
  BY <1>2, <1>3

\* A result adds its lines to both files' copies.
LEMMA ResultAgrees ==
    ASSUME NEW s, s.at = "work", NEW t \in s.tasks, NEW n, n.at = s.at, n.tasks = s.tasks,
           n.entries = EntriesWith(s, t), n.pkgs = PkgsWith(s, t), NEW a \in Installed,
           \A u \in s.tasks : n.stage[u] = IF u = t THEN a ELSE s.stage[u],
           NEW m, ManifestAgrees(m, s), NEW k, LockAgrees(k, s)
    PROVE  ManifestAgrees(m, n) /\ LockAgrees(k, n)
<1>1. m.there /\ \A d \in m.entries : \E e \in s.entries : SameLine(e, d)
  BY DEF ManifestAgrees
<1>2. ASSUME NEW d \in m.entries
      PROVE  \E e \in n.entries : SameLine(e, d)
  <2>1. PICK e \in s.entries : SameLine(e, d)
    BY <1>1
  <2>2. PICK c \in EntriesWith(s, t) : SameLine(c, e)
    BY LineStays
  <2>3. SameLine(c, d)
    BY <2>1, <2>2 DEF SameLine
  <2>4. QED
    BY <2>2, <2>3
<1>3. ManifestAgrees(m, n)
  BY <1>1, <1>2 DEF ManifestAgrees, Over
<1>4. ASSUME NEW l \in k.pkgs
      PROVE  \E c \in n.pkgs : SameLine(c, l)
  <2>1. PICK e \in s.pkgs : SameLine(e, l)
    BY DEF LockAgrees
  <2>2. PICK c \in PkgsWith(s, t) : SameLine(c, e)
    BY LockStays
  <2>3. SameLine(c, l)
    BY <2>1, <2>2 DEF SameLine
  <2>4. QED
    BY <2>2, <2>3
<1>5. ASSUME NEW c \in n.pkgs
      PROVE  \/ \E l \in k.pkgs : SameLock(c, l)
             \/ \E u \in n.tasks : n.stage[u] \in Installed /\ c = LockedAs(u)
  <2>1. c \in s.pkgs \/ c = LockedAs(t)
    BY DEF PkgsWith
  <2>2. CASE c \in s.pkgs
    BY <2>2 DEF LockAgrees
  <2>3. CASE c = LockedAs(t)
    BY <2>3
  <2>4. QED
    BY <2>1, <2>2, <2>3
<1>6. LockAgrees(k, n)
  BY <1>4, <1>5 DEF LockAgrees
<1>7. QED
  BY <1>3, <1>6

\* Two packages have the same file only if neither carries its own name.
LEMMA OwnFile ==
    ASSUME NEW q \in Package, NEW o \in Package, NEW v, NEW w,
           OwnName(q), FileOf(q, v) = FileOf(o, w)
    PROVE  q = o /\ v = w
<1>1. FileOf(q, v).name = Embedded[q] /\ FileOf(o, w).name = Embedded[o]
  BY DEF FileOf, VendorFilename, Plain
<1>2. FileOf(q, v).at = v /\ FileOf(o, w).at = w
  BY DEF FileOf, VendorFilename, Plain
<1>3. QED
  BY <1>1, <1>2 DEF OwnName

LEMMA FileOfType == \A q \in Package, v \in Version : FileOf(q, v) \in Tagged
<1> SUFFICES ASSUME NEW q \in Package, NEW v \in Version PROVE FileOf(q, v) \in Tagged
  OBVIOUS
<1>1. Embedded[q] \in Name
  BY PackageAssumption
<1>2. FileOf(q, v) = [name |-> Embedded[q], at |-> v]
  BY DEF FileOf, VendorFilename, Plain
<1>3. QED
  BY <1>1, <1>2 DEF Tagged

LEMMA FileOfTaskType == \A t \in Task : FileOfTask(t) \in Vendored /\ FileOfTask(t).file = FileOf(t.pkg, t.ver)
BY FileOfType DEF Task, FileOfTask, Vendored

\* An entry that is vendored: its file is new, and whoever shared the file with it
\* finds it in its place.
LEMMA FetchFiles ==
    ASSUME NEW s, s.at = "work", s.tasks \subseteq Task, NEW t \in s.tasks, s.stage[t] = "fetch",
           NEW n, n.at = s.at, n.tasks = s.tasks,
           NEW a \in {"read", "done"}, a = "done" => t.pkg \in Component,
           \A u \in s.tasks : n.stage[u] = IF u = t THEN a ELSE s.stage[u],
           NEW w, NEW x, FilesAgree(w, x, s),
           NEW v, v = {f \in w : f.file # FileOf(t.pkg, t.ver)} \union {FileOfTask(t)}
    PROVE  FilesAgree(v, x, n)
<1> SUFFICES ASSUME NEW u \in s.tasks
             PROVE  /\ n.stage[u] = "read" =>
                          \/ FileOfTask(u) \in v
                          \/ \E o \in s.tasks \ {u} : FileOf(o.pkg, o.ver) = FileOf(u.pkg, u.ver)
                    /\ n.stage[u] = "done" /\ u.pkg \in Component /\ OwnName(u.pkg) =>
                          FileOfTask(u) \in v
                    /\ n.stage[u] = "remove" /\ Distinct(s) => FileOf(u.pkg, u.ver) \in x
                    /\ n.stage[u] = "done" /\ u.pkg \notin Component /\ Distinct(s) =>
                          FileOf(u.pkg, u.ver) \in x \ FilesIn(v)
  BY DEF FilesAgree, Distinct
<1>1. FileOfTask(t) \in v
  OBVIOUS
<1>2. CASE u = t
  BY <1>1, <1>2
<1>3. CASE u # t
  <2>1. n.stage[u] = s.stage[u]
    BY <1>3
  <2>2. u \in Task /\ t \in Task /\ t.pkg \in Package /\ u.pkg \in Package
    BY DEF Task
  <2>3. FileOfTask(u).file = FileOf(u.pkg, u.ver) /\ FileOfTask(t).file = FileOf(t.pkg, t.ver)
    BY <2>2, FileOfTaskType
  <2>4. FileOfTask(u) \in w /\ FileOf(u.pkg, u.ver) # FileOf(t.pkg, t.ver) => FileOfTask(u) \in v
    BY <2>3
  <2>5. /\ s.stage[u] = "read" =>
              \/ FileOfTask(u) \in w
              \/ \E o \in s.tasks \ {u} : FileOf(o.pkg, o.ver) = FileOf(u.pkg, u.ver)
        /\ s.stage[u] = "done" /\ u.pkg \in Component /\ OwnName(u.pkg) => FileOfTask(u) \in w
        /\ s.stage[u] = "remove" /\ Distinct(s) => FileOf(u.pkg, u.ver) \in x
        /\ s.stage[u] = "done" /\ u.pkg \notin Component /\ Distinct(s) =>
              FileOf(u.pkg, u.ver) \in x \ FilesIn(w)
    BY DEF FilesAgree, Working
  <2>6. n.stage[u] = "read" =>
              \/ FileOfTask(u) \in v
              \/ \E o \in s.tasks \ {u} : FileOf(o.pkg, o.ver) = FileOf(u.pkg, u.ver)
    BY <1>3, <2>1, <2>4, <2>5
  <2>7. n.stage[u] = "done" /\ u.pkg \in Component /\ OwnName(u.pkg) => FileOfTask(u) \in v
    <3>1. FileOf(u.pkg, u.ver) = FileOf(t.pkg, t.ver) /\ OwnName(u.pkg) => u.pkg = t.pkg /\ u.ver = t.ver
      BY <2>2, OwnFile
    <3>2. u.pkg = t.pkg /\ u.ver = t.ver => FileOfTask(u) = FileOfTask(t)
      BY DEF FileOfTask
    <3>3. QED
      BY <1>1, <2>1, <2>4, <2>5, <3>1, <3>2
  <2>8. n.stage[u] = "done" /\ u.pkg \notin Component /\ Distinct(s) =>
              FileOf(u.pkg, u.ver) \in x \ FilesIn(v)
    <3>1. FilesIn(v) \subseteq FilesIn(w) \union {FileOf(t.pkg, t.ver)}
      BY <2>3 DEF FilesIn
    <3>2. Distinct(s) => FileOf(u.pkg, u.ver) # FileOf(t.pkg, t.ver)
      BY <1>3 DEF Distinct
    <3>3. QED
      BY <2>1, <2>5, <3>1, <3>2
  <2>9. QED
    BY <2>1, <2>5, <2>6, <2>7, <2>8
<1>4. QED
  BY <1>2, <1>3

\* A failed entry leaves the files of the others.
LEMMA FailedFiles ==
    ASSUME NEW s, s.at = "work", NEW t \in s.tasks, NEW n, n.at = s.at, n.tasks = s.tasks,
           \A u \in s.tasks : n.stage[u] = IF u = t THEN "failed" ELSE s.stage[u],
           NEW w, NEW x, FilesAgree(w, x, s)
    PROVE  FilesAgree(w, x, n)
BY DEF FilesAgree, Distinct, Working

LEMMA FetchedType ==
    ASSUME FilesTyped, NEW t \in Task,
           NEW v, v = {f \in wasm : f.file # FileOf(t.pkg, t.ver)} \union {FileOfTask(t)}
    PROVE  v \subseteq Vendored /\ \A f, g \in v : f.file = g.file => f = g
BY FileOfTaskType DEF FilesTyped

LEMMA FetchKeeps ==
    ASSUME NEW p \in Proc, Before(p), Fetch(p)
    PROVE  Keeps(p)
<1> DEFINE s == proc[p]
<1> DEFINE n == proc'[p]
<1>1. PICK t \in ToDo(p, "fetch") :
       \/ /\ wasm' = {f \in wasm : f.file # FileOf(t.pkg, t.ver)} \union {FileOfTask(t)}
          /\ IF Unpacked(t) THEN Advance(p, t, "read") ELSE Become(p, WithResult(proc[p], t, "done"))
          /\ UNCHANGED <<manifest, lock, wit>>
       \/ Fail(p, t) /\ UNCHANGED files
  BY DEF Fetch, FileOfTask
<1>2. t \in s.tasks /\ s.at = "work" /\ s.stage[t] = "fetch" /\ s.tasks \subseteq Task
  BY DEF ToDo, At, Before, Types, Typed, State
<1>3. CASE UNCHANGED files /\ End(p)
  BY <1>2, <1>3, SameFiles, EndEffect DEF Keeps
<1>4. CASE UNCHANGED files /\ t.transitive /\ Advance(p, t, "failed")
  <2>1. FilesFit /\ manifest' = manifest /\ lock' = lock /\ wasm' = wasm /\ wit' = wit
    BY <1>4, SameFiles
  <2>2. /\ OwnStep(p) /\ SameButStage(n, s)
        /\ \A u \in s.tasks : n.stage[u] = IF u = t THEN "failed" ELSE s.stage[u]
    BY <1>2, <1>4, AdvanceEffect
  <2>3. Agrees(p) => ManifestAgrees(manifest', n) /\ LockAgrees(lock', n)
    BY <1>2, <2>1, <2>2, AdvanceAgrees DEF Installed
  <2>4. Agrees(p) => FilesAgree(wasm', wit', n)
    BY <1>2, <2>1, <2>2, FailedFiles DEF Agrees, SameButStage
  <2>5. QED
    BY <2>1, <2>2, <2>3, <2>4 DEF Keeps, AgreesNext
<1>5. ASSUME wasm' = {f \in wasm : f.file # FileOf(t.pkg, t.ver)} \union {FileOfTask(t)},
             UNCHANGED <<manifest, lock, wit>>,
             IF Unpacked(t) THEN Advance(p, t, "read") ELSE Become(p, WithResult(proc[p], t, "done"))
      PROVE  Keeps(p)
  <2>1. FilesFit
    BY <1>2, <1>5, OldFiles, FetchedType DEF FilesFit, FilesTyped
  <2>2. CASE t.pkg \notin Component
    <3>1. Advance(p, t, "read")
      BY <1>5, <2>2 DEF Unpacked
    <3>2. /\ OwnStep(p) /\ SameButStage(n, s)
          /\ \A u \in s.tasks : n.stage[u] = IF u = t THEN "read" ELSE s.stage[u]
      BY <1>2, <2>2, <3>1, AdvanceEffect
    <3>3. Agrees(p) => ManifestAgrees(manifest', n) /\ LockAgrees(lock', n)
      BY <1>2, <1>5, <3>2, AdvanceAgrees DEF Installed
    <3>4. Agrees(p) => FilesAgree(wasm', wit', n)
      BY <1>2, <1>5, <3>2, FetchFiles DEF Agrees, SameButStage
    <3>5. QED
      BY <2>1, <3>2, <3>3, <3>4 DEF Keeps, AgreesNext
  <2>3. CASE t.pkg \in Component
    <3>1. Become(p, WithResult(proc[p], t, "done")) /\ "done" \in Installed
      BY <1>5, <2>3 DEF Unpacked, Installed
    <3>2. /\ OwnStep(p) /\ n.at = s.at /\ n.tasks = s.tasks
          /\ n.entries = EntriesWith(s, t) /\ n.pkgs = PkgsWith(s, t)
          /\ \A u \in s.tasks : n.stage[u] = IF u = t THEN "done" ELSE s.stage[u]
      BY <1>2, <3>1, ResultEffect
    <3>3. Agrees(p) => ManifestAgrees(manifest', n) /\ LockAgrees(lock', n)
      BY <1>2, <1>5, <3>1, <3>2, ResultAgrees DEF Agrees
    <3>4. Agrees(p) => FilesAgree(wasm', wit', n)
      BY <1>2, <1>5, <2>3, <3>2, FetchFiles DEF Agrees
    <3>5. QED
      BY <2>1, <3>2, <3>3, <3>4 DEF Keeps, AgreesNext
  <2>4. QED
    BY <2>2, <2>3
<1>6. QED
  BY <1>1, <1>3, <1>4, <1>5 DEF Fail

\* What ToDo says of an entry.
LEMMA ToDoEffect ==
    ASSUME NEW p \in Proc, Before(p), NEW stage, NEW t \in ToDo(p, stage)
    PROVE  /\ t \in proc[p].tasks /\ proc[p].at = "work" /\ proc[p].stage[t] = stage
           /\ proc[p].tasks \subseteq Task
           /\ stage \in {"read", "write", "remove"} => t.pkg \notin Component
BY DEF ToDo, At, Before, Types, Typed, State, Sound, TasksFit

\* An entry whose unpacking failed leaves the files of the others.
LEMMA RawFiles ==
    ASSUME NEW s, s.at = "work", NEW t \in s.tasks, NEW n, n.at = s.at, n.tasks = s.tasks,
           \A u \in s.tasks : n.stage[u] = IF u = t THEN "raw" ELSE s.stage[u],
           NEW w, NEW x, FilesAgree(w, x, s),
           NEW y, y \in {x, x \ {FileOf(t.pkg, t.ver)}}
    PROVE  FilesAgree(w, y, n)
<1> SUFFICES ASSUME NEW u \in s.tasks, u # t
             PROVE  /\ s.stage[u] = "remove" /\ Distinct(s) => FileOf(u.pkg, u.ver) \in y
                    /\ s.stage[u] = "done" /\ u.pkg \notin Component /\ Distinct(s) =>
                          FileOf(u.pkg, u.ver) \in y \ FilesIn(w)
  BY DEF FilesAgree, Distinct, Working
<1>1. /\ s.stage[u] = "remove" /\ Distinct(s) => FileOf(u.pkg, u.ver) \in x
      /\ s.stage[u] = "done" /\ u.pkg \notin Component /\ Distinct(s) =>
            FileOf(u.pkg, u.ver) \in x \ FilesIn(w)
  BY DEF FilesAgree, Working
<1>2. Distinct(s) => FileOf(u.pkg, u.ver) # FileOf(t.pkg, t.ver)
  BY DEF Distinct
<1>3. QED
  BY <1>1, <1>2

\* An error of re_vendor_wit_files, which may leave the file of vendor/wit torn.
LEMMA FailUnpackKeeps ==
    ASSUME NEW p \in Proc, Before(p), NEW stage \in {"read", "write", "remove"},
           NEW t \in ToDo(p, stage), FailUnpack(p, t),
           UNCHANGED <<manifest, lock, wasm>>, wit' \in {wit, wit \ {FileOf(t.pkg, t.ver)}}
    PROVE  Keeps(p)
<1> DEFINE s == proc[p]
<1> DEFINE n == proc'[p]
<1>1. t \in s.tasks /\ s.at = "work" /\ s.stage[t] = stage /\ t.pkg \notin Component
  BY ToDoEffect
<1>2. FilesFit
  BY LessWit
<1>3. CASE ~t.transitive
  BY <1>1, <1>2, <1>3, EndEffect DEF FailUnpack, Keeps
<1>4. CASE t.transitive
  <2>1. Become(p, WithResult(proc[p], t, "raw")) /\ "raw" \in Installed
    BY <1>4 DEF FailUnpack, Installed
  <2>2. /\ OwnStep(p) /\ n.at = s.at /\ n.tasks = s.tasks
        /\ n.entries = EntriesWith(s, t) /\ n.pkgs = PkgsWith(s, t)
        /\ \A u \in s.tasks : n.stage[u] = IF u = t THEN "raw" ELSE s.stage[u]
    BY <1>1, <1>4, <2>1, ResultEffect
  <2>3. Agrees(p) => ManifestAgrees(manifest', n) /\ LockAgrees(lock', n)
    BY <1>1, <2>1, <2>2, ResultAgrees DEF Agrees
  <2>4. Agrees(p) => FilesAgree(wasm', wit', n)
    BY <1>1, <2>2, RawFiles DEF Agrees
  <2>5. QED
    BY <1>2, <2>2, <2>3, <2>4 DEF Keeps, AgreesNext
<1>5. QED
  BY <1>3, <1>4

LEMMA ReadWasmKeeps ==
    ASSUME NEW p \in Proc, Before(p), ReadWasm(p)
    PROVE  Keeps(p)
<1> DEFINE s == proc[p]
<1> DEFINE n == proc'[p]
<1>1. PICK t \in ToDo(p, "read") : Advance(p, t, "write") \/ FailUnpack(p, t)
  BY DEF ReadWasm
<1>2. /\ t \in s.tasks /\ s.at = "work" /\ s.stage[t] = "read" /\ s.tasks \subseteq Task
      /\ t.pkg \notin Component
  BY ToDoEffect
<1>3. FilesFit /\ manifest' = manifest /\ lock' = lock /\ wasm' = wasm /\ wit' = wit
  BY SameFiles DEF ReadWasm
<1>4. CASE Advance(p, t, "write")
  <2>1. /\ OwnStep(p) /\ SameButStage(n, s)
        /\ \A u \in s.tasks : n.stage[u] = IF u = t THEN "write" ELSE s.stage[u]
    BY <1>2, <1>4, AdvanceEffect
  <2>2. Agrees(p) => ManifestAgrees(manifest', n) /\ LockAgrees(lock', n)
    BY <1>2, <1>3, <2>1, AdvanceAgrees DEF Installed
  <2>3. Agrees(p) => FilesAgree(wasm', wit', n)
    BY <1>2, <1>3, <2>1 DEF Agrees, SameButStage, FilesAgree, Distinct, Working
  <2>4. QED
    BY <1>3, <2>1, <2>2, <2>3 DEF Keeps, AgreesNext
<1>5. CASE FailUnpack(p, t)
  BY <1>3, <1>5, FailUnpackKeeps
<1>6. QED
  BY <1>1, <1>4, <1>5

LEMMA WriteWitKeeps ==
    ASSUME NEW p \in Proc, Before(p), WriteWit(p)
    PROVE  Keeps(p)
<1> DEFINE s == proc[p]
<1> DEFINE n == proc'[p]
<1>1. PICK t \in ToDo(p, "write") :
        \/ wit' = wit \union {FileOf(t.pkg, t.ver)} /\ Advance(p, t, "remove")
        \/ wit' \in {wit, wit \ {FileOf(t.pkg, t.ver)}} /\ FailUnpack(p, t)
  BY DEF WriteWit
<1>2. /\ t \in s.tasks /\ s.at = "work" /\ s.stage[t] = "write" /\ s.tasks \subseteq Task
      /\ t.pkg \notin Component
  BY ToDoEffect
<1>3. manifest' = manifest /\ lock' = lock /\ wasm' = wasm
  BY DEF WriteWit
<1>4. CASE wit' = wit \union {FileOf(t.pkg, t.ver)} /\ Advance(p, t, "remove")
  <2>1. FileOf(t.pkg, t.ver) \in Tagged
    BY <1>2, FileOfType DEF Task
  <2>2. FilesFit
    BY <1>3, <1>4, <2>1, OldFiles DEF FilesFit, FilesTyped
  <2>3. /\ OwnStep(p) /\ SameButStage(n, s)
        /\ \A u \in s.tasks : n.stage[u] = IF u = t THEN "remove" ELSE s.stage[u]
    BY <1>2, <1>4, AdvanceEffect
  <2>4. Agrees(p) => ManifestAgrees(manifest', n) /\ LockAgrees(lock', n)
    BY <1>2, <1>3, <2>3, AdvanceAgrees DEF Installed
  <2>5. Agrees(p) => FilesAgree(wasm', wit', n)
    BY <1>2, <1>3, <1>4, <2>3 DEF Agrees, SameButStage, FilesAgree, Distinct, Working
  <2>6. QED
    BY <2>2, <2>3, <2>4, <2>5 DEF Keeps, AgreesNext
<1>5. CASE wit' \in {wit, wit \ {FileOf(t.pkg, t.ver)}} /\ FailUnpack(p, t)
  BY <1>3, <1>5, FailUnpackKeeps
<1>6. QED
  BY <1>1, <1>4, <1>5

\* What is removed is the file of no component.
LEMMA RemoveFiles ==
    ASSUME NEW s, s.at = "work", s.tasks \subseteq Task, NEW t \in s.tasks,
           s.stage[t] = "remove", t.pkg \notin Component,
           NEW n, n.at = s.at, n.tasks = s.tasks,
           \A u \in s.tasks : n.stage[u] = IF u = t THEN "done" ELSE s.stage[u],
           NEW w, NEW x, FilesAgree(w, x, s),
           NEW v, v = {f \in w : f.file # FileOf(t.pkg, t.ver)}
    PROVE  FilesAgree(v, x, n)
<1> SUFFICES ASSUME NEW u \in s.tasks
             PROVE  /\ n.stage[u] = "read" =>
                          \/ FileOfTask(u) \in v
                          \/ \E o \in s.tasks \ {u} : FileOf(o.pkg, o.ver) = FileOf(u.pkg, u.ver)
                    /\ n.stage[u] = "done" /\ u.pkg \in Component /\ OwnName(u.pkg) =>
                          FileOfTask(u) \in v
                    /\ n.stage[u] = "remove" /\ Distinct(s) => FileOf(u.pkg, u.ver) \in x
                    /\ n.stage[u] = "done" /\ u.pkg \notin Component /\ Distinct(s) =>
                          FileOf(u.pkg, u.ver) \in x \ FilesIn(v)
  BY DEF FilesAgree, Distinct
<1>1. /\ s.stage[u] = "read" =>
            \/ FileOfTask(u) \in w
            \/ \E o \in s.tasks \ {u} : FileOf(o.pkg, o.ver) = FileOf(u.pkg, u.ver)
      /\ s.stage[u] = "done" /\ u.pkg \in Component /\ OwnName(u.pkg) => FileOfTask(u) \in w
      /\ s.stage[u] = "remove" /\ Distinct(s) => FileOf(u.pkg, u.ver) \in x
      /\ s.stage[u] = "done" /\ u.pkg \notin Component /\ Distinct(s) =>
            FileOf(u.pkg, u.ver) \in x \ FilesIn(w)
  BY DEF FilesAgree, Working
<1>2. u \in Task /\ t \in Task /\ t.pkg \in Package /\ u.pkg \in Package
  BY DEF Task
<1>3. FilesIn(v) = FilesIn(w) \ {FileOf(t.pkg, t.ver)}
  BY DEF FilesIn
<1>4. FileOfTask(u) \in w /\ FileOf(u.pkg, u.ver) # FileOf(t.pkg, t.ver) => FileOfTask(u) \in v
  BY <1>2, FileOfTaskType
<1>5. CASE u = t
  BY <1>1, <1>3, <1>5
<1>6. CASE u # t
  <2>1. n.stage[u] = s.stage[u]
    BY <1>6
  <2>2. OwnName(u.pkg) /\ u.pkg \in Component => FileOf(u.pkg, u.ver) # FileOf(t.pkg, t.ver)
    BY <1>2, OwnFile
  <2>3. QED
    BY <1>1, <1>3, <1>4, <1>6, <2>1, <2>2
<1>7. QED
  BY <1>5, <1>6

LEMMA RemoveWasmKeeps ==
    ASSUME NEW p \in Proc, Before(p), RemoveWasm(p)
    PROVE  Keeps(p)
<1> DEFINE s == proc[p]
<1> DEFINE n == proc'[p]
<1>1. PICK t \in ToDo(p, "remove") :
        \/ /\ wasm' = {f \in wasm : f.file # FileOf(t.pkg, t.ver)}
           /\ Become(p, WithResult(proc[p], t, "done"))
        \/ wasm' = wasm /\ FailUnpack(p, t)
  BY DEF RemoveWasm, Left
<1>2. /\ t \in s.tasks /\ s.at = "work" /\ s.stage[t] = "remove" /\ s.tasks \subseteq Task
      /\ t.pkg \notin Component
  BY ToDoEffect
<1>3. manifest' = manifest /\ lock' = lock /\ wit' = wit
  BY DEF RemoveWasm
<1>4. CASE /\ wasm' = {f \in wasm : f.file # FileOf(t.pkg, t.ver)}
           /\ Become(p, WithResult(proc[p], t, "done"))
  <2>1. FilesFit
    BY <1>3, <1>4, OldFiles DEF FilesFit, FilesTyped
  <2>2. "done" \in Installed
    BY DEF Installed
  <2>3. /\ OwnStep(p) /\ n.at = s.at /\ n.tasks = s.tasks
        /\ n.entries = EntriesWith(s, t) /\ n.pkgs = PkgsWith(s, t)
        /\ \A u \in s.tasks : n.stage[u] = IF u = t THEN "done" ELSE s.stage[u]
    BY <1>2, <1>4, <2>2, ResultEffect
  <2>4. Agrees(p) => ManifestAgrees(manifest', n) /\ LockAgrees(lock', n)
    BY <1>2, <1>3, <2>2, <2>3, ResultAgrees DEF Agrees
  <2>5. Agrees(p) => FilesAgree(wasm', wit', n)
    BY <1>2, <1>3, <1>4, <2>3, RemoveFiles DEF Agrees
  <2>6. QED
    BY <2>1, <2>3, <2>4, <2>5 DEF Keeps, AgreesNext
<1>5. CASE wasm' = wasm /\ FailUnpack(p, t)
  BY <1>3, <1>5, FailUnpackKeeps
<1>6. QED
  BY <1>1, <1>4, <1>5

LEMMA WriteManifestKeeps ==
    ASSUME NEW p \in Proc, Before(p), WriteManifest(p)
    PROVE  Keeps(p)
<1> DEFINE s == proc[p]
<1> DEFINE n == proc'[p]
<1> "saveLock" \in Stage
  BY DEF Stage
<1>1. s.at = "work" /\ \A t \in s.tasks : s.stage[t] \in Settled
  BY DEF WriteManifest, Collected, At
<1>2. /\ manifest' = [there |-> TRUE, entries |-> s.entries] /\ lock' = lock
      /\ wasm' = wasm /\ wit' = wit
  BY DEF WriteManifest
<1>3. s.entries \in SUBSET Entry /\ EntriesFit(s.entries)
  BY DEF Before, Types, Typed, State, Sound
<1>4. FilesFit
  BY <1>2, <1>3, NewManifest
<1>5. OwnStep(p) /\ n.at = "saveLock" /\ SameBut(n, s)
  BY <1>1, ProceedEffect DEF WriteManifest, Working
<1>6. ManifestAgrees(manifest', n)
  BY <1>2, <1>5 DEF ManifestAgrees, SameBut, Over
<1>7. Agrees(p) => LockAgrees(lock', n)
  BY <1>1, <1>2, <1>5 DEF LockAgrees, SameBut, Agrees
<1>8. Agrees(p) => FilesAgree(wasm', wit', n)
  BY <1>1, <1>2, <1>5 DEF FilesAgree, SameBut, Agrees, Working, Distinct
<1>9. QED
  BY <1>4, <1>5, <1>6, <1>7, <1>8 DEF Keeps, AgreesNext

\* Only the dependencies of a locked package are dropped.
SameButDeps(l, k) == SameLock(l, k) /\ l.deps \subseteq k.deps

LEMMA DetailedFields ==
    ASSUME NEW pkgs \in SUBSET Locked
    PROVE  /\ Detailed(pkgs) \subseteq Locked
           /\ \A l \in Detailed(pkgs) : \E k \in pkgs : SameButDeps(l, k)
           /\ \A k \in pkgs : \E l \in Detailed(pkgs) : SameButDeps(l, k)
<1>1. ASSUME NEW k \in pkgs
      PROVE  LET l == [k EXCEPT !.deps = {d \in @ : Held(pkgs, d)}]
             IN  l \in Locked /\ SameButDeps(l, k)
  <2> DEFINE D == {d \in k.deps : Held(pkgs, d)}
  <2>1. k \in Locked /\ D \subseteq k.deps
    OBVIOUS
  <2> HIDE DEF D
  <2>2. LET l == [k EXCEPT !.deps = D] IN l \in Locked /\ SameButDeps(l, k)
    BY <2>1 DEF Locked, SameButDeps, SameLock, SameLine
  <2>3. QED
    BY <2>2 DEF D
<1>2. QED
  BY <1>1 DEF Detailed

LEMMA WriteLockKeeps ==
    ASSUME NEW p \in Proc, Before(p), WriteLock(p)
    PROVE  Keeps(p)
<1> DEFINE s == proc[p]
<1> DEFINE n == proc'[p]
<1> "done" \in Stage /\ "again" \in Stage
  BY DEF Stage
<1>1. s.at = "saveLock" /\ \A t \in s.tasks : s.stage[t] \in Settled
  BY DEF WriteLock, At, Before, Sound, TasksFit, Over
<1>2. /\ lock' = [is |-> "ok", pkgs |-> Detailed(s.pkgs)] /\ manifest' = manifest
      /\ wasm' = wasm /\ wit' = wit
  BY DEF WriteLock
<1>3. s.pkgs \in SUBSET Locked /\ LocksFit(s.pkgs)
  BY DEF Before, Types, Typed, State, Sound
<1>4. Detailed(s.pkgs) \in SUBSET Locked /\ LocksFit(Detailed(s.pkgs))
  BY <1>3, DetailedFields DEF LocksFit, SameButDeps, SameLock, SameLine
<1>5. FilesFit
  BY <1>2, <1>4, NewLock
<1>6. PICK a \in {"done", "again"} : Proceed(p, a)
  BY DEF WriteLock
<1>7. OwnStep(p) /\ n.at = a /\ SameBut(n, s)
  BY <1>1, <1>6, ProceedEffect DEF Working
<1>8. Agrees(p) => ManifestAgrees(manifest', n)
  BY <1>1, <1>2, <1>7 DEF ManifestAgrees, SameBut, Agrees, Over
<1>9. LockAgrees(lock', n)
  BY <1>2, <1>7 DEF LockAgrees, SameBut
<1>10. Agrees(p) => FilesAgree(wasm', wit', n)
  BY <1>1, <1>2, <1>7 DEF FilesAgree, SameBut, Agrees, Working, Distinct
<1>11. QED
  BY <1>5, <1>7, <1>8, <1>9, <1>10 DEF Keeps, AgreesNext

-------------------------------------------------------------------------------
(* The invariant. *)

\* Where a run begins.
LEMMA InitIInv == Init => IInv
<1> SUFFICES ASSUME Init PROVE IInv
  OBVIOUS
<1>1. /\ manifest \in [there : {TRUE}, entries : HandWritten] \union {[there |-> FALSE, entries |-> {}]}
      /\ lock = [is |-> "missing", pkgs |-> {}] /\ wasm = {} /\ wit = {}
      /\ proc = [p \in Proc |-> Idle]
  BY DEF Init
<1>2. manifest \in [there : BOOLEAN, entries : SUBSET Entry]
      /\ (manifest.entries \in HandWritten \/ manifest.entries = {})
  <2>1. {} \in SUBSET Entry /\ HandWritten \subseteq SUBSET Entry
    BY UserAssumption
  <2>2. CASE manifest \in [there : {TRUE}, entries : HandWritten]
    BY <2>1, <2>2
  <2>3. CASE manifest = [there |-> FALSE, entries |-> {}]
    BY <2>1, <2>3
  <2>4. QED
    BY <1>1, <2>2, <2>3
<1>3. FilesTyped
  BY <1>1, <1>2 DEF FilesTyped
<1>4. EntriesFit(manifest.entries)
  <2>1. CASE manifest.entries = {}
    BY <2>1, EmptyFits
  <2>2. CASE manifest.entries \in HandWritten
    BY <2>2, UserAssumption DEF EntriesFit, Plain
  <2>3. QED
    BY <1>2, <2>1, <2>2
<1>5. LocksFit(lock.pkgs)
  BY <1>1, EmptyFits
<1>6. Typed(Idle) /\ Empty(Idle) /\ Idle.at = "idle" /\ Idle.cmd.op = "init"
  BY IdleType
<1>7. StagesFit(Idle)
  BY <1>6 DEF StagesFit, Empty
<1>8. Sound(Idle)
  BY <1>6, <1>7, EmptySound
<1>9. Idle.at \in Light
  BY <1>6 DEF Light, Working, Stage
<1>10. \A p \in Proc : proc[p] = Idle
  BY <1>1
<1>11. proc \in [Proc -> State]
  BY <1>1, <1>6 DEF Typed
<1>12. Types
  BY <1>3, <1>6, <1>10, <1>11 DEF Types
<1>13. OthersAreIdle
  BY <1>6, <1>10 DEF OthersAreIdle, At
<1>14. \A p \in Proc : Agrees(p)
  BY <1>9, <1>10, LightAgrees DEF Agrees
<1>15. QED
  BY <1>4, <1>5, <1>8, <1>10, <1>12, <1>13, <1>14 DEF IInv

\* A command that starts is alone or ends that of the others.
LEMMA StartKeeps ==
    ASSUME IInv, NEW p \in Proc, Start(p)
    PROVE  IInv'
<1>1. PICK c \in Requests :
        proc' = [q \in Proc |->
                   IF q = p
                     THEN [Idle EXCEPT !.cmd = c, !.at = First(c),
                                       !.alone = \A r \in Proc \ {p} : At(r, "idle")]
                     ELSE [proc[q] EXCEPT !.alone = At(q, "idle")]]
  BY DEF Start
<1>2. \A q \in Proc : Typed(proc[q]) /\ Sound(proc[q])
  BY DEF IInv, Types
<1> DEFINE b == \A r \in Proc \ {p} : At(r, "idle")
<1> DEFINE n == [Idle EXCEPT !.cmd = c, !.at = First(c), !.alone = b]
<1> DEFINE m(q) == [proc[q] EXCEPT !.alone = At(q, "idle")]
<1>3. b \in BOOLEAN /\ \A q \in Proc : At(q, "idle") \in BOOLEAN
  BY DEF At
<1>4. proc' = [q \in Proc |-> IF q = p THEN n ELSE m(q)]
  BY <1>1
<1>5. Typed(n) /\ Empty(n) /\ n.at = First(c) /\ n.cmd = c /\ n.alone = b
  BY <1>3, StartFields
<1>6. ASSUME NEW q \in Proc
      PROVE  /\ Typed(m(q)) /\ m(q).alone = At(q, "idle")
             /\ m(q).at = proc[q].at /\ m(q).cmd = proc[q].cmd /\ m(q).entries = proc[q].entries
             /\ m(q).pkgs = proc[q].pkgs /\ m(q).tasks = proc[q].tasks
             /\ m(q).stage = proc[q].stage /\ m(q).planned = proc[q].planned
  BY <1>2, <1>3, AloneOnly
<1> HIDE DEF n, m
<1>7. proc'[p] = n /\ \A q \in Proc \ {p} : proc'[q] = m(q)
  BY <1>4
<1>8. proc' \in [Proc -> State]
  BY <1>4, <1>5, <1>6 DEF Typed
<1>9. FilesTyped' /\ EntriesFit(manifest'.entries) /\ LocksFit(lock'.pkgs)
  BY DEF Start, files, IInv, Types, FilesTyped
<1>10. Types'
  BY <1>5, <1>6, <1>7, <1>8, <1>9 DEF Types
<1>11. Sound(n)
  <2>1. StagesFit(n)
    BY <1>5, FirstType DEF StagesFit, Empty
  <2>2. QED
    BY <1>5, <2>1, EmptySound
<1>12. ASSUME NEW q \in Proc PROVE Sound(m(q))
  <2>1. StagesFit(m(q))
    BY <1>2, <1>6 DEF Sound, StagesFit
  <2>2. m(q).at \in Over => \A t \in proc[q].tasks : proc[q].stage[t] \in Settled
    BY <1>2, <1>6 DEF Sound, TasksFit
  <2>3. QED
    BY <1>2, <1>6, <2>1, <2>2, StageSound
<1>13. \A q \in Proc : Sound(proc'[q])
  BY <1>7, <1>11, <1>12
<1>14. \A q \in Proc \ {p} : proc'[q].at = proc[q].at /\ (proc'[q].alone => proc'[q].at = "idle")
  BY <1>6, <1>7 DEF At
<1>15. OthersAreIdle'
  BY <1>5, <1>7, <1>14 DEF OthersAreIdle, At, Others
<1>16. ASSUME NEW q \in Proc, proc'[q].alone
       PROVE  /\ ManifestAgrees(manifest', proc'[q]) /\ LockAgrees(lock', proc'[q])
              /\ FilesAgree(wasm', wit', proc'[q])
  <2>1. proc'[q].at \in {"idle", "manifest", "lookup", "init", "clean"}
    BY <1>5, <1>7, <1>14, <1>16, FirstType
  <2>2. proc'[q].at \in Light
    BY <2>1 DEF Light, Working, Stage
  <2>3. QED
    BY <2>2, LightAgrees
<1>17. \A q \in Proc : proc'[q].alone => Agrees(q)'
  BY <1>16 DEF Agrees
<1>18. QED
  BY <1>9, <1>10, <1>13, <1>15, <1>17 DEF IInv

\* Every other step.
LEMMA StepKeeps ==
    ASSUME NEW p \in Proc, Before(p), Step(p), ~Start(p)
    PROVE  Keeps(p)
<1>1. CASE Work(p)
  BY <1>1, ReadManifestKeeps, ReadLockKeeps, FetchKeeps, ReadWasmKeeps, WriteWitKeeps,
     RemoveWasmKeeps, WriteManifestKeeps, WriteLockKeeps, EndsKeep DEF Work
<1>2. CASE ~Work(p)
  BY <1>2, SkeletonsKeep, EndsKeep, EmptiesKeep, CleansKeep, CrashKeeps DEF Step
<1>3. QED
  BY <1>1, <1>2

LEMMA BeforeStep ==
    ASSUME IInv, NEW p \in Proc
    PROVE  Before(p)
BY DEF IInv, Before, OthersAreIdle

LEMMA NextIInv == IInv /\ [Next]_vars => IInv'
<1> SUFFICES ASSUME IInv, [Next]_vars PROVE IInv'
  OBVIOUS
<1>1. CASE UNCHANGED vars
  BY <1>1 DEF vars, files, IInv, Types, FilesTyped, OthersAreIdle, Agrees, At, Others
<1>2. ASSUME NEW p \in Proc, Step(p), ~Start(p) PROVE IInv'
  <2>1. Keeps(p)
    BY <1>2, BeforeStep, StepKeeps
  <2>2. /\ FilesTyped' /\ EntriesFit(manifest'.entries) /\ LocksFit(lock'.pkgs)
        /\ proc' \in [Proc -> State] /\ \A q \in Proc \ {p} : proc'[q] = proc[q]
        /\ Typed(proc'[p]) /\ Sound(proc'[p])
    BY <2>1 DEF Keeps, OwnStep, FilesFit
  <2>3. proc[p].at # "idle" /\ (proc'[p].at # "idle" => proc'[p].alone = proc[p].alone)
    BY <2>1 DEF Keeps, OwnStep
  <2>4. Types'
    BY <2>2 DEF IInv, Types
  <2>5. \A q \in Proc : Sound(proc'[q])
    BY <2>2 DEF IInv
  <2>6. \A q \in Proc \ {p} : proc[q].alone => proc[q].at = "idle"
    BY <2>3 DEF IInv, OthersAreIdle, Others, At
  <2>7. OthersAreIdle'
    <3>1. ASSUME NEW q \in Proc, proc'[q].alone, proc'[q].at # "idle", NEW r \in Proc \ {q}
          PROVE  proc'[r].at = "idle"
      <4>1. q = p
        BY <2>2, <2>6, <3>1
      <4>2. proc[p].alone
        BY <2>3, <3>1, <4>1
      <4>3. proc[r].at = "idle"
        BY <2>3, <4>1, <4>2 DEF IInv, OthersAreIdle, Others, At
      <4>4. QED
        BY <2>2, <4>1, <4>3
    <3>2. QED
      BY <3>1 DEF OthersAreIdle, Others, At
  <2>8. ASSUME NEW q \in Proc, proc'[q].alone
        PROVE  /\ ManifestAgrees(manifest', proc'[q]) /\ LockAgrees(lock', proc'[q])
               /\ FilesAgree(wasm', wit', proc'[q])
    <3>1. CASE proc'[q].at = "idle"
      <4>1. proc'[q].at \in Light
        BY <3>1 DEF Light, Working, Stage
      <4>2. QED
        BY <4>1, LightAgrees
    <3>2. CASE proc'[q].at # "idle"
      <4>1. q = p
        BY <2>2, <2>6, <2>8, <3>2
      <4>2. proc[p].alone
        BY <2>3, <2>8, <3>2, <4>1
      <4>3. Agrees(p)
        BY <4>2 DEF IInv
      <4>4. QED
        BY <2>1, <4>1, <4>2, <4>3 DEF Keeps, AgreesNext
    <3>3. QED
      BY <3>1, <3>2
  <2>9. \A q \in Proc : proc'[q].alone => Agrees(q)'
    BY <2>8 DEF Agrees
  <2>10. QED
    BY <2>2, <2>4, <2>5, <2>7, <2>9 DEF IInv
<1>3. QED
  BY <1>1, <1>2, StartKeeps DEF Next

\* The strengthening holds in every state.
LEMMA Invariance == Spec => []IInv
BY InitIInv, NextIInv, PTL DEF Spec

-------------------------------------------------------------------------------
(* What follows. *)

LEMMA TypesHold == IInv => TypeOK
<1> SUFFICES ASSUME IInv PROVE TypeOK
  OBVIOUS
<1>1. FilesTyped /\ proc \in [Proc -> State] /\ \A p \in Proc : Typed(proc[p])
  BY DEF IInv, Types
<1>2. ASSUME NEW p \in Proc
      PROVE  /\ proc[p].at \in Stage /\ proc[p].cmd \in Command
             /\ proc[p].entries \subseteq Entry /\ proc[p].pkgs \subseteq Locked
             /\ proc[p].tasks \subseteq Task
             /\ proc[p].stage \in [proc[p].tasks -> TaskStage]
             /\ proc[p].planned \in BOOLEAN /\ proc[p].alone \in BOOLEAN
  BY <1>1 DEF Typed, State
<1>3. QED
  BY <1>1, <1>2 DEF TypeOK, FilesTyped

\* Every variable has its type; no two files of vendor/wasm have one name.
THEOREM TypeCorrect == Spec => []TypeOK
BY Invariance, TypesHold, PTL

\* What a finished install left, and what the files hold of it.
LEMMA FinishedEffect ==
    ASSUME IInv, NEW p \in Proc, Finished(p)
    PROVE  /\ Typed(proc[p]) /\ Sound(proc[p]) /\ proc[p].at \in Over /\ proc[p].at \in Working
           /\ \A t \in proc[p].tasks : t \in Task /\ t.pkg \in Package /\ t.ver \in Version
           /\ proc[p].pkgs \in SUBSET Locked
           /\ manifest = [there |-> TRUE, entries |-> proc[p].entries]
           /\ lock = [is |-> "ok", pkgs |-> Detailed(proc[p].pkgs)]
           /\ FilesAgree(wasm, wit, proc[p])
<1>1. Typed(proc[p]) /\ Sound(proc[p]) /\ Agrees(p)
  BY DEF IInv, Types, Finished
<1>2. proc[p].at \in {"done", "again"}
  BY DEF Finished
<1>3. proc[p].at \in Over /\ proc[p].at \in Working
  BY <1>2 DEF Over, Working
<1>4. /\ manifest = [there |-> TRUE, entries |-> proc[p].entries]
      /\ lock = [is |-> "ok", pkgs |-> Detailed(proc[p].pkgs)]
      /\ FilesAgree(wasm, wit, proc[p])
  BY <1>1, <1>2, <1>3 DEF Agrees, ManifestAgrees, LockAgrees
<1>5. proc[p].tasks \subseteq Task /\ proc[p].pkgs \in SUBSET Locked
  BY <1>1 DEF Typed, State
<1>6. \A t \in Task : t.pkg \in Package /\ t.ver \in Version
  BY DEF Task
<1>7. QED
  BY <1>1, <1>3, <1>4, <1>5, <1>6

\* The lockfile has an entry that is installed, under its key.
LEMMA DoneIsLocked ==
    ASSUME IInv, NEW p \in Proc, Finished(p), Apart(p),
           NEW t \in proc[p].tasks, proc[p].stage[t] \in Installed
    PROVE  /\ LockedAs(t) \in proc[p].pkgs
           /\ \A k \in proc[p].pkgs : Replaces(k, LockedAs(t)) => k = LockedAs(t)
           /\ \E l \in lock.pkgs : SameLock(l, LockedAs(t))
<1>1. Sound(proc[p]) /\ proc[p].pkgs \in SUBSET Locked /\ lock.pkgs = Detailed(proc[p].pkgs)
  BY FinishedEffect
<1>2. Separate(proc[p])
  BY DEF Apart, Separate
<1>3. /\ LockedAs(t) \in proc[p].pkgs
      /\ \A k \in proc[p].pkgs : Replaces(k, LockedAs(t)) => k = LockedAs(t)
  BY <1>1, <1>2 DEF Sound, DoneAreLocked
<1>4. \E l \in lock.pkgs : SameLock(l, LockedAs(t))
  BY <1>1, <1>3, DetailedFields DEF SameButDeps
<1>5. QED
  BY <1>3, <1>4

\* A locked component is where its own name says.
LEMMA OwnFileLocked ==
    ASSUME NEW q \in Package, OwnName(q), NEW l, l.key = Plain(q)
    PROVE  FileOfLocked(l) = FileOf(q, l.ver)
<1>1. Embedded[q] = q
  BY DEF OwnName
<1>2. QED
  BY <1>1 DEF FileOfLocked, FileOf, VendorFilename, Plain

LEMMA InstalledHolds == IInv => InstalledIsRunnable
<1> SUFFICES ASSUME IInv, NEW p \in Proc, Finished(p), Apart(p), NEW t \in proc[p].tasks,
                    t.pkg \in Component, OwnName(t.pkg), ~t.transitive,
                    t.update \/ t.key # NoKey, KeyOf(t) = Plain(t.pkg)
             PROVE  Runnable(KeyOf(t))
  BY DEF InstalledIsRunnable
<1> DEFINE s == proc[p]
<1>1. /\ Typed(s) /\ Sound(s) /\ s.at \in Over /\ s.at \in Working
      /\ t.pkg \in Package /\ t.ver \in Version
      /\ s.pkgs \in SUBSET Locked
      /\ manifest = [there |-> TRUE, entries |-> s.entries]
      /\ lock = [is |-> "ok", pkgs |-> Detailed(s.pkgs)]
      /\ FilesAgree(wasm, wit, s)
  BY FinishedEffect
<1>2. s.stage[t] = "done" /\ s.stage[t] \in Installed
  BY <1>1 DEF Sound, TasksFit, Settled, Installed
<1>3. SectionOf(t.pkg) = "components"
  BY DEF SectionOf
<1>4. Entered(s.entries, t)
  BY <1>1, <1>2 DEF Sound, TasksFit, Named
<1>5. InManifest(KeyOf(t))
  BY <1>1, <1>3, <1>4 DEF Entered, InManifest
<1> DEFINE L == LockedAs(t)
<1>6. L.section = "components" /\ L.key = KeyOf(t) /\ L.ver = t.ver /\ L.repo = t.pkg
  BY <1>3, LockedFields
<1>7. /\ L \in s.pkgs /\ \A k \in s.pkgs : Replaces(k, L) => k = L
      /\ \E l \in lock.pkgs : SameLock(l, L)
  BY <1>2, DoneIsLocked
<1> HIDE DEF L
<1>8. \E l \in lock.pkgs : l.section = "components" /\ l.key = KeyOf(t)
  BY <1>6, <1>7 DEF SameLock, SameLine
<1>9. ASSUME NEW l \in lock.pkgs, l.section = "components", l.key = KeyOf(t)
      PROVE  [file |-> FileOfLocked(l), pkg |-> l.repo, ver |-> l.ver] \in wasm
  <2>1. PICK k \in s.pkgs : SameLock(l, k)
    BY <1>1, DetailedFields DEF SameButDeps
  <2>2. k.key = Plain(t.pkg) /\ k.section = "components" /\ k.repo = l.repo /\ k.ver = l.ver
    BY <1>9, <2>1 DEF SameLock, SameLine
  <2>3. k.repo = t.pkg
    BY <1>1, <2>2 DEF Sound, LocksFit
  <2>4. k = L
    BY <1>6, <1>7, <2>2, <2>3 DEF Replaces
  <2>5. l.ver = t.ver /\ l.repo = t.pkg /\ l.key = Plain(t.pkg)
    BY <1>6, <1>9, <2>2, <2>4
  <2>6. FileOfLocked(l) = FileOf(t.pkg, t.ver)
    BY <1>1, <2>5, OwnFileLocked
  <2>7. FileOfTask(t) \in wasm
    BY <1>1, <1>2 DEF FilesAgree
  <2>8. QED
    BY <2>5, <2>6, <2>7 DEF FileOfTask
<1>10. lock.is = "ok"
  BY <1>1
<1>11. QED
  BY <1>5, <1>8, <1>9, <1>10 DEF Runnable

\* An install that succeeded undisturbed leaves its components in a state that
\* `component run` accepts: they are entered in wasm.toml, locked at the version
\* that was vendored, and vendored (install/mod.rs, run.rs).
THEOREM InstalledAlwaysRuns == Spec => []InstalledIsRunnable
BY Invariance, InstalledHolds, PTL

LEMMA PlainName == \A n : Plain(n).name = n
BY DEF Plain

LEMMA DependenciesHold == IInv => DependenciesAreLocked
<1> SUFFICES ASSUME IInv, NEW p \in Proc, Finished(p), Apart(p), proc[p].planned,
                    \A u \in proc[p].tasks : u.transitive \/ u.key # NoKey,
                    NEW t \in proc[p].tasks, NEW d \in Depends[t.pkg, t.ver],
                    ~\E u \in proc[p].tasks : u.pkg = d[1] /\ proc[p].stage[u] = "failed"
             PROVE  \E l \in lock.pkgs :
                        /\ l.key.name \in {d[1], Embedded[d[1]]}
                        /\ d[1] \in {u.pkg : u \in proc[p].tasks} => l.ver >= d[2]
  BY DEF DependenciesAreLocked
<1> DEFINE s == proc[p]
<1>1. /\ Sound(s) /\ s.pkgs \in SUBSET Locked /\ lock.pkgs = Detailed(s.pkgs)
      /\ \A u \in s.tasks : u \in Task /\ u.pkg \in Package /\ u.ver \in Version
  <2>1. /\ Sound(s) /\ s.pkgs \in SUBSET Locked
        /\ lock = [is |-> "ok", pkgs |-> Detailed(s.pkgs)]
    BY FinishedEffect
  <2>2. \A u \in s.tasks : u \in Task /\ u.pkg \in Package /\ u.ver \in Version
    BY FinishedEffect
  <2>3. QED
    BY <2>1, <2>2
<1>2. PICK f \in Chosen : Follows(s, f)
  BY <1>1 DEF Sound, PlanHolds
<1>3. \A u \in s.tasks : Resolving(u) /\ u.pkg \in DOMAIN f /\ f[u.pkg] = u.ver
  BY <1>2 DEF Resolving, Follows
<1>4. d[1] \in DOMAIN f /\ d[2] <= f[d[1]]
  <2>1. Satisfied(f, t.pkg) /\ f[t.pkg] = t.ver
    BY <1>2, <1>3 DEF Follows
  <2>2. QED
    BY <2>1 DEF Satisfied
<1>5. CASE \E u \in s.tasks : u.pkg = d[1]
  <2>1. PICK u \in s.tasks : u.pkg = d[1]
    BY <1>5
  <2>0. s.stage[u] \in Installed
    <3>1. s.stage[u] # "failed"
      BY <2>1
    <3>2. s.stage[u] \in Settled
      BY <1>1, FinishedEffect DEF Sound, TasksFit
    <3>3. QED
      BY <3>1, <3>2 DEF Settled
  <2>2. PICK l \in lock.pkgs : SameLock(l, LockedAs(u))
    BY <2>0, DoneIsLocked
  <2>3. l.key = KeyOf(u) /\ l.ver = u.ver
    BY <2>2, LockedFields DEF SameLock, SameLine
  <2>4. KeyOf(u).name \in {d[1], Embedded[d[1]]}
    <3>1. u.key # NoKey => u.key.name = u.pkg
      BY <1>1 DEF Sound, TasksFit
    <3>2. QED
      BY <2>1, <3>1 DEF KeyOf, Plain
  <2>5. l.ver \in Nat /\ d[2] \in Nat
    <3>1. u.ver \in Nat
      BY <1>1, VersionAssumption
    <3>2. t.pkg \in Package /\ t.ver \in Version
      BY <1>1
    <3>3. d \in Package \X (Version \union {0})
      BY <3>2, PackageAssumption
    <3>4. d[2] \in Version \union {0}
      BY <3>3
    <3> DEFINE x == d[2]
    <3> HIDE DEF x
    <3>5. x \in Version \/ x = 0
      BY <3>4 DEF x
    <3>6. x \in Nat
      <4>1. 0 \in Nat
        OBVIOUS
      <4>2. x \in Version => x \in Nat
        BY VersionAssumption
      <4>3. QED
        BY <3>5, <4>1, <4>2, Zenon
    <3>7. l.ver \in Nat
      BY <2>3, <3>1
    <3>8. QED
      BY <3>6, <3>7 DEF x
  <2>6. d[2] <= l.ver
    BY <1>3, <1>4, <2>1, <2>3
  <2>7. l.ver >= d[2]
    BY <2>5, <2>6
  <2>8. QED
    BY <2>3, <2>4, <2>7
<1>6. CASE ~\E u \in s.tasks : u.pkg = d[1]
  <2>1. PICK k \in s.pkgs : k.key = Plain(d[1])
    BY <1>2, <1>4, <1>6 DEF Follows
  <2>2. PICK l \in lock.pkgs : SameLock(l, k)
    BY <1>1, DetailedFields DEF SameButDeps
  <2>3. l.key.name = d[1]
    <3>1. l.key = Plain(d[1])
      BY <2>1, <2>2 DEF SameLock, SameLine
    <3>2. QED
      BY <3>1, PlainName
  <2>4. d[1] \notin {u.pkg : u \in proc[p].tasks}
    BY <1>6
  <2>5. QED
    BY <2>3, <2>4
<1>7. QED
  BY <1>5, <1>6

\* An install whose dependencies were planned locks every dependency of what it
\* installed at a version that is new enough, unless its name was locked before or
\* its own entry failed.
THEOREM DependenciesAlwaysLocked == Spec => []DependenciesAreLocked
BY Invariance, DependenciesHold, PTL

LEMMA UnpackHolds == IInv => UnpackFindsFile
<1> SUFFICES ASSUME IInv, NEW p \in Proc, proc[p].alone, NEW t \in ToDo(p, "read")
             PROVE  \/ FileOfTask(t) \in wasm
                    \/ \E u \in proc[p].tasks \ {t} : FileOf(u.pkg, u.ver) = FileOf(t.pkg, t.ver)
  BY DEF UnpackFindsFile, FileOfTask
<1>1. t \in proc[p].tasks /\ proc[p].at = "work" /\ proc[p].stage[t] = "read"
  BY DEF ToDo, At
<1>2. FilesAgree(wasm, wit, proc[p])
  BY DEF IInv, Agrees
<1>3. QED
  BY <1>1, <1>2 DEF FilesAgree, Working

\* What an entry vendored is there when re_vendor_wit_files reads it, with the
\* contents it vendored, unless another entry goes to the same file.
THEOREM UnpackAlwaysFindsFile == Spec => []UnpackFindsFile
BY Invariance, UnpackHolds, PTL

LEMMA UnpackedHolds == IInv => WitIsUnpacked
<1> SUFFICES ASSUME IInv, NEW p \in Proc, Finished(p), Apart(p), NEW t \in proc[p].tasks,
                    t.pkg \notin Component, proc[p].stage[t] # "failed"
             PROVE  \/ FileOf(t.pkg, t.ver) \in wit \ FilesIn(wasm)
                    \/ t.transitive /\ proc[p].stage[t] = "raw"
  BY DEF WitIsUnpacked
<1>1. /\ FilesAgree(wasm, wit, proc[p]) /\ proc[p].at \in Working
      /\ Sound(proc[p]) /\ proc[p].at \in Over
  BY FinishedEffect
<1>2. Distinct(proc[p])
  BY DEF Apart, Distinct
<1>3. CASE proc[p].stage[t] = "done"
  BY <1>1, <1>2, <1>3 DEF FilesAgree
<1>4. CASE proc[p].stage[t] = "raw"
  BY <1>1, <1>4 DEF Sound, TasksFit
<1>5. QED
  BY <1>1, <1>3, <1>4 DEF Sound, TasksFit, Settled, Installed

\* After an install every interface it locked is unpacked in vendor/wit, and its
\* binary is gone from vendor/wasm, but for a dependency that failed to unpack.
THEOREM WitAlwaysUnpacked == Spec => []WitIsUnpacked
BY Invariance, UnpackedHolds, PTL

-------------------------------------------------------------------------------
(* What can be run stays so. *)

\* Runnable, of the files m, k and w.
Listed(m, key) == m.there /\ \E d \in m.entries : d.section = "components" /\ d.key = key
Vendors(w, l) == [file |-> FileOfLocked(l), pkg |-> l.repo, ver |-> l.ver] \in w
RunnableIn(m, k, w, key) ==
    /\ Listed(m, key) /\ k.is = "ok"
    /\ \E l \in k.pkgs : l.section = "components" /\ l.key = key
    /\ \A l \in k.pkgs : l.section = "components" /\ l.key = key => Vendors(w, l)

\* One of a package's own name: the lockfile in memory keeps it, and what it says
\* of it is there.
LEMMA LockKeepsRunnable ==
    ASSUME NEW s, s.at = "saveLock", s.tasks \subseteq Task, s.pkgs \in SUBSET Locked,
           LocksFit(s.pkgs), TasksFit(s), NEW q \in Component, OwnName(q),
           NEW m, NEW k, NEW w, NEW x, LockAgrees(k, s), FilesAgree(w, x, s),
           RunnableIn(m, k, w, Plain(q))
    PROVE  RunnableIn(m, [is |-> "ok", pkgs |-> Detailed(s.pkgs)], w, Plain(q))
<1> DEFINE D == Detailed(s.pkgs)
<1>1. q \in Package
  BY PackageAssumption
<1>2. \E l \in D : l.section = "components" /\ l.key = Plain(q)
  <2>1. PICK l \in k.pkgs : l.section = "components" /\ l.key = Plain(q)
    BY DEF RunnableIn
  <2>2. PICK n \in s.pkgs : SameLine(n, l)
    BY DEF LockAgrees
  <2>3. PICK d \in D : SameButDeps(d, n)
    BY DetailedFields
  <2>4. QED
    BY <2>1, <2>2, <2>3 DEF SameButDeps, SameLock, SameLine
<1>3. ASSUME NEW d \in D, d.section = "components", d.key = Plain(q)
      PROVE  Vendors(w, d)
  <2>1. PICK n \in s.pkgs : SameButDeps(d, n)
    BY DetailedFields
  <2>2. n.section = "components" /\ n.key = Plain(q) /\ n.ver = d.ver /\ n.repo = d.repo
    BY <1>3, <2>1 DEF SameButDeps, SameLock, SameLine
  <2>3. FileOfLocked(d) = FileOf(q, d.ver)
    BY <1>1, <1>3, OwnFileLocked
  <2>4. CASE \E l \in k.pkgs : SameLock(n, l)
    <3>1. PICK l \in k.pkgs : SameLock(n, l)
      BY <2>4
    <3>2. l.section = "components" /\ l.key = Plain(q) /\ l.ver = d.ver /\ l.repo = d.repo
      BY <2>2, <3>1 DEF SameLock, SameLine
    <3>3. FileOfLocked(l) = FileOf(q, l.ver)
      BY <1>1, <3>2, OwnFileLocked
    <3>4. Vendors(w, l)
      BY <3>2 DEF RunnableIn
    <3>5. QED
      BY <2>3, <3>2, <3>3, <3>4 DEF Vendors
  <2>5. CASE \E u \in s.tasks : s.stage[u] \in Installed /\ n = LockedAs(u)
    <3>1. PICK u \in s.tasks : s.stage[u] \in Installed /\ n = LockedAs(u)
      BY <2>5
    <3>2. n.repo = u.pkg /\ n.ver = u.ver
      BY <3>1, LockedFields
    <3>3. n.repo = q
      BY <1>1, <2>2 DEF LocksFit
    <3>4. FileOfTask(u) \in w
      <4>1. s.stage[u] = "done"
        BY <3>1, <3>2, <3>3 DEF TasksFit, Installed
      <4>2. QED
        BY <3>2, <3>3, <4>1 DEF FilesAgree, Working
    <3>5. d.repo = u.pkg /\ d.ver = u.ver /\ FileOfLocked(d) = FileOf(u.pkg, u.ver)
      BY <2>2, <2>3, <3>2, <3>3
    <3>6. QED
      BY <3>4, <3>5 DEF Vendors, FileOfTask
  <2>6. QED
    BY <2>4, <2>5 DEF LockAgrees
<1> HIDE DEF D
<1>4. [is |-> "ok", pkgs |-> D].is = "ok" /\ [is |-> "ok", pkgs |-> D].pkgs = D
  OBVIOUS
<1>5. QED
  BY <1>2, <1>3, <1>4 DEF RunnableIn, D

\* A file is replaced by what the lockfile says it is; the file of a component is
\* not removed.
LEMMA FetchKeepsRunnable ==
    ASSUME NEW m, NEW k, NEW w, LocksFit(k.pkgs), NEW q \in Component, OwnName(q),
           NEW t \in Task, RunnableIn(m, k, w, Plain(q)),
           NEW v, {f \in w : f.file # FileOf(t.pkg, t.ver)} \subseteq v,
           t.pkg \notin Component \/ FileOfTask(t) \in v
    PROVE  RunnableIn(m, k, v, Plain(q))
<1>1. q \in Package /\ t.pkg \in Package
  BY PackageAssumption DEF Task
<1>2. ASSUME NEW l \in k.pkgs, l.section = "components", l.key = Plain(q)
      PROVE  Vendors(v, l)
  <2> DEFINE f == [file |-> FileOfLocked(l), pkg |-> l.repo, ver |-> l.ver]
  <2>1. f \in w
    BY <1>2 DEF RunnableIn, Vendors
  <2>2. l.repo = q
    BY <1>1, <1>2 DEF LocksFit
  <2>3. FileOfLocked(l) = FileOf(q, l.ver)
    BY <1>1, <1>2, OwnFileLocked
  <2>4. CASE FileOf(q, l.ver) # FileOf(t.pkg, t.ver)
    <3>1. f.file = FileOf(q, l.ver)
      BY <2>3
    <3>2. f \in v
      BY <2>1, <2>4, <3>1
    <3>3. QED
      BY <3>2 DEF Vendors
  <2>5. CASE FileOf(q, l.ver) = FileOf(t.pkg, t.ver)
    <3>1. t.pkg = q /\ t.ver = l.ver
      BY <1>1, <2>5, OwnFile
    <3>2. FileOfTask(t) \in v
      BY <3>1
    <3>3. FileOfTask(t) = f
      BY <2>2, <2>3, <3>1 DEF FileOfTask
    <3>4. QED
      BY <3>2, <3>3 DEF Vendors
  <2>6. QED
    BY <2>4, <2>5
<1>3. QED
  BY <1>2 DEF RunnableIn

\* The manifest in memory keeps the lines that were read.
LEMMA ManifestKeepsRunnable ==
    ASSUME NEW s, s.at = "work", NEW m, ManifestAgrees(m, s), NEW k, NEW w, NEW key,
           RunnableIn(m, k, w, key)
    PROVE  RunnableIn([there |-> TRUE, entries |-> s.entries], k, w, key)
<1>1. PICK d \in m.entries : d.section = "components" /\ d.key = key
  BY DEF RunnableIn, Listed
<1>2. PICK e \in s.entries : SameLine(e, d)
  BY DEF ManifestAgrees
<1>3. Listed([there |-> TRUE, entries |-> s.entries], key)
  BY <1>1, <1>2 DEF Listed, SameLine
<1>4. QED
  BY <1>3 DEF RunnableIn

\* The steps of an install that change files.
LEMMA WorkKeepsRunnable ==
    ASSUME IInv, NEW p \in Proc, proc[p].alone, Work(p), NEW q \in Component, OwnName(q),
           RunnableIn(manifest, lock, wasm, Plain(q))
    PROVE  RunnableIn(manifest', lock', wasm', Plain(q))
<1> DEFINE s == proc[p]
<1>1. Before(p) /\ Agrees(p)
  BY BeforeStep DEF IInv
<1>2. /\ s.tasks \subseteq Task /\ s.pkgs \in SUBSET Locked
      /\ LocksFit(s.pkgs) /\ LocksFit(lock.pkgs) /\ TasksFit(s)
  BY <1>1 DEF Before, Types, Typed, State, Sound
<1>3. CASE manifest' = manifest /\ lock' = lock /\ wasm' = wasm
  BY <1>3
<1>4. CASE Fetch(p)
  <2>1. PICK t \in ToDo(p, "fetch") :
          \/ /\ wasm' = {f \in wasm : f.file # FileOf(t.pkg, t.ver)} \union {FileOfTask(t)}
             /\ UNCHANGED <<manifest, lock>>
          \/ UNCHANGED files
    BY <1>4 DEF Fetch, FileOfTask
  <2>2. t \in Task
    BY <1>1, <1>2, ToDoEffect
  <2>3. CASE UNCHANGED files
    BY <1>3, <2>3 DEF files
  <2>4. CASE /\ wasm' = {f \in wasm : f.file # FileOf(t.pkg, t.ver)} \union {FileOfTask(t)}
             /\ UNCHANGED <<manifest, lock>>
    BY <1>2, <2>2, <2>4, FetchKeepsRunnable
  <2>5. QED
    BY <2>1, <2>3, <2>4
<1>5. CASE RemoveWasm(p)
  <2>1. PICK t \in ToDo(p, "remove") :
          {f \in wasm : f.file # FileOf(t.pkg, t.ver)} \subseteq wasm'
    BY <1>5 DEF RemoveWasm, Left
  <2>2. t \in Task /\ t.pkg \notin Component /\ manifest' = manifest /\ lock' = lock
    BY <1>1, <1>2, <1>5, ToDoEffect DEF RemoveWasm
  <2>3. QED
    BY <1>2, <2>1, <2>2, FetchKeepsRunnable
<1>6. CASE WriteManifest(p)
  <2>1. /\ s.at = "work" /\ manifest' = [there |-> TRUE, entries |-> s.entries]
        /\ lock' = lock /\ wasm' = wasm
    BY <1>6 DEF WriteManifest, Collected, At
  <2>2. ManifestAgrees(manifest, s)
    BY <1>1 DEF Agrees
  <2>3. RunnableIn([there |-> TRUE, entries |-> s.entries], lock, wasm, Plain(q))
    BY <2>1, <2>2, ManifestKeepsRunnable
  <2>4. QED
    BY <2>1, <2>3
<1>7. CASE WriteLock(p)
  <2>1. /\ s.at = "saveLock" /\ lock' = [is |-> "ok", pkgs |-> Detailed(s.pkgs)]
        /\ manifest' = manifest /\ wasm' = wasm
    BY <1>7 DEF WriteLock, At
  <2>2. LockAgrees(lock, s) /\ FilesAgree(wasm, wit, s)
    BY <1>1 DEF Agrees
  <2>3. RunnableIn(manifest, [is |-> "ok", pkgs |-> Detailed(s.pkgs)], wasm, Plain(q))
    BY <1>2, <2>1, <2>2, LockKeepsRunnable
  <2>4. QED
    BY <2>1, <2>3
<1>8. ReadManifest(p) \/ ReadLock(p) \/ ReadWasm(p) \/ Done(p) \/ WriteWit(p) =>
        manifest' = manifest /\ lock' = lock /\ wasm' = wasm
  BY DEF ReadManifest, ReadLock, ReadWasm, Done, WriteWit, files
<1>9. QED
  BY <1>3, <1>4, <1>5, <1>6, <1>7, <1>8 DEF Work

\* init, clean and the skeleton of run empty no file of an install that has
\* something to run.
LEMMA OthersKeepRunnable ==
    ASSUME IInv, NEW p \in Proc, proc[p].alone, proc[p].cmd.op \in {"install", "run"},
           Step(p), ~Work(p), NEW q \in Component,
           RunnableIn(manifest, lock, wasm, Plain(q)),
           proc'[p].at # "idle" \/ UNCHANGED <<manifest, lock>>
    PROVE  RunnableIn(manifest', lock', wasm', Plain(q))
<1> DEFINE s == proc[p]
<1>1. Sound(s) /\ Agrees(p) /\ Before(p)
  BY BeforeStep DEF IInv
<1>2. s.at \notin {"init", "initLock", "clean", "cleanWasm", "cleanWit"}
  BY <1>1 DEF Sound, StagesFit
<1>3. CASE manifest' = manifest /\ lock' = lock /\ wasm' = wasm
  BY <1>3
<1>4. Start(p) \/ LookUp(p) \/ Skeleton(p) \/ SkeletonLock(p) \/ LookUpAgain(p) =>
        manifest' = manifest /\ lock' = lock /\ wasm' = wasm
  BY DEF Start, LookUp, Skeleton, SkeletonLock, LookUpAgain, files
<1>5. ~EmptyManifest(p)
  <2>1. s.at # "makeManifest"
    BY <1>1 DEF Agrees, ManifestAgrees, RunnableIn, Listed
  <2>2. QED
    BY <1>2, <2>1 DEF EmptyManifest, At
<1>6. ~EmptyLock(p)
  <2>1. s.at # "makeLock"
    BY <1>1 DEF Agrees, LockAgrees, RunnableIn
  <2>2. QED
    BY <1>2, <2>1 DEF EmptyLock, At
<1>7. ~(CleanLock(p) \/ CleanWasm(p) \/ CleanWit(p))
  BY <1>2 DEF CleanLock, CleanWasm, CleanWit, At
<1>8. CASE Crash(p)
  <2>1. proc'[p] = Idle
    BY <1>1, <1>8, EndEffect DEF Crash, At
  <2>2. UNCHANGED <<manifest, lock>>
    BY <2>1, IdleType
  <2>3. wasm' = wasm
    BY <1>8 DEF Crash, files
  <2>4. QED
    BY <1>3, <2>2, <2>3
<1>9. QED
  BY <1>3, <1>4, <1>5, <1>6, <1>7, <1>8 DEF Step

LEMMA NextStaysRunnable ==
    ASSUME IInv, [Next]_vars, NEW q \in Component, NEW p \in Proc,
           RunnableIn(manifest, lock, wasm, Plain(q)), OwnName(q),
           proc[p].alone, proc[p].cmd.op \in {"install", "run"}, proc'[p] # proc[p],
           proc'[p].at # "idle" \/ UNCHANGED <<manifest, lock>>
    PROVE  RunnableIn(manifest', lock', wasm', Plain(q))
<1>1. PICK r \in Proc : Step(r)
  BY DEF Next, vars
<1>2. CASE Start(r)
  <2>1. manifest' = manifest /\ lock' = lock /\ wasm' = wasm
    BY <1>2 DEF Start, files
  <2>2. QED
    BY <2>1
<1>3. CASE ~Start(r)
  <2>1. Keeps(r)
    BY <1>1, <1>3, BeforeStep, StepKeeps
  <2>2. r = p
    BY <2>1 DEF Keeps, OwnStep
  <2>3. QED
    BY <1>1, <2>2, WorkKeepsRunnable, OthersKeepRunnable
<1>4. QED
  BY <1>2, <1>3

\* What can be run stays so under every step of an install that is alone, and
\* under its crash, but for the moment in which a file is rewritten.
THEOREM AlwaysStaysRunnable == Spec => StaysRunnable
<1>1. ASSUME IInv, [Next]_vars
      PROVE  \A q \in Component, p \in Proc :
                (/\ Runnable(Plain(q)) /\ OwnName(q)
                 /\ proc[p].alone /\ proc[p].cmd.op \in {"install", "run"}
                 /\ proc'[p] # proc[p]
                 /\ proc'[p].at # "idle" \/ UNCHANGED <<manifest, lock>>)
                => Runnable(Plain(q))'
  <2> SUFFICES ASSUME NEW q \in Component, NEW p \in Proc,
                      Runnable(Plain(q)), OwnName(q),
                      proc[p].alone, proc[p].cmd.op \in {"install", "run"},
                      proc'[p] # proc[p],
                      proc'[p].at # "idle" \/ UNCHANGED <<manifest, lock>>
               PROVE  Runnable(Plain(q))'
    OBVIOUS
  <2>1. RunnableIn(manifest, lock, wasm, Plain(q))
    BY DEF Runnable, InManifest, RunnableIn, Listed, Vendors
  <2>2. RunnableIn(manifest', lock', wasm', Plain(q))
    BY <1>1, <2>1, NextStaysRunnable
  <2>3. QED
    BY <2>2 DEF Runnable, InManifest, RunnableIn, Listed, Vendors
<1>2. QED
  BY <1>1, Invariance, PTL DEF Spec, StaysRunnable
===============================================================================
