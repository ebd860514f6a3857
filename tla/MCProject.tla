------------------------------- MODULE MCProject -------------------------------
(* A component that needs an interface of at least its own version, and a      *)
(* component that carries the placeholder name; at most MaxCommands commands,  *)
(* the last of them alone.                                                     *)
EXTENDS Project, TLC

CONSTANTS app, hello, http, root, MaxCommands

Embeds == [p \in Package |-> IF p = hello THEN root ELSE p]

Releases == [p \in Package |-> IF p = hello THEN {1} ELSE {1, 2}]

Needs ==
    [r \in Package \X Version |-> IF r[1] = app THEN {<<http, r[2]>>} ELSE {}]

Bare(p, v) == [section |-> SectionOf(p), key |-> Plain(p), ver |-> v, repo |-> NoPackage]

Explicit(p, v) == [Bare(p, v) EXCEPT !.repo = p]

NoManifests == {}

Manifests == {{Bare(http, 1), Explicit(hello, 1)}}

Named(p, v) == [by |-> "name", pkg |-> p, at |-> v]
Referenced(p, v) == [by |-> "reference", pkg |-> p, at |-> v]
Do(op, inputs) == [op |-> op, inputs |-> inputs]

Commands ==
    {Do("install", {}), Do("install", {Referenced(http, 1), Named(app, 0)}),
     Do("run", {Named(app, 0)}), Do("init", {}), Do("clean", {})}

RunCommands == {Do("run", {Named(app, v)}) : v \in {0, 1}}

Processes == Permutations(Proc)

VARIABLE started    \* commands begun

BoundedInit == Init /\ started = 0

\* Before the last command the others have ended, or died.
BoundedNext ==
    /\ Next
    /\ started' = started + Cardinality({p \in Proc : At(p, "idle") /\ At(p, "idle")' = FALSE})
    /\ started' <= MaxCommands
    /\ started' = MaxCommands => started = MaxCommands \/ \A p \in Proc : At(p, "idle")

BoundedSpec == BoundedInit /\ [][BoundedNext]_<<vars, started>>
===============================================================================
