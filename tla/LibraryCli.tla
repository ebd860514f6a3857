------------------------------ MODULE LibraryCli ------------------------------
(***************************************************************************)
(* The command line of a library component: wit2cli, as `component run`    *)
(* uses it.  The exported functions are extracted, a clap command is built *)
(* from them, clap parses what the user wrote, and the values of the call  *)
(* are collected from clap's matches.  Building and collecting walk the    *)
(* same signature separately and must agree on every argument.             *)
(*                                                                         *)
(* A name is a sequence of words: "a-b" is <<"a", "b">>.  A type is its    *)
(* kind, the types in it and the names of its fields or cases; "int"       *)
(* stands for bool, the integers and f32, "f64" for f64 and char, "tuple"  *)
(* for tuple, result and flags, and "resource" for what has no WitTy.      *)
(*                                                                         *)
(* A list from which things are dropped keeps the places of what is left:  *)
(* it is a function, and its domain the places.                            *)
(***************************************************************************)
EXTENDS Integers, Sequences, SequencesExt

CONSTANTS
    Component,      \* what is run: sequences of exports
    Type            \* the types in them, and the types in these

Kind == {"none", "int", "f64", "string", "enum", "variant",
         "list", "option", "record", "tuple", "resource"}

\* A type in a type is a type, and a field or a case has a name of its own.
ASSUME TypeAssumption ==
    \A ty \in Type :
        /\ ty.kind \in Kind
        /\ ty.of \in Seq(Type)
        /\ ty.kind \in {"list", "option"} => Len(ty.of) = 1
        /\ ty.kind \in {"variant", "record"} => DOMAIN ty.names = DOMAIN ty.of
        /\ ty.kind \in {"variant", "record"} =>
              \A i, j \in DOMAIN ty.names : ty.names[i] = ty.names[j] => i = j
        /\ ty.kind = "record" => \A i \in DOMAIN ty.names : ty.names[i] \in Seq(STRING)

\* The functions of an interface have different names, and the parameters of a
\* function.
ASSUME ComponentAssumption ==
    \A exports \in Component :
        /\ DOMAIN exports = 1..Len(exports)
        /\ \A i \in DOMAIN exports :
              LET funcs == exports[i].funcs IN
              /\ DOMAIN funcs = 1..Len(funcs)
              /\ \A j, k \in DOMAIN funcs : funcs[j].name = funcs[k].name => j = k
              /\ \A j \in DOMAIN funcs :
                    /\ DOMAIN funcs[j].params = 1..Len(funcs[j].params)
                    /\ \A k \in DOMAIN funcs[j].params :
                          LET p == funcs[j].params[k] IN
                          /\ p.ty \in Type /\ p.name \in Seq(STRING)
                          /\ \A l \in DOMAIN funcs[j].params : funcs[j].params[l].name = p.name => k = l

\* What a positional argument may have: one token of the command line.
Single == {"int", "f64", "string", "enum", "variant"}

\* An argument, or a value on the way from clap to wasmtime.
Value(kind, val, of) == [kind |-> kind, val |-> val, of |-> of]
Some(v) == Value("option", "", <<v>>)
NoneValue == Value("option", "", <<>>)

Good(v) == [is |-> "ok", vals |-> <<v>>]
Bad(error) == [is |-> error, vals |-> <<>>]

\* The values of a sequence of results, or its first error: the ? of the code.
FirstBad(rs, i) == rs[i].is # "ok" /\ \A j \in DOMAIN rs : j < i => rs[j].is = "ok"

Sequence(rs) ==
    IF \E i \in DOMAIN rs : FirstBad(rs, i) THEN rs[CHOOSE i \in DOMAIN rs : FirstBad(rs, i)]
    ELSE [is |-> "ok", vals |-> [i \in DOMAIN rs |-> rs[i].vals[1]]]

\* The value made of the values of a result.
Made(kind, val, r) == IF r.is = "ok" THEN Good(Value(kind, val, r.vals)) ELSE r

VARIABLES
    stage,      \* "extract", "build", "match", "parse", "invoke" or "refused"
    component,  \* what is run
    surface,    \* LibrarySurface: the items
    root,       \* the subcommands of the clap command
    call,       \* what clap made of the command line
    result      \* the invocation, or an error

vars == <<stage, component, surface, root, call, result>>

NoCall == [group |-> 0, cmd |-> 0, given |-> <<>>]

Init ==
    /\ stage = "extract" /\ component \in Component
    /\ surface = <<>> /\ root = <<>> /\ call = NoCall /\ result = Bad("none")

-------------------------------------------------------------------------------
(* extract_library_surface *)

HasWitTy[ty \in Type] == ty.kind # "resource" /\ \A i \in DOMAIN ty.of : HasWitTy[ty.of[i]]

\* Functions with parameters or results that have no WitTy are dropped.
Extracted(funcs) ==
    Restrict(funcs, {j \in DOMAIN funcs :
                        /\ \A i \in DOMAIN funcs[j].params : HasWitTy[funcs[j].params[i].ty]
                        /\ \A i \in DOMAIN funcs[j].results : HasWitTy[funcs[j].results[i]]})

\* The bootstrap interface is skipped.
Bootstrap(export) == ~export.free /\ export.name = <<"exports">>

Items(exports, places) ==
    [i \in places |-> [name |-> exports[i].name, free |-> exports[i].free,
                       funcs |-> Extracted(exports[i].funcs)]]

\* Fault: an interface stays although no function of it is left.
SurfaceOfAll(exports) == Items(exports, {i \in DOMAIN exports : ~Bootstrap(exports[i])})

\* An interface without functions is skipped, too.
Surface(exports) ==
    Items(exports, {i \in DOMAIN exports :
                       ~Bootstrap(exports[i]) /\ DOMAIN Extracted(exports[i].funcs) # {}})

Refuse(error) ==
    /\ stage' = "refused"
    /\ result' = Bad(error)
    /\ UNCHANGED <<component, root, call>>

Extract ==
    /\ stage = "extract"
    /\ surface' = Surface(component)
    /\ IF DOMAIN surface' = {} THEN Refuse("NoInvocableFunctions")
       ELSE stage' = "build" /\ UNCHANGED <<component, root, call, result>>

-------------------------------------------------------------------------------
(* build_clap *)

\* The type by which clap stores the values of an argument.
StoredAs(ty) == IF ty.kind \in {"int", "f64"} THEN ty.kind ELSE "string"

Arg(id, form, required, many, ty) ==
    [id |-> id, form |-> form, required |-> required, many |-> many, ty |-> ty]

RecordCount(f) == Len(SelectSeq(f.params, LAMBDA p : p.ty.kind = "record"))

\* Fault: optional records count as records.
MultiRecordOrOption(f) ==
    Len(SelectSeq(f.params, LAMBDA p : p.ty.kind = "record"
                                       \/ (p.ty.kind = "option" /\ p.ty.of[1].kind = "record"))) > 1

\* build_func_command and collect_args count each for itself.
MultiRecord(f) == RecordCount(f) > 1
MultiRecordToCollect(f) == RecordCount(f) > 1

Prefixed(p, field) == p.name \o field
FieldFlag(p, field, multi) == IF multi THEN Prefixed(p, field) ELSE field

\* Fault: no field is required.
FieldArgOptional(flag, ty, required) ==
    IF ty.kind = "list" THEN Arg(flag, "flag", FALSE, TRUE, ty.of[1])
    ELSE Arg(flag, "flag", FALSE, FALSE, ty)

FieldArg(flag, ty, required) ==
    IF ty.kind = "list" THEN Arg(flag, "flag", FALSE, TRUE, ty.of[1])
    ELSE Arg(flag, "flag", required, FALSE, ty)

\* One layer of option is taken off the fields of an optional record.
Effective(ty) == IF ty.kind = "option" THEN ty.of[1] ELSE ty

AddParamArgs(p, multi, last) ==
    CASE p.ty.kind \in Single -> <<Arg(p.name, "positional", TRUE, FALSE, p.ty)>>
      [] p.ty.kind = "list" ->
            <<Arg(p.name, IF last THEN "positional" ELSE "flag", FALSE, TRUE, p.ty.of[1])>>
      [] p.ty.kind = "record" ->
            [i \in DOMAIN p.ty.of |->
                FieldArg(FieldFlag(p, p.ty.names[i], multi), p.ty.of[i], TRUE)]
      [] p.ty.kind = "option" /\ p.ty.of[1].kind \in Single ->
            <<Arg(p.name, "positional", FALSE, FALSE, p.ty.of[1])>>
      [] p.ty.kind = "option" /\ p.ty.of[1].kind = "record" ->
            [i \in DOMAIN p.ty.of[1].of |->
                FieldArg(Prefixed(p, p.ty.of[1].names[i]), Effective(p.ty.of[1].of[i]), FALSE)]
      [] OTHER -> <<>>

Unsupported(ty) ==
    \/ ty.kind = "tuple"
    \/ ty.kind = "option" /\ ty.of[1].kind \notin Single \union {"record"}

ParamArgs(f) ==
    [i \in DOMAIN f.params |-> AddParamArgs(f.params[i], MultiRecord(f), i = Len(f.params))]

\* seen_flags: the flags of records, and of no other parameter.
SeenFlags(f, i) ==
    IF f.params[i].ty.kind \in {"record", "option"}
    THEN {a.id : a \in {b \in ToSet(ParamArgs(f)[i]) : b.form = "flag"}} ELSE {}

Collides(f, i) == \E j \in 1..(i - 1) : SeenFlags(f, i) \intersect SeenFlags(f, j) # {}

\* The first parameter that cannot be added decides.
BuildError(f) ==
    LET wrong == {i \in DOMAIN f.params : Unsupported(f.params[i].ty) \/ Collides(f, i)} IN
    CASE wrong = {} -> "ok"
      [] \E i \in wrong : Collides(f, i) /\ \A j \in wrong : i <= j -> "FlagCollision"
      [] OTHER -> "UnsupportedArg"

\* An argument is known by its parameter and its place among those of it.
Places(f) == UNION {{i} \X DOMAIN ParamArgs(f)[i] : i \in DOMAIN f.params}

BuildFuncCommand(f) ==
    [name |-> f.name, args |-> [x \in Places(f) |-> ParamArgs(f)[x[1]][x[2]]]]

\* Functions with an unsupported parameter are skipped, and empty interfaces.
Commands(funcs) ==
    [j \in {k \in DOMAIN funcs : BuildError(funcs[k]) = "ok"} |-> BuildFuncCommand(funcs[j])]

Tree(items) ==
    [i \in {k \in DOMAIN items : DOMAIN Commands(items[k].funcs) # {}} |->
        [name |-> items[i].name, free |-> items[i].free, cmds |-> Commands(items[i].funcs)]]

\* A collision of flags is an error of the whole component.
Build ==
    /\ stage = "build"
    /\ IF \E i \in DOMAIN surface : \E j \in DOMAIN surface[i].funcs :
             BuildError(surface[i].funcs[j]) = "FlagCollision"
       THEN Refuse("FlagCollision") /\ UNCHANGED surface
       ELSE /\ root' = Tree(surface)
            /\ stage' = "match"
            /\ UNCHANGED <<component, surface, call, result>>

-------------------------------------------------------------------------------
(* clap, a library.  What it accepts, argument by argument: parsed values. *)

Word == {"0", "x"}

\* The members of a JSON object, one for each field; what is missing is null.
Json(ty) ==
    [DOMAIN ty.of -> {Value("null", "", <<>>), Value("number", "0", <<>>), Value("text", "x", <<>>)}]

Tokens(ty) ==
    CASE ty.kind \in {"int", "f64"} -> {Value(ty.kind, n, <<>>) : n \in {"0", "1"}}
      [] ty.kind = "enum" -> {Value("string", c, <<>>) : c \in ToSet(ty.names)}
      [] ty.kind = "variant" ->
            {Value("string", c, of) : c \in ToSet(ty.names),
                                      of \in {<<>>} \union {<<Value("string", w, <<>>)>> : w \in Word}}
      [] ty.kind = "record" -> {Value("string", "json", members) : members \in Json(ty)}
      [] OTHER -> {Value("string", w, <<>>) : w \in Word}

MaxRepeats == 2

\* The arguments with an id: clap files their values together, as the type of one
\* of them; values of two types are read as those of the first are.
Sharing(cmd, id) == {a \in Range(cmd.args) : a.id = id}
Filed(args, as) == UNION {Tokens(a.ty) : a \in {b \in args : StoredAs(b.ty) = as}}

Given(args) ==
    UNION {[as : {StoredAs(a.ty)}, values : SeqOf(Filed(args, StoredAs(a.ty)), MaxRepeats)] : a \in args}

\* Positional arguments are filled in their order; a parameter has one at most.
InOrder(cmd, given) ==
    \A x, y \in DOMAIN cmd.args :
        (/\ x[1] < y[1] /\ cmd.args[x].form = "positional"
         /\ \A a \in Sharing(cmd, cmd.args[y].id) : a.form = "positional"
         /\ given[cmd.args[y].id].values # <<>>)
        => given[cmd.args[x].id].values # <<>>

Ids(cmd) == {cmd.args[x].id : x \in DOMAIN cmd.args}

Fits(args, g) ==
    \E a \in args :
        /\ g = [as |-> StoredAs(a.ty), values |-> g.values]
        /\ g.values \in Seq(Filed(args, StoredAs(a.ty)))
        /\ (\E b \in args : b.required) => g.values # <<>>
        /\ (\A b \in args : ~b.many) => Len(g.values) <= 1

\* What clap vouches for when it returns matches.
Accepts(cmd, given) ==
    /\ given = [id \in Ids(cmd) |-> given[id]]
    /\ \A id \in Ids(cmd) : Fits(Sharing(cmd, id), given[id])
    /\ InOrder(cmd, given)

\* Values for every id, up to MaxRepeats of each.
Candidates(cmd) ==
    FoldSet(LAMBDA id, acc : {(id :> v) @@ g : v \in {w \in Given(Sharing(cmd, id)) :
                                                        Fits(Sharing(cmd, id), w)}, g \in acc},
            {<<>>}, Ids(cmd))

\* The matches of a subcommand that clap may return.
Matches(cmd) == {given \in Candidates(cmd) : Accepts(cmd, given)}

\* What a debug build asserts of a command before it parses: no two subcommands
\* have one name, no two arguments one id, of which "help" is clap's own, and no
\* positional argument that must be there follows one that need not.
Asserted(cmds, cmd) ==
    \/ \E i, j \in DOMAIN cmds : i # j /\ cmds[i].name = cmds[j].name
    \/ \E x, y \in DOMAIN cmd.args : x # y /\ cmd.args[x].id = cmd.args[y].id
    \/ <<"help">> \in Ids(cmd)
    \/ \E x, y \in DOMAIN cmd.args :
          /\ x[1] < y[1] /\ cmd.args[x].form = "positional" /\ cmd.args[y].form = "positional"
          /\ ~cmd.args[x].required /\ cmd.args[y].required

\* Of two subcommands with one name clap takes the first.
FirstNamed(seq, i) == \A j \in DOMAIN seq : seq[j].name = seq[i].name => i <= j

\* A release build, or a command of which every assertion holds.
Match ==
    /\ stage = "match"
    /\ \E g \in DOMAIN root : \E c \in DOMAIN root[g].cmds :
          /\ FirstNamed(root, g)
          /\ \E given \in Matches(root[g].cmds[c]) :
                call' = [group |-> g, cmd |-> c, given |-> given]
    /\ stage' = "parse"
    /\ UNCHANGED <<component, surface, root, result>>

\* A debug build stops here, whatever the user wrote.
AssertFails ==
    /\ stage = "match"
    /\ \E g \in DOMAIN root : \E c \in DOMAIN root[g].cmds :
          /\ FirstNamed(root, g) /\ Asserted(root, root[g].cmds[c])
          /\ call' = [group |-> g, cmd |-> c, given |-> <<>>]
    /\ result' = Bad("assertion")
    /\ stage' = "invoke"
    /\ UNCHANGED <<component, surface, root>>

-------------------------------------------------------------------------------
(* parse_invocation *)

\* clap panics at an argument that the command does not have, and at a value of
\* another type than the one it stored.
Panics(given, id, ty) ==
    id \notin DOMAIN given \/ (given[id].values # <<>> /\ given[id].as # StoredAs(ty))

ContainsId(given, id) == given[id].values # <<>>

\* primitive_from_str: "0" is a number, "x" is none.
PrimitiveFromStr(ty, v) ==
    CASE ty.kind \in {"int", "f64"} ->
            IF v.val = "0" THEN Good(Value(ty.kind, v.val, <<>>)) ELSE Bad("InvalidValue")
      [] ty.kind \in {"string", "enum"} -> Good(Value(ty.kind, v.val, <<>>))
      [] OTHER -> Bad("UnsupportedArg")

\* json_to_val and json_scalar_to_val, which has no case for f64, char and enum.
\* Under options a value is wrapped, unless it is null.
Bare[ty \in Type] == IF ty.kind = "option" THEN Bare[ty.of[1]] ELSE ty

Wrapped(type, v) ==
    LET wrapped[ty \in Type] == IF ty.kind = "option" THEN Some(wrapped[ty.of[1]]) ELSE v
    IN wrapped[type]

JsonScalarToVal(ty, v) ==
    LET kind == Bare[ty].kind IN
    CASE ty.kind = "option" /\ v.kind = "null" -> Good(NoneValue)
      [] \/ kind = "int" /\ v.kind = "number"
         \/ kind = "string" /\ v.kind = "text" -> Good(Wrapped(ty, Value(kind, v.val, <<>>)))
      [] OTHER -> Bad("InvalidValue")

\* A token that is no JSON object can only be one that another argument stored.
JsonToVal(ty, v) ==
    IF v.val # "json" THEN Bad("InvalidValue")
    ELSE Made("record", "", Sequence([i \in DOMAIN ty.of |-> JsonScalarToVal(ty.of[i], v.of[i])]))

Element(ty, v) ==
    CASE ty.kind \in {"int", "f64"} -> Good(v)
      [] ty.kind \in {"string", "enum"} -> PrimitiveFromStr(ty, v)
      [] ty.kind = "record" -> JsonToVal(ty, v)
      [] OTHER -> Bad("UnsupportedArg")

\* Fault: of a repeated flag the first value counts.
CollectTypedFirst(given, id, ty) ==
    IF Panics(given, id, ty) THEN Bad("panic")
    ELSE Made("list", "", Sequence([i \in DOMAIN given[id].values |->
                                       Element(ty, given[id].values[1])]))

CollectTypedMany(given, id, ty) ==
    IF Panics(given, id, ty) THEN Bad("panic")
    ELSE Made("list", "", Sequence([i \in DOMAIN given[id].values |->
                                       Element(ty, given[id].values[i])]))

CollectTyped(given, id, ty) ==
    CASE ty.kind = "list" -> CollectTypedMany(given, id, ty.of[1])
      [] ty.kind \in {"int", "f64", "string", "enum"} ->
            IF Panics(given, id, ty) THEN Bad("panic")
            ELSE IF given[id].values = <<>> THEN Bad("InvalidValue")
            ELSE Element(ty, given[id].values[1])
      [] OTHER -> Bad("UnsupportedArg")

VariantOf(ty, v) ==
    LET payload == ty.of[CHOOSE i \in DOMAIN ty.names : ty.names[i] = v.val]
    IN IF \/ v.val \notin ToSet(ty.names)
          \/ (payload.kind = "none") # (v.of = <<>>) THEN Bad("InvalidValue")
       ELSE IF v.of = <<>> THEN Good(Value("variant", v.val, <<>>))
       ELSE Made("variant", v.val, Sequence(<<PrimitiveFromStr(payload, v.of[1])>>))

\* A positional argument; a number that is not there is 0, a string empty.
CollectSingle(given, id, ty) ==
    IF Panics(given, id, ty) THEN Bad("panic")
    ELSE IF given[id].values = <<>>
      THEN IF ty.kind \in {"enum", "variant"} THEN Bad("InvalidValue")
           ELSE Good(Value(ty.kind, IF ty.kind = "string" THEN "" ELSE "0", <<>>))
    ELSE IF ty.kind = "variant" THEN VariantOf(ty, given[id].values[1])
    ELSE Element(ty, given[id].values[1])

\* Fault: an optional record needs every field.
SuppliedIfAll(given, p) ==
    \A i \in DOMAIN p.ty.of[1].of : ContainsId(given, Prefixed(p, p.ty.of[1].names[i]))

\* An optional record is there if any of its flags is.
Supplied(given, p) ==
    \E i \in DOMAIN p.ty.of[1].of : ContainsId(given, Prefixed(p, p.ty.of[1].names[i]))

CollectOptionField(given, flag, ty) ==
    IF ty.kind # "option" THEN CollectTyped(given, flag, ty)
    ELSE IF flag \notin DOMAIN given THEN Bad("panic")
    ELSE IF ~ContainsId(given, flag) THEN Good(NoneValue)
    ELSE Made("option", "", Sequence(<<CollectTyped(given, flag, ty.of[1])>>))

CollectOption(given, p) ==
    LET inner == p.ty.of[1]
        flags == {Prefixed(p, inner.names[i]) : i \in DOMAIN inner.of}
        fields == Sequence([i \in DOMAIN inner.of |->
                               CollectOptionField(given, Prefixed(p, inner.names[i]), inner.of[i])])
    IN IF inner.kind = "record"
       THEN IF ~(flags \subseteq DOMAIN given) THEN Bad("panic")
            ELSE IF ~Supplied(given, p) THEN Good(NoneValue)
            ELSE Made("option", "", Sequence(<<Made("record", "", fields)>>))
       ELSE IF p.name \notin DOMAIN given THEN Bad("panic")
       ELSE IF ~ContainsId(given, p.name) THEN Good(NoneValue)
       ELSE Made("option", "", Sequence(<<CollectSingle(given, p.name, inner)>>))

CollectOne(given, p, multi) ==
    CASE p.ty.kind = "option" -> CollectOption(given, p)
      [] p.ty.kind = "record" ->
            Made("record", "", Sequence([i \in DOMAIN p.ty.of |->
                CollectTyped(given, FieldFlag(p, p.ty.names[i], multi), p.ty.of[i])]))
      [] p.ty.kind = "list" -> CollectTypedMany(given, p.name, p.ty.of[1])
      [] p.ty.kind \in Single -> CollectSingle(given, p.name, p.ty)
      [] OTHER -> Bad("UnsupportedArg")

CollectArgs(given, f) ==
    Sequence([i \in DOMAIN f.params |->
                 CollectOne(given, f.params[i], MultiRecordToCollect(f))])

\* The first of a list with a name, or 0.
Named(list, name) ==
    LET first == {i \in DOMAIN list : list[i].name = name /\ FirstNamed(list, i)}
    IN IF first = {} THEN 0 ELSE CHOOSE i \in first : TRUE

\* Fault: item and function are counted as the subcommands are.
Counted(list, rank) == CHOOSE i \in DOMAIN list : Cardinality({j \in DOMAIN list : j <= i}) = rank

DispatchedByPlace(c) ==
    LET item == Counted(surface, Cardinality({i \in DOMAIN root : i <= c.group})) IN
    [item |-> item,
     func |-> Counted(surface[item].funcs,
                      Cardinality({j \in DOMAIN root[c.group].cmds : j <= c.cmd}))]

\* The first item with the name of the subcommand, and its function.
Dispatched(c) ==
    LET item == Named(surface, root[c.group].name)
    IN [item |-> item, func |-> Named(surface[item].funcs, root[c.group].cmds[c.cmd].name)]

ParseInvocation(c) ==
    LET d == Dispatched(c) IN
    IF d.func = 0 THEN Bad("UnknownFunc") ELSE CollectArgs(c.given, surface[d.item].funcs[d.func])

Parse ==
    /\ stage = "parse"
    /\ result' = ParseInvocation(call)
    /\ stage' = "invoke"
    /\ UNCHANGED <<component, surface, root, call>>

-------------------------------------------------------------------------------

Next == Extract \/ Build \/ Match \/ AssertFails \/ Parse

Spec == Init /\ [][Next]_vars
-------------------------------------------------------------------------------
(* What the command line promises. *)

\* The stages follow each other, and what a stage makes has its form.
TypeOK ==
    /\ stage \in {"extract", "build", "match", "parse", "invoke", "refused"}
    /\ component \in Component
    /\ \A i \in DOMAIN surface : DOMAIN surface[i].funcs # {} /\ ~Bootstrap(surface[i])
    /\ \A i \in DOMAIN root : i \in DOMAIN surface /\ DOMAIN root[i].cmds # {}
    /\ result.is \in {"none", "ok", "panic", "assertion", "NoInvocableFunctions", "FlagCollision",
                      "UnsupportedArg", "InvalidValue", "UnknownFunc"}
    /\ stage = "refused" <=> result.is \in {"NoInvocableFunctions", "FlagCollision"}

\* The function that the user's subcommand was built from.
Chosen(f) == BuildFuncCommand(f) = root[call.group].cmds[call.cmd]

\* No other export has the short name of the subcommand: two packages may each
\* export an interface "run", and its functions are then looked for in the first.
Invoked ==
    /\ stage = "invoke"
    /\ \A i \in DOMAIN surface : surface[i].name = root[call.group].name => i = call.group

Asked == surface[call.group].funcs[call.cmd]

\* A parameter with an argument of its own name has the name of a flag of a
\* record: building looks for equal names among the flags of records only.
Shadowed(f) ==
    \E i, j \in DOMAIN f.params :
        ParamArgs(f)[i] # <<>> /\ SeenFlags(f, i) = {} /\ f.params[i].name \in SeenFlags(f, j)

\* A parameter that must be given follows one that need not.
Backwards(f) ==
    \E i, j \in DOMAIN f.params :
        i < j /\ f.params[i].ty.kind = "option" /\ f.params[j].ty.kind \in Single

\* Collecting asks clap only for arguments that building gave the command, at the
\* type that building stored: the two walks over the signature agree on the
\* prefix of every flag, for every mix of records and optional records.  Only a
\* parameter with the name of a flag of a record makes the program panic, and a
\* debug build besides one after an optional one, or with the name "help".
ReadsWhatIsStored ==
    Invoked =>
        /\ result.is = "panic" => Shadowed(Asked)
        /\ result.is = "assertion" =>
              \/ Shadowed(Asked) \/ Backwards(Asked) \/ <<"help">> \in Ids(BuildFuncCommand(Asked))
              \/ \E i, j \in DOMAIN surface : i # j /\ surface[i].name = surface[j].name

\* What is invoked is the function that the subcommand was built from, although
\* functions and interfaces without a command are missing between them.
InvokesWhatIsOffered ==
    Invoked => LET d == Dispatched(call) IN
               /\ surface[d.item].name = root[call.group].name
               /\ d.func # 0 /\ Chosen(surface[d.item].funcs[d.func])

Scalar(ty) == ty.kind \in {"int", "f64", "string", "enum"}
Plain(ty) == Scalar(ty) \/ (ty.kind = "list" /\ Scalar(ty.of[1]))

\* The parameters whose values a command line can spell out.
Spelled(ty) ==
    CASE ty.kind = "variant" -> \A i \in DOMAIN ty.of : ty.of[i].kind \in {"none", "string"}
      [] ty.kind = "record" -> \A i \in DOMAIN ty.of : Plain(ty.of[i])
      [] ty.kind = "option" /\ ty.of[1].kind = "record" ->
            \A i \in DOMAIN ty.of[1].of :
                Plain(ty.of[1].of[i])
                \/ (ty.of[1].of[i].kind = "option" /\ Scalar(ty.of[1].of[i].of[1]))
      [] ty.kind = "option" /\ ty.of[1].kind # "record" -> Scalar(ty.of[1])
      [] OTHER -> Plain(ty)

\* And no parameter has the name of a flag, of which one value is read for both.
SpelledFunc(f) ==
    /\ \A i \in DOMAIN f.params : Spelled(f.params[i].ty)
    /\ ~Shadowed(f)

Offered == {f \in UNION {Range(surface[i].funcs) : i \in DOMAIN surface} : BuildError(f) = "ok"}

\* The values of a type that can be spelled out, lists up to MaxRepeats.
Scalars(ty) ==
    CASE ty.kind \in {"int", "f64"} -> {Value(ty.kind, n, <<>>) : n \in {"0", "1"}}
      [] ty.kind = "string" -> {Value("string", w, <<>>) : w \in Word}
      [] ty.kind = "enum" -> {Value("enum", c, <<>>) : c \in ToSet(ty.names)}

Plains(ty) ==
    IF ty.kind = "list" THEN {Value("list", "", s) : s \in SeqOf(Scalars(ty.of[1]), MaxRepeats)}
    ELSE Scalars(ty)

FieldValues(ty) ==
    IF ty.kind = "option" THEN {NoneValue} \union {Some(v) : v \in Scalars(ty.of[1])}
    ELSE Plains(ty)

\* One of each of the sets.
OneOfEach(sets) ==
    {s \in [DOMAIN sets -> UNION {sets[i] : i \in DOMAIN sets}] : \A i \in DOMAIN s : s[i] \in sets[i]}

Records(ty) == {Value("record", "", s) : s \in OneOfEach([i \in DOMAIN ty.of |-> FieldValues(ty.of[i])])}

Cases(ty, i) ==
    IF ty.of[i].kind = "none" THEN {Value("variant", ty.names[i], <<>>)}
    ELSE {Value("variant", ty.names[i], <<v>>) : v \in Scalars(ty.of[i])}

ValuesOf(ty) ==
    CASE ty.kind = "variant" -> UNION {Cases(ty, i) : i \in DOMAIN ty.of}
      [] ty.kind = "record" -> Records(ty)
      [] ty.kind = "option" /\ ty.of[1].kind = "record" -> {NoneValue} \union {Some(v) : v \in Records(ty.of[1])}
      [] OTHER -> FieldValues(ty)

Calls(f) == OneOfEach([i \in DOMAIN f.params |-> ValuesOf(f.params[i].ty)])

\* A list, or an option, that takes nothing of the command line.
Blank(v) == v.kind \in {"list", "option"} /\ v.of = <<>>

Positional(f, i) ==
    \/ f.params[i].ty.kind \in Single
    \/ f.params[i].ty.kind = "option" /\ f.params[i].ty.of[1].kind # "record"
    \/ f.params[i].ty.kind = "list" /\ i = Len(f.params)

\* What no command line says: a positional argument after one that is left out,
\* and an optional record that is there with nothing in it.
Unsayable(f, vals) ==
    \/ \E i, j \in DOMAIN vals :
          i < j /\ Positional(f, i) /\ Positional(f, j) /\ Blank(vals[i]) /\ ~Blank(vals[j])
    \/ \E i \in DOMAIN vals :
          /\ vals[i].kind = "option" /\ vals[i].of # <<>> /\ vals[i].of[1].kind = "record"
          /\ \A k \in DOMAIN vals[i].of[1].of : Blank(vals[i].of[1].of[k])

\* What the user writes for a value: a token, or one for each value in it.
Token(v) == IF v.kind \in {"int", "f64"} THEN v ELSE Value("string", v.val, v.of)

Said(v) ==
    IF v.kind \in {"list", "option"} THEN [i \in DOMAIN v.of |-> Token(v.of[i])] ELSE <<Token(v)>>

\* What is written for the argument at place x.
SaidAt(f, vals, x) ==
    LET ty == f.params[x[1]].ty
        v == vals[x[1]]
    IN CASE ty.kind = "record" -> Said(v.of[x[2]])
         [] ty.kind = "option" /\ ty.of[1].kind = "record" ->
               IF v.of = <<>> THEN <<>> ELSE Said(v.of[1].of[x[2]])
         [] OTHER -> Said(v)

\* The command line for a call, as clap has parsed it.
CommandLine(f, vals) ==
    LET args == BuildFuncCommand(f).args
        at(id) == CHOOSE x \in DOMAIN args : args[x].id = id
    IN [id \in Ids(BuildFuncCommand(f)) |->
          [as |-> StoredAs(args[at(id)].ty), values |-> SaidAt(f, vals, at(id))]]

\* Every call of a function that is offered can be made: there is a command line
\* that clap accepts and that is collected into exactly these values, in the
\* order of the declaration.
EveryCallCanBeMade ==
    stage = "match" => \A f \in {g \in Offered : SpelledFunc(g)} :
        \A vals \in Calls(f) :
            LET given == CommandLine(f, vals) IN
            \/ Unsayable(f, vals)
            \/ /\ Accepts(BuildFuncCommand(f), given)
               /\ CollectArgs(given, f) = [is |-> "ok", vals |-> vals]

\* Nothing the user wrote is ignored: two command lines never mean one call.
NothingIsIgnored ==
    stage = "match" => \A f \in {g \in Offered : SpelledFunc(g)} :
        LET good == {m \in Matches(BuildFuncCommand(f)) : CollectArgs(m, f).is = "ok"} IN
        \A m \in good : \A n \in good : CollectArgs(m, f) = CollectArgs(n, f) => m = n

\* An optional record of which a field that must be there is missing.
LeftOut(given, p) ==
    /\ p.ty.kind = "option" /\ p.ty.of[1].kind = "record" /\ Supplied(given, p)
    /\ \E k \in DOMAIN p.ty.of[1].of :
          /\ p.ty.of[1].of[k].kind \notin {"option", "list"}
          /\ ~ContainsId(given, Prefixed(p, p.ty.of[1].names[k]))

\* What clap accepted is invoked; refused is only an optional record of which a
\* field is missing, and a payload that the case of a variant does not have.  Left
\* open is a function of which a parameter has the name of a flag: the value of
\* the one is read for the other, which may refuse it.
AcceptedIsInvoked ==
    (Invoked /\ result.is \notin {"ok", "assertion"}) =>
        LET d == Dispatched(call)
            f == surface[d.item].funcs[d.func] IN
        \/ Shadowed(f)
        \/ \E i \in DOMAIN f.params :
              \/ ~Spelled(f.params[i].ty)
              \/ f.params[i].ty.kind = "variant"
              \/ LeftOut(call.given, f.params[i])
===============================================================================
