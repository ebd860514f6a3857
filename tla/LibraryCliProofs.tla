---------------------------- MODULE LibraryCliProofs ----------------------------
(* Machine-checked proofs about LibraryCli, for every component: what building  *)
(* the clap command stores is what collecting the values reads.                 *)
EXTENDS LibraryCli, TLAPS, WellFoundedInduction, SequenceTheorems

(***************************************************************************)
(* Results.  A collection of results is an error only if one of them is,   *)
(* and then it is that one; wrapping a result keeps its error.             *)
(***************************************************************************)

LEMMA SequenceFails ==
    ASSUME NEW rs, Sequence(rs).is # "ok"
    PROVE  \E i \in DOMAIN rs : Sequence(rs) = rs[i]
<1>1. CASE \E i \in DOMAIN rs : FirstBad(rs, i)
  <2> DEFINE i == CHOOSE j \in DOMAIN rs : FirstBad(rs, j)
  <2>1. i \in DOMAIN rs
    BY <1>1
  <2>2. Sequence(rs) = rs[i]
    BY <1>1 DEF Sequence
  <2>3. QED
    BY <2>1, <2>2
<1>2. CASE ~\E i \in DOMAIN rs : FirstBad(rs, i)
  BY <1>2 DEF Sequence
<1>3. QED
  BY <1>1, <1>2

LEMMA MadeFails ==
    ASSUME NEW kind, NEW val, NEW r
    PROVE  Made(kind, val, r).is = r.is
BY DEF Made, Good

\* What collecting may answer, but for a panic of clap.
Answer == {"ok", "InvalidValue", "UnsupportedArg"}

LEMMA MadeSequence ==
    ASSUME NEW kind, NEW val, NEW rs, NEW S, "ok" \in S, \A i \in DOMAIN rs : rs[i].is \in S
    PROVE  Made(kind, val, Sequence(rs)).is \in S
BY SequenceFails, MadeFails

LEMMA MadeOfOne ==
    ASSUME NEW kind, NEW val, NEW r
    PROVE  Made(kind, val, Sequence(<<r>>)).is \in {"ok", r.is}
<1> DEFINE rs == <<r>>
<1>1. \A i \in DOMAIN rs : rs[i].is \in {"ok", r.is}
  OBVIOUS
<1> HIDE DEF rs
<1>2. Made(kind, val, Sequence(rs)).is \in {"ok", r.is}
  BY <1>1, MadeSequence
<1>3. QED
  BY <1>2 DEF rs

LEMMA PrimitiveAnswers ==
    ASSUME NEW ty, NEW v PROVE PrimitiveFromStr(ty, v).is \in Answer
<1>1. CASE ty.kind \in {"int", "f64"}
  BY <1>1 DEF PrimitiveFromStr, Good, Bad, Answer
<1>2. CASE ty.kind \in {"string", "enum"}
  BY <1>2 DEF PrimitiveFromStr, Good, Bad, Answer
<1>3. CASE ty.kind \notin {"int", "f64", "string", "enum"}
  BY <1>3 DEF PrimitiveFromStr, Good, Bad, Answer
<1>4. QED
  BY <1>1, <1>2, <1>3

LEMMA ScalarAnswers ==
    ASSUME NEW ty, NEW v PROVE JsonScalarToVal(ty, v).is \in Answer
BY DEF JsonScalarToVal, Good, Bad, Answer

LEMMA JsonAnswers ==
    ASSUME NEW ty, NEW v PROVE JsonToVal(ty, v).is \in Answer
<1> DEFINE rs == [i \in DOMAIN ty.of |-> JsonScalarToVal(ty.of[i], v.of[i])]
<1>1. \A i \in DOMAIN rs : rs[i].is \in Answer
  BY ScalarAnswers
<1>2. "ok" \in Answer
  BY DEF Answer
<1>3. CASE v.val # "json"
  BY <1>3 DEF JsonToVal, Bad, Answer
<1>4. CASE v.val = "json"
  <2>1. JsonToVal(ty, v) = Made("record", "", Sequence(rs))
    BY <1>4 DEF JsonToVal
  <2> HIDE DEF rs
  <2>2. QED
    BY <1>1, <1>2, <2>1, MadeSequence
<1>5. QED
  BY <1>3, <1>4

LEMMA ElementAnswers ==
    ASSUME NEW ty, NEW v PROVE Element(ty, v).is \in Answer
<1>1. CASE ty.kind \in {"int", "f64"}
  BY <1>1 DEF Element, Good, Answer
<1>2. CASE ty.kind \in {"string", "enum"}
  BY <1>2, PrimitiveAnswers DEF Element
<1>3. CASE ty.kind = "record"
  BY <1>3, JsonAnswers DEF Element
<1>4. CASE ty.kind \notin {"int", "f64", "string", "enum", "record"}
  BY <1>4 DEF Element, Bad, Answer
<1>5. QED
  BY <1>1, <1>2, <1>3, <1>4

-------------------------------------------------------------------------------
(* What collecting asks of clap, one parameter at a time: it panics only at an *)
(* argument of the parameter that clap does not have as it was built.          *)

\* The type whose values an argument for ty holds: of a list, its elements'.
Held(ty) == IF ty.kind = "list" THEN ty.of[1] ELSE ty

LEMMA ManyAnswers ==
    ASSUME NEW given, NEW id, NEW ty
    PROVE  LET r == CollectTypedMany(given, id, ty) IN
           r.is \in Answer \/ (r.is = "panic" /\ Panics(given, id, ty))
<1> DEFINE rs == [i \in DOMAIN given[id].values |-> Element(ty, given[id].values[i])]
<1>1. CASE Panics(given, id, ty)
  BY <1>1 DEF CollectTypedMany, Bad
<1>2. CASE ~Panics(given, id, ty)
  <2>1. \A i \in DOMAIN rs : rs[i].is \in Answer
    BY ElementAnswers
  <2>2. "ok" \in Answer
    BY DEF Answer
  <2>3. CollectTypedMany(given, id, ty) = Made("list", "", Sequence(rs))
    BY <1>2 DEF CollectTypedMany
  <2> HIDE DEF rs
  <2>4. QED
    BY <2>1, <2>2, <2>3, MadeSequence
<1>3. QED
  BY <1>1, <1>2

LEMMA TypedAnswers ==
    ASSUME NEW given, NEW id, NEW ty
    PROVE  LET r == CollectTyped(given, id, ty) IN
           r.is \in Answer \/ (r.is = "panic" /\ Panics(given, id, Held(ty)))
<1>1. CASE ty.kind = "list"
  BY <1>1, ManyAnswers DEF CollectTyped, Held
<1>2. CASE ty.kind \in {"int", "f64", "string", "enum"}
  <2>1. Held(ty) = ty
    BY <1>2 DEF Held
  <2>2. CASE Panics(given, id, ty)
    BY <1>2, <2>1, <2>2 DEF CollectTyped, Bad
  <2>3. CASE ~Panics(given, id, ty) /\ given[id].values = <<>>
    BY <1>2, <2>3 DEF CollectTyped, Bad, Answer
  <2>4. CASE ~Panics(given, id, ty) /\ given[id].values # <<>>
    BY <1>2, <2>4, ElementAnswers DEF CollectTyped
  <2>5. QED
    BY <2>2, <2>3, <2>4
<1>3. CASE ty.kind \notin {"list", "int", "f64", "string", "enum"}
  BY <1>3 DEF CollectTyped, Bad, Answer
<1>4. QED
  BY <1>1, <1>2, <1>3

LEMMA VariantAnswers ==
    ASSUME NEW ty, NEW v PROVE VariantOf(ty, v).is \in Answer
<1> DEFINE payload == ty.of[CHOOSE i \in DOMAIN ty.names : ty.names[i] = v.val]
           wrong == v.val \notin ToSet(ty.names) \/ (payload.kind = "none") # (v.of = <<>>)
           rs == <<PrimitiveFromStr(payload, v.of[1])>>
<1>1. CASE wrong
  BY <1>1 DEF VariantOf, Bad, Answer
<1>2. CASE ~wrong /\ v.of = <<>>
  BY <1>2 DEF VariantOf, Good, Answer
<1>3. CASE ~wrong /\ v.of # <<>>
  <2>1. \A i \in DOMAIN rs : rs[i].is \in Answer
    BY PrimitiveAnswers
  <2>2. "ok" \in Answer
    BY DEF Answer
  <2>3. VariantOf(ty, v) = Made("variant", v.val, Sequence(rs))
    BY <1>3 DEF VariantOf
  <2> HIDE DEF rs
  <2>4. QED
    BY <2>1, <2>2, <2>3, MadeSequence
<1>4. QED
  BY <1>1, <1>2, <1>3

LEMMA SingleAnswers ==
    ASSUME NEW given, NEW id, NEW ty
    PROVE  LET r == CollectSingle(given, id, ty) IN
           r.is \in Answer \/ (r.is = "panic" /\ Panics(given, id, ty))
<1>1. CASE Panics(given, id, ty)
  BY <1>1 DEF CollectSingle, Bad
<1>2. CASE ~Panics(given, id, ty) /\ given[id].values = <<>>
  BY <1>2 DEF CollectSingle, Good, Bad, Answer
<1>3. CASE ~Panics(given, id, ty) /\ given[id].values # <<>> /\ ty.kind = "variant"
  BY <1>3, VariantAnswers DEF CollectSingle
<1>4. CASE ~Panics(given, id, ty) /\ given[id].values # <<>> /\ ty.kind # "variant"
  BY <1>4, ElementAnswers DEF CollectSingle
<1>5. QED
  BY <1>1, <1>2, <1>3, <1>4

LEMMA OptionFieldAnswers ==
    ASSUME NEW given, NEW flag, NEW ty
    PROVE  LET r == CollectOptionField(given, flag, ty) IN
           r.is \in Answer \/ (r.is = "panic" /\ Panics(given, flag, Held(Effective(ty))))
<1>1. CASE ty.kind # "option"
  BY <1>1, TypedAnswers DEF CollectOptionField, Effective
<1>2. CASE ty.kind = "option" /\ flag \notin DOMAIN given
  BY <1>2 DEF CollectOptionField, Bad, Panics
<1>3. CASE ty.kind = "option" /\ flag \in DOMAIN given /\ ~ContainsId(given, flag)
  BY <1>3 DEF CollectOptionField, Good, Answer
<1>4. CASE ty.kind = "option" /\ flag \in DOMAIN given /\ ContainsId(given, flag)
  <2> DEFINE r == CollectTyped(given, flag, ty.of[1])
  <2>1. CollectOptionField(given, flag, ty) = Made("option", "", Sequence(<<r>>))
    BY <1>4 DEF CollectOptionField
  <2>2. CollectOptionField(given, flag, ty).is \in {"ok", r.is}
    BY <2>1, MadeOfOne
  <2>3. Effective(ty) = ty.of[1]
    BY <1>4 DEF Effective
  <2>4. "ok" \in Answer
    BY DEF Answer
  <2>5. QED
    BY <2>2, <2>3, <2>4, TypedAnswers
<1>5. QED
  BY <1>1, <1>2, <1>3, <1>4

\* The fields of an optional record, as they are collected.
OptionFields(given, p) ==
    [k \in DOMAIN p.ty.of[1].of |->
        CollectOptionField(given, Prefixed(p, p.ty.of[1].names[k]), p.ty.of[1].of[k])]

LEMMA OptionRecordIs ==
    ASSUME NEW given, NEW p, p.ty.of[1].kind = "record"
    PROVE  LET r == CollectOption(given, p)
               fields == OptionFields(given, p) IN
           \/ r.is = "ok"
           \/ r.is = "panic" /\ \E k \in DOMAIN p.ty.of[1].of :
                 Prefixed(p, p.ty.of[1].names[k]) \notin DOMAIN given
           \/ Supplied(given, p) /\ r.is = Sequence(fields).is
<1> DEFINE inner == p.ty.of[1]
           flags == {Prefixed(p, inner.names[i]) : i \in DOMAIN inner.of}
           fields == OptionFields(given, p)
           made == Made("record", "", Sequence(fields))
<1>1. CASE ~(flags \subseteq DOMAIN given)
  BY <1>1 DEF CollectOption, Bad
<1>2. CASE flags \subseteq DOMAIN given /\ ~Supplied(given, p)
  BY <1>2 DEF CollectOption, Good
<1>3. CASE flags \subseteq DOMAIN given /\ Supplied(given, p)
  <2>1. CollectOption(given, p) = Made("option", "", Sequence(<<made>>))
    BY <1>3 DEF CollectOption, OptionFields
  <2>2. made.is = Sequence(fields).is
    BY MadeFails
  <2>3. CollectOption(given, p).is \in {"ok", made.is}
    BY <2>1, MadeOfOne
  <2>4. QED
    BY <1>3, <2>2, <2>3
<1>4. QED
  BY <1>1, <1>2, <1>3

LEMMA OptionSingleIs ==
    ASSUME NEW given, NEW p, p.ty.of[1].kind # "record"
    PROVE  LET r == CollectOption(given, p) IN
           \/ r.is = "ok"
           \/ r.is = "panic" /\ p.name \notin DOMAIN given
           \/ ContainsId(given, p.name) /\ r.is = CollectSingle(given, p.name, p.ty.of[1]).is
<1> DEFINE one == CollectSingle(given, p.name, p.ty.of[1])
<1>1. CASE p.name \notin DOMAIN given
  BY <1>1 DEF CollectOption, Bad
<1>2. CASE p.name \in DOMAIN given /\ ~ContainsId(given, p.name)
  BY <1>2 DEF CollectOption, Good
<1>3. CASE p.name \in DOMAIN given /\ ContainsId(given, p.name)
  <2>1. CollectOption(given, p) = Made("option", "", Sequence(<<one>>))
    BY <1>3 DEF CollectOption
  <2>2. CollectOption(given, p).is \in {"ok", one.is}
    BY <2>1, MadeOfOne
  <2>3. QED
    BY <1>3, <2>2
<1>4. QED
  BY <1>1, <1>2, <1>3

LEMMA OptionAnswers ==
    ASSUME NEW given, NEW p PROVE CollectOption(given, p).is \in Answer \union {"panic"}
<1>1. CASE p.ty.of[1].kind = "record"
  <2> DEFINE fields == OptionFields(given, p)
  <2>1. \A k \in DOMAIN fields : fields[k].is \in Answer \union {"panic"}
    BY OptionFieldAnswers DEF OptionFields
  <2> HIDE DEF fields
  <2>2. Sequence(fields).is \in Answer \union {"panic"}
    BY <2>1, SequenceFails DEF Answer
  <2>3. QED
    BY <1>1, <2>2, OptionRecordIs DEF fields, Answer
<1>2. CASE p.ty.of[1].kind # "record"
  BY <1>2, OptionSingleIs, SingleAnswers DEF Answer
<1>3. QED
  BY <1>1, <1>2

\* The fields of a record, as they are collected.
Fields(given, p, multi) ==
    [k \in DOMAIN p.ty.of |-> CollectTyped(given, FieldFlag(p, p.ty.names[k], multi), p.ty.of[k])]

\* Collecting, kind by kind.
LEMMA OneOfKind ==
    ASSUME NEW given, NEW p, NEW multi
    PROVE  /\ p.ty.kind = "option" => CollectOne(given, p, multi) = CollectOption(given, p)
           /\ p.ty.kind = "record" =>
                 CollectOne(given, p, multi) = Made("record", "", Sequence(Fields(given, p, multi)))
           /\ p.ty.kind = "list" =>
                 CollectOne(given, p, multi) = CollectTypedMany(given, p.name, p.ty.of[1])
           /\ p.ty.kind \in Single =>
                 CollectOne(given, p, multi) = CollectSingle(given, p.name, p.ty)
           /\ p.ty.kind \notin Single \union {"option", "record", "list"} =>
                 CollectOne(given, p, multi) = Bad("UnsupportedArg")
<1>1. CASE p.ty.kind = "option"
  BY <1>1 DEF CollectOne, Single
<1>2. CASE p.ty.kind = "record"
  BY <1>2 DEF CollectOne, Single, Fields
<1>3. CASE p.ty.kind = "list"
  BY <1>3 DEF CollectOne, Single
<1>4. CASE p.ty.kind \in Single
  BY <1>4 DEF CollectOne, Single
<1>5. CASE p.ty.kind \notin Single \union {"option", "record", "list"}
  BY <1>5 DEF CollectOne
<1>6. QED
  BY <1>1, <1>2, <1>3, <1>4, <1>5 DEF Single

LEMMA RecordIs ==
    ASSUME NEW given, NEW p, NEW multi, p.ty.kind = "record"
    PROVE  CollectOne(given, p, multi).is = Sequence(Fields(given, p, multi)).is
<1>1. CollectOne(given, p, multi) = Made("record", "", Sequence(Fields(given, p, multi)))
  BY OneOfKind
<1>2. Made("record", "", Sequence(Fields(given, p, multi))).is = Sequence(Fields(given, p, multi)).is
  BY MadeFails
<1>3. QED
  BY <1>1, <1>2

LEMMA OneAnswers ==
    ASSUME NEW given, NEW p, NEW multi
    PROVE  CollectOne(given, p, multi).is \in Answer \union {"panic"}
<1>1. CASE p.ty.kind = "option"
  <2>1. CollectOne(given, p, multi) = CollectOption(given, p)
    BY <1>1, OneOfKind
  <2>2. QED
    BY <2>1, OptionAnswers
<1>2. CASE p.ty.kind = "record"
  <2> DEFINE fields == Fields(given, p, multi)
  <2>1. \A k \in DOMAIN fields : fields[k].is \in Answer \union {"panic"}
    BY TypedAnswers DEF Fields
  <2> HIDE DEF fields
  <2>2. Sequence(fields).is \in Answer \union {"panic"}
    BY <2>1, SequenceFails DEF Answer
  <2>3. QED
    BY <1>2, <2>2, RecordIs DEF fields
<1>3. CASE p.ty.kind = "list"
  <2>1. CollectOne(given, p, multi) = CollectTypedMany(given, p.name, p.ty.of[1])
    BY <1>3, OneOfKind
  <2>2. QED
    BY <2>1, ManyAnswers
<1>4. CASE p.ty.kind \in Single
  <2>1. CollectOne(given, p, multi) = CollectSingle(given, p.name, p.ty)
    BY <1>4, OneOfKind
  <2>2. QED
    BY <2>1, SingleAnswers
<1>5. CASE p.ty.kind \notin Single \union {"option", "record", "list"}
  <2>1. CollectOne(given, p, multi) = Bad("UnsupportedArg")
    BY <1>5, OneOfKind
  <2>2. QED
    BY <2>1 DEF Bad, Answer
<1>6. QED
  BY <1>1, <1>2, <1>3, <1>4, <1>5

LEMMA FieldArgIs ==
    ASSUME NEW flag, NEW ty, NEW required \in BOOLEAN
    PROVE  FieldArg(flag, ty, required).id = flag /\ FieldArg(flag, ty, required).ty = Held(ty)
<1>1. CASE ty.kind = "list"
  BY <1>1 DEF FieldArg, Arg, Held
<1>2. CASE ty.kind # "list"
  BY <1>2 DEF FieldArg, Arg, Held
<1>3. QED
  BY <1>1, <1>2

\* Where building added the arguments of a parameter, a panic is at one of them.
LEMMA OneReadsItsArgs ==
    ASSUME NEW given, NEW p, NEW multi, NEW last, ~Unsupported(p.ty),
           CollectOne(given, p, multi).is = "panic"
    PROVE  LET args == AddParamArgs(p, multi, last) IN
           \E k \in DOMAIN args : Panics(given, args[k].id, args[k].ty)
<1> DEFINE args == AddParamArgs(p, multi, last)
<1> SUFFICES \E k \in DOMAIN args : Panics(given, args[k].id, args[k].ty)
  OBVIOUS
<1>0. "panic" \notin Answer
  BY DEF Answer
<1>1. CASE p.ty.kind = "option" /\ p.ty.of[1].kind = "record"
  <2> DEFINE inner == p.ty.of[1]
             fields == OptionFields(given, p)
  <2>1. args = [k \in DOMAIN inner.of |->
                   FieldArg(Prefixed(p, inner.names[k]), Effective(inner.of[k]), FALSE)]
    BY <1>1 DEF AddParamArgs, Single
  <2>2. DOMAIN args = DOMAIN inner.of
    BY <2>1
  <2>3. \A k \in DOMAIN inner.of :
            args[k].id = Prefixed(p, inner.names[k]) /\ args[k].ty = Held(Effective(inner.of[k]))
    <3> SUFFICES ASSUME NEW k \in DOMAIN inner.of
                 PROVE  args[k].id = Prefixed(p, inner.names[k]) /\ args[k].ty = Held(Effective(inner.of[k]))
      OBVIOUS
    <3> DEFINE a == FieldArg(Prefixed(p, inner.names[k]), Effective(inner.of[k]), FALSE)
    <3>1. args[k] = a
      BY <2>1
    <3>2. a.id = Prefixed(p, inner.names[k]) /\ a.ty = Held(Effective(inner.of[k]))
      BY FieldArgIs
    <3> HIDE DEF a, args, inner
    <3>3. QED
      BY <3>1, <3>2
  <2>4. CASE \E k \in DOMAIN inner.of : Prefixed(p, inner.names[k]) \notin DOMAIN given
    BY <2>2, <2>3, <2>4 DEF Panics
  <2>5. CASE Sequence(fields).is = "panic"
    <3>1. PICK k \in DOMAIN fields : fields[k].is = "panic"
      <4> HIDE DEF fields
      <4> QED
        BY <2>5, SequenceFails
    <3>2. k \in DOMAIN inner.of
      BY <3>1 DEF OptionFields
    <3>3. CollectOptionField(given, Prefixed(p, inner.names[k]), inner.of[k]).is = "panic"
      BY <3>1 DEF OptionFields
    <3>4. Panics(given, Prefixed(p, inner.names[k]), Held(Effective(inner.of[k])))
      BY <1>0, <3>3, OptionFieldAnswers
    <3>5. QED
      BY <2>2, <2>3, <3>2, <3>4
  <2>6. CollectOption(given, p).is = "panic"
    BY <1>1, OneOfKind
  <2>7. QED
    BY <1>0, <1>1, <2>4, <2>5, <2>6, OptionRecordIs
<1>2. CASE p.ty.kind = "option" /\ p.ty.of[1].kind \in Single
  <2>1. args = <<Arg(p.name, "positional", FALSE, FALSE, p.ty.of[1])>>
    BY <1>2 DEF AddParamArgs, Single
  <2>2. 1 \in DOMAIN args /\ args[1].id = p.name /\ args[1].ty = p.ty.of[1]
    BY <2>1 DEF Arg
  <2>3. CollectOption(given, p).is = "panic" /\ p.ty.of[1].kind # "record"
    BY <1>2, OneOfKind DEF Single
  <2>4. Panics(given, p.name, p.ty.of[1])
    BY <1>0, <2>3, OptionSingleIs, SingleAnswers DEF Panics
  <2>5. QED
    BY <2>2, <2>4
<1>3. CASE p.ty.kind = "record"
  <2> DEFINE fields == Fields(given, p, multi)
  <2>1. args = [k \in DOMAIN p.ty.of |->
                   FieldArg(FieldFlag(p, p.ty.names[k], multi), p.ty.of[k], TRUE)]
    BY <1>3 DEF AddParamArgs, Single
  <2>2. \A k \in DOMAIN p.ty.of :
            args[k].id = FieldFlag(p, p.ty.names[k], multi) /\ args[k].ty = Held(p.ty.of[k])
    BY <2>1 DEF FieldArg, Arg, Held
  <2>3. PICK k \in DOMAIN fields : fields[k].is = "panic"
    <3>1. Sequence(fields).is = "panic"
      BY <1>3, RecordIs
    <3> HIDE DEF fields
    <3>2. QED
      BY <3>1, SequenceFails
  <2>4. k \in DOMAIN p.ty.of
    BY <2>3 DEF Fields
  <2>5. CollectTyped(given, FieldFlag(p, p.ty.names[k], multi), p.ty.of[k]).is = "panic"
    BY <2>3 DEF Fields
  <2>6. Panics(given, args[k].id, args[k].ty)
    BY <1>0, <2>2, <2>4, <2>5, TypedAnswers
  <2>7. k \in DOMAIN args
    BY <2>1, <2>4
  <2>8. QED
    BY <2>6, <2>7
<1>4. CASE p.ty.kind = "list"
  <2>1. args = <<Arg(p.name, IF last THEN "positional" ELSE "flag", FALSE, TRUE, p.ty.of[1])>>
    BY <1>4 DEF AddParamArgs, Single
  <2>2. 1 \in DOMAIN args /\ args[1].id = p.name /\ args[1].ty = p.ty.of[1]
    BY <2>1 DEF Arg
  <2>3. CollectTypedMany(given, p.name, p.ty.of[1]).is = "panic"
    BY <1>4, OneOfKind
  <2>4. QED
    BY <1>0, <2>2, <2>3, ManyAnswers
<1>5. CASE p.ty.kind \in Single
  <2>1. args = <<Arg(p.name, "positional", TRUE, FALSE, p.ty)>>
    BY <1>5 DEF AddParamArgs, Single
  <2>2. 1 \in DOMAIN args /\ args[1].id = p.name /\ args[1].ty = p.ty
    BY <2>1 DEF Arg
  <2>3. CollectSingle(given, p.name, p.ty).is = "panic"
    BY <1>5, OneOfKind
  <2>4. QED
    BY <1>0, <2>2, <2>3, SingleAnswers
<1>6. CASE p.ty.kind \notin Single \union {"option", "record", "list"}
  <2>1. CollectOne(given, p, multi) = Bad("UnsupportedArg")
    BY <1>6, OneOfKind
  <2>2. QED
    BY <2>1 DEF Bad
<1>7. QED
  BY <1>1, <1>2, <1>3, <1>4, <1>5, <1>6 DEF Unsupported

(***************************************************************************)
(* A whole function: clap vouches for the arguments that building gave it. *)
(***************************************************************************)

LEMMA NothingUnsupported ==
    ASSUME NEW f, BuildError(f) = "ok"
    PROVE  \A i \in DOMAIN f.params : ~Unsupported(f.params[i].ty)
<1> DEFINE wrong == {i \in DOMAIN f.params : Unsupported(f.params[i].ty) \/ Collides(f, i)}
<1>1. CASE wrong = {}
  BY <1>1
<1>2. CASE wrong # {}
  <2>1. BuildError(f) \in {"FlagCollision", "UnsupportedArg"}
    BY <1>2 DEF BuildError
  <2>2. QED
    BY <2>1
<1>3. QED
  BY <1>1, <1>2

(***************************************************************************)
(* The arguments of a command have ids of their own, but where a parameter *)
(* has the name of a flag: of two flags building makes sure, and names of  *)
(* parameters differ.                                                      *)
(***************************************************************************)

Distinct(cmd) == \A x, y \in DOMAIN cmd.args : cmd.args[x].id = cmd.args[y].id => x = y

\* What is assumed of a function.
Sound(f) ==
    /\ DOMAIN f.params = 1..Len(f.params)
    /\ \A i \in DOMAIN f.params : f.params[i].ty \in Type /\ f.params[i].name \in Seq(STRING)
    /\ \A i, j \in DOMAIN f.params : f.params[i].name = f.params[j].name => i = j

LEMMA FunctionIs ==
    ASSUME NEW exports \in Component, NEW i \in DOMAIN exports, NEW j \in DOMAIN exports[i].funcs
    PROVE  Sound(exports[i].funcs[j])
<1>1. PICK f : f = exports[i].funcs[j]
  OBVIOUS
<1>2. Sound(f)
  BY <1>1, ComponentAssumption DEF Sound
<1>3. QED
  BY <1>1, <1>2

LEMMA NothingCollides ==
    ASSUME NEW f, BuildError(f) = "ok"
    PROVE  \A i \in DOMAIN f.params : ~Collides(f, i)
<1> DEFINE wrong == {i \in DOMAIN f.params : Unsupported(f.params[i].ty) \/ Collides(f, i)}
<1>1. CASE wrong = {}
  BY <1>1
<1>2. CASE wrong # {}
  <2>1. BuildError(f) \in {"FlagCollision", "UnsupportedArg"}
    BY <1>2 DEF BuildError
  <2>2. QED
    BY <2>1
<1>3. QED
  BY <1>1, <1>2

LEMMA ArgsOf ==
    ASSUME NEW f, NEW i \in DOMAIN f.params
    PROVE  ParamArgs(f)[i] = AddParamArgs(f.params[i], MultiRecord(f), i = Len(f.params))
BY DEF ParamArgs

\* The fields of a record have names of their own, also behind a prefix.
LEMMA FieldsApart ==
    ASSUME NEW ty \in Type, ty.kind = "record", NEW p, p.name \in Seq(STRING),
           NEW multi \in BOOLEAN, NEW k \in DOMAIN ty.of, NEW l \in DOMAIN ty.of
    PROVE  /\ FieldFlag(p, ty.names[k], multi) = FieldFlag(p, ty.names[l], multi) => k = l
           /\ Prefixed(p, ty.names[k]) = Prefixed(p, ty.names[l]) => k = l
<1>1. /\ DOMAIN ty.names = DOMAIN ty.of
      /\ ty.names[k] = ty.names[l] => k = l
      /\ ty.names[k] \in Seq(STRING) /\ ty.names[l] \in Seq(STRING)
  <2>1. /\ DOMAIN ty.names = DOMAIN ty.of
        /\ \A i, j \in DOMAIN ty.names : ty.names[i] = ty.names[j] => i = j
        /\ \A i \in DOMAIN ty.names : ty.names[i] \in Seq(STRING)
    BY TypeAssumption
  <2>2. QED
    BY <2>1
<1>2. Prefixed(p, ty.names[k]) = Prefixed(p, ty.names[l]) => ty.names[k] = ty.names[l]
  BY <1>1, ConcatSimplifications DEF Prefixed
<1>3. QED
  BY <1>1, <1>2 DEF FieldFlag

\* An argument is a flag that building has seen, or the only one of a parameter of
\* which it has seen none, with the name of the parameter.
LEMMA SeenOrNamed ==
    ASSUME NEW f, Sound(f), NEW i \in DOMAIN f.params, NEW k \in DOMAIN ParamArgs(f)[i],
           NEW l \in DOMAIN ParamArgs(f)[i]
    PROVE  /\ \/ ParamArgs(f)[i][k].id \in SeenFlags(f, i)
              \/ SeenFlags(f, i) = {} /\ ParamArgs(f)[i][k].id = f.params[i].name
           /\ ParamArgs(f)[i][k].id = ParamArgs(f)[i][l].id => k = l
<1>1. PICK p, ty, multi, last, args :
          /\ p = f.params[i] /\ ty = p.ty /\ multi = MultiRecord(f) /\ last = (i = Len(f.params))
          /\ args = ParamArgs(f)[i]
  OBVIOUS
<1>2. /\ args = AddParamArgs(p, multi, last) /\ ty \in Type /\ p.name \in Seq(STRING)
      /\ multi \in BOOLEAN /\ k \in DOMAIN args /\ l \in DOMAIN args
  BY <1>1, ArgsOf DEF Sound, MultiRecord
<1>3. /\ ty.kind \in {"record", "option"} =>
            SeenFlags(f, i) = {a.id : a \in {b \in ToSet(args) : b.form = "flag"}}
      /\ ty.kind \notin {"record", "option"} => SeenFlags(f, i) = {}
  BY <1>1 DEF SeenFlags
<1> SUFFICES /\ \/ args[k].id \in SeenFlags(f, i)
                \/ SeenFlags(f, i) = {} /\ args[k].id = p.name
             /\ args[k].id = args[l].id => k = l
  BY <1>1
<1>4. CASE ty.kind = "record"
  <2>1. args = [j \in DOMAIN ty.of |-> FieldArg(FieldFlag(p, ty.names[j], multi), ty.of[j], TRUE)]
    BY <1>1, <1>2, <1>4 DEF AddParamArgs, Single
  <2>2. \A j \in DOMAIN ty.of : /\ args[j].id = FieldFlag(p, ty.names[j], multi)
                                /\ args[j].form = "flag"
    BY <2>1 DEF FieldArg, Arg
  <2>3. DOMAIN args = DOMAIN ty.of
    BY <2>1
  <2>4. args[k].id \in SeenFlags(f, i)
    BY <1>2, <1>3, <1>4, <2>2, <2>3 DEF ToSet
  <2>5. args[k].id = args[l].id => k = l
    BY <1>2, <1>4, <2>2, <2>3, FieldsApart
  <2>6. QED
    BY <2>4, <2>5
<1>5. CASE ty.kind = "option" /\ ty.of[1].kind = "record"
  <2> DEFINE inner == ty.of[1]
  <2>1. args = [j \in DOMAIN inner.of |->
                   FieldArg(Prefixed(p, inner.names[j]), Effective(inner.of[j]), FALSE)]
    BY <1>1, <1>2, <1>5 DEF AddParamArgs, Single
  <2>2. \A j \in DOMAIN inner.of : /\ args[j].id = Prefixed(p, inner.names[j])
                                   /\ args[j].form = "flag"
    BY <2>1 DEF FieldArg, Arg
  <2>3. DOMAIN args = DOMAIN inner.of
    BY <2>1
  <2>4. args[k].id \in SeenFlags(f, i)
    BY <1>2, <1>3, <1>5, <2>2, <2>3 DEF ToSet
  <2>5. inner \in Type
    BY <1>2, <1>5, TypeAssumption
  <2>6. args[k].id = args[l].id => k = l
    <3>1. args[k].id = Prefixed(p, inner.names[k]) /\ args[l].id = Prefixed(p, inner.names[l])
      BY <1>2, <2>2, <2>3
    <3>2. k \in DOMAIN inner.of /\ l \in DOMAIN inner.of /\ inner.kind = "record" /\ FALSE \in BOOLEAN
      BY <1>2, <1>5, <2>3
    <3> HIDE DEF inner
    <3>3. Prefixed(p, inner.names[k]) = Prefixed(p, inner.names[l]) => k = l
      BY <1>2, <2>5, <3>2, FieldsApart
    <3>4. QED
      BY <3>1, <3>3
  <2>7. QED
    BY <2>4, <2>6
<1>6. CASE ty.kind = "option" /\ ty.of[1].kind \in Single
  <2>1. args = <<Arg(p.name, "positional", FALSE, FALSE, ty.of[1])>>
    BY <1>1, <1>2, <1>6 DEF AddParamArgs, Single
  <2>2. DOMAIN args = {1} /\ args[1].id = p.name /\ args[1].form = "positional"
    BY <2>1 DEF Arg
  <2>3. SeenFlags(f, i) = {}
    BY <1>3, <1>6, <2>2 DEF ToSet
  <2>4. QED
    BY <1>2, <2>2, <2>3
<1>7. CASE ty.kind = "list" \/ ty.kind \in Single
  <2>1. PICK form, required, many, inner : args = <<Arg(p.name, form, required, many, inner)>>
    BY <1>1, <1>2, <1>7 DEF AddParamArgs, Single
  <2>2. DOMAIN args = {1} /\ args[1].id = p.name
    BY <2>1 DEF Arg
  <2>3. SeenFlags(f, i) = {}
    BY <1>3, <1>7 DEF Single
  <2>4. QED
    BY <1>2, <2>2, <2>3
<1>8. CASE /\ ty.kind \notin Single \union {"list", "record"}
           /\ ty.kind = "option" => ty.of[1].kind \notin Single \union {"record"}
  <2>1. args = <<>>
    BY <1>1, <1>2, <1>8 DEF AddParamArgs, Single
  <2>2. QED
    BY <1>2, <2>1
<1>9. QED
  BY <1>4, <1>5, <1>6, <1>7, <1>8

LEMMA IdsApart ==
    ASSUME NEW f, Sound(f), BuildError(f) = "ok", ~Shadowed(f)
    PROVE  Distinct(BuildFuncCommand(f))
<1> DEFINE args == BuildFuncCommand(f).args
<1>1. ASSUME NEW x \in DOMAIN args
      PROVE  \E i \in DOMAIN f.params : \E k \in DOMAIN ParamArgs(f)[i] :
                x = <<i, k>> /\ args[x] = ParamArgs(f)[i][k]
  <2>1. x \in Places(f) /\ args[x] = ParamArgs(f)[x[1]][x[2]]
    BY DEF BuildFuncCommand
  <2>2. PICK i \in DOMAIN f.params : x \in {i} \X DOMAIN ParamArgs(f)[i]
    BY <2>1 DEF Places
  <2>3. x[1] = i /\ x[2] \in DOMAIN ParamArgs(f)[i] /\ x = <<x[1], x[2]>>
    BY <2>2
  <2>4. QED
    BY <2>1, <2>3
<1> SUFFICES ASSUME NEW x \in DOMAIN args, NEW y \in DOMAIN args, args[x].id = args[y].id
             PROVE  x = y
  BY DEF Distinct
<1>2. PICK i \in DOMAIN f.params : \E k \in DOMAIN ParamArgs(f)[i] :
          x = <<i, k>> /\ args[x] = ParamArgs(f)[i][k]
  BY <1>1
<1>3. PICK k \in DOMAIN ParamArgs(f)[i] : x = <<i, k>> /\ args[x] = ParamArgs(f)[i][k]
  BY <1>2
<1>4. PICK j \in DOMAIN f.params : \E l \in DOMAIN ParamArgs(f)[j] :
          y = <<j, l>> /\ args[y] = ParamArgs(f)[j][l]
  BY <1>1
<1>5. PICK l \in DOMAIN ParamArgs(f)[j] : y = <<j, l>> /\ args[y] = ParamArgs(f)[j][l]
  BY <1>4
<1>6. PICK id : id = ParamArgs(f)[i][k].id /\ id = ParamArgs(f)[j][l].id
  BY <1>3, <1>5
<1> HIDE DEF args
<1>7. \/ id \in SeenFlags(f, i)
      \/ SeenFlags(f, i) = {} /\ id = f.params[i].name
  <2>1. \/ ParamArgs(f)[i][k].id \in SeenFlags(f, i)
        \/ SeenFlags(f, i) = {} /\ ParamArgs(f)[i][k].id = f.params[i].name
    BY SeenOrNamed
  <2>2. QED
    BY <1>6, <2>1
<1>8. \/ id \in SeenFlags(f, j)
      \/ SeenFlags(f, j) = {} /\ id = f.params[j].name
  BY <1>6, SeenOrNamed
<1>9. ParamArgs(f)[i] # <<>> /\ ParamArgs(f)[j] # <<>>
  OBVIOUS
<1>10. i = j
  <2>1. CASE id \in SeenFlags(f, i) /\ id \in SeenFlags(f, j)
    <3>1. i \in Nat /\ j \in Nat /\ 1 <= i /\ 1 <= j
      BY DEF Sound
    <3>2. ~(i \in 1..(j - 1)) /\ ~(j \in 1..(i - 1))
      BY <2>1, NothingCollides DEF Collides
    <3>3. QED
      BY <3>1, <3>2
  <2>2. CASE id \in SeenFlags(f, i) /\ SeenFlags(f, j) = {} /\ id = f.params[j].name
    BY <1>9, <2>2 DEF Shadowed
  <2>3. CASE id \in SeenFlags(f, j) /\ SeenFlags(f, i) = {} /\ id = f.params[i].name
    BY <1>9, <2>3 DEF Shadowed
  <2>4. CASE id = f.params[i].name /\ id = f.params[j].name
    BY <2>4 DEF Sound
  <2>5. QED
    BY <1>7, <1>8, <2>1, <2>2, <2>3, <2>4
<1>11. k = l
  <2>1. l \in DOMAIN ParamArgs(f)[i] /\ ParamArgs(f)[i][k].id = ParamArgs(f)[i][l].id
    BY <1>6, <1>10
  <2>2. QED
    BY <2>1, SeenOrNamed
<1>12. QED
  BY <1>3, <1>5, <1>10, <1>11

(***************************************************************************)
(* Where the ids differ, clap accepts each argument for itself.            *)
(***************************************************************************)

FitsAlone(a, g) ==
    /\ g = [as |-> StoredAs(a.ty), values |-> g.values]
    /\ g.values \in Seq(Tokens(a.ty))
    /\ a.required => g.values # <<>>
    /\ ~a.many => Len(g.values) <= 1

InOrderEach(cmd, given) ==
    \A x, y \in DOMAIN cmd.args :
        (/\ x[1] < y[1] /\ cmd.args[x].form = "positional" /\ cmd.args[y].form = "positional"
         /\ given[cmd.args[y].id].values # <<>>)
        => given[cmd.args[x].id].values # <<>>

AcceptsEach(cmd, given) ==
    /\ given = [id \in Ids(cmd) |-> given[id]]
    /\ \A x \in DOMAIN cmd.args : FitsAlone(cmd.args[x], given[cmd.args[x].id])
    /\ InOrderEach(cmd, given)

LEMMA FitsOne ==
    ASSUME NEW a, NEW g
    PROVE  Fits({a}, g) <=> FitsAlone(a, g)
<1>1. Filed({a}, StoredAs(a.ty)) = Tokens(a.ty)
  BY DEF Filed
<1>2. QED
  BY <1>1 DEF Fits, FitsAlone

LEMMA SharingOne ==
    ASSUME NEW cmd, Distinct(cmd), NEW x \in DOMAIN cmd.args
    PROVE  Sharing(cmd, cmd.args[x].id) = {cmd.args[x]}
BY DEF Sharing, Range, Distinct

LEMMA AcceptsIs ==
    ASSUME NEW cmd, NEW given, Distinct(cmd)
    PROVE  Accepts(cmd, given) <=> AcceptsEach(cmd, given)
<1>1. \A id \in Ids(cmd) : \E x \in DOMAIN cmd.args : id = cmd.args[x].id
  BY DEF Ids
<1>2. \A x \in DOMAIN cmd.args : cmd.args[x].id \in Ids(cmd)
  BY DEF Ids
<1>3. (\A id \in Ids(cmd) : Fits(Sharing(cmd, id), given[id]))
         <=> \A x \in DOMAIN cmd.args : FitsAlone(cmd.args[x], given[cmd.args[x].id])
  <2>1. \A x \in DOMAIN cmd.args :
            Fits(Sharing(cmd, cmd.args[x].id), given[cmd.args[x].id])
              <=> FitsAlone(cmd.args[x], given[cmd.args[x].id])
    BY SharingOne, FitsOne
  <2>2. QED
    BY <1>1, <1>2, <2>1
<1>4. InOrder(cmd, given) <=> InOrderEach(cmd, given)
  <2>1. \A y \in DOMAIN cmd.args :
            (\A a \in Sharing(cmd, cmd.args[y].id) : a.form = "positional")
              <=> cmd.args[y].form = "positional"
    BY SharingOne
  <2>2. QED
    BY <2>1 DEF InOrder, InOrderEach
<1>5. QED
  BY <1>3, <1>4 DEF Accepts, AcceptsEach

LEMMA VouchedFor ==
    ASSUME NEW f, NEW given, AcceptsEach(BuildFuncCommand(f), given),
           NEW i \in DOMAIN f.params, NEW k \in DOMAIN ParamArgs(f)[i]
    PROVE  LET a == ParamArgs(f)[i][k] IN
           a.id \in DOMAIN given /\ FitsAlone(a, given[a.id]) /\ ~Panics(given, a.id, a.ty)
<1> DEFINE cmd == BuildFuncCommand(f)
           a == ParamArgs(f)[i][k]
           x == <<i, k>>
<1>1. x \in Places(f)
  BY DEF Places
<1>2. DOMAIN cmd.args = Places(f) /\ cmd.args[x] = a
  BY <1>1 DEF BuildFuncCommand
<1> HIDE DEF cmd, a, x
<1>3. a.id \in DOMAIN given /\ FitsAlone(a, given[a.id])
  BY <1>1, <1>2 DEF AcceptsEach, Ids, cmd
<1>4. ~Panics(given, a.id, a.ty)
  BY <1>3 DEF Panics, FitsAlone
<1>5. QED
  BY <1>3, <1>4 DEF a

LEMMA ArgsAnswer ==
    ASSUME NEW f, NEW given
    PROVE  CollectArgs(given, f).is \in Answer \union {"panic"}
<1> DEFINE rs == [i \in DOMAIN f.params |->
                     CollectOne(given, f.params[i], MultiRecordToCollect(f))]
<1>1. \A i \in DOMAIN rs : rs[i].is \in Answer \union {"panic"}
  BY OneAnswers
<1>2. CollectArgs(given, f) = Sequence(rs)
  BY DEF CollectArgs
<1> HIDE DEF rs
<1>3. QED
  BY <1>1, <1>2, SequenceFails DEF Answer

\* Building and collecting agree on every argument of every function.
LEMMA CollectsWhatIsBuilt ==
    ASSUME NEW f, NEW given, BuildError(f) = "ok", AcceptsEach(BuildFuncCommand(f), given)
    PROVE  CollectArgs(given, f).is # "panic"
<1> SUFFICES ASSUME CollectArgs(given, f).is = "panic" PROVE FALSE
  OBVIOUS
<1> DEFINE rs == [i \in DOMAIN f.params |->
                     CollectOne(given, f.params[i], MultiRecordToCollect(f))]
<1>1. Sequence(rs).is = "panic"
  BY DEF CollectArgs
<1>2. PICK i \in DOMAIN rs : rs[i].is = "panic"
  <2> HIDE DEF rs
  <2> QED
    BY <1>1, SequenceFails
<1>3. i \in DOMAIN f.params
  BY <1>2
<1>4. CollectOne(given, f.params[i], MultiRecord(f)).is = "panic"
  BY <1>2 DEF MultiRecord, MultiRecordToCollect
<1>5. ~Unsupported(f.params[i].ty)
  BY <1>3, NothingUnsupported
<1> DEFINE args == AddParamArgs(f.params[i], MultiRecord(f), i = Len(f.params))
<1>6. PICK k \in DOMAIN args : Panics(given, args[k].id, args[k].ty)
  BY <1>4, <1>5, OneReadsItsArgs
<1>7. args = ParamArgs(f)[i]
  BY <1>3, ArgsOf
<1> HIDE DEF args
<1>8. QED
  BY <1>3, <1>6, <1>7, VouchedFor

(***************************************************************************)
(* What a command line can spell out is collected without an error.        *)
(***************************************************************************)

LEMMA ElementOk ==
    ASSUME NEW ty, NEW v, Scalar(ty)
    PROVE  Element(ty, v).is = "ok"
<1>1. CASE ty.kind \in {"int", "f64"}
  BY <1>1 DEF Element, Good
<1>2. CASE ty.kind \in {"string", "enum"}
  <2>1. Element(ty, v) = PrimitiveFromStr(ty, v)
    BY <1>2 DEF Element
  <2>2. PrimitiveFromStr(ty, v).is = "ok"
    BY <1>2 DEF PrimitiveFromStr, Good
  <2>3. QED
    BY <2>1, <2>2
<1>3. QED
  BY <1>1, <1>2 DEF Scalar

LEMMA ManyOk ==
    ASSUME NEW given, NEW id, NEW ty, Scalar(ty), ~Panics(given, id, ty)
    PROVE  CollectTypedMany(given, id, ty).is = "ok"
<1> DEFINE rs == [i \in DOMAIN given[id].values |-> Element(ty, given[id].values[i])]
<1>1. \A i \in DOMAIN rs : rs[i].is = "ok"
  BY ElementOk
<1>2. CollectTypedMany(given, id, ty) = Made("list", "", Sequence(rs))
  BY DEF CollectTypedMany
<1> HIDE DEF rs
<1>3. Made("list", "", Sequence(rs)).is \in {"ok"}
  BY <1>1, MadeSequence
<1>4. QED
  BY <1>2, <1>3

LEMMA TypedOk ==
    ASSUME NEW given, NEW id, NEW ty, Plain(ty), ~Panics(given, id, Held(ty)),
           ty.kind # "list" => given[id].values # <<>>
    PROVE  CollectTyped(given, id, ty).is = "ok"
<1>1. CASE ty.kind = "list"
  <2>1. CollectTyped(given, id, ty) = CollectTypedMany(given, id, ty.of[1])
    BY <1>1 DEF CollectTyped
  <2>2. Scalar(ty.of[1]) /\ ~Panics(given, id, ty.of[1])
    BY <1>1 DEF Plain, Held, Scalar
  <2>3. QED
    BY <2>1, <2>2, ManyOk
<1>2. CASE ty.kind # "list"
  <2>1. Scalar(ty) /\ ~Panics(given, id, ty)
    BY <1>2 DEF Plain, Held
  <2>2. ty.kind \in {"int", "f64", "string", "enum"}
    BY <2>1 DEF Scalar
  <2>3. CollectTyped(given, id, ty) = Element(ty, given[id].values[1])
    BY <1>2, <2>1, <2>2 DEF CollectTyped
  <2>4. QED
    BY <2>1, <2>3, ElementOk
<1>3. QED
  BY <1>1, <1>2

LEMMA SingleOk ==
    ASSUME NEW given, NEW id, NEW ty, Scalar(ty), ~Panics(given, id, ty), given[id].values # <<>>
    PROVE  CollectSingle(given, id, ty).is = "ok"
<1>1. CollectSingle(given, id, ty) = Element(ty, given[id].values[1])
  BY DEF CollectSingle, Scalar
<1>2. QED
  BY <1>1, ElementOk

LEMMA OptionFieldOk ==
    ASSUME NEW given, NEW flag, NEW ty, ~Panics(given, flag, Held(Effective(ty))),
           Plain(ty) \/ (ty.kind = "option" /\ Scalar(ty.of[1])),
           ty.kind \notin {"option", "list"} => ContainsId(given, flag)
    PROVE  CollectOptionField(given, flag, ty).is = "ok"
<1>1. CASE ty.kind # "option"
  <2>1. CollectOptionField(given, flag, ty) = CollectTyped(given, flag, ty)
    BY <1>1 DEF CollectOptionField
  <2>2. Effective(ty) = ty
    BY <1>1 DEF Effective
  <2>3. Plain(ty) /\ ~Panics(given, flag, Held(ty))
    BY <1>1, <2>2
  <2>4. ty.kind # "list" => given[flag].values # <<>>
    BY <1>1 DEF ContainsId
  <2>5. QED
    BY <2>1, <2>3, <2>4, TypedOk
<1>2. CASE ty.kind = "option" /\ ~ContainsId(given, flag)
  <2>1. flag \in DOMAIN given
    BY DEF Panics
  <2>2. QED
    BY <1>2, <2>1 DEF CollectOptionField, Good
<1>3. CASE ty.kind = "option" /\ ContainsId(given, flag)
  <2>1. flag \in DOMAIN given
    BY DEF Panics
  <2> DEFINE one == CollectTyped(given, flag, ty.of[1])
  <2>2. CollectOptionField(given, flag, ty) = Made("option", "", Sequence(<<one>>))
    BY <1>3, <2>1 DEF CollectOptionField
  <2>3. Scalar(ty.of[1]) /\ Effective(ty) = ty.of[1]
    BY <1>3 DEF Plain, Scalar, Effective
  <2>4. one.is = "ok"
    <3>1. Plain(ty.of[1]) /\ ~Panics(given, flag, Held(ty.of[1]))
      BY <2>3 DEF Plain
    <3>2. given[flag].values # <<>>
      BY <1>3 DEF ContainsId
    <3>3. QED
      BY <3>1, <3>2, TypedOk
  <2>5. Made("option", "", Sequence(<<one>>)).is \in {"ok", one.is}
    BY MadeOfOne
  <2> HIDE DEF one
  <2>6. QED
    BY <2>2, <2>4, <2>5
<1>4. QED
  BY <1>1, <1>2, <1>3

\* One parameter of an accepted command line.
LEMMA OneOk ==
    ASSUME NEW f, NEW given, AcceptsEach(BuildFuncCommand(f), given),
           NEW i \in DOMAIN f.params, Spelled(f.params[i].ty), f.params[i].ty.kind # "variant",
           ~LeftOut(given, f.params[i])
    PROVE  CollectOne(given, f.params[i], MultiRecord(f)).is = "ok"
<1> DEFINE p == f.params[i]
           multi == MultiRecord(f)
           args == AddParamArgs(p, multi, i = Len(f.params))
<1>1. \A k \in DOMAIN args :
          FitsAlone(args[k], given[args[k].id]) /\ ~Panics(given, args[k].id, args[k].ty)
  <2>1. args = ParamArgs(f)[i]
    BY ArgsOf
  <2> HIDE DEF args
  <2>2. QED
    BY <2>1, VouchedFor
<1>2. CASE p.ty.kind = "option" /\ p.ty.of[1].kind = "record"
  <2> DEFINE inner == p.ty.of[1]
             fields == OptionFields(given, p)
  <2>1. args = [k \in DOMAIN inner.of |->
                   FieldArg(Prefixed(p, inner.names[k]), Effective(inner.of[k]), FALSE)]
    BY <1>2 DEF AddParamArgs, Single
  <2>2. ASSUME NEW k \in DOMAIN inner.of, Supplied(given, p)
        PROVE  CollectOptionField(given, Prefixed(p, inner.names[k]), inner.of[k]).is = "ok"
    <3> DEFINE flag == Prefixed(p, inner.names[k])
               ty == inner.of[k]
               a == FieldArg(flag, Effective(ty), FALSE)
    <3>1. k \in DOMAIN args /\ args[k] = a
      BY <2>1
    <3>2. a.id = flag /\ a.ty = Held(Effective(ty))
      BY FieldArgIs
    <3>3. ~Panics(given, a.id, a.ty)
      <4> HIDE DEF a, args
      <4> QED
        BY <1>1, <3>1
    <3>4. Plain(ty) \/ (ty.kind = "option" /\ Scalar(ty.of[1]))
      BY <1>2 DEF Spelled
    <3>5. ty.kind \notin {"option", "list"} => ContainsId(given, flag)
      BY <1>2, <2>2 DEF LeftOut
    <3> HIDE DEF flag, ty, a
    <3>6. ~Panics(given, flag, Held(Effective(ty)))
      BY <3>2, <3>3
    <3>7. CollectOptionField(given, flag, ty).is = "ok"
      BY <3>4, <3>5, <3>6, OptionFieldOk
    <3>8. QED
      BY <3>7 DEF flag, ty
  <2>3. Supplied(given, p) => Sequence(fields).is = "ok"
    <3>1. Supplied(given, p) => \A k \in DOMAIN fields : fields[k].is = "ok"
      BY <2>2 DEF OptionFields
    <3> HIDE DEF fields
    <3>2. QED
      BY <3>1, SequenceFails
  <2>4. \A k \in DOMAIN inner.of : Prefixed(p, inner.names[k]) \in DOMAIN given
    <3> SUFFICES ASSUME NEW k \in DOMAIN inner.of PROVE Prefixed(p, inner.names[k]) \in DOMAIN given
      OBVIOUS
    <3> DEFINE a == FieldArg(Prefixed(p, inner.names[k]), Effective(inner.of[k]), FALSE)
    <3>1. k \in DOMAIN args /\ args[k] = a
      BY <2>1
    <3>2. a.id = Prefixed(p, inner.names[k])
      BY FieldArgIs
    <3> HIDE DEF a, args
    <3>3. QED
      BY <1>1, <3>1, <3>2 DEF Panics
  <2>5. CollectOption(given, p).is = "ok"
    BY <1>2, <2>3, <2>4, OptionRecordIs
  <2>6. CollectOne(given, p, multi) = CollectOption(given, p)
    BY <1>2, OneOfKind
  <2>7. QED
    BY <2>5, <2>6
<1>3. CASE p.ty.kind = "option" /\ p.ty.of[1].kind # "record"
  <2>1. Scalar(p.ty.of[1])
    BY <1>3 DEF Spelled
  <2>2. args = <<Arg(p.name, "positional", FALSE, FALSE, p.ty.of[1])>>
    BY <1>3, <2>1 DEF AddParamArgs, Single, Scalar
  <2>3. 1 \in DOMAIN args /\ args[1].id = p.name /\ args[1].ty = p.ty.of[1]
    BY <2>2 DEF Arg
  <2>4. ~Panics(given, p.name, p.ty.of[1])
    BY <1>1, <2>3
  <2>5. ContainsId(given, p.name) => CollectSingle(given, p.name, p.ty.of[1]).is = "ok"
    BY <2>1, <2>4, SingleOk DEF ContainsId
  <2>6. CollectOption(given, p).is = "ok"
    BY <1>3, <2>4, <2>5, OptionSingleIs DEF Panics
  <2>7. CollectOne(given, p, multi) = CollectOption(given, p)
    BY <1>3, OneOfKind
  <2>8. QED
    BY <2>6, <2>7
<1>4. CASE p.ty.kind = "record"
  <2> DEFINE fields == Fields(given, p, multi)
  <2>1. args = [k \in DOMAIN p.ty.of |->
                   FieldArg(FieldFlag(p, p.ty.names[k], multi), p.ty.of[k], TRUE)]
    BY <1>4 DEF AddParamArgs, Single
  <2>2. ASSUME NEW k \in DOMAIN p.ty.of
        PROVE  CollectTyped(given, FieldFlag(p, p.ty.names[k], multi), p.ty.of[k]).is = "ok"
    <3> DEFINE flag == FieldFlag(p, p.ty.names[k], multi)
               ty == p.ty.of[k]
               a == FieldArg(flag, ty, TRUE)
    <3>1. k \in DOMAIN args /\ args[k] = a
      BY <2>1
    <3>2. a.id = flag /\ a.ty = Held(ty)
      BY FieldArgIs
    <3>3. FitsAlone(a, given[a.id]) /\ ~Panics(given, a.id, a.ty)
      <4> HIDE DEF a, args
      <4> QED
        BY <1>1, <3>1
    <3>4. ty.kind # "list" => a.required
      BY DEF FieldArg, Arg
    <3>5. Plain(ty)
      BY <1>4 DEF Spelled
    <3> HIDE DEF flag, ty, a
    <3>6. ty.kind # "list" => given[flag].values # <<>>
      BY <3>2, <3>3, <3>4 DEF FitsAlone
    <3>7. CollectTyped(given, flag, ty).is = "ok"
      BY <3>2, <3>3, <3>5, <3>6, TypedOk
    <3>8. QED
      BY <3>7 DEF flag, ty
  <2>3. \A k \in DOMAIN fields : fields[k].is = "ok"
    BY <2>2 DEF Fields
  <2>4. Sequence(fields).is = "ok"
    <3> HIDE DEF fields
    <3> QED
      BY <2>3, SequenceFails
  <2>5. QED
    BY <1>4, <2>4, RecordIs
<1>5. CASE p.ty.kind = "list"
  <2>1. Scalar(p.ty.of[1])
    BY <1>5 DEF Spelled, Plain, Scalar
  <2>2. args = <<Arg(p.name, IF i = Len(f.params) THEN "positional" ELSE "flag",
                     FALSE, TRUE, p.ty.of[1])>>
    BY <1>5 DEF AddParamArgs, Single
  <2>3. 1 \in DOMAIN args /\ args[1].id = p.name /\ args[1].ty = p.ty.of[1]
    BY <2>2 DEF Arg
  <2>4. CollectOne(given, p, multi) = CollectTypedMany(given, p.name, p.ty.of[1])
    BY <1>5, OneOfKind
  <2>5. QED
    BY <1>1, <2>1, <2>3, <2>4, ManyOk
<1>6. CASE p.ty.kind \notin {"option", "record", "list"}
  <2>1. Scalar(p.ty)
    BY <1>6 DEF Spelled, Plain
  <2>2. p.ty.kind \in Single
    BY <2>1 DEF Scalar, Single
  <2>3. args = <<Arg(p.name, "positional", TRUE, FALSE, p.ty)>>
    BY <1>6, <2>2 DEF AddParamArgs, Single
  <2>4. 1 \in DOMAIN args /\ args[1].id = p.name /\ args[1].ty = p.ty /\ args[1].required
    BY <2>3 DEF Arg
  <2>5. ~Panics(given, p.name, p.ty) /\ given[p.name].values # <<>>
    <3> HIDE DEF args
    <3> QED
      BY <1>1, <2>4 DEF FitsAlone
  <2>6. CollectOne(given, p, multi) = CollectSingle(given, p.name, p.ty)
    BY <2>2, OneOfKind
  <2>7. QED
    BY <2>1, <2>5, <2>6, SingleOk
<1>7. QED
  BY <1>2, <1>3, <1>4, <1>5, <1>6

LEMMA ParsedIs ==
    ASSUME NEW c
    PROVE  ParseInvocation(c).is \in Answer \union {"panic", "UnknownFunc"}
<1>1. CASE Dispatched(c).func = 0
  BY <1>1 DEF ParseInvocation, Bad
<1>2. CASE Dispatched(c).func # 0
  BY <1>2, ArgsAnswer DEF ParseInvocation
<1>3. QED
  BY <1>1, <1>2

(***************************************************************************)
(* The inductive invariant: every stage keeps what the earlier ones made,  *)
(* and a list from which things are dropped keeps their places.            *)
(***************************************************************************)

Staged ==
    /\ stage \in {"extract", "build", "match", "parse", "invoke", "refused"}
    /\ component \in Component
    /\ stage = "extract" => surface = <<>>
    /\ stage # "extract" => surface = Surface(component)
    /\ stage \in {"extract", "build", "refused"} => root = <<>>
    /\ stage \in {"match", "parse", "invoke"} => root = Tree(surface)

CallIsAccepted ==
    stage \in {"parse", "invoke"} =>
        /\ call.group \in DOMAIN root
        /\ call.cmd \in DOMAIN root[call.group].cmds
        /\ result.is # "assertion" => Accepts(root[call.group].cmds[call.cmd], call.given)
        /\ result.is = "assertion" => Asserted(root, root[call.group].cmds[call.cmd])

ResultIsParsed ==
    /\ stage \in {"extract", "build", "match", "parse"} => result = Bad("none")
    /\ stage = "refused" => result.is \in {"NoInvocableFunctions", "FlagCollision"}
    /\ stage = "invoke" => result \in {Bad("assertion"), ParseInvocation(call)}

IInv == Staged /\ CallIsAccepted /\ ResultIsParsed

LEMMA InitInvariant == Init => IInv
BY DEF Init, IInv, Staged, CallIsAccepted, ResultIsParsed

LEMMA NextInvariant ==
    ASSUME IInv, [Next]_vars
    PROVE  IInv'
<1> USE DEF IInv
<1>1. CASE Extract
  <2>1. /\ stage = "extract" /\ surface' = Surface(component) /\ component' = component
        /\ root' = root /\ root = <<>>
    BY <1>1 DEF Extract, Refuse, Staged
  <2>2. \/ stage' = "refused" /\ result' = Bad("NoInvocableFunctions")
        \/ stage' = "build" /\ result' = result
    BY <1>1 DEF Extract, Refuse
  <2>3. Staged'
    BY <2>1, <2>2 DEF Staged
  <2>4. CallIsAccepted'
    BY <2>2 DEF CallIsAccepted
  <2>5. ResultIsParsed'
    BY <2>1, <2>2 DEF ResultIsParsed, Bad
  <2>6. QED
    BY <2>3, <2>4, <2>5
<1>2. CASE Build
  <2>1. stage = "build" /\ surface' = surface /\ component' = component
    BY <1>2 DEF Build, Refuse
  <2>2. \/ stage' = "refused" /\ result' = Bad("FlagCollision") /\ root' = root
        \/ stage' = "match" /\ result' = result /\ root' = Tree(surface)
    BY <1>2 DEF Build, Refuse
  <2>3. Staged'
    BY <2>1, <2>2 DEF Staged
  <2>4. CallIsAccepted'
    BY <2>2 DEF CallIsAccepted
  <2>5. ResultIsParsed'
    BY <2>1, <2>2 DEF ResultIsParsed, Bad
  <2>6. QED
    BY <2>3, <2>4, <2>5
<1>3. CASE Match
  <2>1. /\ stage = "match" /\ stage' = "parse"
        /\ component' = component /\ surface' = surface /\ root' = root /\ result' = result
    BY <1>3 DEF Match
  <2>2. PICK g \in DOMAIN root : \E c \in DOMAIN root[g].cmds :
            \E given \in Matches(root[g].cmds[c]) : call' = [group |-> g, cmd |-> c, given |-> given]
    BY <1>3 DEF Match
  <2>3. PICK c \in DOMAIN root[g].cmds :
            \E given \in Matches(root[g].cmds[c]) : call' = [group |-> g, cmd |-> c, given |-> given]
    BY <2>2
  <2>4. PICK given \in Matches(root[g].cmds[c]) : call' = [group |-> g, cmd |-> c, given |-> given]
    BY <2>3
  <2>5. call'.group = g /\ call'.cmd = c /\ call'.given = given
    BY <2>4
  <2>6. Accepts(root[g].cmds[c], given)
    BY <2>4 DEF Matches
  <2>7. Staged'
    BY <2>1 DEF Staged
  <2>8. ResultIsParsed' /\ result'.is # "assertion"
    BY <2>1 DEF ResultIsParsed, Bad
  <2>9. CallIsAccepted'
    BY <2>1, <2>2, <2>3, <2>5, <2>6, <2>8 DEF CallIsAccepted
  <2>10. QED
    BY <2>7, <2>8, <2>9
<1>4. CASE AssertFails
  <2>1. /\ stage = "match" /\ stage' = "invoke" /\ result' = Bad("assertion")
        /\ component' = component /\ surface' = surface /\ root' = root
    BY <1>4 DEF AssertFails
  <2>2. PICK g \in DOMAIN root : \E c \in DOMAIN root[g].cmds :
            Asserted(root, root[g].cmds[c]) /\ call' = [group |-> g, cmd |-> c, given |-> <<>>]
    BY <1>4 DEF AssertFails
  <2>3. PICK c \in DOMAIN root[g].cmds :
            Asserted(root, root[g].cmds[c]) /\ call' = [group |-> g, cmd |-> c, given |-> <<>>]
    BY <2>2
  <2>4. call'.group = g /\ call'.cmd = c /\ result'.is = "assertion"
    BY <2>1, <2>3 DEF Bad
  <2>5. Staged'
    BY <2>1 DEF Staged
  <2>6. CallIsAccepted'
    BY <2>1, <2>2, <2>3, <2>4 DEF CallIsAccepted
  <2>7. ResultIsParsed'
    BY <2>1 DEF ResultIsParsed
  <2>8. QED
    BY <2>5, <2>6, <2>7
<1>5. CASE Parse
  <2>1. /\ stage = "parse" /\ stage' = "invoke" /\ result' = ParseInvocation(call)
        /\ component' = component /\ surface' = surface /\ root' = root /\ call' = call
    BY <1>5 DEF Parse
  <2>2. Staged'
    BY <2>1 DEF Staged
  <2>3. result.is # "assertion" /\ result'.is # "assertion"
    BY <2>1, ParsedIs DEF ResultIsParsed, Bad, Answer
  <2>4. CallIsAccepted'
    BY <2>1, <2>3 DEF CallIsAccepted
  <2>5. ParseInvocation(call)' = ParseInvocation(call)
    BY <2>1 DEF ParseInvocation, Dispatched
  <2>6. ResultIsParsed'
    BY <2>1, <2>5 DEF ResultIsParsed
  <2>7. QED
    BY <2>2, <2>4, <2>6
<1>6. CASE UNCHANGED vars
  <2>1. ParseInvocation(call)' = ParseInvocation(call)
    BY <1>6 DEF vars, ParseInvocation, Dispatched
  <2>2. QED
    BY <1>6, <2>1 DEF vars, Staged, CallIsAccepted, ResultIsParsed
<1>7. QED
  BY <1>1, <1>2, <1>3, <1>4, <1>5, <1>6 DEF Next

LEMMA Invariant == Spec => []IInv
<1>1. Init => IInv
  BY InitInvariant
<1>2. IInv /\ [Next]_vars => IInv'
  BY NextInvariant
<1>3. QED
  BY <1>1, <1>2, PTL DEF Spec

LEMMA SurfaceKeeps ==
    ASSUME NEW exports, NEW i \in DOMAIN Surface(exports)
    PROVE  LET item == Surface(exports)[i] IN
           /\ i \in DOMAIN exports
           /\ item.name = exports[i].name
           /\ item.funcs = Extracted(exports[i].funcs)
           /\ DOMAIN item.funcs # {}
           /\ ~Bootstrap(item)
BY DEF Surface, Items, Bootstrap

LEMMA TreeKeeps ==
    ASSUME NEW items, NEW i \in DOMAIN Tree(items)
    PROVE  /\ i \in DOMAIN items
           /\ Tree(items)[i].name = items[i].name
           /\ Tree(items)[i].cmds = Commands(items[i].funcs)
           /\ DOMAIN Tree(items)[i].cmds # {}
BY DEF Tree

LEMMA CommandsKeep ==
    ASSUME NEW funcs, NEW j \in DOMAIN Commands(funcs)
    PROVE  /\ j \in DOMAIN funcs
           /\ BuildError(funcs[j]) = "ok"
           /\ Commands(funcs)[j] = BuildFuncCommand(funcs[j])
BY DEF Commands

(***************************************************************************)
(* Type correctness.                                                       *)
(***************************************************************************)

\* The stages follow each other, and what each makes has its form: no item without
\* functions, no bootstrap interface, no subcommand without functions (TypeOK).
THEOREM TypeCorrect == Spec => []TypeOK
<1>1. IInv => TypeOK
  <2> SUFFICES ASSUME IInv PROVE TypeOK
    OBVIOUS
  <2>1. stage \in {"extract", "build", "match", "parse", "invoke", "refused"} /\ component \in Component
    BY DEF IInv, Staged
  <2>2. \A i \in DOMAIN surface : DOMAIN surface[i].funcs # {} /\ ~Bootstrap(surface[i])
    <3>1. CASE stage = "extract"
      BY <3>1 DEF IInv, Staged
    <3>2. CASE stage # "extract"
      BY <3>2, SurfaceKeeps DEF IInv, Staged
    <3>3. QED
      BY <3>1, <3>2
  <2>3. \A i \in DOMAIN root : i \in DOMAIN surface /\ DOMAIN root[i].cmds # {}
    <3>1. CASE stage \in {"extract", "build", "refused"}
      BY <3>1 DEF IInv, Staged
    <3>2. CASE stage \in {"match", "parse", "invoke"}
      BY <3>2, TreeKeeps DEF IInv, Staged
    <3>3. QED
      BY <2>1, <3>1, <3>2
  <2>4. CASE stage = "invoke"
    <3>1. result.is \in Answer \union {"panic", "UnknownFunc", "assertion"}
      BY <2>4, ParsedIs DEF IInv, ResultIsParsed, Bad
    <3>2. QED
      BY <2>1, <2>2, <2>3, <2>4, <3>1 DEF TypeOK, Answer
  <2>5. CASE stage = "refused"
    BY <2>1, <2>2, <2>3, <2>5 DEF IInv, ResultIsParsed, TypeOK
  <2>6. CASE stage \in {"extract", "build", "match", "parse"}
    BY <2>1, <2>2, <2>3, <2>6 DEF IInv, ResultIsParsed, Bad, TypeOK
  <2>7. QED
    BY <2>1, <2>4, <2>5, <2>6
<1>2. QED
  BY <1>1, Invariant, PTL

(***************************************************************************)
(* What is dispatched.                                                     *)
(***************************************************************************)

LEMMA NamedIs ==
    ASSUME NEW list, NEW i \in DOMAIN list, i \in Nat,
           \A j \in DOMAIN list : list[j].name = list[i].name => j = i
    PROVE  Named(list, list[i].name) = i
<1> DEFINE first == {j \in DOMAIN list : list[j].name = list[i].name /\ FirstNamed(list, j)}
<1>1. first = {i}
  BY DEF FirstNamed
<1>2. Named(list, list[i].name) = IF first = {} THEN 0 ELSE CHOOSE j \in first : TRUE
  BY DEF Named
<1> HIDE DEF first
<1>3. QED
  BY <1>1, <1>2

\* The function found is the one at the place of the subcommand.
LEMMA DispatchedIs ==
    ASSUME IInv, Invoked
    PROVE  LET f == surface[call.group].funcs[call.cmd] IN
           /\ Dispatched(call) = [item |-> call.group, func |-> call.cmd]
           /\ call.cmd # 0
           /\ surface[call.group].name = root[call.group].name
           /\ BuildError(f) = "ok" /\ Sound(f)
           /\ Chosen(f)
           /\ result.is # "assertion" => Accepts(BuildFuncCommand(f), call.given)
           /\ result.is = "assertion" => Asserted(root, BuildFuncCommand(f))
<1> DEFINE g == call.group
           c == call.cmd
           funcs == surface[g].funcs
<1>1. /\ surface = Surface(component) /\ root = Tree(surface) /\ component \in Component
      /\ g \in DOMAIN root /\ c \in DOMAIN root[g].cmds
      /\ result.is # "assertion" => Accepts(root[g].cmds[c], call.given)
      /\ result.is = "assertion" => Asserted(root, root[g].cmds[c])
  BY DEF IInv, Staged, CallIsAccepted, Invoked
<1>2. g \in DOMAIN surface /\ root[g].name = surface[g].name /\ root[g].cmds = Commands(funcs)
  BY <1>1, TreeKeeps
<1>3. c \in DOMAIN funcs /\ BuildError(funcs[c]) = "ok" /\ root[g].cmds[c] = BuildFuncCommand(funcs[c])
  BY <1>1, <1>2, CommandsKeep
<1>4. g \in DOMAIN component /\ funcs = Extracted(component[g].funcs)
  BY <1>1, <1>2, SurfaceKeeps
<1>5. g \in Nat /\ DOMAIN component[g].funcs = 1..Len(component[g].funcs)
  BY <1>1, <1>4, ComponentAssumption
<1>6. /\ DOMAIN funcs \subseteq DOMAIN component[g].funcs
      /\ \A j \in DOMAIN funcs : funcs[j] = component[g].funcs[j]
  BY <1>4 DEF Extracted, Restrict
<1>7. c \in Nat /\ c # 0
  BY <1>3, <1>5, <1>6
<1>8. \A j \in DOMAIN funcs : funcs[j].name = funcs[c].name => j = c
  BY <1>1, <1>3, <1>4, <1>6, ComponentAssumption
<1>9. \A i \in DOMAIN surface : surface[i].name = surface[g].name => i = g
  BY <1>2 DEF Invoked
<1>10. Named(surface, root[g].name) = g
  BY <1>2, <1>5, <1>9, NamedIs
<1>11. root[g].cmds[c].name = funcs[c].name
  <2>1. BuildFuncCommand(funcs[c]).name = funcs[c].name
    BY DEF BuildFuncCommand
  <2>2. QED
    BY <1>3, <2>1
<1>12. Named(funcs, root[g].cmds[c].name) = c
  <2> HIDE DEF funcs
  <2> QED
    BY <1>3, <1>7, <1>8, <1>11, NamedIs
<1>13. Dispatched(call) = [item |-> g, func |-> c]
  BY <1>10, <1>12 DEF Dispatched
<1>14. Sound(funcs[c])
  <2>1. /\ c \in DOMAIN component[g].funcs /\ funcs[c] = component[g].funcs[c]
    BY <1>3, <1>6
  <2>2. QED
    BY <1>1, <1>4, <2>1, FunctionIs
<1>15. QED
  BY <1>1, <1>2, <1>3, <1>7, <1>13, <1>14 DEF Chosen

\* What is invoked is the function that the user's subcommand was built from,
\* whatever was dropped before it (InvokesWhatIsOffered).
THEOREM AlwaysInvokesOffered == Spec => []InvokesWhatIsOffered
<1>1. IInv => InvokesWhatIsOffered
  BY DispatchedIs DEF InvokesWhatIsOffered
<1>2. QED
  BY <1>1, Invariant, PTL

LEMMA ParsedAtPlace ==
    ASSUME IInv, Invoked, result.is # "assertion"
    PROVE  result = CollectArgs(call.given, surface[call.group].funcs[call.cmd])
<1>1. Dispatched(call) = [item |-> call.group, func |-> call.cmd] /\ call.cmd # 0
  BY DispatchedIs
<1>2. result = ParseInvocation(call)
  BY DEF IInv, ResultIsParsed, Invoked, Bad
<1>3. QED
  BY <1>1, <1>2 DEF ParseInvocation

\* A positional argument that must be given is that of a plain parameter; one that
\* need not is an option's, or of a list at the end.
LEMMA PositionalIs ==
    ASSUME NEW f, NEW i \in DOMAIN f.params, NEW k \in DOMAIN ParamArgs(f)[i],
           ParamArgs(f)[i][k].form = "positional"
    PROVE  /\ ParamArgs(f)[i][k].required => f.params[i].ty.kind \in Single
           /\ ~ParamArgs(f)[i][k].required => f.params[i].ty.kind = "option" \/ i = Len(f.params)
<1>1. PICK p, ty, multi, last, args :
          /\ p = f.params[i] /\ ty = p.ty /\ multi = MultiRecord(f) /\ last = (i = Len(f.params))
          /\ args = ParamArgs(f)[i]
  OBVIOUS
<1>2. args = AddParamArgs(p, multi, last) /\ k \in DOMAIN args /\ args[k].form = "positional"
  BY <1>1, ArgsOf
<1> SUFFICES /\ args[k].required => ty.kind \in Single
             /\ ~args[k].required => ty.kind = "option" \/ last
  BY <1>1
<1>3. CASE ty.kind = "record"
  <2>1. args = [j \in DOMAIN ty.of |-> FieldArg(FieldFlag(p, ty.names[j], multi), ty.of[j], TRUE)]
    BY <1>1, <1>2, <1>3 DEF AddParamArgs, Single
  <2>2. args[k].form = "flag"
    BY <1>2, <2>1 DEF FieldArg, Arg
  <2>3. QED
    BY <1>2, <2>2
<1>4. CASE ty.kind = "option" /\ ty.of[1].kind = "record"
  <2>1. args = [j \in DOMAIN ty.of[1].of |->
                   FieldArg(Prefixed(p, ty.of[1].names[j]), Effective(ty.of[1].of[j]), FALSE)]
    BY <1>1, <1>2, <1>4 DEF AddParamArgs, Single
  <2>2. args[k].form = "flag"
    BY <1>2, <2>1 DEF FieldArg, Arg
  <2>3. QED
    BY <1>2, <2>2
<1>5. CASE ty.kind = "option" /\ ty.of[1].kind \in Single
  <2>1. args = <<Arg(p.name, "positional", FALSE, FALSE, ty.of[1])>>
    BY <1>1, <1>2, <1>5 DEF AddParamArgs, Single
  <2>2. ~args[k].required
    BY <1>2, <2>1 DEF Arg
  <2>3. QED
    BY <1>5, <2>2
<1>6. CASE ty.kind = "list"
  <2>1. args = <<Arg(p.name, IF last THEN "positional" ELSE "flag", FALSE, TRUE, ty.of[1])>>
    BY <1>1, <1>2, <1>6 DEF AddParamArgs, Single
  <2>2. ~args[k].required /\ (~last => args[k].form = "flag")
    BY <1>2, <2>1 DEF Arg
  <2>3. QED
    BY <1>2, <2>2
<1>7. CASE ty.kind \in Single
  <2>1. args = <<Arg(p.name, "positional", TRUE, FALSE, ty)>>
    BY <1>1, <1>2, <1>7 DEF AddParamArgs, Single
  <2>2. args[k].required
    BY <1>2, <2>1 DEF Arg
  <2>3. QED
    BY <1>7, <2>2
<1>8. CASE /\ ty.kind \notin Single \union {"list", "record"}
           /\ ty.kind = "option" => ty.of[1].kind \notin Single \union {"record"}
  <2>1. args = <<>>
    BY <1>1, <1>2, <1>8 DEF AddParamArgs, Single
  <2>2. QED
    BY <1>2, <2>1
<1>9. QED
  BY <1>3, <1>4, <1>5, <1>6, <1>7, <1>8

\* What a debug build asserts of the command fails only for a function of these.
LEMMA AssertedIs ==
    ASSUME NEW f, Sound(f), BuildError(f) = "ok", NEW cmds, Asserted(cmds, BuildFuncCommand(f))
    PROVE  \/ Shadowed(f) \/ Backwards(f) \/ <<"help">> \in Ids(BuildFuncCommand(f))
           \/ \E i, j \in DOMAIN cmds : i # j /\ cmds[i].name = cmds[j].name
<1> DEFINE args == BuildFuncCommand(f).args
<1>1. ASSUME NEW x \in DOMAIN args, NEW y \in DOMAIN args, x # y, args[x].id = args[y].id
      PROVE  Shadowed(f)
  BY <1>1, IdsApart DEF Distinct
<1>2. ASSUME NEW x \in DOMAIN args
      PROVE  /\ x[1] \in DOMAIN f.params /\ x[2] \in DOMAIN ParamArgs(f)[x[1]]
             /\ args[x] = ParamArgs(f)[x[1]][x[2]]
  BY DEF BuildFuncCommand, Places
<1>3. ASSUME NEW x \in DOMAIN args, NEW y \in DOMAIN args, x[1] < y[1],
             args[x].form = "positional", args[y].form = "positional",
             ~args[x].required, args[y].required
      PROVE  Backwards(f)
  <2>1. PICK i, j : i = x[1] /\ j = y[1]
    OBVIOUS
  <2>2. i \in DOMAIN f.params /\ j \in DOMAIN f.params /\ i < j
    BY <1>2, <1>3, <2>1
  <2>3. f.params[i].ty.kind = "option" \/ i = Len(f.params)
    BY <1>2, <1>3, <2>1, PositionalIs
  <2>4. f.params[j].ty.kind \in Single
    BY <1>2, <1>3, <2>1, PositionalIs
  <2>5. i # Len(f.params)
    <3>1. \A n : j \in 1..n /\ i \in 1..n /\ n \in Int /\ i < j => i # n
      OBVIOUS
    <3>2. CASE Len(f.params) \in Int
      BY <2>2, <3>1, <3>2 DEF Sound
    <3>3. QED
      BY <2>2, <3>2 DEF Sound
  <2>6. QED
    BY <2>2, <2>3, <2>4, <2>5 DEF Backwards
<1>4. QED
  BY <1>1, <1>3 DEF Asserted

\* Collecting never asks clap for an argument that the subcommand does not have, or
\* for a value of another type: the program panics only for a parameter with the
\* name of a flag, and a debug build stops for the reasons named besides
\* (ReadsWhatIsStored).
THEOREM AlwaysReadsStored == Spec => []ReadsWhatIsStored
<1>1. IInv => ReadsWhatIsStored
  <2> SUFFICES ASSUME IInv, Invoked PROVE ReadsWhatIsStored
    BY DEF ReadsWhatIsStored
  <2>1. /\ BuildError(Asked) = "ok" /\ Sound(Asked)
        /\ result.is # "assertion" => Accepts(BuildFuncCommand(Asked), call.given)
        /\ result.is = "assertion" => Asserted(root, BuildFuncCommand(Asked))
    BY DispatchedIs DEF Asked
  <2>2. ASSUME result.is = "panic", ~Shadowed(Asked) PROVE FALSE
    <3>1. Distinct(BuildFuncCommand(Asked))
      BY <2>1, <2>2, IdsApart
    <3>2. AcceptsEach(BuildFuncCommand(Asked), call.given)
      BY <2>1, <2>2, <3>1, AcceptsIs
    <3>3. result = CollectArgs(call.given, Asked)
      BY <2>2, ParsedAtPlace DEF Asked
    <3>4. QED
      BY <2>1, <2>2, <3>2, <3>3, CollectsWhatIsBuilt
  <2>3. ASSUME result.is = "assertion"
        PROVE  \/ Shadowed(Asked) \/ Backwards(Asked) \/ <<"help">> \in Ids(BuildFuncCommand(Asked))
               \/ \E i, j \in DOMAIN surface : i # j /\ surface[i].name = surface[j].name
    <3>1. \A i \in DOMAIN root : i \in DOMAIN surface /\ root[i].name = surface[i].name
      BY TreeKeeps DEF IInv, Staged, Invoked
    <3>2. \/ Shadowed(Asked) \/ Backwards(Asked) \/ <<"help">> \in Ids(BuildFuncCommand(Asked))
          \/ \E i, j \in DOMAIN root : i # j /\ root[i].name = root[j].name
      BY <2>1, <2>3, AssertedIs
    <3>3. QED
      BY <3>1, <3>2
  <2>4. QED
    BY <2>2, <2>3 DEF ReadsWhatIsStored
<1>2. QED
  BY <1>1, Invariant, PTL

\* What clap accepted is invoked, but for an optional record with a field missing,
\* the payload of a variant, and a parameter with the name of a flag
\* (AcceptedIsInvoked).
THEOREM AcceptedAlwaysInvoked == Spec => []AcceptedIsInvoked
<1>1. IInv => AcceptedIsInvoked
  <2> DEFINE f == surface[call.group].funcs[call.cmd]
             rs == [i \in DOMAIN f.params |->
                       CollectOne(call.given, f.params[i], MultiRecordToCollect(f))]
  <2> SUFFICES ASSUME IInv, Invoked, result.is \notin {"ok", "assertion"} PROVE AcceptedIsInvoked
    BY DEF AcceptedIsInvoked
  <2>1. Dispatched(call) = [item |-> call.group, func |-> call.cmd]
    BY DispatchedIs
  <2>2. f = surface[Dispatched(call).item].funcs[Dispatched(call).func]
    BY <2>1
  <2>3. CASE Shadowed(f)
    BY <2>2, <2>3 DEF AcceptedIsInvoked
  <2>4. CASE ~Shadowed(f)
    <3>1. BuildError(f) = "ok" /\ Sound(f) /\ Accepts(BuildFuncCommand(f), call.given)
      BY DispatchedIs
    <3>2. result = CollectArgs(call.given, f)
      BY ParsedAtPlace
    <3>3. Sequence(rs).is # "ok"
      BY <3>2 DEF CollectArgs
    <3>4. PICK i \in DOMAIN rs : rs[i].is # "ok"
      <4> HIDE DEF rs
      <4> QED
        BY <3>3, SequenceFails
    <3>5. i \in DOMAIN f.params
      BY <3>4
    <3>6. CollectOne(call.given, f.params[i], MultiRecord(f)).is # "ok"
      BY <3>4 DEF MultiRecord, MultiRecordToCollect
    <3> HIDE DEF f, rs
    <3>7. Distinct(BuildFuncCommand(f))
      BY <2>4, <3>1, IdsApart
    <3>8. AcceptsEach(BuildFuncCommand(f), call.given)
      BY <3>1, <3>7, AcceptsIs
    <3>9. \/ ~Spelled(f.params[i].ty)
          \/ f.params[i].ty.kind = "variant"
          \/ LeftOut(call.given, f.params[i])
      BY <3>5, <3>6, <3>8, OneOk
    <3>10. QED
      BY <2>2, <3>5, <3>9 DEF AcceptedIsInvoked
  <2>5. QED
    BY <2>3, <2>4
<1>2. QED
  BY <1>1, Invariant, PTL

(***************************************************************************)
(* Nothing is ignored: from what is collected, what clap was given can be  *)
(* read off again.  First, results and values.                             *)
(***************************************************************************)

\* The least-number principle.
LEMMA Least ==
    ASSUME NEW T \in SUBSET Nat, T # {}
    PROVE  \E x \in T : \A y \in T : x <= y
<1> DEFINE R == OpToRel(<, Nat)
<1>1. IsWellFoundedOn(R, Nat)
  BY NatLessThanWellFounded
<1>2. \A x, y \in Nat : <<x, y>> \in R <=> x < y
  BY DEF OpToRel
<1> HIDE DEF R
<1>3. PICK x \in T : \A y \in T : ~(<<y, x>> \in R)
  BY <1>1, WFMin
<1>4. ASSUME NEW y \in T PROVE x <= y
  <2>1. x \in Nat /\ y \in Nat
    OBVIOUS
  <2>2. ~(y < x)
    BY <1>2, <1>3, <2>1
  <2>3. QED
    BY <2>1, <2>2
<1>5. QED
  BY <1>4

LEMMA SequenceOk ==
    ASSUME NEW rs, DOMAIN rs \subseteq Nat, Sequence(rs).is = "ok"
    PROVE  /\ \A i \in DOMAIN rs : rs[i].is = "ok"
           /\ Sequence(rs).vals = [i \in DOMAIN rs |-> rs[i].vals[1]]
<1> DEFINE bad == {i \in DOMAIN rs : rs[i].is # "ok"}
<1>1. CASE bad # {}
  <2>1. PICK i \in bad : \A j \in bad : i <= j
    BY <1>1, Least
  <2>2. FirstBad(rs, i)
    BY <2>1 DEF FirstBad
  <2> DEFINE k == CHOOSE j \in DOMAIN rs : FirstBad(rs, j)
  <2>3. FirstBad(rs, k) /\ Sequence(rs) = rs[k]
    BY <2>1, <2>2 DEF Sequence
  <2>4. QED
    BY <2>3 DEF FirstBad
<1>2. CASE bad = {}
  BY <1>2 DEF Sequence, FirstBad
<1>3. QED
  BY <1>1, <1>2

LEMMA ValueSame ==
    ASSUME NEW a, NEW b, NEW c, NEW d, NEW e, NEW f, Value(a, b, c) = Value(d, e, f)
    PROVE  a = d /\ b = e /\ c = f
BY DEF Value

LEMMA MadeOk ==
    ASSUME NEW kind, NEW val, NEW r, Made(kind, val, r).is = "ok"
    PROVE  r.is = "ok" /\ Made(kind, val, r).vals[1] = Value(kind, val, r.vals)
BY DEF Made, Good

LEMMA MadeOneOk ==
    ASSUME NEW kind, NEW val, NEW r, Made(kind, val, Sequence(<<r>>)).is = "ok"
    PROVE  /\ r.is = "ok"
           /\ Made(kind, val, Sequence(<<r>>)).vals[1].kind = kind
           /\ Made(kind, val, Sequence(<<r>>)).vals[1].val = val
           /\ Made(kind, val, Sequence(<<r>>)).vals[1].of # <<>>
           /\ Made(kind, val, Sequence(<<r>>)).vals[1].of[1] = r.vals[1]
<1> DEFINE rs == <<r>>
<1>1. DOMAIN rs = {1} /\ rs[1] = r
  OBVIOUS
<1>2. Sequence(rs).is = "ok" /\ Made(kind, val, Sequence(rs)).vals[1] = Value(kind, val, Sequence(rs).vals)
  BY MadeOk
<1> HIDE DEF rs
<1>3. rs[1].is = "ok" /\ Sequence(rs).vals = [i \in {1} |-> rs[i].vals[1]]
  BY <1>1, <1>2, SequenceOk
<1>4. Sequence(rs).vals # <<>> /\ Sequence(rs).vals[1] = r.vals[1]
  BY <1>1, <1>3
<1>5. QED
  BY <1>1, <1>2, <1>3, <1>4 DEF Value, rs

\* Two collections with one outcome have the same members.
LEMMA SequenceSame ==
    ASSUME NEW rs, NEW qs, DOMAIN rs \subseteq Nat, DOMAIN qs \subseteq Nat,
           Sequence(rs).is = "ok", Sequence(qs).is = "ok", Sequence(rs).vals = Sequence(qs).vals
    PROVE  /\ DOMAIN rs = DOMAIN qs
           /\ \A i \in DOMAIN rs : /\ rs[i].is = "ok" /\ qs[i].is = "ok"
                                   /\ rs[i].vals[1] = qs[i].vals[1]
<1>1. /\ \A i \in DOMAIN rs : rs[i].is = "ok"
      /\ Sequence(rs).vals = [i \in DOMAIN rs |-> rs[i].vals[1]]
  BY SequenceOk
<1>2. /\ \A i \in DOMAIN qs : qs[i].is = "ok"
      /\ Sequence(qs).vals = [i \in DOMAIN qs |-> qs[i].vals[1]]
  BY SequenceOk
<1>3. [i \in DOMAIN rs |-> rs[i].vals[1]] = [i \in DOMAIN qs |-> qs[i].vals[1]]
  BY <1>1, <1>2
<1>4. DOMAIN rs = DOMAIN qs
  BY <1>3
<1>5. QED
  BY <1>1, <1>2, <1>3, <1>4

LEMMA MadeSame ==
    ASSUME NEW kind, NEW val, NEW rs, NEW qs, DOMAIN rs \subseteq Nat, DOMAIN qs \subseteq Nat,
           Made(kind, val, Sequence(rs)).is = "ok", Made(kind, val, Sequence(qs)).is = "ok",
           Made(kind, val, Sequence(rs)).vals[1] = Made(kind, val, Sequence(qs)).vals[1]
    PROVE  /\ DOMAIN rs = DOMAIN qs
           /\ \A i \in DOMAIN rs : /\ rs[i].is = "ok" /\ qs[i].is = "ok"
                                   /\ rs[i].vals[1] = qs[i].vals[1]
<1>1. /\ Sequence(rs).is = "ok"
      /\ Made(kind, val, Sequence(rs)).vals[1] = Value(kind, val, Sequence(rs).vals)
  BY MadeOk
<1>2. /\ Sequence(qs).is = "ok"
      /\ Made(kind, val, Sequence(qs)).vals[1] = Value(kind, val, Sequence(qs).vals)
  BY MadeOk
<1>3. Value(kind, val, Sequence(rs).vals) = Value(kind, val, Sequence(qs).vals)
  BY <1>1, <1>2
<1>4. Sequence(rs).vals = Sequence(qs).vals
  BY <1>3, ValueSame
<1>5. QED
  BY <1>1, <1>2, <1>4, SequenceSame

(***************************************************************************)
(* Then, one argument at a time.                                           *)
(***************************************************************************)

\* One value, and the same one.
LEMMA OneValue ==
    ASSUME NEW S, NEW s \in Seq(S), NEW t \in Seq(S), s # <<>>, t # <<>>, Len(s) <= 1, Len(t) <= 1,
           s[1] = t[1]
    PROVE  s = t
<1>1. Len(s) # 0 /\ Len(t) # 0
  BY EmptySeq
<1>2. Len(s) \in Nat /\ Len(t) \in Nat
  OBVIOUS
<1>3. Len(s) = 1 /\ Len(t) = 1
  <2>1. \A k \in Nat : k # 0 /\ k <= 1 => k = 1
    OBVIOUS
  <2>2. QED
    BY <1>1, <1>2, <2>1
<1>4. s = [i \in 1..1 |-> s[i]] /\ t = [i \in 1..1 |-> t[i]]
  BY <1>3
<1>5. QED
  BY <1>4

LEMMA ElementSame ==
    ASSUME NEW ty, Scalar(ty), NEW v \in Tokens(ty), NEW w \in Tokens(ty),
           Element(ty, v).vals[1] = Element(ty, w).vals[1]
    PROVE  v = w
<1>1. CASE ty.kind \in {"int", "f64"}
  BY <1>1 DEF Element, Good
<1>2. CASE ty.kind \in {"string", "enum"}
  <2>1. PICK x, y : v = Value("string", x, <<>>) /\ w = Value("string", y, <<>>)
    BY <1>2 DEF Tokens
  <2>2. Element(ty, v).vals[1] = Value(ty.kind, v.val, <<>>)
    BY <1>2 DEF Element, PrimitiveFromStr, Good
  <2>3. Element(ty, w).vals[1] = Value(ty.kind, w.val, <<>>)
    BY <1>2 DEF Element, PrimitiveFromStr, Good
  <2>4. Value(ty.kind, v.val, <<>>) = Value(ty.kind, w.val, <<>>)
    BY <2>2, <2>3
  <2>5. v.val = w.val
    BY <2>4, ValueSame
  <2>6. QED
    BY <2>1, <2>5 DEF Value
<1>3. QED
  BY <1>1, <1>2 DEF Scalar

LEMMA ManySame ==
    ASSUME NEW m, NEW n, NEW id, NEW ty, Scalar(ty), ~Panics(m, id, ty), ~Panics(n, id, ty),
           m[id].values \in Seq(Tokens(ty)), n[id].values \in Seq(Tokens(ty)),
           CollectTypedMany(m, id, ty).vals[1] = CollectTypedMany(n, id, ty).vals[1]
    PROVE  m[id].values = n[id].values
<1>0. PICK kind, val, s, t, rs, qs :
          /\ kind = "list" /\ val = ""
          /\ s = m[id].values /\ rs = [i \in DOMAIN s |-> Element(ty, s[i])]
          /\ t = n[id].values /\ qs = [i \in DOMAIN t |-> Element(ty, t[i])]
  OBVIOUS
<1>1. CollectTypedMany(m, id, ty) = Made(kind, val, Sequence(rs))
  BY <1>0 DEF CollectTypedMany
<1>2. CollectTypedMany(n, id, ty) = Made(kind, val, Sequence(qs))
  BY <1>0 DEF CollectTypedMany
<1>3. CollectTypedMany(m, id, ty).is = "ok" /\ CollectTypedMany(n, id, ty).is = "ok"
  BY ManyOk
<1>4. s \in Seq(Tokens(ty)) /\ t \in Seq(Tokens(ty))
  BY <1>0
<1>5. /\ \A i \in DOMAIN s : s[i] \in Tokens(ty) /\ rs[i] = Element(ty, s[i])
      /\ \A i \in DOMAIN t : t[i] \in Tokens(ty) /\ qs[i] = Element(ty, t[i])
  <2>1. /\ \A i \in DOMAIN s : s[i] \in Tokens(ty)
        /\ \A i \in DOMAIN t : t[i] \in Tokens(ty)
    BY <1>4
  <2>2. /\ \A i \in DOMAIN s : rs[i] = Element(ty, s[i])
        /\ \A i \in DOMAIN t : qs[i] = Element(ty, t[i])
    BY <1>0
  <2>3. QED
    BY <2>1, <2>2
<1>6. DOMAIN rs = DOMAIN s /\ DOMAIN qs = DOMAIN t /\ DOMAIN rs \subseteq Nat /\ DOMAIN qs \subseteq Nat
  <2>1. DOMAIN rs = DOMAIN s /\ DOMAIN qs = DOMAIN t
    BY <1>0
  <2>2. DOMAIN s \subseteq Nat /\ DOMAIN t \subseteq Nat
    BY <1>4
  <2>3. QED
    BY <2>1, <2>2
<1>7. /\ Made(kind, val, Sequence(rs)).is = "ok" /\ Made(kind, val, Sequence(qs)).is = "ok"
      /\ Made(kind, val, Sequence(rs)).vals[1] = Made(kind, val, Sequence(qs)).vals[1]
  BY <1>1, <1>2, <1>3
<1>8. DOMAIN rs = DOMAIN qs /\ \A i \in DOMAIN rs : rs[i].vals[1] = qs[i].vals[1]
  BY <1>6, <1>7, MadeSame
<1>9. DOMAIN s = DOMAIN t /\ \A i \in DOMAIN s : s[i] = t[i]
  BY <1>5, <1>6, <1>8, ElementSame
<1>10. s = t
  BY <1>4, <1>9
<1>11. QED
  BY <1>0, <1>10

LEMMA TypedSame ==
    ASSUME NEW m, NEW n, NEW id, NEW ty, Plain(ty),
           ~Panics(m, id, Held(ty)), ~Panics(n, id, Held(ty)),
           m[id].values \in Seq(Tokens(Held(ty))), n[id].values \in Seq(Tokens(Held(ty))),
           ty.kind # "list" => Len(m[id].values) <= 1 /\ Len(n[id].values) <= 1,
           CollectTyped(m, id, ty).is = "ok", CollectTyped(n, id, ty).is = "ok",
           CollectTyped(m, id, ty).vals[1] = CollectTyped(n, id, ty).vals[1]
    PROVE  m[id].values = n[id].values
<1>1. CASE ty.kind = "list"
  <2>1. /\ CollectTyped(m, id, ty) = CollectTypedMany(m, id, ty.of[1])
        /\ CollectTyped(n, id, ty) = CollectTypedMany(n, id, ty.of[1])
    BY <1>1 DEF CollectTyped
  <2>2. Scalar(ty.of[1]) /\ Held(ty) = ty.of[1]
    BY <1>1 DEF Plain, Held, Scalar
  <2>3. QED
    BY <2>1, <2>2, ManySame
<1>2. CASE ty.kind # "list"
  <2>1. Scalar(ty) /\ Held(ty) = ty
    BY <1>2 DEF Plain, Held
  <2>2. ty.kind \in {"int", "f64", "string", "enum"}
    BY <2>1 DEF Scalar
  <2>3. m[id].values # <<>> /\ CollectTyped(m, id, ty) = Element(ty, m[id].values[1])
    BY <1>2, <2>1, <2>2 DEF CollectTyped, Bad
  <2>4. n[id].values # <<>> /\ CollectTyped(n, id, ty) = Element(ty, n[id].values[1])
    BY <1>2, <2>1, <2>2 DEF CollectTyped, Bad
  <2>5. m[id].values[1] \in Tokens(ty) /\ n[id].values[1] \in Tokens(ty)
    BY <2>1, <2>3, <2>4
  <2>6. m[id].values[1] = n[id].values[1]
    BY <2>1, <2>3, <2>4, <2>5, ElementSame
  <2>7. QED
    BY <1>2, <2>1, <2>3, <2>4, <2>6, OneValue
<1>3. QED
  BY <1>1, <1>2

\* What is collected of a variant spells it out.
LEMMA VariantIs ==
    ASSUME NEW ty \in Type, ty.kind = "variant",
           \A i \in DOMAIN ty.of : ty.of[i].kind \in {"none", "string"},
           NEW v \in Tokens(ty), VariantOf(ty, v).is = "ok"
    PROVE  VariantOf(ty, v).vals[1] = Value("variant", v.val, v.of)
<1> DEFINE c == CHOOSE i \in DOMAIN ty.names : ty.names[i] = v.val
           payload == ty.of[c]
           r == PrimitiveFromStr(payload, v.of[1])
<1>1. v.val \in ToSet(ty.names) /\ (payload.kind = "none") = (v.of = <<>>)
  BY DEF VariantOf, Bad
<1>2. CASE v.of = <<>>
  BY <1>1, <1>2 DEF VariantOf, Good
<1>3. CASE v.of # <<>>
  <2>1. c \in DOMAIN ty.names
    BY <1>1 DEF ToSet
  <2>2. DOMAIN ty.names = DOMAIN ty.of
    BY TypeAssumption
  <2>3. payload.kind \in {"none", "string"}
    <3> HIDE DEF c
    <3>1. QED
      BY <2>1, <2>2
  <2>4. payload.kind = "string"
    BY <1>1, <1>3, <2>3
  <2>5. PICK w : v.of = <<Value("string", w, <<>>)>>
    <3>1. PICK x, of : /\ v = Value("string", x, of)
                       /\ of \in {<<>>} \union {<<Value("string", u, <<>>)>> : u \in Word}
      BY DEF Tokens
    <3>2. v.of = of
      BY <3>1 DEF Value
    <3>3. QED
      BY <1>3, <3>1, <3>2
  <2>6. r = Good(v.of[1])
    <3>1. v.of[1].val = w /\ v.of[1] = Value("string", w, <<>>)
      BY <2>5 DEF Value
    <3> HIDE DEF payload
    <3>2. QED
      BY <2>4, <3>1 DEF PrimitiveFromStr
  <2>7. VariantOf(ty, v) = Made("variant", v.val, Sequence(<<r>>))
    BY <1>1, <1>3 DEF VariantOf
  <2> HIDE DEF r
  <2>8. DOMAIN <<r>> = {1} /\ <<r>>[1] = r
    OBVIOUS
  <2> DEFINE rs == <<r>>
  <2>9. Sequence(rs).is = "ok" /\ VariantOf(ty, v).vals[1] = Value("variant", v.val, Sequence(rs).vals)
    BY <2>7, MadeOk
  <2>10. DOMAIN rs = {1} /\ rs[1].vals[1] = v.of[1]
    BY <2>6, <2>8 DEF Good
  <2> HIDE DEF rs
  <2>11. Sequence(rs).vals = [i \in {1} |-> rs[i].vals[1]]
    BY <2>9, <2>10, SequenceOk
  <2>12. Sequence(rs).vals = [i \in {1} |-> v.of[1]]
    BY <2>10, <2>11
  <2>13. [i \in {1} |-> v.of[1]] = v.of
    BY <2>5
  <2>14. QED
    BY <2>9, <2>12, <2>13
<1>4. QED
  BY <1>2, <1>3

LEMMA SingleSame ==
    ASSUME NEW m, NEW n, NEW id, NEW ty \in Type,
           \/ Scalar(ty)
           \/ ty.kind = "variant" /\ \A i \in DOMAIN ty.of : ty.of[i].kind \in {"none", "string"},
           ~Panics(m, id, ty), ~Panics(n, id, ty), m[id].values # <<>>, n[id].values # <<>>,
           m[id].values \in Seq(Tokens(ty)), n[id].values \in Seq(Tokens(ty)),
           Len(m[id].values) <= 1, Len(n[id].values) <= 1,
           CollectSingle(m, id, ty).is = "ok", CollectSingle(n, id, ty).is = "ok",
           CollectSingle(m, id, ty).vals[1] = CollectSingle(n, id, ty).vals[1]
    PROVE  m[id].values = n[id].values
<1> DEFINE v == m[id].values[1]
           w == n[id].values[1]
<1>1. v \in Tokens(ty) /\ w \in Tokens(ty)
  OBVIOUS
<1>2. v = w
  <2>1. CASE ty.kind # "variant"
    <3>1. CollectSingle(m, id, ty) = Element(ty, v) /\ CollectSingle(n, id, ty) = Element(ty, w)
      BY <2>1 DEF CollectSingle
    <3>2. Element(ty, v).vals[1] = Element(ty, w).vals[1] /\ Scalar(ty)
      BY <2>1, <3>1
    <3> HIDE DEF v, w
    <3>3. QED
      BY <1>1, <3>2, ElementSame
  <2>2. CASE ty.kind = "variant"
    <3>1. CollectSingle(m, id, ty) = VariantOf(ty, v) /\ CollectSingle(n, id, ty) = VariantOf(ty, w)
      BY <2>2 DEF CollectSingle
    <3>2. \A i \in DOMAIN ty.of : ty.of[i].kind \in {"none", "string"}
      BY <2>2 DEF Scalar
    <3>3. /\ VariantOf(ty, v).is = "ok" /\ VariantOf(ty, w).is = "ok"
          /\ VariantOf(ty, v).vals[1] = VariantOf(ty, w).vals[1]
      BY <3>1
    <3> HIDE DEF v, w
    <3>4. VariantOf(ty, v).vals[1] = Value("variant", v.val, v.of)
      BY <1>1, <2>2, <3>2, <3>3, VariantIs
    <3>5. VariantOf(ty, w).vals[1] = Value("variant", w.val, w.of)
      BY <1>1, <2>2, <3>2, <3>3, VariantIs
    <3>6. Value("variant", v.val, v.of) = Value("variant", w.val, w.of)
      BY <3>3, <3>4, <3>5
    <3>7. v.val = w.val /\ v.of = w.of
      BY <3>6 DEF Value
    <3>8. v = Value("string", v.val, v.of) /\ w = Value("string", w.val, w.of)
      BY <1>1, <2>2 DEF Tokens, Value
    <3>9. QED
      BY <3>7, <3>8
  <2>3. QED
    BY <2>1, <2>2
<1>3. QED
  BY <1>2, OneValue

\* Two options that are the same are both there, with the same value, or neither.
OptionOf(there, r) == IF there THEN Made("option", "", Sequence(<<r>>)) ELSE Good(NoneValue)

LEMMA OptionIs ==
    ASSUME NEW there \in BOOLEAN, NEW r, OptionOf(there, r).is = "ok"
    PROVE  LET v == OptionOf(there, r).vals[1] IN
           IF there THEN r.is = "ok" /\ v.of # <<>> /\ v.of[1] = r.vals[1] ELSE v.of = <<>>
<1>1. CASE there
  <2>1. PICK kind, val : kind = "option" /\ val = ""
    OBVIOUS
  <2>2. OptionOf(there, r) = Made(kind, val, Sequence(<<r>>))
    BY <1>1, <2>1 DEF OptionOf
  <2>3. Made(kind, val, Sequence(<<r>>)).is = "ok"
    BY <2>2
  <2>4. /\ r.is = "ok"
        /\ Made(kind, val, Sequence(<<r>>)).vals[1].of # <<>>
        /\ Made(kind, val, Sequence(<<r>>)).vals[1].of[1] = r.vals[1]
    BY <2>3, MadeOneOk
  <2>5. QED
    BY <1>1, <2>2, <2>4
<1>2. CASE ~there
  BY <1>2 DEF OptionOf, Good, NoneValue, Value
<1>3. QED
  BY <1>1, <1>2

LEMMA OptionSame ==
    ASSUME NEW a \in BOOLEAN, NEW b \in BOOLEAN, NEW r, NEW q,
           OptionOf(a, r).is = "ok", OptionOf(b, q).is = "ok",
           OptionOf(a, r).vals[1] = OptionOf(b, q).vals[1]
    PROVE  a = b /\ (a => r.is = "ok" /\ q.is = "ok" /\ r.vals[1] = q.vals[1])
BY OptionIs

LEMMA OptionFieldSame ==
    ASSUME NEW m, NEW n, NEW flag, NEW ty,
           Plain(ty) \/ (ty.kind = "option" /\ Scalar(ty.of[1])),
           ~Panics(m, flag, Held(Effective(ty))), ~Panics(n, flag, Held(Effective(ty))),
           m[flag].values \in Seq(Tokens(Held(Effective(ty)))),
           n[flag].values \in Seq(Tokens(Held(Effective(ty)))),
           Effective(ty).kind # "list" => Len(m[flag].values) <= 1 /\ Len(n[flag].values) <= 1,
           CollectOptionField(m, flag, ty).is = "ok", CollectOptionField(n, flag, ty).is = "ok",
           CollectOptionField(m, flag, ty).vals[1] = CollectOptionField(n, flag, ty).vals[1]
    PROVE  m[flag].values = n[flag].values
<1>1. CASE ty.kind # "option"
  <2>1. /\ CollectOptionField(m, flag, ty) = CollectTyped(m, flag, ty)
        /\ CollectOptionField(n, flag, ty) = CollectTyped(n, flag, ty)
    BY <1>1 DEF CollectOptionField
  <2>2. Effective(ty) = ty /\ Plain(ty)
    BY <1>1 DEF Effective
  <2>3. QED
    BY <2>1, <2>2, TypedSame
<1>2. CASE ty.kind = "option"
  <2> DEFINE inner == ty.of[1]
             a == CollectTyped(m, flag, inner)
             b == CollectTyped(n, flag, inner)
  <2>1. flag \in DOMAIN m /\ flag \in DOMAIN n
    BY DEF Panics
  <2>2. Scalar(inner) /\ Effective(ty) = inner /\ Plain(inner) /\ inner.kind # "list"
    BY <1>2 DEF Plain, Scalar, Effective
  <2>3. CollectOptionField(m, flag, ty) = OptionOf(ContainsId(m, flag), a)
    BY <1>2, <2>1 DEF CollectOptionField, OptionOf
  <2>4. CollectOptionField(n, flag, ty) = OptionOf(ContainsId(n, flag), b)
    BY <1>2, <2>1 DEF CollectOptionField, OptionOf
  <2>5. ContainsId(m, flag) \in BOOLEAN /\ ContainsId(n, flag) \in BOOLEAN
    BY DEF ContainsId
  <2> HIDE DEF a, b
  <2>6. /\ ContainsId(m, flag) = ContainsId(n, flag)
        /\ ContainsId(m, flag) => a.is = "ok" /\ b.is = "ok" /\ a.vals[1] = b.vals[1]
    BY <2>3, <2>4, <2>5, OptionSame
  <2>7. CASE ContainsId(m, flag)
    BY <2>2, <2>6, <2>7, TypedSame DEF a, b
  <2>8. CASE ~ContainsId(m, flag)
    BY <2>6, <2>8 DEF ContainsId
  <2>9. QED
    BY <2>7, <2>8
<1>3. QED
  BY <1>1, <1>2

\* What clap has stored for an argument of a field, or of a parameter.
Stored(given, flag, ty) ==
    /\ ~Panics(given, flag, Held(ty))
    /\ given[flag].values \in Seq(Tokens(Held(ty)))
    /\ ty.kind # "list" => Len(given[flag].values) <= 1

LEMMA FieldStored ==
    ASSUME NEW given, NEW flag, NEW ty, NEW required \in BOOLEAN,
           LET a == FieldArg(flag, ty, required) IN
           FitsAlone(a, given[a.id]) /\ ~Panics(given, a.id, a.ty)
    PROVE  Stored(given, flag, ty)
<1> DEFINE a == FieldArg(flag, ty, required)
<1>1. a.id = flag /\ a.ty = Held(ty)
  BY FieldArgIs
<1>2. ty.kind # "list" => ~a.many
  BY DEF FieldArg, Arg
<1> HIDE DEF a
<1>3. FitsAlone(a, given[a.id]) /\ ~Panics(given, a.id, a.ty)
  BY DEF a
<1>4. FitsAlone(a, given[flag]) /\ ~Panics(given, flag, Held(ty))
  BY <1>1, <1>3
<1>5. QED
  BY <1>1, <1>2, <1>4 DEF Stored, FitsAlone

\* The fields of a record, and those of an optional record.
LEMMA RecordSame ==
    ASSUME NEW m, NEW n, NEW p, NEW multi \in BOOLEAN, p.ty \in Type, p.ty.kind = "record",
           \A k \in DOMAIN p.ty.of :
               /\ Plain(p.ty.of[k])
               /\ Stored(m, FieldFlag(p, p.ty.names[k], multi), p.ty.of[k])
               /\ Stored(n, FieldFlag(p, p.ty.names[k], multi), p.ty.of[k]),
           CollectOne(m, p, multi).is = "ok", CollectOne(n, p, multi).is = "ok",
           CollectOne(m, p, multi).vals[1] = CollectOne(n, p, multi).vals[1]
    PROVE  \A k \in DOMAIN p.ty.of :
               LET flag == FieldFlag(p, p.ty.names[k], multi) IN m[flag].values = n[flag].values
<1>1. PICK rs, qs, kind, val : /\ rs = Fields(m, p, multi) /\ qs = Fields(n, p, multi)
                               /\ kind = "record" /\ val = ""
  OBVIOUS
<1>2. CollectOne(m, p, multi) = Made(kind, val, Sequence(rs))
  BY <1>1, OneOfKind
<1>3. CollectOne(n, p, multi) = Made(kind, val, Sequence(qs))
  BY <1>1, OneOfKind
<1>4. DOMAIN rs = DOMAIN p.ty.of /\ DOMAIN qs = DOMAIN p.ty.of
  BY <1>1 DEF Fields
<1>5. DOMAIN p.ty.of \subseteq Nat
  BY TypeAssumption
<1>6. \A k \in DOMAIN p.ty.of : rs[k].is = "ok" /\ qs[k].is = "ok" /\ rs[k].vals[1] = qs[k].vals[1]
  BY <1>2, <1>3, <1>4, <1>5, MadeSame
<1> SUFFICES ASSUME NEW k \in DOMAIN p.ty.of
             PROVE  LET flag == FieldFlag(p, p.ty.names[k], multi) IN m[flag].values = n[flag].values
  OBVIOUS
<1> DEFINE flag == FieldFlag(p, p.ty.names[k], multi)
           ty == p.ty.of[k]
<1>7. rs[k] = CollectTyped(m, flag, ty) /\ qs[k] = CollectTyped(n, flag, ty)
  BY <1>1 DEF Fields
<1>8. Plain(ty) /\ Stored(m, flag, ty) /\ Stored(n, flag, ty)
  OBVIOUS
<1> HIDE DEF flag, ty
<1>9. m[flag].values = n[flag].values
  <2>1. /\ CollectTyped(m, flag, ty).is = "ok" /\ CollectTyped(n, flag, ty).is = "ok"
        /\ CollectTyped(m, flag, ty).vals[1] = CollectTyped(n, flag, ty).vals[1]
    BY <1>6, <1>7
  <2>2. QED
    BY <1>8, <2>1, TypedSame DEF Stored
<1>10. QED
  BY <1>9 DEF flag

LEMMA OptionRecordSame ==
    ASSUME NEW m, NEW n, NEW p, p.ty.of[1] \in Type, p.ty.of[1].kind = "record",
           \A k \in DOMAIN p.ty.of[1].of :
               /\ \/ Plain(p.ty.of[1].of[k])
                  \/ p.ty.of[1].of[k].kind = "option" /\ Scalar(p.ty.of[1].of[k].of[1])
               /\ Stored(m, Prefixed(p, p.ty.of[1].names[k]), Effective(p.ty.of[1].of[k]))
               /\ Stored(n, Prefixed(p, p.ty.of[1].names[k]), Effective(p.ty.of[1].of[k])),
           CollectOption(m, p).is = "ok", CollectOption(n, p).is = "ok",
           CollectOption(m, p).vals[1] = CollectOption(n, p).vals[1]
    PROVE  \A k \in DOMAIN p.ty.of[1].of :
               LET flag == Prefixed(p, p.ty.of[1].names[k]) IN m[flag].values = n[flag].values
<1> DEFINE inner == p.ty.of[1]
           flags == {Prefixed(p, inner.names[i]) : i \in DOMAIN inner.of}
<1>1. PICK rs, qs, kind, val : /\ rs = OptionFields(m, p) /\ qs = OptionFields(n, p)
                               /\ kind = "record" /\ val = ""
  OBVIOUS
<1> DEFINE a == Made(kind, val, Sequence(rs))
           b == Made(kind, val, Sequence(qs))
<1>2. flags \subseteq DOMAIN m /\ flags \subseteq DOMAIN n
  BY DEF Stored, Panics
<1>3. CollectOption(m, p) = OptionOf(Supplied(m, p), a)
  BY <1>1, <1>2 DEF CollectOption, OptionOf, OptionFields
<1>4. CollectOption(n, p) = OptionOf(Supplied(n, p), b)
  BY <1>1, <1>2 DEF CollectOption, OptionOf, OptionFields
<1>5. Supplied(m, p) \in BOOLEAN /\ Supplied(n, p) \in BOOLEAN
  BY DEF Supplied
<1> HIDE DEF a, b
<1>6. /\ Supplied(m, p) = Supplied(n, p)
      /\ Supplied(m, p) => a.is = "ok" /\ b.is = "ok" /\ a.vals[1] = b.vals[1]
  BY <1>3, <1>4, <1>5, OptionSame
<1> SUFFICES ASSUME NEW k \in DOMAIN inner.of
             PROVE  m[Prefixed(p, inner.names[k])].values = n[Prefixed(p, inner.names[k])].values
  OBVIOUS
<1> DEFINE flag == Prefixed(p, inner.names[k])
           ty == inner.of[k]
<1>7. CASE ~Supplied(m, p)
  BY <1>6, <1>7 DEF Supplied, ContainsId
<1>8. CASE Supplied(m, p)
  <2>1. DOMAIN rs = DOMAIN inner.of /\ DOMAIN qs = DOMAIN inner.of
    BY <1>1 DEF OptionFields
  <2>2. DOMAIN inner.of \subseteq Nat
    <3>1. inner \in Type
      OBVIOUS
    <3> HIDE DEF inner
    <3>2. inner.of \in Seq(Type)
      BY <3>1, TypeAssumption
    <3>3. QED
      BY <3>2
  <2>3. /\ Made(kind, val, Sequence(rs)).is = "ok" /\ Made(kind, val, Sequence(qs)).is = "ok"
        /\ Made(kind, val, Sequence(rs)).vals[1] = Made(kind, val, Sequence(qs)).vals[1]
    BY <1>6, <1>8 DEF a, b
  <2>4. DOMAIN rs \subseteq Nat /\ DOMAIN qs \subseteq Nat /\ k \in DOMAIN rs
    BY <2>1, <2>2
  <2>5. rs[k].is = "ok" /\ qs[k].is = "ok" /\ rs[k].vals[1] = qs[k].vals[1]
    BY <2>3, <2>4, MadeSame
  <2>6. rs[k] = CollectOptionField(m, flag, ty) /\ qs[k] = CollectOptionField(n, flag, ty)
    BY <1>1 DEF OptionFields
  <2>7. /\ Plain(ty) \/ (ty.kind = "option" /\ Scalar(ty.of[1]))
        /\ Stored(m, flag, Effective(ty)) /\ Stored(n, flag, Effective(ty))
    OBVIOUS
  <2> HIDE DEF flag, ty, inner
  <2>8. m[flag].values = n[flag].values
    BY <2>5, <2>6, <2>7, OptionFieldSame DEF Stored
  <2>9. QED
    BY <2>8 DEF flag
<1>9. QED
  BY <1>7, <1>8

\* One parameter of two accepted command lines.
LEMMA OneSame ==
    ASSUME NEW f, NEW m, NEW n, AcceptsEach(BuildFuncCommand(f), m), AcceptsEach(BuildFuncCommand(f), n),
           NEW i \in DOMAIN f.params, f.params[i].ty \in Type, Spelled(f.params[i].ty),
           CollectOne(m, f.params[i], MultiRecord(f)).is = "ok",
           CollectOne(n, f.params[i], MultiRecord(f)).is = "ok",
           CollectOne(m, f.params[i], MultiRecord(f)).vals[1]
             = CollectOne(n, f.params[i], MultiRecord(f)).vals[1]
    PROVE  \A k \in DOMAIN ParamArgs(f)[i] :
               LET id == ParamArgs(f)[i][k].id IN m[id].values = n[id].values
<1> DEFINE p == f.params[i]
           multi == MultiRecord(f)
           args == AddParamArgs(p, multi, i = Len(f.params))
<1>0. args = ParamArgs(f)[i] /\ multi \in BOOLEAN
  BY ArgsOf DEF MultiRecord
<1>1. \A k \in DOMAIN args :
          /\ FitsAlone(args[k], m[args[k].id]) /\ ~Panics(m, args[k].id, args[k].ty)
          /\ FitsAlone(args[k], n[args[k].id]) /\ ~Panics(n, args[k].id, args[k].ty)
  <2> HIDE DEF args
  <2>2. QED
    BY <1>0, VouchedFor
<1> SUFFICES \A k \in DOMAIN args : m[args[k].id].values = n[args[k].id].values
  BY <1>0
<1>2. CASE p.ty.kind = "option" /\ p.ty.of[1].kind = "record"
  <2> DEFINE inner == p.ty.of[1]
  <2>1. args = [k \in DOMAIN inner.of |->
                   FieldArg(Prefixed(p, inner.names[k]), Effective(inner.of[k]), FALSE)]
    BY <1>2 DEF AddParamArgs, Single
  <2>2. ASSUME NEW k \in DOMAIN inner.of
        PROVE  /\ Stored(m, Prefixed(p, inner.names[k]), Effective(inner.of[k]))
               /\ Stored(n, Prefixed(p, inner.names[k]), Effective(inner.of[k]))
               /\ k \in DOMAIN args /\ args[k].id = Prefixed(p, inner.names[k])
    <3> DEFINE flag == Prefixed(p, inner.names[k])
               ty == Effective(inner.of[k])
               a == FieldArg(flag, ty, FALSE)
    <3>1. k \in DOMAIN args /\ args[k] = a
      BY <2>1
    <3>2. a.id = flag
      BY FieldArgIs
    <3>3. /\ FitsAlone(a, m[a.id]) /\ ~Panics(m, a.id, a.ty)
          /\ FitsAlone(a, n[a.id]) /\ ~Panics(n, a.id, a.ty)
      <4> HIDE DEF a, args
      <4> QED
        BY <1>1, <3>1
    <3>4. Stored(m, flag, ty) /\ Stored(n, flag, ty)
      <4> HIDE DEF flag, ty
      <4> QED
        BY <3>3, FieldStored
    <3> HIDE DEF a, args
    <3>5. QED
      BY <3>1, <3>2, <3>4
  <2>3. \A k \in DOMAIN inner.of :
            Plain(inner.of[k]) \/ (inner.of[k].kind = "option" /\ Scalar(inner.of[k].of[1]))
    BY <1>2 DEF Spelled
  <2>4. inner \in Type
    BY <1>2, TypeAssumption
  <2>5. CollectOne(m, p, multi) = CollectOption(m, p) /\ CollectOne(n, p, multi) = CollectOption(n, p)
    BY <1>2, OneOfKind
  <2>6. \A k \in DOMAIN inner.of :
            m[Prefixed(p, inner.names[k])].values = n[Prefixed(p, inner.names[k])].values
    <3>1. /\ CollectOption(m, p).is = "ok" /\ CollectOption(n, p).is = "ok"
          /\ CollectOption(m, p).vals[1] = CollectOption(n, p).vals[1]
      BY <2>5
    <3>2. \A k \in DOMAIN p.ty.of[1].of :
               /\ \/ Plain(p.ty.of[1].of[k])
                  \/ p.ty.of[1].of[k].kind = "option" /\ Scalar(p.ty.of[1].of[k].of[1])
               /\ Stored(m, Prefixed(p, p.ty.of[1].names[k]), Effective(p.ty.of[1].of[k]))
               /\ Stored(n, Prefixed(p, p.ty.of[1].names[k]), Effective(p.ty.of[1].of[k]))
      BY <2>2, <2>3
    <3> HIDE DEF p, args, multi
    <3>3. QED
      BY <1>2, <2>4, <3>1, <3>2, OptionRecordSame
  <2>7. DOMAIN args = DOMAIN inner.of
    BY <2>1
  <2> HIDE DEF args
  <2>8. QED
    BY <2>2, <2>6, <2>7
<1>3. CASE p.ty.kind = "option" /\ p.ty.of[1].kind # "record"
  <2> DEFINE inner == p.ty.of[1]
             a == CollectSingle(m, p.name, inner)
             b == CollectSingle(n, p.name, inner)
  <2>1. Scalar(inner)
    BY <1>3 DEF Spelled
  <2>2. args = <<Arg(p.name, "positional", FALSE, FALSE, inner)>>
    BY <1>3, <2>1 DEF AddParamArgs, Single, Scalar
  <2>3. /\ DOMAIN args = {1} /\ args[1].id = p.name /\ args[1].ty = inner /\ ~args[1].many
    BY <2>2 DEF Arg
  <2>4. /\ FitsAlone(args[1], m[p.name]) /\ ~Panics(m, p.name, inner)
        /\ FitsAlone(args[1], n[p.name]) /\ ~Panics(n, p.name, inner)
    <3> HIDE DEF args, inner
    <3>1. QED
      BY <1>1, <2>3
  <2>5. /\ m[p.name].values \in Seq(Tokens(inner)) /\ Len(m[p.name].values) <= 1
        /\ n[p.name].values \in Seq(Tokens(inner)) /\ Len(n[p.name].values) <= 1
    <3> HIDE DEF args, inner
    <3>1. QED
      BY <2>3, <2>4 DEF FitsAlone
  <2>6. CollectOption(m, p) = OptionOf(ContainsId(m, p.name), a)
    BY <1>3, <2>4 DEF CollectOption, OptionOf, Panics
  <2>7. CollectOption(n, p) = OptionOf(ContainsId(n, p.name), b)
    BY <1>3, <2>4 DEF CollectOption, OptionOf, Panics
  <2>8. CollectOne(m, p, multi) = CollectOption(m, p) /\ CollectOne(n, p, multi) = CollectOption(n, p)
    BY <1>3, OneOfKind
  <2>9. ContainsId(m, p.name) \in BOOLEAN /\ ContainsId(n, p.name) \in BOOLEAN
    BY DEF ContainsId
  <2> HIDE DEF a, b
  <2>10. /\ ContainsId(m, p.name) = ContainsId(n, p.name)
         /\ ContainsId(m, p.name) => a.is = "ok" /\ b.is = "ok" /\ a.vals[1] = b.vals[1]
    BY <2>6, <2>7, <2>8, <2>9, OptionSame
  <2>11. inner \in Type
    BY <1>3, TypeAssumption
  <2>12. m[p.name].values = n[p.name].values
    <3>1. CASE ContainsId(m, p.name)
      <4>1. m[p.name].values # <<>> /\ n[p.name].values # <<>>
        BY <2>10, <3>1 DEF ContainsId
      <4>2. /\ CollectSingle(m, p.name, inner).is = "ok" /\ CollectSingle(n, p.name, inner).is = "ok"
            /\ CollectSingle(m, p.name, inner).vals[1] = CollectSingle(n, p.name, inner).vals[1]
        BY <2>10, <3>1 DEF a, b
      <4> HIDE DEF inner
      <4>3. QED
        BY <2>1, <2>4, <2>5, <2>11, <4>1, <4>2, SingleSame
    <3>2. CASE ~ContainsId(m, p.name)
      BY <2>10, <3>2 DEF ContainsId
    <3>3. QED
      BY <3>1, <3>2
  <2> HIDE DEF args
  <2>13. QED
    BY <2>3, <2>12
<1>4. CASE p.ty.kind = "record"
  <2>1. args = [k \in DOMAIN p.ty.of |->
                   FieldArg(FieldFlag(p, p.ty.names[k], multi), p.ty.of[k], TRUE)]
    BY <1>4 DEF AddParamArgs, Single
  <2>2. ASSUME NEW k \in DOMAIN p.ty.of
        PROVE  /\ Stored(m, FieldFlag(p, p.ty.names[k], multi), p.ty.of[k])
               /\ Stored(n, FieldFlag(p, p.ty.names[k], multi), p.ty.of[k])
               /\ k \in DOMAIN args /\ args[k].id = FieldFlag(p, p.ty.names[k], multi)
    <3> DEFINE flag == FieldFlag(p, p.ty.names[k], multi)
               ty == p.ty.of[k]
               a == FieldArg(flag, ty, TRUE)
    <3>1. k \in DOMAIN args /\ args[k] = a
      BY <2>1
    <3>2. a.id = flag
      BY FieldArgIs
    <3>3. /\ FitsAlone(a, m[a.id]) /\ ~Panics(m, a.id, a.ty)
          /\ FitsAlone(a, n[a.id]) /\ ~Panics(n, a.id, a.ty)
      <4> HIDE DEF a, args
      <4> QED
        BY <1>1, <3>1
    <3>4. Stored(m, flag, ty) /\ Stored(n, flag, ty)
      <4> HIDE DEF flag, ty
      <4> QED
        BY <3>3, FieldStored
    <3> HIDE DEF a, args
    <3>5. QED
      BY <3>1, <3>2, <3>4
  <2>3. \A k \in DOMAIN p.ty.of : Plain(p.ty.of[k])
    BY <1>4 DEF Spelled
  <2>4. \A k \in DOMAIN p.ty.of :
            m[FieldFlag(p, p.ty.names[k], multi)].values = n[FieldFlag(p, p.ty.names[k], multi)].values
    <3> HIDE DEF multi
    <3>1. CollectOne(m, p, multi).is = "ok" /\ CollectOne(n, p, multi).is = "ok"
          /\ CollectOne(m, p, multi).vals[1] = CollectOne(n, p, multi).vals[1]
      BY DEF multi
    <3>2. QED
      BY <1>0, <1>4, <2>2, <2>3, <3>1, RecordSame
  <2>5. DOMAIN args = DOMAIN p.ty.of
    BY <2>1
  <2> HIDE DEF args
  <2>6. QED
    BY <2>2, <2>4, <2>5
<1>5. CASE p.ty.kind = "list"
  <2> DEFINE inner == p.ty.of[1]
  <2>1. Scalar(inner)
    BY <1>5 DEF Spelled, Plain, Scalar
  <2>2. args = <<Arg(p.name, IF i = Len(f.params) THEN "positional" ELSE "flag",
                     FALSE, TRUE, inner)>>
    BY <1>5 DEF AddParamArgs, Single
  <2>3. DOMAIN args = {1} /\ args[1].id = p.name /\ args[1].ty = inner
    BY <2>2 DEF Arg
  <2>4. /\ CollectOne(m, p, multi) = CollectTypedMany(m, p.name, inner)
        /\ CollectOne(n, p, multi) = CollectTypedMany(n, p.name, inner)
    BY <1>5, OneOfKind
  <2>5. CollectTypedMany(m, p.name, inner).vals[1] = CollectTypedMany(n, p.name, inner).vals[1]
    BY <2>4
  <2> HIDE DEF args, inner
  <2>6. /\ m[p.name].values \in Seq(Tokens(inner)) /\ ~Panics(m, p.name, inner)
        /\ n[p.name].values \in Seq(Tokens(inner)) /\ ~Panics(n, p.name, inner)
    BY <1>1, <2>3 DEF FitsAlone
  <2>7. m[p.name].values = n[p.name].values
    BY <2>1, <2>5, <2>6, ManySame
  <2>8. QED
    BY <2>3, <2>7
<1>6. CASE p.ty.kind \notin {"option", "record", "list"}
  <2>1. \/ Scalar(p.ty)
        \/ p.ty.kind = "variant" /\ \A j \in DOMAIN p.ty.of : p.ty.of[j].kind \in {"none", "string"}
    BY <1>6 DEF Spelled, Plain
  <2>2. p.ty.kind \in Single
    BY <2>1 DEF Scalar, Single
  <2>3. args = <<Arg(p.name, "positional", TRUE, FALSE, p.ty)>>
    BY <1>6, <2>2 DEF AddParamArgs, Single
  <2>4. /\ DOMAIN args = {1} /\ args[1].id = p.name /\ args[1].ty = p.ty
        /\ args[1].required /\ ~args[1].many
    BY <2>3 DEF Arg
  <2>5. /\ CollectOne(m, p, multi) = CollectSingle(m, p.name, p.ty)
        /\ CollectOne(n, p, multi) = CollectSingle(n, p.name, p.ty)
    BY <2>2, OneOfKind
  <2>6. /\ CollectSingle(m, p.name, p.ty).is = "ok" /\ CollectSingle(n, p.name, p.ty).is = "ok"
        /\ CollectSingle(m, p.name, p.ty).vals[1] = CollectSingle(n, p.name, p.ty).vals[1]
    BY <2>5
  <2> HIDE DEF args
  <2>7. /\ FitsAlone(args[1], m[p.name]) /\ ~Panics(m, p.name, p.ty)
        /\ FitsAlone(args[1], n[p.name]) /\ ~Panics(n, p.name, p.ty)
    BY <1>1, <2>4
  <2>8. /\ m[p.name].values \in Seq(Tokens(p.ty)) /\ Len(m[p.name].values) <= 1
        /\ n[p.name].values \in Seq(Tokens(p.ty)) /\ Len(n[p.name].values) <= 1
        /\ m[p.name].values # <<>> /\ n[p.name].values # <<>>
    BY <2>4, <2>7 DEF FitsAlone
  <2> HIDE DEF p
  <2>9. m[p.name].values = n[p.name].values
    <3>1. p.ty \in Type
      BY DEF p
    <3>2. QED
      BY <2>1, <2>6, <2>7, <2>8, <3>1, SingleSame
  <2>10. QED
    BY <2>4, <2>9
<1>7. QED
  BY <1>2, <1>3, <1>4, <1>5, <1>6

\* All of them: what clap was given can be read off what is collected.
LEMMA AllSame ==
    ASSUME NEW f, DOMAIN f.params \subseteq Nat,
           \A i \in DOMAIN f.params : f.params[i].ty \in Type /\ Spelled(f.params[i].ty),
           NEW m, NEW n, AcceptsEach(BuildFuncCommand(f), m), AcceptsEach(BuildFuncCommand(f), n),
           CollectArgs(m, f).is = "ok", CollectArgs(m, f) = CollectArgs(n, f)
    PROVE  m = n
<1> DEFINE cmd == BuildFuncCommand(f)
           multi == MultiRecord(f)
<1>1. PICK rs, qs : /\ rs = [i \in DOMAIN f.params |-> CollectOne(m, f.params[i], multi)]
                    /\ qs = [i \in DOMAIN f.params |-> CollectOne(n, f.params[i], multi)]
  OBVIOUS
<1>2. CollectArgs(m, f) = Sequence(rs) /\ CollectArgs(n, f) = Sequence(qs)
  BY <1>1 DEF CollectArgs, MultiRecordToCollect, MultiRecord
<1>3. DOMAIN rs = DOMAIN f.params /\ DOMAIN qs = DOMAIN f.params
  BY <1>1
<1>4. /\ Sequence(rs).is = "ok" /\ Sequence(qs).is = "ok"
      /\ Sequence(rs).vals = Sequence(qs).vals
  BY <1>2
<1>5. \A i \in DOMAIN f.params :
          rs[i].is = "ok" /\ qs[i].is = "ok" /\ rs[i].vals[1] = qs[i].vals[1]
  BY <1>3, <1>4, SequenceSame
<1>6. \A i \in DOMAIN f.params : \A k \in DOMAIN ParamArgs(f)[i] :
          m[ParamArgs(f)[i][k].id].values = n[ParamArgs(f)[i][k].id].values
  <2> SUFFICES ASSUME NEW i \in DOMAIN f.params
               PROVE  \A k \in DOMAIN ParamArgs(f)[i] :
                          m[ParamArgs(f)[i][k].id].values = n[ParamArgs(f)[i][k].id].values
    OBVIOUS
  <2>1. /\ CollectOne(m, f.params[i], MultiRecord(f)).is = "ok"
        /\ CollectOne(n, f.params[i], MultiRecord(f)).is = "ok"
        /\ CollectOne(m, f.params[i], MultiRecord(f)).vals[1]
             = CollectOne(n, f.params[i], MultiRecord(f)).vals[1]
    BY <1>1, <1>5
  <2>2. QED
    BY <2>1, OneSame
<1>7. ASSUME NEW id \in Ids(cmd) PROVE m[id] = n[id]
  <2>1. PICK x \in Places(f) : id = cmd.args[x].id
    BY DEF Ids, BuildFuncCommand
  <2>2. PICK i \in DOMAIN f.params : \E k \in DOMAIN ParamArgs(f)[i] : x = <<i, k>>
    BY <2>1 DEF Places
  <2>3. PICK k \in DOMAIN ParamArgs(f)[i] : x = <<i, k>>
    BY <2>2
  <2>4. id = ParamArgs(f)[i][k].id
    BY <2>1, <2>3 DEF BuildFuncCommand
  <2>5. m[id].values = n[id].values
    BY <1>6, <2>4
  <2>6. FitsAlone(ParamArgs(f)[i][k], m[id]) /\ FitsAlone(ParamArgs(f)[i][k], n[id])
    BY <2>4, VouchedFor
  <2>7. QED
    BY <2>5, <2>6 DEF FitsAlone
<1>8. /\ m = [id \in Ids(cmd) |-> m[id]]
      /\ n = [id \in Ids(cmd) |-> n[id]]
  BY DEF AcceptsEach
<1>9. QED
  <2> HIDE DEF cmd
  <2>1. [id \in Ids(cmd) |-> m[id]] = [id \in Ids(cmd) |-> n[id]]
    BY <1>7
  <2>2. QED
    BY <1>8, <2>1

\* The parameters of a function that is offered.
LEMMA OfferedIs ==
    ASSUME component \in Component, surface = Surface(component), NEW f \in Offered
    PROVE  /\ DOMAIN f.params \subseteq Nat /\ Sound(f)
           /\ \A i \in DOMAIN f.params : f.params[i].ty \in Type
<1>1. PICK i \in DOMAIN surface : f \in Range(surface[i].funcs)
  BY DEF Offered
<1>2. PICK j \in DOMAIN surface[i].funcs : f = surface[i].funcs[j]
  BY <1>1 DEF Range
<1>3. i \in DOMAIN component /\ surface[i].funcs = Extracted(component[i].funcs)
  BY DEF Surface, Items
<1>4. j \in DOMAIN component[i].funcs /\ f = component[i].funcs[j]
  BY <1>2, <1>3 DEF Extracted, Restrict
<1>5. Sound(f)
  BY <1>3, <1>4, FunctionIs
<1>6. QED
  BY <1>5 DEF Sound

\* Two command lines that clap accepts for a function are never collected into
\* the same values: nothing that the user wrote is ignored.
THEOREM NothingIsEverIgnored == Spec => []NothingIsIgnored
<1>1. IInv => NothingIsIgnored
  <2> SUFFICES ASSUME IInv, stage = "match", NEW f \in Offered, SpelledFunc(f),
                      NEW m \in Matches(BuildFuncCommand(f)), NEW n \in Matches(BuildFuncCommand(f)),
                      CollectArgs(m, f).is = "ok", CollectArgs(m, f) = CollectArgs(n, f)
               PROVE  m = n
    BY DEF NothingIsIgnored
  <2>1. component \in Component /\ surface = Surface(component)
    BY DEF IInv, Staged
  <2>2. /\ DOMAIN f.params \subseteq Nat
        /\ \A i \in DOMAIN f.params : f.params[i].ty \in Type /\ Spelled(f.params[i].ty)
    BY <2>1, OfferedIs DEF SpelledFunc
  <2>3. Distinct(BuildFuncCommand(f))
    BY <2>1, OfferedIs, IdsApart DEF SpelledFunc, Offered
  <2>4. AcceptsEach(BuildFuncCommand(f), m) /\ AcceptsEach(BuildFuncCommand(f), n)
    BY <2>3, AcceptsIs DEF Matches
  <2>5. QED
    BY <2>2, <2>4, AllSame
<1>2. QED
  BY <1>1, Invariant, PTL

(***************************************************************************)
(* Every call can be made: CommandLine undoes collecting.  First, what is  *)
(* collected of members that are each as they should be.                   *)
(***************************************************************************)

LEMMA SequenceGood ==
    ASSUME NEW rs, NEW vs, DOMAIN vs = DOMAIN rs, vs = [i \in DOMAIN vs |-> vs[i]],
           \A i \in DOMAIN rs : rs[i] = Good(vs[i])
    PROVE  Sequence(rs) = [is |-> "ok", vals |-> vs]
<1>1. \A i \in DOMAIN rs : rs[i].is = "ok" /\ rs[i].vals[1] = vs[i]
  BY DEF Good
<1>2. ~\E i \in DOMAIN rs : FirstBad(rs, i)
  BY <1>1 DEF FirstBad
<1>3. Sequence(rs) = [is |-> "ok", vals |-> [i \in DOMAIN rs |-> rs[i].vals[1]]]
  BY <1>2 DEF Sequence
<1>4. [i \in DOMAIN rs |-> rs[i].vals[1]] = [i \in DOMAIN vs |-> vs[i]]
  BY <1>1
<1>5. QED
  BY <1>3, <1>4

LEMMA MadeGood ==
    ASSUME NEW kind, NEW val,
           NEW rs, NEW vs, DOMAIN vs = DOMAIN rs, vs = [i \in DOMAIN vs |-> vs[i]],
           \A i \in DOMAIN rs : rs[i] = Good(vs[i])
    PROVE  Made(kind, val, Sequence(rs)) = Good(Value(kind, val, vs))
<1>1. Sequence(rs) = [is |-> "ok", vals |-> vs]
  BY SequenceGood
<1>2. Sequence(rs).is = "ok" /\ Sequence(rs).vals = vs
  BY <1>1
<1>3. QED
  BY <1>2 DEF Made

LEMMA MadeOneGood ==
    ASSUME NEW kind, NEW val, NEW v
    PROVE  Made(kind, val, Sequence(<<Good(v)>>)) = Good(Value(kind, val, <<v>>))
<1>1. PICK rs, vs : rs = <<Good(v)>> /\ vs = <<v>>
  OBVIOUS
<1>2. /\ DOMAIN vs = {1} /\ DOMAIN rs = {1} /\ vs = [i \in {1} |-> vs[i]]
      /\ rs[1] = Good(v) /\ vs[1] = v
  BY <1>1
<1>3. Made(kind, val, Sequence(rs)) = Good(Value(kind, val, vs))
  BY <1>2, MadeGood
<1>4. QED
  BY <1>1, <1>3

(***************************************************************************)
(* What is said for a value, clap can store, and it is read back.          *)
(***************************************************************************)

LEMMA ScalarSaid ==
    ASSUME NEW ty, Scalar(ty), NEW v \in Scalars(ty)
    PROVE  /\ v.kind = ty.kind /\ Said(v) = <<Token(v)>> /\ ~Blank(v)
           /\ Token(v) \in Tokens(ty)
           /\ Element(ty, Token(v)) = Good(v)
<1>1. CASE ty.kind \in {"int", "f64"}
  <2>1. PICK n \in {"0", "1"} : v = Value(ty.kind, n, <<>>)
    BY <1>1 DEF Scalars
  <2>2. v.kind = ty.kind
    BY <2>1 DEF Value
  <2>3. Token(v) = v /\ Said(v) = <<Token(v)>> /\ ~Blank(v)
    BY <1>1, <2>2 DEF Token, Said, Blank
  <2>4. QED
    BY <1>1, <2>1, <2>2, <2>3 DEF Tokens, Element
<1>2. CASE ty.kind \in {"string", "enum"}
  <2>1. PICK c : /\ v = Value(ty.kind, c, <<>>)
                 /\ ty.kind = "string" => c \in Word
                 /\ ty.kind = "enum" => c \in ToSet(ty.names)
    BY <1>2 DEF Scalars
  <2>2. v.kind = ty.kind /\ v.val = c /\ v.of = <<>>
    BY <2>1 DEF Value
  <2>3. Token(v) = Value("string", c, <<>>) /\ Said(v) = <<Token(v)>> /\ ~Blank(v)
    BY <1>2, <2>2 DEF Token, Said, Blank
  <2>4. Token(v) \in Tokens(ty)
    BY <1>2, <2>1, <2>3 DEF Tokens
  <2>5. Element(ty, Token(v)) = PrimitiveFromStr(ty, Token(v)) /\ Token(v).val = c
    BY <1>2, <2>3 DEF Element, Value
  <2>6. Element(ty, Token(v)) = Good(v)
    BY <1>2, <2>1, <2>5 DEF PrimitiveFromStr
  <2>7. QED
    BY <2>2, <2>3, <2>4, <2>6
<1>3. QED
  BY <1>1, <1>2 DEF Scalar

LEMMA SeqOfSeq ==
    ASSUME NEW S, NEW s \in SeqOf(S, MaxRepeats) PROVE s \in Seq(S)
<1>1. PICK n \in 0..MaxRepeats : s \in [1..n -> S]
  BY DEF SeqOf
<1>2. n \in Nat
  BY DEF MaxRepeats
<1>3. QED
  BY <1>1, <1>2

\* The values of a list.
LEMMA ListIs ==
    ASSUME NEW ty, ty.kind = "list", Scalar(ty.of[1]), NEW v \in Plains(ty)
    PROVE  /\ v = Value("list", "", v.of) /\ v.kind = "list"
           /\ v.of \in Seq(Scalars(ty.of[1]))
<1>1. PICK s \in SeqOf(Scalars(ty.of[1]), MaxRepeats) : v = Value("list", "", s)
  BY DEF Plains
<1>2. v.of = s /\ v.kind = "list"
  BY <1>1 DEF Value
<1>3. s \in Seq(Scalars(ty.of[1]))
  BY SeqOfSeq
<1>4. QED
  BY <1>1, <1>2, <1>3

LEMMA ListSaid ==
    ASSUME NEW ty, ty.kind = "list", Scalar(ty.of[1]), NEW v \in Plains(ty)
    PROVE  /\ Said(v) = [i \in DOMAIN v.of |-> Token(v.of[i])]
           /\ Said(v) \in Seq(Tokens(ty.of[1]))
           /\ Blank(v) <=> Said(v) = <<>>
<1> DEFINE inner == ty.of[1]
<1>1. PICK s \in Seq(Scalars(inner)) : v = Value("list", "", s)
  BY ListIs
<1>2. v.kind = "list" /\ v.of = s
  BY <1>1 DEF Value
<1>3. Said(v) = [i \in DOMAIN s |-> Token(s[i])]
  BY <1>2 DEF Said
<1>4. \A i \in DOMAIN s : Token(s[i]) \in Tokens(inner)
  <2> HIDE DEF inner
  <2>1. Scalar(inner)
    BY DEF inner
  <2>2. \A i \in DOMAIN s : s[i] \in Scalars(inner)
    OBVIOUS
  <2>3. QED
    BY <2>1, <2>2, ScalarSaid
<1>5. Said(v) \in Seq(Tokens(inner))
  <2>1. DOMAIN s = 1..Len(s) /\ Len(s) \in Nat
    OBVIOUS
  <2>2. QED
    BY <1>3, <1>4, <2>1
<1>6. Blank(v) <=> Said(v) = <<>>
  <2>1. DOMAIN Said(v) = DOMAIN s
    BY <1>3
  <2>2. Said(v) = <<>> <=> s = <<>>
    BY <1>5, <2>1
  <2>3. QED
    BY <1>2, <2>2 DEF Blank
<1>7. QED
  BY <1>2, <1>3, <1>5, <1>6

\* What clap has stored where a value was said.
Says(given, id, ty, v) ==
    id \in DOMAIN given /\ given[id] = [as |-> StoredAs(Held(ty)), values |-> Said(v)]

LEMMA SaysIs ==
    ASSUME NEW given, NEW id, NEW ty, NEW v, Says(given, id, ty, v)
    PROVE  ~Panics(given, id, Held(ty)) /\ given[id].values = Said(v) /\ id \in DOMAIN given
BY DEF Says, Panics

LEMMA ManyCollects ==
    ASSUME NEW ty, ty.kind = "list", Scalar(ty.of[1]), NEW v \in Plains(ty),
           NEW given, NEW id, Says(given, id, ty, v)
    PROVE  CollectTypedMany(given, id, ty.of[1]) = Good(v)
<1> DEFINE inner == ty.of[1]
<1>1. Held(ty) = inner
  BY DEF Held
<1>2. ~Panics(given, id, inner) /\ given[id].values = Said(v)
  BY <1>1, SaysIs
<1>3. v = Value("list", "", v.of) /\ v.of \in Seq(Scalars(inner))
  BY ListIs
<1>4. Said(v) = [i \in DOMAIN v.of |-> Token(v.of[i])]
  BY ListSaid
<1>5. PICK rs, s : rs = [i \in DOMAIN Said(v) |-> Element(inner, Said(v)[i])] /\ s = v.of
  OBVIOUS
<1>6. CollectTypedMany(given, id, inner) = Made("list", "", Sequence(rs))
  BY <1>2, <1>5 DEF CollectTypedMany
<1>7. DOMAIN rs = DOMAIN s /\ \A i \in DOMAIN s : rs[i] = Element(inner, Token(s[i]))
  BY <1>4, <1>5
<1>8. s = [i \in DOMAIN s |-> s[i]] /\ \A i \in DOMAIN s : s[i] \in Scalars(inner)
  <2>1. s \in Seq(Scalars(inner))
    BY <1>3, <1>5
  <2> HIDE DEF inner
  <2>2. QED
    BY <2>1
<1>9. \A i \in DOMAIN rs : rs[i] = Good(s[i])
  <2> HIDE DEF inner
  <2>1. Scalar(inner)
    BY DEF inner
  <2>2. QED
    BY <1>7, <1>8, <2>1, ScalarSaid
<1>10. PICK kind, val : kind = "list" /\ val = ""
  OBVIOUS
<1>11. Made(kind, val, Sequence(rs)) = Good(Value(kind, val, s))
  BY <1>7, <1>8, <1>9, MadeGood
<1>12. QED
  BY <1>3, <1>5, <1>6, <1>10, <1>11

LEMMA TypedCollects ==
    ASSUME NEW ty, Plain(ty), NEW v \in Plains(ty), NEW given, NEW id, Says(given, id, ty, v)
    PROVE  CollectTyped(given, id, ty) = Good(v)
<1>1. CASE ty.kind = "list"
  <2>1. CollectTyped(given, id, ty) = CollectTypedMany(given, id, ty.of[1])
    BY <1>1 DEF CollectTyped
  <2>2. Scalar(ty.of[1])
    BY <1>1 DEF Plain, Scalar
  <2>3. QED
    BY <1>1, <2>1, <2>2, ManyCollects
<1>2. CASE ty.kind # "list"
  <2>1. Scalar(ty) /\ v \in Scalars(ty) /\ Held(ty) = ty
    BY <1>2 DEF Plain, Plains, Held
  <2>2. ~Panics(given, id, ty) /\ given[id].values = <<Token(v)>>
    BY <2>1, SaysIs, ScalarSaid
  <2>3. given[id].values # <<>> /\ given[id].values[1] = Token(v)
    BY <2>2
  <2>4. CollectTyped(given, id, ty) = Element(ty, Token(v))
    BY <2>1, <2>2, <2>3 DEF CollectTyped, Scalar
  <2>5. QED
    BY <2>1, <2>4, ScalarSaid
<1>3. QED
  BY <1>1, <1>2

\* Nothing is said exactly where a value takes nothing.
LEMMA PlainSaid ==
    ASSUME NEW ty, Plain(ty), NEW v \in Plains(ty)
    PROVE  /\ v.kind # "option"
           /\ Said(v) \in Seq(Tokens(Held(ty)))
           /\ Blank(v) <=> Said(v) = <<>>
           /\ ty.kind # "list" => Said(v) # <<>> /\ Len(Said(v)) <= 1
<1>1. CASE ty.kind = "list"
  <2>1. Scalar(ty.of[1]) /\ Held(ty) = ty.of[1]
    BY <1>1 DEF Plain, Scalar, Held
  <2>3. v.kind = "list"
    BY <1>1, <2>1, ListIs
  <2>4. QED
    BY <1>1, <2>1, <2>3, ListSaid
<1>2. CASE ty.kind # "list"
  <2>1. Scalar(ty) /\ v \in Scalars(ty) /\ Held(ty) = ty
    BY <1>2 DEF Plain, Plains, Held
  <2>2. v.kind = ty.kind /\ Said(v) = <<Token(v)>> /\ ~Blank(v) /\ Token(v) \in Tokens(ty)
    BY <2>1, ScalarSaid
  <2>3. Said(v) # <<>> /\ Len(Said(v)) <= 1 /\ Said(v) \in Seq(Tokens(ty))
    BY <2>2
  <2>4. QED
    BY <1>2, <2>1, <2>2, <2>3 DEF Scalar
<1>3. QED
  BY <1>1, <1>2

\* An option that is there, and one that is not.
LEMMA OptionSaid ==
    ASSUME NEW ty, Scalar(ty), NEW v \in Scalars(ty)
    PROVE  /\ Said(Some(v)) = <<Token(v)>> /\ ~Blank(Some(v))
           /\ Said(NoneValue) = <<>> /\ Blank(NoneValue)
<1>1. Some(v).kind = "option" /\ Some(v).of = <<v>>
  BY DEF Some, Value
<1>2. NoneValue.kind = "option" /\ NoneValue.of = <<>>
  BY DEF NoneValue, Value
<1>3. Said(Some(v)) = [i \in DOMAIN <<v>> |-> Token(<<v>>[i])]
  BY <1>1 DEF Said
<1>4. Said(Some(v)) = <<Token(v)>>
  BY <1>3
<1>5. Said(NoneValue) = <<>>
  BY <1>2 DEF Said
<1>6. QED
  BY <1>1, <1>2, <1>4, <1>5 DEF Blank

LEMMA NoneSaid ==
    /\ Said(NoneValue) = <<>> /\ Blank(NoneValue)
    /\ NoneValue.kind = "option" /\ NoneValue.of = <<>>
<1>1. NoneValue.kind = "option" /\ NoneValue.of = <<>>
  BY DEF NoneValue, Value
<1>2. Said(NoneValue) = <<>>
  BY <1>1 DEF Said
<1>3. QED
  BY <1>1, <1>2 DEF Blank

\* A field of an optional record, and an option of a scalar.
FieldType(ty) == Plain(ty) \/ (ty.kind = "option" /\ Scalar(ty.of[1]))

LEMMA FieldSaid ==
    ASSUME NEW ty, FieldType(ty), NEW v \in FieldValues(ty)
    PROVE  /\ Said(v) \in Seq(Tokens(Held(Effective(ty))))
           /\ Blank(v) <=> Said(v) = <<>>
           /\ Effective(ty).kind # "list" => Len(Said(v)) <= 1
<1>1. CASE ty.kind # "option"
  <2>1. Plain(ty) /\ v \in Plains(ty) /\ Effective(ty) = ty
    BY <1>1 DEF FieldType, FieldValues, Effective
  <2>2. /\ Said(v) \in Seq(Tokens(Held(ty))) /\ (Blank(v) <=> Said(v) = <<>>)
        /\ ty.kind # "list" => Len(Said(v)) <= 1
    BY <2>1, PlainSaid
  <2>3. Said(v) \in Seq(Tokens(Held(Effective(ty)))) /\ Effective(ty).kind = ty.kind
    BY <2>1, <2>2
  <2>4. QED
    BY <2>2, <2>3
<1>2. CASE ty.kind = "option"
  <2> DEFINE inner == ty.of[1]
  <2>1. Scalar(inner) /\ Effective(ty) = inner /\ Held(inner) = inner
    BY <1>2 DEF FieldType, Plain, Scalar, Effective, Held
  <2>2. CASE v = NoneValue
    BY <2>1, <2>2, NoneSaid
  <2>3. CASE \E w \in Scalars(inner) : v = Some(w)
    <3>1. PICK w \in Scalars(inner) : v = Some(w)
      BY <2>3
    <3> HIDE DEF inner
    <3>2. Said(v) = <<Token(w)>> /\ ~Blank(v) /\ Token(w) \in Tokens(inner)
      BY <2>1, <3>1, OptionSaid, ScalarSaid
    <3>3. QED
      BY <2>1, <3>2
  <2>4. QED
    BY <1>2, <2>2, <2>3 DEF FieldValues
<1>3. QED
  BY <1>1, <1>2

LEMMA FieldCollects ==
    ASSUME NEW ty, FieldType(ty), NEW v \in FieldValues(ty),
           NEW given, NEW flag, Says(given, flag, Effective(ty), v)
    PROVE  CollectOptionField(given, flag, ty) = Good(v)
<1>0. given[flag].values = Said(v) /\ flag \in DOMAIN given
  BY SaysIs
<1>1. CASE ty.kind # "option"
  <2>1. Plain(ty) /\ v \in Plains(ty) /\ Effective(ty) = ty
    BY <1>1 DEF FieldType, FieldValues, Effective
  <2>2. QED
    BY <1>1, <2>1, TypedCollects DEF CollectOptionField
<1>2. CASE ty.kind = "option"
  <2> DEFINE inner == ty.of[1]
  <2>1. Scalar(inner) /\ Plain(inner) /\ Effective(ty) = inner
    BY <1>2 DEF FieldType, Plain, Scalar, Effective
  <2>2. CASE v = NoneValue
    <3>1. ~ContainsId(given, flag)
      BY <1>0, <2>2, NoneSaid DEF ContainsId
    <3>2. QED
      BY <1>0, <1>2, <2>2, <3>1 DEF CollectOptionField
  <2>3. CASE \E w \in Scalars(inner) : v = Some(w)
    <3>1. PICK w \in Scalars(inner) : v = Some(w)
      BY <2>3
    <3>2. Said(v) = <<Token(w)>> /\ Said(w) = <<Token(w)>> /\ w \in Plains(inner)
      <4> HIDE DEF inner
      <4>1. Said(v) = <<Token(w)>> /\ Said(w) = <<Token(w)>>
        BY <2>1, <3>1, OptionSaid, ScalarSaid
      <4>2. inner.kind # "list"
        BY <2>1 DEF Scalar
      <4>3. QED
        BY <4>1, <4>2 DEF Plains
    <3>3. Says(given, flag, inner, w)
      BY <2>1, <3>2 DEF Says
    <3>4. CollectTyped(given, flag, inner) = Good(w)
      BY <2>1, <3>2, <3>3, TypedCollects
    <3>5. ContainsId(given, flag)
      BY <1>0, <3>2 DEF ContainsId
    <3>6. CollectOptionField(given, flag, ty) = Made("option", "", Sequence(<<Good(w)>>))
      BY <1>0, <1>2, <3>4, <3>5 DEF CollectOptionField
    <3>7. PICK kind, val : kind = "option" /\ val = ""
      OBVIOUS
    <3>8. Made(kind, val, Sequence(<<Good(w)>>)) = Good(Value(kind, val, <<w>>))
      BY MadeOneGood
    <3>9. QED
      BY <3>1, <3>6, <3>7, <3>8 DEF Some
  <2>4. QED
    BY <1>2, <2>2, <2>3 DEF FieldValues
<1>3. QED
  BY <1>1, <1>2

\* The one token of a positional argument.
LEMMA ScalarSingle ==
    ASSUME NEW ty, Scalar(ty), NEW v \in Scalars(ty), NEW given, NEW id, id \in DOMAIN given,
           given[id].as = StoredAs(ty), given[id].values = <<Token(v)>>
    PROVE  CollectSingle(given, id, ty) = Good(v)
<1>1. ~Panics(given, id, ty)
  BY DEF Panics
<1>2. given[id].values # <<>> /\ given[id].values[1] = Token(v)
  OBVIOUS
<1>3. CollectSingle(given, id, ty) = Element(ty, Token(v))
  BY <1>1, <1>2 DEF CollectSingle, Scalar
<1>4. QED
  BY <1>3, ScalarSaid

\* The payloads of a variant that can be spelled out are strings.
Payloads(ty) == \A i \in DOMAIN ty.of : ty.of[i].kind \in {"none", "string"}

LEMMA CaseIs ==
    ASSUME NEW ty \in Type, ty.kind = "variant", Payloads(ty), NEW v \in ValuesOf(ty)
    PROVE  \E i \in DOMAIN ty.names :
              /\ i \in DOMAIN ty.of /\ v.kind = "variant" /\ v.val = ty.names[i]
              /\ v = Value("variant", v.val, v.of)
              /\ \/ ty.of[i].kind = "none" /\ v.of = <<>>
                 \/ /\ ty.of[i].kind = "string"
                    /\ \E w \in Word : v.of = <<Value("string", w, <<>>)>>
<1>1. PICK i \in DOMAIN ty.of : v \in Cases(ty, i)
  BY DEF ValuesOf
<1>2. DOMAIN ty.names = DOMAIN ty.of
  BY TypeAssumption
<1>3. CASE ty.of[i].kind = "none"
  <2>1. v = Value("variant", ty.names[i], <<>>)
    BY <1>1, <1>3 DEF Cases
  <2>2. v.kind = "variant" /\ v.val = ty.names[i] /\ v.of = <<>>
    BY <2>1 DEF Value
  <2>3. QED
    BY <1>2, <1>3, <2>1, <2>2
<1>4. CASE ty.of[i].kind = "string"
  <2>1. PICK u \in Scalars(ty.of[i]) : v = Value("variant", ty.names[i], <<u>>)
    BY <1>1, <1>4 DEF Cases
  <2>2. PICK w \in Word : u = Value("string", w, <<>>)
    BY <1>4 DEF Scalars
  <2>3. v.kind = "variant" /\ v.val = ty.names[i] /\ v.of = <<u>>
    BY <2>1 DEF Value
  <2>4. QED
    BY <1>2, <1>4, <2>1, <2>2, <2>3
<1>5. QED
  BY <1>3, <1>4 DEF Payloads

LEMMA VariantSaid ==
    ASSUME NEW ty \in Type, ty.kind = "variant", Payloads(ty), NEW v \in ValuesOf(ty)
    PROVE  /\ v.kind = "variant" /\ Said(v) = <<Token(v)>> /\ ~Blank(v)
           /\ Token(v) \in Tokens(ty)
           /\ VariantOf(ty, Token(v)) = Good(v)
<1>1. PICK i \in DOMAIN ty.names :
              /\ i \in DOMAIN ty.of /\ v.kind = "variant" /\ v.val = ty.names[i]
              /\ v = Value("variant", v.val, v.of)
              /\ \/ ty.of[i].kind = "none" /\ v.of = <<>>
                 \/ /\ ty.of[i].kind = "string"
                    /\ \E w \in Word : v.of = <<Value("string", w, <<>>)>>
  BY CaseIs
<1>2. Said(v) = <<Token(v)>> /\ ~Blank(v)
  BY <1>1 DEF Said, Blank
<1>3. PICK x, of : x = v.val /\ of = v.of /\ v = Value("variant", x, of)
  BY <1>1
<1>4. Token(v) = Value("string", x, of) /\ Token(v).val = x /\ Token(v).of = of
  BY <1>1, <1>3 DEF Token, Value
<1>5. x \in ToSet(ty.names)
  BY <1>1, <1>3 DEF ToSet
<1>6. of \in {<<>>} \union {<<Value("string", w, <<>>)>> : w \in Word}
  BY <1>1, <1>3
<1>7. Token(v) \in Tokens(ty)
  BY <1>4, <1>5, <1>6 DEF Tokens
<1>8. (CHOOSE j \in DOMAIN ty.names : ty.names[j] = x) = i
  <2>1. \A j \in DOMAIN ty.names : ty.names[j] = x => j = i
    BY <1>1, <1>3, TypeAssumption
  <2>2. QED
    BY <1>1, <1>3, <2>1
<1>9. VariantOf(ty, Token(v)) = Good(v)
  <2>1. CASE ty.of[i].kind = "none" /\ of = <<>>
    BY <1>3, <1>4, <1>5, <1>8, <2>1 DEF VariantOf
  <2>2. CASE ty.of[i].kind = "string" /\ \E w \in Word : of = <<Value("string", w, <<>>)>>
    <3>1. PICK w \in Word : of = <<Value("string", w, <<>>)>>
      BY <2>2
    <3>2. of # <<>> /\ of[1] = Value("string", w, <<>>) /\ of[1].val = w
      BY <3>1 DEF Value
    <3>3. PrimitiveFromStr(ty.of[i], of[1]) = Good(of[1])
      BY <2>2, <3>2 DEF PrimitiveFromStr
    <3>4. VariantOf(ty, Token(v))
            = Made("variant", x, Sequence(<<PrimitiveFromStr(ty.of[i], of[1])>>))
      BY <1>4, <1>5, <1>8, <2>2, <3>2 DEF VariantOf
    <3>5. PICK kind, u : kind = "variant" /\ u = of[1]
      OBVIOUS
    <3>6. Made(kind, x, Sequence(<<Good(u)>>)) = Good(Value(kind, x, <<u>>))
      BY MadeOneGood
    <3>7. <<u>> = of
      BY <3>1, <3>5
    <3>8. QED
      BY <1>3, <3>3, <3>4, <3>5, <3>6, <3>7
  <2>3. QED
    BY <1>1, <1>3, <2>1, <2>2
<1>10. QED
  BY <1>1, <1>2, <1>7, <1>9

LEMMA VariantSingle ==
    ASSUME NEW ty \in Type, ty.kind = "variant", Payloads(ty), NEW v \in ValuesOf(ty),
           NEW given, NEW id, id \in DOMAIN given,
           given[id].as = StoredAs(ty), given[id].values = <<Token(v)>>
    PROVE  CollectSingle(given, id, ty) = Good(v)
<1>1. ~Panics(given, id, ty)
  BY DEF Panics
<1>2. given[id].values # <<>> /\ given[id].values[1] = Token(v)
  OBVIOUS
<1>3. CollectSingle(given, id, ty) = VariantOf(ty, Token(v))
  BY <1>1, <1>2 DEF CollectSingle
<1>4. QED
  BY <1>3, VariantSaid

(***************************************************************************)
(* Then, one parameter at a time.                                          *)
(***************************************************************************)

LEMMA OneOfEachIs ==
    ASSUME NEW sets, NEW s \in OneOfEach(sets)
    PROVE  /\ DOMAIN s = DOMAIN sets /\ s = [i \in DOMAIN s |-> s[i]]
           /\ \A i \in DOMAIN sets : s[i] \in sets[i]
BY DEF OneOfEach

LEMMA RecordValue ==
    ASSUME NEW ty, NEW v \in Records(ty)
    PROVE  /\ v.kind = "record" /\ v = Value("record", "", v.of)
           /\ DOMAIN v.of = DOMAIN ty.of /\ v.of = [k \in DOMAIN v.of |-> v.of[k]]
           /\ \A k \in DOMAIN ty.of : v.of[k] \in FieldValues(ty.of[k])
<1> DEFINE sets == [i \in DOMAIN ty.of |-> FieldValues(ty.of[i])]
<1>1. PICK s \in OneOfEach(sets) : v = Value("record", "", s)
  BY DEF Records
<1>2. v.kind = "record" /\ v.of = s
  BY <1>1 DEF Value
<1>3. DOMAIN sets = DOMAIN ty.of /\ \A k \in DOMAIN ty.of : sets[k] = FieldValues(ty.of[k])
  OBVIOUS
<1> HIDE DEF sets
<1>4. /\ DOMAIN s = DOMAIN sets /\ s = [k \in DOMAIN s |-> s[k]]
      /\ \A k \in DOMAIN sets : s[k] \in sets[k]
  BY OneOfEachIs
<1>5. \A k \in DOMAIN ty.of : s[k] \in FieldValues(ty.of[k])
  BY <1>3, <1>4
<1>6. QED
  BY <1>1, <1>2, <1>3, <1>4, <1>5

\* What is said fits the argument.
LEMMA ArgFits ==
    ASSUME NEW id, NEW form, NEW required \in BOOLEAN, NEW many \in BOOLEAN, NEW ty, NEW g, NEW s,
           g = [as |-> StoredAs(ty), values |-> s], s \in Seq(Tokens(ty)),
           required => s # <<>>, ~many => Len(s) <= 1
    PROVE  FitsAlone(Arg(id, form, required, many, ty), g)
<1> DEFINE a == Arg(id, form, required, many, ty)
<1>1. a.ty = ty /\ a.required = required /\ a.many = many
  BY DEF Arg
<1>2. g.values = s /\ g.as = StoredAs(ty)
  OBVIOUS
<1> HIDE DEF a
<1>3. FitsAlone(a, g)
  BY <1>1, <1>2 DEF FitsAlone
<1>4. QED
  BY <1>3 DEF a

LEMMA FieldFits ==
    ASSUME NEW flag, NEW ty, NEW required \in BOOLEAN, NEW g, NEW s,
           g = [as |-> StoredAs(Held(ty)), values |-> s], s \in Seq(Tokens(Held(ty))),
           ty.kind # "list" => Len(s) <= 1,
           required /\ ty.kind # "list" => s # <<>>
    PROVE  FitsAlone(FieldArg(flag, ty, required), g) /\ FieldArg(flag, ty, required).form = "flag"
<1>1. CASE ty.kind = "list"
  <2>1. FieldArg(flag, ty, required) = Arg(flag, "flag", FALSE, TRUE, Held(ty))
    BY <1>1 DEF FieldArg, Held
  <2>2. PICK form, no, yes : form = "flag" /\ no = FALSE /\ yes = TRUE
    OBVIOUS
  <2>3. FitsAlone(Arg(flag, form, no, yes, Held(ty)), g)
    <3>1. no \in BOOLEAN /\ yes \in BOOLEAN /\ ~no /\ yes
      BY <2>2
    <3>2. QED
      BY <3>1, ArgFits
  <2>4. FieldArg(flag, ty, required).form = "flag"
    BY <2>1 DEF Arg
  <2>5. FieldArg(flag, ty, required) = Arg(flag, form, no, yes, Held(ty))
    BY <2>1, <2>2
  <2>6. QED
    BY <2>3, <2>4, <2>5
<1>2. CASE ty.kind # "list"
  <2>1. FieldArg(flag, ty, required) = Arg(flag, "flag", required, FALSE, Held(ty))
    BY <1>2 DEF FieldArg, Held
  <2>2. PICK form, no : form = "flag" /\ no = FALSE
    OBVIOUS
  <2>3. FitsAlone(Arg(flag, form, required, no, Held(ty)), g)
    <3>1. no \in BOOLEAN /\ ~no
      BY <2>2
    <3>2. QED
      BY <1>2, <3>1, ArgFits
  <2>4. FieldArg(flag, ty, required).form = "flag"
    BY <2>1 DEF Arg
  <2>5. FieldArg(flag, ty, required) = Arg(flag, form, required, no, Held(ty))
    BY <2>1, <2>2
  <2>6. QED
    BY <2>3, <2>4, <2>5
<1>3. QED
  BY <1>1, <1>2

LEMMA RecordCollects ==
    ASSUME NEW p, NEW multi, p.ty.kind = "record", \A k \in DOMAIN p.ty.of : Plain(p.ty.of[k]),
           NEW v \in Records(p.ty), NEW given,
           \A k \in DOMAIN p.ty.of :
               Says(given, FieldFlag(p, p.ty.names[k], multi), p.ty.of[k], v.of[k])
    PROVE  CollectOne(given, p, multi) = Good(v)
<1>1. PICK rs, s : rs = Fields(given, p, multi) /\ s = v.of
  OBVIOUS
<1>2. CollectOne(given, p, multi) = Made("record", "", Sequence(rs))
  BY <1>1, OneOfKind
<1>3. /\ v = Value("record", "", s) /\ DOMAIN s = DOMAIN p.ty.of /\ s = [k \in DOMAIN s |-> s[k]]
      /\ \A k \in DOMAIN p.ty.of : s[k] \in FieldValues(p.ty.of[k])
  BY <1>1, RecordValue
<1>4. ASSUME NEW k \in DOMAIN p.ty.of PROVE rs[k] = Good(s[k])
  <2>1. PICK ty, flag : ty = p.ty.of[k] /\ flag = FieldFlag(p, p.ty.names[k], multi)
    OBVIOUS
  <2>2. rs[k] = CollectTyped(given, flag, ty)
    BY <1>1, <2>1 DEF Fields
  <2>3. Plain(ty) /\ s[k] \in Plains(ty)
    BY <1>3, <2>1 DEF FieldValues, Plain, Scalar
  <2>4. Says(given, flag, ty, s[k])
    BY <1>1, <2>1
  <2>5. QED
    BY <2>2, <2>3, <2>4, TypedCollects
<1>5. DOMAIN s = DOMAIN rs /\ s = [k \in DOMAIN s |-> s[k]]
  BY <1>1, <1>3 DEF Fields
<1>6. \A k \in DOMAIN rs : rs[k] = Good(s[k])
  BY <1>3, <1>4, <1>5
<1>7. PICK kind, val : kind = "record" /\ val = ""
  OBVIOUS
<1>8. Made(kind, val, Sequence(rs)) = Good(Value(kind, val, s))
  BY <1>5, <1>6, MadeGood
<1>9. QED
  BY <1>2, <1>3, <1>7, <1>8

\* An optional record that is not there, and one of which something is said.
LEMMA OptionRecordNone ==
    ASSUME NEW given, NEW p, p.ty.of[1].kind = "record",
           \A k \in DOMAIN p.ty.of[1].of :
               LET flag == Prefixed(p, p.ty.of[1].names[k]) IN
               flag \in DOMAIN given /\ given[flag].values = <<>>
    PROVE  CollectOption(given, p) = Good(NoneValue)
<1> DEFINE flags == {Prefixed(p, p.ty.of[1].names[i]) : i \in DOMAIN p.ty.of[1].of}
<1>1. flags \subseteq DOMAIN given
  OBVIOUS
<1>2. ~Supplied(given, p)
  BY DEF Supplied, ContainsId
<1>3. QED
  BY <1>1, <1>2 DEF CollectOption

LEMMA OptionRecordSome ==
    ASSUME NEW given, NEW p, p.ty.of[1].kind = "record",
           \A k \in DOMAIN p.ty.of[1].of : FieldType(p.ty.of[1].of[k]),
           NEW r \in Records(p.ty.of[1]),
           \A k \in DOMAIN p.ty.of[1].of :
               Says(given, Prefixed(p, p.ty.of[1].names[k]), Effective(p.ty.of[1].of[k]), r.of[k]),
           \E k \in DOMAIN p.ty.of[1].of : ~Blank(r.of[k])
    PROVE  CollectOption(given, p) = Good(Some(r))
<1> DEFINE inner == p.ty.of[1]
           flags == {Prefixed(p, inner.names[i]) : i \in DOMAIN inner.of}
<1>1. PICK rs, s : rs = OptionFields(given, p) /\ s = r.of
  OBVIOUS
<1>2. /\ r = Value("record", "", s) /\ DOMAIN s = DOMAIN inner.of /\ s = [k \in DOMAIN s |-> s[k]]
      /\ \A k \in DOMAIN inner.of : s[k] \in FieldValues(inner.of[k])
  BY <1>1, RecordValue
<1>3. ASSUME NEW k \in DOMAIN inner.of
      PROVE  /\ rs[k] = Good(s[k]) /\ Prefixed(p, inner.names[k]) \in DOMAIN given
             /\ ~Blank(s[k]) => ContainsId(given, Prefixed(p, inner.names[k]))
  <2>1. PICK ty, flag : ty = inner.of[k] /\ flag = Prefixed(p, inner.names[k])
    OBVIOUS
  <2>2. rs[k] = CollectOptionField(given, flag, ty)
    BY <1>1, <2>1 DEF OptionFields
  <2>3. FieldType(ty) /\ s[k] \in FieldValues(ty)
    BY <1>2, <2>1
  <2>4. Says(given, flag, Effective(ty), s[k])
    BY <1>1, <2>1
  <2>5. rs[k] = Good(s[k])
    BY <2>2, <2>3, <2>4, FieldCollects
  <2>6. flag \in DOMAIN given /\ given[flag].values = Said(s[k])
    BY <2>4, SaysIs
  <2>7. Blank(s[k]) <=> Said(s[k]) = <<>>
    BY <2>3, FieldSaid
  <2>8. QED
    BY <2>1, <2>5, <2>6, <2>7 DEF ContainsId
<1>4. flags \subseteq DOMAIN given
  BY <1>3
<1>5. Supplied(given, p)
  BY <1>1, <1>3 DEF Supplied
<1>6. CollectOption(given, p) = Made("option", "", Sequence(<<Made("record", "", Sequence(rs))>>))
  BY <1>1, <1>4, <1>5 DEF CollectOption, OptionFields
<1>7. DOMAIN s = DOMAIN rs /\ s = [k \in DOMAIN s |-> s[k]]
  BY <1>1, <1>2 DEF OptionFields
<1>8. \A k \in DOMAIN rs : rs[k] = Good(s[k])
  BY <1>2, <1>3, <1>7
<1>9. PICK record, option, val : record = "record" /\ option = "option" /\ val = ""
  OBVIOUS
<1>10. Made(record, val, Sequence(rs)) = Good(Value(record, val, s))
  BY <1>7, <1>8, MadeGood
<1>11. Made("record", "", Sequence(rs)) = Good(r)
  BY <1>2, <1>9, <1>10
<1>12. Made(option, val, Sequence(<<Good(r)>>)) = Good(Value(option, val, <<r>>))
  BY MadeOneGood
<1>13. QED
  BY <1>6, <1>9, <1>11, <1>12 DEF Some

LEMMA OptionScalarCollects ==
    ASSUME NEW given, NEW p, p.ty.kind = "option", Scalar(p.ty.of[1]), NEW v \in FieldValues(p.ty),
           Says(given, p.name, p.ty.of[1], v)
    PROVE  CollectOption(given, p) = Good(v)
<1> DEFINE inner == p.ty.of[1]
<1>0. inner.kind # "record" /\ Held(inner) = inner
  BY DEF Scalar, Held
<1>1. p.name \in DOMAIN given /\ given[p.name].values = Said(v) /\ given[p.name].as = StoredAs(inner)
  BY <1>0 DEF Says
<1>2. CASE v = NoneValue
  <2>1. ~ContainsId(given, p.name)
    BY <1>1, <1>2, NoneSaid DEF ContainsId
  <2>2. QED
    BY <1>0, <1>1, <1>2, <2>1 DEF CollectOption
<1>3. CASE \E w \in Scalars(inner) : v = Some(w)
  <2>1. PICK w \in Scalars(inner) : v = Some(w)
    BY <1>3
  <2>2. Scalar(inner)
    OBVIOUS
  <2>3. given[p.name].values = <<Token(w)>>
    <3> HIDE DEF inner
    <3>1. Said(v) = <<Token(w)>>
      BY <2>1, <2>2, OptionSaid
    <3>2. QED
      BY <1>1, <3>1
  <2>4. CollectSingle(given, p.name, inner) = Good(w)
    <3> HIDE DEF inner
    <3>1. QED
      BY <1>1, <2>2, <2>3, ScalarSingle
  <2>5. ContainsId(given, p.name)
    BY <2>3 DEF ContainsId
  <2>6. CollectOption(given, p) = Made("option", "", Sequence(<<Good(w)>>))
    BY <1>0, <1>1, <2>4, <2>5 DEF CollectOption
  <2>7. PICK option, val : option = "option" /\ val = ""
    OBVIOUS
  <2>8. Made(option, val, Sequence(<<Good(w)>>)) = Good(Value(option, val, <<w>>))
    BY MadeOneGood
  <2>9. QED
    BY <2>1, <2>6, <2>7, <2>8 DEF Some
<1>4. QED
  BY <1>2, <1>3 DEF FieldValues

\* What is said for an argument of a parameter, and what clap stores of it.
SaidFor(ty, v, k) ==
    CASE ty.kind = "record" -> Said(v.of[k])
      [] ty.kind = "option" /\ ty.of[1].kind = "record" ->
            IF v.of = <<>> THEN <<>> ELSE Said(v.of[1].of[k])
      [] OTHER -> Said(v)

Holds(given, a, values) ==
    a.id \in DOMAIN given /\ given[a.id] = [as |-> StoredAs(a.ty), values |-> values]

\* The parameter is collected into the value, clap accepts what is said for it,
\* and a positional argument is left out exactly where the value takes nothing.
IsMade(given, p, multi, last, v) ==
    /\ CollectOne(given, p, multi) = Good(v)
    /\ \A k \in DOMAIN AddParamArgs(p, multi, last) :
          LET a == AddParamArgs(p, multi, last)[k] IN
          /\ FitsAlone(a, given[a.id])
          /\ a.form = "positional" =>
                /\ \/ p.ty.kind \in Single
                   \/ p.ty.kind = "option" /\ p.ty.of[1].kind # "record"
                   \/ p.ty.kind = "list" /\ last
                /\ Blank(v) <=> given[a.id].values = <<>>

LEMMA SingleIsMade ==
    ASSUME NEW p, p.ty \in Type, p.ty.kind \in Single, Spelled(p.ty), NEW v \in ValuesOf(p.ty),
           NEW multi \in BOOLEAN, NEW last \in BOOLEAN, NEW given,
           \A k \in DOMAIN AddParamArgs(p, multi, last) :
               Holds(given, AddParamArgs(p, multi, last)[k], SaidFor(p.ty, v, k))
    PROVE  IsMade(given, p, multi, last, v)
<1>1. PICK ty, id, form, required, many :
          ty = p.ty /\ id = p.name /\ form = "positional" /\ required = TRUE /\ many = FALSE
  OBVIOUS
<1> DEFINE a == Arg(id, form, required, many, ty)
<1>2. AddParamArgs(p, multi, last) = <<a>>
  <2>1. AddParamArgs(p, multi, last) = <<Arg(p.name, "positional", TRUE, FALSE, p.ty)>>
    BY DEF AddParamArgs, Single
  <2>2. QED
    BY <1>1, <2>1
<1>3. a.id = id /\ a.ty = ty
  BY DEF Arg
<1> HIDE DEF a
<1>4. DOMAIN AddParamArgs(p, multi, last) = {1} /\ AddParamArgs(p, multi, last)[1] = a
  BY <1>2
<1>5. SaidFor(p.ty, v, 1) = Said(v)
  BY DEF SaidFor, Single
<1>6. id \in DOMAIN given /\ given[id] = [as |-> StoredAs(ty), values |-> Said(v)]
  BY <1>3, <1>4, <1>5 DEF Holds
<1>7. /\ Said(v) = <<Token(v)>> /\ ~Blank(v) /\ Token(v) \in Tokens(ty)
      /\ CollectSingle(given, id, ty) = Good(v)
  <2>1. CASE ty.kind = "variant"
    <3>1. Payloads(ty)
      BY <1>1, <2>1 DEF Spelled, Payloads
    <3>2. ty \in Type /\ v \in ValuesOf(ty)
      BY <1>1
    <3>3. Said(v) = <<Token(v)>> /\ ~Blank(v) /\ Token(v) \in Tokens(ty)
      BY <2>1, <3>1, <3>2, VariantSaid
    <3>4. QED
      BY <1>6, <2>1, <3>1, <3>2, <3>3, VariantSingle
  <2>2. CASE ty.kind # "variant"
    <3>1. Scalar(ty)
      BY <1>1, <2>2 DEF Scalar, Single
    <3>2. v \in Scalars(ty)
      BY <1>1, <2>2 DEF ValuesOf, FieldValues, Plains, Single
    <3>3. Said(v) = <<Token(v)>> /\ ~Blank(v) /\ Token(v) \in Tokens(ty)
      BY <3>1, <3>2, ScalarSaid
    <3>4. QED
      BY <1>6, <3>1, <3>2, <3>3, ScalarSingle
  <2>3. QED
    BY <2>1, <2>2
<1>8. CollectOne(given, p, multi) = Good(v)
  BY <1>1, <1>7, OneOfKind
<1>9. FitsAlone(a, given[a.id])
  <2>1. PICK s, g : s = Said(v) /\ g = given[id]
    OBVIOUS
  <2>2. s \in Seq(Tokens(ty)) /\ s # <<>> /\ Len(s) <= 1 /\ g = [as |-> StoredAs(ty), values |-> s]
    BY <1>6, <1>7, <2>1
  <2>3. required \in BOOLEAN /\ many \in BOOLEAN
    BY <1>1
  <2>4. FitsAlone(a, g)
    BY <2>2, <2>3, ArgFits DEF a
  <2>5. QED
    BY <1>3, <2>1, <2>4
<1>10. given[a.id].values # <<>>
  BY <1>3, <1>6, <1>7
<1>11. QED
  BY <1>4, <1>7, <1>8, <1>9, <1>10 DEF IsMade

LEMMA ListIsMade ==
    ASSUME NEW p, p.ty.kind = "list", Spelled(p.ty), NEW v \in ValuesOf(p.ty),
           NEW multi \in BOOLEAN, NEW last \in BOOLEAN, NEW given,
           \A k \in DOMAIN AddParamArgs(p, multi, last) :
               Holds(given, AddParamArgs(p, multi, last)[k], SaidFor(p.ty, v, k))
    PROVE  IsMade(given, p, multi, last, v)
<1>1. PICK ty, id, form, required, many :
          /\ ty = p.ty.of[1] /\ id = p.name /\ form = (IF last THEN "positional" ELSE "flag")
          /\ required = FALSE /\ many = TRUE
  OBVIOUS
<1> DEFINE a == Arg(id, form, required, many, ty)
<1>2. AddParamArgs(p, multi, last) = <<a>>
  <2>1. AddParamArgs(p, multi, last)
          = <<Arg(p.name, IF last THEN "positional" ELSE "flag", FALSE, TRUE, p.ty.of[1])>>
    BY DEF AddParamArgs, Single
  <2>2. QED
    BY <1>1, <2>1
<1>3. a.id = id /\ a.ty = ty /\ a.form = form
  BY DEF Arg
<1> HIDE DEF a
<1>4. DOMAIN AddParamArgs(p, multi, last) = {1} /\ AddParamArgs(p, multi, last)[1] = a
  BY <1>2
<1>5. SaidFor(p.ty, v, 1) = Said(v)
  BY DEF SaidFor
<1>6. id \in DOMAIN given /\ given[id] = [as |-> StoredAs(ty), values |-> Said(v)]
  BY <1>3, <1>4, <1>5 DEF Holds
<1>7. Scalar(p.ty.of[1]) /\ v \in Plains(p.ty) /\ Held(p.ty) = ty
  BY <1>1 DEF Spelled, Plain, Scalar, ValuesOf, FieldValues, Held
<1>8. Said(v) \in Seq(Tokens(ty)) /\ (Blank(v) <=> Said(v) = <<>>)
  BY <1>1, <1>7, ListSaid
<1>9. CollectOne(given, p, multi) = Good(v)
  <2>1. Says(given, id, p.ty, v)
    BY <1>6, <1>7 DEF Says
  <2>2. CollectTypedMany(given, id, p.ty.of[1]) = Good(v)
    BY <1>7, <2>1, ManyCollects
  <2>3. QED
    BY <1>1, <2>2, OneOfKind
<1>10. FitsAlone(a, given[a.id])
  <2>1. PICK s, g : s = Said(v) /\ g = given[id]
    OBVIOUS
  <2>2. s \in Seq(Tokens(ty)) /\ g = [as |-> StoredAs(ty), values |-> s]
    BY <1>6, <1>8, <2>1
  <2>3. required \in BOOLEAN /\ many \in BOOLEAN /\ ~required /\ many
    BY <1>1
  <2>4. FitsAlone(a, g)
    BY <2>2, <2>3, ArgFits DEF a
  <2>5. QED
    BY <1>3, <2>1, <2>4
<1>11. given[a.id].values = Said(v) /\ (a.form = "positional" => last)
  BY <1>1, <1>3, <1>6
<1>12. QED
  BY <1>4, <1>8, <1>9, <1>10, <1>11 DEF IsMade

LEMMA RecordIsMade ==
    ASSUME NEW p, p.ty.kind = "record", Spelled(p.ty), NEW v \in ValuesOf(p.ty),
           NEW multi \in BOOLEAN, NEW last \in BOOLEAN, NEW given,
           \A k \in DOMAIN AddParamArgs(p, multi, last) :
               Holds(given, AddParamArgs(p, multi, last)[k], SaidFor(p.ty, v, k))
    PROVE  IsMade(given, p, multi, last, v)
<1> DEFINE args == AddParamArgs(p, multi, last)
<1>1. args = [k \in DOMAIN p.ty.of |-> FieldArg(FieldFlag(p, p.ty.names[k], multi), p.ty.of[k], TRUE)]
  BY DEF AddParamArgs, Single
<1>2. v \in Records(p.ty) /\ \A k \in DOMAIN p.ty.of : Plain(p.ty.of[k])
  BY DEF ValuesOf, Spelled
<1>3. \A k \in DOMAIN p.ty.of : v.of[k] \in FieldValues(p.ty.of[k])
  BY <1>2, RecordValue
<1>4. ASSUME NEW k \in DOMAIN p.ty.of
      PROVE  /\ Says(given, FieldFlag(p, p.ty.names[k], multi), p.ty.of[k], v.of[k])
             /\ FitsAlone(args[k], given[args[k].id]) /\ args[k].form = "flag"
  <2>1. PICK flag, ty, required, s, w :
            /\ flag = FieldFlag(p, p.ty.names[k], multi) /\ ty = p.ty.of[k] /\ required = TRUE
            /\ w = v.of[k] /\ s = Said(w)
    OBVIOUS
  <2>2. k \in DOMAIN args /\ args[k] = FieldArg(flag, ty, required)
    BY <1>1, <2>1
  <2>3. Holds(given, args[k], SaidFor(p.ty, v, k)) /\ SaidFor(p.ty, v, k) = s
    BY <2>1, <2>2 DEF SaidFor
  <2> HIDE DEF args
  <2>4. required \in BOOLEAN
    BY <2>1
  <2>5. args[k].id = flag /\ args[k].ty = Held(ty)
    BY <2>2, <2>4, FieldArgIs
  <2>6. flag \in DOMAIN given /\ given[flag] = [as |-> StoredAs(Held(ty)), values |-> s]
    BY <2>3, <2>5 DEF Holds
  <2>7. Plain(ty) /\ w \in Plains(ty)
    BY <1>2, <1>3, <2>1 DEF FieldValues, Plain, Scalar
  <2>8. s \in Seq(Tokens(Held(ty))) /\ (ty.kind # "list" => s # <<>> /\ Len(s) <= 1)
    BY <2>1, <2>7, PlainSaid
  <2>9. FitsAlone(FieldArg(flag, ty, required), given[flag]) /\ FieldArg(flag, ty, required).form = "flag"
    <3>1. PICK g : g = given[flag]
      OBVIOUS
    <3>2. g = [as |-> StoredAs(Held(ty)), values |-> s]
      BY <2>6, <3>1
    <3>3. FitsAlone(FieldArg(flag, ty, required), g) /\ FieldArg(flag, ty, required).form = "flag"
      BY <2>4, <2>8, <3>2, FieldFits
    <3>4. QED
      BY <3>1, <3>3
  <2>10. Says(given, flag, ty, w)
    BY <2>1, <2>6 DEF Says
  <2>11. QED
    BY <2>1, <2>2, <2>5, <2>9, <2>10
<1>5. CollectOne(given, p, multi) = Good(v)
  BY <1>2, <1>4, RecordCollects
<1>6. DOMAIN args = DOMAIN p.ty.of
  BY <1>1
<1> HIDE DEF args
<1>7. \A k \in DOMAIN args : FitsAlone(args[k], given[args[k].id]) /\ args[k].form # "positional"
  BY <1>4, <1>6
<1>8. QED
  BY <1>5, <1>7 DEF IsMade, args

LEMMA OptionRecordIsMade ==
    ASSUME NEW p, p.ty.kind = "option", p.ty.of[1].kind = "record", Spelled(p.ty),
           NEW v \in ValuesOf(p.ty),
           NEW multi \in BOOLEAN, NEW last \in BOOLEAN, NEW given,
           \A k \in DOMAIN AddParamArgs(p, multi, last) :
               Holds(given, AddParamArgs(p, multi, last)[k], SaidFor(p.ty, v, k)),
           v.of # <<>> => \E k \in DOMAIN v.of[1].of : ~Blank(v.of[1].of[k])
    PROVE  IsMade(given, p, multi, last, v)
<1> DEFINE args == AddParamArgs(p, multi, last)
           inner == p.ty.of[1]
<1>1. args = [k \in DOMAIN inner.of |->
                 FieldArg(Prefixed(p, inner.names[k]), Effective(inner.of[k]), FALSE)]
  BY DEF AddParamArgs, Single
<1>2. v \in {NoneValue} \union {Some(r) : r \in Records(inner)}
  BY DEF ValuesOf
<1>3. \A k \in DOMAIN inner.of : FieldType(inner.of[k])
  BY DEF Spelled, FieldType
<1>4. ASSUME NEW k \in DOMAIN inner.of, NEW s,
             SaidFor(p.ty, v, k) = s, s \in Seq(Tokens(Held(Effective(inner.of[k])))),
             Effective(inner.of[k]).kind # "list" => Len(s) <= 1
      PROVE  LET flag == Prefixed(p, inner.names[k]) IN
             /\ flag \in DOMAIN given
             /\ given[flag] = [as |-> StoredAs(Held(Effective(inner.of[k]))), values |-> s]
             /\ FitsAlone(args[k], given[args[k].id]) /\ args[k].form = "flag"
  <2>1. PICK flag, ty, required :
            flag = Prefixed(p, inner.names[k]) /\ ty = Effective(inner.of[k]) /\ required = FALSE
    OBVIOUS
  <2>2. k \in DOMAIN args /\ args[k] = FieldArg(flag, ty, required)
    BY <1>1, <2>1
  <2>3. Holds(given, args[k], s)
    BY <1>4, <2>2
  <2> HIDE DEF args
  <2>4. required \in BOOLEAN /\ ~required
    BY <2>1
  <2>5. args[k].id = flag /\ args[k].ty = Held(ty)
    BY <2>2, <2>4, FieldArgIs
  <2>6. flag \in DOMAIN given /\ given[flag] = [as |-> StoredAs(Held(ty)), values |-> s]
    BY <2>3, <2>5 DEF Holds
  <2>7. s \in Seq(Tokens(Held(ty))) /\ (ty.kind # "list" => Len(s) <= 1)
    BY <1>4, <2>1
  <2>8. FitsAlone(FieldArg(flag, ty, required), given[flag]) /\ FieldArg(flag, ty, required).form = "flag"
    <3>1. PICK g : g = given[flag]
      OBVIOUS
    <3>2. g = [as |-> StoredAs(Held(ty)), values |-> s]
      BY <2>6, <3>1
    <3>3. FitsAlone(FieldArg(flag, ty, required), g) /\ FieldArg(flag, ty, required).form = "flag"
      BY <2>4, <2>7, <3>2, FieldFits
    <3>4. QED
      BY <3>1, <3>3
  <2>9. QED
    BY <2>1, <2>2, <2>5, <2>6, <2>8
<1>5. CASE v = NoneValue
  <2>1. v.of = <<>>
    BY <1>5, NoneSaid
  <2>2. ASSUME NEW k \in DOMAIN inner.of
        PROVE  /\ Prefixed(p, inner.names[k]) \in DOMAIN given
               /\ given[Prefixed(p, inner.names[k])].values = <<>>
               /\ FitsAlone(args[k], given[args[k].id]) /\ args[k].form = "flag"
    <3>1. PICK s : s = <<>>
      OBVIOUS
    <3>2. SaidFor(p.ty, v, k) = s
      BY <2>1, <3>1 DEF SaidFor
    <3>3. s \in Seq(Tokens(Held(Effective(inner.of[k])))) /\ Len(s) <= 1
      BY <3>1
    <3> HIDE DEF args, inner
    <3>4. /\ Prefixed(p, inner.names[k]) \in DOMAIN given
          /\ given[Prefixed(p, inner.names[k])]
               = [as |-> StoredAs(Held(Effective(inner.of[k]))), values |-> s]
          /\ FitsAlone(args[k], given[args[k].id]) /\ args[k].form = "flag"
      BY <1>4, <3>2, <3>3
    <3>5. QED
      BY <3>1, <3>4
  <2>3. CollectOption(given, p) = Good(NoneValue)
    BY <2>2, OptionRecordNone
  <2>4. CollectOne(given, p, multi) = Good(v)
    BY <1>5, <2>3, OneOfKind
  <2>5. DOMAIN args = DOMAIN inner.of
    BY <1>1
  <2> HIDE DEF args, inner
  <2>6. \A k \in DOMAIN args : FitsAlone(args[k], given[args[k].id]) /\ args[k].form # "positional"
    BY <2>2, <2>5
  <2>7. QED
    BY <2>4, <2>6 DEF IsMade, args
<1>6. CASE \E r \in Records(inner) : v = Some(r)
  <2>1. PICK r \in Records(inner) : v = Some(r)
    BY <1>6
  <2>2. v.of # <<>> /\ v.of[1] = r
    BY <2>1 DEF Some, Value
  <2>3. DOMAIN r.of = DOMAIN inner.of /\ \A k \in DOMAIN inner.of : r.of[k] \in FieldValues(inner.of[k])
    BY RecordValue
  <2>4. \E k \in DOMAIN inner.of : ~Blank(r.of[k])
    BY <2>2, <2>3
  <2>5. ASSUME NEW k \in DOMAIN inner.of
        PROVE  /\ Says(given, Prefixed(p, inner.names[k]), Effective(inner.of[k]), r.of[k])
               /\ FitsAlone(args[k], given[args[k].id]) /\ args[k].form = "flag"
    <3>1. PICK s, w, ty : w = r.of[k] /\ s = Said(w) /\ ty = inner.of[k]
      OBVIOUS
    <3>2. SaidFor(p.ty, v, k) = s
      BY <2>2, <3>1 DEF SaidFor
    <3>3. FieldType(ty) /\ w \in FieldValues(ty)
      BY <1>3, <2>3, <3>1
    <3>4. s \in Seq(Tokens(Held(Effective(ty)))) /\ (Effective(ty).kind # "list" => Len(s) <= 1)
      BY <3>1, <3>3, FieldSaid
    <3> HIDE DEF args, inner
    <3>5. /\ s \in Seq(Tokens(Held(Effective(inner.of[k]))))
          /\ Effective(inner.of[k]).kind # "list" => Len(s) <= 1
      BY <3>1, <3>4
    <3>6. /\ Prefixed(p, inner.names[k]) \in DOMAIN given
          /\ given[Prefixed(p, inner.names[k])]
               = [as |-> StoredAs(Held(Effective(inner.of[k]))), values |-> s]
          /\ FitsAlone(args[k], given[args[k].id]) /\ args[k].form = "flag"
      BY <1>4, <3>2, <3>5
    <3>7. QED
      BY <3>1, <3>6 DEF Says
  <2>6. CollectOption(given, p) = Good(Some(r))
    BY <1>3, <2>4, <2>5, OptionRecordSome
  <2>7. CollectOne(given, p, multi) = Good(v)
    BY <2>1, <2>6, OneOfKind
  <2>8. DOMAIN args = DOMAIN inner.of
    BY <1>1
  <2> HIDE DEF args, inner
  <2>9. \A k \in DOMAIN args : FitsAlone(args[k], given[args[k].id]) /\ args[k].form # "positional"
    BY <2>5, <2>8
  <2>10. QED
    BY <2>7, <2>9 DEF IsMade, args
<1>7. QED
  BY <1>2, <1>5, <1>6

LEMMA OptionScalarIsMade ==
    ASSUME NEW p, p.ty.kind = "option", Scalar(p.ty.of[1]), NEW v \in ValuesOf(p.ty),
           NEW multi \in BOOLEAN, NEW last \in BOOLEAN, NEW given,
           \A k \in DOMAIN AddParamArgs(p, multi, last) :
               Holds(given, AddParamArgs(p, multi, last)[k], SaidFor(p.ty, v, k))
    PROVE  IsMade(given, p, multi, last, v)
<1>1. PICK ty, id, form, required, many :
          ty = p.ty.of[1] /\ id = p.name /\ form = "positional" /\ required = FALSE /\ many = FALSE
  OBVIOUS
<1>2. /\ Scalar(ty) /\ Held(ty) = ty /\ ty.kind # "record" /\ v \in FieldValues(p.ty)
      /\ FieldType(p.ty) /\ Effective(p.ty) = ty /\ ty.kind # "list"
  BY <1>1 DEF Scalar, Held, ValuesOf, FieldType, Effective
<1> DEFINE a == Arg(id, form, required, many, ty)
<1>3. AddParamArgs(p, multi, last) = <<a>>
  <2>1. AddParamArgs(p, multi, last) = <<Arg(p.name, "positional", FALSE, FALSE, p.ty.of[1])>>
    BY DEF AddParamArgs, Single, Scalar
  <2>2. QED
    BY <1>1, <2>1
<1>4. a.id = id /\ a.ty = ty
  BY DEF Arg
<1> HIDE DEF a
<1>5. DOMAIN AddParamArgs(p, multi, last) = {1} /\ AddParamArgs(p, multi, last)[1] = a
  BY <1>3
<1>6. SaidFor(p.ty, v, 1) = Said(v)
  BY <1>1, <1>2 DEF SaidFor
<1>7. id \in DOMAIN given /\ given[id] = [as |-> StoredAs(ty), values |-> Said(v)]
  BY <1>4, <1>5, <1>6 DEF Holds
<1>8. Said(v) \in Seq(Tokens(ty)) /\ (Blank(v) <=> Said(v) = <<>>) /\ Len(Said(v)) <= 1
  <2>1. PICK oty : oty = p.ty
    OBVIOUS
  <2>2. FieldType(oty) /\ v \in FieldValues(oty) /\ Effective(oty) = ty
    BY <1>2, <2>1
  <2>3. /\ Said(v) \in Seq(Tokens(Held(Effective(oty)))) /\ (Blank(v) <=> Said(v) = <<>>)
        /\ Effective(oty).kind # "list" => Len(Said(v)) <= 1
    BY <2>2, FieldSaid
  <2>4. QED
    BY <1>2, <2>2, <2>3
<1>9. CollectOne(given, p, multi) = Good(v)
  <2>1. Says(given, p.name, p.ty.of[1], v)
    BY <1>1, <1>2, <1>7 DEF Says
  <2>2. CollectOption(given, p) = Good(v)
    BY <1>2, <2>1, OptionScalarCollects
  <2>3. QED
    BY <2>2, OneOfKind
<1>10. FitsAlone(a, given[a.id])
  <2>1. PICK s, g : s = Said(v) /\ g = given[id]
    OBVIOUS
  <2>2. s \in Seq(Tokens(ty)) /\ Len(s) <= 1 /\ g = [as |-> StoredAs(ty), values |-> s]
    BY <1>7, <1>8, <2>1
  <2>3. required \in BOOLEAN /\ many \in BOOLEAN /\ ~required
    BY <1>1
  <2>4. FitsAlone(a, g)
    BY <2>2, <2>3, ArgFits DEF a
  <2>5. QED
    BY <1>4, <2>1, <2>4
<1>11. given[a.id].values = Said(v)
  BY <1>4, <1>7
<1>12. QED
  BY <1>1, <1>2, <1>5, <1>8, <1>9, <1>10, <1>11 DEF IsMade

\* A parameter of any kind that can be spelled out and that building supports.
LEMMA ParamIsMade ==
    ASSUME NEW p, p.ty \in Type, Spelled(p.ty), ~Unsupported(p.ty), NEW v \in ValuesOf(p.ty),
           NEW multi \in BOOLEAN, NEW last \in BOOLEAN, NEW given,
           \A k \in DOMAIN AddParamArgs(p, multi, last) :
               Holds(given, AddParamArgs(p, multi, last)[k], SaidFor(p.ty, v, k)),
           (v.kind = "option" /\ v.of # <<>> /\ v.of[1].kind = "record")
             => \E k \in DOMAIN v.of[1].of : ~Blank(v.of[1].of[k])
    PROVE  IsMade(given, p, multi, last, v)
<1>1. CASE p.ty.kind \in Single
  BY <1>1, SingleIsMade
<1>2. CASE p.ty.kind = "list"
  BY <1>2, ListIsMade
<1>3. CASE p.ty.kind = "record"
  BY <1>3, RecordIsMade
<1>4. CASE p.ty.kind = "option" /\ p.ty.of[1].kind = "record"
  <2>1. ASSUME v.of # <<>> PROVE v.kind = "option" /\ v.of[1].kind = "record"
    <3>1. PICK r \in Records(p.ty.of[1]) : v = Some(r)
      <4>1. v \in {NoneValue} \union {Some(r) : r \in Records(p.ty.of[1])}
        BY <1>4 DEF ValuesOf
      <4>2. v # NoneValue
        BY <2>1, NoneSaid
      <4>3. QED
        BY <4>1, <4>2
    <3>2. r.kind = "record"
      BY RecordValue
    <3>3. QED
      BY <3>1, <3>2 DEF Some, Value
  <2>2. v.of # <<>> => \E k \in DOMAIN v.of[1].of : ~Blank(v.of[1].of[k])
    BY <2>1
  <2>3. QED
    BY <1>4, <2>2, OptionRecordIsMade
<1>5. CASE p.ty.kind = "option" /\ p.ty.of[1].kind # "record"
  <2>1. Scalar(p.ty.of[1])
    BY <1>5 DEF Spelled
  <2>2. QED
    BY <1>5, <2>1, OptionScalarIsMade
<1>6. CASE p.ty.kind \notin Single \union {"list", "record", "option"}
  BY <1>6 DEF Spelled, Plain, Scalar, Single
<1>7. QED
  BY <1>1, <1>2, <1>3, <1>4, <1>5, <1>6

(***************************************************************************)
(* At last, the command line of a whole call.                              *)
(***************************************************************************)

LEMMA CommandLineIs ==
    ASSUME NEW f, Distinct(BuildFuncCommand(f)), NEW vals
    PROVE  /\ CommandLine(f, vals) = [id \in Ids(BuildFuncCommand(f)) |-> CommandLine(f, vals)[id]]
           /\ \A i \in DOMAIN f.params : \A k \in DOMAIN ParamArgs(f)[i] :
                 Holds(CommandLine(f, vals), ParamArgs(f)[i][k], SaidFor(f.params[i].ty, vals[i], k))
<1> DEFINE cmd == BuildFuncCommand(f)
           args == cmd.args
           at(id) == CHOOSE x \in DOMAIN args : args[x].id = id
           given == CommandLine(f, vals)
<1>1. given = [id \in Ids(cmd) |->
                  [as |-> StoredAs(args[at(id)].ty), values |-> SaidAt(f, vals, at(id))]]
  BY DEF CommandLine
<1>2. ASSUME NEW i \in DOMAIN f.params, NEW k \in DOMAIN ParamArgs(f)[i]
      PROVE  Holds(given, ParamArgs(f)[i][k], SaidFor(f.params[i].ty, vals[i], k))
  <2>1. PICK x, a : x = <<i, k>> /\ a = ParamArgs(f)[i][k]
    OBVIOUS
  <2>2. x \in Places(f)
    BY <2>1 DEF Places
  <2>3. DOMAIN args = Places(f) /\ args[x] = a
    BY <2>1, <2>2 DEF BuildFuncCommand
  <2>4. a.id \in Ids(cmd)
    BY <2>2, <2>3 DEF Ids
  <2>5. at(a.id) = x
    <3>1. \A y \in DOMAIN args : args[y].id = a.id => y = x
      BY <2>2, <2>3 DEF Distinct
    <3> HIDE DEF args
    <3>2. QED
      BY <2>2, <2>3, <3>1
  <2>6. SaidAt(f, vals, x) = SaidFor(f.params[i].ty, vals[i], k)
    <3>1. x[1] = i /\ x[2] = k
      BY <2>1
    <3>2. QED
      BY <3>1 DEF SaidAt, SaidFor
  <2>7. given[a.id] = [as |-> StoredAs(a.ty), values |-> SaidAt(f, vals, x)]
    <3> HIDE DEF at, args, cmd
    <3>1. given[a.id] = [as |-> StoredAs(args[at(a.id)].ty), values |-> SaidAt(f, vals, at(a.id))]
      BY <1>1, <2>4
    <3>2. QED
      BY <2>3, <2>5, <3>1
  <2>8. a.id \in DOMAIN given
    <3> HIDE DEF at, args, cmd
    <3>1. DOMAIN given = Ids(cmd)
      BY <1>1
    <3>2. QED
      BY <2>4, <3>1
  <2> HIDE DEF given
  <2>9. Holds(given, a, SaidFor(f.params[i].ty, vals[i], k))
    BY <2>6, <2>7, <2>8 DEF Holds
  <2>10. QED
    BY <2>1, <2>9
<1>3. given = [id \in Ids(cmd) |-> given[id]]
  <2> HIDE DEF at, args, cmd
  <2>1. QED
    BY <1>1
<1>4. QED
  BY <1>2, <1>3

LEMMA CallIsMade ==
    ASSUME NEW f, DOMAIN f.params \subseteq Nat, BuildError(f) = "ok", SpelledFunc(f),
           Distinct(BuildFuncCommand(f)),
           \A i \in DOMAIN f.params : f.params[i].ty \in Type,
           NEW vals \in Calls(f), ~Unsayable(f, vals)
    PROVE  /\ Accepts(BuildFuncCommand(f), CommandLine(f, vals))
           /\ CollectArgs(CommandLine(f, vals), f) = [is |-> "ok", vals |-> vals]
<1>1. PICK given, cmd, multi :
          given = CommandLine(f, vals) /\ cmd = BuildFuncCommand(f) /\ multi = MultiRecord(f)
  OBVIOUS
<1>2. /\ DOMAIN vals = DOMAIN f.params /\ vals = [i \in DOMAIN vals |-> vals[i]]
      /\ \A i \in DOMAIN f.params : vals[i] \in ValuesOf(f.params[i].ty)
  <2> DEFINE sets == [i \in DOMAIN f.params |-> ValuesOf(f.params[i].ty)]
  <2>1. vals \in OneOfEach(sets)
    BY DEF Calls
  <2>2. DOMAIN sets = DOMAIN f.params /\ \A i \in DOMAIN f.params : sets[i] = ValuesOf(f.params[i].ty)
    OBVIOUS
  <2> HIDE DEF sets
  <2>3. /\ DOMAIN vals = DOMAIN sets /\ vals = [i \in DOMAIN vals |-> vals[i]]
        /\ \A i \in DOMAIN sets : vals[i] \in sets[i]
    BY <2>1, OneOfEachIs
  <2>4. \A i \in DOMAIN f.params : vals[i] \in ValuesOf(f.params[i].ty)
    BY <2>2, <2>3
  <2>5. QED
    BY <2>2, <2>3, <2>4
<1>3. /\ given = [id \in Ids(cmd) |-> given[id]]
      /\ \A i \in DOMAIN f.params : \A k \in DOMAIN ParamArgs(f)[i] :
            Holds(given, ParamArgs(f)[i][k], SaidFor(f.params[i].ty, vals[i], k))
  BY <1>1, CommandLineIs
<1>4. ASSUME NEW i \in DOMAIN f.params
      PROVE  IsMade(given, f.params[i], multi, i = Len(f.params), vals[i])
  <2>1. PICK p, v, last : p = f.params[i] /\ v = vals[i] /\ last = (i = Len(f.params))
    OBVIOUS
  <2>2. multi \in BOOLEAN /\ last \in BOOLEAN
    BY <1>1, <2>1 DEF MultiRecord
  <2>3. p.ty \in Type /\ Spelled(p.ty) /\ v \in ValuesOf(p.ty)
    BY <1>2, <2>1 DEF SpelledFunc
  <2>4. ~Unsupported(p.ty)
    BY <2>1, NothingUnsupported
  <2>5. AddParamArgs(p, multi, last) = ParamArgs(f)[i]
    BY <1>1, <2>1, ArgsOf
  <2>6. \A k \in DOMAIN AddParamArgs(p, multi, last) :
            Holds(given, AddParamArgs(p, multi, last)[k], SaidFor(p.ty, v, k))
    BY <1>3, <2>1, <2>5
  <2>7. (v.kind = "option" /\ v.of # <<>> /\ v.of[1].kind = "record")
             => \E k \in DOMAIN v.of[1].of : ~Blank(v.of[1].of[k])
    BY <1>2, <2>1 DEF Unsayable
  <2>8. IsMade(given, p, multi, last, v)
    BY <2>2, <2>3, <2>4, <2>6, <2>7, ParamIsMade
  <2>9. QED
    BY <2>1, <2>8
<1>5. ASSUME NEW i \in DOMAIN f.params, NEW k \in DOMAIN ParamArgs(f)[i]
      PROVE  LET a == ParamArgs(f)[i][k] IN
             /\ FitsAlone(a, given[a.id])
             /\ a.form = "positional" =>
                   Positional(f, i) /\ (Blank(vals[i]) <=> given[a.id].values = <<>>)
  <2>1. PICK p, last, args : p = f.params[i] /\ last = (i = Len(f.params)) /\ args = ParamArgs(f)[i]
    OBVIOUS
  <2>2. AddParamArgs(p, multi, last) = args
    BY <1>1, <2>1, ArgsOf
  <2>3. IsMade(given, p, multi, last, vals[i]) /\ k \in DOMAIN args
    BY <1>4, <2>1
  <2>4. /\ FitsAlone(args[k], given[args[k].id])
        /\ args[k].form = "positional" =>
              /\ \/ p.ty.kind \in Single
                 \/ p.ty.kind = "option" /\ p.ty.of[1].kind # "record"
                 \/ p.ty.kind = "list" /\ last
              /\ Blank(vals[i]) <=> given[args[k].id].values = <<>>
    BY <2>2, <2>3 DEF IsMade
  <2>5. QED
    BY <2>1, <2>4 DEF Positional
<1>6. ASSUME NEW x \in DOMAIN cmd.args
      PROVE  \E i \in DOMAIN f.params : \E k \in DOMAIN ParamArgs(f)[i] :
                x[1] = i /\ cmd.args[x] = ParamArgs(f)[i][k]
  <2>1. x \in Places(f)
    BY <1>1 DEF BuildFuncCommand
  <2>2. PICK i \in DOMAIN f.params : \E k \in DOMAIN ParamArgs(f)[i] : x = <<i, k>>
    BY <2>1 DEF Places
  <2>3. PICK k \in DOMAIN ParamArgs(f)[i] : x = <<i, k>>
    BY <2>2
  <2>4. cmd.args[x] = ParamArgs(f)[i][k]
    BY <1>1, <2>1, <2>3 DEF BuildFuncCommand
  <2>5. QED
    BY <2>3, <2>4
<1>7. \A x \in DOMAIN cmd.args : FitsAlone(cmd.args[x], given[cmd.args[x].id])
  BY <1>5, <1>6
<1>8. InOrderEach(cmd, given)
  <2> SUFFICES ASSUME NEW x \in DOMAIN cmd.args, NEW y \in DOMAIN cmd.args, x[1] < y[1],
                      cmd.args[x].form = "positional", cmd.args[y].form = "positional",
                      given[cmd.args[y].id].values # <<>>,
                      given[cmd.args[x].id].values = <<>>
               PROVE  FALSE
    BY DEF InOrderEach
  <2>1. x[1] \in DOMAIN f.params /\ Positional(f, x[1]) /\ Blank(vals[x[1]])
    BY <1>5, <1>6
  <2>2. y[1] \in DOMAIN f.params /\ Positional(f, y[1]) /\ ~Blank(vals[y[1]])
    BY <1>5, <1>6
  <2>3. QED
    BY <1>2, <2>1, <2>2 DEF Unsayable
<1>9. Accepts(cmd, given)
  BY <1>1, <1>3, <1>7, <1>8, AcceptsIs DEF AcceptsEach
<1>10. CollectArgs(given, f) = [is |-> "ok", vals |-> vals]
  <2>1. PICK rs : rs = [i \in DOMAIN f.params |-> CollectOne(given, f.params[i], multi)]
    OBVIOUS
  <2>2. CollectArgs(given, f) = Sequence(rs)
    BY <1>1, <2>1 DEF CollectArgs, MultiRecordToCollect, MultiRecord
  <2>3. DOMAIN vals = DOMAIN rs
    BY <1>2, <2>1
  <2>4. \A i \in DOMAIN rs : rs[i] = Good(vals[i])
    BY <1>4, <2>1 DEF IsMade
  <2>5. vals = [i \in DOMAIN vals |-> vals[i]]
    BY <1>2
  <2>6. Sequence(rs) = [is |-> "ok", vals |-> vals]
    BY <2>3, <2>4, <2>5, SequenceGood
  <2>7. QED
    BY <2>2, <2>6
<1>11. QED
  BY <1>1, <1>9, <1>10

\* For every function that is offered and every call of it that a command line
\* can say, clap accepts the command line, and it is collected into the call.
THEOREM EveryCallIsMade == Spec => []EveryCallCanBeMade
<1>1. IInv => EveryCallCanBeMade
  <2> SUFFICES ASSUME IInv, stage = "match", NEW f \in Offered, SpelledFunc(f),
                      NEW vals \in Calls(f), ~Unsayable(f, vals)
               PROVE  /\ Accepts(BuildFuncCommand(f), CommandLine(f, vals))
                      /\ CollectArgs(CommandLine(f, vals), f) = [is |-> "ok", vals |-> vals]
    BY DEF EveryCallCanBeMade
  <2>1. component \in Component /\ surface = Surface(component)
    BY DEF IInv, Staged
  <2>2. DOMAIN f.params \subseteq Nat /\ \A i \in DOMAIN f.params : f.params[i].ty \in Type
    BY <2>1, OfferedIs
  <2>3. BuildError(f) = "ok"
    BY DEF Offered
  <2>4. Distinct(BuildFuncCommand(f))
    BY <2>1, <2>3, OfferedIs, IdsApart DEF SpelledFunc
  <2>5. QED
    BY <2>2, <2>3, <2>4, CallIsMade
<1>2. QED
  BY <1>1, Invariant, PTL
===============================================================================
