----------------------------- MODULE MCLibraryCli -----------------------------
(* Every function of one or two parameters over a set of types, and components *)
(* of several exports; also functions of which a parameter has the name of a   *)
(* flag of a record.                                                           *)
EXTENDS LibraryCli

Ty(kind, of, names) == [kind |-> kind, of |-> of, names |-> names]

int == Ty("int", <<>>, <<>>)
f64 == Ty("f64", <<>>, <<>>)
string == Ty("string", <<>>, <<>>)
enum == Ty("enum", <<>>, <<"c", "d">>)
none == Ty("none", <<>>, <<>>)
tuple == Ty("tuple", <<int, int>>, <<>>)
resource == Ty("resource", <<>>, <<>>)
variant == Ty("variant", <<none, string>>, <<"c", "d">>)
deep == Ty("variant", <<int, tuple>>, <<"c", "d">>)
listOf(ty) == Ty("list", <<ty>>, <<>>)
optionOf(ty) == Ty("option", <<ty>>, <<>>)
pair == Ty("record", <<string, listOf(int)>>, <<<<"c">>, <<"b", "c">>>>)
partial == Ty("record", <<string, optionOf(int)>>, <<<<"c">>, <<"b", "c">>>>)
odd == Ty("record", <<tuple, f64>>, <<<<"c">>, <<"d">>>>)

Types == {int, f64, string, enum, variant, deep, tuple, pair, partial, odd,
          listOf(int), listOf(enum), listOf(partial), listOf(variant), listOf(resource),
          optionOf(int), optionOf(variant), optionOf(tuple), optionOf(pair), optionOf(partial)}

\* A type and the types in it, one or two levels down.
In(types) == types \union UNION {ToSet(ty.of) : ty \in types}
AllTypes == In(In(In(Types \union {resource})))

Param(name, ty) == [name |-> name, ty |-> ty]
Func(name, params) == [name |-> name, params |-> params, results |-> <<>>]
Free(f) == [name |-> f.name, free |-> TRUE, funcs |-> <<f>>]
Interface(name, funcs) == [name |-> name, free |-> FALSE, funcs |-> funcs]

One(params) == <<Free(Func(<<"f">>, params))>>

f0 == Func(<<"f">>, <<>>)
g1 == Func(<<"g">>, <<Param(<<"a">>, int)>>)
gTuple == Func(<<"g">>, <<Param(<<"a">>, tuple)>>)
hNever == [Func(<<"h">>, <<>>) EXCEPT !.results = <<resource>>]
clash == Func(<<"g">>, <<Param(<<"a">>, pair), Param(<<"a", "b">>, pair)>>)

Components ==
    {One(<<Param(<<"a">>, s)>>) : s \in Types}
    \union {One(<<Param(<<"a">>, s), Param(<<"a", "b">>, t)>>) : s, t \in Types}
    \union {One(<<Param(<<"c">>, s), Param(<<"r">>, pair)>>) : s \in Types}
    \union {One(<<Param(<<"r">>, optionOf(pair)), Param(<<"r", "b", "c">>, s)>>) : s \in Types}
    \union {<<>>, <<Free(hNever)>>, One(<<Param(<<"help">>, string)>>),
            <<Interface(<<"exports">>, <<f0>>), Free(g1)>>,
            <<Interface(<<"i">>, <<gTuple>>), Free(f0), Interface(<<"j">>, <<hNever, f0, gTuple>>)>>,
            <<Interface(<<"i">>, <<gTuple, f0>>), Interface(<<"i">>, <<g1>>)>>,
            <<Free(f0), Interface(<<"i">>, <<clash>>)>>,
            <<Interface(<<"i">>, <<gTuple>>), Interface(<<"i">>, <<g1>>)>>}

MCComponent == Components
MCType == AllTypes
===============================================================================
