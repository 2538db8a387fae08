-------------------------------- MODULE Types --------------------------------
(***************************************************************************)
(* types/type.go: the types of the language, as tagged tuples.  A struct   *)
(* or an interface is its name; fields and methods are in the tables of    *)
(* the checker.  NilType is the nil of a type that is not known (yet).     *)
(***************************************************************************)
EXTENDS Integers, Sequences

LOCAL INSTANCE SequencesExt

NilType == <<"nil">>

IntT    == <<"int">>
StringT == <<"string">>
BoolT   == <<"bool">>
NullT  == <<"null">>
UnitT   == <<"unit">>
AnyT    == <<"any">>
NeverT  == <<"never">>

\* empty: the type of a literal without elements.
ArrayT(t, empty)   == <<"array", t, empty>>
MapT(k, v, empty)  == <<"map", k, v, empty>>
ArrayType(t)        == ArrayT(t, FALSE)
MapType(k, v)       == MapT(k, v, FALSE)
ResultType(t)       == <<"result", t>>
OptionType(t)       == <<"option", t>>
FunctionType(ps, r) == <<"func", ps, r>>

\* args: the type arguments of a generic struct that is not yet resolved.
StructType(name)             == <<"struct", name, <<>>>>
GenericStruct(name, args)    == <<"struct", name, args>>
InterfaceType(name)          == <<"interface", name>>
TypeParamRef(name)           == <<"param", name>>

IsBasic(t) == Len(t) = 1 /\ t # NilType

\* Signature: the text by which types are compared.
RECURSIVE Signature(_)
Signature(t) ==
    CASE t[1] = "array"  -> "array<" \o Signature(t[2]) \o ">"
      [] t[1] = "map"    -> "map<" \o Signature(t[2]) \o ", " \o Signature(t[3]) \o ">"
      [] t[1] = "result" -> "result<" \o Signature(t[2]) \o ">"
      [] t[1] = "option" -> "option<" \o Signature(t[2]) \o ">"
      [] t[1] = "func"   -> "func<(" \o FoldLeft(LAMBDA text, p : text \o Signature(p) \o ", ", "", t[2])
                                     \o ") -> " \o Signature(t[3]) \o ">"
      [] t[1] \in {"struct", "interface", "param"} -> t[2]
      [] OTHER           -> t[1]

\* SubstituteTypeParams.
RECURSIVE Substitute(_, _)
Substitute(t, subs) ==
    CASE t[1] = "param" /\ t[2] \in DOMAIN subs -> subs[t[2]]
      [] t[1] = "array"  -> ArrayType(Substitute(t[2], subs))
      [] t[1] = "map"    -> MapType(Substitute(t[2], subs), Substitute(t[3], subs))
      [] t[1] = "result" -> ResultType(Substitute(t[2], subs))
      [] t[1] = "option" -> OptionType(Substitute(t[2], subs))
      [] t[1] = "func"   -> FunctionType([i \in DOMAIN t[2] |-> Substitute(t[2][i], subs)], Substitute(t[3], subs))
      [] t[1] = "struct" -> GenericStruct(t[2], [i \in DOMAIN t[3] |-> Substitute(t[3][i], subs)])
      [] OTHER           -> t

==============================================================================
