---------------------------- MODULE TypeChecker ----------------------------
(***************************************************************************)
(* typechecker/typechecker.go and type_env.go: one program, without        *)
(* imports (module Loader has the order of packages).  The state of the    *)
(* checker is a record c:                                                  *)
(*   env        scopes from the global one (first) to the innermost one,   *)
(*              each with the types of its names and its constants         *)
(*   errors     what was reported; "panic" stands for a Go panic of the    *)
(*              checker, after which nothing is compiled either            *)
(*   ret        the return type of the enclosing function (or NilType)     *)
(*   match      the type that err() takes in an arm of a match             *)
(*   inLoop, discard, last   where the statement being checked stands      *)
(*   structs, interfaces, generics, genericStructs   what was defined      *)
(*   done       the instances of generic functions and structs made so far *)
(*   inserts, at   instances to insert before the statement that is at     *)
(* A rule returns [c, t, n]: the state, the type, and the node with what   *)
(* the checker writes into it.  A node that the code visits twice is       *)
(* visited twice here.                                                     *)
(***************************************************************************)
EXTENDS Syntax, TLC

LOCAL INSTANCE FiniteSetsExt
LOCAL INSTANCE SequencesExt

R(c, t, n) == [c |-> c, t |-> t, n |-> n]

\* f of x, with x evaluated first (TLC would evaluate it where it is used).
With(x, f(_)) == CHOOSE z \in {f(y) : y \in {x}} : TRUE

Err(c, what)         == [c EXCEPT !.errors = @ \cup {what}]
ErrIf(c, cond, what) == IF cond THEN Err(c, what) ELSE c

-----------------------------------------------------------------------------
(* TypeEnv                                                                 *)

NewTypeEnv == [store |-> <<>>, constants |-> {}]

\* The builtins are in the global environment (their types are only used by
\* the rules below).
New == [env |-> <<[NewTypeEnv EXCEPT !.store = [b \in Builtins |-> FunctionType(<<>>, UnitT)]]>>,
        errors |-> {}, ret |-> NilType, match |-> NilType,
        inLoop |-> FALSE, discard |-> FALSE, last |-> FALSE,
        structs |-> <<>>, interfaces |-> <<>>, generics |-> <<>>, genericStructs |-> <<>>,
        done |-> {}, inserts |-> <<>>, at |-> 1]

Push(c)        == [c EXCEPT !.env = Append(@, NewTypeEnv)]
Holders(c, x)  == {i \in DOMAIN c.env : x \in DOMAIN c.env[i].store}
Known(c, x)    == Holders(c, x) # {}
InScope(c, x)  == Len(c.env) \in Holders(c, x)
TypeNamed(c, x) == c.env[Max(Holders(c, x))].store[x]

\* A name is constant if any scope around declares it so.
IsConst(c, x) == \E i \in DOMAIN c.env : x \in c.env[i].constants

\* Two types for a name in one scope are an invariant violation.
EnvSet(c, x, t) ==
    LET i == Len(c.env)
    IN [ErrIf(c, InScope(c, x) /\ Signature(TypeNamed(c, x)) # Signature(t), "panic")
            EXCEPT !.env[i].store = (x :> t) @@ @]
SetConst(c, x) == [c EXCEPT !.env[Len(c.env)].constants = @ \cup {x}]

EnvSetAll(c, xs, ts) ==
    FoldLeft(LAMBDA d, i : EnvSet(d, xs[i], ts[i]), c, [i \in DOMAIN xs |-> i])

\* What a scope leaves behind: everything but its names and its position.
Leave(c, inner) ==
    [inner EXCEPT !.env = c.env, !.ret = c.ret, !.inLoop = c.inLoop]

MangleMethod(s, name)   == s \o "." \o name
MonomorphizeName(f, ts) == FoldLeft(LAMBDA text, t : text \o "__" \o Signature(t), f, ts)

-----------------------------------------------------------------------------
(* When a value of one type may be used as another                         *)

RECURSIVE TypesMatch(_, _, _)

StructSatisfiesInterface(c, s, i) ==
    \A k \in DOMAIN i.methods :
        LET m == MangleMethod(s, i.methods[k])
        IN /\ Known(c, m)
           /\ LET have == TypeNamed(c, m)
                  want == i.types[k]
              IN /\ Len(have[2]) = Len(want[2]) + 1
                 /\ \A p \in DOMAIN want[2] : TypesMatch(c, have[2][p + 1], want[2][p])
                 /\ TypesMatch(c, have[3], want[3])

InterfaceSatisfiesInterface(c, i, j) ==
    \A k \in DOMAIN j.methods : \E l \in DOMAIN i.methods :
        i.methods[l] = j.methods[k] /\ TypesMatch(c, i.types[l], j.types[k])


TypesMatch(c, actual, expected) ==
    LET kinds == <<actual[1], expected[1]>> IN
    IF NilType \in {actual, expected} THEN actual = expected
    ELSE IF NeverT \in {actual, expected} THEN TRUE
    ELSE IF IsBasic(actual) /\ IsBasic(expected) THEN actual = expected \/ AnyT \in {actual, expected}
    ELSE CASE kinds = <<"array", "array">> -> actual[3] \/ TypesMatch(c, actual[2], expected[2])
           [] kinds = <<"map", "map">> ->
                \/ actual[4] \/ expected[4]
                \/ TypesMatch(c, expected[2], actual[2]) /\ TypesMatch(c, expected[3], actual[3])
           [] kinds = <<"struct", "interface">> ->
                StructSatisfiesInterface(c, actual[2], c.interfaces[expected[2]])
           [] kinds = <<"interface", "interface">> ->
                \/ actual = expected
                \/ InterfaceSatisfiesInterface(c, c.interfaces[actual[2]], c.interfaces[expected[2]])
           [] OTHER -> Signature(actual) = Signature(expected)

\* candidateInterfaces and discoverImplementations, for one struct: the
\* interfaces it shares a method with, and satisfies.
Implements(c, s) ==
    SetToSeq({i \in DOMAIN c.interfaces :
                 /\ \E k \in DOMAIN c.interfaces[i].methods : Known(c, MangleMethod(s, c.interfaces[i].methods[k]))
                 /\ StructSatisfiesInterface(c, s, c.interfaces[i])})

DiscoverImplementations(c) ==
    [c EXCEPT !.structs = [s \in DOMAIN @ |-> [@[s] EXCEPT !.interfaces = Implements(c, s)]]]

\* Go compares these with == and panics.
RECURSIVE Comparable(_)
Comparable(t) ==
    CASE t[1] \in {"struct", "func", "interface"} -> FALSE
      [] t[1] \in {"array", "result", "option"}   -> Comparable(t[2])
      [] t[1] = "map"                             -> Comparable(t[2]) /\ Comparable(t[3])
      [] OTHER                                    -> TRUE

IsInterfaceMethod(c, t, name) ==
    /\ t[1] = "struct" /\ t[2] \in DOMAIN c.structs
    /\ \E i \in ToSet(c.structs[t[2]].interfaces) : name \in ToSet(c.interfaces[i].methods)

-----------------------------------------------------------------------------
(* Instances of generic structs and functions                              *)

\* ast.Clone: the kinds it knows; any other node becomes nil.
Cloned == {"ExpressionStmt", "ReturnStmt", "BlockStmt", "VarDeclarationStmt", "VarAssignmentStmt",
           "FunctionDeclarationStmt", "ForStmt", "IndexAssignmentStmt", "SelectorAssignmentStmt",
           "BreakStmt", "ContinueStmt", "Identifier", "IntegerLiteral", "StringLiteral",
           "BooleanLiteral", "NullLiteral", "PrefixExpr", "InfixExpr", "IfExpr", "CallExpr",
           "IndexExpr", "SelectorExpr", "FunctionLiteral", "ArrayLiteral", "HashLiteral",
           "StructLiteral", "MatchExpr", "Arm"}

RECURSIVE Clone(_)
Clone(n) == IF n.kind \in Cloned THEN MapChildren(n, Clone) ELSE None

\* ast.SubstituteTypeParams: the children it descends to.
Substituted(n) ==
    CASE n.kind \in {"VarDeclarationStmt", "ReturnStmt"} -> {"value"}
      [] n.kind = "BlockStmt"                 -> {"stmts"}
      [] n.kind = "ExpressionStmt"            -> {"expr"}
      [] n.kind = "ForStmt"                   -> {"init", "post", "body"}
      [] n.kind \in {"FunctionLiteral", "Arm"} -> {"body"}
      [] n.kind = "IfExpr"                    -> {"consequence", "alternative"}
      [] n.kind = "MatchExpr"                 -> {"yes", "no"}
      [] n.kind = "StructLiteral"             -> {"values"}
      [] n.kind = "CallExpr"                  -> {"args"}
      [] OTHER                                -> {}

\* A match on an option has no ok arm to descend to: a nil dereference.
Panic == [kind |-> "Panic"]

RECURSIVE SubstituteIn(_, _)
SubstituteIn(n, subs) ==
    LET sub(m) == SubstituteIn(m, subs)
        m == [x \in DOMAIN n |->
                CASE x = "type" /\ n.kind \in {"VarDeclarationStmt", "FunctionLiteral"} -> Substitute(n[x], subs)
                  [] x = "targs" -> [i \in DOMAIN n[x] |-> Substitute(n[x][i], subs)]
                  [] OTHER       -> n[x]]
    IN IF n.kind = "MatchExpr" /\ n.of = "option" THEN Panic ELSE MapFields(m, Substituted(n), sub)

SubsOf(tparams, targs) == [x \in ToSet(tparams) |-> targs[CHOOSE i \in DOMAIN tparams : tparams[i] = x]]

Insert(c, s) ==
    [c EXCEPT !.inserts = (c.at :> (IF c.at \in DOMAIN @ THEN Append(@[c.at], s) ELSE <<s>>)) @@ @]

\* The struct of a generic one with these arguments, defined once.
DefineInstance(c, name, targs) ==
    LET mangled == MonomorphizeName(name, targs)
        def     == c.genericStructs[name]
        fresh   == StructDefinitionStmt(mangled, <<>>, def.fields,
                       [i \in DOMAIN def.types |-> Substitute(def.types[i], SubsOf(def.tparams, targs))])
    IN IF mangled \in c.done THEN c
       ELSE Insert([c EXCEPT !.structs = (mangled :> fresh) @@ @, !.done = @ \cup {mangled}], fresh)

HasParam(targs) == \E i \in DOMAIN targs : targs[i][1] = "param"

\* resolveGenericStructType.
ResolveStruct(c, t) ==
    IF t[1] # "struct" \/ t[3] = <<>> \/ t[2] \notin DOMAIN c.genericStructs \/ HasParam(t[3])
    THEN R(c, t, None)
    ELSE R(DefineInstance(c, t[2], t[3]), StructType(MonomorphizeName(t[2], t[3])), None)

\* resolveType, and a sequence of types from left to right.
RECURSIVE ResolveType(_, _)
RECURSIVE ResolveAll(_, _)
ResolveAll(c, ts) ==
    IF ts = <<>> THEN R(c, <<>>, None)
    ELSE LET first == ResolveType(c, Head(ts))
             rest  == ResolveAll(first.c, Tail(ts))
         IN R(rest.c, <<first.t>> \o rest.t, None)

ResolveType(c, t) ==
    LET parts == CASE t[1] \in {"array", "result", "option"} -> <<t[2]>>
                   [] t[1] = "map"  -> <<t[2], t[3]>>
                   [] t[1] = "func" -> Append(t[2], t[3])
                   [] OTHER         -> <<>>
        r == ResolveAll(c, parts)
        n == Len(parts)
    IN CASE t[1] = "struct" -> ResolveStruct(c, t)
         [] t[1] = "array"  -> R(r.c, ArrayType(r.t[1]), None)
         [] t[1] = "map"    -> R(r.c, MapType(r.t[1], r.t[2]), None)
         [] t[1] = "func"   -> R(r.c, FunctionType(SubSeq(r.t, 1, n - 1), r.t[n]), None)
         [] t[1] \in {"result", "option"} -> R(r.c, <<t[1], r.t[1]>>, None)
         [] OTHER           -> R(c, t, None)

\* The parameters and the result of an instance: only structs at the top.
ResolveStructs(c, ft) ==
    LET step(acc, t) == LET r == ResolveStruct(acc.c, t) IN R(r.c, Append(acc.t, r.t), None)
        r == FoldLeft(step, R(c, <<>>, None), Append(ft[2], ft[3]))
        n == Len(ft[2])
    IN R(r.c, FunctionType(SubSeq(r.t, 1, n), r.t[n + 1]), None)

\* unifyType: what a parameter's type says about the type parameters.
RECURSIVE Unify(_, _, _)
Unify(p, arg, subs) ==
    CASE p[1] = "param" -> IF p[2] \in DOMAIN subs THEN subs ELSE (p[2] :> arg) @@ subs
      [] p[1] = arg[1] /\ p[1] \in {"array", "result"} -> Unify(p[2], arg[2], subs)
      [] p[1] = arg[1] /\ p[1] = "map" -> Unify(p[3], arg[3], Unify(p[2], arg[2], subs))
      [] OTHER -> subs

-----------------------------------------------------------------------------
(* Expressions                                                             *)

RECURSIVE TypeOf(_, _, _)
RECURSIVE TypeAll(_, _, _)
RECURSIVE Check(_, _)
RECURSIVE CheckFunctionDeclaration(_, _)

\* Nodes from left to right, each with the type that is expected of it: t and
\* n are sequences.
TypeAll(c, es, wants) ==
    IF es = <<>> THEN R(c, <<>>, <<>>)
    ELSE LET first == TypeOf(c, Head(es), Head(wants))
             rest  == TypeAll(first.c, Tail(es), Tail(wants))
         IN R(rest.c, <<first.t>> \o rest.t, <<first.n>> \o rest.n)

Unexpected(es) == [i \in DOMAIN es |-> NilType]

TypeOfArrayLiteral(c, n, want) ==
    LET target == IF want[1] = "array" THEN want[2] ELSE NilType
        r      == TypeAll(c, n.elements, [i \in DOMAIN n.elements |-> target])
        empty  == n.elements = <<>>
        wrong  == target # NilType /\ \E i \in DOMAIN r.t : ~TypesMatch(r.c, r.t[i], target)
        elem   == CASE target # NilType -> target
                    [] target = NilType /\ empty -> NullT
                    [] OTHER -> r.t[1]
        c1     == ErrIf(r.c, wrong, "array element")
        c2     == ErrIf(c1, empty /\ target = NilType, "empty array literal")
    IN R(c2, ArrayT(elem, empty), [n EXCEPT !.elements = r.n, !.resolved = ArrayT(elem, empty)])

\* All keys and values against those of the first pair.
TypeOfHashLiteral(c, n, want) ==
    LET wants == IF want[1] = "map" THEN <<want[2], want[3]>> ELSE <<NilType, NilType>>
        count == Len(n.pairs)
        r     == TypeAll(c, FlattenSeq(n.pairs), FlattenSeq([i \in 1 .. count |-> wants]))
        key(i) == r.t[2 * i - 1]
        val(i) == r.t[2 * i]
        wrong == \E i \in 2 .. count : ~TypesMatch(r.c, key(i), key(1)) \/ ~TypesMatch(r.c, val(1), val(i))
        type  == IF count = 0 THEN MapT(NullT, NullT, TRUE) ELSE MapType(key(1), val(1))
    IN R(ErrIf(r.c, wrong, "map entry"), type,
         [n EXCEPT !.pairs = [i \in 1 .. count |-> <<r.n[2 * i - 1], r.n[2 * i]>>], !.resolved = type])

\* A body is checked as one of a loop, wherever the literal stands.
TypeOfFunctionLiteral(c, n) ==
    LET f  == ResolveType(c, n.type)
        c1 == [Push(f.c) EXCEPT !.inLoop = TRUE, !.ret = f.t[3]]
        c2 == IF n.name = "" THEN c1 ELSE EnvSet(c1, n.name, f.t)
        b  == Check(EnvSetAll(c2, n.params, f.t[2]), n.body)
    IN R(Leave(f.c, b.c), f.t, [n EXCEPT !.type = f.t, !.body = b.n])

Defined(op) ==
    CASE op \in {"<", "<=", ">", ">=", "-", "*", "/", "%"} -> {IntT}
      [] op \in {"&&", "||"} -> {BoolT}
      [] op = "+"            -> {IntT, StringT}

\* Mutant: an operator is only refused on operands of different types.
MutCheckInfixExpr(c, op, lt, rt) ==
    R(ErrIf(c, ~TypesMatch(c, lt, rt), "operands"),
      IF op \in {"+", "-", "*", "/", "%"} THEN lt ELSE BoolT, None)

\* checkInfixExpr, without floats and bytes.
CheckInfixExpr(c, op, lt, rt) ==
    LET c1 == ErrIf(c, ~TypesMatch(c, lt, rt), "operands")
    IN CASE op \in {"==", "!="}           -> R(c1, BoolT, None)
         [] op \in {"+", "-", "*", "/"}   -> R(ErrIf(c1, lt \notin Defined(op), "operator"), lt, None)
         [] op = "%"                      -> R(ErrIf(c1, lt \notin Defined(op), "operator"), IntT, None)
         [] op \in {"<", "<=", ">", ">=", "&&", "||"} -> R(ErrIf(c1, lt \notin Defined(op), "operator"), BoolT, None)

TypeOfInfixExpr(c, n) ==
    LET r == TypeAll(c, <<n.left, n.right>>, <<NilType, NilType>>)
        o == CheckInfixExpr(r.c, n.op, r.t[1], r.t[2])
    IN R(o.c, o.t, [n EXCEPT !.left = r.n[1], !.right = r.n[2]])

TypeOfPrefixExpr(c, n) ==
    LET r  == TypeOf(c, n.right, NilType)
        ok == r.t = IF n.op = "!" THEN BoolT ELSE IntT
    IN R(ErrIf(r.c, ~ok, "prefix operator"), IF ok THEN r.t ELSE NilType, [n EXCEPT !.right = r.n])

\* The type of the whole is that of the first branch.
TypeOfIfExpr(c, n) ==
    LET r    == TypeOf(c, n.condition, BoolT)
        yes  == Check([r.c EXCEPT !.discard = FALSE], n.consequence)
        no   == Check(yes.c, n.alternative)
        both == n.alternative # None
        fits == ~both \/ c.discard \/ TypesMatch(no.c, yes.t, no.t)
        done == [(IF both THEN no.c ELSE yes.c) EXCEPT !.discard = r.c.discard]
    IN IF r.t # BoolT THEN R(Err(r.c, "if condition"), NilType, n)
       ELSE R(ErrIf(done, ~fits, "branches"), IF fits THEN yes.t ELSE UnitT,
              [n EXCEPT !.condition = r.n, !.consequence = yes.n, !.resolved = yes.t,
                        !.alternative = IF both THEN no.n ELSE None])

TypeOfIndexExpr(c, n) ==
    LET r == TypeAll(c, <<n.left, n.index>>, <<NilType, NilType>>)
        l == r.t[1]
        m == [n EXCEPT !.left = r.n[1], !.index = r.n[2]]
        as(ok, t) == R(ErrIf(r.c, ~ok, "index"), IF ok THEN t ELSE NilType,
                       [m EXCEPT !.resolved = IF ok THEN t ELSE NilType])
    IN CASE l[1] = "array" -> as(r.t[2] = IntT, l[2])
         [] l[1] = "map"   -> as(r.t[2] = l[2], OptionType(l[3]))
         [] OTHER          -> as(FALSE, NilType)

TypeOfSliceExpr(c, n) ==
    LET r == TypeAll(c, <<n.left, n.start, n.end>>, <<NilType, IntT, IntT>>)
        bound(i) == r.n[i] = None \/ r.t[i] = IntT
        ok == /\ r.t[1][1] = "array" \/ r.t[1] = StringT
              /\ bound(2) /\ bound(3) /\ {n.start, n.end} # {None}
    IN R(ErrIf(r.c, ~ok, "slice"), IF ok THEN r.t[1] ELSE UnitT,
         [n EXCEPT !.left = r.n[1], !.start = r.n[2], !.end = r.n[3], !.resolved = r.t[1]])

\* The fields of a struct and the type of one of them.
FieldsOf(c, t) == IF t[1] = "struct" /\ t[2] \in DOMAIN c.structs THEN c.structs[t[2]].fields ELSE <<>>
FieldType(c, t, f) == LET s == c.structs[t[2]] IN s.types[CHOOSE i \in DOMAIN s.fields : s.fields[i] = f]

TypeOfSelectorExpr(c, n) ==
    LET l  == TypeOf(c, n.left, NilType)
        fs == FieldsOf(l.c, l.t)
    IN IF n.field \notin ToSet(fs) THEN R(Err(l.c, "field"), UnitT, [n EXCEPT !.left = l.n])
       ELSE LET t == FieldType(l.c, l.t, n.field)
            IN R(l.c, t, [n EXCEPT !.left = l.n, !.order = fs, !.resolved = t])

\* Every field exactly as the struct has it; a generic struct is made concrete.
RECURSIVE MonomorphizeStructMethods(_, _, _)
TypeOfStructLiteral(c, n) ==
    LET generic == n.targs # <<>>
        known   == IF generic THEN n.name \in DOMAIN c.genericStructs /\ Len(n.targs) = Len(c.genericStructs[n.name].tparams)
                   ELSE n.name \in DOMAIN c.structs
        name    == IF generic THEN MonomorphizeName(n.name, n.targs) ELSE n.name
        c1      == IF generic /\ name \notin c.done
                   THEN MonomorphizeStructMethods(DefineInstance(c, n.name, n.targs), n.name, n.targs) ELSE c
        s       == c1.structs[name]
        given(i) == n.fields[i] \in ToSet(s.fields)
        want(i) == IF given(i) THEN FieldType(c1, StructType(name), n.fields[i]) ELSE NilType
        r       == TypeAll(c1, n.values, [i \in DOMAIN n.values |-> want(i)])
        wrong   == \/ ToSet(s.fields) # ToSet(n.fields)
                   \/ \E i \in DOMAIN n.fields : given(i) /\ ~TypesMatch(r.c, r.t[i], want(i))
    IN IF ~known THEN R(Err(c, "struct"), UnitT, n)
       ELSE R(ErrIf(r.c, wrong, "struct literal"), StructType(name),
              [n EXCEPT !.name = name, !.values = r.n, !.order = s.fields, !.resolved = StructType(name)])

\* One arm of a match, with the type of its binding.
CheckArm(c, arm, t) ==
    LET c1 == IF arm.binding = "" THEN Push(c) ELSE EnvSet(Push(c), arm.binding, t)
        b  == Check(c1, arm.body)
    IN R(Leave(c, b.c), b.t, [arm EXCEPT !.body = b.n])

\* checkMatchExpr and checkOptionMatch.
TypeOfMatchExpr(c, n) ==
    LET s    == TypeOf(c, n.subject, NilType)
        kind == s.t[1]
        yes  == CheckArm([s.c EXCEPT !.discard = FALSE], n.yes, s.t[2])
        context == CASE kind = "option"                       -> c.match
                     [] kind = "result" /\ yes.t[1] = "result" -> yes.t[2]
                     [] OTHER                                 -> yes.t
        no   == CheckArm([yes.c EXCEPT !.match = context], n.no, StringT)
        c1   == [no.c EXCEPT !.discard = s.c.discard, !.match = c.match]
        fits == s.c.discard \/ TypesMatch(c1, no.t, yes.t)
        type == IF yes.t = NeverT THEN no.t ELSE yes.t
    IN CASE kind \notin {"option", "result"} -> R(Err(s.c, "match subject"), NilType, n)
         [] kind \in {"option", "result"} /\ kind # n.of -> R(Err(s.c, "panic"), NilType, n)
         [] OTHER ->
              IF NilType \in {yes.t, no.t} THEN R(Err(c1, "match arm"), NilType, n)
              ELSE R(ErrIf(c1, ~fits, "match arms"), type,
                     [n EXCEPT !.subject = s.n, !.yes = yes.n, !.no = no.n, !.resolved = type])

\* The arms in order.
RECURSIVE CheckTypeArms(_, _)
CheckTypeArms(c, arms) ==
    IF arms = <<>> THEN R(c, <<>>, <<>>)
    ELSE LET t     == ResolveType(c, Head(arms).type)
             first == CheckArm(t.c, [Head(arms) EXCEPT !.type = t.t], t.t)
             rest  == CheckTypeArms(first.c, Tail(arms))
         IN R(rest.c, <<first.t>> \o rest.t, <<first.n>> \o rest.n)

TypeOfMatchTypeExpr(c, n) ==
    LET s     == TypeOf(c, n.subject, NilType)
        arms  == CheckTypeArms([s.c EXCEPT !.discard = FALSE], n.arms)
        other == Check(Push(arms.c), n.default)
        c1    == [(IF n.default = None THEN arms.c ELSE Leave(arms.c, other.c)) EXCEPT !.discard = s.c.discard]
        type  == IF n.default = None THEN arms.t[1] ELSE other.t
        clash == ~s.c.discard /\ \E i \in DOMAIN arms.t : arms.t[i] # type
        panic == ~s.c.discard /\ \E i \in DOMAIN arms.t : arms.t[i][1] = type[1] /\ ~Comparable(type)
        misfit == \E i \in DOMAIN n.arms :
                     /\ s.t[1] = "interface" /\ n.arms[i].type[1] = "struct"
                     /\ ~StructSatisfiesInterface(s.c, n.arms[i].type[2], s.c.interfaces[s.t[2]])
    IN IF s.t # AnyT /\ s.t[1] # "interface" THEN R(Err(s.c, "match typeof subject"), UnitT, n)
       ELSE R(ErrIf(ErrIf(c1, panic, "panic"), clash \/ misfit, "match typeof arms"), IF clash THEN UnitT ELSE type,
              [n EXCEPT !.subject = s.n, !.arms = arms.n, !.resolved = type,
                        !.default = IF n.default = None THEN None ELSE other.n])

-----------------------------------------------------------------------------
(* Calls                                                                   *)

\* validateFunctionCall: each argument against its parameter.
ValidateCall(c, n, ft) ==
    LET r     == TypeAll(c, n.args, ft[2])
        wrong == \E i \in DOMAIN r.t : ~TypesMatch(r.c, r.t[i], ft[2][i])
    IN CASE ft[1] # "func"                 -> R(Err(c, "not a function"), NilType, n)
         [] ft[1] = "func" /\ Len(n.args) # Len(ft[2]) -> R(Err(c, "number of arguments"), NilType, n)
         [] OTHER -> R(ErrIf(r.c, wrong, "argument"), IF wrong THEN NilType ELSE ft[3],
                       [n EXCEPT !.args = r.n, !.resolved = ft[3]])

\* Calls with a rule of their own, three of them for builtins that do not
\* exist: the number of arguments, the first argument, the type of the result.
RuledCalls == Builtins \cup {"first", "last", "rest"}
Arity(f) == CASE f = "none" -> 0 [] f = "append" -> 2 [] OTHER -> 1

BuiltinTakes(f, t) ==
    CASE f = "len"                                -> t[1] \in {"array", "map"} \/ t = StringT
      [] f \in {"first", "last", "rest", "append"} -> t[1] = "array"
      [] f \in {"keys", "values"}                 -> t[1] = "map"
      [] f \in {"err", "panic"}                   -> t = StringT
      [] OTHER                                    -> TRUE

\* err and none take the expected type, or that of the first arm of a match.
BuiltinType(f, t, context) ==
    CASE f = "len"               -> IntT
      [] f = "panic"             -> NeverT
      [] f \in {"first", "last"} -> t[2]
      [] f \in {"rest", "append"} -> t
      [] f = "keys"              -> ArrayType(t[2])
      [] f = "values"            -> ArrayType(t[3])
      [] f = "ok"                -> ResultType(t)
      [] f = "some"              -> OptionType(t)
      [] f = "err"               -> ResultType(IF context[1] = "result" THEN context[2] ELSE context)
      [] f = "none"              -> OptionType(IF context[1] = "option" THEN context[2] ELSE context)

CheckBuiltin(c, n, want) ==
    LET f       == n.function.name
        r       == TypeAll(c, n.args, Unexpected(n.args))
        first   == IF n.args = <<>> THEN NilType ELSE r.t[1]
        context == IF want = NilType THEN c.match ELSE want
        refused == \/ Len(n.args) # Arity(f)
                   \/ ~BuiltinTakes(f, first)
                   \/ f = "append" /\ ~TypesMatch(r.c, r.t[2], first[2])
                   \/ f \in {"err", "none"} /\ context = NilType
        type    == BuiltinType(f, first, context)
        m       == [n EXCEPT !.args = r.n]
    IN CASE f = "print"              -> R(r.c, UnitT, m)
         [] f # "print" /\ refused   -> R(Err(r.c, f), UnitT, n)
         [] OTHER -> R(r.c, type, IF f \in {"ok", "err", "some", "none"} THEN [m EXCEPT !.resolved = type] ELSE m)

\* inferTypeArgs: one entry per parameter, the type parameters' first.
InferTypeArgs(c, n, template) ==
    LET ps      == template.type[2]
        r       == TypeAll(c, n.args, Unexpected(n.args))
        subs    == FoldLeft(LAMBDA acc, i : Unify(ps[i], r.t[i], acc), <<>>, [i \in DOMAIN ps |-> i])
        unknown == \E x \in ToSet(template.tparams) : x \notin DOMAIN subs
        targs   == [i \in DOMAIN ps |-> IF i \in DOMAIN template.tparams THEN subs[template.tparams[i]] ELSE NilType]
    IN CASE Len(n.args) # Len(ps)              -> R(Err(c, "number of arguments"), <<>>, n)
         [] Len(n.args) = Len(ps) /\ unknown   -> R(Err(r.c, "type parameter"), <<>>, n)
         [] OTHER -> R(ErrIf(r.c, Len(template.tparams) > Len(ps), "panic"), targs, [n EXCEPT !.args = r.n])

\* A function made from a template: its type, name and body with the type
\* arguments in place.
Instance(template, name, mangled, type, subs) ==
    [Clone(template) EXCEPT !.name = name, !.mangled = mangled, !.type = type, !.tparams = <<>>,
                            !.body = SubstituteIn(Clone(template.body), subs)]

\* The instance is only remembered once its body has been checked.
MonomorphizeCall(c, n, template) ==
    LET name == MonomorphizeName(template.name, n.targs)
        subs == SubsOf(template.tparams, n.targs)
        ft   == ResolveStructs(c, Substitute(template.type, subs))
        f    == CheckFunctionDeclaration(ft.c, Instance(template, name, template.mangled, ft.t, subs))
        made == [Insert(f.c, f.n) EXCEPT !.done = @ \cup {name}]
    IN IF Len(n.targs) # Len(template.tparams) THEN R(Err(c, "type arguments"), NilType, n)
       ELSE ValidateCall(IF name \in c.done THEN ft.c ELSE made, [n EXCEPT !.mangled = name], ft.t)

\* The methods of a generic struct, for its type arguments; the names go into
\* the scope of the literal that is being checked.
MonomorphizeStructMethods(c, name, targs) ==
    LET struct  == MonomorphizeName(name, targs)
        subs    == SubsOf(c.genericStructs[name].tparams, targs)
        methods == {f \in DOMAIN c.generics :
                       /\ c.generics[f].type[2] # <<>>
                       /\ c.generics[f].type[2][1][1] = "struct" /\ c.generics[f].type[2][1][2] = name
                       /\ MonomorphizeName(f, targs) \notin c.done}
        make(acc, f) ==
            LET ft  == ResolveStructs(acc, Substitute(c.generics[f].type, subs))
                key == MangleMethod(struct, f)
                g   == CheckFunctionDeclaration(EnvSet(ft.c, key, ft.t),
                           Instance(c.generics[f], MonomorphizeName(f, targs), key, ft.t, subs))
            IN [Insert(g.c, g.n) EXCEPT !.done = @ \cup {MonomorphizeName(f, targs)}]
        c1      == FoldLeft(make, c, SetToSeq(methods))
    IN [c1 EXCEPT !.structs[struct].interfaces = Implements(c1, struct)]

\* A method of the receiver's type, then one of its interface, then a field.
TypeOfMethodCall(c, n) ==
    LET l     == TypeOf(c, n.function.left, NilType)
        name  == MangleMethod(Signature(l.t), n.function.field)
        iface == IF l.t[1] = "interface" THEN l.c.interfaces[l.t[2]] ELSE [methods |-> <<>>]
        k     == {i \in DOMAIN iface.methods : iface.methods[i] = n.function.field}
        field == TypeOf(l.c, n.function, NilType)
        args  == IF n.mangled = "" THEN <<n.function.left>> \o n.args ELSE n.args
    IN CASE Known(l.c, name) -> ValidateCall(l.c, [n EXCEPT !.args = args, !.mangled = name], TypeNamed(l.c, name))
         [] ~Known(l.c, name) /\ k # {} ->
              ValidateCall(l.c, [n EXCEPT !.function.left = l.n], iface.types[Min(k)])
         [] OTHER -> ValidateCall(field.c, [n EXCEPT !.function = field.n], field.t)

\* A method by its plain name, a builtin, or whatever the name is bound to.
TypeOfNamedCall(c, n, want) ==
    LET f    == n.function.name
        arg  == TypeOf(c, n.args[1], NilType)
        name == MangleMethod(Signature(arg.t), f)
        c1   == IF n.args = <<>> THEN c ELSE arg.c
        m    == IF n.args = <<>> THEN n ELSE [n EXCEPT !.args[1] = arg.n]
        fn   == TypeOf(c1, n.function, NilType)
    IN IF n.args # <<>> /\ arg.t = NilType THEN R(Err(arg.c, "receiver"), NilType, n)
       ELSE IF n.args # <<>> /\ Known(c1, name) THEN ValidateCall(c1, m, TypeNamed(c1, name))
       ELSE IF f \in RuledCalls THEN CheckBuiltin(c1, m, want)
       ELSE ValidateCall(fn.c, [m EXCEPT !.function = fn.n], fn.t)

TypeOfCallExpr(c, n, want) ==
    LET f == n.function IN
    IF f.kind = "SelectorExpr" THEN TypeOfMethodCall(c, n)
    ELSE IF f.kind # "Identifier" THEN LET fn == TypeOf(c, f, NilType) IN ValidateCall(fn.c, [n EXCEPT !.function = fn.n], fn.t)
    ELSE IF f.name \notin DOMAIN c.generics THEN TypeOfNamedCall(c, n, want)
    ELSE LET r == IF n.targs = <<>> THEN InferTypeArgs(c, n, c.generics[f.name]) ELSE R(c, n.targs, n)
         IN IF r.t = <<>> THEN TypeOfNamedCall(r.c, r.n, want)
            ELSE MonomorphizeCall(r.c, [r.n EXCEPT !.targs = r.t], c.generics[f.name])

\* typeOfInner: the type of an expression of each kind.
TypeOfInner(c, n, want) ==
    CASE n.kind = "IntegerLiteral"  -> R(c, IntT, n)
      [] n.kind = "StringLiteral"   -> R(c, StringT, n)
      [] n.kind = "BooleanLiteral"  -> R(c, BoolT, n)
      [] n.kind = "NullLiteral"     -> R(c, NullT, n)
      [] n.kind = "Identifier"      -> IF Known(c, n.name) THEN LET t == TypeNamed(c, n.name) IN R(c, t, [n EXCEPT !.resolved = t])
                                       ELSE R(Err(c, "undefined identifier"), UnitT, n)
      [] n.kind = "ArrayLiteral"    -> TypeOfArrayLiteral(c, n, want)
      [] n.kind = "HashLiteral"     -> TypeOfHashLiteral(c, n, want)
      [] n.kind = "FunctionLiteral" -> TypeOfFunctionLiteral(c, n)
      [] n.kind = "InfixExpr"       -> TypeOfInfixExpr(c, n)
      [] n.kind = "PrefixExpr"      -> TypeOfPrefixExpr(c, n)
      [] n.kind = "IfExpr"          -> TypeOfIfExpr(c, n)
      [] n.kind = "CallExpr"        -> TypeOfCallExpr(c, n, want)
      [] n.kind = "IndexExpr"       -> TypeOfIndexExpr(c, n)
      [] n.kind = "SliceExpr"       -> TypeOfSliceExpr(c, n)
      [] n.kind = "SelectorExpr"    -> TypeOfSelectorExpr(c, n)
      [] n.kind = "StructLiteral"   -> TypeOfStructLiteral(c, n)
      [] n.kind = "MatchExpr"       -> TypeOfMatchExpr(c, n)
      [] n.kind = "MatchTypeExpr"   -> TypeOfMatchTypeExpr(c, n)
      [] n.kind = "Panic"           -> R(Err(c, "panic"), NilType, n)

\* typeOf and boxIfNecessary: a struct where an interface is expected is boxed.
TypeOf(c, n, want) ==
    IF n = None THEN R(c, NullT, None)
    ELSE LET boxed == n.kind = "Cast"
             r     == TypeOfInner(c, IF boxed THEN n.expr ELSE n, want)
         IN IF r.t[1] = "struct" /\ want[1] = "interface" THEN [r EXCEPT !.n = Cast(r.n, r.t[2], want[2])]
            ELSE IF boxed THEN [r EXCEPT !.n = [n EXCEPT !.expr = r.n]] ELSE r

-----------------------------------------------------------------------------
(* Statements                                                              *)

\* The statements of a block in the current scope; the type is the last one's.
RECURSIVE CheckStmts(_, _, _)
CheckStmts(c, ss, t) ==
    IF ss = <<>> THEN R(c, t, <<>>)
    ELSE With(Check([c EXCEPT !.last = Len(ss) = 1], Head(ss)), LAMBDA first :
             LET rest == CheckStmts([first.c EXCEPT !.last = c.last], Tail(ss), first.t)
             IN R(rest.c, rest.t, <<first.n>> \o rest.n))

CheckBlock(c, n) == LET r == CheckStmts(c, n.stmts, UnitT) IN R(r.c, r.t, [n EXCEPT !.stmts = r.n])

\* A statement without a type of its own.
Done(c, n) == R(c, UnitT, n)

CheckReturnStmt(c, n) ==
    LET r == IF n.value = None THEN R(c, UnitT, None) ELSE TypeOf(c, n.value, c.ret)
    IN R(ErrIf(r.c, c.ret = NilType \/ ~TypesMatch(r.c, r.t, c.ret), "return"), NeverT, [n EXCEPT !.value = r.n])

\* No loop is left around the statements that follow a loop.
AfterLoop(c, inner) == [inner EXCEPT !.env = c.env, !.inLoop = FALSE]

CheckForStmt(c, n) ==
    LET init == Check(Push(c), n.init)
        cond == TypeOf([init.c EXCEPT !.inLoop = TRUE], n.condition, BoolT)
        post == Check(ErrIf(cond.c, cond.t # BoolT, "loop condition"), n.post)
        body == CheckBlock(post.c, n.body)
    IN Done(AfterLoop(c, body.c),
            [n EXCEPT !.init = init.n, !.condition = cond.n, !.post = post.n, !.body = body.n])

\* A map needs both names (the key is dereferenced).
CheckForInStmt(c, n) ==
    LET r    == TypeOf(Push(c), n.iterable, NilType)
        key  == IF r.t[1] = "map" THEN r.t[2] ELSE IntT
        val  == IF r.t[1] = "map" THEN r.t[3] ELSE r.t[2]
        c1   == IF n.key = "" THEN ErrIf(r.c, r.t[1] = "map", "panic") ELSE EnvSet(r.c, n.key, key)
        body == CheckBlock([EnvSet(c1, n.val, val) EXCEPT !.inLoop = TRUE], n.body)
    IN IF r.t[1] \notin {"map", "array"} THEN Done(Err(AfterLoop(c, r.c), "iterable"), n)
       ELSE Done(AfterLoop(c, body.c), [n EXCEPT !.iterable = r.n, !.body = body.n])

\* The declared type is what is expected of the value; only a name that the
\* scope has already (a hoisted one) is checked against its type.
CheckVarDeclStmt(c, n) ==
    LET t    == ResolveType(c, n.type)
        want == IF Known(c, n.name) THEN TypeNamed(c, n.name) ELSE t.t
        r    == TypeOf(t.c, n.value, want)
        m    == [n EXCEPT !.value = r.n, !.type = IF t.t = NilType THEN r.t ELSE t.t]
        val  == IF n.value = None /\ ~n.constant THEN want ELSE r.t
        set  == EnvSet(r.c, n.name, val)
    IN Done(IF r.t = UnitT \/ {val, want} = {NilType} THEN Err(r.c, "variable")
            ELSE IF InScope(c, n.name) THEN ErrIf(r.c, ~TypesMatch(r.c, val, want), "variable")
            ELSE IF n.constant THEN SetConst(set, n.name) ELSE set, m)

CheckVarAssignmentStmt(c, n) ==
    LET want == IF Known(c, n.name) THEN TypeNamed(c, n.name) ELSE NilType
        r    == TypeOf(c, n.value, want)
        bad  == want = NilType \/ IsConst(c, n.name) \/ ~TypesMatch(r.c, want, r.t)
    IN Done(ErrIf(r.c, bad, "assignment"), [n EXCEPT !.value = r.n])

\* The left side is visited as an expression first, then its parts.
CheckIndexAssignment(c, n) ==
    LET whole == TypeOf(c, IndexExpr(n.left, n.index), NilType)
        parts == TypeAll(whole.c, <<n.left, n.index>>, <<NilType, NilType>>)
        l     == parts.t[1]
        elem  == CASE l[1] = "array" -> l[2] [] l[1] = "map" -> l[3] [] OTHER -> NilType
        key   == CASE l[1] = "array" -> IntT [] l[1] = "map" -> l[2] [] OTHER -> NilType
        r     == TypeOf(parts.c, n.value, elem)
        bad   == elem # NilType /\ ~(TypesMatch(r.c, parts.t[2], key) /\ TypesMatch(r.c, r.t, elem))
    IN Done(ErrIf(r.c, bad, "index assignment"), [n EXCEPT !.left = parts.n[1], !.index = parts.n[2], !.value = r.n])

CheckSelectorAssignmentStmt(c, n) ==
    LET l  == TypeOf(c, n.left, NilType)
        fs == FieldsOf(l.c, l.t)
        t  == FieldType(l.c, l.t, n.field)
        r  == TypeOf(l.c, n.value, t)
    IN IF n.field \notin ToSet(fs) THEN Done(Err(l.c, "field"), n)
       ELSE Done(ErrIf(r.c, ~TypesMatch(r.c, r.t, t), "field"),
                 [n EXCEPT !.left = l.n, !.order = fs, !.value = r.n])

\* The value of a last expression counts as a return, whatever its type.
RECURSIVE AllPathsReturn(_)
AllPathsReturn(b) ==
    /\ b.stmts # <<>>
    /\ LET s == Last(b.stmts)
           e == IF s.kind = "ExpressionStmt" THEN s.expr ELSE None
       IN CASE e.kind = "IfExpr"    -> e.alternative # None /\ AllPathsReturn(e.consequence) /\ AllPathsReturn(e.alternative)
            [] e.kind = "MatchExpr" -> e.of = "result" /\ AllPathsReturn(e.yes.body) /\ AllPathsReturn(e.no.body)
            [] OTHER                -> s.kind \in {"ReturnStmt", "ExpressionStmt"}

\* A body with the parameters in a scope around it.
CheckBody(c, n, ft) ==
    LET r == Check(EnvSetAll([Push(c) EXCEPT !.inLoop = FALSE, !.ret = ft[3]], n.params, ft[2]), n.body)
    IN R(Leave(c, r.c), r.t, r.n)

\* Errors in the body of a generic function, checked with any for its type
\* parameters, are thrown away.
CheckGenericFunctionBody(c, n) ==
    LET subs == [x \in ToSet(n.tparams) |-> AnyT]
        r    == CheckBody(c, [n EXCEPT !.body = SubstituteIn(Clone(n.body), subs)], Substitute(n.type, subs))
    IN [r.c EXCEPT !.errors = c.errors \cup (@ \cap {"panic"})]

\* A match on an option as the last statement is a nil dereference.
CheckFunctionDeclaration(c, n) ==
    LET ft     == n.type
        method == ft[2] # <<>> /\ IsInterfaceMethod(c, ft[2][1], n.name)
        m      == IF method THEN [n EXCEPT !.mangled = MangleMethod(ft[2][1][2], n.name)] ELSE n
        c1     == IF Known(c, n.name) THEN c ELSE EnvSet(c, IF method THEN m.mangled ELSE n.name, ft)
        r      == CheckBody(c1, m, ft)
    IN IF n.tparams # <<>> THEN Done(CheckGenericFunctionBody(c, n), n)
       ELSE Done(ErrIf(r.c, ft[3] # UnitT /\ ~AllPathsReturn(n.body), "missing return"), [m EXCEPT !.body = r.n])

\* check.
Check(c, n) ==
    CASE n.kind = "BlockStmt" -> LET r == CheckBlock(Push(c), n) IN [r EXCEPT !.c.env = c.env]
      [] n.kind = "ExpressionStmt" ->
           LET r == TypeOf([c EXCEPT !.discard = c.ret \in {NilType, UnitT} \/ ~c.last], n.expr, NilType)
           IN R([r.c EXCEPT !.discard = c.discard], r.t, [n EXCEPT !.expr = r.n])
      [] n.kind = "ReturnStmt"              -> CheckReturnStmt(c, n)
      [] n.kind = "ForStmt"                 -> CheckForStmt(c, n)
      [] n.kind = "ForInStmt"               -> CheckForInStmt(c, n)
      [] n.kind = "VarDeclarationStmt"      -> CheckVarDeclStmt(c, n)
      [] n.kind = "VarAssignmentStmt"       -> CheckVarAssignmentStmt(c, n)
      [] n.kind = "IndexAssignmentStmt"     -> CheckIndexAssignment(c, n)
      [] n.kind = "SelectorAssignmentStmt"  -> CheckSelectorAssignmentStmt(c, n)
      [] n.kind = "FunctionDeclarationStmt" -> CheckFunctionDeclaration(c, n)
      [] n.kind \in {"BreakStmt", "ContinueStmt"} ->
           R(ErrIf(c, ~c.inLoop, n.kind), IF c.inLoop THEN UnitT ELSE NilType, n)
      [] OTHER                              -> Done(c, n)

-----------------------------------------------------------------------------
(* Programs                                                                *)

\* hoistBase: structs, interfaces and the annotated variables.
HoistBase(c, n) ==
    CASE n.kind = "StructDefinitionStmt" ->
           Done(IF n.tparams # <<>> THEN [c EXCEPT !.genericStructs = (n.name :> n) @@ @]
                ELSE [c EXCEPT !.structs = (n.name :> n) @@ @], n)
      [] n.kind = "InterfaceDefinitionStmt" ->
           Done([EnvSet(c, n.name, InterfaceType(n.name)) EXCEPT !.interfaces = (n.name :> n) @@ @], n)
      [] n.kind = "VarDeclarationStmt" /\ n.type # NilType ->
           LET t   == ResolveType(c, n.type)
               set == EnvSet(t.c, n.name, t.t)
           IN Done(IF InScope(c, n.name) THEN Err(t.c, "already declared")
                   ELSE IF n.constant THEN SetConst(set, n.name) ELSE set, [n EXCEPT !.type = t.t])
      [] OTHER -> Done(c, n)

\* hoistGenericFunction: known with any for its type parameters.
HoistGenericFunction(c, n) ==
    LET ft     == Substitute(n.type, [x \in ToSet(n.tparams) |-> AnyT])
        method == ft[2] # <<>> /\ ft[2][1][1] = "struct"
        m      == IF method THEN [n EXCEPT !.mangled = MangleMethod(ft[2][1][2], n.name)] ELSE n
        c1     == EnvSet([c EXCEPT !.generics = (n.name :> m) @@ @], n.name, ft)
    IN Done(IF method THEN EnvSet(c1, m.mangled, ft) ELSE c1, m)

\* hoistFunctions: a function whose first parameter is a struct is a method.
HoistFunctions(c, n) ==
    LET ft     == ResolveType(c, n.type)
        method == ft.t[2] # <<>> /\ ft.t[2][1][1] = "struct"
        name   == IF method THEN MangleMethod(ft.t[2][1][2], n.name) ELSE n.name
        m      == [n EXCEPT !.type = ft.t, !.mangled = IF method THEN name ELSE ""]
    IN IF n.kind # "FunctionDeclarationStmt" THEN Done(c, n)
       ELSE IF n.tparams # <<>> THEN HoistGenericFunction(ft.c, [n EXCEPT !.type = ft.t])
       ELSE IF InScope(ft.c, n.name) THEN Done(Err(ft.c, "already declared"), m)
       ELSE Done(EnvSet(ft.c, name, ft.t), m)

\* The three passes over the top level, each statement told where it stands.
RECURSIVE Pass(_, _, _, _)
Pass(name, c, ss, i) ==
    IF i > Len(ss) THEN R(c, UnitT, ss)
    ELSE LET d == [c EXCEPT !.at = i]
         IN With(CASE name = "base"      -> HoistBase(d, ss[i])
                   [] name = "functions" -> HoistFunctions(d, ss[i])
                   [] name = "check"     -> Check(d, ss[i]),
                 LAMBDA r : Pass(name, r.c, [ss EXCEPT ![i] = r.n], i + 1))

\* insertPending and FilterGenericTemplates: the instances stand before the
\* statement that needed them, the templates are gone.
InsertPending(c, ss) ==
    FlattenSeq([i \in DOMAIN ss |-> Append(IF i \in DOMAIN c.inserts THEN c.inserts[i] ELSE <<>>, ss[i])])

FilterGenericTemplates(ss) == SelectSeq(ss, LAMBDA s : ~("tparams" \in DOMAIN s /\ s.tparams # <<>>))

\* A definition as the checker left it, with the interfaces it found.
WithInterfaces(c, s) ==
    IF s.kind = "StructDefinitionStmt" /\ s.name \in DOMAIN c.structs THEN c.structs[s.name] ELSE s

CheckProgram(p) ==
    LET base  == Pass("base", New, p.stmts, 1)
        funcs == Pass("functions", base.c, base.n, 1)
        all   == Pass("check", DiscoverImplementations(funcs.c), funcs.n, 1)
        out   == FilterGenericTemplates(InsertPending(all.c, all.n))
    IN [errors |-> all.c.errors, program |-> Program([i \in DOMAIN out |-> WithInterfaces(all.c, out[i])])]

=============================================================================
