-------------------------------- MODULE MCVM --------------------------------
(***************************************************************************)
(* Programs for the checker, the compiler and the virtual machine, as the  *)
(* parser would build them.  Most are built from a context (main program,  *)
(* function, kinds of loop) with two statements in it; others are written  *)
(* for one feature each; and each place for an expression is filled with   *)
(* expressions of every type.                                              *)
(***************************************************************************)
EXTENDS VM

I(n)         == IntegerLiteral(n)
V(x)         == Identifier(x)
Infix(o, l, r) == InfixExpr(o, l, r)
Let(x, e)    == VarDeclarationStmt(TRUE, x, e, NilType)
Mut(x, e)    == VarDeclarationStmt(FALSE, x, e, NilType)
Set(x, e)    == VarAssignmentStmt(x, e)
Do(e)        == ExpressionStmt(e)
CallOn(f, as)  == CallExpr(V(f), <<>>, as)
Call1(f, a)  == CallOn(f, <<a>>)
Show(e)      == Do(Call1("print", e))
Body(ss)     == BlockStmt(ss)
If(c, a)     == Do(IfExpr(c, Body(a), None))
Scoped(ss)   == If(BooleanLiteral(TRUE), ss)
IfElse(c, a, b) == Do(IfExpr(c, Body(a), Body(b)))
Cond(c, a, b)   == IfExpr(c, Body(<<Do(a)>>), Body(<<Do(b)>>))
Incr(x)      == Set(x, Infix("+", V(x), I(1)))
Is(x, n)     == Infix("==", V(x), I(n))
IntToInt     == FunctionType(<<IntT>>, IntT)
Lambda(name, p, ss) == FunctionLiteral(name, <<p>>, IntToInt, Body(ss))
Func(name, p, ss)   == FunctionDeclarationStmt(name, <<>>, <<p>>, IntToInt, Body(ss))
For(x, n, ss) == ForStmt(Mut(x, I(0)), Infix("<", V(x), I(n)), Incr(x), Body(ss))

-----------------------------------------------------------------------------
(* Statements about a variable a that may be assigned, in a loop over i.   *)

InnerLoop(j, s) == For(j, 2, <<s, Set("a", Infix("+", V("a"), V(j)))>>)

Straight == {
    Incr("a"),
    Show(V("a")),
    IfElse(Infix("<=", V("a"), V("i")), <<Let("b", V("i")), Set("a", V("b"))>>, <<Show(V("i"))>>),
    Set("a", Cond(Infix(">=", V("a"), I(2)), Infix("*", V("a"), I(2)), Infix("-", V("a"), I(1)))),
    Scoped(<<Let("o", IndexExpr(HashLiteral(<<<<I(1), V("a")>>>>), V("i"))),
           Show(MatchExpr("option", V("o"), Arm("w", Body(<<Let("b", V("w")), Do(Infix("+", V("b"), V("a")))>>)),
                          Arm("", Body(<<Do(I(5))>>))))>>),
    Scoped(<<Let("g", Lambda("g", "n", <<Do(Infix("+", V("n"), V("a")))>>)), Show(Call1("g", V("i")))>>),
    Scoped(<<Let("g", Lambda("g", "n", <<Do(IfExpr(Is("n", 0), Body(<<ReturnStmt(V("a"))>>), None)),
                                        Do(Call1("g", Infix("-", V("n"), I(1))))>>)),
           Show(Call1("g", I(1)))>>) }

Looping == {
    Scoped(<<Let("b", V("a")), InnerLoop("j", If(Is("j", 0), <<ContinueStmt>>)), Show(V("b"))>>),
    InnerLoop("j", If(Infix("&&", Is("j", 1), Is("i", 0)), <<BreakStmt>>)),
    ForInStmt("k", "e", ArrayLiteral(<<I(3), V("a")>>),
              Body(<<If(Is("k", 0), <<ContinueStmt>>), Show(V("e"))>>)) }

Leaving == {
    If(Is("i", 0), <<ContinueStmt>>),
    If(Is("i", 0), <<Show(I(9)), BreakStmt>>) }

\* A variable of the loop's body that hides a.
Hiding == {Mut("a", Infix("+", V("i"), I(7)))}

\* Only in a function.
Returning == {
    Do(IfExpr(Is("i", 1), Body(<<ReturnStmt(V("a"))>>), None)),
    Do(IfExpr(Is("i", 0), Body(<<ReturnStmt(V("a"))>>), Body(<<Show(V("i"))>>))) }

\* The type checker refuses to leave a loop behind an inner one, and to
\* declare a variable twice.
Pairs ==
    (Straight \X (Straight \cup Looping \cup Leaving))
    \cup (Looping \X (Straight \cup Looping))
    \cup ((Leaving \cup Hiding) \X (Straight \cup Looping))

-----------------------------------------------------------------------------
(* Contexts                                                                *)

Main(ss) == Program(ss)

Loops(s, t) == {
    <<For("i", 2, <<s, t>>)>>,
    <<Mut("i", I(-1)), ForStmt(None, Infix("<", V("i"), I(1)), None, Body(<<Incr("i"), s, t>>))>>,
    <<ForInStmt("", "i", ArrayLiteral(<<I(0), I(1)>>), Body(<<s, t>>))>> }

AtTop(s, t) == {Main(<<Mut("a", I(1))>> \o loop \o <<Show(V("a"))>>) : loop \in Loops(s, t)}

InFunction(s, t) ==
    {Main(<<Let("z", I(4)),
            Func("f", "a", loop \o <<Mut("y", V("z")), ReturnStmt(Infix("+", V("a"), V("y")))>>),
            Show(Call1("f", I(1)))>>) : loop \in Loops(s, t)}

InClosure(s, t) ==
    {Main(<<Func("f", "p", <<Mut("q", I(2)),
                Let("h", Lambda("h", "x", <<Mut("a", Infix("+", V("p"), V("q")))>> \o loop
                                              \o <<Do(Infix("+", V("a"), V("x")))>>)),
                Do(Call1("h", V("q")))>>),
            Show(Call1("f", I(1)))>>) : loop \in Loops(s, t)}

Composed ==
    (UNION {AtTop(p[1], p[2]) \cup InFunction(p[1], p[2]) : p \in Pairs})
    \cup (UNION {InFunction(s, t) \cup InClosure(t, s) : s \in Returning, t \in Straight \cup Looping})

-----------------------------------------------------------------------------
(* Programs for one feature each                                           *)

Arr(x)        == ArrayLiteral(x)
At(x, i)      == IndexExpr(V(x), i)
PutAt(x, i, e)  == IndexAssignmentStmt(V(x), i, e)
Three         == Let("s", Arr(<<I(1), I(2), I(3)>>))

\* Slices share their elements, append copies; reads and writes at the bounds.
Arrays ==
    {Main(<<Three, Let("t", SliceExpr(V("s"), I(1), e)), PutAt("t", I(0), I(9)), Show(At("s", I(1))),
            Let("u", CallOn("append", <<V("t"), I(7)>>)), PutAt("u", I(0), I(5)),
            Show(At("t", I(0))), Show(Call1("len", V("u"))), Show(Call1("len", V("t")))>>) : e \in {None, I(2)}}
    \cup {Main(<<Three, Show(At("s", I(i))), PutAt("s", I(i), I(0)), Show(At("s", I(0)))>>) : i \in {-1, 0, 2, 3}}
    \cup {Main(<<Three, Show(I(1)), PutAt("s", I(i), I(0)), Show(I(2))>>) : i \in {-1, 2, 3, 4}}
    \cup {Main(<<Three, Show(Call1("len", SliceExpr(V("s"), None, I(e))))>>) : e \in {-2, 0, 3, 4}}
    \cup {Main(<<Three, Show(Infix("==", V("s"), V("s")))>>)}

\* The order of the keys is that of a Go map: the sum does not depend on it.
Hashes == {
    Main(<<Let("m", HashLiteral(<<<<I(1), I(4)>>, <<I(2), I(5)>>>>)), PutAt("m", I(3), I(6)), PutAt("m", I(1), I(8)),
           Mut("a", I(0)),
           ForInStmt("k", "v", V("m"), Body(<<If(Is("k", 2), <<ContinueStmt>>),
                     Set("a", Infix("+", V("a"), Infix("*", V("k"), V("v"))))>>)),
           Let("vs", Call1("values", V("m"))),
           ForInStmt("", "v", V("vs"), Body(<<Set("a", Infix("+", V("a"), V("v")))>>)),
           Show(V("a")), Show(Call1("len", V("m")))>>) }

\* A result and an option, with their arms; a panic ends the program.
Results ==
    {Main(<<VarDeclarationStmt(TRUE, "r", e, ResultType(IntT)),
            Show(MatchExpr("result", V("r"), Arm("v", Body(<<Do(V("v"))>>)), Arm("w", Body(<<Show(V("w")), Do(I(0))>>))))>>)
        : e \in {Call1("ok", I(1)), Call1("err", StringLiteral("no"))}}
    \cup {Main(<<VarDeclarationStmt(TRUE, "r", e, OptionType(IntT)),
            Show(MatchExpr("option", V("r"), Arm("v", Body(<<Do(V("v"))>>)),
                           Arm("", Body(<<Do(Call1("panic", StringLiteral("no")))>>))))>>)
        : e \in {Call1("some", I(1)), CallOn("none", <<>>)}}

Dot(e, f)       == SelectorExpr(e, f)
Invoke(e, m, as) == CallExpr(SelectorExpr(e, m), <<>>, as)
BoxOf(x, y)     == StructLiteral("Box", <<>>, <<"h", "w">>, <<y, x>>)
LineOf(x)       == StructLiteral("Line", <<>>, <<"w">>, <<x>>)
Method(t, m, ps, ts, r, s) ==
    FunctionDeclarationStmt(m, <<>>, ps, FunctionType(<<StructType(t)>> \o ts, r), Body(<<s>>))

Shapes == <<
    InterfaceDefinitionStmt("Shape", <<"area", "grow">>, <<FunctionType(<<>>, IntT), FunctionType(<<IntT>>, UnitT)>>),
    StructDefinitionStmt("Box", <<>>, <<"w", "h">>, <<IntT, IntT>>),
    StructDefinitionStmt("Line", <<>>, <<"w">>, <<IntT>>) >>
Methods == <<
    Method("Box", "area", <<"b">>, <<>>, IntT, Do(Infix("*", Dot(V("b"), "w"), Dot(V("b"), "h")))),
    Method("Box", "grow", <<"b", "n">>, <<IntT>>, UnitT,
           SelectorAssignmentStmt(V("b"), "w", Infix("+", Dot(V("b"), "w"), V("n")))),
    Method("Line", "area", <<"l">>, <<>>, IntT, Do(I(0))),
    Method("Line", "grow", <<"l", "n">>, <<IntT>>, UnitT, SelectorAssignmentStmt(V("l"), "w", V("n"))) >>
AShape(x, e) == VarDeclarationStmt(TRUE, x, e, InterfaceType("Shape"))

\* Methods through an interface and without one, and a match on the type
\* behind an interface or an any.
Interfaces ==
    {Main(Shapes \o Methods \o
        <<AShape("s", e), Let("c", BoxOf(I(5), I(2))),
          Do(Invoke(V("s"), "grow", <<I(3)>>)), Show(Invoke(V("s"), "area", <<>>)), Show(Invoke(V("c"), "area", <<>>)),
          Show(MatchTypeExpr(V("s"), <<TypeMatchArm(StructType("Line"), "l", Body(<<Do(Dot(V("l"), "w"))>>)),
                                       TypeMatchArm(StructType("Box"), "b", Body(<<Do(Dot(V("b"), "h"))>>))>>,
                             Body(<<Do(I(-1))>>)))>>) : e \in {BoxOf(I(1), I(2)), LineOf(I(1))}}
    \cup {Main(<<VarDeclarationStmt(TRUE, "s", e, AnyT),
                 Show(MatchTypeExpr(V("s"), <<TypeMatchArm(IntT, "n", Body(<<Do(V("n"))>>))>>, Body(<<Do(I(-1))>>)))>>)
             : e \in {I(4), BooleanLiteral(TRUE)}}

\* Operators, zero values and their faults.
Operators ==
    {Main(<<Show(Infix(op, I(a), I(b)))>>) : op \in {"/", "%"}, a \in {-7, 7}, b \in {-2, 0, 2}}
    \cup {Main(<<VarDeclarationStmt(FALSE, "v", None, t), Show(V("v"))>>)
             : t \in {IntT, BoolT, StringT, OptionType(IntT)}}
    \cup {Main(<<Let("v", Infix("+", StringLiteral("x"), StringLiteral("y"))),
                 Show(Infix("!=", V("v"), StringLiteral("xy"))), Show(Call1("len", V("v"))),
                 Show(Infix("||", BooleanLiteral(FALSE), PrefixExpr("!", BooleanLiteral(FALSE)))),
                 Show(PrefixExpr("-", I(3))), Show(Infix(">", I(2), I(2))), Show(NullLiteral)>>)}

\* Functions: mutual recursion, nested declarations, recursion without end.
FunctionPrograms ==
    {Main(<<Func("f", "n", <<Show(V("n")), Do(Cond(Is("n", 0), I(0), Call1("g", Infix("-", V("n"), I(1)))))>>),
            Func("g", "n", <<ReturnStmt(Call1("f", V("n")))>>), Show(Call1("f", I(k)))>>) : k \in {2, 3, 4}}
    \cup {Main(<<Func("f", "n", <<Func("h", "x", <<ReturnStmt(Infix("*", V("x"), V("n")))>>),
                                 Func("k", "x", <<ReturnStmt(Infix("+", Call1("h", V("x")), V("n")))>>),
                                 ReturnStmt(Call1("k", I(3)))>>), Show(Call1("f", I(2)))>>)}
    \cup {Main(<<Func("f", "n", ss \o <<ReturnStmt(Infix("+", I(1), Call1("f", V("n"))))>>), Show(Call1("f", I(0)))>>)
             : ss \in {<<>>, [k \in 1 .. 7 |-> Let("v" \o ToString(k), I(k))]}}
    \cup {Main(Shapes \o <<AShape("s", LineOf(I(1))), Methods[1], Methods[2], Methods[3],
                 Method("Line", "grow", <<"l", "n">>, <<IntT>>, UnitT, Do(Invoke(V("s"), "grow", <<V("n")>>))),
                 Do(Invoke(V("s"), "grow", <<I(1)>>))>>)}

\* Generic functions and a generic struct with a method, at two types each.
T         == TypeParamRef("T")
PairT     == GenericStruct("Pair", <<T>>)
PairOf(t, x, y) == StructLiteral("Pair", <<t>>, <<"l", "r">>, <<x, y>>)
Templates == <<
    StructDefinitionStmt("Pair", <<"T">>, <<"l", "r">>, <<T, T>>),
    FunctionDeclarationStmt("swap", <<"T">>, <<"p">>, FunctionType(<<PairT>>, PairT),
        Body(<<ReturnStmt(PairOf(T, Dot(V("p"), "r"), Dot(V("p"), "l")))>>)),
    FunctionDeclarationStmt("id", <<"T">>, <<"x">>, FunctionType(<<T>>, T), Body(<<ReturnStmt(V("x"))>>)),
    FunctionDeclarationStmt("pick", <<"T">>, <<"xs">>, FunctionType(<<ArrayType(T)>>, T),
        Body(<<Mut("best", IndexExpr(V("xs"), I(0))), ReturnStmt(Call1("id", V("best")))>>)) >>
Generics ==
    {Main(Templates \o
        <<Show(Call1("id", I(1))), Show(Call1("id", StringLiteral("x"))), Show(Call1("id", I(2))),
          Show(Call1("pick", Arr(<<I(3), I(4)>>))), Show(CallExpr(V("id"), <<BoolT>>, <<BooleanLiteral(TRUE)>>)),
          Let("p", PairOf(IntT, I(1), I(2))), Show(Dot(Invoke(V("p"), "swap", <<>>), "l")),
          Let("q", PairOf(StringT, StringLiteral("a"), StringLiteral("b"))), Show(Dot(V("q"), "r"))>>)}

-----------------------------------------------------------------------------
(* Places for an expression, and expressions of every type.                *)

Around == Shapes \o Methods \o <<
    Func("inc", "n", <<ReturnStmt(Infix("+", V("n"), I(1)))>>),
    FunctionDeclarationStmt("id", <<"T">>, <<"x">>, FunctionType(<<T>>, T), Body(<<ReturnStmt(V("x"))>>)),
    FunctionDeclarationStmt("size", <<>>, <<"s">>, FunctionType(<<InterfaceType("Shape")>>, IntT),
                            Body(<<ReturnStmt(Invoke(V("s"), "area", <<>>))>>)),
    FunctionDeclarationStmt("head", <<>>, <<"xs">>, FunctionType(<<ArrayType(IntT)>>, IntT),
                            Body(<<ReturnStmt(IndexExpr(V("xs"), I(0)))>>)),
    Let("s", Arr(<<I(1), I(2)>>)), Let("m", HashLiteral(<<<<I(1), I(4)>>>>)),
    Let("b", BoxOf(I(1), I(2))), Mut("a", I(0)), Let("t", StringLiteral("x")),
    Let("ts", Arr(<<V("t")>>)) >>

Filler(t, e) == [type |-> t, expr |-> e]
Fillers == {
    Filler(IntT, I(1)), Filler(IntT, At("s", I(0))), Filler(IntT, Dot(V("b"), "w")),
    Filler(IntT, Invoke(V("b"), "area", <<>>)), Filler(IntT, Call1("id", I(1))), Filler(IntT, Call1("inc", I(0))),
    Filler(IntT, Call1("len", V("s"))),
    Filler(BoolT, Infix("<", I(1), I(2))), Filler(BoolT, Call1("id", BooleanLiteral(FALSE))),
    Filler(StringT, Infix("+", V("t"), V("t"))), Filler(StringT, Call1("id", V("t"))),
    Filler(ArrayType(IntT), V("s")), Filler(ArrayType(StringT), V("ts")),
    Filler(MapType(IntT, IntT), V("m")),
    Filler(OptionType(IntT), At("m", I(1))), Filler(ResultType(IntT), Call1("ok", I(1))),
    Filler(StructType("Box"), V("b")), Filler(StructType("Line"), LineOf(I(1))),
    Filler(IntToInt, V("inc")), Filler(UnitT, Invoke(V("b"), "grow", <<I(1)>>)) }

Ints == {IntT}
Hole(wants, s) == [wants |-> wants, stmt |-> s]
Holes(e) == {
    Hole(Ints, Show(Infix("+", I(1), e))),
    Hole(Ints, Show(Infix("*", e, e))),
    Hole(Ints, Show(PrefixExpr("-", e))),
    Hole(Ints, Show(At("s", e))),
    Hole(Ints, PutAt("s", I(0), e)),
    Hole(Ints, PutAt("m", I(2), e)),
    Hole(Ints, Set("a", e)),
    Hole(Ints, Show(Call1("inc", e))),
    Hole(Ints, Show(CallOn("append", <<V("s"), e>>))),
    Hole(Ints, Show(Dot(BoxOf(e, I(1)), "w"))),
    Hole(Ints, SelectorAssignmentStmt(V("b"), "w", e)),
    Hole(Ints, Do(Invoke(V("b"), "grow", <<e>>))),
    Hole(Ints, Let("y", SliceExpr(V("s"), None, e))),
    Hole({BoolT}, Show(PrefixExpr("!", e))),
    Hole({BoolT}, If(e, <<Show(I(1))>>)),
    Hole({BoolT}, Show(Infix("&&", e, BooleanLiteral(TRUE)))),
    Hole({BoolT}, ForStmt(None, Infix("&&", BooleanLiteral(FALSE), e), None, Body(<<>>))),
    Hole({StringT}, Show(Infix("+", V("t"), e))),
    Hole({IntT, StringT}, Show(Infix("+", e, e))),
    Hole({ArrayType(IntT)}, Show(Call1("head", e))),
    Hole({ArrayType(IntT), ArrayType(StringT), MapType(IntT, IntT)}, Show(IndexExpr(e, I(0)))),
    Hole({MapType(IntT, IntT)}, Show(Call1("len", Call1("keys", e)))),
    Hole({OptionType(IntT)}, Show(MatchExpr("option", e, Arm("w", Body(<<Do(V("w"))>>)), Arm("", Body(<<Do(I(0))>>))))),
    Hole({StructType("Box"), StructType("Line")}, Show(Dot(e, "w"))),
    Hole({StructType("Box"), StructType("Line")}, Show(Call1("size", e))),
    Hole({IntToInt}, Show(CallExpr(e, <<>>, <<I(1)>>))) }

\* In a function that is called.
InPlace(f, h) ==
    [source |-> Main(Around \o <<Func("f", "x", <<h.stmt, ReturnStmt(V("x"))>>), Show(Call1("f", I(7)))>>),
     typed  |-> f.type \in h.wants]

Filled == UNION {{InPlace(f, h) : h \in Holes(f.expr)} : f \in Fillers}

-----------------------------------------------------------------------------

\* All of them, checked and compiled before the first state.
CheckedPrograms ==
    LET written == Composed \cup Arrays \cup Hashes \cup Results \cup Interfaces \cup Operators
                   \cup FunctionPrograms \cup Generics
    IN {Compiled(p, TRUE) : p \in written} \cup {Compiled(p.source, p.typed) : p \in Filled}

-----------------------------------------------------------------------------
(* An if statement with one branch that returns and one that assigns.      *)

EarlyReturn ==
    LET source ==
          Main(<<Func("f", "a", <<For("i", 3, <<Do(IfExpr(Is("i", 2), Body(<<ReturnStmt(V("a"))>>),
                                                              Body(<<Incr("a")>>)))>>),
                                      ReturnStmt(V("a"))>>),
                 Show(Call1("f", I(1)))>>)
    IN {Compiled(source, TRUE)}

=============================================================================
