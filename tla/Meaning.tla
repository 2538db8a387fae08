------------------------------ MODULE Meaning ------------------------------
(***************************************************************************)
(* What a program means, read off the tree that the parser built: a        *)
(* reference for checker, compiler and virtual machine that knows neither  *)
(* types, instances of generic code, interface tables, instructions,       *)
(* slots, jumps nor a stack.  Evaluating a node in a state st gives        *)
(* [st, v, sig]:                                                           *)
(*   st.env     scopes from the global one (first) to the innermost one    *)
(*   st.cells, st.hashes   memory that values share, as in module VM       *)
(*   st.out     what was printed                                           *)
(*   st.calls   depth of calls                                             *)
(*   v          the value                                                  *)
(*   sig        "next", "break", "continue", "return", or the fault that   *)
(*              ended the program                                          *)
(* A function keeps the values that the variables of its enclosing         *)
(* functions have when it is created; global variables are shared.  A      *)
(* block without an explicit return has the value of its last expression.  *)
(* Both operands of && and || are evaluated.  A function whose first       *)
(* parameter is a struct is a method of that struct: x.m(y) and m(x, y)    *)
(* call the m of the struct that x is.                                     *)
(***************************************************************************)
EXTENDS Syntax, TLC

LOCAL INSTANCE FiniteSetsExt
LOCAL INSTANCE SequencesExt

CONSTANT MaxCalls  \* deeper calls end the program

Null == <<"null">>

Ok(st, v)  == [st |-> st, v |-> v, sig |-> "next"]
Sig(r, s)  == [r EXCEPT !.sig = s]

\* Continue with k unless r already left the ordinary flow.
Then(r, k(_)) == IF r.sig = "next" THEN k(r) ELSE r

Start == [env |-> <<<<>>>>, cells |-> <<>>, hashes |-> <<>>, out |-> <<>>, calls |-> 0]

PushScope(st, scope) == [st EXCEPT !.env = Append(@, scope)]
PopScope(r)          == [r EXCEPT !.st.env = SubSeq(@, 1, Len(@) - 1)]

Holder(env, x)    == Max({i \in DOMAIN env : x \in DOMAIN env[i]})
Lookup(st, x)     == st.env[Holder(st.env, x)][x]
Bind(st, x, v)    == [st EXCEPT !.env[Len(st.env)] = (x :> v) @@ @]
Assign(st, x, v)  == [st EXCEPT !.env[Holder(st.env, x)][x] = v]

\* The variables in scope that are not global, inner ones first.
Captured(env) == FoldLeft(LAMBDA inner, scope : scope @@ inner, <<>>, Tail(env))

Function(st, n) == <<"function", n.name, n.params, n.body, Captured(st.env)>>

ArrayOf(st, vs) ==
    Ok([st EXCEPT !.cells = @ \o vs], <<"array", [i \in DOMAIN vs |-> Len(st.cells) + i], Len(vs)>>)

FieldCell(s, f) == s[3][CHOOSE i \in DOMAIN s[4] : s[4][i] = f]

\* The quotient towards zero and its remainder, by their defining equation.
Division(a, b) ==
    LET abs(n) == IF n < 0 THEN -n ELSE n
    IN CHOOSE qr \in (-abs(a) .. abs(a)) \X (-abs(b) .. abs(b)) :
          /\ a = b * qr[1] + qr[2]
          /\ abs(qr[2]) < abs(b)
          /\ qr[2] # 0 => (qr[2] < 0) = (a < 0)

\* Equality is only defined on values without parts.
Operator(op, l, r) ==
    CASE op = "+" /\ l[1] = "string" -> <<"string", l[2] \o r[2]>>
      [] op = "+" /\ l[1] = "int"    -> <<"int", l[2] + r[2]>>
      [] op = "-"  -> <<"int", l[2] - r[2]>>
      [] op = "*"  -> <<"int", l[2] * r[2]>>
      [] op = "/"  -> <<"int", Division(l[2], r[2])[1]>>
      [] op = "%"  -> <<"int", Division(l[2], r[2])[2]>>
      [] op = "<"  -> <<"bool", l[2] < r[2]>>
      [] op = "<=" -> <<"bool", l[2] <= r[2]>>
      [] op = ">"  -> <<"bool", l[2] > r[2]>>
      [] op = ">=" -> <<"bool", l[2] >= r[2]>>
      [] op = "==" -> <<"bool", l = r>>
      [] op = "!=" -> <<"bool", l # r>>
      [] op = "&&" -> <<"bool", l[2] /\ r[2]>>
      [] op = "||" -> <<"bool", l[2] \/ r[2]>>

OperatorFault(op, l, r) ==
    CASE op = "/" /\ r[2] = 0 -> "division by zero"
      [] op = "%" /\ r[2] = 0 -> "panic"
      [] op \in {"==", "!="} /\ l[1] \notin {"int", "bool", "string"} -> "unknown operator"
      [] OTHER -> ""

RECURSIVE Eval(_, _)
RECURSIVE EvalAll(_, _)
RECURSIVE Exec(_, _)
RECURSIVE Block(_, _)
RECURSIVE Iterate(_, _)
RECURSIVE IterateOver(_, _, _)

\* The values of the nodes, from left to right.
EvalAll(st, es) ==
    IF es = <<>> THEN Ok(st, <<>>)
    ELSE LET first == Eval(st, Head(es))
             rest  == EvalAll(first.st, Tail(es))
         IN IF first.sig # "next" THEN first
            ELSE [rest EXCEPT !.v = IF rest.sig = "next" THEN <<first.v>> \o @ ELSE @]

\* Statements one after the other.
Block(st, ss) ==
    IF ss = <<>> THEN Ok(st, Null)
    ELSE LET first == Exec(st, Head(ss))
         IN IF first.sig # "next" \/ Len(ss) = 1 THEN first ELSE Block(first.st, Tail(ss))

InScope(st, scope, b) == PopScope(Block(PushScope(st, scope), b.stmts))

\* A call: the callee sees the global scope, what it captured, itself and
\* its arguments; the caller's other scopes are as before afterwards.
Apply(st, f, args) ==
    LET self  == IF f[2] = "" THEN <<>> ELSE (f[2] :> f)
        given == [x \in {f[3][i] : i \in DOMAIN args} |-> args[CHOOSE i \in DOMAIN args : f[3][i] = x]]
        r     == InScope([st EXCEPT !.env = <<st.env[1], f[5], self @@ given>>, !.calls = @ + 1], <<>>, f[4])
        back  == [r EXCEPT !.st.env = <<r.st.env[1]>> \o Tail(st.env), !.st.calls = st.calls]
    IN IF st.calls >= MaxCalls THEN Sig(Ok(st, Null), "too deep")
       ELSE IF r.sig = "return" THEN Sig(back, "next") ELSE back

CallBuiltin(st, f, args) ==
    LET a == args[1] IN
    CASE f = "print"  -> Ok([st EXCEPT !.out = Append(@, args)], Null)
      [] f = "len"    -> Ok(st, <<"int", CASE a[1] = "hash"   -> Cardinality(DOMAIN st.hashes[a[2]])
                                           [] a[1] = "string" -> Len(a[2])
                                           [] a[1] = "array"  -> a[3]>>)
      [] f = "append" -> ArrayOf(st, Append([i \in 1 .. a[3] |-> st.cells[a[2][i]]], args[2]))
      [] f = "keys"   -> ArrayOf(st, SetToSeq(DOMAIN st.hashes[a[2]]))
      [] f = "values" -> LET h == st.hashes[a[2]]
                             ks == SetToSeq(DOMAIN h)
                         IN ArrayOf(st, [i \in DOMAIN ks |-> h[ks[i]]])
      [] f = "panic"  -> Sig(Ok(st, Null), "error")
      [] f = "ok"     -> Ok(st, <<"result", TRUE, a>>)
      [] f = "err"    -> Ok(st, <<"result", FALSE, a>>)
      [] f = "some"   -> Ok(st, <<"option", TRUE, a>>)
      [] f = "none"   -> Ok(st, <<"option", FALSE, <<"nil">>>>)

MethodName(type, name) == IF type[2] # <<>> /\ type[2][1][1] = "struct" THEN type[2][1][2] \o "." \o name ELSE name

HasMethod(st, v, name) == v[1] = "struct" /\ v[2] \o "." \o name \in DOMAIN st.env[1]

\* A call by name: a method of the first argument, a builtin, a variable.
CallNamed(st, f, args) ==
    IF args # <<>> /\ HasMethod(st, args[1], f) THEN Apply(st, st.env[1][args[1][2] \o "." \o f], args)
    ELSE IF f \in Builtins THEN CallBuiltin(st, f, args)
    ELSE Apply(st, Lookup(st, f), args)

Index(st, l, i) ==
    CASE l[1] = "hash" -> LET h == st.hashes[l[2]]
                          IN Ok(st, IF i \in DOMAIN h THEN <<"option", TRUE, h[i]>> ELSE <<"option", FALSE, <<"nil">>>>)
      [] l[1] = "array" /\ i[2] \in 0 .. l[3] - 1 -> Ok(st, st.cells[l[2][i[2] + 1]])
      [] OTHER -> Sig(Ok(st, Null), "index out of bounds")

Slice(st, a, s, e) ==
    LET to == IF e = -1 THEN a[3] ELSE e
    IN IF 0 <= s /\ s <= to /\ to <= Len(a[2])
       THEN Ok(st, <<"array", SubSeq(a[2], s + 1, Len(a[2])), to - s>>)
       ELSE Sig(Ok(st, Null), "panic")

EvalMatch(st, n) ==
    Then(Eval(st, n.subject), LAMBDA s :
        LET arm == IF s.v[2] THEN n.yes ELSE n.no
        IN InScope(s.st, IF arm.binding = "" THEN <<>> ELSE (arm.binding :> s.v[3]), arm.body))

\* The first arm for the dynamic type of the subject.
EvalMatchType(st, n) ==
    Then(Eval(st, n.subject), LAMBDA s :
        LET type == IF s.v[1] = "struct" THEN s.v[2] ELSE s.v[1]
            hits == {i \in DOMAIN n.arms : Signature(n.arms[i].type) = type}
        IN IF hits = {} THEN InScope(s.st, <<>>, n.default)
           ELSE LET arm == n.arms[Min(hits)] IN InScope(s.st, (arm.binding :> s.v), arm.body))

Eval(st, n) ==
    CASE n.kind = "None"            -> Ok(st, <<"int", -1>>)
      [] n.kind = "IntegerLiteral"  -> Ok(st, <<"int", n.literal>>)
      [] n.kind = "BooleanLiteral"  -> Ok(st, <<"bool", n.literal>>)
      [] n.kind = "StringLiteral"   -> Ok(st, <<"string", n.literal>>)
      [] n.kind = "NullLiteral"     -> Ok(st, Null)
      [] n.kind = "Identifier"      -> Ok(st, Lookup(st, n.name))
      [] n.kind = "FunctionLiteral" -> Ok(st, Function(st, n))
      [] n.kind = "ArrayLiteral"    -> Then(EvalAll(st, n.elements), LAMBDA r : ArrayOf(r.st, r.v))
      [] n.kind = "HashLiteral"     ->
           Then(EvalAll(st, FlattenSeq(n.pairs)), LAMBDA r :
               LET put(h, i) == (r.v[2 * i - 1] :> r.v[2 * i]) @@ h
               IN Ok([r.st EXCEPT !.hashes = Append(@, FoldLeft(put, <<>>, [i \in 1 .. Len(n.pairs) |-> i]))],
                     <<"hash", Len(r.st.hashes) + 1>>))
      [] n.kind = "StructLiteral"   ->
           Then(EvalAll(st, n.values), LAMBDA r :
               LET a == ArrayOf(r.st, r.v) IN Ok(a.st, <<"struct", n.name, a.v[2], n.fields>>))
      [] n.kind = "PrefixExpr"      ->
           Then(Eval(st, n.right), LAMBDA r :
               Ok(r.st, IF n.op = "-" THEN <<"int", -r.v[2]>> ELSE <<"bool", r.v \in {<<"bool", FALSE>>, <<"int", 0>>}>>))
      [] n.kind = "InfixExpr"       ->
           Then(EvalAll(st, <<n.left, n.right>>), LAMBDA r :
               LET fault == OperatorFault(n.op, r.v[1], r.v[2])
               IN IF fault # "" THEN Sig(r, fault) ELSE Ok(r.st, Operator(n.op, r.v[1], r.v[2])))
      [] n.kind = "IndexExpr"       -> Then(EvalAll(st, <<n.left, n.index>>), LAMBDA r : Index(r.st, r.v[1], r.v[2]))
      [] n.kind = "SliceExpr"       ->
           Then(EvalAll(st, <<n.left, IF n.start = None THEN IntegerLiteral(0) ELSE n.start, n.end>>), LAMBDA r :
               Slice(r.st, r.v[1], r.v[2][2], r.v[3][2]))
      [] n.kind = "SelectorExpr"    -> Then(Eval(st, n.left), LAMBDA r : Ok(r.st, r.st.cells[FieldCell(r.v, n.field)]))
      [] n.kind = "CallExpr" /\ n.function.kind = "Identifier" ->
           Then(EvalAll(st, n.args), LAMBDA r : CallNamed(r.st, n.function.name, r.v))
      [] n.kind = "CallExpr" /\ n.function.kind = "SelectorExpr" ->
           Then(EvalAll(st, <<n.function.left>> \o n.args), LAMBDA r :
               IF HasMethod(r.st, r.v[1], n.function.field) THEN CallNamed(r.st, n.function.field, r.v)
               ELSE Apply(r.st, r.st.cells[FieldCell(r.v[1], n.function.field)], Tail(r.v)))
      [] n.kind = "CallExpr" /\ n.function.kind \notin {"Identifier", "SelectorExpr"} ->
           Then(EvalAll(st, <<n.function>> \o n.args), LAMBDA r : Apply(r.st, Head(r.v), Tail(r.v)))
      [] n.kind = "IfExpr"          ->
           Then(Eval(st, n.condition), LAMBDA r :
               IF r.v # <<"bool", FALSE>> THEN InScope(r.st, <<>>, n.consequence)
               ELSE IF n.alternative = None THEN Ok(r.st, Null)
               ELSE InScope(r.st, <<>>, n.alternative))
      [] n.kind = "MatchExpr"       -> EvalMatch(st, n)
      [] n.kind = "MatchTypeExpr"   -> EvalMatchType(st, n)

Zero(t) == CASE t = BoolT -> <<"bool", FALSE>> [] t = IntT -> <<"int", 0>>
             [] t = StringT -> <<"string", "">> [] OTHER -> Null

\* The body of a loop was run: go on with k, leave the loop, or leave more.
AfterBody(r, k(_)) ==
    CASE r.sig \in {"next", "continue"} -> k(Ok(r.st, Null))
      [] r.sig = "break"                -> Ok(r.st, Null)
      [] OTHER                          -> r

Iterate(st, n) ==
    Then(Eval(st, n.condition), LAMBDA c :
        IF c.v = <<"bool", FALSE>> THEN Ok(c.st, Null)
        ELSE AfterBody(InScope(c.st, <<>>, n.body), LAMBDA r :
                 IF n.post = None THEN Iterate(r.st, n)
                 ELSE Then(Exec(r.st, n.post), LAMBDA p : Iterate(p.st, n))))

\* items: the remaining pairs of loop variables.
IterateOver(st, n, items) ==
    IF items = <<>> THEN Ok(st, Null)
    ELSE LET scope == (n.val :> Head(items)[2]) @@ (IF n.key = "" THEN <<>> ELSE (n.key :> Head(items)[1]))
         IN AfterBody(PopScope(InScope(PushScope(st, scope), <<>>, n.body)),
                      LAMBDA r : IterateOver(r.st, n, Tail(items)))

Items(st, c) ==
    IF c[1] = "hash" THEN LET h == st.hashes[c[2]]
                              ks == SetToSeq(DOMAIN h)
                          IN [i \in DOMAIN ks |-> <<ks[i], h[ks[i]]>>]
    ELSE [i \in 1 .. c[3] |-> <<<<"int", i - 1>>, st.cells[c[2][i]]>>]

Exec(st, n) ==
    CASE n.kind = "None"                -> Ok(st, Null)
      [] n.kind = "ExpressionStmt"      -> Eval(st, n.expr)
      [] n.kind = "VarDeclarationStmt"  ->
           Then(IF n.value = None THEN Ok(st, Zero(n.type)) ELSE Eval(st, n.value), LAMBDA r :
               Ok(Bind(r.st, n.name, r.v), Null))
      [] n.kind = "VarAssignmentStmt"   ->
           Then(Eval(st, n.value), LAMBDA r : Ok(Assign(r.st, n.name, r.v), Null))
      [] n.kind = "IndexAssignmentStmt" ->
           Then(EvalAll(st, <<n.left, n.index, n.value>>), LAMBDA r :
               LET l == r.v[1]
                   i == r.v[2]
               IN CASE l[1] = "hash" -> Ok([r.st EXCEPT !.hashes[l[2]] = (i :> r.v[3]) @@ @], Null)
                    [] l[1] = "array" /\ i[2] \in 0 .. l[3] - 1 ->
                         Ok([r.st EXCEPT !.cells[l[2][i[2] + 1]] = r.v[3]], Null)
                    [] OTHER -> Sig(r, "index out of bounds"))
      [] n.kind = "SelectorAssignmentStmt" ->
           Then(EvalAll(st, <<n.left, n.value>>), LAMBDA r :
               Ok([r.st EXCEPT !.cells[FieldCell(r.v[1], n.field)] = r.v[2]], Null))
      [] n.kind = "ReturnStmt"          -> Then(Eval(st, n.value), LAMBDA r : Sig(r, "return"))
      [] n.kind = "BreakStmt"           -> Sig(Ok(st, Null), "break")
      [] n.kind = "ContinueStmt"        -> Sig(Ok(st, Null), "continue")
      [] n.kind = "FunctionDeclarationStmt" ->
           Ok(Bind(st, MethodName(n.type, n.name), Function(st, n)), Null)
      [] n.kind = "ForStmt"             ->
           LET init == Exec(PushScope(st, <<>>), n.init)
           IN IF init.sig = "next" THEN PopScope(Iterate(init.st, n)) ELSE PopScope(init)
      [] n.kind \in {"StructDefinitionStmt", "InterfaceDefinitionStmt"} -> Ok(st, Null)
      [] n.kind = "ForInStmt"           ->
           Then(Eval(st, n.iterable), LAMBDA r : IterateOver(r.st, n, Items(r.st, r.v)))

\* What the program prints, and "done" or the fault that ends it.
Meaning(program) ==
    LET r == Block(Start, program.stmts)
    IN [out |-> r.st.out, status |-> IF r.sig = "next" THEN "done" ELSE r.sig]

=============================================================================
