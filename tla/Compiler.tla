------------------------------ MODULE Compiler ------------------------------
(***************************************************************************)
(* compiler/compiler.go: from a checked program to instructions.  The      *)
(* state of the compiler is a record c:                                    *)
(*   scopes     one per function being compiled, innermost last: its       *)
(*              instructions and the last two that were emitted            *)
(*   tables     the chain of symbol tables (SymbolTable)                   *)
(*   constants  the constant pool                                          *)
(*   itabs      (struct, interface) to the place of its method table       *)
(*   interfaces names of interfaces to their methods                       *)
(*   loops      the enclosing loops, innermost last                        *)
(*   err        the first error, "" if none                                *)
(* An instruction is a tuple <<opcode, operands>> and positions count      *)
(* instructions from 0 (bytes in the code).  Names of modules, debug       *)
(* symbols and source maps are left out, and so are the nodes for fibers   *)
(* and channels (module Scheduler).                                        *)
(***************************************************************************)
EXTENDS Syntax, SymbolTable, TLC

LOCAL INSTANCE FiniteSetsExt
LOCAL INSTANCE SequencesExt

\* Values of the language, and the other constants: tagged tuples.
IntVal(i)  == <<"int", i>>
BoolVal(b) == <<"bool", b>>
StrVal(s)  == <<"string", s>>
NullVal    == <<"null">>

NewScope == [ins |-> <<>>, last |-> [op |-> "OpConstant", pos |-> 0],
             prev |-> [op |-> "OpConstant", pos |-> 0]]

New == [scopes |-> <<NewScope>>,
        tables |-> DefineBuiltins(Builtins),
        constants |-> <<>>, itabs |-> <<>>, interfaces |-> <<>>, loops |-> <<>>, err |-> ""]

-----------------------------------------------------------------------------
(* Emitting instructions                                                   *)

CurrentScope(c)        == c.scopes[Len(c.scopes)]
CurrentInstructions(c) == CurrentScope(c).ins
Here(c)                == Len(CurrentInstructions(c))

Emit(c, i) ==
    [c EXCEPT !.scopes[Len(c.scopes)] =
        [ins |-> Append(@.ins, i), prev |-> @.last, last |-> [op |-> i[1], pos |-> Len(@.ins)]]]

AddConstant(c, v) == [c EXCEPT !.constants = Append(@, v)]

\* The place, from 0, of the constant added last.
LastConstant(c) == Len(c.constants) - 1

EmitConstant(c, v) == LET d == AddConstant(c, v) IN Emit(d, <<"OpConstant", LastConstant(d)>>)

LastInstructionIs(c, op) == Here(c) > 0 /\ CurrentScope(c).last.op = op

RemoveLastPop(c) ==
    [c EXCEPT !.scopes[Len(c.scopes)] =
        [@ EXCEPT !.ins = SubSeq(@, 1, CurrentScope(c).last.pos), !.last = CurrentScope(c).prev]]

ReplaceLastPopWithReturn(c) ==
    [c EXCEPT !.scopes[Len(c.scopes)] =
        [@ EXCEPT !.ins[CurrentScope(c).last.pos + 1] = <<"OpReturnValue">>,
                  !.last.op = "OpReturnValue"]]

\* changeOperand at each of the given positions.
ChangeOperands(c, positions, operand) ==
    [c EXCEPT !.scopes[Len(c.scopes)].ins =
        FoldSet(LAMBDA p, ins : [ins EXCEPT ![p + 1][2] = operand], @, positions)]

LoadSymbol(c, s) ==
    Emit(c, CASE s.scope = "GLOBAL"   -> <<"OpGetGlobal", s.index>>
              [] s.scope = "LOCAL"    -> <<"OpGetLocal", s.index>>
              [] s.scope = "BUILTIN"  -> <<"OpGetBuiltIn", s.index>>
              [] s.scope = "FREE"     -> <<"OpGetFree", s.index>>
              [] s.scope = "FUNCTION" -> <<"OpCurrentClosure">>)

\* Storing into a variable that was just defined.
StoreSymbol(c, s) ==
    Emit(c, CASE s.scope = "GLOBAL" /\ s.constant  -> <<"OpSetImmutableGlobal", s.index>>
              [] s.scope = "GLOBAL" /\ ~s.constant -> <<"OpSetMutableGlobal", s.index>>
              [] s.scope # "GLOBAL" /\ s.constant  -> <<"OpSetImmutableLocal", s.index>>
              [] s.scope # "GLOBAL" /\ ~s.constant -> <<"OpSetMutableLocal", s.index>>)

DefineAndStore(c, name, constant) ==
    LET d == Define(c.tables, name, constant)
    IN StoreSymbol([c EXCEPT !.tables = d.tables], d.sym)

PushBlockScope(c) == [c EXCEPT !.tables = NewBlockScopedSymbolTable(@)]
PopBlockScope(c)  == [c EXCEPT !.tables = Outer(@)]

EnterScope(c) == [c EXCEPT !.scopes = Append(@, NewScope), !.tables = NewEnclosedSymbolTable(@)]
LeaveScope(c) == [c EXCEPT !.scopes = SubSeq(@, 1, Len(@) - 1), !.tables = Outer(@)]

EnterLoop(c, conditionPos, hasPost) ==
    [c EXCEPT !.loops = Append(@, [conditionPos |-> conditionPos, hasPost |-> hasPost,
                                   breaks |-> {}, continues |-> {}])]
LeaveLoop(c) == [c EXCEPT !.loops = SubSeq(@, 1, Len(@) - 1)]
GetLoop(c)   == c.loops[Len(c.loops)]

Fail(c, what) == IF c.err = "" THEN [c EXCEPT !.err = what] ELSE c

-----------------------------------------------------------------------------
(* The rules, one per node.  A sequence of nodes is compiled left to       *)
(* right; Op, Const, Both and Hidden stand for instructions in it.         *)

Op(i)      == [kind |-> "Op", ins |-> i]
Const(v)   == [kind |-> "Const", value |-> v]
Both(m, n) == [kind |-> "Both", nodes |-> <<m, n>>]

\* A variable of the compiler's own: its value, then a new slot.
Hidden(x, n) == [kind |-> "Hidden", name |-> x, value |-> n]

RECURSIVE Compile(_, _)
RECURSIVE CompileAll(_, _)

CompileAll(c, nodes) ==
    IF nodes = <<>> THEN c ELSE CompileAll(Compile(c, Head(nodes)), Tail(nodes))

\* A function's symbol exists from the start of its program or block on.
HoistFunction(ts, s) ==
    LET d == Define(ts, IF s.mangled = "" THEN s.name ELSE s.mangled, TRUE)
    IN IF s.mangled = "" THEN d.tables ELSE Store(d.tables, s.name, d.sym)

Definitions(ss, kind) == SelectSeq(ss, LAMBDA s : s.kind = kind)

HoistFunctions(c, ss) ==
    [c EXCEPT !.tables = FoldLeft(HoistFunction, @, Definitions(ss, "FunctionDeclarationStmt"))]

CompileBlockStmt(c, n) ==
    PopBlockScope(CompileAll(PushBlockScope(HoistFunctions(c, n.stmts)), n.stmts))

ZeroValue(t) ==
    CASE t = BoolT   -> Op(<<"OpFalse">>)
      [] t = IntT    -> Const(IntVal(0))
      [] t = StringT -> Const(StrVal(""))
      [] OTHER       -> Op(<<"OpNull">>)

CompileVarDeclarationStmt(c, n) ==
    LET r  == Resolve(c.tables, n.name)
        c1 == [c EXCEPT !.tables = r.tables]
        c2 == IF r.ok /\ ~r.outer /\ r.sym.scope # "FUNCTION"
              THEN Fail(c1, "variable already declared") ELSE c1
        c3 == Compile(c2, IF n.value = None THEN ZeroValue(n.type) ELSE n.value)
    IN DefineAndStore(c3, n.name, n.constant)

CompileVarAssignmentStmt(c, n) ==
    LET c1 == Compile(c, n.value)
        r  == Resolve(c1.tables, n.name)
        c2 == [c1 EXCEPT !.tables = r.tables]
    IN CASE ~r.ok         -> Fail(c2, "undefined variable")
         [] r.sym.constant -> Fail(c2, "cannot assign to constant")
         [] OTHER          -> Emit(c2, <<IF r.sym.scope = "GLOBAL" THEN "OpSetMutableGlobal"
                                         ELSE "OpSetMutableLocal", r.sym.index>>)

CompileForStmt(c, n) ==
    LET c1   == Compile(PushBlockScope(c), n.init)
        cond == Here(c1)
        c2   == Compile(EnterLoop(c1, cond, n.post # None), n.condition)
        exit == Here(c2)
        c3   == Compile(Emit(c2, <<"OpJumpNotTruthy", 9999>>), n.body)
        c4   == IF n.post = None THEN c3
                ELSE Compile(ChangeOperands(c3, GetLoop(c3).continues, Here(c3)), n.post)
        c5   == Emit(c4, <<"OpJump", cond>>)
        c6   == ChangeOperands(c5, {exit} \cup GetLoop(c5).breaks, Here(c5))
    IN CompileAll(PopBlockScope(LeaveLoop(c6)), <<Op(<<"OpNull">>), Op(<<"OpPop">>)>>)

\* Mutant: the loop does not learn of the break, whose jump stays open.
MutCompileBreakStmt(c) == Emit(c, <<"OpJump", 9999>>)

CompileBreakStmt(c) ==
    Emit([c EXCEPT !.loops[Len(c.loops)].breaks = @ \cup {Here(c)}], <<"OpJump", 9999>>)

\* Mutant: the jump is not left open for the loop but resolved on the spot.
MutCompileContinueStmt(c) == Emit(c, <<"OpJump", Here(c)>>)

CompileContinueStmt(c) ==
    IF GetLoop(c).hasPost
    THEN Emit([c EXCEPT !.loops[Len(c.loops)].continues = @ \cup {Here(c)}], <<"OpJump", 9999>>)
    ELSE Emit(c, <<"OpJump", GetLoop(c).conditionPos>>)

InfixOp(op) ==
    CASE op = "+"  -> "OpAdd"      [] op = "-"          -> "OpSub"
      [] op = "*"  -> "OpMul"      [] op = "/"          -> "OpDiv"
      [] op = "%"  -> "OpModulo"   [] op = "=="         -> "OpEqual"
      [] op = "!=" -> "OpNotEqual" [] op \in {">", "<"} -> "OpGt"
      [] op \in {">=", "<="} -> "OpGte"
      [] op = "&&" -> "OpAnd"      [] op = "||"         -> "OpOr"

\* Mutant: the operands of a mirrored comparison are not exchanged.
MutCompileInfixExpr(c, n) == CompileAll(c, <<n.left, n.right, Op(<<InfixOp(n.op)>>)>>)

\* A comparison by < or <= is the mirrored one on exchanged operands.
CompileInfixExpr(c, n) ==
    IF n.op \in {"<", "<="} THEN CompileAll(c, <<n.right, n.left, Op(<<InfixOp(n.op)>>)>>)
    ELSE CompileAll(c, <<n.left, n.right, Op(<<InfixOp(n.op)>>)>>)


\* What a branch of an if leaves on the stack.
BranchValue(c, n) ==
    IF n.resolved = UnitT THEN Emit(c, <<"OpNull">>)
    ELSE IF LastInstructionIs(c, "OpPop") THEN RemoveLastPop(c) ELSE c

CompileIfExpr(c, n) ==
    LET c1   == Compile(c, n.condition)
        skip == Here(c1)
        c2   == BranchValue(Compile(Emit(c1, <<"OpJumpNotTruthy", 9999>>), n.consequence), n)
        jump == Here(c2)
        c3   == Emit(c2, <<"OpJump", 9999>>)
        c4   == ChangeOperands(c3, {skip}, Here(c3))
        c5   == IF n.alternative = None THEN Emit(c4, <<"OpNull">>)
                ELSE BranchValue(Compile(c4, n.alternative), n)
    IN ChangeOperands(c5, {jump}, Here(c5))

CompileIdentifier(c, n) ==
    LET r == Resolve(c.tables, n.name)
        d == [c EXCEPT !.tables = r.tables]
    IN IF r.ok THEN LoadSymbol(d, r.sym) ELSE Fail(d, "undefined variable")

\* The body of a function in its own scope, then the closure over its free
\* symbols.  ends is the instruction after which no OpReturn is added.
CompileFunction(c, name, params, constant, ends, body) ==
    LET c1 == EnterScope(c)
        c2 == IF name = "" THEN c1 ELSE [c1 EXCEPT !.tables = DefineFunctionName(@, name)]
        c3 == [c2 EXCEPT !.tables =
                  FoldLeft(LAMBDA ts, p : Define(ts, p, constant).tables, @, params)]
        c4 == Compile(c3, body)
        c5 == IF LastInstructionIs(c4, "OpPop") THEN ReplaceLastPopWithReturn(c4) ELSE c4
        c6 == IF LastInstructionIs(c5, ends) THEN c5 ELSE Emit(c5, <<"OpReturn">>)
        own  == c6.tables[Len(c6.tables)]
        c7 == FoldLeft(LoadSymbol, LeaveScope(c6), own.free)
        c8 == AddConstant(c7, <<"function", [ins |-> CurrentInstructions(c6), numLocals |-> own.numDefinitions,
                                             numParameters |-> Len(params)]>>)
    IN Emit(c8, <<"OpClosure", LastConstant(c8), Len(own.free)>>)

CompileFunctionDeclarationStmt(c, n) ==
    LET r == Resolve(c.tables, IF n.mangled = "" THEN n.name ELSE n.mangled)
        d == CompileFunction([c EXCEPT !.tables = r.tables], n.name, n.params, FALSE, "OpReturn", n.body)
    IN IF r.ok THEN StoreSymbol(d, r.sym) ELSE Fail(c, "undefined function")

CompileFunctionLiteral(c, n) ==
    CompileFunction(c, n.name, n.params, TRUE, "OpReturnValue", n.body)

\* Values are compiled in the order of the type's fields.
CompileStructLiteral(c, n) ==
    LET valueOf(f) == n.values[CHOOSE i \in DOMAIN n.fields : n.fields[i] = f]
        d == AddConstant(CompileAll(c, [i \in DOMAIN n.order |-> valueOf(n.order[i])]),
                         <<"type", n.name>>)
    IN Emit(d, <<"OpStruct", LastConstant(d), Len(n.order)>>)

CompileSliceExpr(c, n) ==
    CompileAll(c, <<IF n.start = None THEN Const(IntVal(0)) ELSE n.start,
                    IF n.end = None THEN Const(IntVal(-1)) ELSE n.end,
                    n.left, Op(<<"OpSlice">>)>>)

\* What an arm of a match leaves on the stack.
ArmValue(c, n) ==
    LET d == IF LastInstructionIs(c, "OpPop") THEN RemoveLastPop(c) ELSE c
    IN IF n.resolved = UnitT THEN Emit(d, <<"OpNull">>) ELSE d

\* An arm with a binding compiles the subject once more to take its value.
CompileMatchArm(c, n, arm) ==
    IF arm.binding = "" THEN ArmValue(Compile(c, arm.body), n)
    ELSE LET c1 == CompileAll(PushBlockScope(c), <<n.subject, Op(<<"OpResultValue">>)>>)
             c2 == DefineAndStore(c1, arm.binding, TRUE)
         IN PopBlockScope(ArmValue(Compile(c2, arm.body), n))

\* compileOptionMatch and compileResultMatch.
CompileMatchExpr(c, n) ==
    LET c1   == CompileAll(c, <<n.subject, Op(<<"OpResultTag">>)>>)
        skip == Here(c1)
        c2   == CompileMatchArm(Emit(c1, <<"OpJumpNotTruthy", 9999>>), n, n.yes)
        jump == Here(c2)
        c3   == Emit(c2, <<"OpJump", 9999>>)
        c4   == CompileMatchArm(ChangeOperands(c3, {skip}, Here(c3)), n, n.no)
    IN ChangeOperands(c4, {jump}, Here(c4))

\* The arms from the i-th on; prev is the pending jump of the arm before (or
\* none), ends are the jumps to the end.
RECURSIVE CompileTypeArms(_, _, _, _, _)
CompileTypeArms(c, n, i, prev, ends) ==
    IF i > Len(n.arms) THEN [c |-> c, prev |-> prev, ends |-> ends]
    ELSE LET arm  == n.arms[i]
             c1   == AddConstant(Compile(c, n.subject), StrVal(Signature(arm.type)))
             c2   == Emit(c1, <<"OpMatchType", LastConstant(c1)>>)
             skip == Here(c2)
             c3   == ChangeOperands(Emit(c2, <<"OpJumpNotTruthy", 9999>>), prev, Here(c))
             c4   == PushBlockScope(CompileAll(c3, <<n.subject, Op(<<"OpUnboxInterface">>)>>))
             c5   == ArmValue(Compile(DefineAndStore(c4, arm.binding, TRUE), arm.body), n)
         IN CompileTypeArms(PopBlockScope(Emit(c5, <<"OpJump", 9999>>)), n, i + 1,
                            {skip}, ends \cup {Here(c5)})

CompileMatchTypeExpr(c, n) ==
    LET arms == CompileTypeArms(c, n, 1, {}, {})
        c1   == ChangeOperands(arms.c, arms.prev, Here(arms.c))
        c2   == IF n.default = None THEN c1 ELSE ArmValue(Compile(c1, n.default), n)
    IN ChangeOperands(c2, arms.ends, Here(c2))

HiddenVar(c, str) == "__" \o str \o "__" \o ToString(Len(c.loops) - 1) \o "__"

\* The common part of the two for-in loops: hidden variables (before), index
\* and condition, the loop's variables (bind), body, increment.
CompileForInLoop(c, n, before, bind) ==
    LET idx  == HiddenVar(c, "forin_idx")
        c1   == CompileAll(PushBlockScope(c), before \o <<Hidden(idx, IntegerLiteral(0))>>)
        cond == Here(c1)
        c2   == CompileAll(EnterLoop(c1, cond, TRUE),
                           <<Identifier(HiddenVar(c, "forin_len")), Identifier(idx), Op(<<"OpGt">>)>>)
        exit == Here(c2)
        c3   == CompileAll(Emit(c2, <<"OpJumpNotTruthy", 9999>>), bind \o <<n.body>>)
        c4   == ChangeOperands(c3, GetLoop(c3).continues, Here(c3))
        c5   == CompileAll(c4, <<VarAssignmentStmt(idx, InfixExpr("+", Identifier(idx), IntegerLiteral(1))),
                                 Op(<<"OpJump", cond>>)>>)
        c6   == ChangeOperands(c5, {exit} \cup GetLoop(c5).breaks, Here(c5))
    IN CompileAll(PopBlockScope(LeaveLoop(c6)), <<Op(<<"OpNull">>), Op(<<"OpPop">>)>>)

CallOf(builtin, x) == CallExpr(Op(<<"OpGetBuiltIn", builtin>>), <<>>, <<Identifier(x)>>)

CompileForInStmtArr(c, n) ==
    LET iter == HiddenVar(c, "forin_iter")
        idx  == Identifier(HiddenVar(c, "forin_idx"))
    IN CompileForInLoop(c, n,
           <<Hidden(iter, n.iterable), Hidden(HiddenVar(c, "forin_len"), CallOf("len", iter))>>,
           (IF n.key = "" THEN <<>> ELSE <<Hidden(n.key, idx)>>)
               \o <<Hidden(n.val, IndexExpr(Identifier(iter), idx))>>)

\* The value of a key that is in the map is taken out of its option.
CompileForInStmtMap(c, n) ==
    LET iter == HiddenVar(c, "forin_iter")
        keys == HiddenVar(c, "forin_keys")
        idx  == Identifier(HiddenVar(c, "forin_idx"))
    IN CompileForInLoop(c, n,
           <<Hidden(iter, n.iterable), Hidden(keys, CallOf("keys", iter)),
             Hidden(HiddenVar(c, "forin_len"), CallOf("len", keys))>>,
           <<Hidden(n.key, IndexExpr(Identifier(keys), idx)),
             Hidden(n.val, Both(IndexExpr(Identifier(iter), Identifier(n.key)), Op(<<"OpResultValue">>)))>>)

\* compileForInStmt: by the type that the checker left in the iterable.
CompileForInStmt(c, n) ==
    LET t == IF "resolved" \in DOMAIN n.iterable THEN n.iterable.resolved ELSE NilType
    IN CASE t[1] = "map"   -> CompileForInStmtMap(c, n)
         [] t[1] = "array" -> CompileForInStmtArr(c, n)
         [] OTHER          -> Fail(c, "iterable is neither array nor map")

\* isInterfaceType, of the receiver of a method call.
IsInterfaceCall(n) ==
    /\ n.kind = "CallExpr" /\ n.function.kind = "SelectorExpr"
    /\ n.function.left.kind \in {"Identifier", "CallExpr", "SelectorExpr", "IndexExpr"}
    /\ n.function.left.resolved[1] = "interface"

\* compileInterfaceMethodCall: the receiver is on top of the arguments.
CompileInterfaceMethodCall(c, n) ==
    LET methods == c.interfaces[n.function.left.resolved[2]]
        method  == CHOOSE i \in DOMAIN methods : methods[i] = n.function.field
    IN CompileAll(c, n.args \o <<n.function.left, Op(<<"OpCallInterface", method, Len(n.args)>>)>>)

\* The name that the checker chose, or else the function expression.
CompileCallExpr(c, n) ==
    IF IsInterfaceCall(n) THEN CompileInterfaceMethodCall(c, n)
    ELSE CompileAll(c, <<IF n.mangled = "" THEN n.function ELSE Identifier(n.mangled)>>
                           \o n.args \o <<Op(<<"OpCall", Len(n.args)>>)>>)

\* The end of Compile for an expression with a cast; a call through an
\* interface has returned before it gets there.
CompileCast(c, n) ==
    LET d == Compile(c, n.expr)
        pair == <<n.struct, n.iface>>
    IN CASE IsInterfaceCall(n.expr) -> d
         [] ~IsInterfaceCall(n.expr) /\ n.expr.kind \notin {"StructLiteral", "Identifier", "CallExpr"} ->
              Fail(d, "expression has no concrete type")
         [] OTHER -> IF pair \in DOMAIN d.itabs THEN Emit(d, <<"OpBox", d.itabs[pair]>>)
                     ELSE Fail(d, "struct does not implement interface")

FieldIndex(n) == CHOOSE i \in DOMAIN n.order : n.order[i] = n.field

\* Compile: the switch over the node types; nothing is done after an error.
Compile(c, n) ==
    CASE c.err # "" \/ n.kind = "None"      -> c
      [] n.kind = "Op"                      -> Emit(c, n.ins)
      [] n.kind = "Const"                   -> EmitConstant(c, n.value)
      [] n.kind = "Both"                    -> CompileAll(c, n.nodes)
      [] n.kind = "Hidden"                  -> DefineAndStore(Compile(c, n.value), n.name, FALSE)
      [] n.kind = "ExpressionStmt"          -> CompileAll(c, <<n.expr, Op(<<"OpPop">>)>>)
      [] n.kind = "BlockStmt"               -> CompileBlockStmt(c, n)
      [] n.kind = "VarDeclarationStmt"      -> CompileVarDeclarationStmt(c, n)
      [] n.kind = "VarAssignmentStmt"       -> CompileVarAssignmentStmt(c, n)
      [] n.kind = "IndexAssignmentStmt"     ->
           CompileAll(c, <<n.left, n.index, n.value, Op(<<"OpIndexSet">>)>>)
      [] n.kind = "ReturnStmt"              -> CompileAll(c, <<n.value, Op(<<"OpReturnValue">>)>>)
      [] n.kind = "ForStmt"                 -> CompileForStmt(c, n)
      [] n.kind = "ForInStmt"               -> CompileForInStmt(c, n)
      [] n.kind = "BreakStmt"               -> CompileBreakStmt(c)
      [] n.kind = "ContinueStmt"            -> CompileContinueStmt(c)
      [] n.kind = "InfixExpr"               -> CompileInfixExpr(c, n)
      [] n.kind = "PrefixExpr"              ->
           CompileAll(c, <<n.right, Op(<<IF n.op = "!" THEN "OpBang" ELSE "OpMinus">>)>>)
      [] n.kind = "IfExpr"                  -> CompileIfExpr(c, n)
      [] n.kind = "IndexExpr"               -> CompileAll(c, <<n.left, n.index, Op(<<"OpIndex">>)>>)
      [] n.kind = "Identifier"              -> CompileIdentifier(c, n)
      [] n.kind = "CallExpr"                -> CompileCallExpr(c, n)
      [] n.kind = "IntegerLiteral"          -> EmitConstant(c, IntVal(n.literal))
      [] n.kind = "StringLiteral"           -> EmitConstant(c, StrVal(n.literal))
      [] n.kind = "BooleanLiteral"          -> Emit(c, <<IF n.literal THEN "OpTrue" ELSE "OpFalse">>)
      [] n.kind = "NullLiteral"             -> Emit(c, <<"OpNull">>)
      [] n.kind = "ArrayLiteral"            ->
           CompileAll(c, n.elements \o <<Op(<<"OpArray", Len(n.elements)>>)>>)
      [] n.kind = "HashLiteral"             ->
           CompileAll(c, FlattenSeq(n.pairs) \o <<Op(<<"OpHash", Len(n.pairs) * 2>>)>>)
      [] n.kind = "FunctionDeclarationStmt" -> CompileFunctionDeclarationStmt(c, n)
      [] n.kind = "FunctionLiteral"         -> CompileFunctionLiteral(c, n)
      [] n.kind = "StructLiteral"           -> CompileStructLiteral(c, n)
      [] n.kind = "SelectorExpr"            -> CompileAll(c, <<n.left, Op(<<"OpGetField", FieldIndex(n)>>)>>)
      [] n.kind = "SelectorAssignmentStmt"  ->
           CompileAll(c, <<n.left, n.value, Op(<<"OpSetField", FieldIndex(n)>>)>>)
      [] n.kind = "MatchExpr"               -> CompileMatchExpr(c, n)
      [] n.kind = "MatchTypeExpr"           -> CompileMatchTypeExpr(c, n)
      [] n.kind = "SliceExpr"               -> CompileSliceExpr(c, n)
      [] n.kind = "Cast"                    -> CompileCast(c, n)
      [] n.kind \in {"StructDefinitionStmt", "InterfaceDefinitionStmt"} -> c

\* setInterface and buildItabsFromTypes: a constant per struct and interface,
\* with the global slot of every method.
BuildItabs(c, ss) ==
    LET ifaces  == ToSet(Definitions(ss, "InterfaceDefinitionStmt"))
        structs == Definitions(ss, "StructDefinitionStmt")
        methods == [x \in {i.name : i \in ifaces} |-> (CHOOSE i \in ifaces : i.name = x).methods]
        pairs   == FlattenSeq([i \in DOMAIN structs |->
                       [j \in DOMAIN structs[i].interfaces |-> <<structs[i].name, structs[i].interfaces[j]>>]])
        slot(s, m) == Resolve(c.tables, s \o "." \o m).sym.index
        add(d, p) ==
          LET e == AddConstant(d, <<"itab", [concrete |-> p[1],
                    methods |-> [k \in DOMAIN methods[p[2]] |-> slot(p[1], methods[p[2]][k])]]>>)
          IN [e EXCEPT !.itabs = (p :> LastConstant(e)) @@ @]
    IN FoldLeft(add, [c EXCEPT !.interfaces = methods], pairs)

\* AssertPostMonomorphization: nothing generic is left in the nodes it visits.
RECURSIVE Monomorphic(_)
Monomorphic(n) ==
    /\ n.kind \in {"FunctionDeclarationStmt", "StructDefinitionStmt"} => n.tparams = <<>>
    /\ n.kind = "StructLiteral" /\ n.targs # <<>> => n.resolved # NilType
    /\ n.kind \notin {"IndexAssignmentStmt", "SelectorAssignmentStmt", "SliceExpr"}
         => \A m \in Children(n) : Monomorphic(m)

\* The *ast.Program case and Bytecode.
Bytecode(program) ==
    LET c1 == BuildItabs(HoistFunctions(New, program.stmts), program.stmts)
        c2 == CompileAll(IF Monomorphic(program) THEN c1 ELSE Fail(c1, "panic"), program.stmts)
    IN [ins |-> CurrentInstructions(c2), constants |-> c2.constants, err |-> c2.err]

=============================================================================
