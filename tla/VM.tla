--------------------------------- MODULE VM ---------------------------------
(***************************************************************************)
(* The instruction set of the virtual machine (vm/vm.go, runFiber), as it  *)
(* runs one program on its main fiber: operand stack with stack pointer,   *)
(* frames, globals and heap.  One action per group of opcodes, named after *)
(* the Go function or opcode.  The stack is an array: what was popped      *)
(* stays in it until it is overwritten.                                    *)
(*                                                                         *)
(* A value is a tagged tuple.  Memory that several values may share is in  *)
(* two stores: cells (elements of arrays, fields of structs) and hashes.   *)
(* An array is <<"array", its cells up to its capacity, its length>>.      *)
(*                                                                         *)
(* Channels, spawning and asynchronous builtins are in module Scheduler.   *)
(***************************************************************************)
EXTENDS Compiler

LOCAL INSTANCE FiniteSetsExt
LOCAL INSTANCE SequencesExt

CONSTANTS Programs,   \* what to run: see Compiled
          StackSize,  \* 2048 in the code
          MaxFrames,  \* 1024 in the code
          GlobalsSize \* 65536 in the code

ASSUME VMAssumption == {StackSize, MaxFrames, GlobalsSize} \subseteq Nat \ {0}

VARIABLES program, stack, sp, frames, globals, cells, hashes,
          out,     \* what print has written
          status,  \* "run", "done", or why there is nothing (more) to run
          depths   \* operand depth at every instruction reached so far (history)

store == <<globals, cells, hashes, out>>
vars  == <<program, stack, sp, frames, globals, cells, hashes, out, status, depths>>

\* A Go nil, as in a slot that was never written.
NilVal == <<"nil">>

MainClosure == <<"closure", -1, <<>>>>

Reference == INSTANCE Meaning WITH MaxCalls <- MaxFrames - 1

Checker   == INSTANCE TypeChecker

Refused(why)   == [ins |-> <<>>, constants |-> <<>>, err |-> why]
WithoutMeaning == [out |-> <<>>, status |-> "ill-typed"]

\* A program as main.go treats it: checked, stripped of its templates, compiled
\* unless the checker refuses it.  typed: whether it is well-typed (see MCVM);
\* only then it has a meaning.
Compiled(source, typed) ==
    LET checked == Checker!CheckProgram(source)
    IN [typed |-> typed,
        code  |-> IF checked.errors = {} THEN Bytecode(checked.program) ELSE Refused("type error"),
        meant |-> IF typed THEN Reference!Meaning(source) ELSE WithoutMeaning]

code == program.code

\* New and NewWithGlobalStore, for the bytecode of one of the programs.
Init ==
    /\ program \in Programs
    /\ stack = [i \in 0 .. StackSize - 1 |-> NilVal]
    /\ sp = 0
    /\ frames = <<[cl |-> MainClosure, ip |-> -1, base |-> 0]>>
    /\ globals = [i \in 0 .. GlobalsSize - 1 |-> NilVal]
    /\ cells = <<>> /\ hashes = <<>> /\ out = <<>>
    /\ status = IF code.err = "" THEN "run" ELSE "rejected"
    /\ depths = <<>>

-----------------------------------------------------------------------------

Frame  == frames[Len(frames)]
Fn(cl) == IF cl = MainClosure THEN [ins |-> code.ins, numLocals |-> 0, numParameters |-> 0]
          ELSE code.constants[cl[2] + 1][2]
Instructions == Fn(Frame.cl).ins
AtEnd        == Frame.ip >= Len(Instructions) - 1

\* The instruction that the loop of runFiber takes next, and its operands.
Fetched    == Instructions[Frame.ip + 2]
Operand    == Fetched[2]
Constant   == code.constants[Operand + 1]
Fetch(ops) == status = "run" /\ ~AtEnd /\ Fetched[1] \in ops

\* Slots of the current frame above its locals.
Depth == sp - (Frame.base + Fn(Frame.cl).numLocals)

\* The bookkeeping of every executed instruction.
Note    == depths' = (<<Frame.cl[2], Frame.ip>> :> Depth) @@ depths
Advance == frames' = [frames EXCEPT ![Len(frames)].ip = @ + 1]

\* runFiber returns an error, or the Go runtime panics.
Halt(why) == status' = why /\ UNCHANGED <<program, stack, sp, frames, store, depths>>

Top(k) == stack[sp - k]

\* The instruction leaves v at position p and nothing above it.
PushAt(p, v) ==
    IF p >= StackSize THEN Halt("stack overflow")
    ELSE /\ stack' = [stack EXCEPT ![p] = v]
         /\ sp' = p + 1
         /\ Advance /\ Note
         /\ UNCHANGED <<program, store, status>>

\* The same, with new contents of cells and hashes.
PushAllocated(p, v, cs, hs) ==
    IF p >= StackSize THEN Halt("stack overflow")
    ELSE /\ stack' = [stack EXCEPT ![p] = v]
         /\ sp' = p + 1
         /\ cells' = cs /\ hashes' = hs
         /\ Advance /\ Note
         /\ UNCHANGED <<program, globals, out, status>>

\* The instruction takes k operands and leaves nothing on the stack.
Drop(k) == sp' = sp - k /\ UNCHANGED <<program, stack, status>> /\ Note

-----------------------------------------------------------------------------
(* Constants, operators                                                    *)

PushLiteral ==
    /\ Fetch({"OpConstant", "OpTrue", "OpFalse", "OpNull"})
    /\ PushAt(sp, CASE Fetched[1] = "OpConstant" -> Constant
                    [] Fetched[1] = "OpTrue"     -> BoolVal(TRUE)
                    [] Fetched[1] = "OpFalse"    -> BoolVal(FALSE)
                    [] Fetched[1] = "OpNull"     -> NullVal)

\* pop reads the slot below the stack pointer.
PopAction ==
    /\ Fetch({"OpPop"})
    /\ IF sp = 0 THEN Halt("panic") ELSE Drop(1) /\ Advance /\ UNCHANGED store

\* Division and remainder of Go: towards zero.
AbsVal(a)  == IF a < 0 THEN -a ELSE a
Quo(a, b) == IF (a < 0) = (b < 0) THEN AbsVal(a) \div AbsVal(b) ELSE -(AbsVal(a) \div AbsVal(b))
Rem(a, b) == a - b * Quo(a, b)

\* executeBinaryOperation on two integers, or + on two strings.
BinaryResult(op, l, r) ==
    IF l[1] = "string" THEN StrVal(l[2] \o r[2])
    ELSE IntVal(CASE op = "OpAdd" -> l[2] + r[2] [] op = "OpSub" -> l[2] - r[2]
                  [] op = "OpMul" -> l[2] * r[2] [] op = "OpDiv" -> Quo(l[2], r[2])
                  [] op = "OpModulo" -> Rem(l[2], r[2]))

\* Only the division is guarded against zero.
BinaryFault(op, r) ==
    CASE op = "OpDiv" /\ r = IntVal(0)    -> "division by zero"
      [] op = "OpModulo" /\ r = IntVal(0) -> "panic"
      [] OTHER                            -> ""

ExecuteBinaryOperation ==
    /\ Fetch({"OpAdd", "OpSub", "OpMul", "OpDiv", "OpModulo"})
    /\ LET fault == BinaryFault(Fetched[1], Top(1))
       IN IF fault # "" THEN Halt(fault)
          ELSE PushAt(sp - 2, BinaryResult(Fetched[1], Top(2), Top(1)))

IsTruthy(v) == v[1] = "bool" => v[2]

\* executeComparison: every type has its operators, and so has a mixed pair.
ComparisonFault(op, l, r) ==
    op \notin CASE l[1] # r[1] \/ l[1] = "bool"  -> {"OpEqual", "OpNotEqual", "OpAnd", "OpOr"}
                [] l[1] = "int" /\ r[1] = "int" -> {"OpEqual", "OpNotEqual", "OpGt", "OpGte"}
                [] l[1] = "string" /\ r[1] = "string" -> {"OpEqual", "OpNotEqual"}
                [] OTHER -> {}

ComparisonResult(op, l, r) ==
    CASE op = "OpEqual"    -> l = r
      [] op = "OpNotEqual" -> l # r
      [] op = "OpGt"       -> l[2] > r[2]
      [] op = "OpGte"      -> l[2] >= r[2]
      [] op = "OpAnd"      -> IsTruthy(l) /\ IsTruthy(r)
      [] op = "OpOr"       -> IsTruthy(l) \/ IsTruthy(r)

ExecuteComparison ==
    /\ Fetch({"OpEqual", "OpNotEqual", "OpGt", "OpGte", "OpAnd", "OpOr"})
    /\ IF ComparisonFault(Fetched[1], Top(2), Top(1)) THEN Halt("unknown operator")
       ELSE PushAt(sp - 2, BoolVal(ComparisonResult(Fetched[1], Top(2), Top(1))))

ExecuteBangOperator ==
    /\ Fetch({"OpBang"})
    /\ PushAt(sp - 1, BoolVal(Top(1) \in {BoolVal(FALSE), IntVal(0)}))

ExecuteMinusOperator == Fetch({"OpMinus"}) /\ PushAt(sp - 1, IntVal(-Top(1)[2]))

-----------------------------------------------------------------------------
(* Jumps and variables                                                     *)

\* The loop increments ip before it fetches.
JumpTo(pos) == frames' = [frames EXCEPT ![Len(frames)].ip = pos - 1]

Jump == Fetch({"OpJump"}) /\ JumpTo(Operand) /\ Note /\ UNCHANGED <<program, stack, sp, store, status>>

JumpNotTruthy ==
    /\ Fetch({"OpJumpNotTruthy"})
    /\ IF IsTruthy(Top(1)) THEN Advance ELSE JumpTo(Operand)
    /\ Drop(1) /\ UNCHANGED store

SetGlobal ==
    /\ Fetch({"OpSetMutableGlobal", "OpSetImmutableGlobal"})
    /\ globals' = [globals EXCEPT ![Operand] = Top(1)]
    /\ Drop(1) /\ Advance /\ UNCHANGED <<cells, hashes, out>>

GetGlobal == Fetch({"OpGetGlobal"}) /\ PushAt(sp, globals[Operand])

SetLocal ==
    /\ Fetch({"OpSetMutableLocal", "OpSetImmutableLocal"})
    /\ IF Frame.base + Operand >= StackSize THEN Halt("panic")
       ELSE /\ stack' = [stack EXCEPT ![Frame.base + Operand] = Top(1)]
            /\ sp' = sp - 1
            /\ Advance /\ Note /\ UNCHANGED <<program, store, status>>

GetLocal == Fetch({"OpGetLocal"}) /\ PushAt(sp, stack[Frame.base + Operand])

GetBuiltIn == Fetch({"OpGetBuiltIn"}) /\ PushAt(sp, <<"builtin", Operand>>)

GetFree == Fetch({"OpGetFree"}) /\ PushAt(sp, Frame.cl[3][Operand + 1])

CurrentClosure == Fetch({"OpCurrentClosure"}) /\ PushAt(sp, Frame.cl)

\* pushClosure: the values of the free variables are copied.
PushClosure ==
    /\ Fetch({"OpClosure"})
    /\ LET n == Fetched[3]
       IN PushAt(sp - n, <<"closure", Operand, [i \in 1 .. n |-> stack[sp - n + i - 1]]>>)

-----------------------------------------------------------------------------
(* Calls                                                                   *)

\* callClosure with the stack contents stk up to position top: the
\* arguments become the first locals.  Nothing bounds the stack pointer here.
CallClosure(cl, numArgs, stk, top) ==
    CASE numArgs # Fn(cl).numParameters -> Halt("wrong number of arguments")
      [] Len(frames) >= MaxFrames       -> Halt("panic")
      [] OTHER ->
           LET base == top - numArgs
           IN /\ frames' = Append([frames EXCEPT ![Len(frames)].ip = @ + 1],
                                  [cl |-> cl, ip |-> -1, base |-> base])
              /\ stack' = stk
              /\ sp' = base + Fn(cl).numLocals
              /\ Note /\ UNCHANGED <<program, store, status>>

Callee == stack[sp - 1 - Operand]

Call == Fetch({"OpCall"}) /\ Callee[1] = "closure" /\ CallClosure(Callee, Operand, stack, sp)

\* An array in new cells that are exactly its elements.
NewArray(es) == <<"array", [i \in DOMAIN es |-> Len(cells) + i], Len(es)>>
Elements(a)  == [i \in 1 .. a[3] |-> cells[a[2][i]]]

Args == [i \in 1 .. Operand |-> stack[sp - Operand + i - 1]]

BuiltinResult(f) ==
    CASE f = "len"  -> IntVal(CASE Args[1][1] = "hash"   -> Cardinality(DOMAIN hashes[Args[1][2]])
                                [] Args[1][1] = "string" -> Len(Args[1][2])
                                [] Args[1][1] = "array"  -> Args[1][3])
      [] f = "ok"   -> <<"result", TRUE, Args[1]>>
      [] f = "err"  -> <<"result", FALSE, Args[1]>>
      [] f = "some" -> <<"option", TRUE, Args[1]>>
      [] f = "none" -> <<"option", FALSE, NilVal>>

\* The keys or the values of a hash, by its keys in some order.
Entries(f, h, ks) == IF f = "keys" THEN ks ELSE [i \in DOMAIN ks |-> h[ks[i]]]

\* callBuiltIn: args and function are popped, the result is pushed.
CallBuiltIn ==
    /\ Fetch({"OpCall"}) /\ Callee[1] = "builtin"
    /\ \/ /\ Callee[2] \in {"len", "ok", "err", "some", "none"}
          /\ PushAt(sp - Operand - 1, BuiltinResult(Callee[2]))
       \/ /\ Callee[2] = "append"
          /\ LET es == Append(Elements(Args[1]), Args[2])
             IN PushAllocated(sp - 2 - 1, NewArray(es), cells \o es, hashes)
       \/ /\ Callee[2] \in {"keys", "values"}  \* in the order of a Go map: any
          /\ \E ks \in SetToSeqs(DOMAIN hashes[Args[1][2]]) :
                LET es == Entries(Callee[2], hashes[Args[1][2]], ks)
                IN PushAllocated(sp - 2, NewArray(es), cells \o es, hashes)
       \/ Callee[2] = "panic" /\ Halt("error")
       \/ /\ Callee[2] = "print"
          /\ out' = Append(out, Args)
          /\ stack' = [stack EXCEPT ![sp - Operand - 1] = NullVal]
          /\ sp' = sp - Operand
          /\ Advance /\ Note /\ UNCHANGED <<program, globals, cells, hashes, status>>

\* OpCallInterface: the arguments and the interface are popped, the method's
\* closure, the receiver and the arguments pushed.
CallInterface ==
    /\ Fetch({"OpCallInterface"})
    /\ LET n     == Fetched[3]
           itab  == code.constants[Top(1)[2] + 1][2]
           cl    == globals[itab.methods[Operand]]
           below == sp - 1 - n
           moved == [p \in 0 .. StackSize - 1 |->
                       CASE p = below                             -> cl
                         [] p = below + 1                         -> Top(1)[3]
                         [] p \in below + 2 .. below + 1 + n      -> stack[p - 2]
                         [] p \notin below .. below + 1 + n       -> stack[p]]
       IN IF sp >= StackSize THEN Halt("stack overflow")
          ELSE CallClosure(cl, n + 1, moved, sp + 1)

\* OpReturnValue and OpReturn.
ReturnAction ==
    /\ Fetch({"OpReturnValue", "OpReturn"})
    /\ stack' = [stack EXCEPT ![Frame.base - 1] =
                    IF Fetched[1] = "OpReturnValue" THEN Top(1) ELSE NullVal]
    /\ sp' = Frame.base
    /\ frames' = SubSeq(frames, 1, Len(frames) - 1)
    /\ Note /\ UNCHANGED <<program, store, status>>

-----------------------------------------------------------------------------
(* Arrays, hashes, structs, options and interfaces                         *)

ArrayAction ==
    /\ Fetch({"OpArray"})
    /\ LET es == [i \in 1 .. Operand |-> stack[sp - Operand + i - 1]]
       IN PushAllocated(sp - Operand, NewArray(es), cells \o es, hashes)

\* buildHash: pairs in order, later ones overwrite earlier ones.
HashAction ==
    /\ Fetch({"OpHash"})
    /\ LET at(i)  == stack[sp - Operand + i]
           put(h, i) == (at(2 * i) :> at(2 * i + 1)) @@ h
           h == FoldLeft(put, <<>>, [i \in 1 .. Operand \div 2 |-> i - 1])
       IN PushAllocated(sp - Operand, <<"hash", Len(hashes) + 1>>, cells, Append(hashes, h))

\* executeArrayIndex and executeHashIndex.
ExecuteIndexExpression ==
    /\ Fetch({"OpIndex"})
    /\ LET left  == Top(2)
           index == Top(1)
       IN \/ /\ left[1] = "array" /\ index[2] \notin 0 .. left[3] - 1
             /\ Halt("index out of bounds")
          \/ /\ left[1] = "array" /\ index[2] \in 0 .. left[3] - 1
             /\ PushAt(sp - 2, cells[left[2][index[2] + 1]])
          \/ /\ left[1] = "hash"
             /\ LET h == hashes[left[2]]
                IN PushAt(sp - 2, IF index \in DOMAIN h THEN <<"option", TRUE, h[index]>>
                                  ELSE <<"option", FALSE, NilVal>>)

\* executeIndexAssignment: the bound check lets the length itself pass.
ExecuteIndexAssignment ==
    /\ Fetch({"OpIndexSet"})
    /\ LET left  == Top(3)
           index == Top(2)
       IN \/ /\ left[1] = "array" /\ index[2] \notin 0 .. left[3]
             /\ Halt("index out of bounds")
          \/ /\ left[1] = "array" /\ index[2] = left[3]
             /\ Halt("panic")
          \/ /\ left[1] = "array" /\ index[2] \in 0 .. left[3] - 1
             /\ cells' = [cells EXCEPT ![left[2][index[2] + 1]] = Top(1)]
             /\ Drop(3) /\ Advance /\ UNCHANGED <<globals, hashes, out>>
          \/ /\ left[1] = "hash"
             /\ hashes' = [hashes EXCEPT ![left[2]] = (index :> Top(1)) @@ @]
             /\ Drop(3) /\ Advance /\ UNCHANGED <<globals, cells, out>>

\* OpSlice shares the cells of its operand; Go checks the capacity.
SliceAction ==
    /\ Fetch({"OpSlice"})
    /\ LET a == Top(1)
           e == IF Top(2) = IntVal(-1) THEN a[3] ELSE Top(2)[2]
           s == Top(3)[2]
       IN IF 0 <= s /\ s <= e /\ e <= Len(a[2])
          THEN PushAt(sp - 3, <<"array", SubSeq(a[2], s + 1, Len(a[2])), e - s>>)
          ELSE Halt("panic")

StructAction ==
    /\ Fetch({"OpStruct"})
    /\ LET n  == Fetched[3]
           fs == [i \in 1 .. n |-> stack[sp - n + i - 1]]
       IN PushAllocated(sp - n, <<"struct", Constant[2], [i \in 1 .. n |-> Len(cells) + i]>>,
                        cells \o fs, hashes)

GetField == Fetch({"OpGetField"}) /\ PushAt(sp - 1, cells[Top(1)[3][Operand]])

SetField ==
    /\ Fetch({"OpSetField"})
    /\ cells' = [cells EXCEPT ![Top(2)[3][Operand]] = Top(1)]
    /\ Drop(2) /\ Advance /\ UNCHANGED <<globals, hashes, out>>

Box == Fetch({"OpBox"}) /\ PushAt(sp - 1, <<"interface", Operand, Top(1)>>)

ResultTag == Fetch({"OpResultTag"}) /\ PushAt(sp - 1, BoolVal(Top(1)[2]))

ResultValue == Fetch({"OpResultValue"}) /\ PushAt(sp - 1, Top(1)[3])

\* OpMatchType: the concrete type behind an interface, or the value's own.
MatchType ==
    /\ Fetch({"OpMatchType"})
    /\ LET v == Top(1)
           t == IF v[1] = "interface" THEN code.constants[v[2] + 1][2].concrete ELSE v[1]
       IN PushAt(sp - 1, BoolVal(t = Constant[2]))

UnboxInterface ==
    /\ Fetch({"OpUnboxInterface"})
    /\ PushAt(sp - 1, IF Top(1)[1] = "interface" THEN Top(1)[3] ELSE Top(1))

\* The loop of runFiber ends behind the last instruction.
Finish == status = "run" /\ AtEnd /\ status' = "done"
          /\ UNCHANGED <<program, stack, sp, frames, store, depths>>

\* The program has ended.
Stopped == status # "run" /\ UNCHANGED vars

Step ==
    \/ PushLiteral \/ PopAction \/ ExecuteBinaryOperation \/ ExecuteComparison
    \/ ExecuteBangOperator \/ ExecuteMinusOperator \/ Jump \/ JumpNotTruthy
    \/ SetGlobal \/ GetGlobal \/ SetLocal \/ GetLocal \/ GetBuiltIn \/ GetFree
    \/ CurrentClosure \/ PushClosure \/ Call \/ CallBuiltIn \/ CallInterface
    \/ ReturnAction \/ ArrayAction \/ HashAction \/ ExecuteIndexExpression
    \/ ExecuteIndexAssignment \/ SliceAction \/ StructAction \/ GetField \/ SetField
    \/ Box \/ ResultTag \/ ResultValue \/ MatchType \/ UnboxInterface \/ Finish

Next == Step \/ Stopped

Spec     == Init /\ [][Next]_vars

\* The machine runs until the program has ended.
FairSpec == Spec /\ WF_vars(Step)

-----------------------------------------------------------------------------
(* Properties                                                              *)

\* Compiling a program and running the instructions prints what the program
\* means, and ends with an error exactly if the program has one: scopes,
\* slots, jumps, free variables, itabs and the order of operands
\* (compiler.go, vm.go) are all only means to this.
MeaningPreserved ==
    program.typed /\ status # "run" =>
        out = program.meant.out /\ (status = "done") = (program.meant.status = "done")


AreAll(kind, k) == \A i \in 1 .. k : Top(i)[1] = kind

\* The operands of the next instruction are of the kinds that it is for.
Fits ==
    LET op == Fetched[1] IN
    CASE op = "OpAdd"                -> AreAll("int", 2) \/ AreAll("string", 2)
      [] op \in {"OpSub", "OpMul", "OpDiv", "OpModulo", "OpGt", "OpGte"} -> AreAll("int", 2)
      [] op \in {"OpEqual", "OpNotEqual"} -> Top(1)[1] = Top(2)[1]
      [] op \in {"OpAnd", "OpOr"}    -> AreAll("bool", 2)
      [] op = "OpMinus"              -> AreAll("int", 1)
      [] op \in {"OpBang", "OpJumpNotTruthy"} -> AreAll("bool", 1)
      [] op = "OpIndex"              -> (Top(2)[1] = "array" /\ AreAll("int", 1)) \/ Top(2)[1] = "hash"
      [] op = "OpIndexSet"           -> (Top(3)[1] = "array" /\ Top(2)[1] = "int") \/ Top(3)[1] = "hash"
      [] op = "OpSlice"              -> Top(1)[1] = "array" /\ Top(2)[1] = "int" /\ Top(3)[1] = "int"
      [] op = "OpGetField"           -> Top(1)[1] = "struct" /\ Operand <= Len(Top(1)[3])
      [] op = "OpSetField"           -> Top(2)[1] = "struct" /\ Operand <= Len(Top(2)[3])
      [] op = "OpBox"                -> Top(1)[1] = "struct" /\ Top(1)[2] = Constant[2].concrete
      [] op \in {"OpResultTag", "OpResultValue"} -> Top(1)[1] \in {"result", "option"}
      [] op = "OpCallInterface"      -> Top(1)[1] = "interface"
      [] op = "OpCall"               -> \/ Callee[1] = "closure" /\ Fn(Callee).numParameters = Operand
                                       \/ Callee[1] = "builtin"
      [] OTHER                       -> TRUE

\* No instruction ever meets operands that it is not for, whatever the program
\* that passed the checker: an ill-typed one never runs into an operator, a
\* call, an index, a field or a condition (vm.go has errors and Go type
\* assertions for these, which a program must not reach).
OperandsFit == status = "run" /\ ~AtEnd => Fits

\* Every way to an instruction leaves the same number of operands above the
\* locals of the frame, never fewer than none, and the program ends with an
\* empty stack: no branch, loop, break, continue or match that has a value
\* leaks a slot or takes one of the locals (OpPop against OpNull in
\* compiler.go).  It is not so of two forms that no program of the run
\* Bytecode has: an arm of a match of type unit that ends in an expression
\* gets an OpNull although the value of the expression is still there
\* (compiler.go:1081, 1112, 1153, 1170, 1222), and an if of type never gets
\* an OpPop for a branch that leaves nothing (compiler.go:450, the run
\* BytecodeEarlyReturn).
StackBalanced ==
    /\ Depth >= 0
    /\ LET here == <<Frame.cl[2], Frame.ip>>
       IN here \in DOMAIN depths => depths[here] = Depth
    /\ status = "done" => sp = 0

Functions == {i \in DOMAIN code.constants : code.constants[i][1] = "function"}

\* What the instructions of one function may refer to.
Closed(ins, numLocals, numFree) ==
    \A i \in DOMAIN ins :
        LET x == ins[i] IN
        /\ x[1] \in {"OpJump", "OpJumpNotTruthy"} => x[2] \in 0 .. Len(ins)
        /\ x[1] \in {"OpGetLocal", "OpSetMutableLocal", "OpSetImmutableLocal"} => x[2] < numLocals
        /\ x[1] = "OpGetFree" => x[2] < numFree
        /\ x[1] \in {"OpConstant", "OpClosure", "OpStruct", "OpBox", "OpMatchType"}
             => x[2] \in 0 .. Len(code.constants) - 1

\* The compiled program is self-contained before its first instruction is
\* run: every pending jump (9999) was patched to a place in its function,
\* every local has a slot that the call reserves, and every function is made
\* into a closure with as many captured values as it reads.
CodeClosed ==
    depths = <<>> /\ status = "run" =>
        /\ Closed(code.ins, 0, 0)
        /\ \A f \in Functions :
             LET fn    == code.constants[f][2]
                 all   == {code.ins} \cup {code.constants[g][2].ins : g \in Functions}
                 makes == UNION {{s[i] : i \in {k \in DOMAIN s : s[k][1] = "OpClosure" /\ s[k][2] = f - 1}} : s \in all}
             IN \A x \in makes : Closed(fn.ins, fn.numLocals, x[3])

\* The program ends: every loop reaches its condition again through its post
\* statement or index, also after a continue (ForStmt, compileForInStmt).
Terminates == <>(status # "run")

=============================================================================
