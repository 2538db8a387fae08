-------------------------- MODULE SymbolTableCalls --------------------------
(***************************************************************************)
(* The symbol tables while a program is compiled: compiler/compiler.go     *)
(* walks the tree and calls the operations of compiler/symbol_table.go.    *)
(* The program is arbitrary, so every call may come at any point where the *)
(* compiler makes such calls.                                              *)
(***************************************************************************)
EXTENDS SymbolTable

CONSTANT Name  \* identifiers, and the compiler's own names

VARIABLE tables  \* c.symbolTable and the tables around it, the global one first

Current == tables[Len(tables)]

\* New: the builtins are known.
Init == \E names \in SUBSET Name : tables = DefineBuiltins(names)

\* enterScope and pushBlockScope.
EnterFunction == tables' = NewEnclosedSymbolTable(tables)
EnterBlock == tables' = NewBlockScopedSymbolTable(tables)

\* leaveScope and popBlockScope.
Leave == Len(tables) > 1 /\ tables' = Outer(tables)

\* A declaration, a parameter, a hoisted function or a variable of the compiler.
Declare(x, constant) == tables' = Define(tables, x, constant).tables

\* A function that was just hoisted gets a second name.
Alias(x, y) ==
    /\ x \in DOMAIN Current.store
    /\ Current.store[x].scope \in {"GLOBAL", "LOCAL"}
    /\ tables' = Store(tables, y, Current.store[x])

\* The function that was just entered knows its own name.
NameFunction(x) ==
    /\ Len(tables) > 1 /\ ~Current.block
    /\ tables' = DefineFunctionName(tables, x)

\* An identifier is used.
Use(x) == tables' = Resolve(tables, x).tables

Next ==
    \/ EnterFunction \/ EnterBlock \/ Leave
    \/ \E x \in Name : \/ \E constant \in BOOLEAN : Declare(x, constant)
                       \/ \E y \in Name : Alias(x, y)
                       \/ NameFunction(x) \/ Use(x)

Spec == Init /\ [][Next]_tables

-----------------------------------------------------------------------------
(* Properties                                                              *)

Symbols ==
    [name : Name, scope : {"GLOBAL", "LOCAL", "BUILTIN", "FREE", "FUNCTION"},
     index : Nat \cup Name, constant : BOOLEAN]

Tables ==
    [store : UNION {[D -> Symbols] : D \in SUBSET Name}, numDefinitions : Nat,
     free : Seq(Symbols), block : BOOLEAN]

(* Types; the global table is not a block, and captures nothing.           *)
TypeOK ==
    /\ tables \in Seq(Tables) /\ Len(tables) > 0
    /\ ~tables[1].block /\ tables[1].free = << >>

\* Tables i and j, i around j, belong to one function, or to none.
Together(i, j) == i <= j /\ \A m \in i + 1 .. j : tables[m].block

\* Table i is inside a function.
InFunction(i) == \E m \in 2 .. i : ~tables[m].block

\* A variable of a frame or of the program.
IsSlot(sym) == sym.scope \in {"GLOBAL", "LOCAL"}

(* However deep a variable is declared, the function's own table, whose    *)
(* count becomes numLocals of the function, counts its slot; and a         *)
(* variable is local exactly inside functions.  (DefineMutable and         *)
(* DefineImmutable)                                                        *)
SlotsReserved ==
    /\ \A i, j \in DOMAIN tables :
           Together(i, j) => tables[i].numDefinitions = tables[j].numDefinitions
    /\ \A i \in DOMAIN tables : \A x \in DOMAIN tables[i].store :
           LET sym == tables[i].store[x] IN
           IsSlot(sym) => /\ sym.index \in Nat /\ sym.index < tables[i].numDefinitions
                          /\ sym.scope = "LOCAL" <=> InFunction(i)

(* Two variables of one function that are in scope together never share a  *)
(* slot, shadowed ones included: only the names of one symbol do.          *)
SlotsDistinct ==
    \A i, j \in DOMAIN tables : Together(i, j) =>
        \A x \in DOMAIN tables[i].store, y \in DOMAIN tables[j].store :
            LET s == tables[i].store[x]
                r == tables[j].store[y]
            IN IsSlot(s) /\ IsSlot(r) /\ s.index = r.index => i = j /\ s = r

\* The instructions of the function that table i belongs to can load sym:
\* loadSymbol takes a local from the frame's slots and a free variable from
\* the closure, which is filled from the symbols in free.
Loadable(i, sym) ==
    \/ sym.scope \in {"GLOBAL", "BUILTIN"}
    \/ sym.scope = "FUNCTION" /\ InFunction(i)
    \/ /\ sym.scope = "LOCAL" /\ InFunction(i)
       /\ sym.index \in Nat /\ sym.index < tables[i].numDefinitions
    \/ /\ sym.scope = "FREE"
       /\ \E j \in DOMAIN tables :
             /\ Together(j, i) /\ ~tables[j].block
             /\ sym.index \in Nat /\ sym.index < Len(tables[j].free)
             /\ tables[j].free[sym.index + 1].name = sym.name

(* A symbol in a table is one the code of its function can load.  What a   *)
(* function captures is loaded by the code around it when the closure is   *)
(* made, so that code can load it: from a slot that the enclosing function *)
(* has, or from what that one has captured under the same name.  (Resolve  *)
(* and defineFree)                                                         *)
CapturesRight ==
    \A i \in DOMAIN tables :
        /\ \A x \in DOMAIN tables[i].store : Loadable(i, tables[i].store[x])
        /\ \A k \in DOMAIN tables[i].free :
               /\ ~tables[i].block /\ tables[i].free[k].scope \in {"LOCAL", "FREE", "FUNCTION"}
               /\ Loadable(i - 1, tables[i].free[k])

\* The function that table i belongs to has the symbol in one of its tables.
Has(i, sym) ==
    \E j \in DOMAIN tables :
        Together(j, i) /\ \E y \in DOMAIN tables[j].store : tables[j].store[y] = sym

\* A slot, or the closure itself, is of the function of table i.
OfFunction(i, sym) == sym.scope \in {"LOCAL", "FUNCTION"} => Has(i, sym)

(* What Resolve returns can be loaded where it is used, and a local that   *)
(* it returns is never one of a function further out.  The same holds of   *)
(* what the functions on the way capture, in the code around each of them. *)
ResolvedHere ==
    [][\A x \in Name : Use(x) /\ Resolve(tables, x).ok =>
           /\ \A sym \in {Resolve(tables, x).sym} :
                  Loadable(Len(tables), sym)' /\ OfFunction(Len(tables), sym)
           /\ \A i \in DOMAIN tables : \A q \in DOMAIN tables'[i].free \ DOMAIN tables[i].free :
                  OfFunction(i - 1, tables'[i].free[q])]_tables
=============================================================================
