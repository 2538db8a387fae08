---------------------------- MODULE SymbolTable ----------------------------
(***************************************************************************)
(* compiler/symbol_table.go.  The chain of symbol tables from the global   *)
(* one (first) to the innermost one (last) is a sequence; the Outer        *)
(* pointer of table i is table i - 1.  A table is block scoped or belongs  *)
(* to a function, and a symbol says where the VM finds the variable.       *)
(***************************************************************************)
EXTENDS Integers, Sequences

Symbol(name, scope, index, constant) ==
    [name |-> name, scope |-> scope, index |-> index, constant |-> constant]

NewSymbolTable == [store |-> <<>>, numDefinitions |-> 0, free |-> <<>>, block |-> FALSE]

NewEnclosedSymbolTable(ts) == Append(ts, NewSymbolTable)

\* A block continues to count where its function is.
NewBlockScopedSymbolTable(ts) ==
    Append(ts, [NewSymbolTable EXCEPT !.block = TRUE,
                                      !.numDefinitions = ts[Len(ts)].numDefinitions])

\* Leaving a table: the Outer one is current again.
Outer(ts) == SubSeq(ts, 1, Len(ts) - 1)

\* DefineAlias, and the last step of every other definition: the innermost
\* table knows the symbol by this name.
Bind(store, name, sym) ==
    [x \in DOMAIN store \cup {name} |-> IF x = name THEN sym ELSE store[x]]

Store(ts, name, sym) == [ts EXCEPT ![Len(ts)].store = Bind(@, name, sym)]

Innermost(S) == CHOOSE i \in S : \A j \in S : j <= i

\* The function's own table; the global table for code outside functions.
Own(ts) == Innermost({1} \cup {i \in 1 .. Len(ts) : ~ts[i].block})

\* Only blocks between the innermost table and the global one.
IsGlobalScope(ts) == \A i \in 2 .. Len(ts) : ts[i].block

\* DefineMutable and DefineImmutable: the next slot.  The count of the tables
\* around a block follows, up to and including the function's own table.
Define(ts, name, constant) ==
    LET n    == Len(ts)
        own  == Own(ts)
        used == ts[n].numDefinitions
        sym  == Symbol(name, IF IsGlobalScope(ts) THEN "GLOBAL" ELSE "LOCAL", used, constant)
    IN [sym |-> sym,
        tables |-> Store(SubSeq(ts, 1, own - 1) \o
                             [k \in 1 .. n - (own - 1) |->
                                [ts[own - 1 + k] EXCEPT !.numDefinitions = used + 1]],
                         name, sym)]

\* The name of the function being compiled, inside its own body.
DefineFunctionName(ts, name) == Store(ts, name, Symbol(name, "FUNCTION", 0, FALSE))

\* DefineBuiltin for each of the names, in the global table.
DefineBuiltins(names) ==
    <<[NewSymbolTable EXCEPT !.store = [x \in names |-> Symbol(x, "BUILTIN", x, TRUE)]]>>

\* The tables that know the name.
Holders(ts, name) == {i \in 1 .. Len(ts) : name \in DOMAIN ts[i].store}

\* The functions between the variable's table h and the innermost one.
Crossed(ts, h, found) ==
    IF found.scope \in {"GLOBAL", "BUILTIN"} THEN {} ELSE {i \in h + 1 .. Len(ts) : ~ts[i].block}

\* defineFree: the symbol that table i gets for a captured variable.
FreeIn(ts, i, found) == Symbol(found.name, "FREE", Len(ts[i].free), found.constant)

\* What the variable is after the functions S have captured it.
SeenFrom(ts, S, found) == IF S = {} THEN found ELSE FreeIn(ts, Innermost(S), found)

\* Resolve: the innermost table that knows the name.  A variable of an
\* enclosing function becomes a free symbol of every function in between,
\* under the name of its definition; block tables pass it on.
Resolve(ts, name) ==
    IF Holders(ts, name) = {}
    THEN [ok |-> FALSE, outer |-> FALSE, sym |-> Symbol(name, "", 0, FALSE), tables |-> ts]
    ELSE LET h     == Innermost(Holders(ts, name))
             found == ts[h].store[name]
             S     == Crossed(ts, h, found)
         IN [ok |-> TRUE, outer |-> h < Len(ts), sym |-> SeenFrom(ts, S, found),
             tables |-> SubSeq(ts, 1, h) \o [k \in 1 .. Len(ts) - h |->
                 LET i == h + k IN
                 IF i \notin S THEN ts[i]
                 ELSE [ts[i] EXCEPT !.free = Append(@, SeenFrom(ts, {j \in S : j < i}, found)),
                                    !.store = Bind(@, found.name, FreeIn(ts, i, found))]]]

=============================================================================
