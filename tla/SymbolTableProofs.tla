------------------------- MODULE SymbolTableProofs --------------------------
(***************************************************************************)
(* Proofs about SymbolTableCalls: for every program, however functions and *)
(* blocks nest, variables of one function have slots of their own that the *)
(* function reserves, and what a function captures is a variable that the  *)
(* code around it can load.                                                *)
(***************************************************************************)
EXTENDS SymbolTableCalls, WellFoundedInduction, NaturalsInduction, TLAPS

-----------------------------------------------------------------------------
(* The operations, field by field                                          *)

Stores == UNION {[D -> Symbols] : D \in SUBSET Name}

\* A store is a function from names to symbols.
LEMMA StoreFacts ==
    ASSUME NEW st \in Stores
    PROVE  DOMAIN st \subseteq Name /\ st \in [DOMAIN st -> Symbols]
<1>1. PICK D \in SUBSET Name : st \in [D -> Symbols]
    BY DEF Stores
<1> QED  BY <1>1

\* The fields of a table.
LEMMA TableFacts ==
    ASSUME NEW t \in Tables
    PROVE  /\ t.store \in Stores /\ t.numDefinitions \in Nat
           /\ t.free \in Seq(Symbols) /\ t.block \in BOOLEAN
           /\ \A x \in DOMAIN t.store : x \in Name /\ t.store[x] \in Symbols
<1>1. /\ t.store \in Stores /\ t.numDefinitions \in Nat
      /\ t.free \in Seq(Symbols) /\ t.block \in BOOLEAN
    BY DEF Tables, Stores
<1> QED  BY <1>1, StoreFacts

\* A table is made of its fields.
LEMMA TableIs ==
    ASSUME NEW st \in Stores, NEW k \in Nat, NEW fr \in Seq(Symbols), NEW b \in BOOLEAN
    PROVE  [store |-> st, numDefinitions |-> k, free |-> fr, block |-> b] \in Tables
BY DEF Tables, Stores

\* The fields that make a block's table out of a new one.
LEMMA AsBlock ==
    ASSUME NEW t \in Tables, NEW k \in Nat, NEW b \in BOOLEAN
    PROVE  LET u == [t EXCEPT !.block = b, !.numDefinitions = k]
           IN  u \in Tables /\ u.store = t.store /\ u.free = t.free /\ u.numDefinitions = k
BY DEF Tables

\* A symbol more, or another one under the name.
LEMMA BindFacts ==
    ASSUME NEW st \in Stores, NEW x \in Name, NEW sym \in Symbols
    PROVE  /\ Bind(st, x, sym) \in Stores
           /\ DOMAIN Bind(st, x, sym) = DOMAIN st \cup {x}
           /\ Bind(st, x, sym)[x] = sym
           /\ \A y \in DOMAIN st : y # x => Bind(st, x, sym)[y] = st[y]
<1>1. DOMAIN st \subseteq Name /\ st \in [DOMAIN st -> Symbols]
    BY StoreFacts
<1>2. Bind(st, x, sym) \in [DOMAIN st \cup {x} -> Symbols]
    BY <1>1 DEF Bind
<1>3. DOMAIN st \cup {x} \in SUBSET Name
    BY <1>1
<1>4. Bind(st, x, sym) \in Stores
    BY <1>2, <1>3 DEF Stores
<1> QED  BY <1>1, <1>4 DEF Bind

\* The innermost table of a set of tables.
LEMMA InnermostFacts ==
    ASSUME NEW n \in Nat, NEW S \in SUBSET (1 .. n), S # {}
    PROVE  Innermost(S) \in S /\ \A j \in S : j <= Innermost(S)
<1> DEFINE Below == {n - i : i \in S}
<1>1. Below \in SUBSET Nat /\ Below # {}
    OBVIOUS
<1>2. \E m \in Below : \A k \in Below : ~(<<k, m>> \in OpToRel(<, Nat))
    <2> HIDE DEF Below
    <2> QED  BY <1>1, NatLessThanWellFounded, WFMin
<1>3. PICK i \in S : \A k \in Below : ~(k < n - i)
    BY <1>1, <1>2 DEF OpToRel
<1>4. \A j \in S : j <= i
    BY <1>3
<1> QED  BY <1>4 DEF Innermost

\* The first h tables and others after them.
LEMMA Widened ==
    ASSUME NEW ts \in Seq(Tables), NEW h \in 0 .. Len(ts), NEW f \in Seq(Tables),
           Len(f) = Len(ts) - h
    PROVE  /\ SubSeq(ts, 1, h) \o f \in Seq(Tables)
           /\ Len(SubSeq(ts, 1, h) \o f) = Len(ts)
           /\ \A i \in 1 .. h : (SubSeq(ts, 1, h) \o f)[i] = ts[i]
           /\ \A i \in h + 1 .. Len(ts) : (SubSeq(ts, 1, h) \o f)[i] = f[i - h]
<1>1. /\ SubSeq(ts, 1, h) \in Seq(Tables) /\ Len(SubSeq(ts, 1, h)) = h
      /\ \A i \in 1 .. h : SubSeq(ts, 1, h)[i] = ts[i]
    OBVIOUS
<1>2. PICK a \in Seq(Tables) : a = SubSeq(ts, 1, h)
    BY <1>1
<1>3. /\ a \o f \in Seq(Tables) /\ Len(a \o f) = Len(a) + Len(f)
      /\ \A i \in 1 .. Len(a) + Len(f) : (a \o f)[i] = IF i <= Len(a) THEN a[i] ELSE f[i - Len(a)]
    OBVIOUS
<1>4. Len(a) = h /\ Len(a) + Len(f) = Len(ts) /\ \A i \in 1 .. h : a[i] = ts[i]
    BY <1>1, <1>2
<1>5. /\ \A i \in 1 .. h : (a \o f)[i] = ts[i]
      /\ \A i \in h + 1 .. Len(ts) : (a \o f)[i] = f[i - h]
    BY <1>3, <1>4
<1> QED  BY <1>2, <1>3, <1>4, <1>5

\* A symbol is put into the innermost table.
LEMMA StoreView ==
    ASSUME NEW ts \in Seq(Tables), Len(ts) > 0, NEW x \in Name, NEW sym \in Symbols
    PROVE  LET T == Store(ts, x, sym)
               n == Len(ts)
           IN  /\ T \in Seq(Tables) /\ Len(T) = n
               /\ \A i \in 1 .. n : i # n => T[i] = ts[i]
               /\ T[n].store = Bind(ts[n].store, x, sym)
               /\ T[n].numDefinitions = ts[n].numDefinitions
               /\ T[n].free = ts[n].free /\ T[n].block = ts[n].block
<1> DEFINE n == Len(ts)
           t == [ts[n] EXCEPT !.store = Bind(@, x, sym)]
<1>1. n \in 1 .. Len(ts) /\ n \in Nat /\ ts[n] \in Tables
    OBVIOUS
<1>2. ts[n].store \in Stores
    BY <1>1, TableFacts
<1>3. Bind(ts[n].store, x, sym) \in Stores
    BY <1>2, BindFacts
<1>4. /\ t \in Tables /\ t.store = Bind(ts[n].store, x, sym)
      /\ t.numDefinitions = ts[n].numDefinitions
      /\ t.free = ts[n].free /\ t.block = ts[n].block
    BY <1>1, <1>3 DEF Tables, Stores
<1>5. Store(ts, x, sym) = [ts EXCEPT ![n] = t]
    BY DEF Store
<1> HIDE DEF t
<1>6. /\ [ts EXCEPT ![n] = t] \in Seq(Tables) /\ Len([ts EXCEPT ![n] = t]) = n
      /\ \A i \in 1 .. n : i # n => [ts EXCEPT ![n] = t][i] = ts[i]
      /\ [ts EXCEPT ![n] = t][n] = t
    BY <1>1, <1>4
<1> QED  BY <1>4, <1>5, <1>6

\* The function's own table.
LEMMA OwnFacts ==
    ASSUME NEW ts \in Seq(Tables), Len(ts) > 0, ~ts[1].block
    PROVE  /\ Own(ts) \in 1 .. Len(ts) /\ ~ts[Own(ts)].block
           /\ \A i \in 1 .. Len(ts) : i > Own(ts) => ts[i].block
<1> DEFINE S == {1} \cup {i \in 1 .. Len(ts) : ~ts[i].block}
<1>1. Len(ts) \in Nat /\ S \in SUBSET (1 .. Len(ts)) /\ S # {}
    OBVIOUS
<1>2. Own(ts) = Innermost(S)
    BY DEF Own
<1>3. Innermost(S) \in S /\ \A j \in S : j <= Innermost(S)
    <2> HIDE DEF S
    <2> QED  BY <1>1, InnermostFacts
<1>4. Own(ts) \in 1 .. Len(ts) /\ ~ts[Own(ts)].block
    BY <1>2, <1>3
<1>5. \A i \in 1 .. Len(ts) : ~ts[i].block => i <= Own(ts)
    BY <1>2, <1>3
<1> HIDE DEF S
<1>6. ASSUME NEW i \in 1 .. Len(ts), i > Own(ts) PROVE ts[i].block
    <2>1. ~(i <= Own(ts))
        BY <1>4, <1>6
    <2> QED  BY <1>5, <2>1
<1> QED  BY <1>4, <1>6

\* DefineMutable and DefineImmutable.
LEMMA DefineView ==
    ASSUME NEW ts \in Seq(Tables), Len(ts) > 0, ~ts[1].block, NEW x \in Name, NEW c \in BOOLEAN
    PROVE  LET T   == Define(ts, x, c).tables
               n   == Len(ts)
               sym == Define(ts, x, c).sym
           IN  /\ T \in Seq(Tables) /\ Len(T) = n /\ sym \in Symbols
               /\ sym.scope = (IF IsGlobalScope(ts) THEN "GLOBAL" ELSE "LOCAL")
               /\ sym.index = ts[n].numDefinitions
               /\ \A i \in 1 .. n :
                     /\ T[i].block = ts[i].block /\ T[i].free = ts[i].free
                     /\ T[i].numDefinitions = IF i < Own(ts) THEN ts[i].numDefinitions
                                              ELSE ts[n].numDefinitions + 1
                     /\ T[i].store = IF i = n THEN Bind(ts[n].store, x, sym) ELSE ts[i].store
<1> DEFINE n    == Len(ts)
           own  == Own(ts)
           used == ts[n].numDefinitions
           sym  == Symbol(x, IF IsGlobalScope(ts) THEN "GLOBAL" ELSE "LOCAL", used, c)
           f    == [k \in 1 .. n - (own - 1) |-> [ts[own - 1 + k] EXCEPT !.numDefinitions = used + 1]]
           D    == SubSeq(ts, 1, own - 1) \o f
<1>1. n \in Nat /\ n \in 1 .. n /\ own \in 1 .. n /\ ts[n] \in Tables
    BY OwnFacts
<1>2. used \in Nat
    BY <1>1, TableFacts
<1>3. /\ sym \in Symbols /\ sym.index = used
      /\ sym.scope = IF IsGlobalScope(ts) THEN "GLOBAL" ELSE "LOCAL"
    BY <1>2 DEF Symbol, Symbols
<1>4. Define(ts, x, c) = [sym |-> sym, tables |-> Store(D, x, sym)]
    BY DEF Define
<1>5. ASSUME NEW k \in 1 .. n - (own - 1)
      PROVE  /\ f[k] \in Tables /\ f[k].numDefinitions = used + 1
             /\ f[k].block = ts[own - 1 + k].block /\ f[k].free = ts[own - 1 + k].free
             /\ f[k].store = ts[own - 1 + k].store
    <2>1. own - 1 + k \in 1 .. n
        BY <1>1
    <2>2. ts[own - 1 + k] \in Tables
        BY <2>1
    <2>3. used + 1 \in Nat
        BY <1>2
    <2>4. f[k] = [ts[own - 1 + k] EXCEPT !.numDefinitions = used + 1]
        OBVIOUS
    <2> HIDE DEF f, used
    <2> QED  BY <2>2, <2>3, <2>4 DEF Tables
<1>6. f \in Seq(Tables) /\ Len(f) = n - (own - 1)
    <2>1. n - (own - 1) \in Nat
        BY <1>1
    <2>2. f \in [1 .. n - (own - 1) -> Tables]
        BY <1>5
    <2> HIDE DEF f
    <2> QED  BY <2>1, <2>2
<1>7. /\ D \in Seq(Tables) /\ Len(D) = n
      /\ \A i \in 1 .. own - 1 : D[i] = ts[i]
      /\ \A i \in own - 1 + 1 .. n : D[i] = f[i - (own - 1)]
    <2>1. own - 1 \in 0 .. Len(ts)
        BY <1>1
    <2> HIDE DEF f, own
    <2> QED  BY <1>6, <2>1, Widened
<1>8. ASSUME NEW i \in 1 .. n
      PROVE  /\ D[i].block = ts[i].block /\ D[i].free = ts[i].free /\ D[i].store = ts[i].store
             /\ D[i].numDefinitions = IF i < own THEN ts[i].numDefinitions ELSE used + 1
    <2>1. CASE i < own
        <3>1. i \in 1 .. own - 1
            BY <1>1, <2>1
        <3> HIDE DEF f, D, own, used
        <3> QED  BY <1>7, <2>1, <3>1
    <2>2. CASE ~(i < own)
        <3>1. i - (own - 1) \in 1 .. n - (own - 1) /\ own - 1 + (i - (own - 1)) = i
            BY <1>1, <2>2
        <3> HIDE DEF f, D, own, used
        <3>2. D[i] = f[i - (own - 1)]
            <4>1. i \in own - 1 + 1 .. n
                BY <1>1, <2>2
            <4> QED  BY <1>7, <4>1
        <3> QED  BY <1>5, <2>2, <3>1, <3>2
    <2> QED  BY <2>1, <2>2
<1> HIDE DEF D, sym, f
<1>9. LET T == Store(D, x, sym)
      IN  /\ T \in Seq(Tables) /\ Len(T) = n
          /\ \A i \in 1 .. n : i # n => T[i] = D[i]
          /\ T[n].store = Bind(D[n].store, x, sym)
          /\ T[n].numDefinitions = D[n].numDefinitions
          /\ T[n].free = D[n].free /\ T[n].block = D[n].block
    BY <1>1, <1>3, <1>7, StoreView
<1> QED  BY <1>1, <1>3, <1>4, <1>8, <1>9

\* A new table inside.
LEMMA EnterView ==
    ASSUME NEW ts \in Seq(Tables), Len(ts) > 0, NEW T,
           T = NewEnclosedSymbolTable(ts) \/ T = NewBlockScopedSymbolTable(ts)
    PROVE  LET n == Len(ts)
           IN  /\ T \in Seq(Tables) /\ Len(T) = n + 1
               /\ \A i \in 1 .. n : T[i] = ts[i]
               /\ DOMAIN T[n + 1].store = {} /\ T[n + 1].free = << >>
               /\ T[n + 1].block => T[n + 1].numDefinitions = ts[n].numDefinitions
<1> DEFINE n == Len(ts)
           t == [NewSymbolTable EXCEPT !.block = TRUE, !.numDefinitions = ts[n].numDefinitions]
<1>1. n \in Nat /\ n \in 1 .. n /\ ts[n] \in Tables
    OBVIOUS
<1>2. ts[n].numDefinitions \in Nat
    BY <1>1, TableFacts
<1>3. << >> \in Stores /\ DOMAIN << >> = {}
    <2>1. << >> \in [{} -> Symbols] /\ {} \in SUBSET Name
        OBVIOUS
    <2> QED  BY <2>1 DEF Stores
<1>4. PICK e : e = << >>
    OBVIOUS
<1>5. e \in Stores /\ e \in Seq(Symbols)
    BY <1>3, <1>4
<1>6. NewSymbolTable = [store |-> e, numDefinitions |-> 0, free |-> e, block |-> FALSE]
    BY <1>4 DEF NewSymbolTable
<1>7. 0 \in Nat /\ TRUE \in BOOLEAN /\ FALSE \in BOOLEAN
    OBVIOUS
<1>8. /\ NewSymbolTable \in Tables /\ NewSymbolTable.store = e
      /\ NewSymbolTable.free = e /\ NewSymbolTable.block = FALSE
    <2>1. NewSymbolTable \in Tables
        BY <1>5, <1>6, <1>7, TableIs, Zenon
    <2> QED  BY <1>6, <2>1
<1>9. /\ t \in Tables /\ t.store = e /\ t.free = e
      /\ t.numDefinitions = ts[n].numDefinitions
    BY <1>2, <1>7, <1>8, AsBlock
<1> HIDE DEF t
<1>10. T = Append(ts, NewSymbolTable) \/ T = Append(ts, t)
    BY DEF NewEnclosedSymbolTable, NewBlockScopedSymbolTable, t
<1>11. ASSUME NEW r \in Tables
      PROVE  /\ Append(ts, r) \in Seq(Tables) /\ Len(Append(ts, r)) = n + 1
             /\ \A i \in 1 .. n : Append(ts, r)[i] = ts[i]
             /\ Append(ts, r)[n + 1] = r
    OBVIOUS
<1> QED  BY <1>3, <1>4, <1>8, <1>9, <1>10, <1>11

\* The innermost table is left.
LEMMA LeaveView ==
    ASSUME NEW ts \in Seq(Tables), Len(ts) > 1
    PROVE  /\ Outer(ts) \in Seq(Tables) /\ Len(Outer(ts)) = Len(ts) - 1
           /\ \A i \in 1 .. Len(ts) - 1 : Outer(ts)[i] = ts[i]
BY DEF Outer

\* The symbols that Resolve makes keep the name of the definition.
LEMMA SeenFacts ==
    ASSUME NEW ts \in Seq(Tables), NEW found \in Symbols, NEW S \in SUBSET (1 .. Len(ts))
    PROVE  /\ SeenFrom(ts, S, found) \in Symbols /\ SeenFrom(ts, S, found).name = found.name
           /\ \A i \in 1 .. Len(ts) :
                 /\ FreeIn(ts, i, found) \in Symbols /\ FreeIn(ts, i, found).name = found.name
                 /\ FreeIn(ts, i, found).scope = "FREE"
                 /\ FreeIn(ts, i, found).index = Len(ts[i].free) /\ Len(ts[i].free) \in Nat
<1>1. ASSUME NEW i \in 1 .. Len(ts)
      PROVE  /\ FreeIn(ts, i, found) \in Symbols /\ FreeIn(ts, i, found).name = found.name
             /\ FreeIn(ts, i, found).scope = "FREE"
             /\ FreeIn(ts, i, found).index = Len(ts[i].free) /\ Len(ts[i].free) \in Nat
    <2>1. ts[i].free \in Seq(Symbols)
        BY TableFacts
    <2>2. Len(ts[i].free) \in Nat
        BY <2>1
    <2>3. PICK k : k = Len(ts[i].free)
        OBVIOUS
    <2>4. k \in Nat
        BY <2>2, <2>3
    <2>5. FreeIn(ts, i, found) = [name |-> found.name, scope |-> "FREE", index |-> k,
                                  constant |-> found.constant]
        BY <2>3 DEF FreeIn, Symbol
    <2>6. found.name \in Name /\ found.constant \in BOOLEAN
        BY DEF Symbols
    <2> QED  BY <2>3, <2>4, <2>5, <2>6 DEF Symbols
<1>2. CASE S = {}
    BY <1>1, <1>2 DEF SeenFrom
<1>3. CASE S # {}
    <2>1. Innermost(S) \in 1 .. Len(ts)
        <3>1. Len(ts) \in Nat
            OBVIOUS
        <3> QED  BY <1>3, <3>1, InnermostFacts
    <2> QED  BY <1>1, <1>3, <2>1 DEF SeenFrom
<1> QED  BY <1>2, <1>3

\* The tables T that Resolve makes of ts when x is known in table h as found,
\* and the functions S capture it.
Resolved(ts, x, h, found, S, T) ==
    /\ h \in 1 .. Len(ts) /\ x \in DOMAIN ts[h].store /\ found \in Symbols
    /\ S \in SUBSET (1 .. Len(ts)) /\ \A i \in S : h < i /\ ~ts[i].block
    /\ Resolve(ts, x).sym = SeenFrom(ts, S, found)
    /\ T \in Seq(Tables) /\ Len(T) = Len(ts)
    /\ \A i \in 1 .. Len(ts) :
          /\ T[i].block = ts[i].block /\ T[i].numDefinitions = ts[i].numDefinitions
          /\ i \notin S => T[i] = ts[i]
          /\ i \in S => /\ T[i].free = Append(ts[i].free, SeenFrom(ts, {j \in S : j < i}, found))
                        /\ T[i].store = Bind(ts[i].store, found.name, FreeIn(ts, i, found))

\* Resolve of a name that some table knows.
LEMMA ResolveView ==
    ASSUME NEW ts \in Seq(Tables), NEW x \in Name, Holders(ts, x) # {},
           NEW h, h = Innermost(Holders(ts, x)), NEW found, found = ts[h].store[x],
           NEW S, S = Crossed(ts, h, found), NEW T, T = Resolve(ts, x).tables
    PROVE  Resolved(ts, x, h, found, S, T)
<1> DEFINE n == Len(ts)
           G(i) == IF i \notin S THEN ts[i]
                   ELSE [ts[i] EXCEPT !.free = Append(@, SeenFrom(ts, {j \in S : j < i}, found)),
                                      !.store = Bind(@, found.name, FreeIn(ts, i, found))]
           f == [k \in 1 .. n - h |-> G(h + k)]
<1>1. h \in 1 .. n /\ x \in DOMAIN ts[h].store
    <2>1. Len(ts) \in Nat /\ Holders(ts, x) \in SUBSET (1 .. Len(ts))
        BY DEF Holders
    <2>2. h \in Holders(ts, x)
        BY <2>1, InnermostFacts
    <2> QED  BY <2>2 DEF Holders
<1>2. found \in Symbols
    BY <1>1, TableFacts
<1>3. S \in SUBSET (1 .. n) /\ \A i \in S : h < i /\ ~ts[i].block
    BY <1>1 DEF Crossed
<1>4. ASSUME NEW i \in 1 .. n
      PROVE  /\ G(i) \in Tables
             /\ G(i).block = ts[i].block /\ G(i).numDefinitions = ts[i].numDefinitions
             /\ i \notin S => G(i) = ts[i]
             /\ i \in S => /\ G(i).free = Append(ts[i].free, SeenFrom(ts, {j \in S : j < i}, found))
                           /\ G(i).store = Bind(ts[i].store, found.name, FreeIn(ts, i, found))
    <2>1. ts[i] \in Tables
        OBVIOUS
    <2>2. CASE i \notin S
        BY <2>1, <2>2
    <2>3. CASE i \in S
        <3>1. PICK sn, st : /\ sn = Append(ts[i].free, SeenFrom(ts, {j \in S : j < i}, found))
                            /\ st = Bind(ts[i].store, found.name, FreeIn(ts, i, found))
            OBVIOUS
        <3>2. {j \in S : j < i} \in SUBSET (1 .. Len(ts))
            BY <1>3
        <3>3. SeenFrom(ts, {j \in S : j < i}, found) \in Symbols /\ FreeIn(ts, i, found) \in Symbols
            BY <1>2, <3>2, SeenFacts
        <3>4. ts[i].free \in Seq(Symbols) /\ ts[i].store \in Stores /\ found.name \in Name
            BY <1>2, <2>1, TableFacts DEF Symbols
        <3>5. sn \in Seq(Symbols)
            BY <3>1, <3>3, <3>4
        <3>6. st \in Stores
            BY <3>1, <3>3, <3>4, BindFacts
        <3>7. G(i) = [ts[i] EXCEPT !.free = sn, !.store = st]
            BY <2>3, <3>1
        <3> HIDE DEF G
        <3> QED  BY <2>1, <2>3, <3>1, <3>5, <3>6, <3>7 DEF Tables, Stores
    <2> QED  BY <2>2, <2>3
<1>5. ASSUME NEW k \in 1 .. n - h PROVE f[k] = G(h + k) /\ h + k \in 1 .. n
    BY <1>1
<1> HIDE DEF G
<1>6. f \in Seq(Tables) /\ Len(f) = n - h
    <2>1. n - h \in Nat
        BY <1>1
    <2>2. f \in [1 .. n - h -> Tables]
        BY <1>4, <1>5
    <2> HIDE DEF f
    <2> QED  BY <2>1, <2>2
<1>7. /\ Resolve(ts, x).sym = SeenFrom(ts, S, found)
      /\ T = SubSeq(ts, 1, h) \o f
    BY DEF Resolve, G
<1>8. /\ T \in Seq(Tables) /\ Len(T) = n
      /\ \A i \in 1 .. h : T[i] = ts[i]
      /\ \A i \in h + 1 .. n : T[i] = f[i - h]
    <2>1. h \in 0 .. Len(ts)
        BY <1>1
    <2> HIDE DEF f
    <2>2. /\ SubSeq(ts, 1, h) \o f \in Seq(Tables)
          /\ Len(SubSeq(ts, 1, h) \o f) = Len(ts)
          /\ \A i \in 1 .. h : (SubSeq(ts, 1, h) \o f)[i] = ts[i]
          /\ \A i \in h + 1 .. Len(ts) : (SubSeq(ts, 1, h) \o f)[i] = f[i - h]
        BY <1>6, <2>1, Widened
    <2> QED  BY <1>7, <2>2, Zenon
<1>9. ASSUME NEW i \in 1 .. n PROVE T[i] = G(i)
    <2>1. CASE i <= h
        <3>1. i \notin S /\ i \in 1 .. h
            BY <1>1, <1>3, <2>1
        <3> QED  BY <1>4, <1>8, <3>1
    <2>2. CASE ~(i <= h)
        <3>1. i \in h + 1 .. n /\ i - h \in 1 .. n - h /\ h + (i - h) = i
            BY <1>1, <2>2
        <3> HIDE DEF f
        <3> QED  BY <1>5, <1>8, <3>1
    <2> QED  BY <2>1, <2>2
<1>10. \A i \in 1 .. n :
         /\ T[i].block = ts[i].block /\ T[i].numDefinitions = ts[i].numDefinitions
         /\ i \notin S => T[i] = ts[i]
         /\ i \in S => /\ T[i].free = Append(ts[i].free, SeenFrom(ts, {j \in S : j < i}, found))
                       /\ T[i].store = Bind(ts[i].store, found.name, FreeIn(ts, i, found))
    BY <1>4, <1>9, Zenon
<1> HIDE DEF f
<1> QED  BY <1>1, <1>2, <1>3, <1>7, <1>8, <1>10, Zenon DEF Resolved

-----------------------------------------------------------------------------
(* What a step may do to the tables                                        *)

\* The fields of the tables of a chain have their types.
LEMMA ChainFacts ==
    ASSUME NEW ts \in Seq(Tables)
    PROVE  /\ Len(ts) \in Nat /\ DOMAIN ts = 1 .. Len(ts)
           /\ \A i \in 1 .. Len(ts) :
                 /\ ts[i].numDefinitions \in Nat /\ ts[i].block \in BOOLEAN
                 /\ ts[i].store \in Stores
                 /\ ts[i].free \in Seq(Symbols) /\ Len(ts[i].free) \in Nat
                 /\ DOMAIN ts[i].free = 1 .. Len(ts[i].free)
                 /\ \A x \in DOMAIN ts[i].store : x \in Name /\ ts[i].store[x] \in Symbols
<1>2. Len(ts) \in Nat /\ DOMAIN ts = 1 .. Len(ts)
    OBVIOUS
<1>3. ASSUME NEW i \in 1 .. Len(ts)
      PROVE  /\ ts[i].numDefinitions \in Nat /\ ts[i].block \in BOOLEAN
             /\ ts[i].store \in Stores
             /\ ts[i].free \in Seq(Symbols) /\ Len(ts[i].free) \in Nat
             /\ DOMAIN ts[i].free = 1 .. Len(ts[i].free)
             /\ \A x \in DOMAIN ts[i].store : x \in Name /\ ts[i].store[x] \in Symbols
    <2>1. PICK t : t = ts[i]
        OBVIOUS
    <2>2. t \in Tables
        BY <2>1
    <2>3. /\ t.store \in Stores /\ t.numDefinitions \in Nat
          /\ t.free \in Seq(Symbols) /\ t.block \in BOOLEAN
          /\ \A x \in DOMAIN t.store : x \in Name /\ t.store[x] \in Symbols
        BY <2>2, TableFacts
    <2>4. Len(t.free) \in Nat /\ DOMAIN t.free = 1 .. Len(t.free)
        BY <2>3
    <2> QED  BY <2>1, <2>3, <2>4, Zenon
<1> QED  BY <1>2, <1>3

\* So have those of the program's tables.
LEMMA Fields ==
    ASSUME TypeOK
    PROVE  /\ Len(tables) \in Nat /\ DOMAIN tables = 1 .. Len(tables)
           /\ \A i \in 1 .. Len(tables) :
                 /\ tables[i].numDefinitions \in Nat /\ tables[i].block \in BOOLEAN
                 /\ tables[i].store \in Stores
                 /\ tables[i].free \in Seq(Symbols) /\ Len(tables[i].free) \in Nat
                 /\ DOMAIN tables[i].free = 1 .. Len(tables[i].free)
                 /\ \A x \in DOMAIN tables[i].store : x \in Name /\ tables[i].store[x] \in Symbols
BY ChainFacts DEF TypeOK

\* The same after the step.
LEMMA FieldsNext ==
    ASSUME TypeOK'
    PROVE  /\ Len(tables') \in Nat /\ DOMAIN tables' = 1 .. Len(tables')
           /\ \A i \in 1 .. Len(tables') :
                 /\ tables'[i].numDefinitions \in Nat /\ tables'[i].block \in BOOLEAN
                 /\ tables'[i].store \in Stores
                 /\ tables'[i].free \in Seq(Symbols) /\ Len(tables'[i].free) \in Nat
                 /\ DOMAIN tables'[i].free = 1 .. Len(tables'[i].free)
                 /\ \A x \in DOMAIN tables'[i].store : x \in Name /\ tables'[i].store[x] \in Symbols
BY ChainFacts DEF TypeOK

\* The first k tables stay where they are; they only grow.
Grown(k) ==
    /\ k \in 0 .. Len(tables) /\ k <= Len(tables')
    /\ \A m \in 1 .. k :
          /\ tables'[m].block = tables[m].block
          /\ tables[m].numDefinitions <= tables'[m].numDefinitions
          /\ \A q \in DOMAIN tables[m].free : /\ q \in DOMAIN tables'[m].free
                                              /\ tables'[m].free[q] = tables[m].free[q]

\* Which tables belong together does not change.
LEMMA Shape ==
    ASSUME TypeOK, TypeOK', NEW k, Grown(k)
    PROVE  /\ \A i, j \in 1 .. k : Together(i, j)' <=> Together(i, j)
           /\ \A i \in 1 .. k : InFunction(i)' <=> InFunction(i)
<1>1. k \in Nat /\ \A m \in 1 .. k : tables'[m].block = tables[m].block
    BY Fields DEF Grown
<1>2. ASSUME NEW i \in 1 .. k, NEW j \in 1 .. k PROVE Together(i, j)' <=> Together(i, j)
    <2>1. \A m \in i + 1 .. j : m \in 1 .. k
        BY <1>1
    <2> QED  BY <1>1, <2>1 DEF Together
<1>3. ASSUME NEW i \in 1 .. k PROVE InFunction(i)' <=> InFunction(i)
    <2>1. \A m \in 2 .. i : m \in 1 .. k
        BY <1>1
    <2> QED  BY <1>1, <2>1 DEF InFunction
<1> QED  BY <1>2, <1>3

\* A symbol that could be loaded still can.
LEMMA LoadableStays ==
    ASSUME TypeOK, TypeOK', NEW k, Grown(k), NEW i \in 1 .. k, NEW sym, Loadable(i, sym)
    PROVE  Loadable(i, sym)'
<1>0. k \in Nat /\ k <= Len(tables) /\ k <= Len(tables') /\ i \in 1 .. Len(tables)
    BY Fields DEF Grown
<1>1. Len(tables') \in Nat /\ DOMAIN tables' = 1 .. Len(tables')
    BY FieldsNext
<1>2. CASE sym.scope \in {"GLOBAL", "BUILTIN"}
    BY <1>2 DEF Loadable
<1>3. CASE sym.scope = "FUNCTION" /\ InFunction(i)
    BY <1>3, Shape DEF Loadable
<1>4. CASE /\ sym.scope = "LOCAL" /\ InFunction(i)
           /\ sym.index \in Nat /\ sym.index < tables[i].numDefinitions
    <2>1. tables[i].numDefinitions \in Nat /\ tables[i].numDefinitions <= tables'[i].numDefinitions
        BY <1>0, Fields DEF Grown
    <2>2. (tables[i].numDefinitions \in Nat)'
        <3>1. i \in 1 .. Len(tables')
            BY <1>0, <1>1
        <3> QED  BY <3>1, FieldsNext
    <2>3. sym.index < tables'[i].numDefinitions
        BY <1>4, <2>1, <2>2
    <2> QED  BY <1>4, <2>3, Shape DEF Loadable
<1>5. ASSUME NEW j \in DOMAIN tables, sym.scope = "FREE", Together(j, i), ~tables[j].block,
             sym.index \in Nat, sym.index < Len(tables[j].free),
             tables[j].free[sym.index + 1].name = sym.name
      PROVE  Loadable(i, sym)'
    <2>1. j \in 1 .. k
        BY <1>0, <1>5, Fields DEF Together
    <2>2. Together(j, i)' /\ ~tables'[j].block
        BY <1>5, <2>1, Shape DEF Grown
    <2>3. sym.index + 1 \in DOMAIN tables[j].free
        BY <1>0, <1>5, <2>1, Fields
    <2>4. /\ sym.index + 1 \in DOMAIN tables'[j].free
          /\ tables'[j].free[sym.index + 1] = tables[j].free[sym.index + 1]
        BY <2>1, <2>3 DEF Grown
    <2>5. j \in 1 .. Len(tables')
        BY <1>0, <1>1, <2>1
    <2>6. sym.index < Len(tables'[j].free)
        <3>1. Len(tables'[j].free) \in Nat /\ DOMAIN tables'[j].free = 1 .. Len(tables'[j].free)
            BY <2>5, FieldsNext
        <3> QED  BY <1>5, <2>4, <3>1
    <2> QED  BY <1>1, <1>5, <2>2, <2>4, <2>5, <2>6 DEF Loadable
<1> QED  BY <1>2, <1>3, <1>4, <1>5 DEF Loadable

\* The two parts of SlotsReserved.
CountsAgree ==
    \A i, j \in DOMAIN tables :
        Together(i, j) => tables[i].numDefinitions = tables[j].numDefinitions

SlotsCounted ==
    \A i \in DOMAIN tables : \A x \in DOMAIN tables[i].store :
        IsSlot(tables[i].store[x]) =>
            /\ tables[i].store[x].index \in Nat
            /\ tables[i].store[x].index < tables[i].numDefinitions
            /\ tables[i].store[x].scope = "LOCAL" <=> InFunction(i)

\* The step gives no new slot: a slot of a table was one before.
NoNewSlot(k) ==
    \A i \in DOMAIN tables' : \A y \in DOMAIN tables'[i].store :
        IsSlot(tables'[i].store[y]) =>
            i \in 1 .. k /\ \E x \in DOMAIN tables[i].store : tables[i].store[x] = tables'[i].store[y]

\* A step that gives no new slot keeps the slots counted and distinct.
LEMMA SlotsStay ==
    ASSUME TypeOK, TypeOK', SlotsCounted, SlotsDistinct, NEW k, Grown(k), NoNewSlot(k)
    PROVE  SlotsCounted' /\ SlotsDistinct'
<1>0. /\ Len(tables) \in Nat /\ DOMAIN tables = 1 .. Len(tables)
      /\ k \in Nat /\ k <= Len(tables)
    BY Fields DEF Grown
<1>1. ASSUME NEW i \in DOMAIN tables', NEW y \in DOMAIN tables'[i].store, IsSlot(tables'[i].store[y])
      PROVE  /\ tables'[i].store[y].index \in Nat
             /\ tables'[i].store[y].index < tables'[i].numDefinitions
             /\ tables'[i].store[y].scope = "LOCAL" <=> InFunction(i)'
    <2>1. i \in 1 .. k /\ \E x \in DOMAIN tables[i].store : tables[i].store[x] = tables'[i].store[y]
        BY <1>1 DEF NoNewSlot
    <2>2. PICK x \in DOMAIN tables[i].store : tables[i].store[x] = tables'[i].store[y]
        BY <2>1
    <2>3. i \in DOMAIN tables
        BY <1>0, <2>1
    <2>4. /\ tables[i].store[x].index \in Nat
          /\ tables[i].store[x].index < tables[i].numDefinitions
          /\ tables[i].store[x].scope = "LOCAL" <=> InFunction(i)
        BY <1>1, <2>2, <2>3 DEF SlotsCounted
    <2>5. /\ tables[i].numDefinitions \in Nat /\ tables'[i].numDefinitions \in Nat
          /\ tables[i].numDefinitions <= tables'[i].numDefinitions
        BY <1>0, <2>1, <2>3, Fields, FieldsNext DEF Grown
    <2>6. tables[i].store[x].index < tables'[i].numDefinitions
        BY <2>4, <2>5
    <2> QED  BY <2>1, <2>2, <2>4, <2>6, Shape
<1>2. SlotsCounted'
    BY <1>1 DEF SlotsCounted
<1>3. ASSUME NEW i \in DOMAIN tables', NEW j \in DOMAIN tables', Together(i, j)',
             NEW x \in DOMAIN tables'[i].store, NEW y \in DOMAIN tables'[j].store,
             IsSlot(tables'[i].store[x]), IsSlot(tables'[j].store[y]),
             tables'[i].store[x].index = tables'[j].store[y].index
      PROVE  i = j /\ tables'[i].store[x] = tables'[j].store[y]
    <2>1. i \in 1 .. k /\ \E u \in DOMAIN tables[i].store : tables[i].store[u] = tables'[i].store[x]
        BY <1>3 DEF NoNewSlot
    <2>2. j \in 1 .. k /\ \E v \in DOMAIN tables[j].store : tables[j].store[v] = tables'[j].store[y]
        BY <1>3 DEF NoNewSlot
    <2>3. PICK u \in DOMAIN tables[i].store : tables[i].store[u] = tables'[i].store[x]
        BY <2>1
    <2>4. PICK v \in DOMAIN tables[j].store : tables[j].store[v] = tables'[j].store[y]
        BY <2>2
    <2>5. i \in DOMAIN tables /\ j \in DOMAIN tables /\ Together(i, j)
        BY <1>0, <1>3, <2>1, <2>2, Shape
    <2> QED  BY <1>3, <2>3, <2>4, <2>5 DEF SlotsDistinct
<1>4. SlotsDistinct'
    BY <1>3 DEF SlotsDistinct
<1> QED  BY <1>2, <1>4

\* The symbols and captures after the step are those before it, or can be
\* loaded.
StillLoadable(k) ==
    \A i \in DOMAIN tables' :
        /\ \A y \in DOMAIN tables'[i].store :
              \/ i \in 1 .. k /\ \E x \in DOMAIN tables[i].store : tables[i].store[x] = tables'[i].store[y]
              \/ Loadable(i, tables[i].store[y])'
        /\ \A q \in DOMAIN tables'[i].free :
              \/ i \in 1 .. k /\ q \in DOMAIN tables[i].free
              \/ /\ ~tables'[i].block /\ tables'[i].free[q].scope \in {"LOCAL", "FREE", "FUNCTION"}
                 /\ Loadable(i - 1, tables[i].free[q])'

\* Such a step keeps the captures right.
LEMMA CapturesStay ==
    ASSUME TypeOK, TypeOK', CapturesRight, NEW k, Grown(k), StillLoadable(k)
    PROVE  CapturesRight'
<1>0. /\ Len(tables) \in Nat /\ DOMAIN tables = 1 .. Len(tables)
      /\ k \in Nat /\ k <= Len(tables)
    BY Fields DEF Grown
<1>1. ASSUME NEW i \in DOMAIN tables', NEW y \in DOMAIN tables'[i].store
      PROVE  Loadable(i, tables[i].store[y])'
    <2>1. CASE i \in 1 .. k /\ \E x \in DOMAIN tables[i].store : tables[i].store[x] = tables'[i].store[y]
        <3>1. PICK x \in DOMAIN tables[i].store : tables[i].store[x] = tables'[i].store[y]
            BY <2>1
        <3>2. Loadable(i, tables[i].store[x])
            BY <1>0, <2>1 DEF CapturesRight
        <3>3. PICK sym : sym = tables[i].store[x]
            OBVIOUS
        <3>4. Loadable(i, sym)'
            BY <2>1, <3>2, <3>3, LoadableStays
        <3> QED  BY <3>1, <3>3, <3>4 DEF Loadable
    <2> QED  BY <2>1 DEF StillLoadable
<1>2. ASSUME NEW i \in DOMAIN tables', NEW q \in DOMAIN tables'[i].free
      PROVE  /\ ~tables'[i].block /\ tables'[i].free[q].scope \in {"LOCAL", "FREE", "FUNCTION"}
             /\ Loadable(i - 1, tables[i].free[q])'
    <2>1. CASE i \in 1 .. k /\ q \in DOMAIN tables[i].free
        <3>1. /\ ~tables[i].block /\ tables[i].free[q].scope \in {"LOCAL", "FREE", "FUNCTION"}
              /\ Loadable(i - 1, tables[i].free[q])
            BY <1>0, <2>1 DEF CapturesRight
        <3>2. tables'[i].block = tables[i].block /\ tables'[i].free[q] = tables[i].free[q]
            BY <2>1 DEF Grown
        <3>3. i - 1 \in 1 .. k
            <4>1. i # 1
                BY <2>1 DEF TypeOK
            <4> QED  BY <1>0, <2>1, <4>1
        <3>4. PICK sym : sym = tables[i].free[q]
            OBVIOUS
        <3>5. Loadable(i - 1, sym)'
            BY <3>1, <3>3, <3>4, LoadableStays
        <3> QED  BY <3>1, <3>2, <3>4, <3>5 DEF Loadable
    <2> QED  BY <2>1 DEF StillLoadable
<1> QED  BY <1>1, <1>2 DEF CapturesRight

-----------------------------------------------------------------------------
(* The steps                                                               *)

\* The inductive invariant.
TablesInv == TypeOK /\ CountsAgree /\ SlotsCounted /\ SlotsDistinct /\ CapturesRight

\* The counts of tables that stay and do not change agree.
LEMMA CountsStay ==
    ASSUME TablesInv, TypeOK', NEW k, Grown(k),
           \A m \in 1 .. k : tables'[m].numDefinitions = tables[m].numDefinitions
    PROVE  \A i, j \in 1 .. k :
               Together(i, j)' => tables'[i].numDefinitions = tables'[j].numDefinitions
<1>1. DOMAIN tables = 1 .. Len(tables) /\ Len(tables) \in Nat /\ k \in Nat /\ k <= Len(tables)
    BY Fields DEF Grown, TablesInv
<1>2. ASSUME NEW i \in 1 .. k, NEW j \in 1 .. k, Together(i, j)'
      PROVE  tables'[i].numDefinitions = tables'[j].numDefinitions
    <2>1. i \in DOMAIN tables /\ j \in DOMAIN tables
        BY <1>1
    <2>2. Together(i, j)
        BY <1>2, Shape DEF TablesInv
    <2> QED  BY <2>1, <2>2 DEF TablesInv, CountsAgree
<1> QED  BY <1>2

\* enterScope and pushBlockScope.
LEMMA EnterStep ==
    ASSUME TablesInv, EnterFunction \/ EnterBlock
    PROVE  TablesInv'
<1>0. PICK n : n = Len(tables)
    OBVIOUS
<1>1. tables \in Seq(Tables) /\ n > 0 /\ n \in Nat /\ DOMAIN tables = 1 .. n
    BY <1>0, Fields DEF TablesInv, TypeOK
<1>2. /\ tables' \in Seq(Tables) /\ Len(tables') = n + 1
      /\ \A i \in 1 .. n : tables'[i] = tables[i]
      /\ DOMAIN tables'[n + 1].store = {} /\ tables'[n + 1].free = << >>
      /\ tables'[n + 1].block => tables'[n + 1].numDefinitions = tables[n].numDefinitions
    BY <1>0, <1>1, EnterView DEF EnterFunction, EnterBlock
<1>3. TypeOK'
    <2>1. 1 \in 1 .. n
        BY <1>1
    <2>2. Len(tables') > 0 /\ tables'[1] = tables[1]
        BY <1>1, <1>2, <2>1
    <2> QED  BY <1>2, <2>2 DEF TablesInv, TypeOK
<1>4. DOMAIN tables' = 1 .. n + 1
    BY <1>2, <1>3, FieldsNext
<1>5. Grown(n)
    <2>1. n \in 0 .. n /\ n <= Len(tables')
        BY <1>1, <1>2
    <2>2. \A m \in 1 .. n : tables[m].numDefinitions <= tables[m].numDefinitions
        BY <1>0, Fields DEF TablesInv
    <2> QED  BY <1>0, <1>2, <2>1, <2>2 DEF Grown
<1>6. NoNewSlot(n) /\ StillLoadable(n)
    <2>1. \A i \in 1 .. n + 1 : i \in 1 .. n \/ i = n + 1
        BY <1>1
    <2>2. DOMAIN tables'[n + 1].free = {}
        BY <1>2
    <2> QED  BY <1>2, <1>4, <2>1, <2>2 DEF NoNewSlot, StillLoadable
<1>7. CountsAgree'
    <2>1. ASSUME NEW i \in 1 .. n + 1, NEW j \in 1 .. n + 1, Together(i, j)'
          PROVE  tables'[i].numDefinitions = tables'[j].numDefinitions
        <3>1. \A a, b \in 1 .. n :
                  Together(a, b)' => tables'[a].numDefinitions = tables'[b].numDefinitions
            BY <1>2, <1>3, <1>5, CountsStay
        <3>2. CASE j \in 1 .. n
            <4>1. i \in 1 .. n
                BY <1>1, <2>1, <3>2 DEF Together
            <4> QED  BY <2>1, <3>1, <3>2, <4>1
        <3>3. CASE j = n + 1 /\ i = n + 1
            BY <3>3
        <3>4. CASE j = n + 1 /\ i \in 1 .. n
            <4>1. \A m \in i + 1 .. n + 1 : tables'[m].block
                BY <2>1, <3>4 DEF Together
            <4>2. tables'[n + 1].block
                BY <1>1, <3>4, <4>1
            <4>3. Together(i, n)'
                BY <1>1, <3>4, <4>1 DEF Together
            <4>4. tables'[i].numDefinitions = tables'[n].numDefinitions
                BY <1>1, <3>1, <3>4, <4>3
            <4>5. tables'[n] = tables[n]
                BY <1>1, <1>2
            <4> QED  BY <1>2, <3>4, <4>2, <4>4, <4>5
        <3> QED  BY <1>1, <3>2, <3>3, <3>4
    <2> QED  BY <1>4, <2>1 DEF CountsAgree
<1>8. SlotsCounted' /\ SlotsDistinct' /\ CapturesRight'
    BY <1>3, <1>5, <1>6, SlotsStay, CapturesStay DEF TablesInv
<1> QED  BY <1>3, <1>7, <1>8 DEF TablesInv

\* leaveScope and popBlockScope.
LEMMA LeaveStep ==
    ASSUME TablesInv, Leave
    PROVE  TablesInv'
<1> DEFINE k == Len(tables) - 1
<1>1. /\ tables \in Seq(Tables) /\ Len(tables) \in Nat /\ Len(tables) > 1
      /\ DOMAIN tables = 1 .. Len(tables)
    BY Fields DEF TablesInv, TypeOK, Leave
<1>2. /\ tables' \in Seq(Tables) /\ Len(tables') = k
      /\ \A i \in 1 .. k : tables'[i] = tables[i]
    BY <1>1, LeaveView DEF Leave
<1>3. TypeOK'
    <2>1. 1 \in 1 .. k
        BY <1>1
    <2>2. Len(tables') > 0 /\ tables'[1] = tables[1]
        BY <1>1, <1>2, <2>1
    <2> QED  BY <1>2, <2>2 DEF TablesInv, TypeOK
<1>4. DOMAIN tables' = 1 .. k
    BY <1>2, <1>3, FieldsNext
<1>5. Grown(k)
    <2>1. k \in 0 .. Len(tables) /\ k <= Len(tables') /\ \A m \in 1 .. k : m \in 1 .. Len(tables)
        BY <1>1, <1>2
    <2>2. \A m \in 1 .. k : tables[m].numDefinitions <= tables[m].numDefinitions
        BY <2>1, Fields DEF TablesInv
    <2> QED  BY <1>2, <2>1, <2>2 DEF Grown
<1>6. NoNewSlot(k) /\ StillLoadable(k)
    <2> HIDE DEF k
    <2> QED  BY <1>2, <1>4 DEF NoNewSlot, StillLoadable
<1>7. CountsAgree'
    <2>1. \A m \in 1 .. k : tables'[m].numDefinitions = tables[m].numDefinitions
        BY <1>2
    <2> HIDE DEF k
    <2> QED  BY <1>3, <1>4, <1>5, <2>1, CountsStay DEF CountsAgree
<1>8. SlotsCounted' /\ SlotsDistinct' /\ CapturesRight'
    BY <1>3, <1>5, <1>6, SlotsStay, CapturesStay DEF TablesInv
<1> QED  BY <1>3, <1>7, <1>8 DEF TablesInv

\* A name more for a symbol of the current table, or a symbol without slot.
LEMMA StoreStep ==
    ASSUME TablesInv, NEW y \in Name, NEW sym \in Symbols, tables' = Store(tables, y, sym),
           \/ \E x \in DOMAIN Current.store : Current.store[x] = sym
           \/ ~IsSlot(sym) /\ Loadable(Len(tables), sym)
    PROVE  TablesInv'
<1>0. PICK n : n = Len(tables)
    OBVIOUS
<1>1. /\ tables \in Seq(Tables) /\ n > 0 /\ n \in Nat /\ DOMAIN tables = 1 .. n
      /\ n \in 1 .. n /\ 1 \in 1 .. n
    BY <1>0, Fields DEF TablesInv, TypeOK
<1>2. /\ tables' \in Seq(Tables) /\ Len(tables') = n
      /\ \A i \in 1 .. n : i # n => tables'[i] = tables[i]
      /\ tables'[n].store = Bind(tables[n].store, y, sym)
      /\ tables'[n].numDefinitions = tables[n].numDefinitions
      /\ tables'[n].free = tables[n].free /\ tables'[n].block = tables[n].block
    BY <1>0, <1>1, StoreView
<1>3. \A i \in 1 .. n : /\ tables'[i].numDefinitions = tables[i].numDefinitions
                        /\ tables'[i].free = tables[i].free /\ tables'[i].block = tables[i].block
    BY <1>2
<1>4. TypeOK'
    BY <1>1, <1>2, <1>3 DEF TablesInv, TypeOK
<1>5. DOMAIN tables' = 1 .. n
    BY <1>2, <1>4, FieldsNext
<1>6. Grown(n)
    <2>1. n \in 0 .. n /\ n <= Len(tables')
        BY <1>1, <1>2
    <2>2. \A m \in 1 .. n : tables[m].numDefinitions <= tables[m].numDefinitions
        BY <1>0, Fields DEF TablesInv
    <2> QED  BY <1>0, <1>3, <2>1, <2>2 DEF Grown
<1>7. tables[n].store \in Stores
    BY <1>0, <1>1, Fields DEF TablesInv
<1>8. ASSUME NEW i \in 1 .. n, NEW z \in DOMAIN tables'[i].store
      PROVE  \/ \E x \in DOMAIN tables[i].store : tables[i].store[x] = tables'[i].store[z]
             \/ i = n /\ tables'[i].store[z] = sym
    <2>1. CASE i # n
        BY <1>2, <2>1
    <2>2. CASE i = n
        <3>1. \A v \in DOMAIN tables'[n].store :
                  \/ v \in DOMAIN tables[n].store /\ tables'[n].store[v] = tables[n].store[v]
                  \/ tables'[n].store[v] = sym
            <4>1. PICK st, r : st = tables[n].store /\ r = tables'[n].store
                OBVIOUS
            <4>2. r = Bind(st, y, sym)
                BY <1>2, <4>1
            <4>3. \A v \in DOMAIN r : (v \in DOMAIN st /\ r[v] = st[v]) \/ r[v] = sym
                BY <4>2 DEF Bind
            <4> QED  BY <4>1, <4>3
        <3> QED  BY <2>2, <3>1
    <2> QED  BY <2>1, <2>2
<1>9. \/ \E x \in DOMAIN tables[n].store : tables[n].store[x] = sym
      \/ ~IsSlot(sym) /\ Loadable(n, sym)
    BY <1>0 DEF Current
<1>10. NoNewSlot(n)
    BY <1>5, <1>8, <1>9 DEF NoNewSlot
<1>11. StillLoadable(n)
    <2>1. ASSUME NEW i \in 1 .. n, NEW z \in DOMAIN tables'[i].store
          PROVE  \/ \E x \in DOMAIN tables[i].store : tables[i].store[x] = tables'[i].store[z]
                 \/ Loadable(i, tables[i].store[z])'
        <3>1. CASE i = n /\ tables'[i].store[z] = sym /\ Loadable(n, sym)
            <4>1. Loadable(n, sym)'
                BY <1>1, <1>4, <1>6, <3>1, LoadableStays DEF TablesInv
            <4> QED  BY <3>1, <4>1 DEF Loadable
        <3> QED  BY <1>8, <1>9, <3>1
    <2> QED  BY <1>3, <1>5, <2>1 DEF StillLoadable
<1>12. CountsAgree'
    BY <1>3, <1>4, <1>5, <1>6, CountsStay DEF CountsAgree
<1>13. SlotsCounted' /\ SlotsDistinct' /\ CapturesRight'
    BY <1>4, <1>6, <1>10, <1>11, SlotsStay, CapturesStay DEF TablesInv
<1> QED  BY <1>4, <1>12, <1>13 DEF TablesInv

\* DefineAlias.
LEMMA AliasStep ==
    ASSUME TablesInv, NEW x \in Name, NEW y \in Name, Alias(x, y)
    PROVE  TablesInv'
<1>1. Len(tables) \in 1 .. Len(tables)
    BY Fields DEF TablesInv, TypeOK
<1>2. x \in DOMAIN Current.store /\ Current.store[x] \in Symbols
    BY <1>1, Fields DEF Alias, Current, TablesInv
<1> QED  BY <1>2, StoreStep DEF Alias

\* DefineFunctionName, in the function's own table.
LEMMA NameFunctionStep ==
    ASSUME TablesInv, NEW x \in Name, NameFunction(x)
    PROVE  TablesInv'
<1>1. PICK sym : sym = Symbol(x, "FUNCTION", 0, FALSE)
    OBVIOUS
<1>2. sym \in Symbols /\ sym.scope = "FUNCTION"
    <2>1. PICK b : b = FALSE
        OBVIOUS
    <2>2. sym = [name |-> x, scope |-> "FUNCTION", index |-> 0, constant |-> b]
        BY <1>1, <2>1 DEF Symbol
    <2>3. b \in BOOLEAN
        BY <2>1
    <2> QED  BY <2>2, <2>3 DEF Symbols
<1>3. Len(tables) \in 2 .. Len(tables) /\ ~tables[Len(tables)].block
    BY Fields DEF NameFunction, Current, TablesInv
<1>4. InFunction(Len(tables))
    BY <1>3 DEF InFunction
<1>5. ~IsSlot(sym) /\ Loadable(Len(tables), sym)
    BY <1>2, <1>4 DEF IsSlot, Loadable
<1>6. tables' = Store(tables, x, sym)
    BY <1>1 DEF NameFunction, DefineFunctionName
<1> QED  BY <1>2, <1>5, <1>6, StoreStep

\* DefineMutable and DefineImmutable.
LEMMA DeclareStep ==
    ASSUME TablesInv, NEW x \in Name, NEW c \in BOOLEAN, Declare(x, c)
    PROVE  TablesInv'
<1>0. PICK n, own, used, sym : /\ n = Len(tables) /\ own = Own(tables)
                               /\ used = tables[n].numDefinitions
                               /\ sym = Define(tables, x, c).sym
    OBVIOUS
<1>1. /\ tables \in Seq(Tables) /\ n > 0 /\ n \in Nat /\ DOMAIN tables = 1 .. n
      /\ n \in 1 .. n /\ 1 \in 1 .. n /\ ~tables[1].block
    BY <1>0, Fields DEF TablesInv, TypeOK
<1>2. /\ tables' \in Seq(Tables) /\ Len(tables') = n /\ sym \in Symbols
      /\ sym.scope = (IF IsGlobalScope(tables) THEN "GLOBAL" ELSE "LOCAL")
      /\ sym.index = used
      /\ \A i \in 1 .. n :
            /\ tables'[i].block = tables[i].block /\ tables'[i].free = tables[i].free
            /\ tables'[i].numDefinitions = IF i < own THEN tables[i].numDefinitions ELSE used + 1
            /\ tables'[i].store = IF i = n THEN Bind(tables[n].store, x, sym) ELSE tables[i].store
    BY <1>0, <1>1, DefineView DEF Declare
<1>3. /\ own \in 1 .. n /\ ~tables[own].block
      /\ \A i \in 1 .. n : i > own => tables[i].block
    BY <1>0, <1>1, OwnFacts
<1>4. used \in Nat /\ \A i \in 1 .. n : tables[i].numDefinitions \in Nat
    BY <1>0, <1>1, Fields DEF TablesInv
<1>5. TypeOK'
    BY <1>1, <1>2 DEF TablesInv, TypeOK
<1>6. DOMAIN tables' = 1 .. n
    BY <1>2, <1>5, FieldsNext
<1>7. ASSUME NEW i \in 1 .. n, Together(i, n) PROVE tables[i].numDefinitions = used
    BY <1>0, <1>1, <1>7 DEF TablesInv, CountsAgree
<1>8. ASSUME NEW i \in 1 .. n, ~(i < own) PROVE Together(i, n)
    <2>1. \A m \in i + 1 .. n : m \in 1 .. n /\ m > own
        BY <1>1, <1>3, <1>8
    <2> QED  BY <1>1, <1>3, <2>1 DEF Together
<1>9. Grown(n)
    <2>1. n \in 0 .. n /\ n <= Len(tables')
        BY <1>1, <1>2
    <2>2. \A m \in 1 .. n : tables[m].numDefinitions <= tables'[m].numDefinitions
        BY <1>2, <1>4, <1>7, <1>8
    <2> QED  BY <1>0, <1>2, <2>1, <2>2 DEF Grown
<1>10. CountsAgree'
    <2>1. ASSUME NEW i \in 1 .. n, NEW j \in 1 .. n, Together(i, j)
          PROVE  tables'[i].numDefinitions = tables'[j].numDefinitions
        <3>1. i <= j /\ tables[i].numDefinitions = tables[j].numDefinitions
            BY <1>1, <2>1 DEF TablesInv, CountsAgree, Together
        <3>2. CASE j < own
            BY <1>2, <1>3, <3>1, <3>2
        <3>3. CASE ~(i < own)
            BY <1>2, <1>3, <3>1, <3>3
        <3>4. CASE i < own /\ ~(j < own)
            <4>1. own \in i + 1 .. j
                BY <1>3, <3>4
            <4> QED  BY <1>3, <2>1, <4>1 DEF Together
        <3> QED  BY <3>2, <3>3, <3>4
    <2> QED  BY <1>5, <1>6, <1>9, <2>1, Shape DEF CountsAgree, TablesInv
<1>11. ASSUME NEW i \in 1 .. n, NEW z \in DOMAIN tables'[i].store
       PROVE  \/ z \in DOMAIN tables[i].store /\ tables'[i].store[z] = tables[i].store[z]
              \/ i = n /\ tables'[i].store[z] = sym
    <2>1. CASE i # n
        BY <1>2, <2>1
    <2>2. CASE i = n
        <3>1. tables'[n].store = Bind(tables[n].store, x, sym)
            BY <1>1, <1>2
        <3>2. \A v \in DOMAIN tables'[n].store :
                  \/ v \in DOMAIN tables[n].store /\ tables'[n].store[v] = tables[n].store[v]
                  \/ tables'[n].store[v] = sym
            <4>1. PICK st, r : st = tables[n].store /\ r = tables'[n].store
                OBVIOUS
            <4>2. r = Bind(st, x, sym)
                BY <3>1, <4>1
            <4>3. \A v \in DOMAIN r : (v \in DOMAIN st /\ r[v] = st[v]) \/ r[v] = sym
                BY <4>2 DEF Bind
            <4> QED  BY <4>1, <4>3
        <3> QED  BY <2>2, <3>2
    <2> QED  BY <2>1, <2>2
<1>12. IsSlot(sym) /\ (sym.scope = "LOCAL" <=> InFunction(n))
    BY <1>0, <1>2 DEF IsSlot, IsGlobalScope, InFunction
<1>13. \A i \in 1 .. n : InFunction(i)' <=> InFunction(i)
    BY <1>5, <1>9, Shape DEF TablesInv
<1>14. used < tables'[n].numDefinitions
    <2>1. tables'[n].numDefinitions = used + 1
        BY <1>1, <1>2, <1>3
    <2> QED  BY <1>4, <2>1
<1>15. SlotsCounted'
    <2>1. ASSUME NEW i \in 1 .. n, NEW z \in DOMAIN tables'[i].store, IsSlot(tables'[i].store[z])
          PROVE  /\ tables'[i].store[z].index \in Nat
                 /\ tables'[i].store[z].index < tables'[i].numDefinitions
                 /\ tables'[i].store[z].scope = "LOCAL" <=> InFunction(i)'
        <3>1. CASE z \in DOMAIN tables[i].store /\ tables'[i].store[z] = tables[i].store[z]
            <4>1. /\ tables[i].store[z].index \in Nat
                  /\ tables[i].store[z].index < tables[i].numDefinitions
                  /\ tables[i].store[z].scope = "LOCAL" <=> InFunction(i)
                BY <1>1, <2>1, <3>1 DEF TablesInv, SlotsCounted
            <4>2. tables[i].numDefinitions <= tables'[i].numDefinitions
                  /\ tables'[i].numDefinitions \in Nat
                BY <1>2, <1>5, <1>9, FieldsNext DEF Grown
            <4>3. tables[i].store[z].index < tables'[i].numDefinitions
                BY <1>4, <4>1, <4>2
            <4> QED  BY <1>13, <3>1, <4>1, <4>3
        <3>2. CASE i = n /\ tables'[i].store[z] = sym
            BY <1>2, <1>4, <1>12, <1>13, <1>14, <3>2
        <3> QED  BY <1>11, <3>1, <3>2
    <2> QED  BY <1>6, <2>1 DEF SlotsCounted
<1>16. SlotsDistinct'
    <2>1. ASSUME NEW i \in 1 .. n, Together(i, n), NEW z \in DOMAIN tables[i].store,
                 IsSlot(tables[i].store[z])
          PROVE  tables[i].store[z].index # sym.index
        <3>1. tables[i].store[z].index \in Nat /\ tables[i].store[z].index < used
            BY <1>1, <1>7, <2>1 DEF TablesInv, SlotsCounted
        <3> QED  BY <1>2, <1>4, <3>1
    <2>2. ASSUME NEW i \in 1 .. n, NEW j \in 1 .. n, Together(i, j),
                 NEW z \in DOMAIN tables'[i].store, NEW v \in DOMAIN tables'[j].store,
                 IsSlot(tables'[i].store[z]), IsSlot(tables'[j].store[v]),
                 tables'[i].store[z].index = tables'[j].store[v].index
          PROVE  i = j /\ tables'[i].store[z] = tables'[j].store[v]
        <3>1. CASE /\ z \in DOMAIN tables[i].store /\ tables'[i].store[z] = tables[i].store[z]
                   /\ v \in DOMAIN tables[j].store /\ tables'[j].store[v] = tables[j].store[v]
            BY <1>1, <2>2, <3>1 DEF TablesInv, SlotsDistinct
        <3>2. CASE /\ z \in DOMAIN tables[i].store /\ tables'[i].store[z] = tables[i].store[z]
                   /\ j = n /\ tables'[j].store[v] = sym
            BY <2>1, <2>2, <3>2
        <3>3. CASE i = n /\ tables'[i].store[z] = sym
            <4>1. j = n /\ Together(j, n)
                BY <1>1, <2>2, <3>3 DEF Together
            <4> QED  BY <1>11, <2>1, <2>2, <3>3, <4>1
        <3> QED  BY <1>11, <3>1, <3>2, <3>3
    <2> QED  BY <1>5, <1>6, <1>9, <2>2, Shape DEF SlotsDistinct, TablesInv
<1>17. StillLoadable(n)
    <2>1. ASSUME NEW i \in 1 .. n, NEW z \in DOMAIN tables'[i].store
          PROVE  \/ \E v \in DOMAIN tables[i].store : tables[i].store[v] = tables'[i].store[z]
                 \/ Loadable(i, tables[i].store[z])'
        <3>1. CASE i = n /\ tables'[i].store[z] = sym
            <4>1. \/ sym.scope = "GLOBAL"
                  \/ sym.scope = "LOCAL" /\ InFunction(n)' /\ sym.index \in Nat
                     /\ sym.index < tables'[n].numDefinitions
                BY <1>1, <1>2, <1>4, <1>12, <1>13, <1>14 DEF IsSlot
            <4> QED  BY <3>1, <4>1 DEF Loadable
        <3> QED  BY <1>11, <3>1
    <2> QED  BY <1>2, <1>6, <2>1 DEF StillLoadable
<1>18. CapturesRight'
    BY <1>5, <1>9, <1>17, CapturesStay DEF TablesInv
<1> QED  BY <1>5, <1>10, <1>15, <1>16, <1>18 DEF TablesInv

\* What can be loaded in a table can be loaded in the blocks inside it.
LEMMA LoadableInside ==
    ASSUME TablesInv, NEW h \in DOMAIN tables, NEW i \in DOMAIN tables, Together(h, i),
           NEW sym, Loadable(h, sym)
    PROVE  Loadable(i, sym)
<1>0. DOMAIN tables = 1 .. Len(tables) /\ Len(tables) \in Nat /\ h <= i
    BY Fields DEF TablesInv, Together
<1>1. InFunction(h) => InFunction(i)
    <2>1. \A m \in 2 .. h : m \in 2 .. i
        BY <1>0
    <2> QED  BY <2>1 DEF InFunction
<1>2. tables[h].numDefinitions = tables[i].numDefinitions
    BY DEF TablesInv, CountsAgree
<1>3. ASSUME NEW j \in DOMAIN tables, Together(j, h) PROVE Together(j, i)
    <2>1. j <= i /\ \A m \in j + 1 .. i : m \in j + 1 .. h \/ m \in h + 1 .. i
        BY <1>0, <1>3 DEF Together
    <2> QED  BY <1>3, <2>1 DEF Together
<1> QED  BY <1>1, <1>2, <1>3 DEF Loadable

\* A step that resolves a name, and its parts.
Resolving(x, n, h, found, S) ==
    /\ Holders(tables, x) # {}
    /\ n = Len(tables)
    /\ h = Innermost(Holders(tables, x))
    /\ found = tables[h].store[x]
    /\ S = Crossed(tables, h, found)

\* What it does to table i.
TableUsed(i, found, S) ==
    /\ tables'[i].block = tables[i].block
    /\ tables'[i].numDefinitions = tables[i].numDefinitions
    /\ i \notin S => tables'[i] = tables[i]
    /\ i \in S =>
         /\ tables'[i].free = Append(tables[i].free, SeenFrom(tables, {j \in S : j < i}, found))
         /\ tables'[i].store = Bind(tables[i].store, found.name, FreeIn(tables, i, found))

\* What such a step does.
LEMMA UseFacts ==
    ASSUME TablesInv, NEW x \in Name, Use(x),
           NEW n, NEW h, NEW found, NEW S, Resolving(x, n, h, found, S)
    PROVE  /\ n \in Nat /\ DOMAIN tables = 1 .. n
           /\ h \in 1 .. n /\ x \in DOMAIN tables[h].store /\ found \in Symbols
           /\ S \in SUBSET (1 .. n) /\ \A i \in S : h < i /\ ~tables[i].block
           /\ Resolve(tables, x).sym = SeenFrom(tables, S, found)
           /\ TypeOK' /\ DOMAIN tables' = 1 .. n /\ Grown(n)
           /\ \A i \in 1 .. n : TableUsed(i, found, S)
<1>1. /\ tables \in Seq(Tables) /\ Len(tables) > 0 /\ n = Len(tables) /\ n \in Nat
      /\ DOMAIN tables = 1 .. n
    BY Fields DEF TablesInv, TypeOK, Resolving
<1>2. /\ h \in 1 .. n /\ x \in DOMAIN tables[h].store /\ found \in Symbols
      /\ S \in SUBSET (1 .. n) /\ \A i \in S : h < i /\ ~tables[i].block
      /\ Resolve(tables, x).sym = SeenFrom(tables, S, found)
      /\ tables' \in Seq(Tables) /\ Len(tables') = n
      /\ \A i \in 1 .. n :
            /\ tables'[i].block = tables[i].block
            /\ tables'[i].numDefinitions = tables[i].numDefinitions
            /\ i \notin S => tables'[i] = tables[i]
            /\ i \in S =>
                 /\ tables'[i].free =
                        Append(tables[i].free, SeenFrom(tables, {j \in S : j < i}, found))
                 /\ tables'[i].store =
                        Bind(tables[i].store, found.name, FreeIn(tables, i, found))
    <2>1. Resolved(tables, x, h, found, S, tables')
        BY <1>1, ResolveView DEF Resolving, Use
    <2> QED  BY <1>1, <2>1, Zenon DEF Resolved
<1>3. TypeOK'
    <2>1. 1 \in 1 .. n /\ 1 \notin S
        BY <1>1, <1>2
    <2>2. tables'[1] = tables[1] /\ Len(tables') > 0
        BY <1>1, <1>2, <2>1
    <2> QED  BY <1>2, <2>2 DEF TablesInv, TypeOK
<1>4. DOMAIN tables' = 1 .. n
    BY <1>2, <1>3, FieldsNext
<1>5. Grown(n)
    <2>1. n \in 0 .. n /\ n <= Len(tables')
        BY <1>1, <1>2
    <2>2. \A m \in 1 .. n : tables[m].numDefinitions <= tables'[m].numDefinitions
        <3>1. \A m \in 1 .. n : tables[m].numDefinitions \in Nat
            BY <1>1, Fields DEF TablesInv
        <3>2. \A m \in 1 .. n : tables'[m].numDefinitions = tables[m].numDefinitions
            BY <1>2
        <3> QED  BY <3>1, <3>2
    <2>3. ASSUME NEW m \in 1 .. n, NEW q \in DOMAIN tables[m].free
          PROVE  q \in DOMAIN tables'[m].free /\ tables'[m].free[q] = tables[m].free[q]
        <3>1. CASE m \notin S
            BY <1>2, <3>1
        <3>2. CASE m \in S
            <4>1. PICK fr, e, g : /\ fr = tables[m].free /\ g = tables'[m].free
                                  /\ e = SeenFrom(tables, {j \in S : j < m}, found)
                OBVIOUS
            <4>2. fr \in Seq(Symbols) /\ g = Append(fr, e) /\ q \in DOMAIN fr
                BY <1>1, <1>2, <2>3, <3>2, <4>1, Fields DEF TablesInv
            <4>3. q \in DOMAIN g /\ g[q] = fr[q]
                <5>1. q \in 1 .. Len(fr) /\ DOMAIN g = 1 .. Len(fr) + 1
                    BY <4>2
                <5> QED  BY <4>2, <5>1
            <4> QED  BY <4>1, <4>3
        <3> QED  BY <3>1, <3>2
    <2> QED  BY <1>1, <1>2, <2>1, <2>2, <2>3 DEF Grown
<1>6. \A i \in 1 .. n : TableUsed(i, found, S)
    BY <1>2, Zenon DEF TableUsed
<1> QED  BY <1>1, <1>2, <1>3, <1>4, <1>5, <1>6

\* What the tables around table i have captured for the variable can be loaded
\* there after the step.
LEMMA SeenLoadable ==
    ASSUME TablesInv, NEW x \in Name, Use(x),
           NEW n, NEW h, NEW found, NEW S, Resolving(x, n, h, found, S),
           found.scope \notin {"GLOBAL", "BUILTIN"}, NEW i \in h .. n,
           NEW Q, Q = {j \in S : j <= i}, NEW sym, sym = SeenFrom(tables, Q, found)
    PROVE  /\ sym.scope \in {"LOCAL", "FREE", "FUNCTION"} /\ Loadable(i, sym)'
           /\ OfFunction(i, sym)
<1>1. /\ n \in Nat /\ DOMAIN tables = 1 .. n /\ n = Len(tables)
      /\ h \in 1 .. n /\ x \in DOMAIN tables[h].store /\ found \in Symbols
      /\ S \in SUBSET (1 .. n) /\ \A j \in S : h < j /\ ~tables[j].block
      /\ TypeOK /\ TypeOK' /\ DOMAIN tables' = 1 .. n /\ Grown(n)
    BY UseFacts DEF Resolving, TablesInv
<1>2. ASSUME NEW m \in h + 1 .. n, ~tables[m].block PROVE m \in S
    BY <1>1, <1>2 DEF Resolving, Crossed
<1>3. i \in 1 .. n /\ h <= i
    BY <1>1
<1>4. CASE Q = {}
    <2>1. sym = found
        BY <1>4 DEF SeenFrom
    <2>2. sym.scope \in {"LOCAL", "FREE", "FUNCTION"}
        BY <1>1, <2>1 DEF Symbols
    <2>3. ASSUME NEW m \in h + 1 .. i PROVE tables[m].block
        <3>1. m \in h + 1 .. n /\ m <= i
            BY <1>1, <1>3
        <3>2. m \notin S
            BY <1>4, <3>1
        <3> QED  BY <1>2, <3>1, <3>2
    <2>4. Together(h, i)
        BY <1>3, <2>3 DEF Together
    <2>5. Loadable(h, found)
        BY <1>1 DEF Resolving, TablesInv, CapturesRight
    <2>6. Loadable(i, sym)
        BY <1>1, <1>3, <2>1, <2>4, <2>5, LoadableInside
    <2>7. Has(i, sym)
        BY <1>1, <2>1, <2>4 DEF Resolving, Has
    <2> QED  BY <1>1, <1>3, <2>2, <2>6, <2>7, LoadableStays DEF OfFunction
<1>5. CASE Q # {}
    <2>1. PICK j : j = Innermost(Q)
        OBVIOUS
    <2>2. j \in S /\ j <= i /\ \A m \in S : m <= i => m <= j
        <3>1. Q \in SUBSET (1 .. n)
            BY <1>1
        <3>2. j \in Q /\ \A m \in Q : m <= j
            BY <1>1, <1>5, <2>1, <3>1, InnermostFacts
        <3> QED  BY <3>2
    <2>3. sym = FreeIn(tables, j, found)
        BY <1>5, <2>1 DEF SeenFrom
    <2>4. j \in 1 .. n /\ h < j /\ ~tables[j].block
        BY <1>1, <2>2
    <2>5. PICK e, R : R = {m \in S : m < j} /\ e = SeenFrom(tables, R, found)
        OBVIOUS
    <2>6. R \in SUBSET (1 .. n)
        BY <1>1, <2>5
    <2>7. /\ sym.scope = "FREE" /\ sym.name = found.name
          /\ sym.index = Len(tables[j].free) /\ Len(tables[j].free) \in Nat
          /\ e \in Symbols /\ e.name = found.name
        BY <1>1, <2>3, <2>4, <2>5, <2>6, SeenFacts DEF TypeOK
    <2>8. tables'[j].free = Append(tables[j].free, e) /\ tables'[j].block = tables[j].block
        <3>1. TableUsed(j, found, S)
            BY <2>4, UseFacts
        <3> QED  BY <2>2, <2>5, <3>1 DEF TableUsed
    <2>9. /\ sym.index < Len(tables'[j].free)
          /\ tables'[j].free[sym.index + 1] = e
        <3>1. PICK fr, g : fr = tables[j].free /\ g = tables'[j].free
            OBVIOUS
        <3>2. fr \in Seq(Symbols)
            BY <1>1, <2>4, <3>1, Fields
        <3>3. g = Append(fr, e) /\ sym.index = Len(fr) /\ Len(fr) \in Nat
            BY <2>7, <2>8, <3>1
        <3>4. Len(g) = Len(fr) + 1 /\ g[Len(fr) + 1] = e
            BY <3>2, <3>3
        <3> QED  BY <3>1, <3>3, <3>4
    <2>10. ASSUME NEW m \in j + 1 .. i PROVE tables[m].block
        <3>1. m \in h + 1 .. n /\ m <= i /\ ~(m <= j)
            BY <1>1, <1>3, <2>4
        <3>2. m \notin S
            BY <2>2, <3>1
        <3> QED  BY <1>2, <3>1, <3>2
    <2>11. Together(j, i)'
        <3>1. Together(j, i)
            BY <2>2, <2>10 DEF Together
        <3> QED  BY <1>1, <1>3, <2>4, <3>1, Shape
    <2> QED  BY <1>1, <2>4, <2>7, <2>8, <2>9, <2>11 DEF Loadable, OfFunction
<1> QED  BY <1>4, <1>5

\* What a function captures in such a step, the code around it can load.
LEMMA UseCaptures ==
    ASSUME TablesInv, NEW x \in Name, Use(x),
           NEW n, NEW h, NEW found, NEW S, Resolving(x, n, h, found, S),
           NEW i \in 1 .. n, NEW q \in DOMAIN tables'[i].free, q \notin DOMAIN tables[i].free,
           NEW sym, sym = tables'[i].free[q]
    PROVE  /\ i \in S /\ sym.scope \in {"LOCAL", "FREE", "FUNCTION"}
           /\ Loadable(i - 1, sym)' /\ OfFunction(i - 1, sym)
<1>1. /\ n \in Nat /\ DOMAIN tables = 1 .. n /\ n = Len(tables) /\ TypeOK
      /\ h \in 1 .. n /\ S \in SUBSET (1 .. n) /\ \A j \in S : h < j
    BY UseFacts DEF Resolving, TablesInv
<1>2. TableUsed(i, found, S)
    BY UseFacts
<1>3. i \in S
    BY <1>2 DEF TableUsed
<1>4. S # {} => found.scope \notin {"GLOBAL", "BUILTIN"}
    BY DEF Resolving, Crossed
<1>5. PICK m, Q, e : m = i - 1 /\ Q = {j \in S : j < i} /\ e = SeenFrom(tables, Q, found)
    OBVIOUS
<1>6. tables'[i].free = Append(tables[i].free, e)
    BY <1>2, <1>3, <1>5 DEF TableUsed
<1>7. Q = {j \in S : j <= m} /\ m \in h .. n
    <2>1. h < i /\ \A j \in 1 .. n : j < i <=> j <= m
        BY <1>1, <1>3, <1>5
    <2>2. m \in h .. n
        BY <1>1, <1>5, <2>1
    <2>3. \A j \in S : j < i <=> j <= m
        BY <1>1, <2>1
    <2>4. Q = {j \in S : j <= m}
        BY <1>5, <2>3, Zenon
    <2> QED  BY <2>2, <2>4
<1>8. e.scope \in {"LOCAL", "FREE", "FUNCTION"} /\ Loadable(m, e)' /\ OfFunction(m, e)
    <2>1. found.scope \notin {"GLOBAL", "BUILTIN"} /\ e = SeenFrom(tables, Q, found)
        BY <1>3, <1>4, <1>5
    <2> QED  BY <1>7, <2>1, SeenLoadable
<1>9. sym = e
    <2>1. PICK fr, g : fr = tables[i].free /\ g = tables'[i].free
        OBVIOUS
    <2>2. fr \in Seq(Symbols)
        BY <1>1, <2>1, Fields
    <2>3. g = Append(fr, e) /\ q \in DOMAIN g /\ q \notin DOMAIN fr
        BY <1>6, <2>1
    <2>4. /\ DOMAIN g = 1 .. Len(fr) + 1 /\ DOMAIN fr = 1 .. Len(fr)
          /\ g[Len(fr) + 1] = e /\ Len(fr) \in Nat
        BY <2>2, <2>3
    <2>5. q = Len(fr) + 1
        BY <2>3, <2>4
    <2> QED  BY <2>1, <2>4, <2>5
<1> QED  BY <1>3, <1>5, <1>8, <1>9

\* Nothing changes.
LEMMA StutterStep ==
    ASSUME TablesInv, UNCHANGED tables
    PROVE  TablesInv'
<1>1. TypeOK' /\ CountsAgree'
    BY DEF TablesInv, TypeOK, CountsAgree, Together
<1>2. SlotsCounted'
    BY DEF TablesInv, SlotsCounted, InFunction, IsSlot
<1>3. SlotsDistinct'
    BY DEF TablesInv, SlotsDistinct, Together, IsSlot
<1>4. \A i, sym : Loadable(i, sym)' <=> Loadable(i, sym)
    BY DEF Loadable, InFunction, Together
<1>5. CapturesRight'
    BY <1>4 DEF TablesInv, CapturesRight
<1> QED  BY <1>1, <1>2, <1>3, <1>5 DEF TablesInv

\* Resolve.
LEMMA UseStep ==
    ASSUME TablesInv, NEW x \in Name, Use(x)
    PROVE  TablesInv'
<1>1. CASE Holders(tables, x) = {}
    <2>1. tables' = tables
        BY <1>1 DEF Use, Resolve
    <2> QED  BY <2>1, StutterStep
<1>2. CASE Holders(tables, x) # {}
    <2>1. PICK n, h, found, S : Resolving(x, n, h, found, S)
        BY <1>2 DEF Resolving
    <2>2. /\ n \in Nat /\ DOMAIN tables = 1 .. n /\ n = Len(tables)
          /\ h \in 1 .. n /\ found \in Symbols
          /\ S \in SUBSET (1 .. n) /\ \A j \in S : h < j /\ ~tables[j].block
          /\ TypeOK /\ TypeOK' /\ DOMAIN tables' = 1 .. n /\ Grown(n)
          /\ \A i \in 1 .. n : /\ tables'[i].block = tables[i].block
                               /\ tables'[i].numDefinitions = tables[i].numDefinitions
                               /\ i \notin S => tables'[i] = tables[i]
        <3>1. n = Len(tables) /\ TypeOK
            BY <2>1 DEF Resolving, TablesInv
        <3>2. /\ n \in Nat /\ DOMAIN tables = 1 .. n
              /\ h \in 1 .. n /\ found \in Symbols
              /\ S \in SUBSET (1 .. n) /\ \A j \in S : h < j /\ ~tables[j].block
              /\ TypeOK' /\ DOMAIN tables' = 1 .. n /\ Grown(n)
            BY <2>1, UseFacts
        <3>3. ASSUME NEW i \in 1 .. n
              PROVE  /\ tables'[i].block = tables[i].block
                     /\ tables'[i].numDefinitions = tables[i].numDefinitions
                     /\ i \notin S => tables'[i] = tables[i]
            <4>1. TableUsed(i, found, S)
                BY <2>1, UseFacts
            <4> QED  BY <4>1, Zenon DEF TableUsed
        <3> QED  BY <3>1, <3>2, <3>3
    <2>3. S # {} => found.scope \notin {"GLOBAL", "BUILTIN"}
        BY <2>1 DEF Resolving, Crossed
    <2>4. ASSUME NEW i \in 1 .. n, NEW z \in DOMAIN tables'[i].store
          PROVE  \/ \E v \in DOMAIN tables[i].store : tables[i].store[v] = tables'[i].store[z]
                 \/ i \in S /\ tables'[i].store[z] = FreeIn(tables, i, found)
        <3>1. CASE i \notin S
            BY <2>2, <2>4, <3>1
        <3>2. CASE i \in S
            <4>1. PICK st, r, f : /\ st = tables[i].store /\ r = tables'[i].store
                                  /\ f = FreeIn(tables, i, found)
                OBVIOUS
            <4>2. r = Bind(st, found.name, f)
                <5>1. tables'[i].store = Bind(tables[i].store, found.name, FreeIn(tables, i, found))
                    <6>1. TableUsed(i, found, S)
                        BY <2>1, UseFacts
                    <6> QED  BY <3>2, <6>1, Zenon DEF TableUsed
                <5> QED  BY <4>1, <5>1
            <4>3. \A v \in DOMAIN r : (v \in DOMAIN st /\ r[v] = st[v]) \/ r[v] = f
                BY <4>2 DEF Bind
            <4> QED  BY <2>4, <3>2, <4>1, <4>3
        <3> QED  BY <3>1, <3>2
    <2>5. ASSUME NEW i \in S
          PROVE  /\ FreeIn(tables, i, found).scope = "FREE"
                 /\ \A sym \in {FreeIn(tables, i, found)} : Loadable(i, sym)'
        <3>1. PICK Q, sym : Q = {j \in S : j <= i} /\ sym = SeenFrom(tables, Q, found)
            OBVIOUS
        <3>2. i \in h .. n /\ i \in 1 .. n
            BY <2>2
        <3>3. Loadable(i, sym)'
            BY <2>1, <2>3, <3>1, <3>2, SeenLoadable
        <3>4. sym = FreeIn(tables, i, found)
            <4>1. i \in Q /\ \A j \in Q : j <= i
                BY <2>2, <3>1
            <4>2. Innermost(Q) = i
                <5>1. Q \in SUBSET (1 .. n) /\ Q # {}
                    BY <2>2, <3>1, <4>1
                <5>2. Innermost(Q) \in Q /\ i <= Innermost(Q)
                    BY <2>2, <4>1, <5>1, InnermostFacts
                <5>3. PICK k : k = Innermost(Q)
                    OBVIOUS
                <5>4. k \in 1 .. n /\ i \in 1 .. n /\ k <= i /\ i <= k
                    BY <3>2, <4>1, <5>1, <5>2, <5>3
                <5> QED  BY ONLY <2>2, <5>3, <5>4
            <4> QED  BY <3>1, <4>1, <4>2 DEF SeenFrom
        <3>5. FreeIn(tables, i, found).scope = "FREE"
            BY <2>2, <3>2, SeenFacts DEF TypeOK
        <3> QED  BY <3>3, <3>4, <3>5
    <2>6. NoNewSlot(n)
        BY <2>2, <2>4, <2>5 DEF NoNewSlot, IsSlot
    <2>7. ASSUME NEW i \in 1 .. n, NEW z \in DOMAIN tables'[i].store
          PROVE  \/ \E v \in DOMAIN tables[i].store : tables[i].store[v] = tables'[i].store[z]
                 \/ Loadable(i, tables[i].store[z])'
        <3>1. CASE i \in S /\ tables'[i].store[z] = FreeIn(tables, i, found)
            <4>1. PICK sym : sym = FreeIn(tables, i, found)
                OBVIOUS
            <4>2. Loadable(i, sym)'
                BY <2>5, <3>1, <4>1
            <4> QED  BY <3>1, <4>1, <4>2 DEF Loadable
        <3> QED  BY <2>4, <2>7, <3>1
    <2>8. ASSUME NEW i \in 1 .. n, NEW q \in DOMAIN tables'[i].free, q \notin DOMAIN tables[i].free
          PROVE  /\ ~tables'[i].block
                 /\ tables'[i].free[q].scope \in {"LOCAL", "FREE", "FUNCTION"}
                 /\ Loadable(i - 1, tables[i].free[q])'
        <3>1. PICK sym : sym = tables'[i].free[q]
            OBVIOUS
        <3>2. /\ i \in S /\ sym.scope \in {"LOCAL", "FREE", "FUNCTION"}
              /\ Loadable(i - 1, sym)'
            BY <2>1, <2>8, <3>1, UseCaptures
        <3>3. Loadable(i - 1, tables[i].free[q])'
            BY <3>1, <3>2 DEF Loadable
        <3> QED  BY <2>2, <3>1, <3>2, <3>3
    <2>9. StillLoadable(n)
        BY <2>2, <2>7, <2>8 DEF StillLoadable
    <2>10. CountsAgree'
        BY <2>2, CountsStay DEF CountsAgree
    <2>11. SlotsCounted' /\ SlotsDistinct' /\ CapturesRight'
        BY <2>2, <2>6, <2>9, SlotsStay, CapturesStay DEF TablesInv
    <2> QED  BY <2>2, <2>10, <2>11 DEF TablesInv
<1> QED  BY <1>1, <1>2

\* New: the builtins in the global table.
LEMMA InitHolds == Init => TablesInv
<1> SUFFICES ASSUME Init PROVE TablesInv
    OBVIOUS
<1>1. PICK names \in SUBSET Name : tables = DefineBuiltins(names)
    BY DEF Init
<1>2. PICK e, b, st : e = << >> /\ b = FALSE /\ st = [z \in names |-> Symbol(z, "BUILTIN", z, TRUE)]
    OBVIOUS
<1>3. PICK t : t = [store |-> st, numDefinitions |-> 0, free |-> e, block |-> b]
    OBVIOUS
<1>4. /\ DOMAIN st = names
      /\ \A z \in names : st[z] \in Symbols /\ st[z].scope = "BUILTIN"
    <2>1. ASSUME NEW z \in names PROVE st[z] \in Symbols /\ st[z].scope = "BUILTIN"
        <3>1. PICK c : c = TRUE
            OBVIOUS
        <3>2. c \in BOOLEAN /\ z \in Name
            BY <3>1
        <3>3. st[z] = [name |-> z, scope |-> "BUILTIN", index |-> z, constant |-> c]
            BY <1>2, <3>1 DEF Symbol
        <3> QED  BY <3>2, <3>3 DEF Symbols
    <2> QED  BY <1>2, <2>1
<1>5. st \in Stores
    <2>1. st \in [names -> Symbols]
        BY <1>2, <1>4
    <2> QED  BY <2>1 DEF Stores
<1>6. t \in Tables
    <2>1. e = << >> /\ b = FALSE /\ << >> \in Seq(Symbols) /\ FALSE \in BOOLEAN
        BY <1>2
    <2>2. e \in Seq(Symbols) /\ b \in BOOLEAN
        BY <2>1, Zenon
    <2>3. 0 \in Nat
        OBVIOUS
    <2> QED  BY <1>3, <1>5, <2>2, <2>3, TableIs, Zenon
<1>7. tables = <<t>>
    <2>1. NewSymbolTable = [store |-> e, numDefinitions |-> 0, free |-> e, block |-> b]
        BY <1>2 DEF NewSymbolTable
    <2>2. [NewSymbolTable EXCEPT !.store = st] = t
        BY <1>3, <2>1
    <2>3. tables = <<[NewSymbolTable EXCEPT !.store = st]>>
        BY <1>1, <1>2 DEF DefineBuiltins
    <2> QED  BY <2>2, <2>3
<1>8. t.store = st /\ t.free = e /\ t.block = b
    BY <1>3
<1>9. tables \in Seq(Tables) /\ Len(tables) = 1 /\ DOMAIN tables = {1} /\ tables[1] = t
    BY <1>6, <1>7
<1>10. TypeOK
    <2>1. tables[1].free = << >> /\ ~tables[1].block
        BY <1>2, <1>8, <1>9
    <2> QED  BY <1>9, <2>1 DEF TypeOK
<1>11. CountsAgree
    BY <1>9 DEF CountsAgree
<1>12. \A z \in DOMAIN tables[1].store : tables[1].store[z].scope = "BUILTIN"
    BY <1>4, <1>8, <1>9
<1>13. SlotsCounted /\ SlotsDistinct
    BY <1>9, <1>12 DEF SlotsCounted, SlotsDistinct, IsSlot
<1>14. CapturesRight
    <2>1. DOMAIN tables[1].free = {}
        BY <1>10 DEF TypeOK
    <2> QED  BY <1>9, <1>12, <2>1 DEF CapturesRight, Loadable
<1> QED  BY <1>10, <1>11, <1>13, <1>14 DEF TablesInv

\* Every call of the compiler keeps the invariant.
LEMMA NextKeeps == TablesInv /\ [Next]_tables => TablesInv'
<1> SUFFICES ASSUME TablesInv, [Next]_tables PROVE TablesInv'
    OBVIOUS
<1>1. CASE EnterFunction \/ EnterBlock
    BY <1>1, EnterStep
<1>2. CASE Leave
    BY <1>2, LeaveStep
<1>3. ASSUME NEW x \in Name, NEW constant \in BOOLEAN, Declare(x, constant) PROVE TablesInv'
    BY <1>3, DeclareStep
<1>4. ASSUME NEW x \in Name, NEW y \in Name, Alias(x, y) PROVE TablesInv'
    BY <1>4, AliasStep
<1>5. ASSUME NEW x \in Name, NameFunction(x) PROVE TablesInv'
    BY <1>5, NameFunctionStep
<1>6. ASSUME NEW x \in Name, Use(x) PROVE TablesInv'
    BY <1>6, UseStep
<1>7. CASE UNCHANGED tables
    BY <1>7, StutterStep
<1> QED  BY <1>1, <1>2, <1>3, <1>4, <1>5, <1>6, <1>7 DEF Next

\* The invariant holds in every state of the compilation.
LEMMA InvAlways == Spec => []TablesInv
BY InitHolds, NextKeeps, PTL DEF Spec

\* A name that is found can be loaded where it is used.
LEMMA UseLoads ==
    ASSUME TablesInv, NEW x \in Name, Use(x), Resolve(tables, x).ok,
           NEW sym, sym = Resolve(tables, x).sym
    PROVE  Loadable(Len(tables), sym)' /\ OfFunction(Len(tables), sym)
<1>1. Holders(tables, x) # {}
    BY DEF Resolve
<1>2. PICK n, h, found, S : Resolving(x, n, h, found, S)
    BY <1>1 DEF Resolving
<1>3. /\ n \in Nat /\ h \in 1 .. n /\ S \in SUBSET (1 .. n)
      /\ sym = SeenFrom(tables, S, found) /\ TypeOK' /\ DOMAIN tables' = 1 .. n
    BY <1>2, UseFacts
<1>4. Len(tables') = n /\ Len(tables) = n
    BY <1>2, <1>3, FieldsNext DEF Resolving
<1>5. CASE found.scope \in {"GLOBAL", "BUILTIN"}
    <2>1. S = {}
        BY <1>2, <1>5 DEF Resolving, Crossed
    <2> QED  BY <1>3, <1>5, <2>1 DEF SeenFrom, Loadable, OfFunction
<1>6. CASE found.scope \notin {"GLOBAL", "BUILTIN"}
    <2>1. n \in h .. n /\ \A j \in S : j <= n
        BY <1>3
    <2>2. S = {j \in S : j <= n}
        BY <2>1, Zenon
    <2>3. Loadable(n, sym)' /\ OfFunction(n, sym)
        BY <1>2, <1>3, <1>6, <2>1, <2>2, SeenLoadable
    <2> QED  BY <1>4, <2>3 DEF Loadable
<1> QED  BY <1>5, <1>6

-----------------------------------------------------------------------------
(* The theorems                                                            *)

\* However functions and blocks nest, the function's own table counts every
\* slot that its declarations get, locals are exactly the variables declared
\* inside functions, and two variables that are in scope together in one
\* function never share a slot.  (DefineMutable, DefineImmutable)
THEOREM SlotsSafe == Spec => [](TypeOK /\ SlotsReserved /\ SlotsDistinct)
<1>1. TablesInv => TypeOK /\ SlotsReserved /\ SlotsDistinct
    BY DEF TablesInv, CountsAgree, SlotsCounted, SlotsReserved
<1> QED  BY <1>1, InvAlways, PTL

\* Every symbol of a table can be loaded by the code of its function, and
\* every captured variable by the code of the function around it, where the
\* closure is made.  (Resolve, defineFree)
THEOREM CapturesSafe == Spec => []CapturesRight
<1>1. TablesInv => CapturesRight
    BY DEF TablesInv
<1> QED  BY <1>1, InvAlways, PTL

\* What Resolve returns for a known name can be loaded by the code that uses
\* it, however many functions and blocks are between the use and the
\* declaration; a local that it returns, or that a function on the way
\* captures, is of the function whose code loads it.  (Resolve, defineFree)
THEOREM ResolvedLoadable == Spec => ResolvedHere
<1> DEFINE Right == \A x \in Name : Use(x) /\ Resolve(tables, x).ok =>
               /\ \A sym \in {Resolve(tables, x).sym} :
                      Loadable(Len(tables), sym)' /\ OfFunction(Len(tables), sym)
               /\ \A i \in DOMAIN tables : \A q \in DOMAIN tables'[i].free \ DOMAIN tables[i].free :
                      OfFunction(i - 1, tables'[i].free[q])
<1>1. TablesInv /\ [Next]_tables => [Right]_tables
    <2> SUFFICES ASSUME TablesInv, NEW x \in Name, Use(x), Resolve(tables, x).ok
                 PROVE  /\ \A sym \in {Resolve(tables, x).sym} :
                               Loadable(Len(tables), sym)' /\ OfFunction(Len(tables), sym)
                        /\ \A i \in DOMAIN tables : \A q \in DOMAIN tables'[i].free \ DOMAIN tables[i].free :
                               OfFunction(i - 1, tables'[i].free[q])
        OBVIOUS
    <2>1. Holders(tables, x) # {}
        BY DEF Resolve
    <2>2. PICK n, h, found, S : Resolving(x, n, h, found, S)
        BY <2>1 DEF Resolving
    <2>3. DOMAIN tables = 1 .. n
        BY <2>2, UseFacts
    <2> QED  BY <2>2, <2>3, UseLoads, UseCaptures
<1> QED  BY <1>1, InvAlways, PTL DEF Spec, ResolvedHere

=============================================================================
