---------------------------- MODULE SocketsProofs -----------------------------
(***************************************************************************)
(* Theorems about the tables of connections and listeners, for any number  *)
(* of tasks, connections, handles, messages and calls and both backends.   *)
(***************************************************************************)
EXTENDS Sockets, FiniteSetTheorems, WellFoundedInduction, TLAPS

Ops == {"idle", "connect", "listen", "accept", "read", "write", "close", "handshake", "insert",
        "accepting", "reading", "writing", "closing", "clearing"}

Obj == 0 .. MaxSocks

SockRecord == [kind : {"none", "conn", "listener"}, refs : Int, peer : BOOLEAN, via : Obj,
               in : {"none", "text", "nul", "hello"}, full : BOOLEAN]

\* The result of a builtin may be anything.
CallType(c) == c \in [op : Ops, table : Tables, tls : BOOLEAN, h : Int,
                      obj : Obj, clone : Obj, result : {c.result}]

SocketsTypeOK ==
    /\ backend \in {"vm", "native"}
    /\ slab \in [Tables -> Seq(Obj)]
    /\ lock = [l \in Locks |-> lock[l]]
    /\ sock \in [Sock -> SockRecord]
    /\ call = [t \in Task |-> call[t]]
    /\ \A t \in Task : CallType(call[t])

\* Connections and listeners are numbered in the order they are made.
Numbered ==
    /\ \E n \in Obj : Made = 1 .. n
    /\ \A s \in Sock : sock[s].kind = "none" => sock[s] = Unused

\* What is not made yet, or still waits in a backlog, is in no table and no
\* builtin works on it.
Unmentioned(s) ==
    /\ \A k \in Tables : \A i \in DOMAIN slab[k] : slab[k][i] # s
    /\ \A t \in Task : call[t].obj # s /\ call[t].clone # s

Untouched ==
    \A s \in Sock : sock[s].kind = "none" \/ sock[s].via # Nil =>
                        Unmentioned(s) /\ sock[s].refs = 0

\* What a task has is for the builtin that it is in.  A task in a
\* handshake or about to insert is the only one that has the connection; a close in progress has the
\* thread of the VM, so that its slot still holds what it looked up.
TaskInv(t) ==
    /\ call[t].clone # Nil => At(t, "accepting") \/ At(t, "insert")
    /\ At(t, "accepting") => call[t].obj # Nil
    /\ call[t].op \in {"handshake", "insert"} =>
          /\ call[t].obj # Nil /\ call[t].obj # call[t].clone
          /\ \A k \in Tables : \A i \in DOMAIN slab[k] : slab[k][i] # call[t].obj
          /\ \A u \in Task \ {t} : call[u].op \in {"handshake", "insert"} => call[u].obj # call[t].obj
    /\ call[t].op \in {"closing", "clearing"} =>
          /\ backend = "vm" /\ call[t].obj # Nil
          /\ call[t].h + 1 \in DOMAIN slab[call[t].table]
          /\ slab[call[t].table][call[t].h + 1] = call[t].obj
    /\ backend = "vm" /\ call[t].op \in {"close", "closing", "clearing"} => lock["thread"] = t

\* Every descriptor is accounted for.
Accounted(s) == IsFiniteSet(Slots(s)) /\ Owned(s)

SocketsInv ==
    /\ SocketsTypeOK
    /\ Numbered /\ Untouched
    /\ \A t \in Task : TaskInv(t)
    /\ \A s \in Sock : Accounted(s)

-------------------------------------------------------------------------------
\* Numbers, sets and slots

Ind(b) == IF b THEN 1 ELSE 0

\* A nonempty set of numbers has a smallest one, and Min is it.
LEMMA MinFacts ==
    ASSUME NEW S \in SUBSET Nat, S # {}
    PROVE  Min(S) \in S /\ \A y \in S : Min(S) <= y
<1>1. \E x \in S : \A y \in S : ~ (<<y, x>> \in OpToRel(<, Nat))
    BY NatLessThanWellFounded, WFMin, Zenon
<1>2. PICK x \in S : \A y \in S : ~ (<<y, x>> \in OpToRel(<, Nat))
    BY <1>1
<1>3. \A y \in S : ~ (y < x)
    <2>1. OpToRel(<, Nat) = {p \in Nat \X Nat : p[1] < p[2]}
        BY Zenon DEF OpToRel
    <2> QED
        BY <1>2, <2>1
<1>4. \E z \in S : \A y \in S : z <= y
    BY <1>3
<1> QED
    BY <1>4 DEF Min

\* Two sets that differ at most in x: how their cardinalities differ.
LEMMA Swap ==
    ASSUME NEW A, NEW B, NEW x, IsFiniteSet(A),
           \A y : y # x => (y \in A <=> y \in B)
    PROVE  /\ IsFiniteSet(B) /\ Cardinality(A) \in Nat /\ Cardinality(B) \in Nat
           /\ Cardinality(B) + Ind(x \in A) = Cardinality(A) + Ind(x \in B)
<1> DEFINE C == A \ {x}
<1>1. /\ IsFiniteSet(C) /\ x \notin C
      /\ Cardinality(C) = IF x \in A THEN Cardinality(A) - 1 ELSE Cardinality(A)
    BY FS_RemoveElement
<1>2. /\ IsFiniteSet(C \cup {x})
      /\ Cardinality(C \cup {x}) = Cardinality(C) + 1
    BY <1>1, FS_AddElement
<1>3. B = IF x \in B THEN C \cup {x} ELSE C
    <2>1. CASE x \in B
        BY <2>1
    <2>2. CASE x \notin B
        BY <2>2
    <2> QED
        BY <2>1, <2>2
<1>4. IsFiniteSet(B)
    BY <1>1, <1>2, <1>3
<1>5. Cardinality(A) \in Nat /\ Cardinality(B) \in Nat /\ Cardinality(C) \in Nat
    BY <1>1, <1>4, FS_CardinalityType
<1>6. Cardinality(B) = IF x \in B THEN Cardinality(C) + 1 ELSE Cardinality(C)
    BY <1>2, <1>3, Zenon
<1> HIDE DEF C
<1> QED
    BY <1>1, <1>4, <1>5, <1>6 DEF Ind

\* The slot that an entry gets is free, or one past the last.
LEMMA SlotFacts ==
    ASSUME NEW q \in Seq(Obj)
    PROVE  /\ Slot(q) \in Nat \ {0} /\ Slot(q) <= Len(q) + 1
           /\ Slot(q) \in DOMAIN q => q[Slot(q)] = Nil
<1> DEFINE S == {i \in DOMAIN q : q[i] = Nil}
<1>1. Len(q) \in Nat /\ DOMAIN q = 1 .. Len(q)
    OBVIOUS
<1>2. CASE S = {}
    BY <1>1, <1>2 DEF Slot
<1>3. CASE S # {}
    <2>1. S \in SUBSET Nat
        BY <1>1
    <2>2. Min(S) \in S
        BY <2>1, <1>3, MinFacts
    <2>3. Slot(q) = Min(S)
        BY <1>3 DEF Slot
    <2> HIDE DEF S
    <2>4. Slot(q) \in S
        BY <2>2, <2>3
    <2> QED
        BY <2>4, <1>1 DEF S
<1> QED
    BY <1>2, <1>3

\* Filling a slot keeps the others.
LEMMA PutFacts ==
    ASSUME NEW q \in Seq(Obj), NEW i \in Nat \ {0}, i <= Len(q) + 1, NEW v \in Obj
    PROVE  /\ Put(q, i, v) \in Seq(Obj)
           /\ DOMAIN Put(q, i, v) = DOMAIN q \cup {i}
           /\ Put(q, i, v)[i] = v
           /\ \A j \in DOMAIN q : j # i => Put(q, i, v)[j] = q[j]
<1> DEFINE n == IF i > Len(q) THEN i ELSE Len(q)
           f == [j \in 1 .. n |-> IF j = i THEN v ELSE q[j]]
<1>1. Len(q) \in Nat /\ DOMAIN q = 1 .. Len(q) /\ n \in Nat /\ 1 .. n = DOMAIN q \cup {i}
    OBVIOUS
<1>2. Put(q, i, v) = f
    BY DEF Put
<1>3. \A j \in 1 .. n : f[j] \in Obj
    BY <1>1
<1>4. f \in Seq(Obj)
    BY <1>1, <1>3
<1> QED
    BY <1>1, <1>2, <1>4

-------------------------------------------------------------------------------
\* What a step changes

\* Only t moves, to the call c.
Moves(t, c) == call' = [u \in Task |-> IF u = t THEN c ELSE call[u]]

\* c owns a descriptor of s; c is about to free the slot of s.
Has(c, s)   == (c.op \in {"handshake", "insert"} /\ c.obj = s) \/ c.clone = s
Frees(c, s) == c.op = "clearing" /\ c.obj = s

\* Where the slots are.
SlotsAreWhere(s) ==
    /\ \A k \in Tables : \A i \in DOMAIN slab[k] : <<k, i>> \in Slots(s) <=> slab[k][i] = s
    /\ \A x \in Slots(s) : \E k \in Tables : \E i \in DOMAIN slab[k] : x = <<k, i>> /\ slab[k][i] = s

\* The slots that hold s are the places where it is.
LEMMA SlotsDef == \A s : SlotsAreWhere(s)
<1> SUFFICES ASSUME NEW s PROVE SlotsAreWhere(s)
    OBVIOUS
<1>1. \A k \in Tables : \A i \in DOMAIN slab[k] : <<k, i>> \in Places
    BY DEF Places
<1>2. ASSUME NEW x \in Places
      PROVE  \E k \in Tables : \E i \in DOMAIN slab[k] : x = <<k, i>>
    <2>1. PICK k \in Tables : x \in {k} \X DOMAIN slab[k]
        BY <1>2 DEF Places
    <2> QED
        BY <2>1
<1>3. \A k \in Tables : \A i \in DOMAIN slab[k] : <<k, i>> \in Slots(s) <=> slab[k][i] = s
    BY <1>1 DEF Slots
<1>4. ASSUME NEW x \in Slots(s)
      PROVE  \E k \in Tables : \E i \in DOMAIN slab[k] : x = <<k, i>> /\ slab[k][i] = s
    <2>1. x \in Places /\ slab[x[1]][x[2]] = s
        BY <1>4 DEF Slots
    <2>2. PICK k \in Tables : \E i \in DOMAIN slab[k] : x = <<k, i>>
        BY <1>2, <2>1
    <2> QED
        BY <2>1, <2>2
<1> QED
    BY <1>3, <1>4 DEF SlotsAreWhere

\* The same after a step.
LEMMA SlotsDefNext == (\A s : SlotsAreWhere(s))'
BY SlotsDef, PTL

\* Natural numbers are integers.
LEMMA NatInt == \A n : n \in Nat => n \in Int
OBVIOUS

\* The accounts of s stay balanced when only t and the slot p change.
LEMMA Balance ==
    ASSUME NEW s \in Sock, NEW t \in Task, NEW c, NEW p,
           Accounted(s), Moves(t, c),
           \A x : x # p => (x \in Slots(s) <=> x \in Slots(s)'),
           sock[s].refs \in Int, sock'[s].refs \in Int,
           sock'[s].refs + Ind(Frees(c, s)) + Ind(p \in Slots(s)) + Ind(Has(call[t], s))
             = sock[s].refs + Ind(Frees(call[t], s)) + Ind(p \in Slots(s)') + Ind(Has(c, s))
    PROVE  Accounted(s)'
<1>1. IsFiniteSet(Carriers(s)) /\ IsFiniteSet(Clearers(s))
    BY TaskAssumption, FS_Subset DEF Carriers, Clearers
<1>2. \A u : u # t => (u \in Carriers(s) <=> u \in Carriers(s)')
    BY DEF Carriers, Carries, At, Moves
<1>3. \A u : u # t => (u \in Clearers(s) <=> u \in Clearers(s)')
    BY DEF Clearers, Clears, At, Moves
<1>4. /\ t \in Carriers(s) <=> Has(call[t], s)
      /\ t \in Carriers(s)' <=> Has(c, s)
      /\ t \in Clearers(s) <=> Frees(call[t], s)
      /\ t \in Clearers(s)' <=> Frees(c, s)
    BY DEF Carriers, Carries, Clearers, Clears, At, Moves, Has, Frees
<1> DEFINE B1 == Cardinality(Slots(s))  B2 == Cardinality(Slots(s)')
           C1 == Cardinality(Carriers(s))  C2 == Cardinality(Carriers(s)')
           D1 == Cardinality(Clearers(s))  D2 == Cardinality(Clearers(s)')
           R1 == sock[s].refs  R2 == sock'[s].refs
<1>5. /\ IsFiniteSet(Slots(s)') /\ B1 \in Nat /\ B2 \in Nat
      /\ B2 + Ind(p \in Slots(s)) = B1 + Ind(p \in Slots(s)')
    BY Swap DEF Accounted
<1>6. /\ C1 \in Nat /\ C2 \in Nat
      /\ C2 + Ind(t \in Carriers(s)) = C1 + Ind(t \in Carriers(s)')
    BY Swap, <1>1, <1>2
<1>7. /\ D1 \in Nat /\ D2 \in Nat
      /\ D2 + Ind(t \in Clearers(s)) = D1 + Ind(t \in Clearers(s)')
    BY Swap, <1>1, <1>3
<1>8. R1 + D1 = B1 + C1
    BY DEF Accounted, Owned
<1>9. R1 \in Int /\ R2 \in Int
    OBVIOUS
<1>10. R2 + Ind(Frees(c, s)) + Ind(p \in Slots(s)) + Ind(Has(call[t], s))
             = R1 + Ind(Frees(call[t], s)) + Ind(p \in Slots(s)') + Ind(Has(c, s))
    OBVIOUS
<1>11. C2 + Ind(Has(call[t], s)) = C1 + Ind(Has(c, s))
    BY <1>4, <1>6 DEF Ind
<1>12. D2 + Ind(Frees(call[t], s)) = D1 + Ind(Frees(c, s))
    BY <1>4, <1>7 DEF Ind
<1>13. /\ Ind(Frees(c, s)) \in Int /\ Ind(p \in Slots(s)) \in Int /\ Ind(Has(call[t], s)) \in Int
       /\ Ind(Frees(call[t], s)) \in Int /\ Ind(p \in Slots(s)') \in Int /\ Ind(Has(c, s)) \in Int
    BY DEF Ind
<1>14. R2 + D2 = B2 + C2
    <2> DEFINE P1 == Ind(p \in Slots(s))  P2 == Ind(p \in Slots(s)')
               F1 == Ind(Frees(call[t], s))  F2 == Ind(Frees(c, s))
               H1 == Ind(Has(call[t], s))  H2 == Ind(Has(c, s))
    <2>1. /\ R2 + F2 + P1 + H1 = R1 + F1 + P2 + H2
          /\ B2 + P1 = B1 + P2 /\ C2 + H1 = C1 + H2 /\ D2 + F1 = D1 + F2
        BY <1>5, <1>10, <1>11, <1>12, Zenon
    <2>2. /\ P1 \in Int /\ P2 \in Int /\ F1 \in Int /\ F2 \in Int /\ H1 \in Int /\ H2 \in Int
          /\ B1 \in Int /\ B2 \in Int /\ C1 \in Int /\ C2 \in Int /\ D1 \in Int /\ D2 \in Int
          /\ R1 \in Int /\ R2 \in Int
        BY <1>13, <1>5, <1>6, <1>7, <1>9, NatInt, Zenon
    <2> HIDE DEF B1, B2, C1, C2, D1, D2, R1, R2, P1, P2, F1, F2, H1, H2
    <2> QED
        BY ONLY <2>1, <2>2, <1>8
<1> QED
    BY <1>5, <1>14 DEF Accounted, Owned

\* When the tables stay as they are, only the descriptors of t count.
LEMMA BalanceSame ==
    ASSUME NEW s \in Sock, NEW t \in Task, NEW c,
           Accounted(s), Moves(t, c), slab' = slab,
           sock[s].refs \in Int, sock'[s].refs \in Int,
           sock'[s].refs + Ind(Frees(c, s)) + Ind(Has(call[t], s))
             = sock[s].refs + Ind(Frees(call[t], s)) + Ind(Has(c, s))
    PROVE  Accounted(s)'
<1>1. Slots(s)' = Slots(s)
    BY DEF Slots, Places
<1>2. /\ Ind(t \in Slots(s)) \in Int /\ Ind(Frees(c, s)) \in Int /\ Ind(Has(call[t], s)) \in Int
      /\ Ind(Frees(call[t], s)) \in Int /\ Ind(Has(c, s)) \in Int
    BY DEF Ind
<1>3. sock'[s].refs + Ind(Frees(c, s)) + Ind(t \in Slots(s)) + Ind(Has(call[t], s))
        = sock[s].refs + Ind(Frees(call[t], s)) + Ind(t \in Slots(s)) + Ind(Has(c, s))
    <2> DEFINE R1 == sock[s].refs  R2 == sock'[s].refs  P == Ind(t \in Slots(s))
               F1 == Ind(Frees(call[t], s))  F2 == Ind(Frees(c, s))
               H1 == Ind(Has(call[t], s))  H2 == Ind(Has(c, s))
    <2>1. R2 + F2 + H1 = R1 + F1 + H2
        OBVIOUS
    <2>2. {R1, R2, P, F1, F2, H1, H2} \subseteq Int
        BY <1>2
    <2> HIDE DEF R1, R2, P, F1, F2, H1, H2
    <2>3. R2 + F2 + P + H1 = R1 + F1 + P + H2
        BY <2>1, <2>2
    <2> QED
        BY <2>3 DEF R1, R2, P, F1, F2, H1, H2
<1> QED
    BY <1>1, <1>3, Balance

-------------------------------------------------------------------------------
\* What the invariant says of a state

\* An entry of a table, and what a task has, is made and in no backlog.
LEMMA Mentioned ==
    ASSUME SocketsInv
    PROVE  /\ \A k \in Tables : \A i \in DOMAIN slab[k] : slab[k][i] # Nil =>
                  slab[k][i] \in Sock /\ sock[slab[k][i]].kind # "none" /\ sock[slab[k][i]].via = Nil
           /\ \A t \in Task : call[t].obj # Nil =>
                  call[t].obj \in Sock /\ sock[call[t].obj].kind # "none" /\ sock[call[t].obj].via = Nil
           /\ \A t \in Task : call[t].clone # Nil =>
                  call[t].clone \in Sock /\ sock[call[t].clone].kind # "none" /\ sock[call[t].clone].via = Nil
<1>1. \A x \in Obj : x # Nil => x \in Sock
    BY SocketsAssumption DEF Obj, Sock, Nil
<1>2. \A k \in Tables : \A i \in DOMAIN slab[k] : slab[k][i] \in Obj
    BY DEF SocketsInv, SocketsTypeOK
<1>3. \A t \in Task : call[t].obj \in Obj /\ call[t].clone \in Obj
    BY DEF SocketsInv, SocketsTypeOK, CallType
<1>4. \A s \in Sock : sock[s].kind = "none" \/ sock[s].via # Nil => Unmentioned(s)
    BY DEF SocketsInv, Untouched
<1> QED
    BY <1>1, <1>2, <1>3, <1>4 DEF Unmentioned

\* The next number is not used yet.
LEMMA NewFacts ==
    ASSUME SocketsInv
    PROVE  /\ New \in Nat /\ New > 0 /\ Made = 1 .. (New - 1)
           /\ New \in Sock => sock[New] = Unused
<1>1. PICK n \in Obj : Made = 1 .. n
    BY DEF SocketsInv, Numbered
<1>2. n \in Nat
    BY SocketsAssumption DEF Obj
<1>3. Cardinality(1 .. n) = n
    BY <1>2, FS_Interval
<1>4. New = n + 1
    BY <1>1, <1>3 DEF New
<1>5. New \in Sock => New \notin Made
    BY <1>1, <1>2, <1>4
<1> QED
    BY <1>1, <1>2, <1>4, <1>5 DEF SocketsInv, Numbered, Made

\* The types of the parts of sock.
LEMMA SockFacts ==
    ASSUME SocketsTypeOK, NEW s \in Sock
    PROVE  /\ sock[s] \in SockRecord /\ sock[s].refs \in Int /\ sock[s].via \in Obj
           /\ sock[s].peer \in BOOLEAN /\ sock[s].kind \in {"none", "conn", "listener"}
<1>1. sock[s] \in SockRecord
    BY DEF SocketsTypeOK
<1> QED
    BY <1>1 DEF SockRecord

\* Connections keep their numbers when none is made.
LEMMA NumberedKeep ==
    ASSUME Numbered, \A s \in Sock : sock'[s].kind = sock[s].kind,
           \A s \in Sock : sock[s].kind = "none" => sock'[s] = sock[s]
    PROVE  Numbered'
<1>1. Made' = Made
    BY DEF Made
<1> QED
    BY <1>1 DEF Numbered

\* Closing a descriptor of o changes the count of o and the backlog of o.
LEMMA DropFacts ==
    ASSUME SocketsInv, NEW o \in Obj, o # Nil => sock[o].kind # "none",
           sock' = Drop(o)
    PROVE  /\ sock' \in [Sock -> SockRecord]
           /\ \A s \in Sock : /\ sock'[s].kind = sock[s].kind
                              /\ sock'[s].via = sock[s].via \/ sock'[s].via = Nil
                              /\ sock'[s].refs = IF s = o THEN sock[s].refs - 1 ELSE sock[s].refs
                              /\ sock[s].kind = "none" => sock'[s] = sock[s]
<1>0. Nil \in Obj
    BY SocketsAssumption DEF Obj, Nil
<1>1. SUFFICES ASSUME NEW s \in Sock
               PROVE  /\ sock'[s] \in SockRecord
                      /\ sock'[s].kind = sock[s].kind
                      /\ sock'[s].via = sock[s].via \/ sock'[s].via = Nil
                      /\ sock'[s].refs = IF s = o THEN sock[s].refs - 1 ELSE sock[s].refs
                      /\ sock[s].kind = "none" => sock'[s] = sock[s]
    BY DEF Drop
<1>2. sock[s] \in SockRecord /\ sock[s].refs \in Int
    BY SockFacts DEF SocketsInv
<1>3. sock[s].kind = "none" => sock[s].via = Nil
    BY DEF SocketsInv, Numbered, Unused
<1>4. CASE s = o
    <2>1. sock'[s] = [sock[s] EXCEPT !.refs = @ - 1]
        BY <1>4 DEF Drop
    <2>2. s # Nil
        BY DEF Sock, Nil
    <2> QED
        BY <2>1, <2>2, <1>2, <1>4 DEF SockRecord
<1>5. CASE s # o /\ o # Nil /\ sock[s].via = o /\ sock[o].refs = 1
    <2>1. sock'[s] = [sock[s] EXCEPT !.via = Nil, !.peer = FALSE]
        BY <1>5 DEF Drop
    <2> QED
        BY <2>1, <1>0, <1>2, <1>3, <1>5 DEF SockRecord
<1>6. CASE s # o /\ ~(o # Nil /\ sock[s].via = o /\ sock[o].refs = 1)
    <2>1. sock'[s] = sock[s]
        BY <1>6 DEF Drop
    <2> QED
        BY <2>1, <1>2, <1>6
<1> QED
    BY <1>4, <1>5, <1>6

-------------------------------------------------------------------------------
\* Steps

\* The types after a step of t.
LEMMA TypeStep ==
    ASSUME SocketsTypeOK, NEW t \in Task, NEW c, CallType(c), Moves(t, c), backend' = backend,
           slab' \in [Tables -> Seq(Obj)], sock' \in [Sock -> SockRecord],
           lock' = [l \in Locks |-> lock'[l]]
    PROVE  SocketsTypeOK'
<1>1. \A u \in Task : call'[u] = IF u = t THEN c ELSE call[u]
    BY DEF Moves
<1>2. call' = [u \in Task |-> call'[u]]
    BY DEF Moves
<1>3. \A u \in Task : CallType(call'[u])
    BY <1>1 DEF SocketsTypeOK
<1>4. \A u \in Task : CallType(call[u])'
    BY <1>3 DEF CallType
<1> QED
    BY <1>2, <1>4 DEF SocketsTypeOK

\* A step of t that leaves the tables alone.
LEMMA SameTables ==
    ASSUME SocketsInv, NEW t \in Task, NEW c, CallType(c), Moves(t, c),
           slab' = slab, backend' = backend, sock' \in [Sock -> SockRecord],
           lock' = [l \in Locks |-> lock'[l]],
           \A u \in Task : u # t /\ lock["thread"] = u => lock'["thread"] = u,
           Numbered',
           \A s \in Sock : sock'[s].kind = "none" \/ sock'[s].via # Nil =>
                              /\ sock[s].kind = "none" \/ sock[s].via # Nil
                              /\ sock'[s].refs = sock[s].refs /\ c.obj # s /\ c.clone # s,
           TaskInv(t)',
           c.op \in {"handshake", "insert"} =>
               \A u \in Task \ {t} : call[u].op \in {"handshake", "insert"} => call[u].obj # c.obj,
           \A s \in Sock : sock'[s].refs + Ind(Frees(c, s)) + Ind(Has(call[t], s))
                             = sock[s].refs + Ind(Frees(call[t], s)) + Ind(Has(c, s))
    PROVE  SocketsInv'
<1>1. \A u \in Task : call'[u] = IF u = t THEN c ELSE call[u]
    BY DEF Moves
<1>2. SocketsTypeOK'
    BY TypeStep DEF SocketsInv, SocketsTypeOK
<1>3. Untouched'
    <2>1. SUFFICES ASSUME NEW s \in Sock, sock'[s].kind = "none" \/ sock'[s].via # Nil
                   PROVE  Unmentioned(s)' /\ sock'[s].refs = 0
        BY DEF Untouched
    <2>2. Unmentioned(s) /\ sock[s].refs = 0
        BY <2>1 DEF SocketsInv, Untouched
    <2> QED
        BY <1>1, <2>1, <2>2 DEF Unmentioned
<1>4. ASSUME NEW u \in Task
      PROVE  TaskInv(u)'
    <2>1. CASE u = t
        BY <2>1
    <2>2. CASE u # t
        <3>1. call'[u] = call[u] /\ TaskInv(u)
            BY <1>1, <2>2 DEF SocketsInv
        <3>2. backend = "vm" /\ call[u].op \in {"close", "closing", "clearing"} => lock'["thread"] = u
            BY <3>1, <2>2 DEF TaskInv
        <3>3. ASSUME call[u].op \in {"handshake", "insert"},
                     NEW w \in Task \ {u}, call'[w].op \in {"handshake", "insert"}
              PROVE  call'[w].obj # call[u].obj
            BY <1>1, <2>2, <3>1, <3>3 DEF At, TaskInv
        <3> QED
            BY <3>1, <3>2, <3>3 DEF TaskInv, At
    <2> QED
        BY <2>1, <2>2
<1>5. ASSUME NEW s \in Sock
      PROVE  Accounted(s)'
    <2>1. sock[s].refs \in Int /\ sock'[s].refs \in Int
        BY SockFacts, <1>2 DEF SocketsInv, SocketsTypeOK, SockRecord
    <2>2. Accounted(s)
        BY DEF SocketsInv
    <2> QED
        BY <2>1, <2>2, BalanceSame
<1> QED
    BY <1>2, <1>3, <1>4, <1>5 DEF SocketsInv

\* The end of a builtin.
LEMMA ReturnFacts ==
    ASSUME SocketsInv, NEW t \in Task, NEW r, Return(t, r)
    PROVE  /\ Moves(t, Idle(r)) /\ CallType(Idle(r))
           /\ lock' = [l \in Locks |-> lock'[l]]
           /\ \A u \in Task : u # t /\ lock["thread"] = u => lock'["thread"] = u
           /\ (backend' = backend => TaskInv(t)')
           /\ \A s \in Sock : ~Has(Idle(r), s) /\ ~Frees(Idle(r), s)
<1>1. call = [u \in Task |-> call[u]]
    BY DEF SocketsInv, SocketsTypeOK
<1>2. Moves(t, Idle(r))
    BY <1>1 DEF Return, Moves
<1>3. CallType(Idle(r))
    BY SocketsAssumption DEF CallType, Idle, Ops, Tables, Obj, Nil
<1>4. /\ lock' = [l \in Locks |-> lock'[l]]
      /\ \A u \in Task : u # t /\ lock["thread"] = u => lock'["thread"] = u
    BY DEF Return, Locks
<1>5. call'[t] = Idle(r)
    BY <1>2 DEF Moves
<1>6. TaskInv(t)'
    BY <1>5 DEF TaskInv, Idle, At
<1>7. \A s \in Sock : ~Has(Idle(r), s) /\ ~Frees(Idle(r), s)
    BY DEF Has, Frees, Idle, Sock, Nil
<1> QED
    BY <1>2, <1>3, <1>4, <1>6, <1>7

\* A builtin goes on to wait.
Waiting(t, op, obj) == [call[t] EXCEPT !.op = op, !.obj = obj]

\* What a call that goes on waiting changes.
LEMMA WaitFacts ==
    ASSUME SocketsInv, NEW t \in Task, NEW op \in Ops, NEW obj \in Obj, NEW ls,
           "thread" \notin ls, Wait(t, op, obj, ls)
    PROVE  /\ Moves(t, Waiting(t, op, obj)) /\ CallType(Waiting(t, op, obj))
           /\ lock' = [l \in Locks |-> lock'[l]]
           /\ lock'["thread"] = lock["thread"]
           /\ Waiting(t, op, obj).op = op /\ Waiting(t, op, obj).obj = obj
           /\ Waiting(t, op, obj).clone = call[t].clone
           /\ Waiting(t, op, obj).table = call[t].table /\ Waiting(t, op, obj).h = call[t].h
<1>1. call = [u \in Task |-> call[u]] /\ CallType(call[t])
    BY DEF SocketsInv, SocketsTypeOK
<1>2. Waiting(t, op, obj) \in [op : Ops, table : Tables, tls : BOOLEAN, h : Int,
                                obj : Obj, clone : Obj, result : {call[t].result}]
    BY <1>1 DEF Waiting, CallType
<1>3. /\ Waiting(t, op, obj).op = op /\ Waiting(t, op, obj).obj = obj
      /\ Waiting(t, op, obj).clone = call[t].clone
      /\ Waiting(t, op, obj).table = call[t].table /\ Waiting(t, op, obj).h = call[t].h
    BY <1>1 DEF Waiting, CallType
<1>4. call' = [call EXCEPT ![t] = Waiting(t, op, obj)]
    BY <1>1 DEF Wait, Waiting
<1>5. Moves(t, Waiting(t, op, obj))
    BY <1>1, <1>4 DEF Moves
<1>6. CallType(Waiting(t, op, obj))
    BY <1>1, <1>2 DEF CallType
<1> QED
    BY <1>5, <1>6, <1>3 DEF Wait, Locks

\* A builtin ends and closes what it has, the tables left alone.
LEMMA ReturnSame ==
    ASSUME SocketsInv, NEW t \in Task, NEW r, Return(t, r), slab' = slab, backend' = backend,
           ~At(t, "clearing"), sock' \in [Sock -> SockRecord],
           \A s \in Sock : /\ sock'[s].kind = sock[s].kind
                           /\ sock'[s].via = sock[s].via \/ sock'[s].via = Nil
                           /\ sock'[s].refs = sock[s].refs - Ind(Has(call[t], s))
                           /\ sock[s].kind = "none" => sock'[s] = sock[s]
    PROVE  SocketsInv'
<1> DEFINE c == Idle(r)
<1>1. /\ Moves(t, c) /\ CallType(c) /\ lock' = [l \in Locks |-> lock'[l]]
      /\ \A u \in Task : u # t /\ lock["thread"] = u => lock'["thread"] = u
      /\ TaskInv(t)' /\ \A s \in Sock : ~Has(c, s) /\ ~Frees(c, s)
    BY ReturnFacts
<1>2. Numbered'
    BY NumberedKeep DEF SocketsInv
<1>3. ASSUME NEW s \in Sock
      PROVE  sock'[s].refs + Ind(Frees(c, s)) + Ind(Has(call[t], s))
                = sock[s].refs + Ind(Frees(call[t], s)) + Ind(Has(c, s))
    <2>1. sock[s].refs \in Int
        BY SockFacts DEF SocketsInv
    <2>2. Ind(Frees(c, s)) = 0 /\ Ind(Has(c, s)) = 0 /\ Ind(Frees(call[t], s)) = 0
        BY <1>1 DEF Ind, Frees, At
    <2>3. Ind(Has(call[t], s)) \in Int
        BY DEF Ind
    <2> HIDE DEF c
    <2> QED
        BY <2>1, <2>2, <2>3
<1>4. c.obj = Nil /\ c.clone = Nil /\ c.op = "idle"
    BY DEF Idle
<1>5. \A s \in Sock : sock'[s].kind = "none" \/ sock'[s].via # Nil =>
                              /\ sock[s].kind = "none" \/ sock[s].via # Nil
                              /\ sock'[s].refs = sock[s].refs /\ c.obj # s /\ c.clone # s
    <2>1. SUFFICES ASSUME NEW s \in Sock, sock'[s].kind = "none" \/ sock'[s].via # Nil
                   PROVE  /\ sock[s].kind = "none" \/ sock[s].via # Nil
                          /\ sock'[s].refs = sock[s].refs /\ s # Nil
        BY <1>4
    <2>2. sock[s].kind = "none" \/ sock[s].via # Nil
        BY <2>1
    <2>3. ~Has(call[t], s)
        BY <2>2 DEF SocketsInv, Untouched, Unmentioned, Has
    <2>4. sock[s].refs \in Int
        BY SockFacts DEF SocketsInv
    <2> QED
        BY <2>2, <2>3, <2>4 DEF Ind, Sock, Nil
<1> HIDE DEF c
<1> QED
    BY <1>1, <1>2, <1>3, <1>4, <1>5, SameTables

\* A builtin goes on to wait for a connection or listener that it found.
LEMMA WaitSame ==
    ASSUME SocketsInv, NEW t \in Task, NEW op \in {"accepting", "reading", "writing", "close", "closing"},
           NEW obj \in Sock, NEW ls, "thread" \notin ls, Wait(t, op, obj, ls),
           slab' = slab, backend' = backend, sock' = sock,
           call[t].op \in {"accept", "read", "write", "close"},
           sock[obj].kind # "none", sock[obj].via = Nil,
           op = "close" => backend = "native",
           op = "closing" => /\ At(t, "close") /\ backend = "vm"
                             /\ call[t].h + 1 \in DOMAIN slab[call[t].table]
                             /\ slab[call[t].table][call[t].h + 1] = obj
    PROVE  SocketsInv'
<1> DEFINE c == Waiting(t, op, obj)
<1>0. op \in Ops /\ obj \in Obj
    BY DEF Ops, Sock, Obj
<1>1. /\ Moves(t, c) /\ CallType(c) /\ lock' = [l \in Locks |-> lock'[l]]
      /\ lock'["thread"] = lock["thread"] /\ c.op = op /\ c.obj = obj /\ c.clone = call[t].clone
      /\ c.table = call[t].table /\ c.h = call[t].h
    BY <1>0, WaitFacts
<1>2. TaskInv(t) /\ call[t].clone = Nil
    BY DEF SocketsInv, TaskInv, At
<1>3. sock' \in [Sock -> SockRecord] /\ Numbered'
    BY NumberedKeep DEF SocketsInv, SocketsTypeOK
<1>4. ASSUME NEW s \in Sock
      PROVE  /\ ~Frees(c, s) /\ ~Has(c, s) /\ ~Frees(call[t], s) /\ ~Has(call[t], s)
    BY <1>1, <1>2 DEF Frees, Has, Sock, Nil
<1>5. ASSUME NEW s \in Sock
      PROVE  sock'[s].refs + Ind(Frees(c, s)) + Ind(Has(call[t], s))
                = sock[s].refs + Ind(Frees(call[t], s)) + Ind(Has(c, s))
    BY <1>4 DEF Ind
<1>6. call'[t] = c
    BY <1>1 DEF Moves
<1> HIDE DEF c
<1>7. TaskInv(t)'
    BY <1>1, <1>2, <1>6 DEF TaskInv, At, Sock, Nil
<1>8. \A s \in Sock : sock'[s].kind = "none" \/ sock'[s].via # Nil =>
                              /\ sock[s].kind = "none" \/ sock[s].via # Nil
                              /\ sock'[s].refs = sock[s].refs /\ c.obj # s /\ c.clone # s
    BY <1>1, <1>2 DEF Sock, Nil
<1>9. c.op \notin {"handshake", "insert"}
    BY <1>1
<1> QED
    BY <1>1, <1>3, <1>5, <1>7, <1>8, <1>9, SameTables

\* A valid handle names something open or being closed.
LEMMA EntryFacts ==
    ASSUME SocketsInv, NEW t \in Task, Valid(call[t].table, call[t].h)
    PROVE  /\ call[t].table \in Tables /\ call[t].h \in Int
           /\ call[t].h + 1 \in DOMAIN slab[call[t].table]
           /\ Entry(t) = slab[call[t].table][call[t].h + 1]
           /\ Entry(t) \in Sock /\ sock[Entry(t)].kind # "none" /\ sock[Entry(t)].via = Nil
<1>1. call[t].table \in Tables /\ call[t].h \in Int
    BY DEF SocketsInv, SocketsTypeOK, CallType
<1>2. slab[call[t].table] \in Seq(Obj)
    BY <1>1 DEF SocketsInv, SocketsTypeOK
<1>3. call[t].h + 1 \in DOMAIN slab[call[t].table] /\ slab[call[t].table][call[t].h + 1] # Nil
    BY <1>1, <1>2 DEF Valid
<1> QED
    BY <1>1, <1>3, Mentioned DEF Entry

\* A call of a builtin.
LEMMA BeginInv ==
    ASSUME SocketsInv, NEW t \in Task, NEW b \in Builtins, Begin(t, b)
    PROVE  SocketsInv'
<1> DEFINE c == [Idle(Err) EXCEPT !.op = b[1], !.table = Table(b[2]), !.tls = (b[2] = "tls"), !.h = b[3]]
<1>1. b[1] \in {"connect", "listen", "accept", "read", "write", "close"} /\ b[2] \in Tables /\ b[3] \in Int
    <2>1. Kinds \subseteq Tables /\ Handles \subseteq Int /\ -1 \in Int /\ "listener" \in Tables
        BY SocketsAssumption DEF Tables
    <2>2. \/ b \in {"connect"} \X Kinds \X {-1} \/ b \in {"listen"} \X {"listener"} \X {-1}
          \/ b \in {"accept"} \X {"listener"} \X Handles
          \/ b \in {"read", "write"} \X Kinds \X Handles
          \/ b \in {"close"} \X Tables \X Handles
        BY DEF Builtins
    <2> HIDE DEF c
    <2>3. CASE b \in {"connect"} \X Kinds \X {-1}
        BY <2>1, <2>3
    <2>4. CASE b \in {"listen"} \X {"listener"} \X {-1}
        BY <2>1, <2>4
    <2>5. CASE b \in {"accept"} \X {"listener"} \X Handles
        BY <2>1, <2>5
    <2>6. CASE b \in {"read", "write"} \X Kinds \X Handles
        BY <2>1, <2>6
    <2>7. CASE b \in {"close"} \X Tables \X Handles
        BY <2>1, <2>7
    <2> QED
        BY <2>2, <2>3, <2>4, <2>5, <2>6, <2>7
<1>2. Table(b[2]) \in Tables
    BY <1>1 DEF Table, Tables
<1>3. /\ c.op = b[1] /\ c.obj = Nil /\ c.clone = Nil /\ CallType(c)
    <2>1. Nil \in Obj
        BY SocketsAssumption DEF Obj, Nil
    <2> QED
        BY <1>1, <1>2, <2>1 DEF Idle, CallType, Ops
<1>4. Moves(t, c)
    <2>1. call' = [call EXCEPT ![t] = c] /\ call = [u \in Task |-> call[u]]
        BY DEF Begin, SocketsInv, SocketsTypeOK
    <2> HIDE DEF c
    <2> QED
        BY <2>1 DEF Moves
<1>5. lock = [l \in Locks |-> lock[l]]
    BY DEF SocketsInv, SocketsTypeOK
<1>6. /\ lock' = [l \in Locks |-> lock'[l]]
      /\ \A u \in Task : u # t /\ lock["thread"] = u => lock'["thread"] = u
      /\ backend = "vm" /\ b[1] = "close" => lock'["thread"] = t
    <2>1. CASE backend = "vm" /\ b[1] \in {"write", "close"}
        <3>1. lock' = [lock EXCEPT !["thread"] = t] /\ lock["thread"] = Nobody
            BY <2>1 DEF Begin, Free
        <3> QED
            BY <3>1, <1>5, TaskAssumption DEF Locks
    <2>2. CASE ~(backend = "vm" /\ b[1] \in {"write", "close"})
        BY <2>2, <1>5 DEF Begin
    <2> QED
        BY <2>1, <2>2
<1>7. slab' = slab /\ sock' = sock /\ backend' = backend /\ At(t, "idle")
    BY DEF Begin
<1>8. sock' \in [Sock -> SockRecord] /\ Numbered'
    BY <1>7, NumberedKeep DEF SocketsInv, SocketsTypeOK
<1>9. call[t].clone = Nil
    BY <1>7 DEF SocketsInv, TaskInv, At
<1>10. call'[t] = c
    BY <1>4 DEF Moves
<1> HIDE DEF c
<1>11. TaskInv(t)'
    BY <1>1, <1>3, <1>6, <1>7, <1>10 DEF TaskInv, At
<1>12. ASSUME NEW s \in Sock
       PROVE  sock'[s].refs + Ind(Frees(c, s)) + Ind(Has(call[t], s))
                = sock[s].refs + Ind(Frees(call[t], s)) + Ind(Has(c, s))
    <2>1. ~Frees(c, s) /\ ~Has(c, s) /\ ~Frees(call[t], s) /\ ~Has(call[t], s)
        BY <1>1, <1>3, <1>7, <1>9 DEF Frees, Has, At, Sock, Nil
    <2> QED
        BY <2>1, <1>7 DEF Ind
<1>13. \A s \in Sock : c.obj # s /\ c.clone # s
    BY <1>3 DEF Sock, Nil
<1>14. c.op \notin {"handshake", "insert"}
    BY <1>1, <1>3
<1> QED
    BY <1>3, <1>4, <1>6, <1>7, <1>8, <1>11, <1>12, <1>13, <1>14, SameTables

\* A builtin that ends with nothing in its hands leaves the connections alone.
LEMMA PlainReturn ==
    ASSUME SocketsInv, NEW t \in Task, NEW r, Return(t, r), UNCHANGED <<slab, backend, sock>>,
           call[t].op \notin {"handshake", "insert", "accepting", "clearing"}
    PROVE  SocketsInv'
<1>1. call[t].clone = Nil
    BY DEF SocketsInv, TaskInv, At
<1>2. \A s \in Sock : ~Has(call[t], s) /\ sock[s].refs \in Int
    BY <1>1, SockFacts DEF Has, Sock, Nil, SocketsInv
<1>3. \A s \in Sock : sock'[s].refs = sock[s].refs - Ind(Has(call[t], s))
    BY <1>2 DEF Ind
<1> QED
    BY <1>3, ReturnSame DEF At, SocketsInv, SocketsTypeOK

\* A handle that names nothing is refused.
LEMMA RefuseInv ==
    ASSUME SocketsInv, NEW t \in Task, Refuse(t)
    PROVE  SocketsInv'
<1>1. Return(t, Err) /\ UNCHANGED <<slab, backend, sock>> /\ call[t].op \in {"accept", "read", "write", "close"}
    BY DEF Refuse
<1> QED
    BY <1>1, PlainReturn

\* A read looks its stream up.
LEMMA ReadInv ==
    ASSUME SocketsInv, NEW t \in Task, Read(t)
    PROVE  SocketsInv'
<1> DEFINE ls == IF backend = "vm" THEN {} ELSE {call[t].table}
<1>1. /\ At(t, "read") /\ Valid(call[t].table, call[t].h)
      /\ Wait(t, "reading", Entry(t), ls) /\ UNCHANGED <<slab, backend, sock>>
    BY DEF Read, Found
<1>2. "thread" \notin ls
    BY <1>1, EntryFacts DEF Tables
<1> HIDE DEF ls
<1> QED
    BY <1>1, <1>2, EntryFacts, WaitSame DEF At

\* A write looks its stream up.
LEMMA WriteInv ==
    ASSUME SocketsInv, NEW t \in Task, Write(t)
    PROVE  SocketsInv'
<1> DEFINE ls == IF backend = "vm" THEN {} ELSE {call[t].table}
<1>1. /\ At(t, "write") /\ Valid(call[t].table, call[t].h)
      /\ Wait(t, "writing", Entry(t), ls) /\ UNCHANGED <<slab, backend, sock>>
    BY DEF Write, Found
<1>2. "thread" \notin ls
    BY <1>1, EntryFacts DEF Tables
<1> HIDE DEF ls
<1> QED
    BY <1>1, <1>2, EntryFacts, WaitSame DEF At

\* The native close of a TLS stream to which nothing can be written.
LEMMA CloseWaitsInv ==
    ASSUME SocketsInv, NEW t \in Task, CloseWaits(t)
    PROVE  SocketsInv'
<1>1. /\ backend = "native" /\ At(t, "close") /\ Valid(call[t].table, call[t].h)
      /\ Wait(t, "close", Entry(t), {"tls"}) /\ UNCHANGED <<slab, backend, sock>>
    BY DEF CloseWaits, Found
<1>2. "thread" \notin {"tls"}
    OBVIOUS
<1> QED
    BY <1>1, <1>2, EntryFacts, WaitSame DEF At

\* A close of the VM looks its object up.
LEMMA CloseLookupInv ==
    ASSUME SocketsInv, NEW t \in Task, CloseLookup(t)
    PROVE  SocketsInv'
<1>1. /\ backend = "vm" /\ At(t, "close") /\ Valid(call[t].table, call[t].h)
      /\ Wait(t, "closing", Entry(t), {}) /\ UNCHANGED <<slab, backend, sock>>
    BY DEF CloseLookup, Found
<1> QED
    BY <1>1, EntryFacts, WaitSame DEF At

\* What is new takes the next number.
LEMMA NumberedNew ==
    ASSUME SocketsInv, New \in Sock, NEW rec \in SockRecord, rec.kind # "none",
           sock' = [sock EXCEPT ![New] = rec]
    PROVE  Numbered'
<1>1. /\ New \in Nat /\ New > 0 /\ Made = 1 .. (New - 1) /\ New <= MaxSocks
    BY NewFacts, SocketsAssumption DEF Sock
<1> DEFINE n == New
<1>2. \A s \in Sock : sock'[s] = IF s = n THEN rec ELSE sock[s]
    BY DEF SocketsInv, SocketsTypeOK
<1>3. Made' = Made \cup {n}
    BY <1>2 DEF Made
<1>4. n \in Obj /\ Made' = 1 .. n
    <2> HIDE DEF n
    <2>1. n \in Nat /\ n > 0 /\ Made = 1 .. (n - 1) /\ n <= MaxSocks
        BY <1>1 DEF n
    <2> QED
        BY <2>1, <1>3, SocketsAssumption DEF Obj
<1>5. \A s \in Sock : sock'[s].kind = "none" => sock'[s] = Unused
    BY <1>2 DEF SocketsInv, Numbered
<1> HIDE DEF n
<1> QED
    BY <1>4, <1>5 DEF Numbered

\* What a new connection or listener is like.
LEMMA NewRecords ==
    /\ \A via \in Obj, refs \in Int : /\ Conn(via, refs) \in SockRecord /\ Conn(via, refs).kind = "conn"
                                     /\ Conn(via, refs).refs = refs /\ Conn(via, refs).via = via
    /\ Listener \in SockRecord /\ Listener.kind = "listener" /\ Listener.refs = 1 /\ Listener.via = Nil
    /\ Nil \in Obj
<1>1. Nil \in Obj
    BY SocketsAssumption DEF Obj, Nil
<1> QED
    BY <1>1 DEF Listener, Conn, SockRecord

\* connect and listen make a descriptor, or fail.
LEMMA MakeInv ==
    ASSUME SocketsInv, NEW t \in Task, Make(t)
    PROVE  SocketsInv'
<1>1. UNCHANGED <<slab, backend>> /\ call[t].op \in {"connect", "listen"}
    BY DEF Make, At
<1>2. CASE Return(t, Err) /\ UNCHANGED sock
    BY <1>1, <1>2, PlainReturn
<1>3. CASE /\ New \in Sock
           /\ sock' = [sock EXCEPT ![New] = IF At(t, "connect") THEN Conn(Nil, 1) ELSE Listener]
           /\ Wait(t, IF call[t].tls THEN "handshake" ELSE "insert", New, {})
    <2>op. PICK op \in {"handshake", "insert"} : op = IF call[t].tls THEN "handshake" ELSE "insert"
        OBVIOUS
    <2> DEFINE rec == IF At(t, "connect") THEN Conn(Nil, 1) ELSE Listener
               n == New
               c == Waiting(t, op, n)
    <2>1. rec \in SockRecord /\ rec.kind # "none" /\ rec.refs = 1 /\ rec.via = Nil
        BY NewRecords
    <2>2. n \in Sock /\ n \in Obj /\ n # Nil /\ sock[n] = Unused /\ op \in Ops
        BY <1>3, NewFacts DEF Sock, Obj, Nil, Ops
    <2>3. Numbered'
        BY <2>1, <1>3, NumberedNew
    <2>4. Wait(t, op, n, {})
        BY <1>3, <2>op
    <2>5. /\ Moves(t, c) /\ CallType(c) /\ lock' = [l \in Locks |-> lock'[l]]
          /\ lock'["thread"] = lock["thread"] /\ c.op = op /\ c.obj = n /\ c.clone = call[t].clone
        <3> HIDE DEF n
        <3> QED
            BY <2>2, <2>4, WaitFacts
    <2>6. \A s \in Sock : sock'[s] = IF s = n THEN rec ELSE sock[s]
        BY <1>3 DEF SocketsInv, SocketsTypeOK
    <2>7. sock' \in [Sock -> SockRecord]
        BY <1>3, <2>1 DEF SocketsInv, SocketsTypeOK
    <2> HIDE DEF rec, n
    <2>8. sock[n].kind = "none" /\ sock[n].refs = 0 /\ Unmentioned(n)
        BY <2>2 DEF Unused, SocketsInv, Untouched
    <2>9. TaskInv(t) /\ call[t].clone = Nil
        BY <1>1 DEF SocketsInv, TaskInv, At
    <2>10. call'[t] = c
        BY <2>5 DEF Moves
    <2> HIDE DEF c
    <2>11. \A u \in Task \ {t} : call'[u] = call[u] /\ call[u].obj # n
        BY <2>5, <2>8 DEF Moves, Unmentioned
    <2>12. TaskInv(t)'
        BY <1>1, <2>2, <2>5, <2>8, <2>9, <2>10, <2>11 DEF TaskInv, At, Unmentioned
    <2>13. \A s \in Sock : sock'[s].kind = "none" \/ sock'[s].via # Nil =>
                              /\ sock[s].kind = "none" \/ sock[s].via # Nil
                              /\ sock'[s].refs = sock[s].refs /\ c.obj # s /\ c.clone # s
        BY <2>1, <2>5, <2>6, <2>9 DEF Sock, Nil
    <2>14. ASSUME NEW s \in Sock
           PROVE  sock'[s].refs + Ind(Frees(c, s)) + Ind(Has(call[t], s))
                    = sock[s].refs + Ind(Frees(call[t], s)) + Ind(Has(c, s))
        <3>1. ~Frees(c, s) /\ ~Frees(call[t], s) /\ ~Has(call[t], s) /\ (Has(c, s) <=> s = n)
            BY <1>1, <2>5, <2>9 DEF Frees, Has, Sock, Nil
        <3>2. sock[s].refs \in Int
            BY SockFacts DEF SocketsInv
        <3> QED
            BY <3>1, <3>2, <2>1, <2>6, <2>8 DEF Ind
    <2> QED
        BY <1>1, <2>3, <2>5, <2>7, <2>11, <2>12, <2>13, <2>14, SameTables
<1> QED
    BY <1>2, <1>3 DEF Make

\* A handshake succeeds and the connection goes on to its table, or it fails
\* and the connection is closed.
LEMMA HandshakeInv ==
    ASSUME SocketsInv, NEW t \in Task, Handshake(t)
    PROVE  SocketsInv'
<1>o. PICK o : o = call[t].obj
    OBVIOUS
<1>1. call[t].op = "handshake" /\ UNCHANGED <<slab, backend>>
    BY DEF Handshake, At
<1>2. TaskInv(t) /\ call[t].clone = Nil /\ o # Nil /\ o \in Obj
    BY <1>1, <1>o DEF SocketsInv, TaskInv, At, SocketsTypeOK, CallType
<1>3. o \in Sock /\ sock[o].kind # "none" /\ sock[o].via = Nil
    BY <1>2, <1>o, Mentioned
<1>4. \A s \in Sock : (Has(call[t], s) <=> s = o) /\ ~Frees(call[t], s)
    BY <1>1, <1>2, <1>o DEF Has, Frees, Sock, Nil
<1>5. CASE Wait(t, "insert", o, {}) /\ sock' = [sock EXCEPT ![o].in = "none"]
    <2> DEFINE c == Waiting(t, "insert", o)
    <2>1. "insert" \in Ops /\ "thread" \notin {}
        BY DEF Ops
    <2>2. /\ Moves(t, c) /\ CallType(c) /\ lock' = [l \in Locks |-> lock'[l]]
          /\ lock'["thread"] = lock["thread"] /\ c.op = "insert" /\ c.obj = o /\ c.clone = call[t].clone
        BY <1>2, <1>5, <2>1, WaitFacts
    <2>3. call'[t] = c /\ \A u \in Task \ {t} : call'[u] = call[u]
        BY <2>2 DEF Moves
    <2> HIDE DEF c
    <2>4. /\ sock' \in [Sock -> SockRecord]
          /\ \A s \in Sock : /\ sock'[s].kind = sock[s].kind /\ sock'[s].via = sock[s].via
                             /\ sock'[s].refs = sock[s].refs
                             /\ sock[s].kind = "none" => sock'[s] = sock[s]
        <3>0. sock \in [Sock -> SockRecord]
            BY DEF SocketsInv, SocketsTypeOK
        <3> DEFINE rec == [sock[o] EXCEPT !.in = "none"]
        <3>1. rec \in SockRecord /\ rec.kind = sock[o].kind /\ rec.via = sock[o].via /\ rec.refs = sock[o].refs
            BY <1>3, <3>0 DEF SockRecord
        <3>2. sock' = [sock EXCEPT ![o] = rec]
            BY <1>5
        <3> HIDE DEF rec
        <3>3. sock'[o] = rec /\ \A s \in Sock : s # o => sock'[s] = sock[s]
            BY <1>3, <3>0, <3>2
        <3> QED
            BY <1>3, <3>0, <3>1, <3>2, <3>3
    <2>5. Numbered'
        BY <2>4, NumberedKeep DEF SocketsInv
    <2>6. TaskInv(t)'
        BY <1>1, <1>2, <1>o, <2>2, <2>3 DEF TaskInv, At
    <2>7. \A s \in Sock : sock'[s].kind = "none" \/ sock'[s].via # Nil =>
                              /\ sock[s].kind = "none" \/ sock[s].via # Nil
                              /\ sock'[s].refs = sock[s].refs /\ c.obj # s /\ c.clone # s
        BY <1>2, <1>3, <2>2, <2>4 DEF Sock, Nil
    <2>8. ASSUME NEW s \in Sock
          PROVE  sock'[s].refs + Ind(Frees(c, s)) + Ind(Has(call[t], s))
                    = sock[s].refs + Ind(Frees(call[t], s)) + Ind(Has(c, s))
        <3>1. ~Frees(c, s) /\ ~Frees(call[t], s) /\ (Has(call[t], s) <=> s = o) /\ (Has(c, s) <=> s = o)
            BY <1>2, <1>4, <2>2 DEF Frees, Has, Sock, Nil
        <3>2. sock'[s].refs = sock[s].refs
            BY <2>4
        <3> QED
            BY <3>1, <3>2 DEF Ind
    <2>9. \A u \in Task \ {t} : call[u].op \in {"handshake", "insert"} => call[u].obj # c.obj
        BY <1>1, <1>2, <1>o, <2>2 DEF TaskInv
    <2>10. \A u \in Task : u # t /\ lock["thread"] = u => lock'["thread"] = u
        BY <2>2
    <2> QED
        BY <1>1, <2>2, <2>4, <2>5, <2>6, <2>7, <2>8, <2>9, <2>10, SameTables
<1>6. CASE Return(t, Err) /\ sock' = Drop(o)
    <2>1. /\ sock' \in [Sock -> SockRecord]
          /\ \A s \in Sock : /\ sock'[s].kind = sock[s].kind
                             /\ sock'[s].via = sock[s].via \/ sock'[s].via = Nil
                             /\ sock'[s].refs = IF s = o THEN sock[s].refs - 1 ELSE sock[s].refs
                             /\ sock[s].kind = "none" => sock'[s] = sock[s]
        BY <1>2, <1>3, <1>6, DropFacts
    <2>2. ASSUME NEW s \in Sock
          PROVE  sock'[s].refs = sock[s].refs - Ind(Has(call[t], s))
        <3>1. sock[s].refs \in Int
            BY SockFacts DEF SocketsInv
        <3> QED
            BY <3>1, <1>4, <2>1 DEF Ind
    <2>3. ~At(t, "clearing")
        BY <1>1 DEF At
    <2> QED
        BY <1>1, <1>6, <2>1, <2>2, <2>3, ReturnSame
<1> QED
    BY <1>5, <1>6, <1>o DEF Handshake

\* An accept that fails drops the clone of its listener.
LEMMA AcceptFailsInv ==
    ASSUME SocketsInv, NEW t \in Task, AcceptFails(t)
    PROVE  SocketsInv'
<1> DEFINE o == call[t].clone
<1>1. At(t, "accepting") /\ Return(t, Err) /\ sock' = Drop(o) /\ UNCHANGED <<slab, backend>>
    BY DEF AcceptFails
<1>2. o \in Obj /\ (o # Nil => sock[o].kind # "none")
    BY Mentioned DEF SocketsInv, SocketsTypeOK, CallType
<1>3. \A s \in Sock : Has(call[t], s) <=> s = o
    BY <1>1 DEF Has, At
<1> HIDE DEF o
<1>4. /\ sock' \in [Sock -> SockRecord]
      /\ \A s \in Sock : /\ sock'[s].kind = sock[s].kind
                         /\ sock'[s].via = sock[s].via \/ sock'[s].via = Nil
                         /\ sock'[s].refs = IF s = o THEN sock[s].refs - 1 ELSE sock[s].refs
                         /\ sock[s].kind = "none" => sock'[s] = sock[s]
    BY <1>1, <1>2, DropFacts
<1>5. ASSUME NEW s \in Sock
      PROVE  sock'[s].refs = sock[s].refs - Ind(Has(call[t], s))
    <2>1. sock[s].refs \in Int
        BY SockFacts DEF SocketsInv
    <2> QED
        BY <2>1, <1>3, <1>4 DEF Ind
<1> QED
    BY <1>1, <1>4, <1>5, ReturnSame DEF At

\* A read or a write ends: only what can be read or written changes.
LEMMA DataReturn ==
    ASSUME SocketsInv, NEW t \in Task, NEW r, Return(t, r), UNCHANGED <<slab, backend>>,
           call[t].op \in {"reading", "writing"}, NEW c \in Obj,
           \/ sock' = sock \/ sock' = [sock EXCEPT ![c].in = "none"]
           \/ sock' = [sock EXCEPT ![c].full = TRUE],
           sock[c].kind # "none" \/ c \notin Sock
    PROVE  SocketsInv'
<1>1. call[t].clone = Nil
    BY DEF SocketsInv, TaskInv, At
<1>2. \A s \in Sock : ~Has(call[t], s) /\ sock[s].refs \in Int /\ sock[s] \in SockRecord
    BY <1>1, SockFacts DEF Has, Sock, Nil, SocketsInv
<1>3. \A s \in Sock : /\ sock'[s] \in SockRecord /\ sock'[s].kind = sock[s].kind
                      /\ sock'[s].via = sock[s].via /\ sock'[s].refs = sock[s].refs
                      /\ sock[s].kind = "none" => sock'[s] = sock[s]
    <2>0. sock \in [Sock -> SockRecord]
        BY DEF SocketsInv, SocketsTypeOK
    <2>1. CASE sock' = sock
        BY <1>2, <2>1
    <2>2. CASE sock' = [sock EXCEPT ![c].in = "none"]
        BY <2>0, <1>2, <2>2 DEF SockRecord
    <2>3. CASE sock' = [sock EXCEPT ![c].full = TRUE]
        BY <2>0, <1>2, <2>3 DEF SockRecord
    <2> QED
        BY <2>1, <2>2, <2>3
<1>4. sock' \in [Sock -> SockRecord]
    <2>1. sock' = [s \in Sock |-> sock'[s]]
        BY DEF SocketsInv, SocketsTypeOK
    <2> QED
        BY <2>1, <1>3
<1>5. \A s \in Sock : sock'[s].refs = sock[s].refs - Ind(Has(call[t], s))
    BY <1>2, <1>3 DEF Ind
<1> QED
    BY <1>3, <1>4, <1>5, ReturnSame DEF At

\* A read returns.
LEMMA ReadDoneInv ==
    ASSUME SocketsInv, NEW t \in Task, ReadDone(t)
    PROVE  SocketsInv'
<1> DEFINE c == call[t].obj
<1>1. /\ call[t].op = "reading" /\ UNCHANGED <<slab, backend>> /\ Return(t, ReadResult(t, c))
      /\ sock' = sock \/ sock' = [sock EXCEPT ![c].in = "none"]
    BY DEF ReadDone, At
<1>2. c \in Obj /\ (sock[c].kind # "none" \/ c \notin Sock)
    BY Mentioned DEF SocketsInv, SocketsTypeOK, CallType, Sock, Nil
<1> HIDE DEF c
<1> QED
    BY <1>1, <1>2, DataReturn

\* A write returns.
LEMMA WriteDoneInv ==
    ASSUME SocketsInv, NEW t \in Task, WriteDone(t)
    PROVE  SocketsInv'
<1> DEFINE c == call[t].obj
<1>1. /\ call[t].op = "writing" /\ UNCHANGED <<slab, backend>>
      /\ Return(t, Err) \/ Return(t, Ok(""))
      /\ sock' = sock \/ sock' = [sock EXCEPT ![c].full = TRUE]
    BY DEF WriteDone, At
<1>2. c \in Obj /\ (sock[c].kind # "none" \/ c \notin Sock)
    BY Mentioned DEF SocketsInv, SocketsTypeOK, CallType, Sock, Nil
<1> HIDE DEF c
<1> QED
    BY <1>1, <1>2, DataReturn

\* An accept looks its listener up; compiled programs clone it.
LEMMA AcceptInv ==
    ASSUME SocketsInv, NEW t \in Task, Accept(t)
    PROVE  SocketsInv'
<1>1. At(t, "accept") /\ Valid(call[t].table, call[t].h) /\ UNCHANGED <<slab, backend>>
    BY DEF Accept, Found
<1>2. CASE backend = "vm" /\ Wait(t, "accepting", Entry(t), {}) /\ UNCHANGED sock
    BY <1>1, <1>2, EntryFacts, WaitSame DEF At
<1>3. CASE Return(t, Err) /\ UNCHANGED sock
    BY <1>1, <1>3, PlainReturn DEF At
<1>4. CASE /\ call' = [call EXCEPT ![t].op = "accepting", ![t].obj = Entry(t), ![t].clone = Entry(t)]
           /\ sock' = [sock EXCEPT ![Entry(t)].refs = @ + 1]
           /\ UNCHANGED lock
    <2> DEFINE e == Entry(t)
               op == "accepting"
               c == [call[t] EXCEPT !.op = op, !.obj = e, !.clone = e]
    <2>1. e \in Sock /\ sock[e].kind # "none" /\ sock[e].via = Nil
        BY <1>1, EntryFacts
    <2>2. call = [u \in Task |-> call[u]] /\ CallType(call[t]) /\ op \in Ops /\ e \in Obj
        BY <2>1 DEF SocketsInv, SocketsTypeOK, Ops, Sock, Obj
    <2>3. Moves(t, c)
        BY <1>4, <2>2 DEF Moves
    <2>4. sock' = [sock EXCEPT ![e] = [sock[e] EXCEPT !.refs = @ + 1]]
        BY <1>4
    <2> HIDE DEF e
    <2>5. c.op = "accepting" /\ c.obj = e /\ c.clone = e /\ c.table = call[t].table
        BY <2>2 DEF CallType
    <2>6. CallType(c)
        <3> HIDE DEF op
        <3> QED
            BY <2>2 DEF CallType
    <2>7. call'[t] = c
        BY <2>3 DEF Moves
    <2> HIDE DEF c, op
    <2>8. sock[e] \in SockRecord /\ sock[e].refs \in Int
        BY <2>1, SockFacts DEF SocketsInv
    <2>9. /\ sock'[e].refs = sock[e].refs + 1
          /\ sock'[e].kind = sock[e].kind /\ sock'[e].via = sock[e].via
          /\ \A s \in Sock : s # e => sock'[s] = sock[s]
          /\ sock' \in [Sock -> SockRecord]
        <3>0. sock \in [Sock -> SockRecord]
            BY DEF SocketsInv, SocketsTypeOK
        <3>1. sock'[e] = [sock[e] EXCEPT !.refs = @ + 1] /\ \A s \in Sock : s # e => sock'[s] = sock[s]
            BY <2>1, <2>4, <3>0
        <3>2. /\ sock'[e] \in SockRecord /\ sock'[e].refs = sock[e].refs + 1
              /\ sock'[e].kind = sock[e].kind /\ sock'[e].via = sock[e].via
            BY <3>1, <2>8 DEF SockRecord
        <3> QED
            BY <2>4, <3>0, <3>1, <3>2
    <2>10. Numbered'
        BY <2>1, <2>9, NumberedKeep DEF SocketsInv
    <2>11. TaskInv(t) /\ call[t].clone = Nil
        BY <1>1 DEF SocketsInv, TaskInv, At
    <2>12. TaskInv(t)'
        BY <2>1, <2>5, <2>7 DEF TaskInv, At, Sock, Nil
    <2>13. \A s \in Sock : sock'[s].kind = "none" \/ sock'[s].via # Nil =>
                              /\ sock[s].kind = "none" \/ sock[s].via # Nil
                              /\ sock'[s].refs = sock[s].refs /\ c.obj # s /\ c.clone # s
        BY <2>1, <2>5, <2>9
    <2>14. ASSUME NEW s \in Sock
           PROVE  sock'[s].refs + Ind(Frees(c, s)) + Ind(Has(call[t], s))
                    = sock[s].refs + Ind(Frees(call[t], s)) + Ind(Has(c, s))
        <3>1. ~Frees(c, s) /\ ~Frees(call[t], s) /\ ~Has(call[t], s) /\ (Has(c, s) <=> s = e)
            BY <1>1, <2>5, <2>11 DEF Frees, Has, At, Sock, Nil
        <3>2. sock[s].refs \in Int
            BY SockFacts DEF SocketsInv
        <3> QED
            BY <3>1, <3>2, <2>9 DEF Ind
    <2>15. lock' = [l \in Locks |-> lock'[l]]
        BY <1>4 DEF SocketsInv, SocketsTypeOK
    <2>16. c.op \notin {"handshake", "insert"}
        BY <2>5
    <2> QED
        BY <1>1, <1>4, <2>3, <2>6, <2>9, <2>10, <2>12, <2>13, <2>14, <2>15, <2>16, SameTables
<1> QED
    BY <1>2, <1>3, <1>4 DEF Accept

\* An accept gets a connection, which it is going to put in the table.
LEMMA AcceptDoneInv ==
    ASSUME SocketsInv, NEW t \in Task, AcceptDone(t)
    PROVE  SocketsInv'
<1>1. PICK k \in Made :
          /\ sock[k].via = call[t].obj
          /\ sock' = [sock EXCEPT ![k].via = Nil, ![k].refs = 1]
          /\ call' = [call EXCEPT ![t].op = "insert", ![t].table = "stream", ![t].obj = k]
    BY DEF AcceptDone
<1>2. At(t, "accepting") /\ UNCHANGED <<slab, backend, lock>>
    BY DEF AcceptDone
<1>3. k \in Sock /\ sock[k].kind # "none" /\ k \in Obj /\ k # Nil
    BY DEF Made, Sock, Obj, Nil
<1>4. call[t].obj # Nil
    BY <1>2 DEF SocketsInv, TaskInv
<1>5. Unmentioned(k) /\ sock[k].refs = 0
    BY <1>1, <1>3, <1>4 DEF SocketsInv, Untouched
<1> DEFINE op == "insert"
           table == "stream"
           c == [call[t] EXCEPT !.op = op, !.table = table, !.obj = k]
<1>6. call = [u \in Task |-> call[u]] /\ CallType(call[t]) /\ op \in Ops /\ table \in Tables
    BY DEF SocketsInv, SocketsTypeOK, Ops, Tables
<1>7. Moves(t, c)
    BY <1>1, <1>6 DEF Moves
<1>8. c.op = "insert" /\ c.obj = k /\ c.clone = call[t].clone
    BY <1>6 DEF CallType
<1>9. CallType(c)
    <2> HIDE DEF op, table
    <2> QED
        BY <1>3, <1>6 DEF CallType
<1>10. call'[t] = c
    BY <1>7 DEF Moves
<1> HIDE DEF c, op, table
<1>11. /\ sock'[k].refs = 1 /\ sock'[k].via = Nil /\ sock'[k].kind = sock[k].kind
       /\ \A s \in Sock : s # k => sock'[s] = sock[s]
       /\ sock' \in [Sock -> SockRecord]
    <2>0. sock \in [Sock -> SockRecord] /\ Nil \in Obj
        BY NewRecords DEF SocketsInv, SocketsTypeOK
    <2>1. /\ sock' = [sock EXCEPT ![k] = [sock[k] EXCEPT !.via = Nil, !.refs = 1]]
        BY <1>1, <1>3, <2>0
    <2>2. sock'[k] = [sock[k] EXCEPT !.via = Nil, !.refs = 1] /\ \A s \in Sock : s # k => sock'[s] = sock[s]
        BY <1>3, <2>0, <2>1
    <2>3. sock[k] \in SockRecord /\ 1 \in Int
        BY <1>3, <2>0
    <2>4. /\ sock'[k] \in SockRecord /\ sock'[k].refs = 1
          /\ sock'[k].kind = sock[k].kind /\ sock'[k].via = Nil
        BY <2>0, <2>2, <2>3 DEF SockRecord
    <2> QED
        BY <2>0, <2>1, <2>2, <2>4
<1>12. Numbered'
    BY <1>3, <1>11, NumberedKeep DEF SocketsInv
<1>13. \A u \in Task : call[u].obj # k /\ call[u].clone # k
    BY <1>5 DEF Unmentioned
<1>14. \A u \in Task \ {t} : call'[u] = call[u]
    BY <1>7 DEF Moves
<1>15. TaskInv(t)'
    BY <1>2, <1>3, <1>5, <1>8, <1>10, <1>13, <1>14 DEF TaskInv, At, Unmentioned
<1>16. \A s \in Sock : sock'[s].kind = "none" \/ sock'[s].via # Nil =>
                              /\ sock[s].kind = "none" \/ sock[s].via # Nil
                              /\ sock'[s].refs = sock[s].refs /\ c.obj # s /\ c.clone # s
    <2>1. SUFFICES ASSUME NEW s \in Sock, sock'[s].kind = "none" \/ sock'[s].via # Nil
                   PROVE  /\ sock[s].kind = "none" \/ sock[s].via # Nil
                          /\ sock'[s].refs = sock[s].refs /\ c.obj # s /\ c.clone # s
        OBVIOUS
    <2>2. s # k
        BY <2>1, <1>3, <1>11
    <2>3. sock'[s] = sock[s]
        BY <2>2, <1>11
    <2>4. Unmentioned(s)
        BY <2>1, <2>3 DEF SocketsInv, Untouched
    <2> QED
        BY <2>1, <2>2, <2>3, <2>4, <1>8 DEF Unmentioned
<1>17. ASSUME NEW s \in Sock
       PROVE  sock'[s].refs + Ind(Frees(c, s)) + Ind(Has(call[t], s))
                = sock[s].refs + Ind(Frees(call[t], s)) + Ind(Has(c, s))
    <2>1. /\ ~Frees(c, s) /\ ~Frees(call[t], s)
          /\ Has(call[t], s) <=> s = call[t].clone
          /\ Has(c, s) <=> s = call[t].clone \/ s = k
        BY <1>2, <1>8 DEF Frees, Has, At
    <2>2. sock[s].refs \in Int /\ call[t].clone # k
        BY <1>13, SockFacts DEF SocketsInv
    <2> QED
        BY <2>1, <2>2, <1>5, <1>11 DEF Ind
<1>18. lock' = [l \in Locks |-> lock'[l]]
    BY <1>2 DEF SocketsInv, SocketsTypeOK
<1> QED
    BY <1>2, <1>7, <1>8, <1>9, <1>11, <1>12, <1>13, <1>15, <1>16, <1>17, <1>18, SameTables

\* A close of the VM closes the descriptor; the slot is still taken.
LEMMA CloseSockInv ==
    ASSUME SocketsInv, NEW t \in Task, CloseSock(t)
    PROVE  SocketsInv'
<1> DEFINE o == call[t].obj
           c == Waiting(t, "clearing", o)
<1>1. At(t, "closing") /\ Wait(t, "clearing", o, {}) /\ sock' = Drop(o) /\ UNCHANGED <<slab, backend>>
    BY DEF CloseSock
<1>2. TaskInv(t) /\ call[t].clone = Nil /\ o # Nil
    BY <1>1 DEF SocketsInv, TaskInv, At
<1>3. o \in Obj /\ o \in Sock /\ sock[o].kind # "none" /\ sock[o].via = Nil /\ "clearing" \in Ops
    BY <1>2, Mentioned DEF SocketsInv, SocketsTypeOK, CallType, Ops
<1>4. /\ Moves(t, c) /\ CallType(c) /\ lock' = [l \in Locks |-> lock'[l]]
      /\ lock'["thread"] = lock["thread"] /\ c.op = "clearing" /\ c.obj = o /\ c.clone = call[t].clone
      /\ c.table = call[t].table /\ c.h = call[t].h
    <2> HIDE DEF o
    <2> QED
        BY <1>1, <1>3, WaitFacts
<1>5. call'[t] = c
    BY <1>4 DEF Moves
<1>6. slab[call[t].table][call[t].h + 1] = o
    BY <1>1, <1>2 DEF TaskInv, At
<1> HIDE DEF c
<1>7. TaskInv(t)'
    BY <1>1, <1>2, <1>4, <1>5, <1>6 DEF TaskInv, At
<1>8. \A s \in Sock : ~Frees(call[t], s) /\ ~Has(call[t], s)
    BY <1>1, <1>2 DEF Frees, Has, At, Sock, Nil
<1> HIDE DEF o
<1>9. /\ sock' \in [Sock -> SockRecord]
      /\ \A s \in Sock : /\ sock'[s].kind = sock[s].kind
                         /\ sock'[s].via = sock[s].via \/ sock'[s].via = Nil
                         /\ sock'[s].refs = IF s = o THEN sock[s].refs - 1 ELSE sock[s].refs
                         /\ sock[s].kind = "none" => sock'[s] = sock[s]
    BY <1>1, <1>3, DropFacts
<1>10. Numbered'
    BY <1>9, NumberedKeep DEF SocketsInv
<1>11. \A s \in Sock : sock'[s].kind = "none" \/ sock'[s].via # Nil =>
                              /\ sock[s].kind = "none" \/ sock[s].via # Nil
                              /\ sock'[s].refs = sock[s].refs /\ c.obj # s /\ c.clone # s
    BY <1>2, <1>3, <1>4, <1>9 DEF Sock, Nil
<1>12. ASSUME NEW s \in Sock
       PROVE  sock'[s].refs + Ind(Frees(c, s)) + Ind(Has(call[t], s))
                = sock[s].refs + Ind(Frees(call[t], s)) + Ind(Has(c, s))
    <2>1. ~Has(c, s) /\ (Frees(c, s) <=> s = o)
        BY <1>2, <1>4 DEF Frees, Has, Sock, Nil
    <2>2. sock[s].refs \in Int
        BY SockFacts DEF SocketsInv
    <2>3. sock'[s].refs = IF s = o THEN sock[s].refs - 1 ELSE sock[s].refs
        BY <1>9
    <2> QED
        BY <1>8, <2>1, <2>2, <2>3 DEF Ind
<1>13. c.op \notin {"handshake", "insert"}
    BY <1>4
<1> QED
    BY <1>1, <1>4, <1>7, <1>9, <1>10, <1>11, <1>12, <1>13, SameTables

\* A builtin ends after it wrote v into slot i of table k.
LEMMA TableStep ==
    ASSUME SocketsInv, NEW t \in Task, NEW r, Return(t, r), backend' = backend,
           NEW k \in Tables, NEW i \in Nat, NEW v \in Obj, NEW old \in Obj,
           slab' \in [Tables -> Seq(Obj)],
           \A j \in Tables : j # k => slab'[j] = slab[j],
           DOMAIN slab'[k] = DOMAIN slab[k] \cup {i}, slab'[k][i] = v,
           \A j \in DOMAIN slab[k] : j # i => slab'[k][j] = slab[k][j],
           old = IF i \in DOMAIN slab[k] THEN slab[k][i] ELSE Nil,
           v # Nil => /\ sock[v].kind # "none" /\ sock[v].via = Nil
                      /\ \A u \in Task \ {t} : call[u].op \in {"handshake", "insert"} => call[u].obj # v,
           \A u \in Task \ {t} : call[u].op \in {"closing", "clearing"} =>
                ~(call[u].table = k /\ call[u].h + 1 = i),
           sock' \in [Sock -> SockRecord],
           \A s \in Sock : /\ sock'[s].kind = sock[s].kind
                           /\ sock'[s].via = sock[s].via \/ sock'[s].via = Nil
                           /\ sock[s].kind = "none" => sock'[s] = sock[s],
           \A s \in Sock : sock[s].kind = "none" \/ sock[s].via # Nil => sock'[s].refs = sock[s].refs,
           \A s \in Sock : sock'[s].refs + Ind(old = s) + Ind(Has(call[t], s))
                             = sock[s].refs + Ind(Frees(call[t], s)) + Ind(v = s)
    PROVE  SocketsInv'
<1> DEFINE c == Idle(r)
<1>1. /\ Moves(t, c) /\ CallType(c) /\ lock' = [l \in Locks |-> lock'[l]]
      /\ \A u \in Task : u # t /\ lock["thread"] = u => lock'["thread"] = u
      /\ TaskInv(t)' /\ \A s \in Sock : ~Has(c, s) /\ ~Frees(c, s)
    BY ReturnFacts
<1>2. c.obj = Nil /\ c.clone = Nil /\ c.op = "idle"
    BY DEF Idle
<1> HIDE DEF c
<1>3. Numbered'
    BY NumberedKeep DEF SocketsInv
<1>4. SocketsTypeOK'
    BY <1>1, TypeStep DEF SocketsInv
<1>5. \A u \in Task : call'[u] = IF u = t THEN c ELSE call[u]
    BY <1>1 DEF Moves
<1>6. \A j \in Tables : \A n \in DOMAIN slab'[j] :
          (j = k /\ n = i /\ slab'[j][n] = v) \/ (n \in DOMAIN slab[j] /\ slab'[j][n] = slab[j][n])
    OBVIOUS
<1>7. Untouched'
    <2>1. SUFFICES ASSUME NEW s \in Sock, sock'[s].kind = "none" \/ sock'[s].via # Nil
                   PROVE  Unmentioned(s)' /\ sock'[s].refs = 0
        BY DEF Untouched
    <2>2. sock[s].kind = "none" \/ sock[s].via # Nil
        BY <2>1
    <2>3. Unmentioned(s) /\ sock[s].refs = 0 /\ sock'[s].refs = sock[s].refs
        BY <2>2 DEF SocketsInv, Untouched
    <2>4. v # s /\ s # Nil
        BY <2>2 DEF Sock, Nil
    <2>5. \A j \in Tables : \A n \in DOMAIN slab'[j] : slab'[j][n] # s
        BY <1>6, <2>3, <2>4 DEF Unmentioned
    <2> QED
        BY <1>2, <1>5, <2>3, <2>4, <2>5, ZenonT(40) DEF Unmentioned
<1>8. ASSUME NEW u \in Task
      PROVE  TaskInv(u)'
    <2>1. CASE u = t
        BY <1>1, <2>1
    <2>2. CASE u # t
        <3>1. call'[u] = call[u] /\ TaskInv(u)
            BY <1>5, <2>2 DEF SocketsInv
        <3>2. backend = "vm" /\ call[u].op \in {"close", "closing", "clearing"} => lock'["thread"] = u
            BY <1>1, <3>1, <2>2 DEF TaskInv
        <3>3. call[u].op \in {"handshake", "insert"} =>
                  \A w \in Task \ {u} : call'[w].op \in {"handshake", "insert"} => call'[w].obj # call[u].obj
            BY <1>2, <1>5, <2>2, <3>1 DEF At, TaskInv
        <3>4. call[u].op \in {"handshake", "insert"} =>
                  \A j \in Tables : \A n \in DOMAIN slab'[j] : slab'[j][n] # call[u].obj
            <4>1. SUFFICES ASSUME call[u].op \in {"handshake", "insert"}
                           PROVE  \A j \in Tables : \A n \in DOMAIN slab'[j] : slab'[j][n] # call[u].obj
                OBVIOUS
            <4>2. /\ call[u].obj # Nil /\ \A j \in Tables : \A n \in DOMAIN slab[j] : slab[j][n] # call[u].obj
                BY <3>1, <4>1 DEF TaskInv
            <4>3. v # call[u].obj
                BY <2>2, <4>1, <4>2
            <4> QED
                BY <1>6, <4>2, <4>3
        <3>5. call[u].op \in {"closing", "clearing"} =>
                  /\ call[u].h + 1 \in DOMAIN slab'[call[u].table]
                  /\ slab'[call[u].table][call[u].h + 1] = call[u].obj
            <4>1. SUFFICES ASSUME call[u].op \in {"closing", "clearing"}
                           PROVE  /\ call[u].h + 1 \in DOMAIN slab'[call[u].table]
                                  /\ slab'[call[u].table][call[u].h + 1] = call[u].obj
                OBVIOUS
            <4>2. /\ call[u].h + 1 \in DOMAIN slab[call[u].table]
                  /\ slab[call[u].table][call[u].h + 1] = call[u].obj
                BY <3>1, <4>1 DEF TaskInv
            <4>3. call[u].table \in Tables
                BY DEF SocketsInv, SocketsTypeOK, CallType
            <4>4. ~(call[u].table = k /\ call[u].h + 1 = i)
                BY <2>2, <4>1
            <4> QED
                BY <4>2, <4>3, <4>4
        <3> QED
            BY <3>1, <3>2, <3>3, <3>4, <3>5 DEF TaskInv, At
    <2> QED
        BY <2>1, <2>2
<1>9. ASSUME NEW s \in Sock
      PROVE  Accounted(s)'
    <2>1. sock[s].refs \in Int /\ sock'[s].refs \in Int
        BY SockFacts, <1>4 DEF SocketsInv, SocketsTypeOK, SockRecord
    <2>2. Accounted(s) /\ s # Nil
        BY DEF SocketsInv, Sock, Nil
    <2>3. <<k, i>> \in Slots(s) <=> old = s
        <3>1. CASE i \in DOMAIN slab[k]
            BY <3>1, SlotsDef DEF SlotsAreWhere
        <3>2. CASE i \notin DOMAIN slab[k]
            <4>1. old # s
                BY <3>2, <2>2
            <4>2. ASSUME <<k, i>> \in Slots(s) PROVE FALSE
                <5>1. PICK j \in Tables : \E n \in DOMAIN slab[j] : <<k, i>> = <<j, n>>
                    BY <4>2, SlotsDef DEF SlotsAreWhere
                <5> QED
                    BY <5>1, <3>2
            <4> QED
                BY <4>1, <4>2
        <3> QED
            BY <3>1, <3>2
    <2>4. <<k, i>> \in Slots(s)' <=> v = s
        BY SlotsDefNext DEF SlotsAreWhere
    <2>5. ASSUME NEW x, x # <<k, i>>
          PROVE  x \in Slots(s) <=> x \in Slots(s)'
        <3>1. ASSUME x \in Slots(s) PROVE x \in Slots(s)'
            <4>1. PICK j \in Tables : \E n \in DOMAIN slab[j] : x = <<j, n>> /\ slab[j][n] = s
                BY <3>1, SlotsDef DEF SlotsAreWhere
            <4>2. PICK n \in DOMAIN slab[j] : x = <<j, n>> /\ slab[j][n] = s
                BY <4>1
            <4>3. n \in DOMAIN slab'[j] /\ slab'[j][n] = s
                BY <2>5, <4>2
            <4> QED
                BY <4>2, <4>3, SlotsDefNext DEF SlotsAreWhere
        <3>2. ASSUME x \in Slots(s)' PROVE x \in Slots(s)
            <4>1. PICK j \in Tables : \E n \in DOMAIN slab'[j] : x = <<j, n>> /\ slab'[j][n] = s
                BY <3>2, SlotsDefNext DEF SlotsAreWhere
            <4>2. PICK n \in DOMAIN slab'[j] : x = <<j, n>> /\ slab'[j][n] = s
                BY <4>1
            <4>3. n \in DOMAIN slab[j] /\ slab[j][n] = s
                BY <2>5, <4>2, <1>6
            <4> QED
                BY <4>2, <4>3, SlotsDef DEF SlotsAreWhere
        <3> QED
            BY <3>1, <3>2
    <2>6. sock'[s].refs + Ind(Frees(c, s)) + Ind(<<k, i>> \in Slots(s)) + Ind(Has(call[t], s))
            = sock[s].refs + Ind(Frees(call[t], s)) + Ind(<<k, i>> \in Slots(s)') + Ind(Has(c, s))
        <3> DEFINE R1 == sock[s].refs  R2 == sock'[s].refs  F1 == Ind(Frees(call[t], s))
                   H1 == Ind(Has(call[t], s))  O == Ind(old = s)  V == Ind(v = s)
        <3>1. R2 + O + H1 = R1 + F1 + V
            OBVIOUS
        <3>2. {R1, R2, F1, H1, O, V} \subseteq Int
            BY <2>1 DEF Ind
        <3>3. /\ Ind(<<k, i>> \in Slots(s)) = O /\ Ind(<<k, i>> \in Slots(s)') = V
              /\ Ind(Frees(c, s)) = 0 /\ Ind(Has(c, s)) = 0
            BY <1>1, <2>3, <2>4 DEF Ind
        <3> HIDE DEF R1, R2, F1, H1, O, V
        <3>4. R2 + 0 + O + H1 = R1 + F1 + V + 0
            BY <3>1, <3>2
        <3> QED
            BY <3>3, <3>4 DEF R1, R2, F1, H1
    <2> QED
        BY <1>1, <2>1, <2>2, <2>5, <2>6, Balance, ZenonT(40)
<1> QED
    BY <1>3, <1>4, <1>7, <1>8, <1>9 DEF SocketsInv

\* Filling and clearing a slot of a table.
LEMMA FillFacts ==
    ASSUME SocketsTypeOK, NEW k \in Tables, NEW i \in Nat \ {0}, i <= Len(slab[k]) + 1, NEW v \in Obj,
           slab' = [slab EXCEPT ![k] = Put(@, i, v)]
    PROVE  /\ slab' \in [Tables -> Seq(Obj)]
           /\ \A j \in Tables : j # k => slab'[j] = slab[j]
           /\ DOMAIN slab'[k] = DOMAIN slab[k] \cup {i} /\ slab'[k][i] = v
           /\ \A j \in DOMAIN slab[k] : j # i => slab'[k][j] = slab[k][j]
<1> DEFINE q == slab[k]
           w == Put(q, i, v)
<1>1. q \in Seq(Obj) /\ slab \in [Tables -> Seq(Obj)]
    BY DEF SocketsTypeOK
<1>2. /\ w \in Seq(Obj) /\ DOMAIN w = DOMAIN q \cup {i} /\ w[i] = v
      /\ \A j \in DOMAIN q : j # i => w[j] = q[j]
    <2>1. i <= Len(q) + 1
        OBVIOUS
    <2>2. q \in Seq(Obj)
        BY <1>1
    <2> HIDE DEF q
    <2>3. /\ Put(q, i, v) \in Seq(Obj) /\ DOMAIN Put(q, i, v) = DOMAIN q \cup {i} /\ Put(q, i, v)[i] = v
          /\ \A j \in DOMAIN q : j # i => Put(q, i, v)[j] = q[j]
        BY <2>1, <2>2, PutFacts, ZenonT(40)
    <2> QED
        BY <2>3, Zenon
<1>3. slab' = [slab EXCEPT ![k] = w]
    OBVIOUS
<1> HIDE DEF w
<1>4. slab'[k] = w /\ \A j \in Tables : j # k => slab'[j] = slab[j]
    BY <1>1, <1>3
<1> QED
    BY <1>1, <1>2, <1>3, <1>4

\* Clearing a slot.
LEMMA ClearFacts ==
    ASSUME SocketsTypeOK, NEW k \in Tables, NEW i \in DOMAIN slab[k],
           slab' = [slab EXCEPT ![k][i] = Nil]
    PROVE  /\ slab' \in [Tables -> Seq(Obj)] /\ i \in Nat
           /\ \A j \in Tables : j # k => slab'[j] = slab[j]
           /\ DOMAIN slab'[k] = DOMAIN slab[k] \cup {i} /\ slab'[k][i] = Nil
           /\ \A j \in DOMAIN slab[k] : j # i => slab'[k][j] = slab[k][j]
<1> DEFINE q == slab[k]
           w == [q EXCEPT ![i] = Nil]
<1>1. q \in Seq(Obj) /\ slab \in [Tables -> Seq(Obj)] /\ i \in DOMAIN q /\ Nil \in Obj
    BY NewRecords DEF SocketsTypeOK
<1>2. slab' = [slab EXCEPT ![k] = w]
    OBVIOUS
<1> HIDE DEF q
<1>3. /\ w \in Seq(Obj) /\ DOMAIN w = DOMAIN q /\ w[i] = Nil /\ i \in Nat
      /\ \A j \in DOMAIN q : j # i => w[j] = q[j]
    BY <1>1
<1> HIDE DEF w
<1>4. slab'[k] = w /\ \A j \in Tables : j # k => slab'[j] = slab[j]
    BY <1>1, <1>2
<1> QED
    BY <1>1, <1>2, <1>3, <1>4 DEF q

\* At most one task has the thread of the VM.
LEMMA OneClose ==
    ASSUME SocketsInv, NEW t \in Task, NEW u \in Task, u # t,
           call[t].op \in {"closing", "clearing"}, call[u].op \in {"closing", "clearing"}
    PROVE  FALSE
    BY DEF SocketsInv, TaskInv

\* A new descriptor goes into the first free slot.
LEMMA InsertInv ==
    ASSUME SocketsInv, NEW t \in Task, Insert(t)
    PROVE  SocketsInv'
<1> DEFINE k == call[t].table
           i == Slot(slab[k])
           v == call[t].obj
           o == call[t].clone
<1>1. /\ At(t, "insert") /\ slab' = [slab EXCEPT ![k] = Put(@, i, v)] /\ Return(t, Ok(i - 1))
      /\ sock' = Drop(o) /\ UNCHANGED backend
    BY DEF Insert
<1>2. k \in Tables /\ v \in Obj /\ o \in Obj
    BY DEF SocketsInv, SocketsTypeOK, CallType
<1>3. /\ v # Nil /\ v # o /\ \A j \in Tables : \A n \in DOMAIN slab[j] : slab[j][n] # v
      /\ \A u \in Task \ {t} : call[u].op \in {"handshake", "insert"} => call[u].obj # v
    BY <1>1 DEF SocketsInv, TaskInv, At
<1>4. sock[v].kind # "none" /\ sock[v].via = Nil /\ (o # Nil => sock[o].kind # "none" /\ sock[o].via = Nil)
    BY <1>3, Mentioned
<1>5. slab[k] \in Seq(Obj)
    BY <1>2 DEF SocketsInv, SocketsTypeOK
<1>6. i \in Nat \ {0} /\ i <= Len(slab[k]) + 1 /\ (i \in DOMAIN slab[k] => slab[k][i] = Nil)
    BY <1>5, SlotFacts
<1>7. \A s \in Sock : /\ Has(call[t], s) <=> s = v \/ s = o
                      /\ ~Frees(call[t], s)
    BY <1>1 DEF Has, Frees, At
<1>8. \A u \in Task : call[u].op \in {"closing", "clearing"} =>
          /\ slab[call[u].table][call[u].h + 1] # Nil
          /\ call[u].h + 1 \in DOMAIN slab[call[u].table]
    BY DEF SocketsInv, TaskInv
<1> HIDE DEF k, i, v, o
<1>9. \A u \in Task \ {t} : call[u].op \in {"closing", "clearing"} => ~(call[u].table = k /\ call[u].h + 1 = i)
    BY <1>6, <1>8
<1>10. /\ slab' \in [Tables -> Seq(Obj)]
       /\ \A j \in Tables : j # k => slab'[j] = slab[j]
       /\ DOMAIN slab'[k] = DOMAIN slab[k] \cup {i} /\ slab'[k][i] = v
       /\ \A j \in DOMAIN slab[k] : j # i => slab'[k][j] = slab[k][j]
    BY <1>1, <1>2, <1>6, FillFacts, ZenonT(40) DEF SocketsInv
<1>11. /\ sock' \in [Sock -> SockRecord]
       /\ \A s \in Sock : /\ sock'[s].kind = sock[s].kind
                          /\ sock'[s].via = sock[s].via \/ sock'[s].via = Nil
                          /\ sock'[s].refs = IF s = o THEN sock[s].refs - 1 ELSE sock[s].refs
                          /\ sock[s].kind = "none" => sock'[s] = sock[s]
    BY <1>1, <1>2, <1>4, DropFacts
<1>12. \A s \in Sock : sock[s].kind = "none" \/ sock[s].via # Nil => sock'[s].refs = sock[s].refs
    <2>1. ASSUME NEW s \in Sock, sock[s].kind = "none" \/ sock[s].via # Nil
          PROVE  sock'[s].refs = sock[s].refs
        <3>1. s # o
            BY <2>1, <1>4 DEF Sock, Nil
        <3> QED
            BY <3>1, <1>11
    <2> QED
        BY <2>1
<1>13. ASSUME NEW s \in Sock
       PROVE  sock'[s].refs + Ind(Nil = s) + Ind(Has(call[t], s))
                = sock[s].refs + Ind(Frees(call[t], s)) + Ind(v = s)
    <2>1. sock[s].refs \in Int /\ s # Nil
        BY SockFacts DEF SocketsInv, Sock, Nil
    <2>2. sock'[s].refs = IF s = o THEN sock[s].refs - 1 ELSE sock[s].refs
        BY <1>11
    <2> QED
        BY <2>1, <2>2, <1>3, <1>7 DEF Ind
<1>14. Nil = (IF i \in DOMAIN slab[k] THEN slab[k][i] ELSE Nil) /\ Nil \in Obj /\ i \in Nat
    BY <1>6, NewRecords
<1> QED
    BY <1>1, <1>2, <1>3, <1>4, <1>9, <1>10, <1>11, <1>12, <1>13, <1>14, TableStep

\* A close of a compiled program takes the slot and drops what it held.
LEMMA CloseNativeInv ==
    ASSUME SocketsInv, NEW t \in Task, CloseNative(t)
    PROVE  SocketsInv'
<1> DEFINE k == call[t].table
           i == call[t].h + 1
           o == Entry(t)
<1>1. /\ At(t, "close") /\ Valid(call[t].table, call[t].h) /\ slab' = [slab EXCEPT ![k][i] = Nil]
      /\ Return(t, Ok("")) /\ sock' = Drop(o) /\ UNCHANGED backend /\ backend = "native"
    BY DEF CloseNative
<1>2. k \in Tables /\ i \in DOMAIN slab[k] /\ o = slab[k][i] /\ o \in Sock /\ sock[o].kind # "none" /\ sock[o].via = Nil
    BY <1>1, EntryFacts
<1>3. \A u \in Task : call[u].op \notin {"closing", "clearing"}
    BY <1>1 DEF SocketsInv, TaskInv
<1>4. \A s \in Sock : ~Has(call[t], s) /\ ~Frees(call[t], s)
    <2>1. call[t].op = "close"
        BY <1>1 DEF At
    <2>2. call[t].clone = Nil
        BY <2>1 DEF SocketsInv, TaskInv, At
    <2>3. \A s \in Sock : s # Nil
        BY DEF Sock, Nil
    <2> QED
        BY <2>1, <2>2, <2>3 DEF Has, Frees
<1>5. o \in Obj /\ Nil \in Obj
    BY <1>2, NewRecords DEF Sock, Obj
<1> HIDE DEF k, i, o
<1>6. /\ slab' \in [Tables -> Seq(Obj)] /\ i \in Nat
      /\ \A j \in Tables : j # k => slab'[j] = slab[j]
      /\ DOMAIN slab'[k] = DOMAIN slab[k] \cup {i} /\ slab'[k][i] = Nil
      /\ \A j \in DOMAIN slab[k] : j # i => slab'[k][j] = slab[k][j]
    BY <1>1, <1>2, ClearFacts DEF SocketsInv
<1>7. /\ sock' \in [Sock -> SockRecord]
      /\ \A s \in Sock : /\ sock'[s].kind = sock[s].kind
                         /\ sock'[s].via = sock[s].via \/ sock'[s].via = Nil
                         /\ sock'[s].refs = IF s = o THEN sock[s].refs - 1 ELSE sock[s].refs
                         /\ sock[s].kind = "none" => sock'[s] = sock[s]
    BY <1>1, <1>2, <1>5, DropFacts
<1>8. \A s \in Sock : sock[s].kind = "none" \/ sock[s].via # Nil => sock'[s].refs = sock[s].refs
    BY <1>2, <1>7
<1>9. ASSUME NEW s \in Sock
      PROVE  sock'[s].refs + Ind(o = s) + Ind(Has(call[t], s))
                = sock[s].refs + Ind(Frees(call[t], s)) + Ind(Nil = s)
    <2>1. sock[s].refs \in Int /\ s # Nil
        BY SockFacts DEF SocketsInv, Sock, Nil
    <2>2. sock'[s].refs = IF s = o THEN sock[s].refs - 1 ELSE sock[s].refs
        BY <1>7
    <2> QED
        BY <2>1, <2>2, <1>4 DEF Ind
<1>10. o = IF i \in DOMAIN slab[k] THEN slab[k][i] ELSE Nil
    BY <1>2
<1>11. backend' = backend /\ k \in Tables
    BY <1>1, <1>2
<1>12. PICK r : Return(t, r)
    BY <1>1, Zenon
<1>13. \A u \in Task \ {t} : call[u].op \in {"closing", "clearing"} => ~(call[u].table = k /\ call[u].h + 1 = i)
    BY <1>3
<1> QED
    BY <1>5, <1>6, <1>7, <1>8, <1>9, <1>10, <1>11, <1>13, <1>12, TableStep

\* A close of the VM clears the slot after the descriptor.
LEMMA CloseSlotInv ==
    ASSUME SocketsInv, NEW t \in Task, CloseSlot(t)
    PROVE  SocketsInv'
<1> DEFINE k == call[t].table
           i == call[t].h + 1
           o == call[t].obj
<1>1. PICK r : Return(t, r)
    BY DEF CloseSlot
<1>2. At(t, "clearing") /\ slab' = [slab EXCEPT ![k][i] = Nil] /\ UNCHANGED <<backend, sock>>
    BY DEF CloseSlot
<1>3. i \in DOMAIN slab[k] /\ slab[k][i] = o /\ o # Nil /\ call[t].clone = Nil
    BY <1>2 DEF SocketsInv, TaskInv, At
<1>4. k \in Tables /\ o \in Obj /\ Nil \in Obj
    BY NewRecords DEF SocketsInv, SocketsTypeOK, CallType
<1>5. \A u \in Task \ {t} : call[u].op \notin {"closing", "clearing"}
    BY <1>2, OneClose DEF At
<1>6. \A s \in Sock : ~Has(call[t], s) /\ (Frees(call[t], s) <=> o = s)
    <2>1. call[t].op = "clearing" /\ call[t].clone = Nil
        BY <1>2, <1>3 DEF At
    <2>2. \A s \in Sock : s # Nil
        BY DEF Sock, Nil
    <2> QED
        BY <2>1, <2>2 DEF Has, Frees
<1> HIDE DEF k, i, o
<1>7. /\ slab' \in [Tables -> Seq(Obj)] /\ i \in Nat
      /\ \A j \in Tables : j # k => slab'[j] = slab[j]
      /\ DOMAIN slab'[k] = DOMAIN slab[k] \cup {i} /\ slab'[k][i] = Nil
      /\ \A j \in DOMAIN slab[k] : j # i => slab'[k][j] = slab[k][j]
    BY <1>2, <1>3, <1>4, ClearFacts DEF SocketsInv
<1>8. ASSUME NEW s \in Sock
      PROVE  sock'[s].refs + Ind(o = s) + Ind(Has(call[t], s))
                = sock[s].refs + Ind(Frees(call[t], s)) + Ind(Nil = s)
    <2>1. sock[s].refs \in Int /\ s # Nil
        BY SockFacts DEF SocketsInv, Sock, Nil
    <2>2. sock' = sock
        BY <1>2
    <2> QED
        BY <2>1, <2>2, <1>6 DEF Ind
<1>9. o = (IF i \in DOMAIN slab[k] THEN slab[k][i] ELSE Nil) /\ sock' \in [Sock -> SockRecord]
    BY <1>2, <1>3 DEF SocketsInv, SocketsTypeOK
<1>10. Return(t, r) /\ backend' = backend /\ sock' = sock
    BY <1>1, <1>2
<1>11. \A u \in Task \ {t} : call[u].op \in {"closing", "clearing"} => ~(call[u].table = k /\ call[u].h + 1 = i)
    BY <1>5
<1> QED
    BY <1>4, <1>7, <1>8, <1>9, <1>10, <1>11, TableStep, SMTT(40)

\* What the peers do changes neither the tables nor the tasks.
LEMMA PeerStep ==
    ASSUME SocketsInv, UNCHANGED <<backend, slab, lock, call>>, sock' \in [Sock -> SockRecord], Numbered',
           \A s \in Sock : sock'[s].kind = "none" \/ sock'[s].via # Nil =>
                              sock[s].kind = "none" \/ sock[s].via # Nil,
           \A s \in Sock : sock'[s].refs = sock[s].refs
    PROVE  SocketsInv'
<1>1. SocketsTypeOK'
    BY DEF SocketsInv, SocketsTypeOK, CallType
<1>2. Untouched'
    BY DEF SocketsInv, Untouched, Unmentioned
<1>3. \A t \in Task : TaskInv(t)'
    BY DEF SocketsInv, TaskInv, At
<1>4. ASSUME NEW s \in Sock
      PROVE  Accounted(s)'
    <2>1. Slots(s)' = Slots(s)
        BY DEF Slots, Places
    <2>2. Carriers(s)' = Carriers(s) /\ Clearers(s)' = Clearers(s)
        BY DEF Carriers, Carries, Clearers, Clears, At
    <2>3. Accounted(s) /\ sock'[s].refs = sock[s].refs
        BY DEF SocketsInv
    <2> QED
        BY <2>1, <2>2, <2>3 DEF Accounted, Owned
<1> QED
    BY <1>1, <1>2, <1>3, <1>4 DEF SocketsInv

\* What peers do touches no handle.
LEMMA PeersInv ==
    ASSUME SocketsInv, Peers
    PROVE  SocketsInv'
<1>0. sock \in [Sock -> SockRecord]
    BY DEF SocketsInv, SocketsTypeOK
<1>1. PICK l \in Sock : \/ PeerConnect(l) \/ PeerHello(l) \/ PeerReads(l) \/ PeerLeaves(l)
                         \/ \E data \in {"text", "nul"} : PeerSend(l, data)
    BY DEF Peers
<1>2. sock[l] \in SockRecord /\ l \in Obj
    BY <1>0 DEF Sock, Obj
<1>3. CASE PeerConnect(l)
    <2> DEFINE n == New
               rec == Conn(l, 0)
    <2>1. n \in Sock /\ sock' = [sock EXCEPT ![n] = rec] /\ UNCHANGED <<backend, slab, lock, call>>
        BY <1>3 DEF PeerConnect
    <2>2. rec \in SockRecord /\ rec.kind = "conn" /\ rec.refs = 0
        BY <1>2, NewRecords
    <2>3. Numbered'
        BY <2>1, <2>2, NumberedNew
    <2>4. sock[n].kind = "none" /\ sock[n].refs = 0
        BY <2>1, NewFacts DEF Unused
    <2> HIDE DEF n, rec
    <2>5. sock'[n] = rec /\ \A s \in Sock : s # n => sock'[s] = sock[s]
        BY <1>0, <2>1
    <2>6. sock' \in [Sock -> SockRecord]
        BY <1>0, <2>1, <2>2
    <2>7. \A s \in Sock : sock'[s].refs = sock[s].refs
        BY <2>2, <2>4, <2>5
    <2> QED
        BY <2>1, <2>3, <2>4, <2>5, <2>6, <2>7, PeerStep
<1>4. CASE \/ PeerHello(l) \/ PeerReads(l) \/ PeerLeaves(l) \/ \E data \in {"text", "nul"} : PeerSend(l, data)
    <2>1. UNCHANGED <<backend, slab, lock, call>> /\ sock[l].kind # "none"
        <3>1. Greeting(l) => sock[l].kind # "none"
            BY Mentioned DEF Greeting, Sock, Nil
        <3> QED
            BY <1>4, <3>1 DEF PeerHello, PeerReads, PeerLeaves, PeerSend
    <2>2. PICK rec \in SockRecord : /\ sock' = [sock EXCEPT ![l] = rec] /\ rec.kind = sock[l].kind
                                    /\ rec.refs = sock[l].refs /\ rec.via = sock[l].via
        <3>1. CASE PeerReads(l)
            <4> DEFINE rec == [sock[l] EXCEPT !.full = FALSE]
            <4>1. /\ rec \in SockRecord /\ rec.kind = sock[l].kind
                  /\ rec.refs = sock[l].refs /\ rec.via = sock[l].via
                BY <1>2 DEF SockRecord
            <4>2. sock' = [sock EXCEPT ![l] = rec]
                BY <3>1 DEF PeerReads
            <4> HIDE DEF rec
            <4> QED
                BY <4>1, <4>2
        <3>2. CASE PeerLeaves(l)
            <4> DEFINE rec == [sock[l] EXCEPT !.peer = FALSE]
            <4>1. /\ rec \in SockRecord /\ rec.kind = sock[l].kind
                  /\ rec.refs = sock[l].refs /\ rec.via = sock[l].via
                BY <1>2 DEF SockRecord
            <4>2. sock' = [sock EXCEPT ![l] = rec]
                BY <3>2 DEF PeerLeaves
            <4> HIDE DEF rec
            <4> QED
                BY <4>1, <4>2
        <3>3. CASE \E data \in {"text", "nul"} : PeerSend(l, data)
            <4>0. PICK data \in {"text", "nul"} : PeerSend(l, data)
                BY <3>3
            <4> DEFINE rec == [sock[l] EXCEPT !.in = data]
            <4>1. /\ rec \in SockRecord /\ rec.kind = sock[l].kind
                  /\ rec.refs = sock[l].refs /\ rec.via = sock[l].via
                BY <1>2 DEF SockRecord
            <4>2. sock' = [sock EXCEPT ![l] = rec]
                BY <4>0 DEF PeerSend
            <4> HIDE DEF rec
            <4> QED
                BY <4>1, <4>2
        <3>4. CASE PeerHello(l)
            <4> DEFINE rec == [sock[l] EXCEPT !.in = "hello"]
            <4>1. /\ rec \in SockRecord /\ rec.kind = sock[l].kind
                  /\ rec.refs = sock[l].refs /\ rec.via = sock[l].via
                BY <1>2 DEF SockRecord
            <4>2. sock' = [sock EXCEPT ![l] = rec]
                BY <3>4 DEF PeerHello
            <4> HIDE DEF rec
            <4> QED
                BY <4>1, <4>2
        <3> QED
            BY <1>4, <3>1, <3>2, <3>3, <3>4
    <2>3. sock'[l] = rec /\ \A s \in Sock : s # l => sock'[s] = sock[s]
        BY <1>0, <2>2
    <2>4. sock' \in [Sock -> SockRecord]
        BY <1>0, <2>2
    <2>5. \A s \in Sock : sock'[s].refs = sock[s].refs /\ sock'[s].kind = sock[s].kind /\ sock'[s].via = sock[s].via
        BY <2>2, <2>3
    <2>6. \A s \in Sock : sock[s].kind = "none" => sock'[s] = sock[s]
        BY <2>1, <2>3
    <2>7. Numbered'
        BY <2>5, <2>6, NumberedKeep DEF SocketsInv
    <2> QED
        BY <2>1, <2>4, <2>5, <2>7, PeerStep
<1> QED
    BY <1>1, <1>3, <1>4

-------------------------------------------------------------------------------
\* Theorems

\* The invariant holds at the start.
LEMMA InitSockets == Init => SocketsInv
<1> SUFFICES ASSUME Init PROVE SocketsInv
    OBVIOUS
<1>1. slab = [k \in Tables |-> <<>>] /\ lock = [l \in Locks |-> Nobody] /\ sock = [s \in Sock |-> Unused]
      /\ call = [t \in Task |-> Idle(Err)] /\ backend \in {"vm", "native"}
    BY SocketsAssumption DEF Init
<1>2. Nil \in Obj
    BY NewRecords
<1>3. Unused \in SockRecord /\ Unused.kind = "none" /\ Unused.refs = 0
    BY <1>2 DEF Unused, SockRecord
<1>4. \A r : CallType(Idle(r)) /\ Idle(r).obj = Nil /\ Idle(r).clone = Nil /\ Idle(r).op = "idle"
    BY <1>2 DEF CallType, Idle, Ops, Tables
<1>5. \A t \in Task : CallType(call[t]) /\ call[t].obj = Nil /\ call[t].clone = Nil /\ call[t].op = "idle"
    BY <1>1, <1>4
<1>6. SocketsTypeOK
    BY <1>1, <1>3, <1>5 DEF SocketsTypeOK
<1>7. Numbered
    <2>1. Made = {}
        BY <1>1, <1>3 DEF Made
    <2>2. Made = 1 .. Nil
        BY <2>1 DEF Nil
    <2> QED
        BY <1>1, <1>2, <2>2 DEF Numbered
<1>8. \A s \in Sock : s # Nil
    BY DEF Sock, Nil
<1>9. Untouched
    BY <1>1, <1>3, <1>5, <1>8 DEF Untouched, Unmentioned
<1>10. \A t \in Task : TaskInv(t)
    BY <1>5 DEF TaskInv, At
<1>11. ASSUME NEW s \in Sock
       PROVE  Accounted(s)
    <2>1. Slots(s) = {}
        BY <1>1, SlotsDef DEF SlotsAreWhere
    <2>2. Carriers(s) = {} /\ Clearers(s) = {}
        BY <1>5, <1>8 DEF Carriers, Carries, Clearers, Clears, At
    <2>3. sock[s].refs = 0
        BY <1>1, <1>3
    <2> QED
        BY <2>1, <2>2, <2>3, FS_EmptySet DEF Accounted, Owned
<1> QED
    BY <1>6, <1>7, <1>9, <1>10, <1>11 DEF SocketsInv

\* Every step keeps the invariant.
LEMMA NextSockets == SocketsInv /\ [Next]_vars => SocketsInv'
<1> SUFFICES ASSUME SocketsInv, [Next]_vars PROVE SocketsInv'
    OBVIOUS
<1>1. CASE UNCHANGED vars
    <2>1. UNCHANGED <<backend, slab, lock, call>> /\ sock' = sock
        BY <1>1 DEF vars
    <2>2. Numbered' /\ sock' \in [Sock -> SockRecord]
        BY <2>1, NumberedKeep DEF SocketsInv, SocketsTypeOK
    <2> QED
        BY <2>1, <2>2, PeerStep
<1>2. CASE Peers
    BY <1>2, PeersInv
<1>3. ASSUME NEW t \in Task, Step(t)
      PROVE  SocketsInv'
    BY <1>3, MakeInv, HandshakeInv, CloseWaitsInv, InsertInv, RefuseInv, AcceptInv, AcceptDoneInv, AcceptFailsInv, ReadInv, ReadDoneInv,
       WriteInv, WriteDoneInv, CloseNativeInv, CloseLookupInv, CloseSockInv, CloseSlotInv DEF Step
<1>4. ASSUME NEW t \in Task, \E b \in Builtins : Begin(t, b)
      PROVE  SocketsInv'
    BY <1>4, BeginInv
<1> QED
    BY <1>1, <1>2, <1>3, <1>4 DEF Next

\* The tables, the builtins under way and the descriptors of the operating
\* system agree in every state, on both backends.
THEOREM SocketsInvariant == Spec => []SocketsInv
<1>1. Init => SocketsInv
    BY InitSockets
<1>2. SocketsInv /\ [Next]_vars => SocketsInv'
    BY NextSockets
<1> QED
    BY <1>1, <1>2, PTL DEF Spec

\* Every descriptor that is open belongs to one slot of a table or to one
\* builtin under way: no error path and no race of a close loses one.
THEOREM NoDescriptorLost == Spec => []DescriptorsOwned
<1>1. SocketsInv => DescriptorsOwned
    BY DEF SocketsInv, DescriptorsOwned, Accounted, Made
<1> QED
    BY <1>1, SocketsInvariant, PTL

\* Closing never takes away a descriptor that is not there: a connection is
\* closed at most once for every time it was opened or cloned.
THEOREM NeverClosedTwice == Spec => [](\A s \in Sock : sock[s].refs >= 0)
<1>1. SocketsInv => \A s \in Sock : sock[s].refs >= 0
    <2> SUFFICES ASSUME SocketsInv, NEW s \in Sock PROVE sock[s].refs >= 0
        OBVIOUS
    <2> DEFINE B == Cardinality(Slots(s))  C == Cardinality(Carriers(s))  D == Cardinality(Clearers(s))
               R == sock[s].refs
    <2>1. IsFiniteSet(Carriers(s)) /\ IsFiniteSet(Clearers(s)) /\ IsFiniteSet(Slots(s)) /\ R + D = B + C
        BY TaskAssumption, FS_Subset DEF Carriers, Clearers, SocketsInv, Accounted, Owned
    <2>2. B \in Nat /\ C \in Nat /\ D \in Nat /\ R \in Int
        BY <2>1, FS_CardinalityType, SockFacts DEF SocketsInv
    <2>3. CASE Clearers(s) = {}
        <3>1. D = 0
            BY <2>3, FS_EmptySet
        <3> HIDE DEF B, C, D, R
        <3>2. R >= 0
            BY <2>1, <2>2, <3>1
        <3> QED
            BY <3>2 DEF R
    <2>4. CASE Clearers(s) # {}
        <3>1. PICK t \in Task : At(t, "clearing") /\ call[t].obj = s
            BY <2>4 DEF Clearers, Clears
        <3>2. Clearers(s) = {t}
            BY <3>1, OneClose DEF Clearers, Clears, At
        <3>3. D = 1
            BY <3>2, FS_Singleton
        <3>4. /\ call[t].h + 1 \in DOMAIN slab[call[t].table]
              /\ slab[call[t].table][call[t].h + 1] = s /\ call[t].table \in Tables
            BY <3>1 DEF SocketsInv, TaskInv, At, SocketsTypeOK, CallType
        <3>5. Slots(s) # {}
            BY <3>4, SlotsDef DEF SlotsAreWhere
        <3>6. B # 0
            BY <2>1, <3>5, FS_EmptySet
        <3> HIDE DEF B, C, D, R
        <3>7. R >= 0
            BY <2>1, <2>2, <3>3, <3>6
        <3> QED
            BY <3>7 DEF R
    <2> QED
        BY <2>3, <2>4
<1> QED
    BY <1>1, SocketsInvariant, PTL

-------------------------------------------------------------------------------
\* The handles that a program may use are those of HandleSpec.

\* Handle h of table k names something, and no close is about to free it.
Live(k, h) == h + 1 \in DOMAIN slab[k] /\ slab[k][h + 1] # Nil /\ ~Freeing(k, h + 1)

NamesAreLive(k) ==
    /\ DOMAIN Names(k) = {h \in Int : Live(k, h)}
    /\ Names(k) = [h \in {x \in Int : Live(k, x)} |-> slab[k][h + 1]]

\* The names of a table are its live handles.
LEMMA NamesDef == SocketsTypeOK => \A k \in Tables : NamesAreLive(k)
<1> SUFFICES ASSUME SocketsTypeOK, NEW k \in Tables PROVE NamesAreLive(k)
    OBVIOUS
<1> DEFINE E == {i - 1 : i \in Named(k)}
<1>1. DOMAIN slab[k] \subseteq Int
    BY DEF SocketsTypeOK
<1>2. ASSUME NEW h
      PROVE  h \in E <=> h \in Int /\ Live(k, h)
    <2>1. ASSUME h \in E PROVE h \in Int /\ Live(k, h)
        <3>1. PICK i \in Named(k) : h = i - 1
            BY <2>1
        <3>2. i \in Int /\ h + 1 = i /\ h \in Int
            BY <1>1, <3>1 DEF Named
        <3> QED
            BY <3>1, <3>2 DEF Live, Named
    <2>2. ASSUME h \in Int, Live(k, h) PROVE h \in E
        <3>1. (h + 1) - 1 = h
            BY <2>2
        <3>2. h + 1 \in Named(k)
            BY <2>2, <3>1 DEF Live, Named
        <3> QED
            BY <3>1, <3>2
    <2> QED
        BY <2>1, <2>2
<1>3. E = {x \in Int : Live(k, x)}
    BY <1>2
<1>4. Names(k) = [h \in E |-> slab[k][h + 1]]
    BY DEF Names
<1> HIDE DEF E
<1> QED
    BY <1>3, <1>4 DEF NamesAreLive

\* The same after a step.
LEMMA NamesDefNext == (SocketsTypeOK => \A k \in Tables : NamesAreLive(k))'
BY NamesDef, PTL

\* A step that changes no live handle of a table changes none of its names.
LEMMA KeepNames ==
    ASSUME SocketsTypeOK, SocketsTypeOK', NEW k \in Tables,
           \A h \in Int : Live(k, h)' <=> Live(k, h),
           \A h \in Int : Live(k, h) => slab'[k][h + 1] = slab[k][h + 1]
    PROVE  Names(k)' = Names(k)
<1>1. {x \in Int : Live(k, x)'} = {x \in Int : Live(k, x)}
    OBVIOUS
<1> QED
    BY <1>1, NamesDef, NamesDefNext DEF NamesAreLive

\* One handle becomes live and all others stay: a step of the promise that gives it.
LEMMA GiveStep ==
    ASSUME SocketsTypeOK, SocketsTypeOK', NEW k \in Tables, NEW h \in Int, NEW o,
           \A j \in Tables : \A x \in Int : j # k \/ x # h =>
                /\ Live(j, x)' <=> Live(j, x)
                /\ Live(j, x) => slab'[j][x + 1] = slab[j][x + 1],
           ~Live(k, h), Live(k, h)', slab'[k][h + 1] = o,
           \A j \in Tables : \A n \in DOMAIN slab[j] : slab[j][n] # o
    PROVE  Promise!Next
<1>1. \A j \in Tables : j # k => Names(j)' = Names(j)
    BY KeepNames
<1>2. h \notin DOMAIN Open[k] /\ DOMAIN Open = Tables
    BY NamesDef DEF NamesAreLive, Open
<1>3. ASSUME NEW j \in Tables
      PROVE  o \notin {Open[j][x] : x \in DOMAIN Open[j]}
    <2>1. Open[j] = Names(j)
        BY DEF Open
    <2>2. /\ DOMAIN Names(j) = {x \in Int : Live(j, x)}
          /\ Names(j) = [x \in {y \in Int : Live(j, y)} |-> slab[j][x + 1]]
        BY NamesDef DEF NamesAreLive
    <2>3. ASSUME NEW x \in DOMAIN Names(j)
          PROVE  Names(j)[x] # o
        <3>1. x \in Int /\ Live(j, x)
            BY <2>2, <2>3
        <3>2. Names(j)[x] = slab[j][x + 1]
            BY <2>2, <3>1
        <3> QED
            BY <3>1, <3>2 DEF Live
    <2> QED
        BY <2>1, <2>3
<1>4. Names(k)' = [i \in DOMAIN Names(k) \cup {h} |-> IF i = h THEN o ELSE Names(k)[i]]
    <2> DEFINE L == {x \in Int : Live(k, x)}
               M == {x \in Int : Live(k, x)'}
    <2>1. M = L \cup {h} /\ h \notin L /\ L \subseteq Int
        OBVIOUS
    <2>2. \A x \in L : x # h => slab'[k][x + 1] = slab[k][x + 1]
        OBVIOUS
    <2>3. DOMAIN Names(k) = L /\ Names(k) = [x \in L |-> slab[k][x + 1]]
        BY NamesDef DEF NamesAreLive
    <2>4. Names(k)' = [x \in M |-> slab'[k][x + 1]]
        BY NamesDefNext DEF NamesAreLive
    <2> HIDE DEF L, M
    <2>5. \A x \in L : Names(k)[x] = slab[k][x + 1]
        BY <2>3
    <2>6. \A x \in M : slab'[k][x + 1] = IF x = h THEN o ELSE Names(k)[x]
        BY <2>1, <2>2, <2>5
    <2> QED
        BY <2>1, <2>3, <2>4, <2>6
<1>5. Open' = [Open EXCEPT ![k] = [i \in DOMAIN Open[k] \cup {h} |-> IF i = h THEN o ELSE Open[k][i]]]
    BY <1>1, <1>4 DEF Open
<1>6. h \in DOMAIN Open'[k] /\ Open'[k][h] = o
    BY <1>4 DEF Open
<1>7. Promise!Give(k, h, Open'[k][h])
    BY <1>2, <1>3, <1>5, <1>6 DEF Promise!Give, Promise!Named
<1> QED
    BY <1>2, <1>6, <1>7 DEF Promise!Next

\* One handle stops being live and all others stay: a step that takes it back.
LEMMA TakeStep ==
    ASSUME SocketsTypeOK, SocketsTypeOK', NEW k \in Tables, NEW h \in Int,
           \A j \in Tables : \A x \in Int : j # k \/ x # h =>
                /\ Live(j, x)' <=> Live(j, x)
                /\ Live(j, x) => slab'[j][x + 1] = slab[j][x + 1],
           Live(k, h), ~Live(k, h)'
    PROVE  Promise!Next
<1>1. \A j \in Tables : j # k => Names(j)' = Names(j)
    BY KeepNames
<1>2. h \in DOMAIN Open[k] /\ DOMAIN Open = Tables
    BY NamesDef DEF NamesAreLive, Open
<1>3. Names(k)' = [i \in DOMAIN Names(k) \ {h} |-> Names(k)[i]]
    <2> DEFINE L == {x \in Int : Live(k, x)}
               M == {x \in Int : Live(k, x)'}
    <2>1. M = L \ {h}
        OBVIOUS
    <2>2. \A x \in L : x # h => slab'[k][x + 1] = slab[k][x + 1]
        OBVIOUS
    <2>3. DOMAIN Names(k) = L /\ Names(k) = [x \in L |-> slab[k][x + 1]]
        BY NamesDef DEF NamesAreLive
    <2>4. Names(k)' = [x \in M |-> slab'[k][x + 1]]
        BY NamesDefNext DEF NamesAreLive
    <2> HIDE DEF L, M
    <2>5. \A x \in L : Names(k)[x] = slab[k][x + 1]
        BY <2>3
    <2>6. \A x \in M : slab'[k][x + 1] = Names(k)[x]
        BY <2>1, <2>2, <2>5
    <2> QED
        BY <2>1, <2>3, <2>4, <2>6
<1>4. Open' = [Open EXCEPT ![k] = [i \in DOMAIN Open[k] \ {h} |-> Open[k][i]]]
    BY <1>1, <1>3 DEF Open
<1>5. Promise!Take(k, h)
    BY <1>2, <1>4 DEF Promise!Take
<1> QED
    BY <1>2, <1>5 DEF Promise!Next

\* The names stay when no slot changes and no close reaches or leaves its
\* last step.
LEMMA QuietNames ==
    ASSUME SocketsTypeOK, SocketsTypeOK', slab' = slab,
           \A u \in Task : call'[u] = call[u] \/ (~At(u, "clearing") /\ ~At(u, "clearing")')
    PROVE  Open' = Open
<1>1. \A k \in Tables : \A h \in Int : Freeing(k, h + 1)' <=> Freeing(k, h + 1)
    BY DEF Freeing, At
<1>2. \A k \in Tables : \A h \in Int : Live(k, h)' <=> Live(k, h)
    BY <1>1 DEF Live
<1>3. \A k \in Tables : Names(k)' = Names(k)
    BY <1>2, KeepNames
<1> QED
    BY <1>3 DEF Open

\* A task that returns or goes on to wait, and what the others do meanwhile.
LEMMA ReturnQuiet ==
    ASSUME SocketsInv, NEW t \in Task, NEW r, Return(t, r)
    PROVE  call'[t].op = "idle" /\ \A u \in Task : u # t => call'[u] = call[u]
<1>1. Moves(t, Idle(r))
    BY ReturnFacts
<1> QED
    BY <1>1 DEF Moves, Idle

\* A call that goes on waiting changes only itself.
LEMMA WaitQuiet ==
    ASSUME SocketsInv, NEW t \in Task, NEW op \in Ops, NEW obj, NEW ls, Wait(t, op, obj, ls)
    PROVE  call'[t].op = op /\ \A u \in Task : u # t => call'[u] = call[u]
<1>1. call = [u \in Task |-> call[u]] /\ CallType(call[t])
    BY DEF SocketsInv, SocketsTypeOK
<1> QED
    BY <1>1 DEF Wait, CallType

\* Steps that change no table change no name.
LEMMA QuietSteps ==
    ASSUME SocketsInv, SocketsTypeOK', NEW t \in Task,
           \/ Make(t) \/ Handshake(t) \/ CloseWaits(t) \/ Refuse(t) \/ Accept(t) \/ AcceptDone(t) \/ AcceptFails(t)
           \/ Read(t) \/ ReadDone(t) \/ Write(t) \/ WriteDone(t) \/ CloseLookup(t)
           \/ \E b \in Builtins : Begin(t, b)
    PROVE  Open' = Open
<1>0. call = [u \in Task |-> call[u]] /\ CallType(call[t]) /\ SocketsTypeOK
    BY DEF SocketsInv, SocketsTypeOK
<1>1. slab' = slab /\ ~At(t, "clearing")
    BY DEF Make, Handshake, CloseWaits, Refuse, Accept, AcceptDone, AcceptFails, Read, ReadDone, Write, WriteDone, CloseLookup,
           Begin, Found, At
<1>2. \/ \E r : Return(t, r)
      \/ \E op \in {"handshake", "insert", "accepting", "reading", "writing", "close", "closing"} : \E obj, ls : Wait(t, op, obj, ls)
      \/ AcceptDone(t)
      \/ call' = [call EXCEPT ![t].op = "accepting", ![t].obj = Entry(t), ![t].clone = Entry(t)]
      \/ \E b \in Builtins : Begin(t, b)
    <2>1. CASE Refuse(t) \/ Accept(t) \/ AcceptFails(t)
        BY <2>1 DEF Refuse, Accept, AcceptFails
    <2>m. CASE Make(t)
        <3>1. (IF call[t].tls THEN "handshake" ELSE "insert") \in {"handshake", "insert"}
            OBVIOUS
        <3> QED
            BY <2>m, <3>1 DEF Make
    <2>h. CASE Handshake(t) \/ CloseWaits(t)
        BY <2>h DEF Handshake, CloseWaits
    <2>2. CASE Read(t) \/ ReadDone(t)
        BY <2>2 DEF Read, ReadDone
    <2>3. CASE Write(t) \/ WriteDone(t) \/ CloseLookup(t)
        BY <2>3 DEF Write, WriteDone, CloseLookup
    <2> QED
        BY <2>1, <2>m, <2>h, <2>2, <2>3
<1>3. call'[t].op # "clearing" /\ \A u \in Task : u # t => call'[u] = call[u]
    <2>1. CASE \E r : Return(t, r)
        BY <2>1, ReturnQuiet
    <2>2. CASE \E op \in {"handshake", "insert", "accepting", "reading", "writing", "close", "closing"} : \E obj, ls : Wait(t, op, obj, ls)
        BY <2>2, WaitQuiet DEF Ops
    <2>3. CASE AcceptDone(t)
        <3>1. PICK c : call' = [call EXCEPT ![t].op = "insert", ![t].table = "stream", ![t].obj = c]
            BY <2>3 DEF AcceptDone
        <3> QED
            BY <1>0, <3>1 DEF CallType
    <2>4. CASE call' = [call EXCEPT ![t].op = "accepting", ![t].obj = Entry(t), ![t].clone = Entry(t)]
        BY <1>0, <2>4 DEF CallType
    <2>5. CASE \E b \in Builtins : Begin(t, b)
        <3>1. PICK b \in Builtins : Begin(t, b)
            BY <2>5
        <3>2. b[1] # "clearing"
            BY DEF Builtins
        <3> QED
            BY <1>0, <3>1, <3>2 DEF Begin, Idle
    <2> QED
        BY <1>2, <2>1, <2>2, <2>3, <2>4, <2>5
<1> QED
    BY <1>0, <1>1, <1>3, QuietNames DEF At

\* Putting a descriptor in a table gives a handle that named nothing.
LEMMA InsertGives ==
    ASSUME SocketsInv, SocketsTypeOK', NEW t \in Task, Insert(t)
    PROVE  Promise!Next
<1>k. PICK k : k = call[t].table
    OBVIOUS
<1>i. PICK i : i = Slot(slab[k])
    OBVIOUS
<1>v. PICK v : v = call[t].obj
    OBVIOUS
<1>1. /\ At(t, "insert") /\ slab' = [slab EXCEPT ![k] = Put(@, i, v)] /\ Return(t, Ok(i - 1))
    BY <1>k, <1>i, <1>v DEF Insert
<1>2. k \in Tables /\ v \in Obj /\ SocketsTypeOK
    BY <1>k, <1>v DEF SocketsInv, SocketsTypeOK, CallType
<1>3. v # Nil /\ \A j \in Tables : \A n \in DOMAIN slab[j] : slab[j][n] # v
    BY <1>1, <1>v DEF SocketsInv, TaskInv, At
<1>4. i \in Nat \ {0} /\ i <= Len(slab[k]) + 1 /\ (i \in DOMAIN slab[k] => slab[k][i] = Nil)
    <2>1. slab[k] \in Seq(Obj)
        BY <1>2 DEF SocketsTypeOK
    <2> QED
        BY <2>1, <1>i, SlotFacts
<1>5. \A u \in Task : At(u, "clearing") =>
          /\ slab[call[u].table][call[u].h + 1] # Nil
          /\ call[u].h + 1 \in DOMAIN slab[call[u].table]
    BY DEF SocketsInv, TaskInv, At
<1>6. \A u \in Task : At(u, "clearing")' <=> At(u, "clearing")
    BY <1>1, ReturnQuiet DEF At
<1>7. \A u \in Task : At(u, "clearing") => call'[u] = call[u]
    BY <1>1, ReturnQuiet DEF At
<1>8. /\ \A j \in Tables : j # k => slab'[j] = slab[j]
      /\ DOMAIN slab'[k] = DOMAIN slab[k] \cup {i} /\ slab'[k][i] = v
      /\ \A j \in DOMAIN slab[k] : j # i => slab'[k][j] = slab[k][j]
    <2>1. slab'[k] = Put(slab[k], i, v) /\ \A j \in Tables : j # k => slab'[j] = slab[j]
        BY <1>1, <1>2 DEF SocketsTypeOK
    <2>2. PICK q : q = slab[k]
        OBVIOUS
    <2>3. q \in Seq(Obj)
        BY <1>2, <2>2 DEF SocketsTypeOK
    <2>4. i \in Nat \ {0}
        BY <1>4
    <2>5. i <= Len(q) + 1
        BY <1>4, <2>2
    <2>6. v \in Obj
        BY <1>2
    <2>7. /\ DOMAIN Put(q, i, v) = DOMAIN q \cup {i} /\ Put(q, i, v)[i] = v
          /\ \A j \in DOMAIN q : j # i => Put(q, i, v)[j] = q[j]
        BY <2>3, <2>4, <2>5, <2>6, PutFacts, ZenonT(40)
    <2> QED
        BY <2>1, <2>2, <2>7
<1>9. \A j \in Tables : \A n \in Int : Freeing(j, n)' <=> Freeing(j, n)
    BY <1>6, <1>7 DEF Freeing
<1>10. ~Freeing(k, i)
    BY <1>4, <1>5 DEF Freeing
<1>h. PICK h : h = i - 1
    OBVIOUS
<1>11. h \in Int /\ h + 1 = i /\ \A x \in Int : x # h => x + 1 # i /\ x + 1 \in Int
    BY <1>4, <1>h
<1>12. ~Live(k, h) /\ Live(k, h)' /\ slab'[k][h + 1] = v
    BY <1>2, <1>3, <1>4, <1>8, <1>9, <1>10, <1>11 DEF Live
<1>13. ASSUME NEW j \in Tables, NEW x \in Int, j # k \/ x # h
       PROVE  /\ Live(j, x)' <=> Live(j, x)
              /\ Live(j, x) => slab'[j][x + 1] = slab[j][x + 1]
    <2>1. Freeing(j, x + 1)' <=> Freeing(j, x + 1)
        BY <1>9
    <2>2. (x + 1 \in DOMAIN slab'[j] <=> x + 1 \in DOMAIN slab[j])
            /\ (x + 1 \in DOMAIN slab[j] => slab'[j][x + 1] = slab[j][x + 1])
        BY <1>8, <1>11, <1>13
    <2> QED
        BY <2>1, <2>2 DEF Live
<1> QED
    BY <1>2, <1>3, <1>11, <1>12, <1>13, GiveStep

\* A close of a compiled program takes a handle back.
LEMMA CloseNativeTakes ==
    ASSUME SocketsInv, SocketsTypeOK', NEW t \in Task, CloseNative(t)
    PROVE  Promise!Next
<1>k. PICK k : k = call[t].table
    OBVIOUS
<1>h. PICK h : h = call[t].h
    OBVIOUS
<1>1. /\ Valid(k, h) /\ slab' = [slab EXCEPT ![k][h + 1] = Nil] /\ backend = "native" /\ \E r : Return(t, r)
    BY <1>k, <1>h DEF CloseNative
<1>2. k \in Tables /\ h \in Int /\ h + 1 \in DOMAIN slab[k] /\ slab[k][h + 1] # Nil /\ SocketsTypeOK
    BY <1>1, <1>k, <1>h, EntryFacts DEF SocketsInv, Sock, Nil
<1>3. \A u \in Task : ~At(u, "clearing") /\ ~At(u, "clearing")'
    <2>1. \A u \in Task : ~At(u, "clearing")
        BY <1>1 DEF SocketsInv, TaskInv, At
    <2> QED
        BY <1>1, <2>1, ReturnQuiet DEF At
<1>4. \A j \in Tables : \A n \in Int : ~Freeing(j, n)' /\ ~Freeing(j, n)
    BY <1>3 DEF Freeing
<1>5. /\ \A j \in Tables : j # k => slab'[j] = slab[j]
      /\ DOMAIN slab'[k] = DOMAIN slab[k] \cup {h + 1} /\ slab'[k][h + 1] = Nil
      /\ \A j \in DOMAIN slab[k] : j # h + 1 => slab'[k][j] = slab[k][j]
    BY <1>1, <1>2, ClearFacts
<1>6. Live(k, h) /\ ~Live(k, h)'
    BY <1>2, <1>4, <1>5 DEF Live
<1>7. ASSUME NEW j \in Tables, NEW x \in Int, j # k \/ x # h
      PROVE  /\ Live(j, x)' <=> Live(j, x)
             /\ Live(j, x) => slab'[j][x + 1] = slab[j][x + 1]
    <2>1. j # k \/ x + 1 # h + 1
        BY <1>2, <1>7
    <2>2. (x + 1 \in DOMAIN slab'[j] <=> x + 1 \in DOMAIN slab[j])
            /\ (x + 1 \in DOMAIN slab[j] => slab'[j][x + 1] = slab[j][x + 1])
        BY <1>2, <1>5, <2>1
    <2> QED
        BY <1>4, <2>2 DEF Live
<1> QED
    BY <1>2, <1>6, <1>7, TakeStep

\* A close of the VM takes the handle back when it closes the descriptor.
LEMMA CloseSockTakes ==
    ASSUME SocketsInv, SocketsTypeOK', NEW t \in Task, CloseSock(t)
    PROVE  Promise!Next
<1>k. PICK k : k = call[t].table
    OBVIOUS
<1>h. PICK h : h = call[t].h
    OBVIOUS
<1>1. At(t, "closing") /\ Wait(t, "clearing", call[t].obj, {}) /\ slab' = slab
    BY DEF CloseSock
<1>2. /\ k \in Tables /\ h \in Int /\ SocketsTypeOK /\ call[t].obj \in Obj
      /\ h + 1 \in DOMAIN slab[k] /\ slab[k][h + 1] # Nil
    BY <1>1, <1>k, <1>h DEF SocketsInv, TaskInv, At, SocketsTypeOK, CallType
<1>3. \A u \in Task \ {t} : ~At(u, "clearing")
    BY <1>1, OneClose DEF At
<1>4. /\ call'[t].op = "clearing" /\ call'[t].table = k /\ call'[t].h = h
      /\ \A u \in Task : u # t => call'[u] = call[u]
    <2>1. "clearing" \in Ops /\ "thread" \notin {}
        BY DEF Ops
    <2>2. Moves(t, Waiting(t, "clearing", call[t].obj))
        BY <1>1, <1>2, <2>1, WaitFacts
    <2>3. /\ Waiting(t, "clearing", call[t].obj).op = "clearing"
          /\ Waiting(t, "clearing", call[t].obj).table = k /\ Waiting(t, "clearing", call[t].obj).h = h
        BY <1>1, <1>2, <1>k, <1>h, <2>1, WaitFacts
    <2> QED
        BY <2>2, <2>3 DEF Moves
<1>5. ~At(t, "clearing")
    BY <1>1 DEF At
<1>6. ASSUME NEW j \in Tables, NEW n \in Int
      PROVE  ~Freeing(j, n) /\ (Freeing(j, n)' <=> j = k /\ n = h + 1)
    BY <1>3, <1>4, <1>5 DEF Freeing, At
<1>7. Live(k, h) /\ ~Live(k, h)'
    BY <1>1, <1>2, <1>6 DEF Live
<1>8. ASSUME NEW j \in Tables, NEW x \in Int, j # k \/ x # h
      PROVE  /\ Live(j, x)' <=> Live(j, x)
             /\ Live(j, x) => slab'[j][x + 1] = slab[j][x + 1]
    <2>1. j # k \/ x + 1 # h + 1
        BY <1>2, <1>8
    <2>2. ~Freeing(j, x + 1) /\ ~Freeing(j, x + 1)'
        BY <1>6, <2>1
    <2> QED
        BY <1>1, <2>2 DEF Live
<1> QED
    BY <1>2, <1>7, <1>8, TakeStep

\* Clearing the slot later is not seen any more.
LEMMA CloseSlotStutters ==
    ASSUME SocketsInv, SocketsTypeOK', NEW t \in Task, CloseSlot(t)
    PROVE  Open' = Open
<1>k. PICK k : k = call[t].table
    OBVIOUS
<1>h. PICK h : h = call[t].h
    OBVIOUS
<1>1. At(t, "clearing") /\ slab' = [slab EXCEPT ![k][h + 1] = Nil] /\ \E r : Return(t, r)
    BY <1>k, <1>h DEF CloseSlot
<1>2. /\ k \in Tables /\ h \in Int /\ SocketsTypeOK
      /\ h + 1 \in DOMAIN slab[k]
    BY <1>1, <1>k, <1>h DEF SocketsInv, TaskInv, At, SocketsTypeOK, CallType
<1>3. \A u \in Task \ {t} : ~At(u, "clearing")
    BY <1>1, OneClose DEF At
<1>4. \A u \in Task : ~At(u, "clearing")'
    BY <1>1, <1>3, ReturnQuiet DEF At
<1>5. \A j, n : Freeing(j, n) <=> j = k /\ n = h + 1
    BY <1>1, <1>3, <1>k, <1>h DEF Freeing
<1>6. \A j, n : ~Freeing(j, n)'
    BY <1>4 DEF Freeing
<1>7. /\ \A j \in Tables : j # k => slab'[j] = slab[j]
      /\ DOMAIN slab'[k] = DOMAIN slab[k] \cup {h + 1} /\ slab'[k][h + 1] = Nil
      /\ \A j \in DOMAIN slab[k] : j # h + 1 => slab'[k][j] = slab[k][j]
    BY <1>1, <1>2, ClearFacts
<1>8. ~Live(k, h) /\ ~Live(k, h)'
    BY <1>5, <1>7 DEF Live
<1>9. ASSUME NEW j \in Tables, NEW x \in Int, j # k \/ x # h
      PROVE  /\ Live(j, x)' <=> Live(j, x)
             /\ Live(j, x) => slab'[j][x + 1] = slab[j][x + 1]
    <2>1. j # k \/ x + 1 # h + 1
        BY <1>2, <1>9
    <2>2. (x + 1 \in DOMAIN slab'[j] <=> x + 1 \in DOMAIN slab[j])
            /\ (x + 1 \in DOMAIN slab[j] => slab'[j][x + 1] = slab[j][x + 1])
        BY <1>2, <1>7, <2>1
    <2>3. ~Freeing(j, x + 1) /\ ~Freeing(j, x + 1)'
        BY <1>5, <1>6, <2>1
    <2> QED
        BY <2>2, <2>3 DEF Live
<1>10. ASSUME NEW j \in Tables
       PROVE  Names(j)' = Names(j)
    <2>1. \A x \in Int : Live(j, x)' <=> Live(j, x)
        BY <1>8, <1>9
    <2>2. \A x \in Int : Live(j, x) => slab'[j][x + 1] = slab[j][x + 1]
        BY <1>8, <1>9
    <2> QED
        BY <1>2, <2>1, <2>2, KeepNames
<1> QED
    BY <1>10 DEF Open

\* The tables implement HandleSpec: Insert gives a handle, the native close
\* and the Close of the VM take one, and no other step, in whatever order the
\* tasks run, changes what a handle names.  (slab_insert, tcp_close, the
\* close builtins)
THEOREM TablesImplementHandles == Spec => HandlesKept
<1>1. Init => Promise!Init
    <2> SUFFICES ASSUME Init PROVE Promise!Init
        OBVIOUS
    <2>1. SocketsTypeOK /\ slab = [k \in Tables |-> <<>>]
        BY InitSockets DEF SocketsInv, Init
    <2>2. ASSUME NEW k \in Tables PROVE Names(k) = <<>>
        <3>1. Named(k) = {}
            BY <2>1 DEF Named
        <3>2. Names(k) = [h \in {} |-> slab[k][h + 1]]
            BY <3>1 DEF Names
        <3> QED
            BY <3>2
    <2> QED
        BY <2>2 DEF Promise!Init, Open
<1>2. SocketsInv /\ SocketsInv' /\ [Next]_vars => [Promise!Next]_Open
    <2> SUFFICES ASSUME SocketsInv, SocketsInv', [Next]_vars
                 PROVE  Promise!Next \/ Open' = Open
        OBVIOUS
    <2>0. SocketsTypeOK /\ SocketsTypeOK'
        BY DEF SocketsInv
    <2>1. CASE UNCHANGED vars \/ Peers
        <3>1. slab' = slab /\ call' = call
            BY <2>1 DEF vars, Peers, PeerConnect, PeerHello, PeerReads, PeerLeaves, PeerSend
        <3> QED
            BY <2>0, <3>1, QuietNames
    <2>2. ASSUME NEW t \in Task, Step(t) \/ \E b \in Builtins : Begin(t, b)
          PROVE  Promise!Next \/ Open' = Open
        <3>1. CASE Insert(t)
            BY <2>0, <3>1, InsertGives
        <3>2. CASE CloseNative(t)
            BY <2>0, <3>2, CloseNativeTakes
        <3>3. CASE CloseSock(t)
            BY <2>0, <3>3, CloseSockTakes
        <3>4. CASE CloseSlot(t)
            BY <2>0, <3>4, CloseSlotStutters
        <3> QED
            BY <2>0, <2>2, <3>1, <3>2, <3>3, <3>4, QuietSteps DEF Step
    <2> QED
        BY <2>1, <2>2 DEF Next
<1> QED
    BY <1>1, <1>2, SocketsInvariant, PTL DEF Spec, HandlesKept, Promise!Spec
================================================================================
