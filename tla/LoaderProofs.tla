----------------------------- MODULE LoaderProofs -----------------------------
(***************************************************************************)
(* Theorems about the module loader, for every set of packages, every      *)
(* import graph over them, with cycles, and every set of broken packages.  *)
(***************************************************************************)
EXTENDS Loader, FiniteSetTheorems, TLAPS

Frame == [imports : Seq(Package), pkg : Package \cup {Nothing}, next : Nat \ {0}, out : Seq(Package)]

LoaderTypeOK ==
    /\ tree \in Programs
    /\ frames \in Seq(Frame)
    /\ visited \in SUBSET Package /\ types \in SUBSET Package
    /\ packages \in Seq(Package)
    /\ registry \in SUBSET Package /\ missing \in SUBSET (Package \X Package)
    /\ status \in {"load", "failed", "check", "done"}

\* There are activations while packages are loaded, and no result before.
Phases ==
    /\ status = "load" <=> frames # <<>>
    /\ status \in {"load", "failed"} => packages = <<>> /\ registry = {} /\ missing = {}

-----------------------------------------------------------------------------
\* Lists of lists

In(L, p) == \E i \in DOMAIN L : \E j \in DOMAIN L[i] : L[i][j] = p

\* Some q stands before some p.
Precedes(L, q, p) ==
    \E i, k \in DOMAIN L : \E j \in DOMAIN L[i], l \in DOMAIN L[k] :
        L[i][j] = q /\ L[k][l] = p /\ (i < k \/ (i = k /\ j < l))

Distinct(L) ==
    \A i, k \in DOMAIN L : \A j \in DOMAIN L[i], l \in DOMAIN L[k] :
        L[i][j] = L[k][l] => i = k /\ j = l

-----------------------------------------------------------------------------
\* The inductive invariant

\* The lists of packages: those that the activations have collected, from
\* the outermost inwards, then the one that Load returned.
Outs == IF status = "load" THEN [i \in DOMAIN frames |-> frames[i].out] ELSE <<packages>>

Done(p) == In(Outs, p)
Held(p) == \E i \in DOMAIN frames : frames[i].pkg = p

\* Every package is in hand once, or in the lists once; no other is visited.
Once ==
    /\ Distinct(Outs)
    /\ \A i, k \in DOMAIN frames : frames[i].pkg = frames[k].pkg /\ frames[i].pkg # Nothing => i = k
    /\ \A p \in Package : Done(p) => ~Held(p)
    /\ \A p \in Package : p \in visited <=> Done(p) \/ Held(p)

\* Every activation but the innermost has a package in hand, and that
\* package leads to what the activations inside it are working on.
Stack ==
    /\ \A i \in DOMAIN frames : i < Len(frames) => frames[i].pkg # Nothing
    /\ \A i, j \in DOMAIN frames : \A p, q \in Package :
          i < j /\ frames[i].pkg = p /\ (frames[j].pkg = q \/ q \in ToSet(frames[j].imports))
              => LeadsTo(p, q)

\* What the activation called by i has still to do.
Pending(i) == IF i < Len(frames) THEN ToSet(frames[i + 1].imports) ELSE {}

\* Nothing is forgotten: an import is visited, or an activation has it.
NoneForgotten ==
    /\ ToSet(tree.main) \subseteq visited \cup Pending(0)
    /\ \A i \in DOMAIN frames : \A p \in Package : frames[i].pkg = p =>
          \A n \in DOMAIN tree.files[p] : n < frames[i].next =>
             ToSet(LeadingImports(tree.files[p][n])) \subseteq visited \cup Pending(i)
    /\ \A p \in Package : Done(p) => Leading(p) \subseteq visited

\* Only what is needed is touched, and nothing broken gets through.
OnlyNeeded ==
    /\ visited \subseteq Needed /\ visited \cap tree.broken = {} /\ types = visited
    /\ \A i \in DOMAIN frames : ToSet(frames[i].imports) \subseteq Needed

\* The lists are in the order of imports, except around a cycle.
Ordered ==
    \A p, q \in Package : Done(p) /\ q \in Leading(p) => Precedes(Outs, q, p) \/ LeadsTo(q, p)

\* The checker has gone through the first packages of the list.
Checked ==
    \E c \in 0 .. Len(packages) :
        Cardinality(registry) = c /\ registry = {packages[i] : i \in 1 .. c}

LoaderInv ==
    /\ LoaderTypeOK /\ Phases /\ Checked
    /\ status # "failed" => Once /\ Stack /\ NoneForgotten /\ OnlyNeeded /\ Ordered
    /\ status = "failed" => Needed \cap tree.broken # {}
    /\ DependenciesFirst

-----------------------------------------------------------------------------
\* What the model's operators do

\* The elements of a list are its head and those of its tail.
LEMMA HeadTail ==
    ASSUME NEW S, NEW s \in Seq(S), s # <<>>
    PROVE  /\ Head(s) \in S /\ Tail(s) \in Seq(S)
           /\ ToSet(s) = {Head(s)} \cup ToSet(Tail(s))
<1>1. Head(s) \in S /\ Tail(s) \in Seq(S) /\ Len(s) \in Nat \ {0}
    OBVIOUS
<1>2. /\ DOMAIN s = 1 .. Len(s) /\ DOMAIN Tail(s) = 1 .. Len(s) - 1
      /\ Head(s) = s[1] /\ \A i \in 1 .. Len(s) - 1 : Tail(s)[i] = s[i + 1]
    OBVIOUS
<1>3. ASSUME NEW x \in ToSet(s) PROVE x \in {Head(s)} \cup ToSet(Tail(s))
  <2>1. PICK i \in 1 .. Len(s) : s[i] = x
      BY <1>2, <1>3 DEF ToSet
  <2>2. CASE i = 1
      BY <2>1, <2>2, <1>2
  <2>3. CASE i # 1
    <3>1. i - 1 \in 1 .. Len(s) - 1 /\ (i - 1) + 1 = i
        BY <1>1, <2>3
    <3>2. Tail(s)[i - 1] = x
        BY <3>1, <2>1, <1>2
    <3> QED
        BY <3>1, <3>2, <1>2 DEF ToSet
  <2> QED
      BY <2>2, <2>3
<1>4. ASSUME NEW x \in ToSet(Tail(s)) PROVE x \in ToSet(s)
  <2>1. PICK i \in 1 .. Len(s) - 1 : Tail(s)[i] = x
      BY <1>2, <1>4 DEF ToSet
  <2> QED
      BY <2>1, <1>1, <1>2 DEF ToSet
<1>5. Head(s) \in ToSet(s)
    BY <1>1, <1>2 DEF ToSet
<1> QED
    BY <1>1, <1>3, <1>4, <1>5

\* Append and \o, position by position.
LEMMA AppendFacts ==
    ASSUME NEW S, NEW s \in Seq(S), NEW x \in S
    PROVE  /\ Append(s, x) \in Seq(S) /\ Len(s) \in Nat /\ DOMAIN s = 1 .. Len(s)
           /\ DOMAIN Append(s, x) = 1 .. Len(s) + 1
           /\ \A j \in 1 .. Len(s) : Append(s, x)[j] = s[j]
           /\ Append(s, x)[Len(s) + 1] = x
    OBVIOUS

\* What is in a concatenation of two sequences.
LEMMA ConcatFacts ==
    ASSUME NEW S, NEW s \in Seq(S), NEW t \in Seq(S)
    PROVE  /\ s \o t \in Seq(S)
           /\ Len(s) \in Nat /\ DOMAIN s = 1 .. Len(s)
           /\ Len(t) \in Nat /\ DOMAIN t = 1 .. Len(t)
           /\ DOMAIN (s \o t) = 1 .. Len(s) + Len(t)
           /\ \A j \in 1 .. Len(s) : (s \o t)[j] = s[j]
           /\ \A j \in 1 .. Len(t) : (s \o t)[Len(s) + j] = t[j]
    OBVIOUS

\* An empty list at the end changes nothing.
LEMMA AddEmpty ==
    ASSUME NEW S, NEW L \in Seq(Seq(S))
    PROVE  LET M == Append(L, <<>>) IN
           /\ \A p : In(M, p) <=> In(L, p)
           /\ \A p, q : Precedes(L, q, p) => Precedes(M, q, p)
           /\ Distinct(L) => Distinct(M)
<1> DEFINE M == Append(L, <<>>)
<1>1. /\ DOMAIN L = 1 .. Len(L) /\ DOMAIN M = 1 .. Len(L) + 1 /\ Len(L) \in Nat
      /\ \A i \in DOMAIN L : M[i] = L[i] /\ i \in DOMAIN M
      /\ M[Len(L) + 1] = <<>>
    OBVIOUS
<1>2. DOMAIN <<>> = {}
    OBVIOUS
<1> HIDE DEF M
<1>3. \A i \in DOMAIN M : (i \in DOMAIN L /\ M[i] = L[i]) \/ DOMAIN M[i] = {}
    BY <1>1, <1>2
<1>4. \A p : In(M, p) <=> In(L, p)
    BY <1>1, <1>3 DEF In
<1>5. \A p, q : Precedes(L, q, p) => Precedes(M, q, p)
  <2> SUFFICES ASSUME NEW p, NEW q, Precedes(L, q, p) PROVE Precedes(M, q, p)
      OBVIOUS
  <2>1. PICK i \in DOMAIN L, k \in DOMAIN L : \E j \in DOMAIN L[i], l \in DOMAIN L[k] :
            L[i][j] = q /\ L[k][l] = p /\ (i < k \/ (i = k /\ j < l))
      BY DEF Precedes
  <2>2. i \in DOMAIN M /\ k \in DOMAIN M /\ M[i] = L[i] /\ M[k] = L[k]
      BY <1>1
  <2> QED
      BY <2>1, <2>2 DEF Precedes
<1>6. Distinct(L) => Distinct(M)
    BY <1>3 DEF Distinct
<1> QED
    BY <1>4, <1>5, <1>6 DEF M

\* A new package at the end of the last list comes after all others.
LEMMA AddLast ==
    ASSUME NEW S, NEW L \in Seq(Seq(S)), NEW x \in S, L # <<>>, ~In(L, x), Distinct(L)
    PROVE  LET M == [L EXCEPT ![Len(L)] = Append(@, x)] IN
           /\ \A p : In(M, p) <=> In(L, p) \/ p = x
           /\ \A p, q : Precedes(L, q, p) => Precedes(M, q, p)
           /\ \A q : In(L, q) => Precedes(M, q, x)
           /\ Distinct(M)
<1> DEFINE M == [L EXCEPT ![Len(L)] = Append(@, x)]
           n == Len(L)
           m == Len(L[n]) + 1
<1>1. /\ DOMAIN L = 1 .. n /\ DOMAIN M = 1 .. n /\ n \in Nat \ {0} /\ L[n] \in Seq(S)
      /\ \A i \in 1 .. n : i # n => M[i] = L[i]
      /\ M[n] = Append(L[n], x)
    OBVIOUS
<1>2. /\ Len(L[n]) \in Nat /\ DOMAIN L[n] = 1 .. Len(L[n]) /\ DOMAIN Append(L[n], x) = 1 .. m
      /\ \A j \in DOMAIN L[n] : Append(L[n], x)[j] = L[n][j]
      /\ Append(L[n], x)[m] = x
  <2>1. PICK s \in Seq(S) : s = L[n]
      BY <1>1
  <2>2. /\ Len(s) \in Nat /\ DOMAIN s = 1 .. Len(s)
        /\ DOMAIN Append(s, x) = 1 .. Len(s) + 1
        /\ \A j \in 1 .. Len(s) : Append(s, x)[j] = s[j]
        /\ Append(s, x)[Len(s) + 1] = x
      BY AppendFacts
  <2> QED
      BY <2>1, <2>2, Zenon
<1>2c. /\ m \in Nat \ {0} /\ \A j \in DOMAIN L[n] : j < m /\ j \in 1 .. m
       /\ \A j \in 1 .. m : j \in DOMAIN L[n] \/ j = m
    BY <1>2
<1>2a. \A i \in 1 .. n : L[i] \in Seq(S)
    OBVIOUS
<1>2b. \A i \in 1 .. n : DOMAIN L[i] = 1 .. Len(L[i]) /\ Len(L[i]) \in Nat
    BY <1>2a
<1> HIDE DEF M, m, n
<1>3. \A i \in 1 .. n : \A j \in DOMAIN L[i] : j \in DOMAIN M[i] /\ M[i][j] = L[i][j]
    BY <1>1, <1>2, <1>2c
<1>4. /\ n \in 1 .. n /\ m \in DOMAIN M[n] /\ M[n][m] = x
      /\ \A i \in 1 .. n : \A j \in DOMAIN L[i] : i < n \/ (i = n /\ j < m)
    BY <1>1, <1>2, <1>2c
<1>5. \A i \in 1 .. n : \A j \in DOMAIN M[i] : j \in DOMAIN L[i] \/ (i = n /\ j = m)
    BY <1>1, <1>2, <1>2c
<1>6. \A p : In(M, p) <=> In(L, p) \/ p = x
  <2> TAKE p
  <2>1. In(M, p) => In(L, p) \/ p = x
      BY <1>1, <1>3, <1>4, <1>5 DEF In
  <2>2. In(L, p) => In(M, p)
      BY <1>1, <1>3 DEF In
  <2>3. In(M, x)
      BY <1>1, <1>4 DEF In
  <2> QED
      BY <2>1, <2>2, <2>3
<1>7. \A p, q : Precedes(L, q, p) => Precedes(M, q, p)
  <2> SUFFICES ASSUME NEW p, NEW q, Precedes(L, q, p) PROVE Precedes(M, q, p)
      OBVIOUS
  <2>1. PICK i \in DOMAIN L, k \in DOMAIN L : \E j \in DOMAIN L[i], l \in DOMAIN L[k] :
            L[i][j] = q /\ L[k][l] = p /\ (i < k \/ (i = k /\ j < l))
      BY DEF Precedes
  <2>2. PICK j \in DOMAIN L[i], l \in DOMAIN L[k] :
            L[i][j] = q /\ L[k][l] = p /\ (i < k \/ (i = k /\ j < l))
      BY <2>1
  <2>3. /\ i \in DOMAIN M /\ j \in DOMAIN M[i] /\ M[i][j] = q
        /\ k \in DOMAIN M /\ l \in DOMAIN M[k] /\ M[k][l] = p
      BY <2>2, <1>1, <1>3
  <2> QED
      BY <2>2, <2>3 DEF Precedes
<1>8. \A q : In(L, q) => Precedes(M, q, x)
  <2> SUFFICES ASSUME NEW q, In(L, q) PROVE Precedes(M, q, x)
      OBVIOUS
  <2>1. PICK i \in DOMAIN L : \E j \in DOMAIN L[i] : L[i][j] = q
      BY DEF In
  <2>2. PICK j \in DOMAIN L[i] : L[i][j] = q
      BY <2>1
  <2>3. /\ i \in DOMAIN M /\ j \in DOMAIN M[i] /\ M[i][j] = q
        /\ n \in DOMAIN M /\ m \in DOMAIN M[n] /\ M[n][m] = x
        /\ i < n \/ (i = n /\ j < m)
      BY <2>2, <1>1, <1>3, <1>4
  <2> QED
      BY <2>3 DEF Precedes
<1>9. Distinct(M)
  <2> SUFFICES ASSUME NEW i \in DOMAIN M, NEW k \in DOMAIN M, NEW j \in DOMAIN M[i],
                      NEW l \in DOMAIN M[k], M[i][j] = M[k][l]
               PROVE  i = k /\ j = l
      BY DEF Distinct
  <2>1. \A a \in 1 .. n : \A b \in DOMAIN L[a] : L[a][b] # x
      BY <1>1 DEF In
  <2>2. CASE j \in DOMAIN L[i] /\ l \in DOMAIN L[k]
      BY <2>2, <1>1, <1>3 DEF Distinct
  <2>3. CASE j \in DOMAIN L[i] /\ l \notin DOMAIN L[k]
      BY <2>3, <2>1, <1>1, <1>3, <1>4, <1>5
  <2>4. CASE j \notin DOMAIN L[i] /\ l \in DOMAIN L[k]
      BY <2>4, <2>1, <1>1, <1>3, <1>4, <1>5
  <2>5. CASE j \notin DOMAIN L[i] /\ l \notin DOMAIN L[k]
      BY <2>5, <1>1, <1>5
  <2> QED
      BY <2>2, <2>3, <2>4, <2>5
<1> QED
    BY <1>6, <1>7, <1>8, <1>9 DEF M

\* The last list moved to the end of the one before it.
LEMMA Merge ==
    ASSUME NEW S, NEW L \in Seq(Seq(S)), NEW n \in Nat \ {0}, Len(L) = n + 1,
           NEW M, DOMAIN M = 1 .. n, M[n] = L[n] \o L[n + 1],
           \A i \in 1 .. n : i # n => M[i] = L[i]
    PROVE  /\ \A p : In(M, p) <=> In(L, p)
           /\ \A p, q : Precedes(L, q, p) => Precedes(M, q, p)
           /\ Distinct(L) => Distinct(M)
<1> DEFINE A == Len(L[n])
           B == Len(L[n + 1])
<1>1. /\ DOMAIN L = 1 .. n + 1 /\ n \in DOMAIN L /\ n + 1 \in DOMAIN L
      /\ L[n] \in Seq(S) /\ L[n + 1] \in Seq(S)
    OBVIOUS
<1>2. /\ A \in Nat /\ DOMAIN L[n] = 1 .. A
      /\ B \in Nat /\ DOMAIN L[n + 1] = 1 .. B
      /\ DOMAIN M[n] = 1 .. A + B
      /\ \A j \in 1 .. A : M[n][j] = L[n][j]
      /\ \A j \in 1 .. B : M[n][A + j] = L[n + 1][j]
  <2>1. PICK s \in Seq(S), t \in Seq(S) : s = L[n] /\ t = L[n + 1]
      BY <1>1
  <2>2. /\ Len(s) \in Nat /\ DOMAIN s = 1 .. Len(s)
        /\ Len(t) \in Nat /\ DOMAIN t = 1 .. Len(t)
        /\ DOMAIN (s \o t) = 1 .. Len(s) + Len(t)
        /\ \A j \in 1 .. Len(s) : (s \o t)[j] = s[j]
        /\ \A j \in 1 .. Len(t) : (s \o t)[Len(s) + j] = t[j]
      BY ConcatFacts
  <2> QED
      BY <2>1, <2>2, Zenon
<1> HIDE DEF A, B
<1>3. \A j \in 1 .. A : j \in 1 .. A + B
    BY <1>2
<1>4. \A j \in 1 .. B : A + j \in 1 .. A + B
    BY <1>2
<1>5. ASSUME NEW j \in 1 .. A + B PROVE j \in 1 .. A \/ (j - A \in 1 .. B /\ A + (j - A) = j)
    BY <1>2
\* Where position (i, j) of L is in M.
<1> DEFINE row(i) == IF i = n + 1 THEN n ELSE i
           col(i, j) == IF i = n + 1 THEN A + j ELSE j
<1>6. ASSUME NEW i \in DOMAIN L, NEW j \in DOMAIN L[i]
      PROVE  /\ row(i) \in DOMAIN M /\ col(i, j) \in DOMAIN M[row(i)]
             /\ M[row(i)][col(i, j)] = L[i][j]
  <2>1. CASE i = n + 1
    <3>1. row(i) = n /\ col(i, j) = A + j /\ n \in DOMAIN M
        BY <2>1
    <3>2. j \in 1 .. B
        BY <2>1, <1>2
    <3>3. A + j \in DOMAIN M[n] /\ M[n][A + j] = L[n + 1][j]
        BY <3>2, <1>2, <1>4
    <3> HIDE DEF row, col
    <3> QED
        BY <3>1, <3>3, <2>1
  <2>2. CASE i = n
      BY <2>2, <1>2, <1>3
  <2>3. CASE i # n /\ i # n + 1
      BY <2>3, <1>1
  <2> QED
      BY <2>1, <2>2, <2>3
<1>7. ASSUME NEW i \in DOMAIN M, NEW j \in DOMAIN M[i]
      PROVE  \E a \in DOMAIN L : \E b \in DOMAIN L[a] : i = row(a) /\ j = col(a, b)
  <2>1. CASE i = n /\ j \notin 1 .. A
    <3>1. j - A \in 1 .. B /\ A + (j - A) = j
        BY <2>1, <1>2, <1>5
    <3>2. j - A \in DOMAIN L[n + 1] /\ i = row(n + 1) /\ j = col(n + 1, j - A)
        BY <3>1, <2>1, <1>2
    <3> HIDE DEF row, col
    <3> QED
        BY <3>2, <1>1
  <2>2. CASE i # n \/ j \in 1 .. A
    <3>1. i \in DOMAIN L /\ i # n + 1 /\ j \in DOMAIN L[i]
        BY <2>2, <1>1, <1>2
    <3>2. i = row(i) /\ j = col(i, j)
        BY <3>1
    <3> HIDE DEF row, col
    <3> QED
        BY <3>1, <3>2
  <2> QED
      BY <2>1, <2>2
<1>8. ASSUME NEW i \in DOMAIN L, NEW k \in DOMAIN L, NEW j \in DOMAIN L[i], NEW l \in DOMAIN L[k],
             i < k \/ (i = k /\ j < l)
      PROVE  row(i) < row(k) \/ (row(i) = row(k) /\ col(i, j) < col(k, l))
  <2>1. i \in 1 .. n + 1 /\ k \in 1 .. n + 1
      BY <1>1
  <2>2. CASE k # n + 1
      BY <2>1, <2>2, <1>8
  <2>3. CASE k = n + 1 /\ i = n
    <3>1. j \in 1 .. A /\ l \in 1 .. B
        BY <2>3, <1>2
    <3> QED
        BY <3>1, <2>3, <1>2
  <2>4. CASE k = n + 1 /\ i = n + 1
    <3>1. j \in 1 .. B /\ l \in 1 .. B
        BY <2>4, <1>2
    <3> QED
        BY <3>1, <2>4, <1>2, <1>8
  <2>5. CASE k = n + 1 /\ i # n /\ i # n + 1
      BY <2>1, <2>5
  <2> QED
      BY <2>2, <2>3, <2>4, <2>5
<1> HIDE DEF row, col
<1>9. \A p : In(M, p) <=> In(L, p)
  <2> TAKE p
  <2>1. ASSUME In(L, p) PROVE In(M, p)
      BY <2>1, <1>6 DEF In
  <2>2. ASSUME In(M, p) PROVE In(L, p)
    <3>1. PICK i \in DOMAIN M : \E j \in DOMAIN M[i] : M[i][j] = p
        BY <2>2 DEF In
    <3>2. PICK j \in DOMAIN M[i] : M[i][j] = p
        BY <3>1
    <3>3. PICK a \in DOMAIN L : \E b \in DOMAIN L[a] : i = row(a) /\ j = col(a, b)
        BY <1>7
    <3>4. PICK b \in DOMAIN L[a] : i = row(a) /\ j = col(a, b)
        BY <3>3
    <3>5. L[a][b] = p
        BY <3>2, <3>4, <1>6
    <3> QED
        BY <3>5 DEF In
  <2> QED
      BY <2>1, <2>2
<1>10. \A p, q : Precedes(L, q, p) => Precedes(M, q, p)
  <2> SUFFICES ASSUME NEW p, NEW q, Precedes(L, q, p) PROVE Precedes(M, q, p)
      OBVIOUS
  <2>1. PICK i \in DOMAIN L, k \in DOMAIN L : \E j \in DOMAIN L[i], l \in DOMAIN L[k] :
            L[i][j] = q /\ L[k][l] = p /\ (i < k \/ (i = k /\ j < l))
      BY DEF Precedes
  <2>2. PICK j \in DOMAIN L[i], l \in DOMAIN L[k] :
            L[i][j] = q /\ L[k][l] = p /\ (i < k \/ (i = k /\ j < l))
      BY <2>1
  <2>3. /\ row(i) \in DOMAIN M /\ col(i, j) \in DOMAIN M[row(i)] /\ M[row(i)][col(i, j)] = q
        /\ row(k) \in DOMAIN M /\ col(k, l) \in DOMAIN M[row(k)] /\ M[row(k)][col(k, l)] = p
      BY <2>2, <1>6
  <2>4. row(i) < row(k) \/ (row(i) = row(k) /\ col(i, j) < col(k, l))
      BY <2>2, <1>8
  <2> QED
      BY <2>3, <2>4 DEF Precedes
<1>11. Distinct(L) => Distinct(M)
  <2> SUFFICES ASSUME Distinct(L), NEW i \in DOMAIN M, NEW k \in DOMAIN M, NEW j \in DOMAIN M[i],
                      NEW l \in DOMAIN M[k], M[i][j] = M[k][l]
               PROVE  i = k /\ j = l
      BY DEF Distinct
  <2>1. PICK a \in DOMAIN L : \E b \in DOMAIN L[a] : i = row(a) /\ j = col(a, b)
      BY <1>7
  <2>2. PICK b \in DOMAIN L[a] : i = row(a) /\ j = col(a, b)
      BY <2>1
  <2>3. PICK c \in DOMAIN L : \E d \in DOMAIN L[c] : k = row(c) /\ l = col(c, d)
      BY <1>7
  <2>4. PICK d \in DOMAIN L[c] : k = row(c) /\ l = col(c, d)
      BY <2>3
  <2>5. L[a][b] = M[i][j] /\ L[c][d] = M[k][l]
      BY <2>2, <2>4, <1>6
  <2>6. L[a][b] = L[c][d]
      BY <2>5
  <2>7. a = c /\ b = d
      BY <2>6 DEF Distinct
  <2> QED
      BY <2>2, <2>4, <2>7
<1> QED
    BY <1>9, <1>10, <1>11

-----------------------------------------------------------------------------
\* The import graph

\* The elements of a list of packages are packages.
LEMMA ToSetSub ==
    ASSUME NEW S, NEW s \in Seq(S)
    PROVE  ToSet(s) \subseteq S
    BY DEF ToSet

\* The imports of a file.
LEMMA FileFacts ==
    ASSUME tree \in Programs, NEW p \in Package
    PROVE  /\ Len(tree.files[p]) \in Nat /\ DOMAIN tree.files[p] = 1 .. Len(tree.files[p])
           /\ \A n \in DOMAIN tree.files[p] :
                 /\ tree.files[p][n] \in SourceFile
                 /\ LeadingImports(tree.files[p][n]) \in Seq(Package)
                 /\ ToSet(LeadingImports(tree.files[p][n])) \subseteq Package
<1>1. tree.files[p] \in Seq(SourceFile)
    BY LoaderAssumption
<1>2. \A n \in DOMAIN tree.files[p] : LeadingImports(tree.files[p][n]) \in Seq(Package)
    BY ImportsAssumption
<1>3. \A n \in DOMAIN tree.files[p] : ToSet(LeadingImports(tree.files[p][n])) \subseteq Package
    BY <1>2, ToSetSub
<1> QED
    BY <1>1, <1>2, <1>3

\* What a package leads to is what its files import first thing.
LEMMA LeadingFacts ==
    ASSUME tree \in Programs, NEW p \in Package
    PROVE  /\ Leading(p) \subseteq Package
           /\ p \notin tree.broken =>
                 \A q : q \in Leading(p) <=>
                    \E n \in DOMAIN tree.files[p] : q \in ToSet(LeadingImports(tree.files[p][n]))
<1>1. CASE p \in tree.broken
    BY <1>1 DEF Leading
<1>2. CASE p \notin tree.broken
  <2>1. Leading(p) = UNION {ToSet(LeadingImports(f)) : f \in ToSet(tree.files[p])}
      BY <1>2 DEF Leading
  <2>2. ASSUME NEW q \in Leading(p)
        PROVE  \E n \in DOMAIN tree.files[p] : q \in ToSet(LeadingImports(tree.files[p][n]))
    <3>1. PICK f \in ToSet(tree.files[p]) : q \in ToSet(LeadingImports(f))
        BY <2>1, <2>2
    <3>2. PICK n \in DOMAIN tree.files[p] : f = tree.files[p][n]
        BY DEF ToSet
    <3> QED
        BY <3>1, <3>2
  <2>3. ASSUME NEW n \in DOMAIN tree.files[p], NEW q \in ToSet(LeadingImports(tree.files[p][n]))
        PROVE  q \in Leading(p)
    <3>1. tree.files[p][n] \in ToSet(tree.files[p])
        BY DEF ToSet
    <3> QED
        BY <3>1, <2>1, <2>3
  <2> QED
      BY <2>2, <2>3, FileFacts
<1> QED
    BY <1>1, <1>2

\* The closure holds what it starts from and all that its members lead to,
\* and is the least such set.
LEMMA ClosureFacts ==
    ASSUME tree \in Programs, NEW ps \in SUBSET Package
    PROVE  /\ Closure(ps) \subseteq Package
           /\ ps \subseteq Closure(ps)
           /\ \A p \in Closure(ps) : Leading(p) \subseteq Closure(ps)
           /\ \A S \in SUBSET Package : ps \subseteq S /\ Closed(S) => Closure(ps) \subseteq S
<1>1. ASSUME NEW p \in Closure(ps), NEW q \in Leading(p) PROVE q \in Closure(ps)
  <2>1. p \in Package
      BY DEF Closure
  <2>2. q \in Package
      BY <2>1, LeadingFacts
  <2>3. ASSUME NEW S \in SUBSET Package, ps \subseteq S, Closed(S) PROVE q \in S
    <3>1. p \in S
        BY <2>3 DEF Closure
    <3> QED
        BY <3>1, <2>3 DEF Closed
  <2> QED
      BY <2>2, <2>3 DEF Closure
<1> QED
    BY <1>1 DEF Closure

\* The main program's imports are packages.
LEMMA MainFacts ==
    ASSUME tree \in Programs
    PROVE  tree.main \in Seq(Package) /\ ToSet(tree.main) \subseteq Package
    BY LoaderAssumption, ToSetSub

\* What is needed leads to what is needed.
LEMMA NeededFacts ==
    ASSUME tree \in Programs
    PROVE  /\ Needed \subseteq Package
           /\ ToSet(tree.main) \subseteq Needed
           /\ \A p \in Needed : Leading(p) \subseteq Needed
           /\ \A S \in SUBSET Package : ToSet(tree.main) \subseteq S /\ Closed(S) => Needed \subseteq S
    BY MainFacts, ClosureFacts DEF Needed

\* A package leads to its imports, and to what those lead to.
LEMMA LeadsToFacts ==
    ASSUME tree \in Programs, NEW p \in Package, NEW q \in Package
    PROVE  /\ q \in Leading(p) => LeadsTo(p, q)
           /\ \A r \in Package : LeadsTo(p, q) /\ r \in Leading(q) => LeadsTo(p, r)
<1>1. Leading(p) \subseteq Package
    BY LeadingFacts
<1> QED
    BY <1>1, ClosureFacts DEF LeadsTo

\* No step changes the program, nor its import graph.
LEMMA SameGraph ==
    ASSUME tree' = tree
    PROVE  /\ \A p : Leading(p)' = Leading(p)
           /\ \A p, q : LeadsTo(p, q)' <=> LeadsTo(p, q)
           /\ Needed' = Needed
<1>1. \A p : Leading(p)' = Leading(p)
    BY DEF Leading
<1>2. \A S : Closed(S)' <=> Closed(S)
    BY <1>1 DEF Closed
<1>4. \A p, q : LeadsTo(p, q)' <=> LeadsTo(p, q)
    BY <1>1, <1>2 DEF LeadsTo, Closure
<1>5. Needed' = Needed
    BY <1>2 DEF Needed, Closure
<1> QED
    BY <1>1, <1>4, <1>5

-----------------------------------------------------------------------------
\* The steps

\* While packages are loaded there is an innermost activation.
LEMMA TopFacts ==
    ASSUME LoaderTypeOK, Phases, status = "load"
    PROVE  /\ frames # <<>> /\ Len(frames) \in Nat \ {0} /\ DOMAIN frames = 1 .. Len(frames)
           /\ Len(frames) \in DOMAIN frames /\ Top = frames[Len(frames)] /\ Top \in Frame
           /\ \A i \in DOMAIN frames :
                 /\ frames[i].imports \in Seq(Package) /\ frames[i].pkg \in Package \cup {Nothing}
                 /\ frames[i].next \in Nat \ {0} /\ frames[i].out \in Seq(Package)
           /\ Outs \in Seq(Seq(Package)) /\ Len(Outs) = Len(frames) /\ DOMAIN Outs = DOMAIN frames
           /\ \A i \in DOMAIN frames : Outs[i] = frames[i].out
<1>1. frames # <<>> /\ frames \in Seq(Frame)
    BY DEF LoaderTypeOK, Phases
<1>2. /\ Len(frames) \in Nat \ {0} /\ DOMAIN frames = 1 .. Len(frames)
      /\ Len(frames) \in DOMAIN frames /\ Top = frames[Len(frames)]
    BY <1>1 DEF Top, Last
<1>3. \A i \in DOMAIN frames : frames[i] \in Frame
    BY <1>1
<1>4. \A i \in DOMAIN frames :
          /\ frames[i].imports \in Seq(Package) /\ frames[i].pkg \in Package \cup {Nothing}
          /\ frames[i].next \in Nat \ {0} /\ frames[i].out \in Seq(Package)
    BY <1>3 DEF Frame
<1>5. Outs = [i \in DOMAIN frames |-> frames[i].out]
    BY DEF Outs
<1>6. Outs \in [1 .. Len(frames) -> Seq(Package)]
    BY <1>5, <1>4, <1>2
<1>7. Outs \in Seq(Seq(Package)) /\ Len(Outs) = Len(frames)
    BY <1>6, <1>2
<1> QED
    BY <1>1, <1>2, <1>3, <1>4, <1>5, <1>7

\* A step of the innermost activation.
LEMMA SetTopFacts ==
    ASSUME frames \in Seq(Frame), frames # <<>>, NEW f \in Frame, SetTop(f)
    PROVE  /\ frames' \in Seq(Frame) /\ frames' # <<>>
           /\ Len(frames') = Len(frames) /\ DOMAIN frames' = DOMAIN frames
           /\ frames'[Len(frames)] = f
           /\ \A i \in DOMAIN frames : i # Len(frames) => frames'[i] = frames[i]
    BY DEF SetTop

\* The invariant of a program being loaded, for the innermost activation's
\* steps: what they have to show.
LEMMA LoadingInv ==
    ASSUME LoaderInv, tree' = tree, status' = "load",
           UNCHANGED <<packages, registry, missing>>,
           frames' \in Seq(Frame), frames' # <<>>,
           visited' \in SUBSET Package, types' = visited',
           Once', Stack', NoneForgotten', OnlyNeeded', Ordered', status = "load"
    PROVE  LoaderInv'
<1>1. LoaderTypeOK'
    BY DEF LoaderInv, LoaderTypeOK
<1>2. Phases'
    BY DEF LoaderInv, Phases
<1>3. Checked'
    BY ZenonT(40) DEF LoaderInv, Checked
<1>4. DependenciesFirst'
  <2>1. missing' = {}
      BY DEF LoaderInv, Phases
  <2> QED
      BY <2>1 DEF DependenciesFirst
<1> QED
    BY <1>1, <1>2, <1>3, <1>4 DEF LoaderInv

\* Skip: what is visited already is no longer pending.
LEMMA SkipInv ==
    ASSUME LoaderInv, Skip
    PROVE  LoaderInv'
<1> USE DEF Skip
<1> DEFINE n == Len(frames)
<1>1. /\ LoaderTypeOK /\ Phases /\ Once /\ Stack /\ NoneForgotten /\ OnlyNeeded /\ Ordered
    BY DEF LoaderInv
<1>2. PICK s \in Seq(Package) : s = Top.imports /\ s # <<>>
    BY <1>1, TopFacts
<1>3. Head(s) \in visited /\ Tail(s) \in Seq(Package) /\ ToSet(s) = {Head(s)} \cup ToSet(Tail(s))
    BY <1>2, HeadTail
<1>4. PICK f \in Frame : /\ f = [Top EXCEPT !.imports = Tail(@)]
                         /\ f.imports = Tail(s) /\ f.pkg = Top.pkg
                         /\ f.next = Top.next /\ f.out = Top.out
  <2>1. PICK t \in Frame : t = Top
      BY <1>1, TopFacts
  <2>2. [t EXCEPT !.imports = Tail(@)] = [t EXCEPT !.imports = Tail(s)]
      BY <2>1, <1>2
  <2> QED
      BY <2>1, <2>2, <1>3 DEF Frame
<1>5. /\ frames' \in Seq(Frame) /\ frames' # <<>> /\ Len(frames') = n /\ DOMAIN frames' = DOMAIN frames
      /\ frames'[n] = f /\ \A i \in DOMAIN frames : i # n => frames'[i] = frames[i]
  <2>1. frames \in Seq(Frame) /\ frames # <<>>
      BY <1>1, TopFacts DEF LoaderTypeOK
  <2>2. SetTop(f)
      BY <1>4
  <2> QED
      BY <2>1, <2>2, SetTopFacts
<1>6. /\ n \in Nat \ {0} /\ DOMAIN frames = 1 .. n /\ Top = frames[n] /\ n \in DOMAIN frames
    BY <1>1, TopFacts
<1>7. \A i \in DOMAIN frames :
          /\ frames'[i].pkg = frames[i].pkg /\ frames'[i].next = frames[i].next
          /\ frames'[i].out = frames[i].out
          /\ ToSet(frames'[i].imports) \subseteq ToSet(frames[i].imports)
          /\ ToSet(frames[i].imports) \subseteq ToSet(frames'[i].imports) \cup visited
    BY <1>2, <1>3, <1>4, <1>5, <1>6, ZenonT(40)
<1>8. Outs' = Outs
    BY <1>5, <1>7 DEF Outs
<1>9. \A p : Done(p)' <=> Done(p)
    BY <1>8 DEF Done
<1>10. \A p : Held(p)' <=> Held(p)
    BY <1>5, <1>7 DEF Held
<1>11. \A i \in Nat : Pending(i) \subseteq Pending(i)' \cup visited
  <2> TAKE i \in Nat
  <2>1. CASE i < n
    <3>1. i + 1 \in DOMAIN frames
        BY <2>1, <1>6
    <3>2. Pending(i) = ToSet(frames[i + 1].imports) /\ Pending(i)' = ToSet(frames'[i + 1].imports)
        BY <2>1, <1>5 DEF Pending
    <3> QED
        BY <3>1, <3>2, <1>7
  <2>2. CASE ~(i < n)
      BY <2>2 DEF Pending
  <2> QED
      BY <2>1, <2>2
<1>12. Once'
    BY <1>1, <1>5, <1>7, <1>8, <1>9, <1>10 DEF Once
<1>13. Stack'
    BY <1>1, <1>5, <1>7, SameGraph, ZenonT(40) DEF Stack
<1>14. NoneForgotten'
  <2>1. ToSet(tree.main)' \subseteq visited' \cup Pending(0)'
      BY <1>1, <1>11 DEF NoneForgotten
  <2>2. ASSUME NEW i \in DOMAIN frames', NEW p \in Package, frames'[i].pkg = p,
               NEW m \in DOMAIN tree'.files[p], m < frames'[i].next
        PROVE  ToSet(LeadingImports(tree'.files[p][m])) \subseteq visited' \cup Pending(i)'
    <3>1. i \in DOMAIN frames /\ i \in Nat /\ frames[i].pkg = p /\ m < frames[i].next
        BY <2>2, <1>5, <1>6, <1>7
    <3>2. ToSet(LeadingImports(tree.files[p][m])) \subseteq visited \cup Pending(i)
        BY <3>1, <2>2, <1>1 DEF NoneForgotten
    <3> QED
        BY <3>1, <3>2, <1>11
  <2>3. \A p \in Package : Done(p)' => Leading(p)' \subseteq visited'
      BY <1>1, <1>9, SameGraph DEF NoneForgotten
  <2> QED
      BY <2>1, <2>2, <2>3 DEF NoneForgotten
<1>15. OnlyNeeded'
    BY <1>1, <1>5, <1>7, SameGraph DEF OnlyNeeded
<1>16. Ordered'
    BY <1>1, <1>8, <1>9, SameGraph DEF Ordered
<1>17. visited' \in SUBSET Package /\ types' = visited'
    BY <1>1 DEF LoaderTypeOK, OnlyNeeded
<1> QED
    BY <1>5, <1>12, <1>13, <1>14, <1>15, <1>16, <1>17, LoadingInv

\* LoadPackage of a package that cannot be loaded: it is needed.
LEMMA LoadBrokenInv ==
    ASSUME LoaderInv, LoadPackage, Head(Top.imports) \in tree.broken
    PROVE  LoaderInv'
<1> USE DEF LoadPackage
<1>1. /\ LoaderTypeOK /\ Phases /\ OnlyNeeded
    BY DEF LoaderInv
<1>2. PICK s \in Seq(Package) : s = Top.imports /\ s # <<>>
    BY <1>1, TopFacts
<1>3. Head(s) \in ToSet(s) /\ Head(s) \in Package
    BY <1>2, HeadTail
<1>4. Head(s) \in Needed
    BY <1>1, <1>2, <1>3, TopFacts DEF OnlyNeeded
<1>5. /\ tree' = tree /\ status' = "failed" /\ frames' = <<>> /\ types' = types
      /\ visited' = visited \cup {Head(s)} /\ UNCHANGED <<packages, registry, missing>>
    BY <1>2
<1>6. LoaderTypeOK'
    BY <1>1, <1>3, <1>5 DEF LoaderTypeOK
<1>7. Phases'
    BY <1>1, <1>5 DEF Phases
<1>8. Checked'
  <2>1. Checked
      BY DEF LoaderInv
  <2>2. packages' = packages /\ registry' = registry
      BY <1>5
  <2> HIDE DEF LoadPackage
  <2> QED
      BY <2>1, <2>2, ZenonT(40) DEF Checked
<1>9. (Needed \cap tree.broken # {})'
    BY <1>2, <1>4, <1>5, SameGraph
<1>10. DependenciesFirst'
    BY <1>1, <1>5 DEF Phases, DependenciesFirst
<1> QED
    BY <1>5, <1>6, <1>7, <1>8, <1>9, <1>10 DEF LoaderInv

\* LoadPackage: a package that nobody has goes into hand.
LEMMA LoadPackageInv ==
    ASSUME LoaderInv, LoadPackage, Head(Top.imports) \notin tree.broken
    PROVE  LoaderInv'
<1> USE DEF LoadPackage
<1> DEFINE n == Len(frames)
<1>1. /\ LoaderTypeOK /\ Phases /\ Once /\ Stack /\ NoneForgotten /\ OnlyNeeded /\ Ordered
    BY DEF LoaderInv
<1>2. PICK s \in Seq(Package) : s = Top.imports /\ s # <<>>
    BY <1>1, TopFacts
<1>2a. PICK x \in Package : x = Head(s)
    BY <1>2, HeadTail
<1>3. x \notin visited /\ x \notin tree.broken /\ Tail(s) \in Seq(Package) /\ ToSet(s) = {x} \cup ToSet(Tail(s))
    BY <1>2, <1>2a, HeadTail
<1>4. PICK f \in Frame : /\ f = [Top EXCEPT !.imports = Tail(@), !.pkg = x, !.next = 1]
                         /\ f.imports = Tail(s) /\ f.pkg = x
                         /\ f.next = 1 /\ f.out = Top.out
  <2>1. PICK t \in Frame : t = Top
      BY <1>1, TopFacts
  <2>2. [t EXCEPT !.imports = Tail(@), !.pkg = x, !.next = 1] = [t EXCEPT !.imports = Tail(s), !.pkg = x, !.next = 1]
      BY <2>1, <1>2
  <2> DEFINE g == [t EXCEPT !.imports = Tail(s), !.pkg = x, !.next = 1]
  <2> HIDE DEF LoadPackage
  <2>3. g \in Frame
    <3>1. 1 \in Nat \ {0} /\ x \in Package \cup {Nothing} /\ Tail(s) \in Seq(Package)
        BY <1>3
    <3> QED
        BY <3>1 DEF Frame
  <2>4. g.imports = Tail(s) /\ g.pkg = x /\ g.next = 1 /\ g.out = t.out
      BY DEF Frame
  <2>5. g = [Top EXCEPT !.imports = Tail(@), !.pkg = x, !.next = 1]
      BY <2>1, <2>2
  <2> HIDE DEF g
  <2> QED
      BY <2>1, <2>3, <2>4, <2>5, Zenon
<1>4a. /\ tree' = tree /\ status' = status /\ types' = types \cup {x} /\ visited' = visited \cup {x}
       /\ UNCHANGED <<packages, registry, missing>> /\ SetTop(f)
    BY <1>2, <1>2a, <1>4
<1>4b. x # Nothing
    BY LoaderAssumption
<1>5. /\ frames' \in Seq(Frame) /\ frames' # <<>> /\ Len(frames') = n /\ DOMAIN frames' = DOMAIN frames
      /\ frames'[n] = f /\ \A i \in DOMAIN frames : i # n => frames'[i] = frames[i]
  <2>1. frames \in Seq(Frame) /\ frames # <<>>
      BY <1>1, TopFacts DEF LoaderTypeOK
  <2> QED
      BY <2>1, <1>4a, SetTopFacts
<1>6. /\ n \in Nat \ {0} /\ DOMAIN frames = 1 .. n /\ Top = frames[n] /\ n \in DOMAIN frames
      /\ frames[n].pkg = Nothing
    BY <1>1, TopFacts
<1>7. /\ \A i \in DOMAIN frames :
            /\ i # n => frames'[i].pkg = frames[i].pkg /\ frames'[i].next = frames[i].next
            /\ frames'[i].out = frames[i].out
            /\ ToSet(frames'[i].imports) \subseteq ToSet(frames[i].imports)
            /\ ToSet(frames[i].imports) \subseteq ToSet(frames'[i].imports) \cup visited'
      /\ frames'[n].pkg = x /\ frames'[n].next = 1
    BY <1>2, <1>3, <1>4, <1>4a, <1>5, <1>6, ZenonT(40)
<1>7a. x \in ToSet(frames[n].imports)
    BY <1>2, <1>3, <1>6
<1>8. Outs' = Outs
    BY <1>4a, <1>5, <1>7 DEF Outs
<1>9. \A p : Done(p)' <=> Done(p)
    BY <1>8 DEF Done
<1>10. \A p \in Package : Held(p)' <=> Held(p) \/ p = x
  <2> TAKE p \in Package
  <2>0. p # Nothing
      BY LoaderAssumption
  <2>1. ASSUME Held(p) PROVE Held(p)'
    <3>1. PICK i \in DOMAIN frames : frames[i].pkg = p
        BY <2>1 DEF Held
    <3>2. i # n
        BY <3>1, <2>0, <1>6
    <3> QED
        BY <3>1, <3>2, <1>5, <1>7 DEF Held
  <2>2. ASSUME Held(p)' PROVE Held(p) \/ p = x
      BY <2>2, <1>5, <1>7 DEF Held
  <2>3. Held(x)'
      BY <1>5, <1>6, <1>7 DEF Held
  <2> QED
      BY <2>1, <2>2, <2>3
<1>11. \A i \in Nat : Pending(i) \subseteq Pending(i)' \cup visited'
  <2> TAKE i \in Nat
  <2>1. CASE i < n
    <3>1. i + 1 \in DOMAIN frames
        BY <2>1, <1>6
    <3>2. Pending(i) = ToSet(frames[i + 1].imports) /\ Pending(i)' = ToSet(frames'[i + 1].imports)
        BY <2>1, <1>5 DEF Pending
    <3> QED
        BY <3>1, <3>2, <1>7
  <2>2. CASE ~(i < n)
      BY <2>2 DEF Pending
  <2> QED
      BY <2>1, <2>2
<1>12. Once'
  <2>0. ~Done(x) /\ ~Held(x)
      BY <1>1, <1>3 DEF Once
  <2>1. Distinct(Outs')
      BY <1>1, <1>8 DEF Once
  <2>2. ASSUME NEW i \in DOMAIN frames', NEW k \in DOMAIN frames',
               frames'[i].pkg = frames'[k].pkg, frames'[i].pkg # Nothing
        PROVE  i = k
    <3>1. CASE i # n /\ k # n
        BY <3>1, <2>2, <1>1, <1>5, <1>7 DEF Once
    <3>2. \A j \in DOMAIN frames : frames[j].pkg # x
        BY <2>0 DEF Held
    <3>3. CASE i = n \/ k = n
        BY <3>3, <3>2, <2>2, <1>5, <1>7
    <3> QED
        BY <3>1, <3>3
  <2>3. \A p \in Package : Done(p)' => ~Held(p)'
      BY <2>0, <1>1, <1>9, <1>10 DEF Once
  <2>4. \A p \in Package : p \in visited' <=> Done(p)' \/ Held(p)'
      BY <1>1, <1>4a, <1>9, <1>10 DEF Once
  <2> QED
      BY <2>1, <2>2, <2>3, <2>4 DEF Once
<1>13. Stack'
  <2>1. \A i \in DOMAIN frames' : i < Len(frames') => frames'[i].pkg # Nothing
      BY <1>1, <1>5, <1>6, <1>7 DEF Stack
  <2>2. ASSUME NEW i \in DOMAIN frames', NEW j \in DOMAIN frames', NEW p \in Package, NEW q \in Package,
               i < j, frames'[i].pkg = p, frames'[j].pkg = q \/ q \in ToSet(frames'[j].imports)
        PROVE  LeadsTo(p, q)'
    <3>1. i \in DOMAIN frames /\ j \in DOMAIN frames /\ i # n
        BY <2>2, <1>5, <1>6
    <3>2. frames[i].pkg = p
        BY <3>1, <2>2, <1>7
    <3>3. frames[j].pkg = q \/ q \in ToSet(frames[j].imports)
        BY <3>1, <2>2, <1>7, <1>7a
    <3>4. LeadsTo(p, q)
        BY <3>1, <3>2, <3>3, <2>2, <1>1 DEF Stack
    <3> QED
        BY <3>4, <1>4a, SameGraph
  <2> QED
      BY <2>1, <2>2 DEF Stack
<1>14. NoneForgotten'
  <2>1. ToSet(tree.main)' \subseteq visited' \cup Pending(0)'
      BY <1>1, <1>4a, <1>11 DEF NoneForgotten
  <2>2. ASSUME NEW i \in DOMAIN frames', NEW p \in Package, frames'[i].pkg = p,
               NEW m \in DOMAIN tree'.files[p], m < frames'[i].next
        PROVE  ToSet(LeadingImports(tree'.files[p][m])) \subseteq visited' \cup Pending(i)'
    <3>0. m \in Nat \ {0}
        BY <1>1, <1>4a, FileFacts DEF LoaderTypeOK
    <3>1. i \in DOMAIN frames /\ i \in Nat /\ i # n
        BY <2>2, <3>0, <1>5, <1>6, <1>7
    <3>2. frames[i].pkg = p /\ m < frames[i].next
        BY <3>1, <2>2, <1>7
    <3>3. ToSet(LeadingImports(tree.files[p][m])) \subseteq visited \cup Pending(i)
        BY <3>1, <3>2, <2>2, <1>1, <1>4a DEF NoneForgotten
    <3> QED
        BY <3>1, <3>3, <1>4a, <1>11
  <2>3. \A p \in Package : Done(p)' => Leading(p)' \subseteq visited'
      BY <1>1, <1>4a, <1>9, SameGraph DEF NoneForgotten
  <2> QED
      BY <2>1, <2>2, <2>3 DEF NoneForgotten
<1>15. OnlyNeeded'
  <2>1. x \in Needed
      BY <1>1, <1>6, <1>7a DEF OnlyNeeded
  <2>2. /\ visited' \subseteq Needed' /\ visited' \cap tree'.broken = {} /\ types' = visited'
      BY <2>1, <1>1, <1>3, <1>4a, SameGraph DEF OnlyNeeded
  <2>3. \A i \in DOMAIN frames' : ToSet(frames'[i].imports) \subseteq Needed'
      BY <1>1, <1>4a, <1>5, <1>7, SameGraph DEF OnlyNeeded
  <2> QED
      BY <2>2, <2>3 DEF OnlyNeeded
<1>16. Ordered'
    BY <1>1, <1>4a, <1>8, <1>9, SameGraph DEF Ordered
<1>17. visited' \in SUBSET Package /\ types' = visited'
    BY <1>1, <1>4a DEF LoaderTypeOK, OnlyNeeded
<1>18. status = "load" /\ status' = "load"
    BY <1>4a
<1> QED
    BY <1>4a, <1>5, <1>12, <1>13, <1>14, <1>15, <1>16, <1>17, <1>18, LoadingInv

\* One more activation on top, the caller's next file one further.
LEMMA CallFacts ==
    ASSUME NEW fr \in Seq(Frame), NEW n \in Nat \ {0}, n = Len(fr), NEW s \in Seq(Package),
           NEW g, g = Append([fr EXCEPT ![Len(fr)].next = @ + 1], Activation(s))
    PROVE  /\ g \in Seq(Frame) /\ g # <<>> /\ Len(g) = n + 1 /\ DOMAIN g = 1 .. n + 1
           /\ \A i \in 1 .. n :
                 /\ g[i].pkg = fr[i].pkg /\ g[i].imports = fr[i].imports /\ g[i].out = fr[i].out
                 /\ i # n => g[i].next = fr[i].next
           /\ g[n].next = fr[n].next + 1
           /\ g[n + 1].imports = s /\ g[n + 1].pkg = Nothing /\ g[n + 1].out = <<>>
<1>1. Activation(s) \in Frame
  <2>0. <<>> \in Seq(Package)
      OBVIOUS
  <2>1. PICK e \in Seq(Package) : e = <<>>
      BY <2>0, Zenon
  <2>2. 1 \in Nat \ {0} /\ Nothing \in Package \cup {Nothing}
      OBVIOUS
  <2>3. [imports |-> s, pkg |-> Nothing, next |-> 1, out |-> e] \in Frame
      BY <2>2 DEF Frame
  <2> QED
      BY <2>1, <2>3 DEF Activation
<1>2. PICK a \in Frame : a = Activation(s)
    BY <1>1
<1>3. a.imports = s /\ a.pkg = Nothing /\ a.out = <<>>
    BY <1>2 DEF Activation
<1>4. PICK t \in Frame : t = fr[n]
  <2>1. n \in 1 .. Len(fr)
      OBVIOUS
  <2> QED
      BY <2>1
<1>5. PICK k \in Nat \ {0} : k = t.next + 1
  <2>1. t.next \in Nat \ {0}
      BY DEF Frame
  <2> QED
      BY <2>1
<1>6. PICK u : u = [t EXCEPT !.next = k]
    OBVIOUS
<1>7. u \in Frame /\ u.next = k /\ u.imports = t.imports /\ u.pkg = t.pkg /\ u.out = t.out
    BY <1>6 DEF Frame
<1>8. [fr EXCEPT ![Len(fr)].next = @ + 1] = [fr EXCEPT ![n] = u]
  <2>1. [fr EXCEPT ![Len(fr)].next = @ + 1] = [fr EXCEPT ![n] = [fr[n] EXCEPT !.next = @ + 1]]
      OBVIOUS
  <2>2. [t EXCEPT !.next = @ + 1] = u
      BY <1>5, <1>6
  <2> QED
      BY <2>1, <2>2, <1>4
<1>9. PICK F : F = [fr EXCEPT ![n] = u]
    OBVIOUS
<1>10. F \in Seq(Frame) /\ Len(F) = n /\ F[n] = u /\ \A i \in 1 .. n : i # n => F[i] = fr[i]
    BY <1>7, <1>9
<1>11. g = Append(F, a)
    BY <1>2, <1>8, <1>9
<1>12. /\ g \in Seq(Frame) /\ DOMAIN g = 1 .. n + 1
       /\ \A i \in 1 .. n : g[i] = F[i]
       /\ g[n + 1] = a
  <2>1. PICK G \in Seq(Frame) : G = F /\ Len(G) = n
      BY <1>10
  <2>2. /\ Append(G, a) \in Seq(Frame) /\ DOMAIN Append(G, a) = 1 .. Len(G) + 1
        /\ \A i \in 1 .. Len(G) : Append(G, a)[i] = G[i]
        /\ Append(G, a)[Len(G) + 1] = a
      BY AppendFacts
  <2> QED
      BY <2>1, <2>2, <1>11, Zenon
<1>13. Len(g) = n + 1 /\ g # <<>>
    BY <1>12
<1>14. ASSUME NEW i \in 1 .. n
       PROVE  /\ g[i].pkg = fr[i].pkg /\ g[i].imports = fr[i].imports /\ g[i].out = fr[i].out
              /\ i # n => g[i].next = fr[i].next
  <2>1. CASE i = n
      BY <2>1, <1>4, <1>7, <1>10, <1>12
  <2>2. CASE i # n
      BY <2>2, <1>10, <1>12
  <2> QED
      BY <2>1, <2>2
<1>15. g[n].next = fr[n].next + 1
    BY <1>4, <1>5, <1>7, <1>10, <1>12
<1> QED
    BY <1>3, <1>12, <1>13, <1>14, <1>15

\* LoadChild: the imports of one more file go from the package in hand to
\* the new activation.
LEMMA LoadChildInv ==
    ASSUME LoaderInv, LoadChild
    PROVE  LoaderInv'
<1>1. /\ LoaderTypeOK /\ Phases /\ Once /\ Stack /\ NoneForgotten /\ OnlyNeeded /\ Ordered
      /\ status = "load" /\ tree \in Programs
    BY DEF LoaderInv, LoadChild, LoaderTypeOK
<1>2. /\ tree' = tree /\ visited' = visited /\ types' = types /\ status' = status
      /\ UNCHANGED <<packages, registry, missing>>
    BY DEF LoadChild
<1>3. PICK x \in Package, m \in Nat \ {0} :
          /\ x = Top.pkg /\ m = Top.next /\ m \in DOMAIN tree.files[x] /\ x # Nothing
  <2>1. Top.pkg \in Package /\ Top.next \in Nat \ {0} /\ Top.pkg # Nothing
      BY <1>1, TopFacts DEF LoadChild
  <2>2. Top.next \in 1 .. Len(tree.files[Top.pkg])
      BY <2>1, <1>1, FileFacts DEF LoadChild
  <2> QED
      BY <2>1, <2>2, <1>1, FileFacts
<1>4. PICK s \in Seq(Package) : s = LeadingImports(tree.files[x][m])
    BY <1>1, <1>3, FileFacts
<1>5. PICK n \in Nat \ {0} :
      DOMAIN frames = 1 .. n /\ n \in DOMAIN frames /\ n = Len(frames)
    BY <1>1, TopFacts
<1>6. Top = frames[n] /\ frames \in Seq(Frame) /\ frames # <<>>
    BY <1>1, <1>5, TopFacts DEF LoaderTypeOK
<1>7. /\ frames' \in Seq(Frame) /\ frames' # <<>> /\ Len(frames') = n + 1
      /\ DOMAIN frames' = 1 .. n + 1
      /\ \A i \in 1 .. n :
            /\ frames'[i].pkg = frames[i].pkg /\ frames'[i].imports = frames[i].imports
            /\ frames'[i].out = frames[i].out
            /\ i # n => frames'[i].next = frames[i].next
      /\ frames'[n].next = frames[n].next + 1
      /\ frames'[n + 1].imports = s /\ frames'[n + 1].pkg = Nothing /\ frames'[n + 1].out = <<>>
  <2>1. frames' = Append([frames EXCEPT ![Len(frames)].next = @ + 1], Activation(s))
      BY <1>3, <1>4 DEF LoadChild
  <2>2. PICK fr \in Seq(Frame) : fr = frames
      BY <1>6
  <2>3. PICK g : g = frames'
      OBVIOUS
  <2>4. n = Len(fr) /\ g = Append([fr EXCEPT ![Len(fr)].next = @ + 1], Activation(s))
      BY <2>1, <2>2, <2>3, <1>5
  <2> QED
      BY <2>2, <2>3, <2>4, CallFacts, SMTT(40)
<1>8. frames' \in Seq(Frame) /\ frames' # <<>>
    BY <1>7
<1>9. DOMAIN frames' = 1 .. n + 1 /\ Len(frames') = n + 1 /\ (\A i \in 1 .. n : i \in 1 .. n + 1) /\ n + 1 \in 1 .. n + 1
    BY <1>7
<1>10. \A i \in 1 .. n :
          /\ frames'[i].pkg = frames[i].pkg /\ frames'[i].imports = frames[i].imports
          /\ frames'[i].out = frames[i].out
          /\ i # n => frames'[i].next = frames[i].next
    BY <1>7
<1>11. /\ frames'[n].next = m + 1 /\ frames[n].next = m /\ frames[n].pkg = x
       /\ frames'[n + 1].imports = s /\ frames'[n + 1].pkg = Nothing
    BY <1>3, <1>6, <1>7
<1>11a. /\ \A i \in DOMAIN frames' : i \in 1 .. n \/ i = n + 1
        /\ \A i \in DOMAIN frames' : frames'[i].pkg # Nothing => i \in 1 .. n
        /\ \A i \in 1 .. n : i # n + 1
  <2>1. \A i \in DOMAIN frames' : i \in 1 .. n \/ i = n + 1
      BY <1>9
  <2>2. frames'[n + 1].pkg = Nothing
      BY <1>11
  <2> QED
      BY <2>1, <2>2
<1>12. Outs' = Append(Outs, <<>>)
  <2>1. Outs \in Seq(Seq(Package)) /\ Len(Outs) = n /\ DOMAIN Outs = 1 .. n
        /\ \A i \in 1 .. n : Outs[i] = frames[i].out
      BY <1>1, <1>5, TopFacts
  <2>2. Outs' = [i \in 1 .. n + 1 |-> frames'[i].out]
      BY <1>1, <1>2, <1>9 DEF Outs
  <2>3. <<>> \in Seq(Package)
      OBVIOUS
  <2>4. PICK L \in Seq(Seq(Package)) : L = Outs
      BY <2>1
  <2>5. /\ DOMAIN Append(L, <<>>) = 1 .. n + 1
        /\ \A i \in 1 .. n : Append(L, <<>>)[i] = L[i]
        /\ Append(L, <<>>)[n + 1] = <<>>
      BY <2>1, <2>3, <2>4
  <2>6. \A i \in 1 .. n + 1 : Append(L, <<>>)[i] = frames'[i].out
    <3>1. \A i \in 1 .. n : frames'[i].out = frames[i].out
        BY <1>10
    <3>2. frames'[n + 1].out = <<>>
        BY <1>7
    <3>3. \A i \in 1 .. n : Append(L, <<>>)[i] = frames'[i].out
        BY <3>1, <2>1, <2>4, <2>5
    <3>4. Append(L, <<>>)[n + 1] = frames'[n + 1].out
        BY <3>2, <2>5
    <3>5. \A i \in 1 .. n + 1 : i \in 1 .. n \/ i = n + 1
        OBVIOUS
    <3> QED
        BY <3>3, <3>4, <3>5, Zenon
  <2>7. Append(L, <<>>) = [i \in 1 .. n + 1 |-> Append(L, <<>>)[i]]
    <3>0. PICK e \in Seq(Package) : e = <<>>
        BY <2>3, Zenon
    <3>0a. Append(L, e) \in Seq(Seq(Package))
        OBVIOUS
    <3>1. PICK M \in Seq(Seq(Package)) : M = Append(L, <<>>)
        BY <3>0, <3>0a, Zenon
    <3>2. M = [i \in DOMAIN M |-> M[i]]
        OBVIOUS
    <3> QED
        BY <3>1, <3>2, <2>5, Zenon
  <2> QED
      BY <2>2, <2>4, <2>6, <2>7
<1>13. /\ \A p : Done(p)' <=> Done(p)
       /\ \A p, q : Precedes(Outs, q, p) => Precedes(Outs', q, p)
       /\ Distinct(Outs')
  <2>1. PICK L \in Seq(Seq(Package)) : L = Outs
      BY <1>1, TopFacts
  <2> QED
      BY <2>1, <1>1, <1>12, AddEmpty DEF Done, Once
<1>14. \A p \in Package : Held(p)' <=> Held(p)
  <2> TAKE p \in Package
  <2>0. p # Nothing
      BY LoaderAssumption
  <2>1. Held(p) => Held(p)'
      BY <1>5, <1>9, <1>10 DEF Held
  <2>2. ASSUME Held(p)' PROVE Held(p)
    <3>1. PICK i \in 1 .. n + 1 : frames'[i].pkg = p
        BY <2>2, <1>9 DEF Held
    <3>2. i \in 1 .. n
        BY <3>1, <2>0, <1>5, <1>9, <1>10, <1>11
    <3> QED
        BY <3>1, <3>2, <1>5, <1>9, <1>10, <1>11 DEF Held
  <2> QED
      BY <2>1, <2>2
<1>15. /\ \A i \in Nat : i < n => Pending(i)' = Pending(i)
       /\ Pending(n)' = ToSet(s) /\ Pending(n) = {}
  <2>1. ASSUME NEW i \in Nat, i < n PROVE Pending(i)' = Pending(i)
    <3>1. i + 1 \in 1 .. n /\ i < n + 1
        BY <2>1, <1>5
    <3> QED
      <4>1. i < Len(frames) /\ i < Len(frames')
          BY <3>1, <2>1, <1>5, <1>9
      <4>2. frames'[i + 1].imports = frames[i + 1].imports
          BY <3>1, <1>10
      <4> QED
          BY <4>1, <4>2 DEF Pending
  <2>2. Pending(n)' = ToSet(s) /\ Pending(n) = {}
    <3>1. ~(n < Len(frames)) /\ n < Len(frames')
        BY <1>5, <1>9
    <3>2. frames'[n + 1].imports = s
        BY <1>11
    <3> QED
        BY <3>1, <3>2 DEF Pending
  <2> QED
      BY <2>1, <2>2
<1>16. x \in visited /\ x \in Needed /\ x \notin tree.broken
  <2>1. Held(x)
      BY <1>5, <1>9, <1>10, <1>11 DEF Held
  <2> QED
      BY <2>1, <1>1 DEF Once, OnlyNeeded
<1>17. ToSet(s) \subseteq Leading(x) /\ ToSet(s) \subseteq Package
    BY <1>1, <1>3, <1>4, <1>16, LeadingFacts, FileFacts
<1>18. Once'
  <2>1. ASSUME NEW i \in DOMAIN frames', NEW k \in DOMAIN frames',
               frames'[i].pkg = frames'[k].pkg, frames'[i].pkg # Nothing
        PROVE  i = k
    <3>1. i \in 1 .. n /\ k \in 1 .. n
        BY <2>1, <1>11a
    <3> QED
        BY <3>1, <2>1, <1>1, <1>5, <1>9, <1>10, <1>11, ZenonT(40) DEF Once
  <2>2. \A p \in Package : Done(p)' => ~Held(p)'
      BY <1>1, <1>13, <1>14 DEF Once
  <2>3. \A p \in Package : p \in visited' <=> Done(p)' \/ Held(p)'
      BY <1>1, <1>2, <1>13, <1>14 DEF Once
  <2> QED
      BY <2>1, <2>2, <2>3, <1>13 DEF Once
<1>19. Stack'
  <2>1. \A i \in DOMAIN frames' : i < Len(frames') => frames'[i].pkg # Nothing
    <3> SUFFICES ASSUME NEW i \in DOMAIN frames', i < Len(frames') PROVE frames'[i].pkg # Nothing
        OBVIOUS
    <3>1. i \in 1 .. n
        BY <1>9, <1>11a
    <3>2. i = n \/ i < Len(frames)
        BY <3>1, <1>5
    <3>3. frames[n].pkg = x /\ x # Nothing
        BY <1>3, <1>11
    <3>4. frames[i].pkg # Nothing
        BY <3>1, <3>2, <3>3, <1>1, <1>5 DEF Stack
    <3> QED
        BY <3>1, <3>4, <1>10
  <2>2. ASSUME NEW i \in DOMAIN frames', NEW j \in DOMAIN frames', NEW p \in Package, NEW q \in Package,
               i < j, frames'[i].pkg = p, frames'[j].pkg = q \/ q \in ToSet(frames'[j].imports)
        PROVE  LeadsTo(p, q)'
    <3>0. i \in 1 .. n /\ frames[i].pkg = p /\ p # Nothing /\ q # Nothing
      <4>1. p # Nothing /\ q # Nothing
          BY LoaderAssumption
      <4>2. i \in 1 .. n
          BY <4>1, <2>2, <1>11a
      <4> QED
          BY <4>1, <4>2, <2>2, <1>10
    <3>1. CASE j \in 1 .. n
      <4>1. frames[j].pkg = q \/ q \in ToSet(frames[j].imports)
          BY <3>1, <2>2, <1>9, <1>10, <1>11
      <4>2. LeadsTo(p, q)
          BY <3>0, <3>1, <4>1, <2>2, <1>1, <1>5 DEF Stack
      <4> QED
          BY <4>2, <1>2, SameGraph
    <3>2. CASE j = n + 1
      <4>1. q \in Leading(x)
          BY <3>0, <3>2, <2>2, <1>9, <1>10, <1>11, <1>17
      <4>2. p = x \/ LeadsTo(p, x)
        <5>1. frames[n].pkg = x
            BY <1>11
        <5>2. n \in DOMAIN frames /\ i \in DOMAIN frames /\ (i = n \/ i < n)
            BY <3>0, <1>5
        <5> QED
            BY <5>1, <5>2, <3>0, <1>1 DEF Stack
      <4>3. LeadsTo(p, q)
          BY <4>1, <4>2, <1>1, LeadsToFacts
      <4> QED
          BY <4>3, <1>2, SameGraph
    <3> QED
        BY <3>1, <3>2, <1>5, <1>9, <1>10
  <2> QED
      BY <2>1, <2>2 DEF Stack
<1>20. NoneForgotten'
  <2>1. ToSet(tree.main)' \subseteq visited' \cup Pending(0)'
      BY <1>1, <1>2, <1>5, <1>15 DEF NoneForgotten
  <2>2. ASSUME NEW i \in DOMAIN frames', NEW p \in Package, frames'[i].pkg = p,
               NEW k \in DOMAIN tree'.files[p], k < frames'[i].next
        PROVE  ToSet(LeadingImports(tree'.files[p][k])) \subseteq visited' \cup Pending(i)'
    <3>0. p # Nothing /\ k \in Nat
        BY <1>1, <1>2, LoaderAssumption, FileFacts
    <3>1. i \in 1 .. n /\ frames[i].pkg = p
      <4>1. i \in 1 .. n
          BY <2>2, <3>0, <1>11a, Zenon
      <4> QED
          BY <4>1, <2>2, <1>10, Zenon
    <3>2. CASE i # n
      <4>1. ToSet(LeadingImports(tree.files[p][k])) \subseteq visited \cup Pending(i)
          BY <3>1, <3>2, <2>2, <1>1, <1>2, <1>5, <1>9, <1>10, <1>11 DEF NoneForgotten
      <4> QED
          BY <4>1, <3>1, <3>2, <1>2, <1>5, <1>15
    <3>3. CASE i = n /\ k # m
      <4>1. k < frames[n].next
          BY <3>0, <3>3, <2>2, <1>9, <1>10, <1>11
      <4>2. ToSet(LeadingImports(tree.files[p][k])) \subseteq visited \cup Pending(n)
          BY <4>1, <3>1, <3>3, <2>2, <1>1, <1>2, <1>5 DEF NoneForgotten
      <4> QED
          BY <4>2, <3>3, <1>2, <1>15
    <3>4. CASE i = n /\ k = m
        BY <3>1, <3>4, <1>2, <1>4, <1>9, <1>10, <1>11, <1>15
    <3> QED
        BY <3>2, <3>3, <3>4
  <2>3. \A p \in Package : Done(p)' => Leading(p)' \subseteq visited'
      BY <1>1, <1>2, <1>13, SameGraph DEF NoneForgotten
  <2> QED
      BY <2>1, <2>2, <2>3 DEF NoneForgotten
<1>21. OnlyNeeded'
  <2>1. ToSet(s) \subseteq Needed
      BY <1>1, <1>16, <1>17, NeededFacts
  <2>2. \A i \in 1 .. n : ToSet(frames[i].imports) \subseteq Needed
      BY <1>1, <1>5 DEF OnlyNeeded
  <2>3. \A i \in 1 .. n + 1 : ToSet(frames'[i].imports) \subseteq Needed
    <3>1. \A i \in 1 .. n : frames'[i].imports = frames[i].imports
        BY <1>10, Zenon
    <3>2. \A i \in 1 .. n : ToSet(frames'[i].imports) \subseteq Needed
        BY <3>1, <2>2, Zenon
    <3>3. ToSet(frames'[n + 1].imports) \subseteq Needed
        BY <2>1, <1>11, Zenon
    <3> QED
        BY <3>2, <3>3, <1>9, <1>11a, Zenon
  <2>4. visited' \subseteq Needed' /\ visited' \cap tree'.broken = {} /\ types' = visited'
      BY <1>1, <1>2, SameGraph DEF OnlyNeeded
  <2> QED
      BY <2>3, <2>4, <1>2, <1>9, <1>10, SameGraph DEF OnlyNeeded
<1>22. Ordered'
    BY <1>1, <1>2, <1>13, SameGraph DEF Ordered
<1>23. visited' \in SUBSET Package /\ types' = visited'
    BY <1>1, <1>2 DEF LoaderTypeOK, OnlyNeeded
<1> QED
    BY <1>1, <1>2, <1>8, <1>18, <1>19, <1>20, <1>21, <1>22, <1>23, LoadingInv

\* Finish: all that the package leads to is visited, so what is not in the
\* lists is in the hand of an activation that leads to this one.
LEMMA FinishInv ==
    ASSUME LoaderInv, Finish
    PROVE  LoaderInv'
<1>1. /\ LoaderTypeOK /\ Phases /\ Once /\ Stack /\ NoneForgotten /\ OnlyNeeded /\ Ordered
      /\ status = "load" /\ tree \in Programs
    BY DEF LoaderInv, Finish, LoaderTypeOK
<1>2. /\ tree' = tree /\ visited' = visited /\ types' = types /\ status' = status
      /\ UNCHANGED <<packages, registry, missing>>
    BY DEF Finish
<1>3. PICK n \in Nat \ {0} : DOMAIN frames = 1 .. n /\ n \in DOMAIN frames /\ n = Len(frames)
    BY <1>1, TopFacts
<1>4. Top = frames[n] /\ frames \in Seq(Frame) /\ frames # <<>>
    BY <1>1, <1>3, TopFacts DEF LoaderTypeOK
<1>5. PICK t \in Frame : t = Top
    BY <1>1, TopFacts
<1>6. PICK x \in Package : x = t.pkg /\ x # Nothing
    BY <1>5 DEF Finish, Frame
<1>7. t.next \in Nat \ {0} /\ t.out \in Seq(Package)
    BY DEF Frame
<1>8. t.next > Len(tree.files[x])
    BY <1>5, <1>6 DEF Finish
<1>9. PICK o \in Seq(Package) : o = Append(t.out, x)
  <2>1. PICK r \in Seq(Package) : r = t.out
      BY <1>7
  <2>2. Append(r, x) \in Seq(Package)
      OBVIOUS
  <2> QED
      BY <2>1, <2>2, Zenon
<1>10. PICK f : f = [t EXCEPT !.pkg = Nothing, !.out = o]
    OBVIOUS
<1>11. f \in Frame /\ f.imports = t.imports /\ f.pkg = Nothing /\ f.next = t.next /\ f.out = o
    BY <1>10 DEF Frame
<1>12. SetTop(f)
  <2>1. [t EXCEPT !.pkg = Nothing, !.out = Append(@, t.pkg)] = [t EXCEPT !.pkg = Nothing, !.out = o]
      BY <1>6, <1>9
  <2> QED
      BY <2>1, <1>5, <1>10 DEF Finish
<1>13. /\ frames' \in Seq(Frame) /\ frames' # <<>> /\ Len(frames') = n /\ DOMAIN frames' = DOMAIN frames
       /\ frames'[n] = f /\ \A i \in DOMAIN frames : i # n => frames'[i] = frames[i]
    BY <1>3, <1>4, <1>11, <1>12, SetTopFacts
<1>14. DOMAIN frames' = 1 .. n /\ Len(frames') = n
    BY <1>3, <1>13
<1>15. /\ \A i \in 1 .. n :
             /\ frames'[i].imports = frames[i].imports /\ frames'[i].next = frames[i].next
             /\ i # n => frames'[i].pkg = frames[i].pkg /\ frames'[i].out = frames[i].out
       /\ frames[n].pkg = x /\ frames'[n].pkg = Nothing
    BY <1>3, <1>4, <1>5, <1>6, <1>11, <1>13
<1>16. frames'[n].out = Append(frames[n].out, x)
    BY <1>4, <1>5, <1>9, <1>11, <1>13
<1>17. x \in visited /\ x \in Needed /\ x \notin tree.broken /\ Held(x) /\ ~Done(x)
  <2>1. Held(x)
      BY <1>3, <1>15 DEF Held
  <2> QED
      BY <2>1, <1>1 DEF Once, OnlyNeeded
<1>18. Outs' = [Outs EXCEPT ![Len(Outs)] = Append(@, x)]
  <2>1. Outs \in Seq(Seq(Package)) /\ Len(Outs) = n /\ DOMAIN Outs = 1 .. n
        /\ \A i \in 1 .. n : Outs[i] = frames[i].out
      BY <1>1, <1>3, TopFacts
  <2>2. Outs' = [i \in 1 .. n |-> frames'[i].out]
      BY <1>1, <1>2, <1>14 DEF Outs
  <2>3. PICK L \in Seq(Seq(Package)) : L = Outs
      BY <2>1
  <2>4. [L EXCEPT ![n] = Append(@, x)] = [i \in 1 .. n |-> IF i = n THEN Append(L[n], x) ELSE L[i]]
      BY <2>1, <2>3
  <2>5. \A i \in 1 .. n : frames'[i].out = IF i = n THEN Append(L[n], x) ELSE L[i]
      BY <2>1, <2>3, <1>3, <1>15, <1>16
  <2> QED
      BY <2>1, <2>2, <2>3, <2>4, <2>5
<1>19. /\ \A p : Done(p)' <=> Done(p) \/ p = x
       /\ \A p, q : Precedes(Outs, q, p) => Precedes(Outs', q, p)
       /\ \A q : Done(q) => Precedes(Outs', q, x)
       /\ Distinct(Outs')
  <2>1. PICK L \in Seq(Seq(Package)) : L = Outs /\ L # <<>>
      BY <1>1, <1>3, TopFacts
  <2>2. ~In(L, x) /\ Distinct(L)
      BY <2>1, <1>1, <1>17 DEF Once, Done
  <2> QED
      BY <2>1, <2>2, <1>18, AddLast DEF Done
<1>20. \A p \in Package : Held(p)' <=> Held(p) /\ p # x
  <2> TAKE p \in Package
  <2>0. p # Nothing
      BY LoaderAssumption
  <2>1. ASSUME Held(p), p # x PROVE Held(p)'
    <3>1. PICK i \in 1 .. n : frames[i].pkg = p
        BY <2>1, <1>3 DEF Held
    <3>2. i # n
        BY <3>1, <2>1, <1>15
    <3> QED
        BY <3>1, <3>2, <1>14, <1>15 DEF Held
  <2>2. ASSUME Held(p)' PROVE Held(p) /\ p # x
    <3>1. PICK i \in 1 .. n : frames'[i].pkg = p
        BY <2>2, <1>14 DEF Held
    <3>2. i # n
        BY <3>1, <2>0, <1>15
    <3>3. frames[i].pkg = p
        BY <3>1, <3>2, <1>15
    <3>4. p # x
        BY <3>2, <3>3, <2>0, <1>1, <1>3, <1>15 DEF Once
    <3> QED
        BY <3>3, <3>4, <1>3 DEF Held
  <2> QED
      BY <2>1, <2>2
<1>21. (\A i \in Nat : Pending(i)' = Pending(i)) /\ Pending(n) = {}
  <2>1. ASSUME NEW i \in Nat PROVE Pending(i)' = Pending(i)
    <3>1. CASE i < n
      <4>1. i + 1 \in 1 .. n
          BY <3>1
      <4>2. frames'[i + 1].imports = frames[i + 1].imports
          BY <4>1, <1>15
      <4>3. i < Len(frames) /\ i < Len(frames')
          BY <3>1, <1>3, <1>14
      <4> QED
          BY <4>2, <4>3 DEF Pending
    <3>2. CASE ~(i < n)
      <4>1. ~(i < Len(frames)) /\ ~(i < Len(frames'))
          BY <3>2, <1>3, <1>14
      <4> QED
          BY <4>1 DEF Pending
    <3> QED
        BY <3>1, <3>2
  <2>2. ~(n < Len(frames))
      BY <1>3
  <2> QED
      BY <2>1, <2>2 DEF Pending
<1>22. Leading(x) \subseteq visited
  <2> SUFFICES ASSUME NEW q \in Leading(x) PROVE q \in visited
      OBVIOUS
  <2>1. PICK m \in DOMAIN tree.files[x] : q \in ToSet(LeadingImports(tree.files[x][m]))
      BY <1>1, <1>17, LeadingFacts
  <2>2. m < frames[n].next
    <3>1. m \in 1 .. Len(tree.files[x]) /\ Len(tree.files[x]) \in Nat
        BY <1>1, FileFacts
    <3>2. frames[n].next = t.next
        BY <1>4, <1>5
    <3> QED
        BY <3>1, <3>2, <1>7, <1>8
  <2>3. ToSet(LeadingImports(tree.files[x][m])) \subseteq visited \cup Pending(n)
      BY <2>2, <1>1, <1>3, <1>15 DEF NoneForgotten
  <2> QED
      BY <2>1, <2>3, <1>21
<1>23. Once'
  <2>1. ASSUME NEW i \in DOMAIN frames', NEW k \in DOMAIN frames',
               frames'[i].pkg = frames'[k].pkg, frames'[i].pkg # Nothing
        PROVE  i = k
    <3>1. i \in 1 .. n /\ k \in 1 .. n /\ i # n /\ k # n
        BY <2>1, <1>14, <1>15
    <3> QED
        BY <3>1, <2>1, <1>1, <1>3, <1>15 DEF Once
  <2>2. \A p \in Package : Done(p)' => ~Held(p)'
      BY <1>1, <1>19, <1>20 DEF Once
  <2>3. \A p \in Package : p \in visited' <=> Done(p)' \/ Held(p)'
      BY <1>1, <1>2, <1>17, <1>19, <1>20 DEF Once
  <2> QED
      BY <2>1, <2>2, <2>3, <1>19 DEF Once
<1>24. Stack'
  <2>1. \A i \in DOMAIN frames' : i < Len(frames') => frames'[i].pkg # Nothing
    <3> SUFFICES ASSUME NEW i \in DOMAIN frames', i < Len(frames') PROVE frames'[i].pkg # Nothing
        OBVIOUS
    <3>1. i \in 1 .. n /\ i # n /\ i < Len(frames)
        BY <1>3, <1>14
    <3> QED
        BY <3>1, <1>1, <1>3, <1>15 DEF Stack
  <2>2. ASSUME NEW i \in DOMAIN frames', NEW j \in DOMAIN frames', NEW p \in Package, NEW q \in Package,
               i < j, frames'[i].pkg = p, frames'[j].pkg = q \/ q \in ToSet(frames'[j].imports)
        PROVE  LeadsTo(p, q)'
    <3>0. p # Nothing /\ q # Nothing
        BY LoaderAssumption
    <3>1. i \in 1 .. n /\ j \in 1 .. n /\ i # n
        BY <3>0, <2>2, <1>14, <1>15
    <3>2. frames[i].pkg = p
        BY <3>1, <2>2, <1>15
    <3>3. frames[j].pkg = q \/ q \in ToSet(frames[j].imports)
        BY <3>0, <3>1, <2>2, <1>15
    <3>4. LeadsTo(p, q)
        BY <3>1, <3>2, <3>3, <2>2, <1>1, <1>3 DEF Stack
    <3> QED
        BY <3>4, <1>2, SameGraph
  <2> QED
      BY <2>1, <2>2 DEF Stack
<1>25. NoneForgotten'
  <2>1. ToSet(tree.main)' \subseteq visited' \cup Pending(0)'
      BY <1>1, <1>2, <1>21 DEF NoneForgotten
  <2>2. ASSUME NEW i \in DOMAIN frames', NEW p \in Package, frames'[i].pkg = p,
               NEW k \in DOMAIN tree'.files[p], k < frames'[i].next
        PROVE  ToSet(LeadingImports(tree'.files[p][k])) \subseteq visited' \cup Pending(i)'
    <3>0. p # Nothing
        BY LoaderAssumption
    <3>1. i \in 1 .. n /\ i # n
        BY <3>0, <2>2, <1>14, <1>15
    <3>2. frames[i].pkg = p /\ k < frames[i].next
        BY <3>1, <2>2, <1>15
    <3>3. ToSet(LeadingImports(tree.files[p][k])) \subseteq visited \cup Pending(i)
        BY <3>1, <3>2, <2>2, <1>1, <1>2, <1>3 DEF NoneForgotten
    <3> QED
        BY <3>1, <3>3, <1>2, <1>21
  <2>3. \A p \in Package : Done(p)' => Leading(p)' \subseteq visited'
      BY <1>1, <1>2, <1>19, <1>22, SameGraph DEF NoneForgotten
  <2> QED
      BY <2>1, <2>2, <2>3 DEF NoneForgotten
<1>26. OnlyNeeded'
  <2>1. \A i \in DOMAIN frames' : ToSet(frames'[i].imports) \subseteq Needed'
      BY <1>1, <1>2, <1>3, <1>14, <1>15, SameGraph DEF OnlyNeeded
  <2>2. visited' \subseteq Needed' /\ visited' \cap tree'.broken = {} /\ types' = visited'
      BY <1>1, <1>2, SameGraph DEF OnlyNeeded
  <2> QED
      BY <2>1, <2>2 DEF OnlyNeeded
<1>27. Ordered'
  <2> SUFFICES ASSUME NEW p \in Package, NEW q \in Package, Done(p)', q \in Leading(p)'
               PROVE  Precedes(Outs', q, p) \/ LeadsTo(q, p)'
      BY DEF Ordered
  <2>1. q \in Leading(p) /\ (LeadsTo(q, p)' <=> LeadsTo(q, p))
      BY <1>2, SameGraph
  <2>2. CASE Done(p)
      BY <2>1, <2>2, <1>1, <1>19 DEF Ordered
  <2>3. CASE p = x
    <3>1. q \in visited
        BY <2>1, <2>3, <1>22
    <3>2. CASE Done(q)
        BY <3>2, <2>3, <1>19
    <3>3. CASE Held(q)
      <4>1. PICK i \in 1 .. n : frames[i].pkg = q
          BY <3>3, <1>3 DEF Held
      <4>2. CASE i = n
          BY <4>1, <4>2, <2>1, <2>3, <1>1, <1>15, LeadsToFacts
      <4>3. CASE i # n
        <5>1. i < n /\ i \in DOMAIN frames /\ n \in DOMAIN frames /\ frames[n].pkg = x
            BY <4>1, <4>3, <1>3, <1>15
        <5>2. LeadsTo(q, x)
            BY <5>1, <4>1, <1>1 DEF Stack
        <5> QED
            BY <5>2, <2>1, <2>3
      <4> QED
          BY <4>2, <4>3
    <3> QED
        BY <3>1, <3>2, <3>3, <1>1 DEF Once
  <2> QED
      BY <2>2, <2>3, <1>19
<1>28. visited' \in SUBSET Package /\ types' = visited'
    BY <1>1, <1>2 DEF LoaderTypeOK, OnlyNeeded
<1> QED
    BY <1>1, <1>2, <1>13, <1>23, <1>24, <1>25, <1>26, <1>27, <1>28, LoadingInv

\* The activations without the last, and the caller's list.
Returned(fr, n, o) == [Front(fr) EXCEPT ![n].out = o]

\* What an inner activation has collected goes to its caller.
LEMMA ReturnFacts ==
    ASSUME NEW fr \in Seq(Frame), NEW n \in Nat \ {0}, Len(fr) = n + 1, NEW o \in Seq(Package),
           NEW g, g = Returned(fr, n, o)
    PROVE  /\ g \in Seq(Frame) /\ g # <<>> /\ Len(g) = n /\ DOMAIN g = 1 .. n
           /\ \A i \in 1 .. n :
                 /\ g[i].pkg = fr[i].pkg /\ g[i].imports = fr[i].imports /\ g[i].next = fr[i].next
                 /\ i # n => g[i].out = fr[i].out
           /\ g[n].out = o
<1>1. PICK F : F = Front(fr)
    OBVIOUS
<1>2. F \in Seq(Frame) /\ Len(F) = n /\ \A i \in 1 .. n : F[i] = fr[i]
    BY <1>1 DEF Front
<1>3. PICK t \in Frame : t = F[n]
  <2>1. n \in 1 .. Len(F)
      BY <1>2
  <2> QED
      BY <2>1, <1>2
<1>4. PICK u : u = [t EXCEPT !.out = o]
    OBVIOUS
<1>5. u \in Frame /\ u.out = o /\ u.imports = t.imports /\ u.pkg = t.pkg /\ u.next = t.next
    BY <1>4 DEF Frame
<1>6. g = [F EXCEPT ![n] = u]
    BY <1>1, <1>2, <1>3, <1>4 DEF Returned
<1>7. g \in Seq(Frame) /\ Len(g) = n /\ g[n] = u /\ \A i \in 1 .. n : i # n => g[i] = F[i]
  <2>1. PICK G \in Seq(Frame), v \in Frame : G = F /\ v = u /\ Len(G) = n
      BY <1>2, <1>5
  <2>2. PICK h : h = [G EXCEPT ![n] = v]
      OBVIOUS
  <2>3. h \in Seq(Frame) /\ Len(h) = n /\ h[n] = v /\ \A i \in 1 .. n : i # n => h[i] = G[i]
      BY <2>1, <2>2
  <2> QED
      BY <2>1, <2>2, <2>3, <1>6
<1>8. DOMAIN g = 1 .. n /\ g # <<>>
    BY <1>7
<1>9. ASSUME NEW i \in 1 .. n
      PROVE  /\ g[i].pkg = fr[i].pkg /\ g[i].imports = fr[i].imports /\ g[i].next = fr[i].next
             /\ i # n => g[i].out = fr[i].out
  <2>1. CASE i = n
      BY <2>1, <1>2, <1>3, <1>5, <1>7
  <2>2. CASE i # n
      BY <2>2, <1>2, <1>7
  <2> QED
      BY <2>1, <2>2
<1> QED
    BY <1>5, <1>7, <1>8, <1>9

\* Return to a caller: its list goes on with the one returned.
LEMMA ReturnInv ==
    ASSUME LoaderInv, Return, Len(frames) # 1
    PROVE  LoaderInv'
<1>1. /\ LoaderTypeOK /\ Phases /\ Once /\ Stack /\ NoneForgotten /\ OnlyNeeded /\ Ordered
      /\ status = "load" /\ tree \in Programs
    BY DEF LoaderInv, Return, LoaderTypeOK
<1>2. /\ tree' = tree /\ visited' = visited /\ types' = types /\ status' = status
      /\ UNCHANGED <<packages, registry, missing>>
    BY DEF Return
<1>3. PICK n \in Nat \ {0} : DOMAIN frames = 1 .. n + 1 /\ n + 1 = Len(frames)
  <2>1. Len(frames) \in Nat \ {0} /\ DOMAIN frames = 1 .. Len(frames)
      BY <1>1, TopFacts
  <2>2. Len(frames) - 1 \in Nat \ {0} /\ (Len(frames) - 1) + 1 = Len(frames)
      BY <2>1
  <2> QED
      BY <2>1, <2>2
<1>4. Top = frames[n + 1] /\ frames \in Seq(Frame) /\ frames # <<>>
    BY <1>1, <1>3, TopFacts DEF LoaderTypeOK
<1>5. frames[n + 1].pkg = Nothing /\ frames[n + 1].imports = <<>>
    BY <1>4 DEF Return
<1>6. n \in 1 .. n + 1 /\ n + 1 \in 1 .. n + 1 /\ (\A i \in 1 .. n : i \in 1 .. n + 1 /\ i # n + 1)
      /\ \A i \in 1 .. n + 1 : i \in 1 .. n \/ i = n + 1
    OBVIOUS
<1>7. PICK a \in Seq(Package), b \in Seq(Package) : a = frames[n].out /\ b = frames[n + 1].out
    BY <1>1, <1>3, <1>6, TopFacts
<1>8. PICK o \in Seq(Package) : o = a \o b
    BY ConcatFacts, Zenon
<1>9. frames' = [Front(frames) EXCEPT ![n].out = o]
  <2>1. frames' = [Front(frames) EXCEPT ![Len(frames) - 1].out = @ \o Top.out]
      BY <1>3, <1>4 DEF Return
  <2>2. Len(frames) - 1 = n
      BY <1>3
  <2>3. Front(frames)[n].out = a
    <3>1. Front(frames)[n] = frames[n]
        BY <1>3, <1>4 DEF Front
    <3> QED
        BY <3>1, <1>7
  <2> QED
      BY <2>1, <2>2, <2>3, <1>4, <1>7, <1>8
<1>10. /\ frames' \in Seq(Frame) /\ frames' # <<>> /\ Len(frames') = n /\ DOMAIN frames' = 1 .. n
       /\ \A i \in 1 .. n :
             /\ frames'[i].pkg = frames[i].pkg /\ frames'[i].imports = frames[i].imports
             /\ frames'[i].next = frames[i].next
             /\ i # n => frames'[i].out = frames[i].out
       /\ frames'[n].out = o
  <2>0. PICK fr \in Seq(Frame) : fr = frames
      BY <1>4
  <2>1. PICK g : fr = frames /\ g = frames'
      BY <2>0
  <2>2. Len(fr) = n + 1
      BY <2>1, <1>3
  <2>2a. g = Returned(fr, n, o)
      BY <2>1, <1>9 DEF Returned
  <2>3. /\ g \in Seq(Frame) /\ g # <<>> /\ Len(g) = n /\ DOMAIN g = 1 .. n
        /\ \A i \in 1 .. n :
              /\ g[i].pkg = fr[i].pkg /\ g[i].imports = fr[i].imports /\ g[i].next = fr[i].next
              /\ i # n => g[i].out = fr[i].out
        /\ g[n].out = o
      BY <2>2, <2>2a, ReturnFacts
  <2> QED
      BY <2>1, <2>3
<1>11. DOMAIN frames' = 1 .. n /\ Len(frames') = n
    BY <1>10
<1>12. \A i \in 1 .. n :
          /\ frames'[i].pkg = frames[i].pkg /\ frames'[i].imports = frames[i].imports
          /\ frames'[i].next = frames[i].next
    BY <1>10
<1>13. /\ \A p : Done(p)' <=> Done(p)
       /\ \A p, q : Precedes(Outs, q, p) => Precedes(Outs', q, p)
       /\ Distinct(Outs')
  <2>1. PICK L \in Seq(Seq(Package)) : /\ L = Outs /\ Len(L) = n + 1
                                       /\ \A i \in 1 .. n + 1 : L[i] = frames[i].out
      BY <1>1, <1>3, TopFacts
  <2>2. PICK M : M = Outs'
      OBVIOUS
  <2>3. M = [i \in 1 .. n |-> frames'[i].out]
      BY <2>2, <1>1, <1>2, <1>11 DEF Outs
  <2>4. DOMAIN M = 1 .. n /\ M[n] = L[n] \o L[n + 1] /\ \A i \in 1 .. n : i # n => M[i] = L[i]
    <3>1. DOMAIN M = 1 .. n /\ \A i \in 1 .. n : M[i] = frames'[i].out
        BY <2>3
    <3>2. L[n] = a /\ L[n + 1] = b
        BY <2>1, <1>6, <1>7
    <3>3. frames'[n].out = a \o b /\ n \in 1 .. n
        BY <1>8, <1>10
    <3>4. \A i \in 1 .. n : i # n => frames'[i].out = frames[i].out
        BY <1>10
    <3>5. M[n] = L[n] \o L[n + 1]
        BY <3>1, <3>2, <3>3, Zenon
    <3>6. \A i \in 1 .. n : L[i] = frames[i].out
        BY <2>1, \A i \in 1 .. n : i \in 1 .. n + 1
    <3>7. \A i \in 1 .. n : i # n => M[i] = L[i]
        BY <3>1, <3>4, <3>6, Zenon
    <3> QED
        BY <3>1, <3>5, <3>7, Zenon
  <2>5. Distinct(L)
      BY <2>1, <1>1 DEF Once
  <2> QED
      BY <2>1, <2>2, <2>4, <2>5, Merge, ZenonT(40) DEF Done
<1>14. \A p \in Package : Held(p)' <=> Held(p)
  <2> TAKE p \in Package
  <2>0. p # Nothing
      BY LoaderAssumption
  <2>1. ASSUME Held(p) PROVE Held(p)'
    <3>1. PICK i \in 1 .. n + 1 : frames[i].pkg = p
        BY <2>1, <1>3 DEF Held
    <3>2. i \in 1 .. n
        BY <3>1, <2>0, <1>5, <1>6
    <3> QED
        BY <3>1, <3>2, <1>11, <1>12 DEF Held
  <2>2. Held(p)' => Held(p)
      BY <1>3, <1>6, <1>11, <1>12 DEF Held
  <2> QED
      BY <2>1, <2>2
<1>15. \A i \in 0 .. n : Pending(i)' = Pending(i)
  <2> TAKE i \in 0 .. n
  <2>1. CASE i < n
    <3>1. i + 1 \in 1 .. n
        BY <2>1
    <3>2. frames'[i + 1].imports = frames[i + 1].imports
        BY <3>1, <1>12
    <3>3. i < Len(frames) /\ i < Len(frames')
        BY <2>1, <1>3, <1>11
    <3> QED
        BY <3>2, <3>3 DEF Pending
  <2>2. CASE i = n
    <3>1. i < Len(frames) /\ ~(i < Len(frames'))
        BY <2>2, <1>3, <1>11
    <3>2. ToSet(frames[i + 1].imports) = {}
        BY <2>2, <1>5 DEF ToSet
    <3> QED
        BY <3>1, <3>2 DEF Pending
  <2> QED
      BY <2>1, <2>2
<1>16. Once'
  <2>1. ASSUME NEW i \in DOMAIN frames', NEW k \in DOMAIN frames',
               frames'[i].pkg = frames'[k].pkg, frames'[i].pkg # Nothing
        PROVE  i = k
    <3>1. i \in 1 .. n /\ k \in 1 .. n /\ i \in DOMAIN frames /\ k \in DOMAIN frames
        BY <2>1, <1>3, <1>6, <1>11
    <3> QED
        BY <3>1, <2>1, <1>1, <1>12 DEF Once
  <2>2. \A p \in Package : Done(p)' => ~Held(p)'
      BY <1>1, <1>13, <1>14 DEF Once
  <2>3. \A p \in Package : p \in visited' <=> Done(p)' \/ Held(p)'
      BY <1>1, <1>2, <1>13, <1>14 DEF Once
  <2> QED
      BY <2>1, <2>2, <2>3, <1>13 DEF Once
<1>17. Stack'
  <2>1. \A i \in DOMAIN frames' : i < Len(frames') => frames'[i].pkg # Nothing
    <3> SUFFICES ASSUME NEW i \in DOMAIN frames', i < Len(frames') PROVE frames'[i].pkg # Nothing
        OBVIOUS
    <3>1. i \in 1 .. n /\ i \in DOMAIN frames /\ i < Len(frames)
        BY <1>3, <1>6, <1>11
    <3> QED
        BY <3>1, <1>1, <1>12 DEF Stack
  <2>2. ASSUME NEW i \in DOMAIN frames', NEW j \in DOMAIN frames', NEW p \in Package, NEW q \in Package,
               i < j, frames'[i].pkg = p, frames'[j].pkg = q \/ q \in ToSet(frames'[j].imports)
        PROVE  LeadsTo(p, q)'
    <3>1. i \in 1 .. n /\ j \in 1 .. n /\ i \in DOMAIN frames /\ j \in DOMAIN frames
        BY <1>3, <1>6, <1>11
    <3>2. frames[i].pkg = p
        BY <3>1, <2>2, <1>12
    <3>3. frames[j].pkg = q \/ q \in ToSet(frames[j].imports)
        BY <3>1, <2>2, <1>12
    <3>4. LeadsTo(p, q)
        BY <3>1, <3>2, <3>3, <2>2, <1>1 DEF Stack
    <3> QED
        BY <3>4, <1>2, SameGraph
  <2> QED
      BY <2>1, <2>2 DEF Stack
<1>18. NoneForgotten'
  <2>1. ToSet(tree.main)' \subseteq visited' \cup Pending(0)'
      BY <1>1, <1>2, <1>15 DEF NoneForgotten
  <2>2. ASSUME NEW i \in DOMAIN frames', NEW p \in Package, frames'[i].pkg = p,
               NEW k \in DOMAIN tree'.files[p], k < frames'[i].next
        PROVE  ToSet(LeadingImports(tree'.files[p][k])) \subseteq visited' \cup Pending(i)'
    <3>1. i \in 1 .. n /\ i \in 0 .. n /\ i \in DOMAIN frames
        BY <1>3, <1>6, <1>11
    <3>2. frames[i].pkg = p /\ k < frames[i].next
        BY <3>1, <2>2, <1>12
    <3>3. ToSet(LeadingImports(tree.files[p][k])) \subseteq visited \cup Pending(i)
        BY <3>1, <3>2, <2>2, <1>1, <1>2 DEF NoneForgotten
    <3> QED
        BY <3>1, <3>3, <1>2, <1>15
  <2>3. \A p \in Package : Done(p)' => Leading(p)' \subseteq visited'
      BY <1>1, <1>2, <1>13, SameGraph DEF NoneForgotten
  <2> QED
      BY <2>1, <2>2, <2>3 DEF NoneForgotten
<1>19. OnlyNeeded'
  <2>1. \A i \in DOMAIN frames' : ToSet(frames'[i].imports) \subseteq Needed'
      BY <1>1, <1>2, <1>3, <1>6, <1>11, <1>12, SameGraph DEF OnlyNeeded
  <2>2. visited' \subseteq Needed' /\ visited' \cap tree'.broken = {} /\ types' = visited'
      BY <1>1, <1>2, SameGraph DEF OnlyNeeded
  <2> QED
      BY <2>1, <2>2 DEF OnlyNeeded
<1>20. Ordered'
    BY <1>1, <1>2, <1>13, SameGraph DEF Ordered
<1>21. visited' \in SUBSET Package /\ types' = visited'
    BY <1>1, <1>2 DEF LoaderTypeOK, OnlyNeeded
<1> QED
    BY <1>1, <1>2, <1>10, <1>16, <1>17, <1>18, <1>19, <1>20, <1>21, LoadingInv

\* The outermost activation returns: its list is the result.
LEMMA LoadedInv ==
    ASSUME LoaderInv, Return, Len(frames) = 1
    PROVE  LoaderInv'
<1>1. /\ LoaderTypeOK /\ Phases /\ Once /\ Stack /\ NoneForgotten /\ OnlyNeeded /\ Ordered
      /\ status = "load" /\ tree \in Programs
    BY DEF LoaderInv, Return, LoaderTypeOK
<1>2. /\ tree' = tree /\ visited' = visited /\ types' = types /\ status' = "check"
      /\ registry' = registry /\ missing' = missing
      /\ packages' = Top.out /\ frames' = <<>>
    BY DEF Return
<1>3. /\ DOMAIN frames = {1} /\ Top = frames[1] /\ frames[1].out \in Seq(Package)
      /\ Top.pkg = Nothing /\ Top.imports = <<>>
    BY <1>1, TopFacts DEF Return
<1>4. packages = <<>> /\ registry = {} /\ missing = {}
    BY <1>1 DEF Phases
<1>5. DOMAIN frames' = {} /\ Len(frames') = 0
    BY <1>2
<1>6. Outs' = Outs
  <2>1. Outs = [i \in {1} |-> frames[1].out]
      BY <1>1, <1>3 DEF Outs
  <2>2. Outs' = <<frames[1].out>>
      BY <1>2, <1>3 DEF Outs
  <2> QED
      BY <2>1, <2>2
<1>7. \A p : Done(p)' <=> Done(p)
    BY <1>6 DEF Done
<1>8. \A p \in Package : ~Held(p) /\ ~Held(p)'
  <2> TAKE p \in Package
  <2>1. p # Nothing
      BY LoaderAssumption
  <2>2. ~Held(p)
      BY <2>1, <1>3 DEF Held
  <2> QED
      BY <2>2, <1>5 DEF Held
<1>9. LoaderTypeOK'
    BY <1>1, <1>2, <1>3 DEF LoaderTypeOK
<1>10. Phases'
    BY <1>2 DEF Phases
<1>11. Checked'
  <2>1. Cardinality({}) = 0
      BY FS_EmptySet
  <2>2. Len(packages') \in Nat
      BY <1>2, <1>3
  <2>3. {packages'[i] : i \in 1 .. 0} = {}
      OBVIOUS
  <2>4. 0 \in 0 .. Len(packages')
      BY <2>2
  <2>5. registry' = {}
      BY <1>2, <1>4
  <2> QED
      BY <2>1, <2>3, <2>4, <2>5 DEF Checked
<1>12. DependenciesFirst'
    BY <1>2, <1>4 DEF DependenciesFirst
<1>13. Once'
    BY <1>1, <1>2, <1>5, <1>6, <1>7, <1>8 DEF Once
<1>14. Stack'
    BY <1>5 DEF Stack
<1>15. NoneForgotten'
  <2>1. Pending(0) = {} /\ Pending(0)' = {}
    <3>1. 0 < Len(frames) /\ ~(0 < Len(frames'))
        BY <1>5
    <3>2. ToSet(frames[0 + 1].imports) = {}
        BY <1>3 DEF ToSet
    <3> QED
        BY <3>1, <3>2 DEF Pending
  <2>2. \A p \in Package : Done(p)' => Leading(p)' \subseteq visited'
      BY <1>1, <1>2, <1>7, SameGraph DEF NoneForgotten
  <2> QED
      BY <2>1, <2>2, <1>1, <1>2, <1>5 DEF NoneForgotten
<1>16. OnlyNeeded'
    BY <1>1, <1>2, <1>5, SameGraph DEF OnlyNeeded
<1>17. Ordered'
    BY <1>1, <1>2, <1>6, <1>7, SameGraph DEF Ordered
<1> QED
    BY <1>2, <1>9, <1>10, <1>11, <1>12, <1>13, <1>14, <1>15, <1>16, <1>17 DEF LoaderInv

\* The first packages of a list without repetitions are as many as they are.
LEMMA CountFirst ==
    ASSUME NEW s \in Seq(Package), NEW c \in 0 .. Len(s),
           \A i, j \in 1 .. Len(s) : s[i] = s[j] => i = j
    PROVE  Cardinality({s[i] : i \in 1 .. c}) = c
<1> DEFINE T == {s[i] : i \in 1 .. c}
           f == [i \in 1 .. c |-> s[i]]
<1>1. c \in Nat /\ \A i \in 1 .. c : i \in 1 .. Len(s)
    OBVIOUS
<1>2. f \in Bijection(1 .. c, T)
    BY <1>1 DEF Bijection, Injection, Surjection, IsInjective
<1>3. ExistsBijection(1 .. c, T)
    BY <1>2 DEF ExistsBijection
<1> QED
    BY <1>1, <1>3, FS_CountingElements

\* A package is in the list when it has a place in it.
LEMMA ListFacts ==
    ASSUME LoaderTypeOK, status \in {"check", "done"}, Once
    PROVE  /\ \A i, j \in 1 .. Len(packages) : packages[i] = packages[j] => i = j
           /\ \A p : Done(p) <=> \E i \in 1 .. Len(packages) : packages[i] = p
           /\ \A p, q : Precedes(Outs, q, p) =>
                 \E i, j \in 1 .. Len(packages) : packages[i] = q /\ packages[j] = p /\ i < j
<1>1. Outs = <<packages>> /\ DOMAIN packages = 1 .. Len(packages)
    BY DEF Outs, LoaderTypeOK
<1>2. DOMAIN Outs = {1} /\ Outs[1] = packages
    BY <1>1
<1>3. Distinct(Outs)
    BY DEF Once
<1>4. \A i, j \in 1 .. Len(packages) : packages[i] = packages[j] => i = j
    BY <1>1, <1>2, <1>3 DEF Distinct
<1>5. \A p : Done(p) <=> \E i \in 1 .. Len(packages) : packages[i] = p
    BY <1>1, <1>2 DEF Done, In
<1>6. \A p, q : Precedes(Outs, q, p) =>
         \E i, j \in 1 .. Len(packages) : packages[i] = q /\ packages[j] = p /\ i < j
    BY <1>1, <1>2 DEF Precedes
<1> QED
    BY <1>4, <1>5, <1>6

\* The imports of a package are packages.
LEMMA ImportsFacts ==
    ASSUME tree \in Programs, NEW p \in Package
    PROVE  Imports(p) \subseteq Package
<1> SUFFICES ASSUME NEW q \in Imports(p) PROVE q \in Package
    OBVIOUS
<1>1. PICK f \in ToSet(tree.files[p]) : q \in ToSet(LeadingImports(f)) \cup f.late
    BY DEF Imports
<1>2. PICK n \in DOMAIN tree.files[p] : f = tree.files[p][n]
    BY DEF ToSet
<1>3. f \in SourceFile /\ ToSet(LeadingImports(f)) \subseteq Package
    BY <1>2, FileFacts
<1>4. f.late \subseteq Package
    BY <1>3 DEF SourceFile
<1> QED
    BY <1>1, <1>3, <1>4

\* What was loaded does not depend on what a check changes.
LEMMA LoadedSame ==
    ASSUME LoaderInv, status # "failed",
           status' = status \/ (status \in {"check", "done"} /\ status' \in {"check", "done"}),
           UNCHANGED <<tree, frames, visited, types, packages>>
    PROVE  (Once /\ Stack /\ NoneForgotten /\ OnlyNeeded /\ Ordered)'
<1>1. Once /\ Stack /\ NoneForgotten /\ OnlyNeeded /\ Ordered
    BY DEF LoaderInv
<1>2. Outs' = Outs
    BY DEF Outs
<1>3. \A p : Done(p)' <=> Done(p)
    BY <1>2 DEF Done
<1>4. \A p : Held(p)' <=> Held(p)
    BY DEF Held
<1>5. \A i : Pending(i)' = Pending(i)
    BY DEF Pending
<1>6. Once'
    BY <1>1, <1>2, <1>3, <1>4 DEF Once
<1>7. Stack'
    BY <1>1, SameGraph DEF Stack
<1>8. NoneForgotten'
  <2>1. \A p \in Package : Done(p)' => Leading(p)' \subseteq visited'
      BY <1>1, <1>3, SameGraph DEF NoneForgotten
  <2> QED
      BY <2>1, <1>1, <1>5 DEF NoneForgotten
<1>9. OnlyNeeded'
    BY <1>1, SameGraph DEF OnlyNeeded
<1>10. Ordered'
    BY <1>1, <1>2, <1>3, SameGraph DEF Ordered
<1> QED
    BY <1>6, <1>7, <1>8, <1>9, <1>10

\* CheckPackage: what the package imports first thing and the registry does
\* not have comes later in the list, and so leads back to it.
LEMMA CheckPackageInv ==
    ASSUME LoaderInv, CheckPackage
    PROVE  LoaderInv'
<1>1. /\ LoaderTypeOK /\ Phases /\ Once /\ Ordered /\ Checked /\ DependenciesFirst
      /\ status = "check" /\ tree \in Programs
    BY DEF LoaderInv, CheckPackage, LoaderTypeOK
<1>2. UNCHANGED <<tree, frames, visited, types, packages, status>>
    BY DEF CheckPackage
<1>3. PICK c \in 0 .. Len(packages) : Cardinality(registry) = c /\ registry = {packages[i] : i \in 1 .. c}
    BY <1>1 DEF Checked
<1>4. packages \in Seq(Package) /\ Len(packages) \in Nat
    BY <1>1 DEF LoaderTypeOK
<1>5. c \in Nat /\ c + 1 \in 1 .. Len(packages) /\ c + 1 \in 0 .. Len(packages)
    BY <1>3, <1>4 DEF CheckPackage
<1>6. PICK p \in Package : p = packages[c + 1]
    BY <1>4, <1>5
<1>7. /\ missing' = missing \cup ({p} \X (Imports(p) \ registry))
      /\ registry' = registry \cup {p}
    BY <1>3, <1>6 DEF CheckPackage
<1>8. /\ \A i, j \in 1 .. Len(packages) : packages[i] = packages[j] => i = j
      /\ \A x : Done(x) <=> \E i \in 1 .. Len(packages) : packages[i] = x
      /\ \A x, q : Precedes(Outs, q, x) =>
            \E i, j \in 1 .. Len(packages) : packages[i] = q /\ packages[j] = x /\ i < j
    BY <1>1, ListFacts
<1>9. Imports(p) \subseteq Package
    BY <1>1, ImportsFacts
<1>10. LoaderTypeOK'
    BY <1>1, <1>2, <1>7, <1>9 DEF LoaderTypeOK
<1>11. Phases'
    BY <1>1, <1>2 DEF Phases
<1>12. Checked'
  <2>1. registry' = {packages[i] : i \in 1 .. c + 1}
    <3>1. \A i : i \in 1 .. c + 1 <=> i \in 1 .. c \/ i = c + 1
        BY <1>5
    <3>2. \A x : x \in {packages[i] : i \in 1 .. c + 1} <=> x \in {packages[i] : i \in 1 .. c} \/ x = packages[c + 1]
        BY <3>1
    <3> QED
        BY <3>2, <1>3, <1>6, <1>7
  <2>2. Cardinality({packages[i] : i \in 1 .. c + 1}) = c + 1
    <3>0. PICK s \in Seq(Package) : s = packages
        BY <1>4
    <3>1. PICK d \in 0 .. Len(s) : d = c + 1
        BY <3>0, <1>5
    <3>2. \A i, j \in 1 .. Len(s) : s[i] = s[j] => i = j
        BY <3>0, <1>8
    <3>3. Cardinality({s[i] : i \in 1 .. d}) = d
        BY <3>2, CountFirst
    <3> QED
        BY <3>0, <3>1, <3>3
  <2> QED
      BY <2>1, <2>2, <1>2, <1>5 DEF Checked
<1>13. ASSUME NEW q \in Package, q \in Leading(p), q \notin registry PROVE LeadsTo(q, p)
  <2>1. Done(p)
      BY <1>5, <1>6, <1>8
  <2>2. ASSUME Precedes(Outs, q, p) PROVE FALSE
    <3>1. PICK i \in 1 .. Len(packages), j \in 1 .. Len(packages) :
              packages[i] = q /\ packages[j] = p /\ i < j
        BY <2>2, <1>8
    <3>2. j = c + 1
        BY <3>1, <1>5, <1>6, <1>8
    <3>3. i \in 1 .. c
        BY <3>1, <3>2, <1>4, <1>5
    <3> QED
        BY <3>1, <3>3, <1>3, <1>13
  <2> QED
      BY <2>1, <2>2, <1>13, <1>1 DEF Ordered
<1>14. DependenciesFirst'
  <2> SUFFICES ASSUME NEW m \in missing', m[2] \in Leading(m[1])' PROVE LeadsTo(m[2], m[1])'
      BY DEF DependenciesFirst
  <2>1. m[2] \in Leading(m[1])
      BY <1>2, SameGraph
  <2>2. CASE m \in missing
      BY <2>1, <2>2, <1>1, <1>2, SameGraph DEF DependenciesFirst
  <2>3. CASE m \in {p} \X (Imports(p) \ registry)
    <3>1. m[1] = p /\ m[2] \in Package /\ m[2] \notin registry
        BY <2>3, <1>9
    <3>2. LeadsTo(m[2], m[1])
        BY <3>1, <2>1, <1>13
    <3> QED
        BY <3>2, <1>2, SameGraph
  <2> QED
      BY <2>2, <2>3, <1>7
<1>15. (Once /\ Stack /\ NoneForgotten /\ OnlyNeeded /\ Ordered)'
    BY <1>1, <1>2, LoadedSame
<1> QED
    BY <1>1, <1>2, <1>10, <1>11, <1>12, <1>14, <1>15 DEF LoaderInv

\* CheckMain ends the check.
LEMMA CheckMainInv ==
    ASSUME LoaderInv, CheckMain
    PROVE  LoaderInv'
<1>1. LoaderTypeOK /\ Phases /\ Checked /\ DependenciesFirst /\ status = "check"
    BY DEF LoaderInv, CheckMain
<1>2. /\ UNCHANGED <<tree, frames, visited, types, packages, registry, missing>> /\ status' = "done"
    BY DEF CheckMain
<1>3. (Once /\ Stack /\ NoneForgotten /\ OnlyNeeded /\ Ordered)'
    BY <1>1, <1>2, LoadedSame
<1>4. LoaderTypeOK' /\ Phases'
    BY <1>1, <1>2 DEF LoaderTypeOK, Phases
<1>4a. Checked'
    BY <1>1, <1>2, ZenonT(40) DEF Checked
<1>5. DependenciesFirst'
    BY <1>1, <1>2, SameGraph DEF DependenciesFirst
<1> QED
    BY <1>2, <1>3, <1>4, <1>4a, <1>5 DEF LoaderInv

\* A stuttering step changes nothing.
LEMMA StutterInv ==
    ASSUME LoaderInv, UNCHANGED vars
    PROVE  LoaderInv'
<1>1. UNCHANGED <<tree, frames, visited, types, packages, registry, missing, status>>
    BY DEF vars
<1>2. LoaderTypeOK' /\ Phases'
    BY <1>1 DEF LoaderInv, LoaderTypeOK, Phases
<1>3. Checked'
    BY <1>1, ZenonT(40) DEF LoaderInv, Checked
<1>4. DependenciesFirst'
    BY <1>1, SameGraph DEF LoaderInv, DependenciesFirst
<1>5. (status # "failed" => Once /\ Stack /\ NoneForgotten /\ OnlyNeeded /\ Ordered)'
    BY <1>1, LoadedSame
<1>6. (status = "failed" => Needed \cap tree.broken # {})'
    BY <1>1, SameGraph DEF LoaderInv
<1> QED
    BY <1>2, <1>3, <1>4, <1>5, <1>6 DEF LoaderInv

\* At the start the main program's imports are all that is pending.
LEMMA InitInv ==
    ASSUME Init
    PROVE  LoaderInv
<1>1. tree \in Programs /\ tree.main \in Seq(Package) /\ ToSet(tree.main) \subseteq Needed
    BY MainFacts, NeededFacts DEF Init
<1>2. PICK s \in Seq(Package) : s = tree.main
    BY <1>1
<1>3. PICK a \in Frame : a = Activation(s) /\ a.imports = s /\ a.pkg = Nothing /\ a.out = <<>>
  <2>0. <<>> \in Seq(Package)
      OBVIOUS
  <2>1. PICK e \in Seq(Package) : e = <<>>
      BY <2>0, Zenon
  <2>2. 1 \in Nat \ {0} /\ Nothing \in Package \cup {Nothing}
      OBVIOUS
  <2>3. [imports |-> s, pkg |-> Nothing, next |-> 1, out |-> e] \in Frame
      BY <2>2 DEF Frame
  <2> QED
      BY <2>1, <2>3 DEF Activation
<1>4. frames = <<a>> /\ visited = {} /\ types = {} /\ status = "load"
    BY <1>2, <1>3 DEF Init
<1>5. DOMAIN frames = {1} /\ Len(frames) = 1 /\ frames[1] = a /\ frames \in Seq(Frame) /\ frames # <<>>
    BY <1>4
<1>6. packages = <<>> /\ registry = {} /\ missing = {}
    BY DEF Init
<1>7. LoaderTypeOK
    BY <1>1, <1>4, <1>5, <1>6 DEF LoaderTypeOK
<1>8. Phases
    BY <1>4, <1>5, <1>6 DEF Phases
<1>9. Checked
  <2>1. Cardinality({}) = 0 /\ Len(<<>>) = 0
      BY FS_EmptySet
  <2>2. {packages[i] : i \in 1 .. 0} = {}
      OBVIOUS
  <2> QED
      BY <2>1, <2>2, <1>6 DEF Checked
<1>10. DOMAIN Outs = {1} /\ Outs[1] = <<>> /\ DOMAIN Outs[1] = {}
  <2>1. Outs = [i \in {1} |-> frames[i].out]
      BY <1>4, <1>5 DEF Outs
  <2> QED
      BY <2>1, <1>3, <1>5
<1>11. \A p : ~Done(p)
    BY <1>10 DEF Done, In
<1>12. \A p \in Package : ~Held(p)
    BY <1>3, <1>5, LoaderAssumption DEF Held
<1>13. Distinct(Outs)
    BY <1>10 DEF Distinct
<1>14. Once
    BY <1>4, <1>5, <1>11, <1>12, <1>13 DEF Once
<1>15. Stack
    BY <1>5 DEF Stack
<1>16. NoneForgotten
  <2>1. Pending(0) = ToSet(tree.main)
    <3>1. 0 < Len(frames) /\ frames[0 + 1].imports = s
        BY <1>3, <1>5
    <3> QED
        BY <3>1, <1>2 DEF Pending
  <2>2. \A i \in DOMAIN frames : \A p \in Package : frames[i].pkg # p
      BY <1>12 DEF Held
  <2> QED
      BY <2>1, <2>2, <1>11 DEF NoneForgotten
<1>17. OnlyNeeded
    BY <1>1, <1>2, <1>3, <1>4, <1>5 DEF OnlyNeeded
<1>18. Ordered
    BY <1>11 DEF Ordered
<1>19. DependenciesFirst
    BY <1>6 DEF DependenciesFirst
<1> QED
    BY <1>4, <1>7, <1>8, <1>9, <1>14, <1>15, <1>16, <1>17, <1>18, <1>19 DEF LoaderInv

-----------------------------------------------------------------------------
\* The theorems

\* In every state of the loader each visited package is in hand or in the
\* lists once, no import is forgotten, nothing is touched that is not needed,
\* and the lists are in the order of imports, cycles apart.
THEOREM LoaderInvariant == Spec => []LoaderInv
<1>1. ASSUME LoaderInv, [Next]_vars PROVE LoaderInv'
  <2>1. CASE Skip
      BY <1>1, <2>1, SkipInv
  <2>2. CASE LoadPackage
      BY <1>1, <2>2, LoadPackageInv, LoadBrokenInv
  <2>3. CASE LoadChild
      BY <1>1, <2>3, LoadChildInv
  <2>4. CASE Return
      BY <1>1, <2>4, ReturnInv, LoadedInv
  <2>5. CASE Finish
      BY <1>1, <2>5, FinishInv
  <2>6. CASE CheckPackage
      BY <1>1, <2>6, CheckPackageInv
  <2>7. CASE CheckMain
      BY <1>1, <2>7, CheckMainInv
  <2>8. CASE UNCHANGED vars
      BY <1>1, <2>8, StutterInv
  <2> QED
      BY <1>1, <2>1, <2>2, <2>3, <2>4, <2>5, <2>6, <2>7, <2>8 DEF Next
<1> QED
    BY InitInv, <1>1, PTL DEF Spec

\* What is visited when loading has succeeded is what is needed.
LEMMA AllVisited ==
    ASSUME LoaderInv, status \in {"check", "done"}
    PROVE  visited = Needed
<1>1. /\ LoaderTypeOK /\ Phases /\ Once /\ NoneForgotten /\ OnlyNeeded
    BY DEF LoaderInv
<1>2. frames = <<>>
    BY <1>1 DEF Phases
<1>3. \A p \in Package : ~Held(p)
    BY <1>2 DEF Held
<1>4. visited \subseteq Package
    BY <1>1 DEF LoaderTypeOK
<1>5. Closed(visited)
    BY <1>1, <1>3, <1>4 DEF Closed, Once, NoneForgotten
<1>6. Pending(0) = {}
    BY <1>2 DEF Pending
<1>7. ToSet(tree.main) \subseteq visited
    BY <1>1, <1>6 DEF NoneForgotten
<1>8. Needed \subseteq visited
    BY <1>1, <1>4, <1>5, <1>7, NeededFacts DEF LoaderTypeOK
<1> QED
    BY <1>1, <1>8 DEF OnlyNeeded

\* A program that Load accepts comes with every package it needs, once, and
\* no other, whatever the shape of its import graph (Load, loader.go).
THEOREM EveryPackageOnce == Spec => []LoadedExactly
<1>1. ASSUME LoaderInv PROVE LoadedExactly
  <2> SUFFICES ASSUME status \in {"check", "done"}
               PROVE  /\ ToSet(packages) = Needed /\ Len(packages) = Cardinality(Needed)
                      /\ types = Needed
      BY DEF LoadedExactly
  <2>1. LoaderTypeOK /\ Phases /\ Once /\ OnlyNeeded
      BY <1>1 DEF LoaderInv
  <2>2. visited = Needed
      BY <1>1, AllVisited
  <2>3. PICK s \in Seq(Package) : s = packages
      BY <2>1 DEF LoaderTypeOK
  <2>4. Len(s) \in 0 .. Len(s) /\ DOMAIN s = 1 .. Len(s)
      OBVIOUS
  <2>5. /\ \A i, j \in 1 .. Len(s) : s[i] = s[j] => i = j
        /\ \A p : Done(p) <=> \E i \in 1 .. Len(s) : s[i] = p
      BY <2>1, <2>3, ListFacts
  <2>6. \A p \in Package : ~Held(p)
    <3>1. frames = <<>>
        BY <2>1 DEF Phases
    <3> QED
        BY <3>1 DEF Held
  <2>7. \A p \in Package : p \in visited <=> \E i \in 1 .. Len(s) : s[i] = p
      BY <2>1, <2>5, <2>6 DEF Once
  <2>8. {s[i] : i \in 1 .. Len(s)} = visited
      BY <2>7, <2>1 DEF LoaderTypeOK
  <2>9. Cardinality({s[i] : i \in 1 .. Len(s)}) = Len(s)
      BY <2>4, <2>5, CountFirst
  <2>10. ToSet(s) = visited
      BY <2>4, <2>8 DEF ToSet
  <2> QED
      BY <2>1, <2>2, <2>3, <2>8, <2>9, <2>10 DEF OnlyNeeded
<1> QED
    BY <1>1, LoaderInvariant, PTL

\* checkPackages meets a package before one that it imports first thing only
\* when the two import each other, directly or through others.
THEOREM ChecksInImportOrder == Spec => []DependenciesFirst
<1>1. LoaderInv => DependenciesFirst
    BY DEF LoaderInv
<1> QED
    BY <1>1, LoaderInvariant, PTL

\* Load reports an error exactly when a package that the program needs
\* cannot be loaded; one that nobody imports does no harm.
THEOREM FailsWhenBroken == Spec => []BrokenReported
<1>1. ASSUME LoaderInv PROVE BrokenReported
  <2>1. ASSUME status \in {"check", "done"} PROVE Needed \cap tree.broken = {}
      BY <2>1, <1>1, AllVisited DEF LoaderInv, OnlyNeeded
  <2>2. ASSUME status = "failed" PROVE Needed \cap tree.broken # {}
      BY <2>2, <1>1 DEF LoaderInv
  <2> QED
      BY <2>1, <2>2 DEF BrokenReported
<1> QED
    BY <1>1, LoaderInvariant, PTL

================================================================================
