-------------------------------- MODULE GcProofs -------------------------------
(***************************************************************************)
(* Proofs about Gc: a program with one thread that keeps no heap pointers  *)
(* in maps and declares a global before it assigns it never follows a      *)
(* pointer to a freed block, for any heap, any threshold and any stale     *)
(* words in memory.  (GcShared adds such pointers, and the run on it shows *)
(* why the theorems stop here.)  With one thread and any order of          *)
(* declarations and assignments, marking is exact and ends, and the        *)
(* collector's count of allocated bytes is exact.                          *)
(***************************************************************************)
EXTENDS Gc, FiniteSetTheorems, TLAPS

\* The programs the theorems are about.
SingleThreaded == Thread = {Main}

--------------------------------------------------------------------------------
(* Types                                                                   *)

\* The end of gc_alloc keeps the types.
LEMMA GiveTypes ==
    ASSUME TypeOK, NEW t \in Thread, NEW n \in Nat, Give(t, n)
    PROVE  /\ allocated' \subseteq Obj /\ size' \in [Obj -> Nat]
           /\ words' \in [Obj -> SUBSET Obj] /\ junk' \in [Obj -> SUBSET Obj]
           /\ stack' \in [Thread -> SUBSET Obj] /\ bytes' \in Int
           /\ down' \in BOOLEAN
           /\ UNCHANGED <<globals, roots>>
<1>1. CASE UNCHANGED <<heapVars, stack>>
    BY <1>1 DEF Give, TypeOK, heapVars
<1>2. ASSUME NEW o \in Obj, Block(t, n, o)
      PROVE  /\ allocated' \subseteq Obj /\ size' \in [Obj -> Nat]
             /\ words' \in [Obj -> SUBSET Obj] /\ junk' \in [Obj -> SUBSET Obj]
             /\ stack' \in [Thread -> SUBSET Obj] /\ bytes' \in Int
    <2>1. allocated' \subseteq Obj /\ size' \in [Obj -> Nat] /\ bytes' \in Int
        BY <1>2 DEF Block, TypeOK
    <2>2. words' \in [Obj -> SUBSET Obj] /\ stack' \in [Thread -> SUBSET Obj]
        BY <1>2 DEF Block, TypeOK
    <2>3. junk' \in [Obj -> SUBSET Obj]
        BY <1>2 DEF Block, TypeOK, Stale
    <2> QED  BY <2>1, <2>2, <2>3
<1> QED  BY <1>1, <1>2 DEF Give

\* A step of a thread keeps the types.
LEMMA ThreadTypes ==
    ASSUME TypeOK, NEW t \in Thread, ThreadStep(t)
    PROVE  TypeOK'
<1>1. CASE Alloc(t)
    <2> PICK n \in Sizes : Give(t, n)
        BY <1>1 DEF Alloc
    <2>1. n \in Nat
        BY GcSizes
    <2> QED
        BY <1>1, <2>1, GiveTypes DEF Alloc, TypeOK, gcVars
<1>2. CASE Collect(t)
    <2>1. found' \subseteq Obj \cup {Null} /\ todo' = found'
        BY <1>2 DEF Collect, TypeOK
    <2>2. wanted' \in Nat
        BY <1>2, GcSizes DEF Collect
    <2> QED
        BY <1>2, <2>1, <2>2 DEF Collect, TypeOK, heapVars, rootVars
<1>3. ASSUME NEW o \in Obj, NEW p \in Obj, Store(t, o, p)
      PROVE  TypeOK'
    <2>1. words' \in [Obj -> SUBSET Obj] /\ junk' \in [Obj -> SUBSET Obj]
        BY <1>3 DEF Store, TypeOK
    <2> QED
        BY <1>3, <2>1 DEF Store, TypeOK, rootVars, gcVars
<1>4. ASSUME NEW o \in Obj, NEW p \in Obj, Load(t, o, p)
      PROVE  TypeOK'
    BY <1>4 DEF Load, TypeOK, heapVars, gcVars
<1>5. ASSUME NEW p \in Obj, Forget(t, p)
      PROVE  TypeOK'
    BY <1>5 DEF Forget, TypeOK, heapVars, gcVars
<1>6. ASSUME NEW g \in Global, LoadGlobal(t, g)
      PROVE  TypeOK'
    BY <1>6 DEF LoadGlobal, TypeOK, heapVars, gcVars
<1>7. ASSUME NEW g \in Global, NEW p \in Obj \cup {Null}, DeclareGlobal(t, g, p)
      PROVE  TypeOK'
    BY <1>7 DEF DeclareGlobal, TypeOK, heapVars, gcVars
<1>8. ASSUME NEW g \in Global, NEW p \in Obj \cup {Null}, AssignGlobal(t, g, p)
      PROVE  TypeOK'
    BY <1>8 DEF AssignGlobal, TypeOK, heapVars, gcVars
<1> QED
    BY <1>1, <1>2, <1>3, <1>4, <1>5, <1>6, <1>7, <1>8 DEF ThreadStep

\* A step of a collection keeps the types.
LEMMA CollectTypes ==
    ASSUME TypeOK, CollectStep \/ Shutdown
    PROVE  TypeOK'
<1>1. ASSUME NEW o \in Obj \cup {Null}, Mark(o)
      PROVE  TypeOK'
    <2>1. o \in allocated => words[o] \subseteq Obj /\ junk[o] \subseteq Obj /\ o \in Obj
        BY DEF TypeOK
    <2>2. marked' \subseteq Obj /\ todo' \subseteq Obj \cup {Null}
        BY <1>1, <2>1 DEF Mark, TypeOK
    <2> QED
        BY <1>1, <2>2 DEF Mark, TypeOK, heapVars, rootVars
<1>2. ASSUME NEW o \in Obj \cup {Null}, Sweep(o)
      PROVE  TypeOK'
    <2>1. marked' \subseteq Obj /\ unswept' \subseteq Obj /\ o \in Obj
        BY <1>2 DEF Sweep, TypeOK
    <2>2. CASE UNCHANGED heapVars
        BY <1>2, <2>1, <2>2 DEF Sweep, TypeOK, rootVars, heapVars
    <2>3. CASE Free(o) /\ bytes' = bytes - size[o]
        <3>1. /\ allocated' \subseteq Obj /\ size' \in [Obj -> Nat]
              /\ words' \in [Obj -> SUBSET Obj] /\ junk' \in [Obj -> SUBSET Obj]
            BY <2>3 DEF Free, TypeOK
        <3>2. bytes' \in Int
            BY <2>1, <2>3 DEF TypeOK
        <3> QED
            BY <1>2, <2>1, <3>1, <3>2 DEF Sweep, TypeOK, rootVars
    <2> QED  BY <1>2, <2>2, <2>3 DEF Sweep
<1>3. CASE MarkDone
    BY <1>3 DEF MarkDone, TypeOK, heapVars, rootVars
<1>4. CASE CollectDone
    <2>1. who \in Thread /\ wanted \in Nat
        BY DEF TypeOK
    <2> QED
        BY <1>4, <2>1, GiveTypes DEF CollectDone, TypeOK
<1>5. CASE Shutdown
    BY <1>5 DEF Shutdown, TypeOK, gcVars
<1> QED  BY <1>1, <1>2, <1>3, <1>4, <1>5 DEF CollectStep

\* The types hold at the start.
LEMMA GcTypeInit ==
    ASSUME Init
    PROVE  TypeOK
<1>1. /\ size \in [Obj -> Nat] /\ words \in [Obj -> SUBSET Obj]
      /\ junk \in [Obj -> SUBSET Obj] /\ globals \in [Global -> Obj \cup {Null}]
    BY DEF Init
<1>2. stack \in [Thread -> SUBSET Obj]
    BY DEF Init
<1>3. who \in Thread /\ wanted \in Nat /\ bytes \in Int
    BY GcThreads DEF Init
<1>4. down \in BOOLEAN
    BY Zenon DEF Init
<1> QED  BY <1>1, <1>2, <1>3, <1>4 DEF Init, TypeOK

(* The types of Gc, for any number of threads.                             *)
THEOREM GcTypeCorrect == Spec => []TypeOK
<1>1. Init => TypeOK
    BY GcTypeInit
<1>2. TypeOK /\ [Next]_vars => TypeOK'
    <2> SUFFICES ASSUME TypeOK, [Next]_vars
                 PROVE  TypeOK'
        OBVIOUS
    <2>1. CASE UNCHANGED vars
        BY <2>1 DEF vars, heapVars, rootVars, gcVars, TypeOK
    <2> QED
        BY <2>1, ThreadTypes, CollectTypes DEF Next, Finished
<1> QED  BY <1>1, <1>2, PTL DEF Spec

--------------------------------------------------------------------------------
(* What the program uses is on the stack of main or in a global.           *)

\* With one thread, what is used is its stack and the globals.
LEMMA UsedIs ==
    ASSUME SingleThreaded
    PROVE  /\ \A x : x \in Used <=>
                  x \in stack[Main] \/ \E g \in Global : x = globals[g] /\ x # Null
           /\ \A x : x \in Used' <=>
                  x \in stack'[Main] \/ \E g \in Global : x = globals'[g] /\ x # Null
<1>1. /\ UNION {stack[t] : t \in Thread} = stack[Main]
      /\ UNION {stack'[t] : t \in Thread} = stack'[Main]
    <2>1. {stack[t] : t \in Thread} = {stack[Main]} /\ {stack'[t] : t \in Thread} = {stack'[Main]}
        BY DEF SingleThreaded
    <2> QED  BY <2>1
<1>2. Used = stack[Main] \cup ({globals[g] : g \in Global} \ {Null})
    BY <1>1 DEF Used
<1>3. Used' = stack'[Main] \cup ({globals'[g] : g \in Global} \ {Null})
    BY <1>1 DEF Used
<1>4. ASSUME NEW x
      PROVE  /\ x \in {globals[g] : g \in Global} <=> \E g \in Global : x = globals[g]
             /\ x \in {globals'[g] : g \in Global} <=> \E g \in Global : x = globals'[g]
    OBVIOUS
<1>5. ASSUME NEW x
      PROVE  x \in Used <=> x \in stack[Main] \/ \E g \in Global : x = globals[g] /\ x # Null
    BY <1>2, <1>4
<1>6. ASSUME NEW x
      PROVE  x \in Used' <=> x \in stack'[Main] \/ \E g \in Global : x = globals'[g] /\ x # Null
    BY <1>3, <1>4
<1> QED  BY <1>5, <1>6

\* The invariant without its types.
Core == GcInv /\ TypeOK'

(* gc_alloc hands out a fresh block: nothing points to it, and it holds no *)
(* pointer the program stored.                                             *)
LEMMA GiveKeeps ==
    ASSUME SingleThreaded, GcInv, NEW t \in Thread, NEW n \in Nat, Give(t, n),
           ~down, phase \in {"idle", "sweep"},
           \A o \in allocated : words[o] \subseteq allocated
    PROVE  /\ ~down' => Used' \subseteq allocated'
           /\ ~down' => \A o \in allocated' : words'[o] \subseteq allocated'
<1>0. t = Main /\ TypeOK
    BY DEF SingleThreaded, GcInv
<1>1. globals' = globals
    BY DEF Give
<1>2. Used \subseteq allocated
    BY DEF GcInv, NoDangling
<1>3. CASE UNCHANGED <<heapVars, stack>>
    <2>1. Used' = Used
        BY <1>1, <1>3 DEF Used
    <2> QED  BY <1>2, <1>3, <2>1 DEF heapVars
<1>4. ASSUME NEW b \in Obj, Block(t, n, b)
      PROVE  /\ Used' \subseteq allocated'
             /\ \A o \in allocated' : words'[o] \subseteq allocated'
    <2>1. allocated' = allocated \cup {b} /\ b \notin allocated
        BY <1>4 DEF Block
    <2>2. stack'[Main] = stack[Main] \cup {b}
        BY <1>0, <1>4 DEF Block, TypeOK
    <2>3. words'[b] = {} /\ \A o \in Obj : o # b => words'[o] = words[o]
        BY <1>0, <1>4 DEF Block, TypeOK
    <2>4. Used' \subseteq Used \cup {b}
        <3> SUFFICES ASSUME NEW x \in Used' PROVE x \in Used \cup {b}
            OBVIOUS
        <3>1. x \in stack'[Main] \/ \E g \in Global : x = globals'[g] /\ x # Null
            BY UsedIs
        <3> QED  BY <3>1, <2>2, <1>1, UsedIs
    <2>5. Used' \subseteq allocated'
        BY <1>2, <2>1, <2>4
    <2>6. ASSUME NEW o \in allocated' PROVE words'[o] \subseteq allocated'
        BY <2>1, <2>3, <1>0 DEF TypeOK
    <2> QED  BY <2>5, <2>6
<1> QED  BY <1>3, <1>4 DEF Give

(* gc_alloc without a collection.                                          *)
LEMMA AllocKeeps ==
    ASSUME SingleThreaded, Core, NEW t \in Thread, Alloc(t)
    PROVE  GcInv'
<1> PICK n \in Sizes : Give(t, n)
    BY DEF Alloc
<1>1. ~down /\ phase = "idle" /\ n \in Nat
    BY GcSizes DEF Alloc, Runs
<1>2. \A o \in allocated : words[o] \subseteq allocated
    BY <1>1 DEF Core, GcInv, NoDangling
<1>3. /\ ~down' => Used' \subseteq allocated'
      /\ ~down' => \A o \in allocated' : words'[o] \subseteq allocated'
    BY <1>1, <1>2, GiveKeeps DEF Core
<1>4. UNCHANGED <<gcVars, globals, roots>>
    BY DEF Alloc, Give
<1>5. NoDangling'
    BY <1>3 DEF NoDangling
<1>6. phase' = "idle" /\ Unmarked'
    BY <1>1, <1>4 DEF gcVars, Unmarked, Core, GcInv
<1> QED
    BY <1>1, <1>4, <1>5, <1>6 DEF Core, GcInv, Marking, Sweeping

(* A collection starts from everything the program uses.                   *)
LEMMA CollectKeeps ==
    ASSUME SingleThreaded, Core, NEW t \in Thread, Collect(t)
    PROVE  GcInv'
<1>0. t = Main /\ TypeOK /\ ~down /\ phase = "idle" /\ phase' = "mark"
    BY DEF SingleThreaded, Core, GcInv, Collect, Runs
<1>1. UNCHANGED <<heapVars, rootVars, marked, unswept, down>> /\ marked = {} /\ unswept = {}
    BY <1>0 DEF Collect, Core, GcInv, Unmarked
<1>2. Used' = Used
    BY <1>1 DEF Used, rootVars
<1>3. Used \subseteq allocated
    BY <1>0 DEF Core, GcInv, NoDangling
<1>4. Used \subseteq todo'
    <2> SUFFICES ASSUME NEW x \in Used PROVE x \in todo'
        OBVIOUS
    <2>1. CASE x \in stack[Main]
        BY <1>0, <1>3, <2>1 DEF Collect
    <2>2. CASE \E g \in Global : x = globals[g] /\ x # Null
        <3>1. PICK g \in Global : x = globals[g] /\ x # Null
            BY <2>2
        <3>2. g \in roots
            BY <3>1, <1>0 DEF Core, GcInv
        <3> QED  BY <3>1, <3>2 DEF Collect
    <2> QED  BY <2>1, <2>2, UsedIs
<1>5. NoDangling'
    BY <1>0, <1>1, <1>2 DEF NoDangling, Core, GcInv, heapVars
<1>6. Marking'
    BY <1>1, <1>2, <1>4 DEF Marking
<1> QED
    BY <1>0, <1>1, <1>5, <1>6 DEF Core, GcInv, Unmarked, Sweeping, rootVars

(* One call of mark.                                                       *)
LEMMA MarkKeeps ==
    ASSUME SingleThreaded, Core, NEW o \in Obj \cup {Null}, Mark(o)
    PROVE  GcInv'
<1>0. phase = "mark" /\ phase' = "mark" /\ ~down /\ TypeOK
    BY DEF Mark, Core, GcInv
<1>1. UNCHANGED <<heapVars, rootVars, unswept, down>>
    BY DEF Mark
<1>2. Used' = Used /\ words' = words /\ allocated' = allocated
    BY <1>1 DEF Used, rootVars, heapVars
<1>3. /\ marked \subseteq allocated /\ Used \subseteq marked \cup todo
      /\ \A b \in marked : words[b] \subseteq marked \cup todo
      /\ unswept = {}
    BY <1>0 DEF Core, GcInv, Marking
<1>4. Used \subseteq allocated /\ \A b \in allocated : words[b] \subseteq allocated
    BY <1>0 DEF Core, GcInv, NoDangling
<1>5. /\ marked' \subseteq allocated /\ Used \subseteq marked' \cup todo'
      /\ \A b \in marked' : words[b] \subseteq marked' \cup todo'
    <2>1. CASE o \in allocated \ marked
        <3>1. marked' = marked \cup {o} /\ todo' = (todo \ {o}) \cup words[o] \cup junk[o]
            BY <2>1 DEF Mark
        <3> QED  BY <2>1, <3>1, <1>3
    <2>2. CASE o \notin allocated \ marked
        <3>1. marked' = marked /\ todo' = todo \ {o}
            BY <2>2 DEF Mark
        <3> QED  BY <2>2, <3>1, <1>3, <1>4
    <2> QED  BY <2>1, <2>2
<1>6. NoDangling'
    BY <1>0, <1>1, <1>2, <1>4 DEF NoDangling
<1>7. Marking'
    BY <1>1, <1>2, <1>3, <1>5 DEF Marking
<1> QED
    BY <1>0, <1>1, <1>6, <1>7 DEF Core, GcInv, Unmarked, Sweeping, rootVars

(* Marking is over: the marked blocks are closed under pointers.           *)
LEMMA MarkDoneKeeps ==
    ASSUME SingleThreaded, Core, MarkDone
    PROVE  GcInv'
<1>0. phase = "mark" /\ phase' = "sweep" /\ ~down /\ todo = {} /\ todo' = {}
    BY DEF MarkDone, Core, GcInv
<1>1. UNCHANGED <<heapVars, rootVars, marked, down>> /\ unswept' = allocated
    BY DEF MarkDone
<1>2. Used' = Used /\ words' = words /\ allocated' = allocated
    BY <1>1 DEF Used, rootVars, heapVars
<1>3. marked \subseteq allocated /\ Used \subseteq marked /\ \A b \in marked : words[b] \subseteq marked
    BY <1>0 DEF Core, GcInv, Marking
<1>4. Kept' = marked
    BY <1>1, <1>2 DEF Kept
<1>5. Sweeping'
    BY <1>0, <1>1, <1>2, <1>3, <1>4 DEF Sweeping
<1>6. NoDangling'
    BY <1>0, <1>2, <1>3 DEF NoDangling
<1> QED
    BY <1>0, <1>1, <1>5, <1>6 DEF Core, GcInv, Unmarked, Marking, rootVars

(* retain visits one allocation: the survivors stay the same.              *)
LEMMA SweepKeeps ==
    ASSUME SingleThreaded, Core, NEW o \in Obj \cup {Null}, Sweep(o)
    PROVE  GcInv'
<1>0. /\ phase = "sweep" /\ phase' = "sweep" /\ ~down /\ TypeOK
      /\ todo' = todo /\ o \in unswept /\ unswept' = unswept \ {o}
    BY DEF Sweep, Core, GcInv
<1>1. UNCHANGED <<rootVars, down>>
    BY DEF Sweep
<1>2. Used' = Used
    BY <1>1 DEF Used, rootVars
<1>3. /\ unswept \subseteq allocated /\ marked \subseteq unswept /\ todo = {}
      /\ Used \subseteq Kept /\ \A b \in Kept : words[b] \subseteq Kept
    BY <1>0 DEF Core, GcInv, Sweeping
<1>4. /\ Kept' = Kept /\ unswept' \subseteq allocated' /\ marked' \subseteq unswept'
      /\ \A b \in Kept : words'[b] = words[b]
    <2>1. CASE o \in marked
        <3>1. marked' = marked \ {o} /\ allocated' = allocated /\ words' = words
            BY <2>1 DEF Sweep, heapVars
        <3> QED  BY <2>1, <3>1, <1>0, <1>3 DEF Kept
    <2>2. CASE o \notin marked
        <3>1. /\ marked' = marked /\ allocated' = allocated \ {o}
              /\ words' = [words EXCEPT ![o] = {}]
            BY <2>2 DEF Sweep, Free
        <3>2. o \notin Kept
            BY <2>2, <1>0 DEF Kept
        <3>3. Kept' = Kept
            BY <3>1, <2>2, <1>0, <1>3 DEF Kept
        <3>4. Kept \subseteq Obj
            BY <1>0 DEF Kept, TypeOK
        <3>5. \A b \in Kept : words'[b] = words[b]
            BY <3>1, <3>2, <3>4, <1>0 DEF TypeOK
        <3> QED  BY <3>1, <3>3, <3>5, <2>2, <1>0, <1>3
    <2> QED  BY <2>1, <2>2
<1>5. Sweeping'
    BY <1>0, <1>2, <1>3, <1>4 DEF Sweeping
<1>6. Used' \subseteq allocated'
    <2>1. Kept' \subseteq allocated'
        BY <1>4 DEF Kept
    <2> QED  BY <2>1, <1>2, <1>3, <1>4
<1>7. NoDangling'
    BY <1>0, <1>6 DEF NoDangling
<1> QED
    BY <1>0, <1>1, <1>5, <1>7 DEF Core, GcInv, Unmarked, Marking, rootVars

(* The collection is over and gc_alloc goes on.                            *)
LEMMA CollectDoneKeeps ==
    ASSUME SingleThreaded, Core, CollectDone
    PROVE  GcInv'
<1>0. /\ phase = "sweep" /\ phase' = "idle" /\ ~down /\ unswept = {}
      /\ who \in Thread /\ wanted \in Nat /\ Give(who, wanted)
      /\ UNCHANGED <<marked, todo, unswept>>
    BY DEF CollectDone, Core, GcInv, TypeOK
<1>1. /\ marked = {} /\ todo = {} /\ Kept = allocated
      /\ \A o \in allocated : words[o] \subseteq allocated
    <2>1. marked = {} /\ todo = {}
        BY <1>0 DEF Core, GcInv, Sweeping
    <2>2. Kept = allocated
        BY <1>0, <2>1 DEF Kept
    <2>3. \A o \in Kept : words[o] \subseteq Kept
        BY <1>0 DEF Core, GcInv, Sweeping
    <2> QED  BY <2>1, <2>2, <2>3
<1>2. /\ ~down' => Used' \subseteq allocated'
      /\ ~down' => \A o \in allocated' : words'[o] \subseteq allocated'
    BY <1>0, <1>1, GiveKeeps DEF Core
<1>3. UNCHANGED <<globals, roots>>
    BY <1>0 DEF Give
<1>4. NoDangling'
    BY <1>2 DEF NoDangling
<1>5. Unmarked'
    BY <1>0, <1>1 DEF Unmarked
<1> QED
    BY <1>0, <1>3, <1>4, <1>5 DEF Core, GcInv, Marking, Sweeping

(* Steps of the program: what it holds afterwards, it held or could reach  *)
(* before.                                                                 *)
LEMMA ProgramKeeps ==
    ASSUME SingleThreaded, DeclaredFirst, Core, NEW t \in Thread,
           \/ \E o \in Obj, p \in Obj : Store(t, o, p) \/ Load(t, o, p)
           \/ \E p \in Obj : Forget(t, p)
           \/ \E g \in Global : LoadGlobal(t, g)
           \/ \E g \in Global, p \in Obj \cup {Null} : DeclareGlobal(t, g, p) \/ AssignGlobal(t, g, p)
    PROVE  GcInv'
<1>0. t = Main /\ TypeOK /\ stack \in [Thread -> SUBSET Obj]
    BY DEF SingleThreaded, Core, GcInv, TypeOK
<1>1. /\ ~down /\ phase = "idle"
      /\ UNCHANGED <<allocated, gcVars, down>>
    <2>1. ~down /\ UNCHANGED <<allocated, gcVars, down>>
        BY DEF Store, Load, Forget, LoadGlobal, DeclareGlobal, AssignGlobal,
               Runs, heapVars
    <2>2. Runs(t)
        BY DEF Store, Load, Forget, LoadGlobal, DeclareGlobal, AssignGlobal
    <2>3. who = Main
        BY <1>0 DEF TypeOK, SingleThreaded
    <2> QED  BY <2>1, <2>2, <2>3, <1>0 DEF Runs
<1>2. /\ Used \subseteq allocated
      /\ \A o \in allocated : words[o] \subseteq allocated
      /\ \A g \in Global : globals[g] # Null => g \in roots
    BY <1>1 DEF Core, GcInv, NoDangling
<1>3. /\ Used' \subseteq allocated
      /\ \A o \in allocated : words'[o] \subseteq allocated
      /\ \A g \in Global : globals'[g] # Null => g \in roots'
    <2>1. stack[Main] \subseteq allocated
        BY <1>2, UsedIs
    <2>2. ASSUME NEW o \in Obj, NEW p \in Obj, Store(t, o, p)
          PROVE  /\ Used' \subseteq allocated
                 /\ \A b \in allocated : words'[b] \subseteq allocated
                 /\ \A g \in Global : globals'[g] # Null => g \in roots'
        <3>1. UNCHANGED <<globals, roots, stack>>
            BY <2>2 DEF Store, rootVars
        <3>2. Used' = Used
            BY <3>1 DEF Used
        <3>3. p \in allocated /\ o \in allocated
            BY <2>1, <2>2, <1>0 DEF Store
        <3>4. \A b \in allocated : words'[b] \subseteq words[b] \cup {p}
            BY <2>2, <1>0 DEF Store, TypeOK
        <3>5. \A b \in allocated : words'[b] \subseteq allocated
            BY <3>3, <3>4, <1>2
        <3> QED  BY <1>2, <3>1, <3>2, <3>5
    <2>3. ASSUME UNCHANGED <<words, globals, roots>>,
                 stack'[Main] \subseteq allocated
          PROVE  /\ Used' \subseteq allocated
                 /\ \A b \in allocated : words'[b] \subseteq allocated
                 /\ \A g \in Global : globals'[g] # Null => g \in roots'
        <3>1. Used' \subseteq allocated
            <4> SUFFICES ASSUME NEW x \in Used' PROVE x \in allocated
                OBVIOUS
            <4>1. x \in stack'[Main] \/ \E g \in Global : x = globals'[g] /\ x # Null
                BY UsedIs
            <4>2. x \in stack'[Main] \/ x \in Used
                BY <4>1, <2>3, UsedIs
            <4> QED  BY <4>2, <2>3, <1>2
        <3> QED  BY <3>1, <2>3, <1>2
    <2>4. ASSUME NEW o \in Obj, NEW p \in Obj, Load(t, o, p)
          PROVE  stack'[Main] \subseteq allocated /\ UNCHANGED <<words, globals, roots>>
        <3>1. p \in allocated
            BY <2>1, <2>4, <1>0, <1>2 DEF Load
        <3> QED  BY <2>1, <2>4, <3>1, <1>0 DEF Load, heapVars
    <2>5. ASSUME NEW p \in Obj, Forget(t, p)
          PROVE  stack'[Main] \subseteq allocated /\ UNCHANGED <<words, globals, roots>>
        BY <2>1, <2>5, <1>0 DEF Forget, heapVars
    <2>6. ASSUME NEW g \in Global, LoadGlobal(t, g)
          PROVE  stack'[Main] \subseteq allocated /\ UNCHANGED <<words, globals, roots>>
        <3>1. globals[g] \in allocated
            BY <2>6, <1>2, UsedIs DEF LoadGlobal
        <3> QED  BY <2>1, <2>6, <3>1, <1>0 DEF LoadGlobal, heapVars
    <2>7. ASSUME NEW g \in Global, NEW p \in Obj \cup {Null},
                 DeclareGlobal(t, g, p) \/ AssignGlobal(t, g, p)
          PROVE  /\ Used' \subseteq allocated
                 /\ \A b \in allocated : words'[b] \subseteq allocated
                 /\ \A h \in Global : globals'[h] # Null => h \in roots'
        <3>1. UNCHANGED <<words, stack>> /\ roots' = roots \cup {g}
            BY <2>7 DEF DeclareGlobal, AssignGlobal, heapVars
        <3>2. globals'[g] = p /\ \A h \in Global : h # g => globals'[h] = globals[h]
            BY <2>7, <1>0 DEF DeclareGlobal, AssignGlobal, TypeOK
        <3>3. p = Null \/ p \in allocated
            BY <2>1, <2>7, <1>0 DEF DeclareGlobal, AssignGlobal
        <3>4. Used' \subseteq allocated
            <4> SUFFICES ASSUME NEW x \in Used' PROVE x \in allocated
                OBVIOUS
            <4>1. x \in stack'[Main] \/ \E h \in Global : x = globals'[h] /\ x # Null
                BY UsedIs
            <4>2. x \in stack[Main] \/ (x = p /\ x # Null) \/ x \in Used
                BY <4>1, <3>1, <3>2, UsedIs
            <4> QED  BY <4>2, <3>3, <2>1, <1>2
        <3> QED  BY <3>1, <3>2, <3>4, <1>2
    <2>8. CASE \E o \in Obj, p \in Obj : Store(t, o, p)
        BY <2>2, <2>8
    <2>9. CASE \E g \in Global, p \in Obj \cup {Null} : DeclareGlobal(t, g, p) \/ AssignGlobal(t, g, p)
        BY <2>7, <2>9
    <2>10. CASE stack'[Main] \subseteq allocated /\ UNCHANGED <<words, globals, roots>>
        BY <2>3, <2>10
    <2> QED
        BY <2>4, <2>5, <2>6, <2>8, <2>9, <2>10
<1>4. NoDangling'
    BY <1>1, <1>3 DEF NoDangling
<1>5. phase' = "idle" /\ Unmarked'
    BY <1>1 DEF gcVars, Unmarked, Core, GcInv
<1> QED
    BY <1>1, <1>3, <1>4, <1>5 DEF Core, GcInv, Marking, Sweeping

\* sydney_gc_shutdown.
LEMMA ShutdownKeeps ==
    ASSUME Core, Shutdown
    PROVE  GcInv'
<1>1. down' /\ phase = "idle" /\ UNCHANGED <<gcVars>>
    BY DEF Shutdown
<1>2. phase' = "idle" /\ Unmarked'
    BY <1>1 DEF gcVars, Unmarked, Core, GcInv
<1> QED
    BY <1>1, <1>2 DEF Core, GcInv, NoDangling, Marking, Sweeping

(* A program with one thread that keeps no heap pointers in maps and runs  *)
(* the declaration of a global before it assigns it never holds or finds a *)
(* pointer to a freed block, and every collection keeps exactly a set of   *)
(* blocks closed under pointers: gc_alloc, mark, scan_range, the sweep,    *)
(* emitVarDecl and emitVariableAssignment.  (Without the last condition    *)
(* the invariant is false of the code: an assignment registers no root.)   *)
THEOREM HeapSafe ==
    ASSUME SingleThreaded, DeclaredFirst
    PROVE  Spec => []GcInv
<1>1. Init => GcInv
    <2> SUFFICES ASSUME Init PROVE GcInv
        OBVIOUS
    <2>1. TypeOK
        BY GcTypeInit
    <2>2. Used = {}
        <3>1. \A x : x \notin Used
            BY UsedIs DEF Init, SingleThreaded
        <3> QED  BY <3>1
    <2> QED
        BY <2>1, <2>2 DEF Init, GcInv, NoDangling, Unmarked, Marking, Sweeping
<1>2. GcInv /\ TypeOK' /\ [Next]_vars => GcInv'
    <2> SUFFICES ASSUME Core, [Next]_vars
                 PROVE  GcInv'
        BY DEF Core
    <2>1. CASE UNCHANGED vars
        BY <2>1 DEF Core, GcInv, TypeOK, NoDangling, Unmarked, Marking, Sweeping, Used, Kept,
                    vars, heapVars, rootVars, gcVars
    <2>2. ASSUME NEW t \in Thread, ThreadStep(t)
          PROVE  GcInv'
        BY <2>2, AllocKeeps, CollectKeeps, ProgramKeeps DEF ThreadStep
    <2>3. CASE CollectStep
        BY <2>3, MarkKeeps, SweepKeeps, MarkDoneKeeps, CollectDoneKeeps DEF CollectStep
    <2>4. CASE Shutdown
        BY <2>4, ShutdownKeeps
    <2> QED  BY <2>1, <2>2, <2>3, <2>4 DEF Next, Finished
<1> QED  BY <1>1, <1>2, GcTypeCorrect, PTL DEF Spec

(* The same, for the part a program depends on.                            *)
COROLLARY NeverDangling ==
    ASSUME SingleThreaded, DeclaredFirst
    PROVE  Spec => []NoDangling
<1>1. GcInv => NoDangling
    BY DEF GcInv
<1> QED  BY <1>1, HeapSafe, PTL

(* Marking comes to an end: with finitely many blocks neither case of      *)
(* MarkProgress can happen for ever.                                       *)
THEOREM MarkingTerminates ==
    ASSUME SingleThreaded
    PROVE  Spec => MarkProgress
<1>1. ASSUME TypeOK, [Next]_vars, phase = "mark", phase' = "mark", ~UNCHANGED vars
      PROVE  /\ marked \subseteq marked'
             /\ marked' # marked \/ (todo' \subseteq todo /\ todo' # todo)
    <2>1. ASSUME NEW t \in Thread, ThreadStep(t)
          PROVE  FALSE
        <3>1. ~Runs(t)
            BY <1>1 DEF Runs, TypeOK, SingleThreaded
        <3> QED  BY <2>1, <3>1, <1>1 DEF ThreadStep, Alloc, Collect, Store, Load, Forget,
                    LoadGlobal, DeclareGlobal, AssignGlobal
    <2>2. PICK o \in Obj \cup {Null} : Mark(o)
        <3>1. CASE CollectStep
            BY <3>1, <1>1 DEF CollectStep, Sweep, MarkDone, CollectDone
        <3>2. ~Shutdown /\ ~Finished
            BY <1>1 DEF Shutdown, Finished
        <3> QED  BY <1>1, <2>1, <3>1, <3>2 DEF Next
    <2>3. CASE o \in allocated \ marked
        BY <2>2, <2>3 DEF Mark
    <2>4. CASE o \notin allocated \ marked
        BY <2>2, <2>4 DEF Mark
    <2> QED  BY <2>3, <2>4
<1>2. TypeOK /\ [Next]_vars =>
        [(phase = "mark" /\ phase' = "mark") =>
             /\ marked \subseteq marked'
             /\ marked' # marked \/ (todo' \subseteq todo /\ todo' # todo)]_vars
    BY <1>1
<1> QED  BY <1>2, GcTypeCorrect, PTL DEF Spec, MarkProgress

--------------------------------------------------------------------------------
(* What is marked is exactly what is reachable                             *)

\* While marking: nothing but reachable blocks is marked or to be visited, and
\* what the roots or a marked block point to is marked or to be visited.
MarkedSoFar ==
    phase = "mark" =>
        /\ marked \cup (todo \cap allocated) \subseteq Reachable
        /\ found \cap allocated \subseteq marked \cup todo
        /\ \A o \in marked : (words[o] \cup junk[o]) \cap allocated \subseteq marked \cup todo

\* What the phases keep of the collector's own state, whatever the roots are.
PhaseInv ==
    /\ Unmarked
    /\ phase = "mark" => marked \subseteq allocated
    /\ phase = "sweep" => marked \subseteq unswept /\ todo = {}

LEMMA PhaseKept ==
    ASSUME SingleThreaded, TypeOK, PhaseInv, [Next]_vars
    PROVE  PhaseInv'
<1>1. CASE UNCHANGED vars
    BY <1>1 DEF PhaseInv, Unmarked, vars, heapVars, gcVars
<1>2. ASSUME NEW t \in Thread, ThreadStep(t)
      PROVE  PhaseInv'
    <2>1. CASE Collect(t)
        BY <2>1 DEF Collect, PhaseInv, Unmarked, heapVars
    <2>2. CASE ~Collect(t)
        <3>1. Runs(t) /\ UNCHANGED gcVars
            BY <1>2, <2>2 DEF ThreadStep, Alloc, Store, Load, Forget, LoadGlobal,
                              DeclareGlobal, AssignGlobal
        <3>2. phase = "idle" /\ phase' = "idle"
            BY <3>1 DEF Runs, TypeOK, SingleThreaded, gcVars
        <3> QED  BY <3>1, <3>2 DEF PhaseInv, Unmarked, gcVars
    <2> QED  BY <2>1, <2>2
<1>3. ASSUME NEW o \in Obj \cup {Null}, Mark(o)
      PROVE  PhaseInv'
    BY <1>3 DEF Mark, PhaseInv, Unmarked, heapVars
<1>4. ASSUME NEW o \in Obj \cup {Null}, Sweep(o)
      PROVE  PhaseInv'
    BY <1>4 DEF Sweep, PhaseInv, Unmarked
<1>5. CASE MarkDone
    BY <1>5 DEF MarkDone, PhaseInv, Unmarked, heapVars
<1>6. CASE CollectDone
    BY <1>6 DEF CollectDone, PhaseInv, Unmarked
<1>7. CASE Shutdown
    BY <1>7 DEF Shutdown, PhaseInv, Unmarked, gcVars
<1> QED
    BY <1>1, <1>2, <1>3, <1>4, <1>5, <1>6, <1>7 DEF Next, CollectStep, Finished

\* The inductive invariant behind MarkExact.
ExactInv == MarkedSoFar /\ MarkExact

\* The reachable blocks are closed under what they hold.
LEMMA ReachableClosed == Closed(Reachable)
BY DEF Closed, Reachable

\* They are the least such set.
LEMMA ReachableLeast ==
    ASSUME NEW S \in SUBSET allocated, Closed(S)
    PROVE  Reachable \subseteq S
BY DEF Reachable

\* A step that leaves the heap and the roots of the collection alone leaves
\* what is reachable alone.
LEMMA SameReachable ==
    ASSUME UNCHANGED <<allocated, words, junk, found>>
    PROVE  Reachable' = Reachable
BY DEF Reachable, Closed

\* Freeing a block that is not reachable does not change what is.
LEMMA FreeReachable ==
    ASSUME TypeOK, NEW o \in Obj, o \notin Reachable, Free(o), found' = found
    PROVE  Reachable' = Reachable
<1> PICK R : R = Reachable
    OBVIOUS
<1>0. /\ R \subseteq allocated /\ o \notin R
      /\ found \cap allocated \subseteq R
      /\ \A q \in R : (words[q] \cup junk[q]) \cap allocated \subseteq R
    BY ReachableClosed DEF Closed, Reachable
<1>1. /\ allocated' = allocated \ {o}
      /\ \A q \in Obj : q # o => words'[q] = words[q] /\ junk'[q] = junk[q]
    BY DEF Free, TypeOK
<1>2. /\ R \subseteq allocated'
      /\ \A q \in R : words'[q] = words[q] /\ junk'[q] = junk[q]
    BY <1>0, <1>1 DEF TypeOK
<1>3. Closed(R)'
    BY <1>0, <1>1, <1>2 DEF Closed
<1>4. ASSUME NEW S \in SUBSET allocated', Closed(S)'
      PROVE  R \subseteq S
    <2> DEFINE T == S \cap R
    <2>1. T \in SUBSET allocated
        BY <1>0
    <2>2. found \cap allocated \subseteq T
        BY <1>0, <1>1, <1>4 DEF Closed
    <2>3. ASSUME NEW q \in T
          PROVE  (words[q] \cup junk[q]) \cap allocated \subseteq T
        <3>1. ((words[q] \cup junk[q]) \cap allocated)' \subseteq S
            BY <1>4 DEF Closed
        <3> QED  BY <3>1, <1>0, <1>1, <1>2
    <2>4. Closed(T)
        BY <2>2, <2>3 DEF Closed
    <2>5. Reachable \subseteq T
        BY <2>1, <2>4, ReachableLeast
    <2> QED  BY <2>5
<1>5. Reachable' \subseteq R
    BY <1>2, <1>3 DEF Reachable
<1>6. R \subseteq Reachable'
    BY <1>2, <1>4 DEF Reachable
<1> QED  BY <1>5, <1>6

\* A collection starts: the roots found are all there is to visit.
LEMMA CollectExact ==
    ASSUME PhaseInv, NEW t \in Thread, Collect(t)
    PROVE  ExactInv'
<1>1. /\ phase' = "mark" /\ marked' = {} /\ todo' = found'
      /\ allocated' = allocated
    BY DEF Collect, PhaseInv, Unmarked, heapVars
<1>2. (found \cap allocated \subseteq Reachable)'
    BY ReachableClosed, PTL DEF Closed
<1> QED
    BY <1>1, <1>2 DEF ExactInv, MarkedSoFar, MarkExact

\* mark visits an address.
LEMMA MarkKeepsExact ==
    ASSUME ExactInv, NEW o \in Obj \cup {Null}, Mark(o)
    PROVE  ExactInv'
<1>1. /\ phase = "mark" /\ phase' = "mark" /\ o \in todo
      /\ UNCHANGED <<allocated, words, junk, found>>
    BY DEF Mark, heapVars
<1>2. Reachable' = Reachable
    BY <1>1, SameReachable
<1>3. CASE o \in allocated \ marked
    <2>1. marked' = marked \cup {o} /\ todo' = (todo \ {o}) \cup words[o] \cup junk[o]
        BY <1>3 DEF Mark
    <2>2. o \in Reachable
        BY <1>1, <1>3 DEF ExactInv, MarkedSoFar
    <2>3. (words[o] \cup junk[o]) \cap allocated \subseteq Reachable
        BY <2>2, ReachableClosed DEF Closed
    <2> QED
        BY <1>1, <1>2, <2>1, <2>2, <2>3 DEF ExactInv, MarkedSoFar, MarkExact
<1>4. CASE o \notin allocated \ marked
    <2>1. marked' = marked /\ todo' = todo \ {o}
        BY <1>4 DEF Mark
    <2> QED
        BY <1>1, <1>2, <1>4, <2>1 DEF ExactInv, MarkedSoFar, MarkExact
<1> QED  BY <1>3, <1>4

\* Nothing is left to visit: the marked blocks are closed, so they are all
\* the reachable ones.
LEMMA MarkDoneKeepsExact ==
    ASSUME PhaseInv, ExactInv, MarkDone
    PROVE  ExactInv'
<1>1. /\ phase = "mark" /\ phase' = "sweep" /\ todo = {}
      /\ UNCHANGED <<allocated, words, junk, found, marked>>
    BY DEF MarkDone, heapVars
<1>2. marked \in SUBSET allocated /\ Closed(marked)
    BY <1>1 DEF ExactInv, MarkedSoFar, PhaseInv, Closed
<1>3. Reachable \subseteq marked
    BY <1>2, ReachableLeast
<1>4. marked \subseteq Reachable
    BY <1>1 DEF ExactInv, MarkedSoFar
<1>5. Reachable' = Reachable
    BY <1>1, SameReachable
<1> QED
    BY <1>1, <1>3, <1>4, <1>5 DEF ExactInv, MarkedSoFar, MarkExact

\* retain visits a block: one that it frees was not reachable.
LEMMA SweepKeepsExact ==
    ASSUME TypeOK, ExactInv, NEW o \in Obj \cup {Null}, Sweep(o)
    PROVE  ExactInv'
<1>1. /\ phase = "sweep" /\ phase' = "sweep" /\ o \in unswept
      /\ unswept' = unswept \ {o} /\ found' = found
    BY DEF Sweep
<1>2. o \in Obj
    BY <1>1 DEF TypeOK
<1>3. CASE o \in marked
    <2>1. marked' = marked \ {o} /\ UNCHANGED <<allocated, words, junk, found>>
        BY <1>3, <1>1 DEF Sweep, heapVars
    <2>2. Reachable' = Reachable
        BY <2>1, SameReachable
    <2> QED
        BY <1>1, <2>1, <2>2 DEF ExactInv, MarkedSoFar, MarkExact
<1>4. CASE o \notin marked
    <2>1. marked' = marked /\ Free(o)
        BY <1>4 DEF Sweep
    <2>2. o \notin Reachable
        BY <1>1, <1>4 DEF ExactInv, MarkExact
    <2>3. Reachable' = Reachable
        BY <1>1, <1>2, <2>1, <2>2, FreeReachable
    <2> QED
        BY <1>1, <2>1, <2>3 DEF ExactInv, MarkedSoFar, MarkExact
<1> QED  BY <1>3, <1>4

(* mark and scan_range find exactly the blocks that are reachable from the *)
(* roots of the collection, for every shape of the heap, cycles and stale  *)
(* words included: retain frees a block if and only if it is not           *)
(* reachable.                                                              *)
THEOREM MarkIsExact ==
    ASSUME SingleThreaded
    PROVE  Spec => []MarkExact
<1>1. Init => ExactInv
    BY DEF Init, ExactInv, MarkedSoFar, MarkExact
<1>2. TypeOK /\ PhaseInv /\ ExactInv /\ [Next]_vars => ExactInv'
    <2> SUFFICES ASSUME TypeOK, PhaseInv, ExactInv, [Next]_vars
                 PROVE  ExactInv'
        OBVIOUS
    <2>1. CASE UNCHANGED vars
        <3>1. UNCHANGED <<allocated, words, junk, found, phase, marked, todo, unswept>>
            BY <2>1 DEF vars, heapVars, gcVars
        <3>2. Reachable' = Reachable
            BY <3>1, SameReachable
        <3> QED  BY <3>1, <3>2 DEF ExactInv, MarkedSoFar, MarkExact
    <2>2. ASSUME NEW t \in Thread, ThreadStep(t)
          PROVE  ExactInv'
        <3>1. CASE Collect(t)
            BY <3>1, CollectExact
        <3>2. CASE ~Collect(t)
            <4>1. Runs(t) /\ phase' = phase
                BY <2>2, <3>2 DEF ThreadStep, Alloc, Store, Load, Forget, LoadGlobal,
                                  DeclareGlobal, AssignGlobal, gcVars
            <4>2. phase = "idle"
                BY <4>1 DEF Runs, TypeOK, SingleThreaded
            <4> QED  BY <4>1, <4>2 DEF ExactInv, MarkedSoFar, MarkExact
        <3> QED  BY <3>1, <3>2
    <2>3. CASE CollectStep
        <3>1. CASE CollectDone
            BY <3>1 DEF CollectDone, ExactInv, MarkedSoFar, MarkExact
        <3> QED
            BY <2>3, <3>1, MarkKeepsExact, SweepKeepsExact, MarkDoneKeepsExact DEF CollectStep
    <2>4. CASE Shutdown
        BY <2>4 DEF Shutdown, gcVars, ExactInv, MarkedSoFar, MarkExact
    <2> QED  BY <2>1, <2>2, <2>3, <2>4 DEF Next, Finished
<1>3. ExactInv => MarkExact
    BY DEF ExactInv
<1>4. Init => PhaseInv
    BY DEF Init, PhaseInv, Unmarked
<1>5. TypeOK /\ PhaseInv /\ [Next]_vars => PhaseInv'
    BY PhaseKept
<1> QED  BY <1>1, <1>2, <1>3, <1>4, <1>5, GcTypeCorrect, PTL DEF Spec

--------------------------------------------------------------------------------
(* The count of the memory in use                                          *)

\* A block of n words takes n words.
LEMMA OneBlock ==
    ASSUME NEW o, NEW n \in Nat
    PROVE  IsFiniteSet({o} \X (1 .. n)) /\ Cardinality({o} \X (1 .. n)) = n
<1>1. IsFiniteSet({o}) /\ Cardinality({o}) = 1
    BY FS_Singleton
<1>2. IsFiniteSet(1 .. n) /\ Cardinality(1 .. n) = n
    BY FS_Interval
<1>3. /\ IsFiniteSet({o} \X (1 .. n))
      /\ Cardinality({o} \X (1 .. n)) = Cardinality({o}) * Cardinality(1 .. n)
    BY <1>1, <1>2, FS_Product
<1> QED  BY <1>1, <1>2, <1>3

\* A word of memory belongs to one block.
LEMMA MemoryHas ==
    ASSUME NEW A, NEW f, NEW x
    PROVE  x \in Memory(A, f) <=> \E o \in A : x \in {o} \X (1 .. f[o])
BY DEF Memory

\* The memory depends on the sizes of the blocks in it only.
LEMMA MemorySame ==
    ASSUME NEW A, NEW f, NEW g, \A a \in A : g[a] = f[a]
    PROVE  Memory(A, g) = Memory(A, f)
<1>1. \A x : x \in Memory(A, g) <=> x \in Memory(A, f)
    BY MemoryHas
<1> QED  BY <1>1

\* One block more.
LEMMA AddBlock ==
    ASSUME NEW A, NEW f, NEW o, o \notin A, f[o] \in Nat, IsFiniteSet(Memory(A, f))
    PROVE  /\ IsFiniteSet(Memory(A \cup {o}, f))
           /\ Cardinality(Memory(A \cup {o}, f)) = Cardinality(Memory(A, f)) + f[o]
<1> DEFINE B == {o} \X (1 .. f[o])
           M == Memory(A, f)
<1>1. Memory(A \cup {o}, f) = M \cup B
    <2>1. \A x : x \in Memory(A \cup {o}, f) <=> x \in M \/ x \in B
        BY MemoryHas
    <2> QED  BY <2>1
<1>2. M \cap B = {}
    <2>1. \A x : x \in M => x \notin B
        BY MemoryHas
    <2> QED  BY <2>1
<1>3. IsFiniteSet(B) /\ Cardinality(B) = f[o]
    BY OneBlock
<1>4. Cardinality(M) \in Nat
    BY FS_CardinalityType
<1>5. /\ IsFiniteSet(M \cup B)
      /\ Cardinality(M \cup B) = Cardinality(M) + Cardinality(B) - Cardinality(M \cap B)
    BY <1>3, FS_Union
<1>6. Cardinality(M \cap B) = 0
    BY <1>2, FS_EmptySet
<1>7. Cardinality(M \cup B) = Cardinality(M) + f[o]
    <2> PICK a \in Nat, b \in Nat : a = Cardinality(M) /\ b = f[o]
        BY <1>4
    <2>1. Cardinality(M \cup B) = a + b - 0
        BY <1>3, <1>5, <1>6, Zenon
    <2>2. a + b - 0 = a + b
        OBVIOUS
    <2> QED  BY <2>1, <2>2, Zenon
<1> QED  BY <1>1, <1>5, <1>7, Zenon

\* One block less.
LEMMA RemoveBlock ==
    ASSUME NEW A, NEW f, NEW o \in A, f[o] \in Nat, IsFiniteSet(Memory(A, f))
    PROVE  /\ IsFiniteSet(Memory(A \ {o}, f))
           /\ Cardinality(Memory(A \ {o}, f)) = Cardinality(Memory(A, f)) - f[o]
<1> PICK C : C = A \ {o}
    OBVIOUS
<1>1. o \notin C /\ C \cup {o} = A
    OBVIOUS
<1>2. Memory(C, f) \in SUBSET Memory(A, f)
    BY <1>1, MemoryHas
<1>3. IsFiniteSet(Memory(C, f))
    BY <1>2, FS_Subset
<1>4. Cardinality(Memory(A, f)) = Cardinality(Memory(C, f)) + f[o]
    <2>0. o \notin C /\ f[o] \in Nat /\ IsFiniteSet(Memory(C, f))
        BY <1>1, <1>3
    <2>1. Cardinality(Memory(C \cup {o}, f)) = Cardinality(Memory(C, f)) + f[o]
        BY ONLY <2>0, AddBlock, Zenon
    <2> QED  BY <1>1, <2>1, Zenon
<1>5. Cardinality(Memory(C, f)) \in Nat
    BY <1>3, FS_CardinalityType
<1> QED  BY <1>3, <1>4, <1>5

\* The inductive invariant behind BytesExact: the memory in use is finite, and
\* retain only visits what is still allocated.
BytesInv ==
    /\ IsFiniteSet(Memory(allocated, size)) /\ BytesExact
    /\ phase = "sweep" => unswept \subseteq allocated

\* A step that leaves the allocations and their sizes alone.
LEMMA SameBytes ==
    ASSUME BytesInv, UNCHANGED <<allocated, size, bytes>>,
           phase' = "sweep" => unswept' \subseteq allocated
    PROVE  BytesInv'
BY DEF BytesInv, BytesExact

\* The end of gc_alloc.
LEMMA GiveBytes ==
    ASSUME TypeOK, BytesInv, NEW t \in Thread, NEW n \in Nat, Give(t, n), phase' = "idle"
    PROVE  BytesInv'
<1>1. CASE UNCHANGED <<heapVars, stack>>
    BY <1>1, SameBytes DEF heapVars
<1>2. ASSUME NEW o \in Obj, Block(t, n, o)
      PROVE  BytesInv'
    <2>1. /\ o \notin allocated /\ allocated' = allocated \cup {o} /\ bytes' = bytes + n
          /\ size'[o] = n /\ \A a \in allocated : size'[a] = size[a]
        BY <1>2 DEF Block, TypeOK
    <2>2. PICK f : f = size'
        OBVIOUS
    <2>3. Memory(allocated, f) = Memory(allocated, size)
        BY <2>1, <2>2, MemorySame
    <2>4. /\ IsFiniteSet(Memory(allocated \cup {o}, f))
          /\ Cardinality(Memory(allocated \cup {o}, f)) = Cardinality(Memory(allocated, size)) + n
        <3>1. o \notin allocated /\ f[o] = n /\ f[o] \in Nat /\ IsFiniteSet(Memory(allocated, f))
            BY <2>1, <2>2, <2>3 DEF BytesInv
        <3>2. /\ IsFiniteSet(Memory(allocated \cup {o}, f))
              /\ Cardinality(Memory(allocated \cup {o}, f)) = Cardinality(Memory(allocated, f)) + f[o]
            BY <3>1, AddBlock, Zenon
        <3> QED  BY <2>3, <3>1, <3>2, Zenon
    <2> QED  BY <2>1, <2>2, <2>4 DEF BytesInv, BytesExact
<1> QED  BY <1>1, <1>2 DEF Give

\* retain visits a block.
LEMMA SweepBytes ==
    ASSUME TypeOK, BytesInv, NEW o \in Obj \cup {Null}, Sweep(o)
    PROVE  BytesInv'
<1>1. /\ phase = "sweep" /\ o \in unswept /\ unswept' = unswept \ {o} /\ o \in allocated
      /\ unswept \subseteq allocated
    BY DEF Sweep, BytesInv
<1>2. CASE o \in marked
    BY <1>1, <1>2, SameBytes DEF Sweep, heapVars
<1>3. CASE o \notin marked
    <2>1. /\ allocated' = allocated \ {o} /\ bytes' = bytes - size[o]
          /\ \A a \in allocated' : size'[a] = size[a]
        BY <1>1, <1>3 DEF Sweep, Free, TypeOK
    <2>2. size[o] \in Nat
        BY <1>1 DEF TypeOK
    <2>3. /\ IsFiniteSet(Memory(allocated \ {o}, size))
          /\ Cardinality(Memory(allocated \ {o}, size)) = Cardinality(Memory(allocated, size)) - size[o]
        BY <1>1, <2>2, RemoveBlock DEF BytesInv
    <2>4. PICK f, A : f = size' /\ A = allocated'
        OBVIOUS
    <2>5. Memory(A, f) = Memory(A, size)
        BY <2>1, <2>4, MemorySame
    <2> QED  BY <1>1, <2>1, <2>3, <2>4, <2>5 DEF BytesInv, BytesExact
<1> QED  BY <1>2, <1>3

(* In a program with one thread bytes_allocated is exactly the memory of   *)
(* the allocations, in the middle of a sweep too; so it is never negative  *)
(* and the comparison with the threshold is one with the memory really in  *)
(* use (gc_alloc, the retain of gc_collect, shutdown).  With several       *)
(* threads the code promises nothing of the kind: bytes_allocated is a     *)
(* field of a static without a lock, and two updates may become one.       *)
THEOREM BytesAreExact ==
    ASSUME SingleThreaded
    PROVE  Spec => []BytesExact
<1>1. Init => BytesInv
    <2> SUFFICES ASSUME Init PROVE BytesInv
        OBVIOUS
    <2>1. Memory(allocated, size) = {}
        BY MemoryHas DEF Init
    <2> QED  BY <2>1, FS_EmptySet DEF Init, BytesInv, BytesExact
<1>2. TypeOK /\ BytesInv /\ [Next]_vars => BytesInv'
    <2> SUFFICES ASSUME TypeOK, BytesInv, [Next]_vars
                 PROVE  BytesInv'
        OBVIOUS
    <2>0. phase = "sweep" => unswept \subseteq allocated
        BY DEF BytesInv
    <2>1. CASE UNCHANGED vars
        BY <2>0, <2>1, SameBytes DEF vars, heapVars, gcVars
    <2>2. ASSUME NEW t \in Thread, ThreadStep(t)
          PROVE  BytesInv'
        <3>1. CASE Alloc(t)
            <4> PICK n \in Sizes : Give(t, n)
                BY <3>1 DEF Alloc
            <4>1. n \in Nat /\ phase' = "idle"
                BY <3>1, GcSizes DEF Alloc, gcVars
            <4> QED  BY <4>1, GiveBytes
        <3>2. CASE Collect(t)
            BY <3>2, SameBytes DEF Collect, heapVars
        <3>3. CASE ~Alloc(t) /\ ~Collect(t)
            <4>1. UNCHANGED <<allocated, size, bytes, phase, unswept>>
                BY <2>2, <3>3 DEF ThreadStep, Store, Load, Forget, LoadGlobal, DeclareGlobal,
                                  AssignGlobal, heapVars, gcVars
            <4> QED  BY <2>0, <4>1, SameBytes
        <3> QED  BY <3>1, <3>2, <3>3
    <2>3. CASE CollectStep
        <3>1. ASSUME NEW o \in Obj \cup {Null}, Mark(o)
              PROVE  BytesInv'
            BY <3>1, SameBytes DEF Mark, heapVars
        <3>2. CASE MarkDone
            BY <3>2, SameBytes DEF MarkDone, heapVars
        <3>3. CASE CollectDone
            BY <3>3, GiveBytes DEF CollectDone, TypeOK
        <3> QED  BY <2>3, <3>1, <3>2, <3>3, SweepBytes DEF CollectStep
    <2>4. CASE Shutdown
        <3>1. allocated' = {} /\ size' = size /\ bytes' = 0 /\ phase' = "idle"
            BY <2>4 DEF Shutdown, gcVars
        <3>2. Memory({}, size) = {}
            BY MemoryHas
        <3> QED  BY <3>1, <3>2, FS_EmptySet DEF BytesInv, BytesExact
    <2> QED  BY <2>1, <2>2, <2>3, <2>4 DEF Next, Finished
<1>3. BytesInv => BytesExact
    BY DEF BytesInv
<1> QED  BY <1>1, <1>2, <1>3, GcTypeCorrect, PTL DEF Spec
================================================================================
