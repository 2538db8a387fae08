---------------------------------- MODULE Gc -----------------------------------
(***************************************************************************)
(* The heap of compiled programs: sydney_rt/src/gc.rs (a conservative      *)
(* mark-and-sweep collector, run by gc_alloc once enough bytes are in      *)
(* use), and what the code emitted by irgen/emitter.go does with heap      *)
(* pointers.  GcShared adds pointers that reach other threads and maps.    *)
(*                                                                         *)
(* An object is the address of a block; a freed address may be handed out  *)
(* again.  Sizes are counted in words.  A block holds the pointers the     *)
(* program stored in it and, in slots it has not written yet, whatever     *)
(* was in the memory before, because alloc does not clear it.  The stack   *)
(* of a thread is the set of pointers the thread still uses; the scan of   *)
(* the stack also sees stale ones.                                         *)
(***************************************************************************)
EXTENDS Integers, FiniteSets

CONSTANTS Obj,          \* block addresses
          Global,       \* global variables
          Thread,       \* threads of the program
          Main,         \* the main thread
          Sizes,        \* sizes asked for, in words; 0 gives a null pointer
          Threshold,    \* gc.threshold, in words
          MaxStale,     \* bound on the stale addresses on a stack or in a new block
          DeclaredFirst \* only programs that declare a global before they assign it

ASSUME GcThreads == Main \in Thread
ASSUME GcSizes == Sizes \subseteq Nat /\ Threshold \in Nat
ASSUME GcStale == MaxStale \in Nat
ASSUME GcPrograms == DeclaredFirst \in BOOLEAN

Null == "null"
ASSUME NullIsNoObject == Null \notin Obj

VARIABLES
    allocated,  \* the keys of gc.allocations
    size,       \* alloc.size
    marked,     \* the allocations with alloc.marked
    words,      \* words[o]: the pointers the program stored in o
    junk,       \* junk[o]: addresses found in the unwritten slots of o
    globals,    \* the values of the global variables
    roots,      \* gc.global_roots
    stack,      \* stack[t]: the pointers t uses
    bytes,      \* gc.bytes_allocated
    phase,      \* where the collection is
    who,        \* the thread that collects
    wanted,     \* the size it is going to allocate
    todo,       \* addresses mark is going to be called with
    found,      \* the roots this collection started from
    unswept,    \* allocations retain has not visited yet
    down        \* sydney_gc_shutdown ran, or the process panicked

heapVars == <<allocated, size, words, junk, bytes>>
rootVars == <<globals, roots, stack>>
gcVars   == <<marked, phase, who, wanted, todo, found, unswept>>
vars     == <<heapVars, rootVars, gcVars, down>>

Init ==
    /\ allocated = {} /\ marked = {} /\ todo = {} /\ unswept = {} /\ found = {}
    /\ size = [o \in Obj |-> 0]
    /\ words = [o \in Obj |-> {}]
    /\ junk = [o \in Obj |-> {}]
    /\ globals = [g \in Global |-> Null]
    /\ roots = {}
    /\ stack = [t \in Thread |-> {}]
    /\ bytes = 0
    /\ phase = "idle"
    /\ who = Main
    /\ wanted = 0
    /\ down = FALSE

\* Addresses that happen to be in memory the program does not use.
Stale == {S \in SUBSET Obj : Cardinality(S) <= MaxStale}

\* A thread that is not inside gc_alloc.
Runs(t) == ~down /\ (phase = "idle" \/ who # t)

--------------------------------------------------------------------------------
(* sydney_gc_alloc                                                         *)

\* A block of n > 0 words, with what its memory held before.
Block(t, n, o) ==
    /\ o \notin allocated
    /\ allocated' = allocated \cup {o}
    /\ size' = [size EXCEPT ![o] = n]
    /\ words' = [words EXCEPT ![o] = {}]
    /\ \E old \in Stale : junk' = [junk EXCEPT ![o] = old]
    /\ stack' = [stack EXCEPT ![t] = @ \cup {o}]
    /\ bytes' = bytes + n

\* The part of gc_alloc after the collection; out of memory is a panic.  It is
\* one step: with several threads the updates of GC, which has no lock, may
\* also be lost.
Give(t, n) ==
    /\ \/ n = 0 /\ UNCHANGED <<heapVars, stack>>
       \/ n > 0 /\ \E o \in Obj : Block(t, n, o)
       \/ n > 0 /\ allocated = Obj /\ UNCHANGED <<heapVars, stack>>
    /\ down' = (n > 0 /\ allocated = Obj)
    /\ UNCHANGED <<globals, roots>>

Alloc(t) ==
    /\ Runs(t) /\ phase = "idle"
    /\ bytes < Threshold
    /\ \E n \in Sizes : Give(t, n)
    /\ UNCHANGED gcVars

\* Mutant: the global roots are forgotten.
MutCollect(t) ==
    /\ Runs(t) /\ phase = "idle"
    /\ bytes >= Threshold
    /\ phase' = "mark"
    /\ who' = t
    /\ \E n \in Sizes : wanted' = n
    /\ \E stale \in Stale : found' = allocated \cap (stack[t] \cup stale)
    /\ todo' = found'
    /\ UNCHANGED <<heapVars, rootVars, marked, unswept, down>>

\* gc_alloc calls gc_collect: the roots are the words on the stack of this
\* thread that are allocations, and the values of the registered globals.
Collect(t) ==
    /\ Runs(t) /\ phase = "idle"
    /\ bytes >= Threshold
    /\ phase' = "mark"
    /\ who' = t
    /\ \E n \in Sizes : wanted' = n
    /\ \E stale \in Stale :
          found' = (allocated \cap (stack[t] \cup stale)) \cup {globals[g] : g \in roots}
    /\ todo' = found'
    /\ UNCHANGED <<heapVars, rootVars, marked, unswept, down>>

--------------------------------------------------------------------------------
(* sydney_gc_collect                                                       *)

\* Mutant: the words of the block are not scanned.
MutMark(o) ==
    /\ phase = "mark" /\ o \in todo
    /\ IF o \in allocated \ marked
       THEN marked' = marked \cup {o} /\ todo' = todo \ {o}
       ELSE todo' = todo \ {o} /\ UNCHANGED marked
    /\ UNCHANGED <<heapVars, rootVars, phase, who, wanted, found, unswept, down>>

\* Mutant: a marked block is scanned again.
MutMarkAgain(o) ==
    /\ phase = "mark" /\ o \in todo
    /\ IF o \in allocated
       THEN marked' = marked \cup {o} /\ todo' = (todo \ {o}) \cup words[o] \cup junk[o]
       ELSE todo' = todo \ {o} /\ UNCHANGED marked
    /\ UNCHANGED <<heapVars, rootVars, phase, who, wanted, found, unswept, down>>

\* mark and scan_range, one call of mark at a time: an address that is no
\* allocation, or is marked already, is skipped.
Mark(o) ==
    /\ phase = "mark" /\ o \in todo
    /\ IF o \in allocated \ marked
       THEN marked' = marked \cup {o} /\ todo' = (todo \ {o}) \cup words[o] \cup junk[o]
       ELSE todo' = todo \ {o} /\ UNCHANGED marked
    /\ UNCHANGED <<heapVars, rootVars, phase, who, wanted, found, unswept, down>>

MarkDone ==
    /\ phase = "mark" /\ todo = {}
    /\ phase' = "sweep"
    /\ unswept' = allocated
    /\ UNCHANGED <<heapVars, rootVars, marked, who, wanted, todo, found, down>>

\* dealloc: what the block holds does not matter any more.
Free(o) ==
    /\ allocated' = allocated \ {o}
    /\ size' = [size EXCEPT ![o] = 0]
    /\ words' = [words EXCEPT ![o] = {}]
    /\ junk' = [junk EXCEPT ![o] = {}]

\* Mutant: the mark is left on a block that survives.
MutSweep(o) ==
    /\ phase = "sweep" /\ o \in unswept
    /\ unswept' = unswept \ {o}
    /\ IF o \in marked
       THEN UNCHANGED <<marked, heapVars>>
       ELSE Free(o) /\ bytes' = bytes - size[o] /\ UNCHANGED marked
    /\ UNCHANGED <<rootVars, phase, who, wanted, todo, found, down>>

\* Mutant: a freed block stays in bytes_allocated.
MutSweepBytes(o) ==
    /\ phase = "sweep" /\ o \in unswept
    /\ unswept' = unswept \ {o}
    /\ IF o \in marked
       THEN marked' = marked \ {o} /\ UNCHANGED heapVars
       ELSE Free(o) /\ UNCHANGED <<marked, bytes>>
    /\ UNCHANGED <<rootVars, phase, who, wanted, todo, found, down>>

\* retain visits one allocation: it is unmarked, or freed.
Sweep(o) ==
    /\ phase = "sweep" /\ o \in unswept
    /\ unswept' = unswept \ {o}
    /\ IF o \in marked
       THEN marked' = marked \ {o} /\ UNCHANGED heapVars
       ELSE Free(o) /\ bytes' = bytes - size[o] /\ UNCHANGED marked
    /\ UNCHANGED <<rootVars, phase, who, wanted, todo, found, down>>

\* gc_collect returns and gc_alloc goes on.
CollectDone ==
    /\ phase = "sweep" /\ unswept = {}
    /\ phase' = "idle"
    /\ Give(who, wanted)
    /\ found' = {} /\ wanted' = 0
    /\ UNCHANGED <<marked, who, todo, unswept>>

CollectStep == (\E o \in Obj \cup {Null} : Mark(o) \/ Sweep(o)) \/ MarkDone \/ CollectDone

--------------------------------------------------------------------------------
(* The program.                                                            *)

\* A pointer is stored in a block, where it may replace another one or the
\* last of the unwritten slots.
Store(t, o, p) ==
    /\ Runs(t)
    /\ {o, p} \subseteq stack[t]
    /\ \E w \in SUBSET words[o], j \in {junk[o], {}} :
          /\ w \cup {p} \in {W \in SUBSET Obj : Cardinality(W) <= size[o]}
          /\ words' = [words EXCEPT ![o] = w \cup {p}]
          /\ junk' = [junk EXCEPT ![o] = j]
    /\ UNCHANGED <<allocated, size, bytes, rootVars, gcVars, down>>

Load(t, o, p) ==
    /\ Runs(t)
    /\ o \in stack[t] /\ p \in words[o]
    /\ stack' = [stack EXCEPT ![t] = @ \cup {p}]
    /\ UNCHANGED <<heapVars, globals, roots, gcVars, down>>

\* A pointer goes out of use.
Forget(t, p) ==
    /\ Runs(t)
    /\ p \in stack[t]
    /\ stack' = [stack EXCEPT ![t] = @ \ {p}]
    /\ UNCHANGED <<heapVars, globals, roots, gcVars, down>>

\* emitVarDecl of a global: the value, or the zero value, is stored, then the
\* root registered.
DeclareGlobal(t, g, p) ==
    /\ Runs(t)
    /\ p \in stack[t] \cup {Null}
    /\ globals' = [globals EXCEPT ![g] = p]
    /\ roots' = roots \cup {g}
    /\ UNCHANGED <<heapVars, stack, gcVars, down>>

\* emitVariableAssignment of a global: no root is registered.  A function, which
\* is hoisted, may assign a global whose declaration did not run yet; with
\* DeclaredFirst such programs are left out.
AssignGlobal(t, g, p) ==
    /\ Runs(t)
    /\ DeclaredFirst => g \in roots
    /\ p \in stack[t] \cup {Null}
    /\ globals' = [globals EXCEPT ![g] = p]
    /\ UNCHANGED <<heapVars, stack, roots, gcVars, down>>

LoadGlobal(t, g) ==
    /\ Runs(t)
    /\ globals[g] # Null
    /\ stack' = [stack EXCEPT ![t] = @ \cup {globals[g]}]
    /\ UNCHANGED <<heapVars, globals, roots, gcVars, down>>

\* After sydney_join_all only main is left.
Shutdown ==
    /\ Runs(Main) /\ phase = "idle"
    /\ \A t \in Thread \ {Main} : stack[t] = {}
    /\ down' = TRUE
    /\ allocated' = {} /\ bytes' = 0
    /\ roots' = {}
    /\ UNCHANGED <<size, words, junk, globals, stack, gcVars>>

ThreadStep(t) ==
    \/ Alloc(t) \/ Collect(t)
    \/ \E o \in Obj, p \in Obj : Store(t, o, p) \/ Load(t, o, p)
    \/ \E p \in Obj : Forget(t, p)
    \/ \E g \in Global : LoadGlobal(t, g)
    \/ \E g \in Global, p \in Obj \cup {Null} : DeclareGlobal(t, g, p) \/ AssignGlobal(t, g, p)

Finished == down /\ UNCHANGED vars

Next == (\E t \in Thread : ThreadStep(t)) \/ CollectStep \/ Shutdown \/ Finished

Spec == Init /\ [][Next]_vars

--------------------------------------------------------------------------------
(* Properties                                                              *)

(* The types of the variables.                                             *)
TypeOK ==
    /\ allocated \subseteq Obj /\ marked \subseteq Obj /\ unswept \subseteq Obj
    /\ todo \subseteq Obj \cup {Null} /\ found \subseteq Obj \cup {Null}
    /\ size \in [Obj -> Nat]
    /\ words \in [Obj -> SUBSET Obj] /\ junk \in [Obj -> SUBSET Obj]
    /\ globals \in [Global -> Obj \cup {Null}]
    /\ roots \subseteq Global
    /\ stack \in [Thread -> SUBSET Obj]
    /\ bytes \in Int
    /\ phase \in {"idle", "mark", "sweep"}
    /\ who \in Thread /\ wanted \in Nat
    /\ down \in BOOLEAN

\* What the program may still follow, from its stacks and its globals.
Used == (UNION {stack[t] : t \in Thread}) \cup ({globals[g] : g \in Global} \ {Null})

(* A pointer the program holds, or finds in a block it holds, is never one *)
(* to a block that was freed.  (While retain runs, dead blocks may point   *)
(* to freed ones.)  The code keeps this for programs with DeclaredFirst    *)
(* only: an assignment does not register its global.  (gc_collect,         *)
(* emitVarDecl, emitVariableAssignment)                                    *)
NoDangling ==
    ~down =>
        /\ Used \subseteq allocated
        /\ phase # "sweep" => \A o \in allocated : words[o] \subseteq allocated

\* Blocks that survive this collection.
Kept == marked \cup (allocated \ unswept)

\* Between collections nothing is marked: a left-over mark would make the next
\* mark skip the block and free what only it points to.
Unmarked ==
    phase = "idle" => marked = {} /\ todo = {} /\ unswept = {}

\* While marking, what is used or pointed to by a marked block is marked or
\* still to be visited.
Marking ==
    phase = "mark" =>
        /\ marked \subseteq allocated /\ unswept = {}
        /\ Used \subseteq marked \cup todo
        /\ \A o \in marked : words[o] \subseteq marked \cup todo

\* While sweeping, the survivors are closed under pointers.
Sweeping ==
    phase = "sweep" =>
        /\ unswept \subseteq allocated /\ marked \subseteq unswept /\ todo = {}
        /\ Used \subseteq Kept
        /\ \A o \in Kept : words[o] \subseteq Kept

(* The inductive invariant behind NoDangling, for a program with one       *)
(* thread that declares a global before it assigns it: what a global       *)
(* points to is found from the roots.  (mark, retain, emitVarDecl)         *)
GcInv ==
    /\ TypeOK
    /\ NoDangling /\ Unmarked /\ Marking /\ Sweeping
    /\ down => phase = "idle"
    /\ ~down => \A g \in Global : globals[g] # Null => g \in roots

\* Reference: the smallest set that holds the roots and is closed under the
\* words of its blocks.
Closed(S) == found \cap allocated \subseteq S
             /\ \A o \in S : (words[o] \cup junk[o]) \cap allocated \subseteq S
Reachable == {o \in allocated : \A S \in SUBSET allocated : Closed(S) => o \in S}

(* The recursion of mark and scan_range, cut short at marked blocks, finds *)
(* exactly what is reachable from the roots, cycles included: no more is   *)
(* freed and no less.                                                      *)
MarkExact ==
    phase = "sweep" => \A o \in unswept : o \in marked <=> o \in Reachable

\* The words of memory that the blocks in A, of the sizes f, take.
Memory(A, f) == UNION {{o} \X (1 .. f[o]) : o \in A}

(* bytes_allocated is the memory of the allocations at every moment, also  *)
(* in the middle of a sweep: it never wraps around below zero, and a       *)
(* collection runs when, and only when, that much is really in use.  For a *)
(* program with one thread: bytes_allocated is a static without a lock.    *)
(* (gc_alloc, retain, shutdown)                                            *)
BytesExact == bytes = Cardinality(Memory(allocated, size))

(* mark comes to an end although blocks may point at each other in cycles: *)
(* every call marks a block that was not marked, or leaves fewer addresses *)
(* to visit.  (the early return of mark)                                   *)
MarkProgress ==
    [][(phase = "mark" /\ phase' = "mark") =>
         /\ marked \subseteq marked'
         /\ marked' # marked \/ (todo' \subseteq todo /\ todo' # todo)]_vars
================================================================================
