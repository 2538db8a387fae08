-------------------------------- MODULE GcShared -------------------------------
(***************************************************************************)
(* Gc with heap pointers that reach other threads (the environment of a    *)
(* spawned function, the value of a channel) or the values of a map        *)
(* (sydney_rt/src/map.rs).  Allocations of two threads are atomic here;    *)
(* the data race on GC (gc.rs:49) could only lose more.                    *)
(***************************************************************************)
EXTENDS Gc

CONSTANT Map  \* maps a program creates

VARIABLES created,  \* gc.maps
          maps      \* maps[m]: the pointers among the values of m

sharedVars == <<vars, created, maps>>

SharedInit == Init /\ created = {} /\ maps = [m \in Map |-> {}]

MapCreate(t, m) ==
    /\ Runs(t)
    /\ m \notin created
    /\ created' = created \cup {m}
    /\ UNCHANGED <<vars, maps>>

MapSet(t, m, p) ==
    /\ Runs(t)
    /\ m \in created /\ p \in stack[t]
    /\ maps' = [maps EXCEPT ![m] = @ \cup {p}]
    /\ UNCHANGED <<vars, created>>

MapGet(t, m, p) ==
    /\ Runs(t)
    /\ m \in created /\ p \in maps[m]
    /\ stack' = [stack EXCEPT ![t] = @ \cup {p}]
    /\ UNCHANGED <<heapVars, globals, roots, gcVars, down, created, maps>>

Pass(t, u, p) ==
    /\ Runs(t) /\ u # t
    /\ p \in stack[t]
    /\ stack' = [stack EXCEPT ![u] = @ \cup {p}]
    /\ UNCHANGED <<heapVars, globals, roots, gcVars, down, created, maps>>

\* What Gc does; sydney_gc_shutdown forgets the maps as well.
GcStep ==
    /\ Next
    /\ created' = IF Shutdown THEN {} ELSE created
    /\ UNCHANGED maps

SharedNext ==
    \/ GcStep
    \/ \E t \in Thread, m \in Map : MapCreate(t, m)
    \/ \E t \in Thread, p \in Obj :
          \/ \E m \in Map : MapSet(t, m, p) \/ MapGet(t, m, p)
          \/ \E u \in Thread : Pass(t, u, p)

SharedSpec == SharedInit /\ [][SharedNext]_sharedVars

(* README: "garbage collection ... and thread-based concurrency"; and      *)
(* TraceableMap: "all i64 values that might be pointers to GC-allocated    *)
(* objects".  What any thread uses, and what a map holds, stays allocated, *)
(* whichever thread collects.  (sydney_gc_collect)                         *)
SharedAlive ==
    ~down => /\ \A t \in Thread : stack[t] \subseteq allocated
             /\ \A m \in created : maps[m] \subseteq allocated
================================================================================
