-------------------------- MODULE NativeRuntimeProofs --------------------------
(***************************************************************************)
(* Proofs about NativeRuntime: types, and that main shuts the heap down    *)
(* only after every spawned thread has returned, and that the channels     *)
(* lose and repeat no value, for any number of threads, channels and       *)
(* operations.                                                             *)
(***************************************************************************)
EXTENDS NativeRuntime, FiniteSetTheorems, WellFoundedInduction, NaturalsInduction, TLAPS

(* Counting one more operation on a channel keeps the counters naturals.   *)
LEMMA Bump ==
    ASSUME NEW S, NEW f \in [S -> Nat], NEW c
    PROVE  [f EXCEPT ![c] = @ + 1] \in [S -> Nat]
<1>1. \A x \in S : f[x] + 1 \in Nat
    OBVIOUS
<1> QED  BY <1>1

(* An index into the table of channels is a handle.                        *)
LEMMA HandleInRange ==
    ASSUME TypeOK, NEW c \in DOMAIN channels
    PROVE  c \in Handle /\ c \in 0 .. MaxChans
<1>1. channels \in Seq(Nat) /\ Len(channels) <= MaxChans
    BY DEF TypeOK
<1>2. c \in 1 .. Len(channels) /\ Len(channels) \in Nat
    BY <1>1
<1> QED  BY <1>1, <1>2, NativeBounds DEF Handle

(* One step of any thread keeps every variable in its type.                *)
LEMMA ProgramTypes ==
    ASSUME TypeOK, NEW t \in Thread, Program(t)
    PROVE  TypeOK'
<1> USE NativeBounds, NativeCapacities
<1>1. CASE CallCreate(t)
    BY <1>1 DEF CallCreate, At, Goto, TypeOK, Location, chanVars, joinVars
<1>2. CASE CallSpawn(t)
    <2>1. nthreads + 1 \in Thread
        BY <1>2 DEF CallSpawn, TypeOK, Thread, Main
    <2>2. nthreads' \in 0 .. MaxThreads
        BY <1>2 DEF CallSpawn, TypeOK
    <2>3. pc' \in [Thread -> Location]
        BY <1>2, <2>1 DEF CallSpawn, TypeOK, Location
    <2>4. child' \in [Thread -> Thread \cup {Nobody}]
        BY <1>2, <2>1 DEF CallSpawn, TypeOK
    <2>5. \A u \in Thread : pc'[u] = "spawn" => child'[u] \in Thread
        BY <1>2, <2>1 DEF CallSpawn, TypeOK
    <2> QED
        BY <1>2, <2>2, <2>3, <2>4, <2>5 DEF CallSpawn, TypeOK, chanVars, joinVars
<1>3. CASE Return(t)
    BY <1>3 DEF Return, At, Goto, TypeOK, Location, chanVars, joinVars
<1>4. ASSUME NEW c \in DOMAIN channels, CallSend(t, c) \/ CallRecv(t, c)
      PROVE  TypeOK'
    <2>1. c \in Handle /\ c \in 0 .. MaxChans
        BY HandleInRange
    <2>2. CASE CallSend(t, c)
        <3>1. sends' \in [Handle -> Nat]
            BY <2>2, Bump DEF CallSend, TypeOK
        <3>2. arg' \in [Thread -> 0 .. MaxChans]
            BY <2>1, <2>2 DEF CallSend, TypeOK
        <3>3. pc' \in [Thread -> Location]
            BY <2>2 DEF CallSend, Goto, TypeOK, Location
        <3>4. \A u \in Thread : pc'[u] = "spawn" => child'[u] \in Thread
            BY <2>2 DEF CallSend, Goto, TypeOK
        <3> QED
            BY <2>2, <3>1, <3>2, <3>3, <3>4 DEF CallSend, TypeOK, joinVars
    <2>3. CASE CallRecv(t, c)
        <3>1. recvs' \in [Handle -> Nat]
            BY <2>3, Bump DEF CallRecv, TypeOK
        <3>2. arg' \in [Thread -> 0 .. MaxChans]
            BY <2>1, <2>3 DEF CallRecv, TypeOK
        <3>3. pc' \in [Thread -> Location]
            BY <2>3 DEF CallRecv, Goto, TypeOK, Location
        <3>4. \A u \in Thread : pc'[u] = "spawn" => child'[u] \in Thread
            BY <2>3 DEF CallRecv, Goto, TypeOK
        <3> QED
            BY <2>3, <3>1, <3>2, <3>3, <3>4 DEF CallRecv, TypeOK, joinVars
    <2> QED  BY <1>4, <2>2, <2>3
<1> QED  BY <1>1, <1>2, <1>3, <1>4 DEF Program

\* A step of the runtime keeps the types.
LEMMA RuntimeTypes ==
    ASSUME TypeOK, NEW t \in Thread, Runtime(t)
    PROVE  TypeOK'
<1> USE NativeBounds, NativeCapacities
<1>1. ASSUME NEW l, NEW k \in Location \ {"spawn"}, LockChannels(t, l, k)
      PROVE  TypeOK'
    BY <1>1 DEF LockChannels, Goto, TypeOK, joinVars
<1>2. CASE CreateLock(t) \/ SendLock(t) \/ RecvLock(t)
    BY <1>1, <1>2 DEF CreateLock, SendLock, RecvLock, Location
<1>3. CASE CreatePush(t)
    BY <1>3 DEF CreatePush, At, Goto, TypeOK, Location, joinVars
<1>4. CASE SendClone(t)
    BY <1>4 DEF SendClone, At, Goto, TypeOK, Location, joinVars
<1>5. CASE SendPut(t)
    <2>1. \A c \in Handle : Append(queue[c], t) \in Seq(Thread)
        BY DEF TypeOK
    <2>2. queue' \in [Handle -> Seq(Thread)]
        BY <1>5, <2>1 DEF SendPut, TypeOK
    <2> QED
        BY <1>5, <2>2 DEF SendPut, At, Goto, TypeOK, Location, joinVars
<1>6. CASE RecvClone(t)
    BY <1>6 DEF RecvClone, At, Goto, TypeOK, Location, joinVars
<1>7. CASE RecvRxLock(t)
    BY <1>7 DEF RecvRxLock, At, Goto, TypeOK, Location, joinVars
<1>8. CASE RecvTake(t)
    <2>1. \A c \in Handle : queue[c] # << >> => Tail(queue[c]) \in Seq(Thread)
        BY DEF TypeOK
    <2>2. queue' \in [Handle -> Seq(Thread)]
        BY <1>8, <2>1 DEF RecvTake, TypeOK
    <2>3. taken' \in [Handle -> Nat]
        BY <1>8, Bump DEF RecvTake, TypeOK
    <2> QED
        BY <1>8, <2>2, <2>3 DEF RecvTake, At, Goto, TypeOK, Location, joinVars
<1>9. CASE \E u \in Thread : Rendezvous(t, u)
    <2> PICK u \in Thread : Rendezvous(t, u)
        BY <1>9
    <2>1. pc' \in [Thread -> Location]
        BY DEF Rendezvous, TypeOK, Location
    <2>2. \A v \in Thread : pc'[v] = "spawn" => child'[v] \in Thread
        BY DEF Rendezvous, TypeOK
    <2>3. rxLock' \in [Handle -> Thread \cup {Nobody}]
        BY DEF Rendezvous, TypeOK
    <2>4. taken' \in [Handle -> Nat]
        BY Bump DEF Rendezvous, TypeOK
    <2> QED
        BY <2>1, <2>2, <2>3, <2>4 DEF Rendezvous, TypeOK, joinVars
<1>10. CASE PushHandle(t)
    <2>1. child[t] \in Thread
        BY <1>10 DEF PushHandle, At, TypeOK
    <2>2. threads' \in Seq(Thread)
        BY <1>10, <2>1 DEF PushHandle, TypeOK
    <2> QED
        BY <1>10, <2>2 DEF PushHandle, At, Goto, TypeOK, Location, chanVars
<1> QED
    BY <1>2, <1>3, <1>4, <1>5, <1>6, <1>7, <1>8, <1>9, <1>10 DEF Runtime
\* A step of sydney_join_all keeps the types.
LEMMA JoinTypes ==
    ASSUME TypeOK, MainEnd \/ JoinAll
    PROVE  TypeOK'
<1> USE NativeBounds
<1>0. Main \in Thread
    BY DEF Main, Thread
<1>1. CASE MainEnd
    BY <1>0, <1>1 DEF MainEnd, Goto, TypeOK, Location, chanVars, joinVars
<1>2. CASE JoinLock
    BY <1>0, <1>2 DEF JoinLock, Goto, TypeOK, Location, chanVars
<1>3. CASE JoinOne
    BY <1>0, <1>3, SMTT(40) DEF JoinOne, TypeOK, Location, chanVars
<1>4. CASE JoinDone
    BY <1>0, <1>4 DEF JoinDone, Goto, TypeOK, Location, chanVars
<1>5. CASE Shutdown
    BY <1>0, <1>5 DEF Shutdown, Goto, TypeOK, Location, chanVars, joinVars
<1> QED  BY <1>1, <1>2, <1>3, <1>4, <1>5 DEF JoinAll

(* The types of NativeRuntime, for any number of threads and channels.     *)
THEOREM NativeTypeCorrect == Spec => []TypeOK
<1>1. Init => TypeOK
    BY NativeBounds DEF Init, TypeOK, Location, Thread, Main, Handle, Nobody
<1>2. TypeOK /\ [Next]_vars => TypeOK'
    <2> SUFFICES ASSUME TypeOK, [Next]_vars
                 PROVE  TypeOK'
        OBVIOUS
    <2>1. CASE UNCHANGED vars
        BY <2>1 DEF vars, chanVars, joinVars, TypeOK
    <2> QED
        BY <2>1, ProgramTypes, RuntimeTypes, JoinTypes DEF Next
<1> QED  BY <1>1, <1>2, PTL DEF Spec

--------------------------------------------------------------------------------
(* A non-empty set of naturals has a smallest element.                     *)
LEMMA Smallest ==
    ASSUME NEW T, T \subseteq Nat, T # {}
    PROVE  \E x \in T : \A y \in T : ~(y < x)
<1>1. \E x \in T : \A y \in T : ~(<<y, x>> \in OpToRel(<, Nat))
    BY NatLessThanWellFounded, WFMin
<1> QED  BY <1>1 DEF OpToRel

(* The inductive invariant.                                                *)
JoinInv == TypeOK /\ HandlesKept /\ AllJoined

(* When the list is empty and main is not inside sydney_spawn, a live      *)
(* thread implies one whose handle main still has to join: the live thread *)
(* with the smallest number was not spawned by a live thread other than    *)
(* main.                                                                   *)
LEMMA SomeoneToJoin ==
    ASSUME JoinInv, threads = << >>, pc[Main] # "spawn", Live # {}
    PROVE  joining # << >>
<1>1. Live \subseteq Nat
    BY DEF Live, JoinInv, TypeOK
<1>2. PICK t \in Live : \A u \in Live : ~(u < t)
    BY <1>1, Smallest
<1>3. t \in 1 .. nthreads /\ Held(t)
    BY DEF JoinInv, HandlesKept, Live
<1>4. ~In(t, threads)
    BY DEF In
<1>5. ASSUME NEW u \in Thread, u < t, pc[u] = "spawn"
      PROVE  FALSE
    <2>1. u # Main
        BY <1>5
    <2>2. u \in 1 .. nthreads
        BY <1>3, <1>5, <2>1 DEF Thread, Main, JoinInv, TypeOK
    <2>3. u \in Live
        BY <1>5, <2>2 DEF Live
    <2> QED  BY <1>2, <1>5, <2>3
<1>6. In(t, joining)
    BY <1>3, <1>4, <1>5 DEF Held
<1> QED  BY <1>6 DEF In

(* Spawned threads are threads other than main.                            *)
LEMMA Spawned ==
    ASSUME TypeOK
    PROVE  \A u \in 1 .. nthreads : u \in Thread /\ u # Main /\ u \in Nat /\ u <= nthreads
BY NativeBounds DEF TypeOK, Thread, Main

\* Locations that say nothing about join handles.
Quiet == Location \ {"unborn", "spawn", "joining", "shutdown", "exited", "done"}

(* Steps of threads that neither spawn, return nor join.                   *)
LEMMA QuietStep ==
    ASSUME JoinInv, TypeOK', UNCHANGED <<child, nthreads, joinVars>>,
           \A t \in Thread : pc'[t] = pc[t] \/ (pc[t] \in Quiet /\ pc'[t] \in Quiet)
    PROVE  HandlesKept' /\ AllJoined'
<1>0. Main \in Thread
    BY NativeBounds DEF Main, Thread
<1>1. Live' = Live
    <2>1. \A t \in 1 .. nthreads : t \in Thread
        BY Spawned DEF JoinInv
    <2>2. \A t \in 1 .. nthreads : pc'[t] = "done" <=> pc[t] = "done"
        BY <2>1 DEF Quiet
    <2> QED  BY <2>2 DEF Live
<1>2. \A t \in Thread : pc'[t] = "spawn" <=> pc[t] = "spawn"
    BY DEF Quiet
<1>3. \A t : Held(t)' <=> Held(t)
    BY <1>2 DEF Held, In, joinVars
<1>4. \A t \in Thread : pc'[t] = "unborn" <=> pc[t] = "unborn"
    BY DEF Quiet
<1>5. /\ pc'[Main] \in {"joining", "shutdown", "exited"}
         <=> pc[Main] \in {"joining", "shutdown", "exited"}
      /\ pc'[Main] = "joining" <=> pc[Main] = "joining"
      /\ pc'[Main] \in {"shutdown", "exited"} <=> pc[Main] \in {"shutdown", "exited"}
      /\ pc'[Main] = "done" <=> pc[Main] = "done"
    BY <1>0 DEF Quiet
<1>6. \A t \in 1 .. nthreads' : t \in Live' => Held(t)'
    BY <1>1, <1>3 DEF JoinInv, HandlesKept
<1>7. \A t \in Thread : pc'[t] = "unborn" <=> t > nthreads'
    BY <1>4 DEF JoinInv, HandlesKept
<1>8. HandlesKept'
    BY <1>5, <1>6, <1>7 DEF JoinInv, HandlesKept, joinVars
<1>9. AllJoined'
    BY <1>1, <1>5 DEF JoinInv, AllJoined
<1> QED  BY <1>8, <1>9

(* sydney_spawn: the new handle is in its spawner's hand.                  *)
LEMMA SpawnStep ==
    ASSUME JoinInv, TypeOK', NEW t \in Thread, CallSpawn(t),
           NEW n, n = nthreads + 1
    PROVE  HandlesKept' /\ AllJoined'
<1>0. Main \in Thread /\ nthreads \in Nat /\ pc \in [Thread -> Location]
    BY NativeBounds DEF Main, Thread, JoinInv, TypeOK
<1>1. n \in Thread /\ n # Main
    BY <1>0, NativeBounds DEF CallSpawn, Thread, Main
<1>2. pc[t] = "run" /\ pc[n] = "unborn" /\ t < n /\ t # n
    <2>1. pc[t] = "run"
        BY DEF CallSpawn, At
    <2>2. ~(t > nthreads)
        BY <2>1 DEF JoinInv, HandlesKept
    <2>3. pc[n] = "unborn"
        BY <1>0, <1>1 DEF JoinInv, HandlesKept
    <2> QED
        BY <1>0, <2>1, <2>2, <2>3 DEF Thread, Main
<1>3. /\ pc'[t] = "spawn" /\ pc'[n] = "run"
      /\ \A u \in Thread : u # t /\ u # n => pc'[u] = pc[u]
    BY <1>0, <1>1, <1>2 DEF CallSpawn
<1>4. /\ child'[t] = n
      /\ \A u \in Thread : u # t => child'[u] = child[u]
    BY DEF CallSpawn, JoinInv, TypeOK
<1>5. nthreads' = n /\ threads' = threads /\ joining' = joining /\ threadsLock' = threadsLock
    BY DEF CallSpawn, joinVars
<1>6. Held(n)'
    BY <1>2, <1>3, <1>4 DEF Held
<1>7. ASSUME NEW u \in 1 .. nthreads, u \in Live' PROVE Held(u)'
    <2>1. u \in Thread /\ u # n
        BY <1>0, Spawned DEF JoinInv
    <2>2. u \in Live
        BY <1>2, <1>3, <1>7, <2>1 DEF Live
    <2>3. Held(u)
        BY <2>2 DEF JoinInv, HandlesKept
    <2>4. CASE In(u, threads) \/ In(u, joining)
        BY <2>4, <1>5 DEF Held, In
    <2>5. CASE \E w \in Thread : w < u /\ child[w] = u /\ pc[w] = "spawn"
        <3>1. PICK w \in Thread : w < u /\ child[w] = u /\ pc[w] = "spawn"
            BY <2>5
        <3>2. w # t /\ w # n
            BY <3>1, <1>2
        <3>3. child'[w] = u /\ pc'[w] = "spawn"
            BY <3>1, <3>2, <1>3, <1>4
        <3> QED  BY <3>1, <3>3 DEF Held
    <2> QED  BY <2>3, <2>4, <2>5 DEF Held
<1>8. \A u \in 1 .. nthreads' : u \in Live' => Held(u)'
    <2> SUFFICES ASSUME NEW u \in 1 .. n, u \in Live'
                 PROVE  Held(u)'
        BY <1>5
    <2>1. u = n \/ u \in 1 .. nthreads
        BY <1>0
    <2> QED  BY <2>1, <1>6, <1>7
<1>9. \A u \in Thread : pc'[u] = "unborn" <=> u > nthreads'
    <2> SUFFICES ASSUME NEW u \in Thread
                 PROVE  pc'[u] = "unborn" <=> u > n
        BY <1>5
    <2>1. u \in Nat
        BY DEF Thread, Main
    <2>2. pc[u] = "unborn" <=> u > nthreads
        BY DEF JoinInv, HandlesKept
    <2>3. CASE u = t
        BY <2>3, <2>1, <1>0, <1>2, <1>3
    <2>5. CASE u = n
        BY <2>5, <2>1, <1>0, <1>3
    <2>4. CASE u # t /\ u # n
        BY <2>1, <2>2, <2>4, <1>0, <1>3
    <2> QED  BY <2>3, <2>4, <2>5
<1>10. pc'[Main] = pc[Main] \/ (pc[Main] = "run" /\ pc'[Main] = "spawn")
    BY <1>0, <1>1, <1>2, <1>3
<1>11. HandlesKept'
    BY <1>5, <1>8, <1>9, <1>10 DEF JoinInv, HandlesKept
<1>12. AllJoined'
    <2> SUFFICES ASSUME pc[Main] \in {"shutdown", "exited"} PROVE FALSE
        BY <1>10 DEF AllJoined
    <2>1. t # Main
        BY <1>2
    <2>2. t \in Live
        BY <1>0, <1>2, <2>1 DEF Live, Thread, Main
    <2> QED  BY <2>2 DEF JoinInv, AllJoined
<1> QED  BY <1>11, <1>12

(* The push: the handle moves from the spawner's hand into the list.       *)
LEMMA PushStep ==
    ASSUME JoinInv, TypeOK', NEW t \in Thread, PushHandle(t)
    PROVE  HandlesKept' /\ AllJoined'
<1>0. /\ Main \in Thread /\ pc \in [Thread -> Location] /\ nthreads \in Nat
      /\ threads \in Seq(Thread) /\ child[t] \in Thread
    BY NativeBounds DEF Main, Thread, JoinInv, TypeOK, PushHandle, At
<1>1. /\ pc[t] = "spawn" /\ pc'[t] = "run"
      /\ \A u \in Thread : u # t => pc'[u] = pc[u] /\ child'[u] = child[u]
    BY <1>0 DEF PushHandle, At, Goto, JoinInv, TypeOK
<1>2. nthreads' = nthreads /\ joining' = joining /\ threadsLock' = threadsLock
    BY DEF PushHandle
<1>3. /\ \E j \in DOMAIN threads' : threads'[j] = child[t]
      /\ \A u : In(u, threads) => In(u, threads)'
    <2>1. threads' = Append(threads, child[t])
        BY DEF PushHandle
    <2>2. Len(threads) + 1 \in DOMAIN threads' /\ threads'[Len(threads) + 1] = child[t]
        BY <1>0, <2>1
    <2>3. \A j \in DOMAIN threads : j \in DOMAIN threads' /\ threads'[j] = threads[j]
        BY <1>0, <2>1
    <2> QED
        BY <2>2, <2>3 DEF In
<1>4. pc[Main] \notin {"joining", "shutdown", "exited"}
    <2>1. pc[Main] # "joining"
        BY DEF PushHandle, JoinInv, HandlesKept, Main, Nobody
    <2>2. pc[Main] \in {"shutdown", "exited"} => t # Main /\ t \in Live
        BY <1>0, <1>1 DEF Live, JoinInv, HandlesKept, Thread, Main
    <2> QED  BY <2>1, <2>2 DEF JoinInv, AllJoined
<1>5. Live' = Live
    <2>1. \A u \in 1 .. nthreads : u \in Thread
        BY Spawned DEF JoinInv
    <2>2. \A u \in 1 .. nthreads : pc'[u] = "done" <=> pc[u] = "done"
        BY <1>1, <2>1
    <2> QED  BY <1>2, <2>2 DEF Live
<1>6. \A u \in 1 .. nthreads' : u \in Live' => Held(u)'
    <2> SUFFICES ASSUME NEW u \in 1 .. nthreads, u \in Live
                 PROVE  Held(u)'
        BY <1>2, <1>5
    <2>1. Held(u)
        BY DEF JoinInv, HandlesKept
    <2>2. CASE In(u, threads)
        BY <2>2, <1>3 DEF Held
    <2>3. CASE In(u, joining)
        BY <2>3, <1>2 DEF Held, In
    <2>4. CASE \E w \in Thread : w < u /\ child[w] = u /\ pc[w] = "spawn"
        <3>1. PICK w \in Thread : w < u /\ child[w] = u /\ pc[w] = "spawn"
            BY <2>4
        <3>2. CASE w = t
            <4>1. child[t] = u
                BY <3>1, <3>2
            <4>2. In(u, threads)'
                BY <4>1, <1>3 DEF In
            <4> QED  BY <4>2 DEF Held
        <3>3. CASE w # t
            BY <3>1, <3>3, <1>1 DEF Held
        <3> QED  BY <3>2, <3>3
    <2> QED  BY <2>1, <2>2, <2>3, <2>4 DEF Held
<1>7. \A u \in Thread : pc'[u] = "unborn" <=> u > nthreads'
    BY <1>1, <1>2 DEF JoinInv, HandlesKept
<1>8. pc'[Main] = pc[Main] \/ (pc[Main] = "spawn" /\ pc'[Main] = "run")
    BY <1>0, <1>1
<1>9. HandlesKept'
    BY <1>2, <1>4, <1>6, <1>7, <1>8 DEF JoinInv, HandlesKept
<1>10. AllJoined'
    BY <1>4, <1>8 DEF AllJoined
<1> QED  BY <1>9, <1>10

(* A spawned function returns.                                             *)
LEMMA ReturnStep ==
    ASSUME JoinInv, TypeOK', NEW t \in Thread, Return(t)
    PROVE  HandlesKept' /\ AllJoined'
<1>0. Main \in Thread /\ pc \in [Thread -> Location] /\ nthreads \in Nat
    BY NativeBounds DEF Main, Thread, JoinInv, TypeOK
<1>1. /\ t # Main /\ pc[t] = "run" /\ pc'[t] = "done"
      /\ \A u \in Thread : u # t => pc'[u] = pc[u]
    BY <1>0 DEF Return, At, Goto
<1>2. /\ nthreads' = nthreads /\ joining' = joining /\ threadsLock' = threadsLock
      /\ threads' = threads /\ child' = child
    BY DEF Return, joinVars
<1>3. Live' \subseteq Live
    <2>1. \A u \in 1 .. nthreads : u \in Thread
        BY Spawned DEF JoinInv
    <2> QED  BY <1>1, <1>2, <2>1 DEF Live
<1>4. \A u : Held(u) => Held(u)'
    BY <1>1, <1>2 DEF Held, In
<1>5. \A u \in 1 .. nthreads' : u \in Live' => Held(u)'
    BY <1>2, <1>3, <1>4 DEF JoinInv, HandlesKept
<1>6. \A u \in Thread : pc'[u] = "unborn" <=> u > nthreads'
    BY <1>1, <1>2 DEF JoinInv, HandlesKept
<1>7. pc'[Main] = pc[Main]
    BY <1>0, <1>1
<1>8. HandlesKept'
    BY <1>2, <1>5, <1>6, <1>7 DEF JoinInv, HandlesKept
<1>9. AllJoined'
    BY <1>3, <1>7 DEF JoinInv, AllJoined
<1> QED  BY <1>8, <1>9

(* Only main moves, and it is not inside sydney_spawn.                     *)
LEMMA MainMoves ==
    ASSUME JoinInv, UNCHANGED <<child, nthreads>>,
           NEW l \in Location \ {"unborn", "done", "spawn"},
           pc[Main] \notin {"spawn", "unborn", "done"},
           pc' = [pc EXCEPT ![Main] = l],
           \A t \in 1 .. nthreads : t \in Live /\ (In(t, threads) \/ In(t, joining))
               => (In(t, threads) \/ In(t, joining))'
    PROVE  /\ Live' = Live
           /\ \A t \in 1 .. nthreads' : t \in Live' => Held(t)'
           /\ \A t \in Thread : pc'[t] = "unborn" <=> t > nthreads'
           /\ pc'[Main] = l
<1>0. Main \in Thread /\ pc \in [Thread -> Location] /\ nthreads \in Nat
    BY NativeBounds DEF Main, Thread, JoinInv, TypeOK
<1>1. pc'[Main] = l /\ \A u \in Thread : u # Main => pc'[u] = pc[u]
    BY <1>0
<1>2. Live' = Live
    <2>1. \A u \in 1 .. nthreads : u \in Thread /\ u # Main
        BY Spawned DEF JoinInv
    <2> QED  BY <1>1, <2>1 DEF Live
<1>3. \A t \in 1 .. nthreads' : t \in Live' => Held(t)'
    <2> SUFFICES ASSUME NEW u \in 1 .. nthreads, u \in Live
                 PROVE  Held(u)'
        BY <1>2
    <2>1. Held(u)
        BY DEF JoinInv, HandlesKept
    <2>2. CASE In(u, threads) \/ In(u, joining)
        BY <2>2 DEF Held
    <2>3. CASE \E w \in Thread : w < u /\ child[w] = u /\ pc[w] = "spawn"
        BY <2>3, <1>1 DEF Held
    <2> QED  BY <2>1, <2>2, <2>3 DEF Held
<1>4. \A t \in Thread : pc'[t] = "unborn" <=> t > nthreads'
    BY <1>1 DEF JoinInv, HandlesKept
<1> QED  BY <1>1, <1>2, <1>3, <1>4

\* The end of main, step by step.
LEMMA JoinStep ==
    ASSUME JoinInv, TypeOK', MainEnd \/ JoinAll
    PROVE  HandlesKept' /\ AllJoined'
<1>0. Main \in Thread /\ pc \in [Thread -> Location] /\ nthreads \in Nat
    BY NativeBounds DEF Main, Thread, JoinInv, TypeOK
<1>1. CASE MainEnd
    <2>1. pc[Main] = "run" /\ pc' = [pc EXCEPT ![Main] = "joinLock"]
        BY <1>1 DEF MainEnd, At, Goto
    <2>2. UNCHANGED <<child, nthreads, threads, joining, threadsLock>>
        BY <1>1 DEF MainEnd, joinVars
    <2>3. \A u : (In(u, threads) \/ In(u, joining)) => (In(u, threads) \/ In(u, joining))'
        BY <2>2 DEF In
    <2>4. /\ \A u \in 1 .. nthreads' : u \in Live' => Held(u)'
          /\ \A u \in Thread : pc'[u] = "unborn" <=> u > nthreads'
          /\ pc'[Main] = "joinLock"
        BY <2>1, <2>2, <2>3, MainMoves DEF Location
    <2> QED
        BY <2>1, <2>2, <2>4 DEF JoinInv, HandlesKept, AllJoined
<1>2. CASE JoinLock
    <2>1. pc[Main] = "joinLock" /\ pc' = [pc EXCEPT ![Main] = "joining"]
        BY <1>2 DEF JoinLock, At, Goto
    <2>2. /\ UNCHANGED <<child, nthreads>>
          /\ joining' = threads /\ threads' = << >> /\ threadsLock' = Main
        BY <1>2 DEF JoinLock
    <2>3. joining = << >>
        BY <2>1 DEF JoinInv, HandlesKept
    <2>4. \A u : (In(u, threads) \/ In(u, joining)) => (In(u, threads) \/ In(u, joining))'
        BY <2>2, <2>3 DEF In
    <2>5. /\ \A u \in 1 .. nthreads' : u \in Live' => Held(u)'
          /\ \A u \in Thread : pc'[u] = "unborn" <=> u > nthreads'
          /\ pc'[Main] = "joining"
        BY <2>1, <2>2, <2>4, MainMoves DEF Location
    <2> QED
        BY <2>2, <2>5 DEF HandlesKept, AllJoined
<1>3. CASE JoinOne
    <2>1. pc[Main] = "joining" /\ pc' = pc
        BY <1>3 DEF JoinOne, At
    <2>2. /\ UNCHANGED <<child, nthreads, threads, threadsLock>>
          /\ joining # << >> /\ joining' = Tail(joining) /\ pc[Head(joining)] = "done"
        BY <1>3 DEF JoinOne
    <2>3. joining \in Seq(Thread)
        BY DEF JoinInv, TypeOK
    <2>4. ASSUME NEW u \in Live, In(u, joining) PROVE In(u, joining)'
        <3>1. PICK j \in DOMAIN joining : joining[j] = u
            BY <2>4 DEF In
        <3>2. pc[u] # "done"
            BY DEF Live
        <3>3. j # 1
            BY <3>1, <3>2, <2>2, <2>3
        <3>4. j - 1 \in DOMAIN Tail(joining) /\ Tail(joining)[j - 1] = u
            BY <3>1, <3>3, <2>2, <2>3
        <3> QED  BY <3>4, <2>2 DEF In
    <2>5. \A u \in Live : In(u, threads) => In(u, threads)'
        BY <2>2 DEF In
    <2>6. Live' = Live
        BY <2>1, <2>2 DEF Live
    <2>7. \A u \in 1 .. nthreads' : u \in Live' => Held(u)'
        <3> SUFFICES ASSUME NEW u \in 1 .. nthreads, u \in Live
                     PROVE  Held(u)'
            BY <2>2, <2>6
        <3>1. Held(u)
            BY DEF JoinInv, HandlesKept
        <3> QED  BY <3>1, <2>1, <2>2, <2>4, <2>5 DEF Held
    <2> QED
        BY <2>1, <2>2, <2>6, <2>7 DEF JoinInv, HandlesKept, AllJoined
<1>4. CASE JoinDone
    <2>1. pc[Main] = "joining" /\ pc' = [pc EXCEPT ![Main] = "shutdown"]
        BY <1>4 DEF JoinDone, At, Goto
    <2>2. UNCHANGED <<child, nthreads, threads, joining>> /\ joining = << >> /\ threadsLock' = Nobody
        BY <1>4 DEF JoinDone
    <2>3. threads = << >>
        BY <2>1 DEF JoinInv, HandlesKept
    <2>4. Live = {}
        BY <2>1, <2>2, <2>3, SomeoneToJoin
    <2>5. \A u : (In(u, threads) \/ In(u, joining)) => (In(u, threads) \/ In(u, joining))'
        BY <2>2 DEF In
    <2>6. /\ Live' = Live
          /\ \A u \in 1 .. nthreads' : u \in Live' => Held(u)'
          /\ \A u \in Thread : pc'[u] = "unborn" <=> u > nthreads'
          /\ pc'[Main] = "shutdown"
        BY <2>1, <2>2, <2>5, MainMoves DEF Location
    <2>7. Nobody # Main
        BY DEF Nobody, Main
    <2> QED
        BY <2>2, <2>3, <2>4, <2>6, <2>7 DEF HandlesKept, AllJoined
<1>5. CASE Shutdown
    <2>1. pc[Main] = "shutdown" /\ pc' = [pc EXCEPT ![Main] = "exited"]
        BY <1>5 DEF Shutdown, At, Goto
    <2>2. UNCHANGED <<child, nthreads, threads, joining, threadsLock>>
        BY <1>5 DEF Shutdown, joinVars
    <2>3. \A u : (In(u, threads) \/ In(u, joining)) => (In(u, threads) \/ In(u, joining))'
        BY <2>2 DEF In
    <2>4. /\ Live' = Live
          /\ \A u \in 1 .. nthreads' : u \in Live' => Held(u)'
          /\ \A u \in Thread : pc'[u] = "unborn" <=> u > nthreads'
          /\ pc'[Main] = "exited"
        BY <2>1, <2>2, <2>3, MainMoves DEF Location
    <2> QED
        BY <2>1, <2>2, <2>4 DEF JoinInv, HandlesKept, AllJoined
<1> QED  BY <1>1, <1>2, <1>3, <1>4, <1>5 DEF JoinAll

(* Every other step is quiet.                                              *)
LEMMA OtherSteps ==
    ASSUME JoinInv, NEW t \in Thread,
           \/ CallCreate(t)
           \/ \E c \in DOMAIN channels : CallSend(t, c) \/ CallRecv(t, c)
           \/ CreateLock(t) \/ CreatePush(t)
           \/ SendLock(t) \/ SendClone(t) \/ SendPut(t)
           \/ RecvLock(t) \/ RecvClone(t) \/ RecvRxLock(t) \/ RecvTake(t)
           \/ \E u \in Thread : Rendezvous(t, u)
    PROVE  /\ UNCHANGED <<child, nthreads, joinVars>>
           /\ \A v \in Thread : pc'[v] = pc[v] \/ (pc[v] \in Quiet /\ pc'[v] \in Quiet)
<1>0. pc \in [Thread -> Location]
    BY DEF JoinInv, TypeOK
<1>1. UNCHANGED <<child, nthreads, joinVars>>
    BY DEF CallCreate, CallSend, CallRecv, CreateLock, CreatePush, SendLock, SendClone,
           SendPut, RecvLock, RecvClone, RecvRxLock, RecvTake, Rendezvous, LockChannels
<1>2. CASE \E u \in Thread : Rendezvous(t, u)
    <2> PICK u \in Thread : Rendezvous(t, u)
        BY <1>2
    <2>1. pc[t] \in Quiet /\ pc[u] \in Quiet /\ "run" \in Quiet
        BY DEF Rendezvous, At, Quiet, Location
    <2>2. \A v \in Thread : pc'[v] = IF v = t \/ v = u THEN "run" ELSE pc[v]
        BY <1>0 DEF Rendezvous
    <2> QED  BY <1>1, <2>1, <2>2
<1>3. CASE \E l \in Quiet, k \in Quiet : pc[t] = l /\ pc' = [pc EXCEPT ![t] = k]
    BY <1>0, <1>1, <1>3
<1>4. CASE CallCreate(t) \/ CreateLock(t) \/ CreatePush(t)
    BY <1>3, <1>4 DEF CallCreate, CreateLock, CreatePush, LockChannels, At, Goto, Quiet, Location
<1>5. CASE (\E c \in DOMAIN channels : CallSend(t, c)) \/ SendLock(t) \/ SendClone(t) \/ SendPut(t)
    BY <1>3, <1>5 DEF CallSend, SendLock, SendClone, SendPut, LockChannels, At, Goto, Quiet, Location
<1>6. CASE \/ \E c \in DOMAIN channels : CallRecv(t, c)
           \/ RecvLock(t) \/ RecvClone(t) \/ RecvRxLock(t) \/ RecvTake(t)
    BY <1>3, <1>6 DEF CallRecv, RecvLock, RecvClone, RecvRxLock, RecvTake, LockChannels,
                      At, Goto, Quiet, Location
<1> QED  BY <1>2, <1>4, <1>5, <1>6

(* main shuts the heap down and ends the process only when every spawned   *)
(* thread has returned, those spawned by other threads while main was      *)
(* already joining included: sydney_join_all keeps THREADS locked, so a    *)
(* live spawner cannot hand over a handle that main would miss.            *)
THEOREM MainWaitsForAll == Spec => [](HandlesKept /\ AllJoined)
<1>1. Init => HandlesKept /\ AllJoined
    BY NativeBounds DEF Init, HandlesKept, AllJoined, Live, Thread, Main, Nobody
<1>2. TypeOK /\ TypeOK' /\ (HandlesKept /\ AllJoined) /\ [Next]_vars
         => (HandlesKept /\ AllJoined)'
    <2> SUFFICES ASSUME JoinInv, TypeOK', [Next]_vars
                 PROVE  HandlesKept' /\ AllJoined'
        BY DEF JoinInv
    <2>1. CASE UNCHANGED vars
        BY <2>1, QuietStep DEF vars, chanVars, joinVars
    <2>2. ASSUME NEW t \in Thread, CallSpawn(t)
          PROVE  HandlesKept' /\ AllJoined'
        BY <2>2, SpawnStep
    <2>3. ASSUME NEW t \in Thread, Program(t) \/ Runtime(t)
          PROVE  HandlesKept' /\ AllJoined'
        BY <2>2, <2>3, OtherSteps, QuietStep, PushStep, ReturnStep DEF Program, Runtime
    <2> QED
        BY <2>1, <2>3, JoinStep DEF Next
<1> QED  BY <1>1, <1>2, NativeTypeCorrect, PTL DEF Spec

--------------------------------------------------------------------------------
(* Values on their way                                                     *)

\* One member more.
LEMMA CountMore ==
    ASSUME NEW A, NEW B, NEW x, IsFiniteSet(A), x \notin A, x \in B,
           \A y : y # x => (y \in A <=> y \in B)
    PROVE  IsFiniteSet(B) /\ Cardinality(A) \in Nat /\ Cardinality(B) = Cardinality(A) + 1
<1>1. B = A \cup {x}
    OBVIOUS
<1>2. IsFiniteSet(A \cup {x}) /\ Cardinality(A \cup {x}) = Cardinality(A) + 1
    BY FS_AddElement
<1>3. Cardinality(A) \in Nat
    BY FS_CardinalityType
<1> QED  BY <1>1, <1>2, <1>3, Zenon

\* One member less.
LEMMA CountLess ==
    ASSUME NEW A, NEW B, NEW x, IsFiniteSet(A), x \in A, x \notin B,
           \A y : y # x => (y \in A <=> y \in B)
    PROVE  IsFiniteSet(B) /\ Cardinality(B) \in Nat /\ Cardinality(A) = Cardinality(B) + 1
<1>1. B \in SUBSET A
    OBVIOUS
<1>2. IsFiniteSet(B)
    BY <1>1, FS_Subset
<1>3. \A y : y # x => (y \in B <=> y \in A)
    OBVIOUS
<1> QED  BY <1>2, <1>3, CountMore, Zenon

\* The two calls, as sets of locations.
SendPlace == {"sendLookup", "sendLooking", "send"}
RecvPlace == {"recvLookup", "recvLooking", "recvRx", "recv"}

\* The accounts of a channel.
Balanced(c) ==
    /\ sends[c] = taken[c] + Len(queue[c]) + Cardinality(Sending(c))
    /\ recvs[c] = taken[c] + Cardinality(Receiving(c))

\* The inductive invariant.
ChanInv ==
    /\ TypeOK /\ LocksHeld
    /\ \A c \in Handle : Balanced(c)
    /\ \A c \in Handle : c \in DOMAIN channels => Len(queue[c]) <= channels[c]

\* ch.rx is exclusive, so the invariant says all of ValuesConserved.
LEMMA Conserved ==
    ASSUME ChanInv
    PROVE  ValuesConserved
<1>1. ASSUME NEW c \in Handle, NEW t \in Receiving(c), NEW u \in Receiving(c),
             pc[t] = "recv", pc[u] = "recv"
      PROVE  t = u
    <2>1. t \in Thread /\ u \in Thread /\ arg[t] = c /\ arg[u] = c
        BY DEF Receiving
    <2>2. rxLock[c] = t /\ rxLock[c] = u
        BY <1>1, <2>1 DEF ChanInv, LocksHeld
    <2> QED  BY <2>2
<1> QED  BY <1>1 DEF ChanInv, Balanced, ValuesConserved

\* Nobody is no thread, and there are finitely many threads.
LEMMA ThreadFacts ==
    /\ Nobody \notin Thread /\ IsFiniteSet(Thread) /\ Main \in Thread
    /\ \A c : IsFiniteSet(Sending(c)) /\ IsFiniteSet(Receiving(c))
<1>1. Nobody \notin Thread /\ Main \in Thread
    BY NativeBounds DEF Nobody, Thread, Main
<1>2. IsFiniteSet(Thread)
    BY NativeBounds, FS_Interval DEF Thread, Main
<1>3. ASSUME NEW c PROVE IsFiniteSet(Sending(c)) /\ IsFiniteSet(Receiving(c))
    <2>1. Sending(c) \in SUBSET Thread /\ Receiving(c) \in SUBSET Thread
        BY DEF Sending, Receiving
    <2> QED  BY <2>1, <1>2, FS_Subset
<1> QED  BY <1>1, <1>2, <1>3

\* A step in which every thread stays in its call, or outside, keeps the
\* accounts.
LEMMA QuietBalance ==
    ASSUME UNCHANGED <<arg, sends, recvs, taken, queue>>, \A c \in Handle : Balanced(c),
           \A u \in Thread : /\ pc'[u] \in SendPlace <=> pc[u] \in SendPlace
                             /\ pc'[u] \in RecvPlace <=> pc[u] \in RecvPlace
    PROVE  \A c \in Handle : Balanced(c)'
<1>1. ASSUME NEW c \in Handle PROVE Sending(c)' = Sending(c) /\ Receiving(c)' = Receiving(c)
    BY DEF Sending, Receiving, SendPlace, RecvPlace
<1> QED  BY <1>1 DEF Balanced

\* The threads other than t in a call on c, when only t moves.
LEMMA OthersStay ==
    ASSUME NEW t, NEW c, \A u \in Thread : u # t => pc'[u] = pc[u] /\ arg'[u] = arg[u]
    PROVE  /\ \A y : y # t => (y \in Sending(c) <=> y \in Sending(c)')
           /\ \A y : y # t => (y \in Receiving(c) <=> y \in Receiving(c)')
BY DEF Sending, Receiving

\* The same set of senders or receivers when t is in it before and after, or
\* neither.
LEMMA SameCall ==
    ASSUME NEW t, NEW c, \A u \in Thread : u # t => pc'[u] = pc[u] /\ arg'[u] = arg[u]
    PROVE  /\ (t \in Sending(c) <=> t \in Sending(c)') => Sending(c)' = Sending(c)
           /\ (t \in Receiving(c) <=> t \in Receiving(c)') => Receiving(c)' = Receiving(c)
BY DEF Sending, Receiving

\* sydney_channel_send is called: one sender more.
LEMMA CallSendBalance ==
    ASSUME ChanInv, NEW t \in Thread, NEW c \in DOMAIN channels, CallSend(t, c)
    PROVE  \A d \in Handle : Balanced(d)'
<1>1. /\ pc[t] = "run" /\ pc'[t] = "sendLookup" /\ arg'[t] = c
      /\ \A u \in Thread : u # t => pc'[u] = pc[u] /\ arg'[u] = arg[u]
    BY DEF CallSend, At, Goto, ChanInv, TypeOK
<1>2. UNCHANGED <<queue, recvs, taken>> /\ c \in Handle
    BY HandleInRange DEF CallSend, ChanInv
<1>3. sends'[c] = sends[c] + 1 /\ \A d \in Handle : d # c => sends'[d] = sends[d]
    BY <1>2 DEF CallSend, ChanInv, TypeOK
<1>4. ASSUME NEW d \in Handle PROVE Receiving(d)' = Receiving(d) /\ (d # c => Sending(d)' = Sending(d))
    <2>1. t \notin Receiving(d) /\ t \notin Receiving(d)' /\ t \notin Sending(d)
        BY <1>1 DEF Receiving, Sending
    <2>2. d # c => t \notin Sending(d)'
        BY <1>1 DEF Sending
    <2> QED  BY <1>1, <2>1, <2>2, SameCall
<1>5. Cardinality(Sending(c)) \in Nat /\ Cardinality(Sending(c)') = Cardinality(Sending(c)) + 1
    <2>1. t \notin Sending(c) /\ t \in Sending(c)'
        BY <1>1 DEF Sending
    <2>2. \A y : y # t => (y \in Sending(c) <=> y \in Sending(c)')
        BY <1>1, OthersStay
    <2> QED  BY <2>1, <2>2, ThreadFacts, CountMore
<1>6. Balanced(c)'
    <2>1. sends[c] = taken[c] + Len(queue[c]) + Cardinality(Sending(c))
          /\ taken[c] \in Nat /\ Len(queue[c]) \in Nat
        BY <1>2 DEF ChanInv, Balanced, TypeOK
    <2> PICK a \in Nat, b \in Nat, k \in Nat : a = taken[c] /\ b = Len(queue[c]) /\ k = Cardinality(Sending(c))
        BY <1>5, <2>1
    <2>2. sends'[c] = (a + b + k) + 1 /\ (a + b + k) + 1 = a + b + (k + 1)
        BY <1>3, <2>1
    <2>3. sends'[c] = taken'[c] + Len(queue'[c]) + Cardinality(Sending(c)')
        BY <1>2, <1>5, <2>2
    <2> QED  BY <1>2, <1>4, <2>3 DEF ChanInv, Balanced
<1> QED  BY <1>2, <1>3, <1>4, <1>6 DEF ChanInv, Balanced

\* sydney_channel_recv is called: one receiver more.
LEMMA CallRecvBalance ==
    ASSUME ChanInv, NEW t \in Thread, NEW c \in DOMAIN channels, CallRecv(t, c)
    PROVE  \A d \in Handle : Balanced(d)'
<1>1. /\ pc[t] = "run" /\ pc'[t] = "recvLookup" /\ arg'[t] = c
      /\ \A u \in Thread : u # t => pc'[u] = pc[u] /\ arg'[u] = arg[u]
    BY DEF CallRecv, At, Goto, ChanInv, TypeOK
<1>2. UNCHANGED <<queue, sends, taken>> /\ c \in Handle
    BY HandleInRange DEF CallRecv, ChanInv
<1>3. recvs'[c] = recvs[c] + 1 /\ \A d \in Handle : d # c => recvs'[d] = recvs[d]
    BY <1>2 DEF CallRecv, ChanInv, TypeOK
<1>4. ASSUME NEW d \in Handle PROVE Sending(d)' = Sending(d) /\ (d # c => Receiving(d)' = Receiving(d))
    <2>1. t \notin Sending(d) /\ t \notin Sending(d)' /\ t \notin Receiving(d)
        BY <1>1 DEF Receiving, Sending
    <2>2. d # c => t \notin Receiving(d)'
        BY <1>1 DEF Receiving
    <2> QED  BY <1>1, <2>1, <2>2, SameCall
<1>5. Cardinality(Receiving(c)) \in Nat /\ Cardinality(Receiving(c)') = Cardinality(Receiving(c)) + 1
    <2>1. t \notin Receiving(c) /\ t \in Receiving(c)'
        BY <1>1 DEF Receiving
    <2>2. \A y : y # t => (y \in Receiving(c) <=> y \in Receiving(c)')
        BY <1>1, OthersStay
    <2> QED  BY <2>1, <2>2, ThreadFacts, CountMore
<1>6. Balanced(c)'
    <2>1. recvs[c] = taken[c] + Cardinality(Receiving(c)) /\ taken[c] \in Nat
        BY <1>2 DEF ChanInv, Balanced, TypeOK
    <2> PICK a \in Nat, k \in Nat : a = taken[c] /\ k = Cardinality(Receiving(c))
        BY <1>5, <2>1
    <2>2. recvs'[c] = (a + k) + 1 /\ (a + k) + 1 = a + (k + 1)
        BY <1>3, <2>1
    <2>3. recvs'[c] = taken'[c] + Cardinality(Receiving(c)')
        BY <1>2, <1>5, <2>2
    <2> QED  BY <1>2, <1>4, <2>3 DEF ChanInv, Balanced
<1> QED  BY <1>2, <1>3, <1>4, <1>6 DEF ChanInv, Balanced

\* t leaves sydney_channel_send: one sender less on its channel.
LEMMA SenderLeaves ==
    ASSUME NEW t \in Thread, pc[t] \in SendPlace, pc'[t] = "run",
           arg' = arg, \A u \in Thread : u # t => (u \in Sending(arg[t]) <=> u \in Sending(arg[t])')
    PROVE  /\ Cardinality(Sending(arg[t])') \in Nat
           /\ Cardinality(Sending(arg[t])) = Cardinality(Sending(arg[t])') + 1
<1> PICK c : c = arg[t]
    OBVIOUS
<1>1. t \in Sending(c) /\ t \notin Sending(c)'
    BY DEF Sending, SendPlace
<1>2. \A y : y # t => (y \in Sending(c) <=> y \in Sending(c)')
    BY DEF Sending
<1>3. IsFiniteSet(Sending(c))
    BY ThreadFacts
<1>4. PICK A, B : A = Sending(c) /\ B = Sending(c)'
    OBVIOUS
<1>5. Cardinality(B) \in Nat /\ Cardinality(A) = Cardinality(B) + 1
    <2>1. t \in A /\ t \notin B /\ IsFiniteSet(A) /\ \A y : y # t => (y \in A <=> y \in B)
        BY <1>1, <1>2, <1>3, <1>4, Zenon
    <2> QED  BY <2>1, CountLess, Zenon
<1> QED  BY <1>4, <1>5

\* t leaves sydney_channel_recv: one receiver less on its channel.
LEMMA ReceiverLeaves ==
    ASSUME NEW t \in Thread, pc[t] \in RecvPlace, pc'[t] = "run",
           arg' = arg, \A u \in Thread : u # t => (u \in Receiving(arg[t]) <=> u \in Receiving(arg[t])')
    PROVE  /\ Cardinality(Receiving(arg[t])') \in Nat
           /\ Cardinality(Receiving(arg[t])) = Cardinality(Receiving(arg[t])') + 1
<1> PICK c : c = arg[t]
    OBVIOUS
<1>1. t \in Receiving(c) /\ t \notin Receiving(c)'
    BY DEF Receiving, RecvPlace
<1>2. \A y : y # t => (y \in Receiving(c) <=> y \in Receiving(c)')
    BY DEF Receiving
<1>3. IsFiniteSet(Receiving(c))
    BY ThreadFacts
<1>4. PICK A, B : A = Receiving(c) /\ B = Receiving(c)'
    OBVIOUS
<1>5. Cardinality(B) \in Nat /\ Cardinality(A) = Cardinality(B) + 1
    <2>1. t \in A /\ t \notin B /\ IsFiniteSet(A) /\ \A y : y # t => (y \in A <=> y \in B)
        BY <1>1, <1>2, <1>3, <1>4, Zenon
    <2> QED  BY <2>1, CountLess, Zenon
<1> QED  BY <1>4, <1>5

\* What is known of the channel a thread works on.
LEMMA WorksOn ==
    ASSUME ChanInv, NEW t \in Thread, pc[t] \in SendPlace \cup RecvPlace
    PROVE  /\ arg[t] \in DOMAIN channels /\ arg[t] \in Handle
           /\ taken[arg[t]] \in Nat /\ Len(queue[arg[t]]) \in Nat /\ queue[arg[t]] \in Seq(Thread)
           /\ Cardinality(Sending(arg[t])) \in Nat /\ Cardinality(Receiving(arg[t])) \in Nat
           /\ Balanced(arg[t]) /\ channels[arg[t]] \in Nat
<1>1. arg[t] \in DOMAIN channels
    BY DEF ChanInv, LocksHeld, SendPlace, RecvPlace
<1>2. arg[t] \in Handle
    BY <1>1, HandleInRange DEF ChanInv
<1>3. taken[arg[t]] \in Nat /\ queue[arg[t]] \in Seq(Thread)
    BY <1>2 DEF ChanInv, TypeOK
<1>4. Cardinality(Sending(arg[t])) \in Nat /\ Cardinality(Receiving(arg[t])) \in Nat
    BY ThreadFacts, FS_CardinalityType
<1>5. channels[arg[t]] \in Nat
    BY <1>1 DEF ChanInv, TypeOK
<1> QED  BY <1>1, <1>2, <1>3, <1>4, <1>5 DEF ChanInv

\* tx.send puts the value in: a sender less, a value more in the channel.
LEMMA SendPutBalance ==
    ASSUME ChanInv, NEW t \in Thread, SendPut(t)
    PROVE  \A d \in Handle : Balanced(d)'
<1> PICK c : c = arg[t]
    OBVIOUS
<1>1. /\ pc[t] = "send" /\ pc'[t] = "run" /\ arg' = arg
      /\ \A u \in Thread : u # t => pc'[u] = pc[u] /\ arg'[u] = arg[u]
      /\ UNCHANGED <<sends, recvs, taken>>
    BY DEF SendPut, At, Goto, ChanInv, TypeOK
<1>2. pc[t] \in SendPlace
    BY <1>1 DEF SendPlace
<1>3. /\ c \in Handle /\ queue[c] \in Seq(Thread) /\ taken[c] \in Nat
      /\ Balanced(c)
    BY <1>2, WorksOn
<1>4. /\ queue'[c] = Append(queue[c], t)
      /\ \A d \in Handle : d # c => queue'[d] = queue[d]
    BY <1>3 DEF SendPut, ChanInv, TypeOK
<1>5. Len(queue'[c]) = Len(queue[c]) + 1 /\ Len(queue[c]) \in Nat
    <2> PICK q \in Seq(Thread) : q = queue[c]
        BY <1>3
    <2>1. Len(Append(q, t)) = Len(q) + 1 /\ Len(q) \in Nat
        OBVIOUS
    <2> QED  BY <1>4, <2>1
<1>6. ASSUME NEW d \in Handle PROVE Receiving(d)' = Receiving(d) /\ (d # c => Sending(d)' = Sending(d))
    <2>1. t \notin Receiving(d) /\ t \notin Receiving(d)' /\ t \notin Sending(d)'
        BY <1>1 DEF Receiving, Sending
    <2>2. d # c => t \notin Sending(d)
        BY <1>1 DEF Sending
    <2> QED  BY <1>1, <2>1, <2>2, SameCall
<1>7. Cardinality(Sending(c)') \in Nat /\ Cardinality(Sending(c)) = Cardinality(Sending(c)') + 1
    BY <1>1, <1>2, OthersStay, SenderLeaves
<1>8. Balanced(c)'
    <2>p. PICK a \in Nat, b \in Nat, k \in Nat :
            a = taken[c] /\ b = Len(queue[c]) /\ k = Cardinality(Sending(c)')
        BY <1>3, <1>5, <1>7
    <2>0. sends[c] = taken[c] + Len(queue[c]) + Cardinality(Sending(c))
        BY <1>3 DEF Balanced
    <2>1. sends'[c] = a + b + (k + 1)
        BY <1>1, <1>7, <2>0, <2>p, Zenon
    <2>2. a + b + (k + 1) = a + (b + 1) + k
        OBVIOUS
    <2>3. sends'[c] = taken'[c] + Len(queue'[c]) + Cardinality(Sending(c)')
        BY <1>1, <1>5, <2>1, <2>2, <2>p, Zenon
    <2> QED  BY <1>1, <1>3, <1>6, <2>3 DEF Balanced
<1>9. ASSUME NEW d \in Handle, d # c PROVE Balanced(d)'
    <2>1. Balanced(d)
        BY DEF ChanInv
    <2> QED  BY <1>1, <1>4, <1>6, <1>9, <2>1 DEF Balanced
<1> QED  BY <1>8, <1>9

\* rx.recv takes a value out: a receiver less, the value has arrived.
LEMMA RecvTakeBalance ==
    ASSUME ChanInv, NEW t \in Thread, RecvTake(t)
    PROVE  \A d \in Handle : Balanced(d)'
<1> PICK c : c = arg[t]
    OBVIOUS
<1>1. /\ pc[t] = "recv" /\ pc'[t] = "run" /\ arg' = arg
      /\ \A u \in Thread : u # t => pc'[u] = pc[u] /\ arg'[u] = arg[u]
      /\ UNCHANGED <<sends, recvs>> /\ queue[c] # << >>
    BY DEF RecvTake, At, Goto, ChanInv, TypeOK
<1>2. pc[t] \in RecvPlace
    BY <1>1 DEF RecvPlace
<1>3. /\ c \in Handle /\ queue[c] \in Seq(Thread) /\ taken[c] \in Nat
      /\ Balanced(c)
    BY <1>2, WorksOn
<1>4. /\ queue'[c] = Tail(queue[c]) /\ taken'[c] = taken[c] + 1
      /\ \A d \in Handle : d # c => queue'[d] = queue[d] /\ taken'[d] = taken[d]
    BY <1>3 DEF RecvTake, ChanInv, TypeOK
<1>5. Len(queue[c]) = Len(queue'[c]) + 1 /\ Len(queue'[c]) \in Nat
    <2> PICK q \in Seq(Thread) : q = queue[c]
        BY <1>3
    <2>1. q # << >> => Len(q) = Len(Tail(q)) + 1 /\ Len(Tail(q)) \in Nat
        OBVIOUS
    <2> QED  BY <1>1, <1>4, <2>1
<1>6. ASSUME NEW d \in Handle PROVE Sending(d)' = Sending(d) /\ (d # c => Receiving(d)' = Receiving(d))
    <2>1. t \notin Sending(d) /\ t \notin Sending(d)' /\ t \notin Receiving(d)'
        BY <1>1 DEF Receiving, Sending
    <2>2. d # c => t \notin Receiving(d)
        BY <1>1 DEF Receiving
    <2> QED  BY <1>1, <2>1, <2>2, SameCall
<1>7. Cardinality(Receiving(c)') \in Nat /\ Cardinality(Receiving(c)) = Cardinality(Receiving(c)') + 1
    BY <1>1, <1>2, OthersStay, ReceiverLeaves
<1>8. Balanced(c)'
    <2>p. PICK a \in Nat, b \in Nat, k \in Nat, l \in Nat :
            /\ a = taken[c] /\ b = Len(queue'[c]) /\ k = Cardinality(Receiving(c)')
            /\ l = Cardinality(Sending(c))
        BY <1>2, <1>3, <1>5, <1>7, WorksOn
    <2>0. /\ sends[c] = taken[c] + Len(queue[c]) + Cardinality(Sending(c))
          /\ recvs[c] = taken[c] + Cardinality(Receiving(c))
        BY <1>3 DEF Balanced
    <2>1. sends'[c] = a + (b + 1) + l
        BY <1>1, <1>5, <2>0, <2>p, Zenon
    <2>2. recvs'[c] = a + (k + 1)
        BY <1>1, <1>7, <2>0, <2>p, Zenon
    <2>5. a + (b + 1) + l = (a + 1) + b + l /\ a + (k + 1) = (a + 1) + k
        OBVIOUS
    <2>3. sends'[c] = taken'[c] + Len(queue'[c]) + Cardinality(Sending(c)')
        BY <1>3, <1>4, <1>6, <2>1, <2>5, <2>p, Zenon
    <2>4. recvs'[c] = taken'[c] + Cardinality(Receiving(c)')
        BY <1>4, <2>2, <2>5, <2>p, Zenon
    <2> QED  BY <2>3, <2>4 DEF Balanced
<1>9. ASSUME NEW d \in Handle, d # c PROVE Balanced(d)'
    <2>1. Balanced(d)
        BY DEF ChanInv
    <2> QED  BY <1>1, <1>4, <1>6, <1>9, <2>1 DEF Balanced
<1> QED  BY <1>8, <1>9

\* A channel without buffer: sender and receiver leave together.
LEMMA RendezvousBalance ==
    ASSUME ChanInv, NEW t \in Thread, NEW u \in Thread, Rendezvous(t, u)
    PROVE  \A d \in Handle : Balanced(d)'
<1> PICK c : c = arg[t]
    OBVIOUS
<1>1. /\ pc[t] = "send" /\ pc[u] = "recv" /\ t # u /\ pc'[t] = "run" /\ pc'[u] = "run"
      /\ arg' = arg /\ arg[u] = c
      /\ \A v \in Thread : v # t /\ v # u => pc'[v] = pc[v]
      /\ UNCHANGED <<sends, recvs, queue>>
    BY DEF Rendezvous, At, ChanInv, TypeOK
<1>2. pc[t] \in SendPlace /\ pc[u] \in RecvPlace
    BY <1>1 DEF SendPlace, RecvPlace
<1>3. /\ c \in Handle /\ taken[c] \in Nat /\ Len(queue[c]) \in Nat
      /\ Balanced(c)
    BY <1>2, WorksOn
<1>4. taken'[c] = taken[c] + 1 /\ \A d \in Handle : d # c => taken'[d] = taken[d]
    BY <1>1, <1>3 DEF Rendezvous, ChanInv, TypeOK
<1>5. ASSUME NEW d \in Handle, d # c PROVE Sending(d)' = Sending(d) /\ Receiving(d)' = Receiving(d)
    <2>1. \A v \in Thread : v \in Sending(d)' <=> v \in Sending(d)
        BY <1>1, <1>5 DEF Sending
    <2>2. \A v \in Thread : v \in Receiving(d)' <=> v \in Receiving(d)
        BY <1>1, <1>5 DEF Receiving
    <2> QED  BY <2>1, <2>2 DEF Sending, Receiving
<1>6. Cardinality(Sending(c)') \in Nat /\ Cardinality(Sending(c)) = Cardinality(Sending(c)') + 1
    <2>1. \A v \in Thread : v # t => (v \in Sending(c) <=> v \in Sending(c)')
        BY <1>1 DEF Sending
    <2> QED  BY <1>1, <1>2, <2>1, SenderLeaves
<1>7. Cardinality(Receiving(c)') \in Nat /\ Cardinality(Receiving(c)) = Cardinality(Receiving(c)') + 1
    <2>1. \A v \in Thread : v # u => (v \in Receiving(c) <=> v \in Receiving(c)')
        BY <1>1 DEF Receiving
    <2> QED  BY <1>1, <1>2, <2>1, ReceiverLeaves
<1>8. Balanced(c)'
    <2>p. PICK a \in Nat, b \in Nat, k \in Nat, l \in Nat :
            /\ a = taken[c] /\ b = Len(queue[c]) /\ k = Cardinality(Receiving(c)')
            /\ l = Cardinality(Sending(c)')
        BY <1>3, <1>6, <1>7
    <2>0. /\ sends[c] = taken[c] + Len(queue[c]) + Cardinality(Sending(c))
          /\ recvs[c] = taken[c] + Cardinality(Receiving(c))
        BY <1>3 DEF Balanced
    <2>1. sends'[c] = a + b + (l + 1)
        BY <1>1, <1>6, <2>0, <2>p, Zenon
    <2>2. recvs'[c] = a + (k + 1)
        BY <1>1, <1>7, <2>0, <2>p, Zenon
    <2>5. a + b + (l + 1) = (a + 1) + b + l /\ a + (k + 1) = (a + 1) + k
        OBVIOUS
    <2>3. sends'[c] = taken'[c] + Len(queue'[c]) + Cardinality(Sending(c)')
        BY <1>1, <1>4, <2>1, <2>5, <2>p, Zenon
    <2>4. recvs'[c] = taken'[c] + Cardinality(Receiving(c)')
        BY <1>4, <2>2, <2>5, <2>p, Zenon
    <2> QED  BY <2>3, <2>4 DEF Balanced
<1>9. ASSUME NEW d \in Handle, d # c PROVE Balanced(d)'
    <2>1. Balanced(d)
        BY DEF ChanInv
    <2> QED  BY <1>1, <1>4, <1>5, <1>9, <2>1 DEF Balanced
<1> QED  BY <1>8, <1>9

\* The threads inside a block that keeps CHANNELS locked.
Looking == {"creating", "sendLooking", "recvLooking"}

\* The parts of LocksHeld for one thread.
ThreadLocks(t) ==
    /\ channelsLock = t <=> pc[t] \in Looking
    /\ \A c \in Handle : rxLock[c] = t <=> pc[t] = "recv" /\ arg[t] = c
    /\ pc[t] \in SendPlace \cup RecvPlace => arg[t] \in DOMAIN channels

Empty == \A c \in Handle : c \notin DOMAIN channels => queue[c] = << >>
Bounded == \A c \in Handle : c \in DOMAIN channels => Len(queue[c]) <= channels[c]

\* The invariant in these parts.
LEMMA LockParts == LocksHeld <=> (\A t \in Thread : ThreadLocks(t)) /\ Empty
BY DEF LocksHeld, ThreadLocks, Empty, Looking, SendPlace, RecvPlace

\* A step that leaves the table and the queues alone keeps the rest.
LEMMA TableStays ==
    ASSUME UNCHANGED <<channels, queue>>, Empty, Bounded
    PROVE  Empty' /\ Bounded'
BY DEF Empty, Bounded

\* Some call locks CHANNELS.
LEMMA LockChannelsLocks ==
    ASSUME ChanInv, NEW t \in Thread, NEW l \in {"create", "sendLookup", "recvLookup"},
           NEW m \in Looking, l = "create" <=> m = "creating", LockChannels(t, l, m)
    PROVE  \A u \in Thread : ThreadLocks(u)'
<1>1. \A u \in Thread : ThreadLocks(u)
    BY LockParts DEF ChanInv
<1>2. pc[t] = l /\ pc' = [pc EXCEPT ![t] = m] /\ channelsLock = Nobody /\ channelsLock' = t
      /\ UNCHANGED <<arg, rxLock, channels>> /\ pc \in [Thread -> Location]
    BY DEF LockChannels, At, Goto, ChanInv, TypeOK
<1>3. ASSUME NEW u \in Thread, u # t PROVE ThreadLocks(u)'
    <2>1. pc'[u] = pc[u] /\ channelsLock # u /\ channelsLock' # u
        BY <1>2, <1>3, ThreadFacts
    <2> QED  BY <1>1, <1>2, <2>1 DEF ThreadLocks
<1>4. ThreadLocks(t)'
    <2>1. pc'[t] = m /\ pc'[t] # "recv" /\ pc[t] # "recv"
        BY <1>2 DEF Looking
    <2>2. m \in SendPlace \cup RecvPlace => l \in SendPlace \cup RecvPlace
        BY DEF SendPlace, RecvPlace, Looking
    <2> QED  BY <1>1, <1>2, <2>1, <2>2 DEF ThreadLocks
<1> QED  BY <1>3, <1>4

\* The block ends and CHANNELS is given back.
LEMMA UnlockChannelsLocks ==
    ASSUME ChanInv, NEW t \in Thread, pc[t] \in Looking, channelsLock' = Nobody,
           NEW m \in {"run", "send", "recvRx"}, pc' = [pc EXCEPT ![t] = m],
           m # "run" => pc[t] # "creating",
           UNCHANGED <<arg, rxLock>>, DOMAIN channels \subseteq DOMAIN channels'
    PROVE  \A u \in Thread : ThreadLocks(u)'
<1>1. \A u \in Thread : ThreadLocks(u)
    BY LockParts DEF ChanInv
<1>2. pc \in [Thread -> Location] /\ channelsLock = t
    BY <1>1 DEF ChanInv, TypeOK, ThreadLocks
<1>3. ASSUME NEW u \in Thread, u # t PROVE ThreadLocks(u)'
    <2>1. pc'[u] = pc[u] /\ channelsLock # u /\ channelsLock' # u
        BY <1>2, <1>3, ThreadFacts
    <2> QED  BY <1>1, <2>1 DEF ThreadLocks
<1>4. ThreadLocks(t)'
    <2>1. pc'[t] = m /\ pc'[t] # "recv" /\ pc[t] # "recv" /\ m \notin Looking
        BY <1>2 DEF Looking
    <2>2. m \in SendPlace \cup RecvPlace => pc[t] \in SendPlace \cup RecvPlace
        BY DEF SendPlace, RecvPlace, Looking
    <2>3. channelsLock' # t
        BY ThreadFacts
    <2> QED  BY <1>1, <2>1, <2>2, <2>3 DEF ThreadLocks
<1> QED  BY <1>3, <1>4

\* A step of threads that hold no lock, to places outside send and recv.
LEMMA PlainLocks ==
    ASSUME ChanInv, UNCHANGED <<arg, channelsLock, rxLock, channels>>,
           \A u \in Thread : \/ pc'[u] = pc[u]
                             \/ /\ pc[u] \notin Looking /\ pc[u] # "recv"
                                /\ pc'[u] \notin Looking \cup SendPlace \cup RecvPlace
    PROVE  \A u \in Thread : ThreadLocks(u)'
<1>1. \A u \in Thread : ThreadLocks(u)
    BY LockParts DEF ChanInv
<1>2. "recv" \in RecvPlace
    BY DEF RecvPlace
<1> QED  BY <1>1, <1>2 DEF ThreadLocks

\* A call of send or recv on an existing channel.
LEMMA CallLocks ==
    ASSUME ChanInv, NEW t \in Thread, NEW c \in DOMAIN channels,
           CallSend(t, c) \/ CallRecv(t, c)
    PROVE  \A u \in Thread : ThreadLocks(u)'
<1>1. \A u \in Thread : ThreadLocks(u)
    BY LockParts DEF ChanInv
<1>2. /\ pc[t] = "run" /\ pc'[t] \in {"sendLookup", "recvLookup"} /\ arg'[t] = c
      /\ \A u \in Thread : u # t => pc'[u] = pc[u] /\ arg'[u] = arg[u]
      /\ UNCHANGED <<channelsLock, rxLock, channels>>
    BY DEF CallSend, CallRecv, At, Goto, ChanInv, TypeOK
<1>3. ASSUME NEW u \in Thread, u # t PROVE ThreadLocks(u)'
    BY <1>1, <1>2, <1>3 DEF ThreadLocks
<1>4. ThreadLocks(t)'
    <2>1. pc[t] \notin Looking /\ pc'[t] \notin Looking /\ pc[t] # "recv" /\ pc'[t] # "recv"
        BY <1>2 DEF Looking
    <2> QED  BY <1>1, <1>2, <2>1 DEF ThreadLocks
<1> QED  BY <1>3, <1>4

\* ch.rx is locked.
LEMMA RecvRxLockLocks ==
    ASSUME ChanInv, NEW t \in Thread, RecvRxLock(t)
    PROVE  \A u \in Thread : ThreadLocks(u)'
<1>1. \A u \in Thread : ThreadLocks(u)
    BY LockParts DEF ChanInv
<1>2. /\ pc[t] = "recvRx" /\ pc'[t] = "recv" /\ \A u \in Thread : u # t => pc'[u] = pc[u]
      /\ UNCHANGED <<arg, channelsLock, channels>> /\ rxLock[arg[t]] = Nobody
    BY DEF RecvRxLock, At, Goto, ChanInv, TypeOK
<1>3. pc[t] \in SendPlace \cup RecvPlace
    BY <1>2 DEF RecvPlace
<1>4. /\ arg[t] \in Handle /\ rxLock'[arg[t]] = t
      /\ \A d \in Handle : d # arg[t] => rxLock'[d] = rxLock[d]
    BY <1>3, WorksOn DEF RecvRxLock, ChanInv, TypeOK
<1>5. ASSUME NEW u \in Thread, u # t PROVE ThreadLocks(u)'
    <2>1. \A d \in Handle : rxLock'[d] = u <=> rxLock[d] = u
        BY <1>2, <1>4, <1>5, ThreadFacts
    <2> QED  BY <1>1, <1>2, <1>5, <2>1 DEF ThreadLocks
<1>6. ThreadLocks(t)'
    <2>1. pc[t] \notin Looking /\ pc'[t] \notin Looking /\ pc[t] # "recv"
        BY <1>2 DEF Looking
    <2>2. \A d \in Handle : rxLock[d] # t
        BY <1>1, <2>1 DEF ThreadLocks
    <2>3. \A d \in Handle : rxLock'[d] = t <=> arg[t] = d
        BY <1>4, <2>2
    <2> QED  BY <1>1, <1>2, <1>3, <2>1, <2>3 DEF ThreadLocks
<1> QED  BY <1>5, <1>6

\* rx.recv returns and ch.rx is given back; a sender may return with it.
LEMMA UnlockRxLocks ==
    ASSUME ChanInv, NEW t \in Thread, NEW u \in Thread, pc[t] = "recv", pc'[t] = "run",
           u # t => pc[u] = "send" /\ pc'[u] = "run",
           \A v \in Thread : v # t /\ v # u => pc'[v] = pc[v],
           rxLock' = [rxLock EXCEPT ![arg[t]] = Nobody], UNCHANGED <<arg, channelsLock, channels>>
    PROVE  \A v \in Thread : ThreadLocks(v)'
<1>1. \A v \in Thread : ThreadLocks(v)
    BY LockParts DEF ChanInv
<1>2. pc[t] \in SendPlace \cup RecvPlace
    BY DEF RecvPlace
<1>3. /\ arg[t] \in Handle /\ rxLock'[arg[t]] = Nobody /\ rxLock[arg[t]] = t
      /\ \A d \in Handle : d # arg[t] => rxLock'[d] = rxLock[d]
    BY <1>1, <1>2, WorksOn DEF ThreadLocks, ChanInv, TypeOK
<1>4. "run" \notin Looking \cup SendPlace \cup RecvPlace /\ "send" \notin Looking /\ "recv" \notin Looking
    BY DEF Looking, SendPlace, RecvPlace
<1>5. ASSUME NEW v \in Thread, v # t PROVE ThreadLocks(v)'
    <2>1. \A d \in Handle : rxLock'[d] = v <=> rxLock[d] = v
        BY <1>3, <1>5, ThreadFacts
    <2>2. \/ pc'[v] = pc[v]
          \/ pc'[v] = "run" /\ pc[v] = "send"
        BY <1>5
    <2> QED  BY <1>1, <1>4, <2>1, <2>2 DEF ThreadLocks
<1>6. ThreadLocks(t)'
    <2>1. \A d \in Handle : rxLock'[d] # t
        BY <1>1, <1>3, ThreadFacts DEF ThreadLocks
    <2>2. channelsLock # t
        BY <1>1, <1>4 DEF ThreadLocks
    <2> QED  BY <1>1, <1>4, <2>1, <2>2 DEF ThreadLocks
<1> QED  BY <1>5, <1>6

\* A value is put in: there was room.
LEMMA SendPutTable ==
    ASSUME ChanInv, Empty, Bounded, NEW t \in Thread, SendPut(t)
    PROVE  Empty' /\ Bounded'
<1>1. pc[t] = "send" /\ channels' = channels
    BY DEF SendPut, At
<1>2. pc[t] \in SendPlace \cup RecvPlace
    BY <1>1 DEF SendPlace
<1> PICK c : c = arg[t]
    OBVIOUS
<1>3. c \in Handle /\ c \in DOMAIN channels /\ queue[c] \in Seq(Thread) /\ channels[c] \in Nat
    BY <1>2, WorksOn
<1>4. /\ queue'[c] = Append(queue[c], t) /\ Len(queue[c]) < channels[c]
      /\ \A d \in Handle : d # c => queue'[d] = queue[d]
    BY <1>3 DEF SendPut, ChanInv, TypeOK
<1>5. Len(queue'[c]) <= channels[c]
    <2>1. PICK q \in Seq(Thread), n \in Nat : q = queue[c] /\ n = channels[c]
        BY <1>3
    <2>2. Len(q) < n => Len(Append(q, t)) <= n
        OBVIOUS
    <2> QED  BY <1>4, <2>1, <2>2
<1> QED  BY <1>1, <1>3, <1>4, <1>5 DEF Empty, Bounded

\* A value is taken out.
LEMMA RecvTakeTable ==
    ASSUME ChanInv, Empty, Bounded, NEW t \in Thread, RecvTake(t)
    PROVE  Empty' /\ Bounded'
<1>1. pc[t] = "recv" /\ channels' = channels
    BY DEF RecvTake, At
<1>2. pc[t] \in SendPlace \cup RecvPlace
    BY <1>1 DEF RecvPlace
<1> PICK c : c = arg[t]
    OBVIOUS
<1>3. c \in Handle /\ c \in DOMAIN channels /\ queue[c] \in Seq(Thread) /\ channels[c] \in Nat
    BY <1>2, WorksOn
<1>4. /\ queue'[c] = Tail(queue[c]) /\ queue[c] # << >>
      /\ \A d \in Handle : d # c => queue'[d] = queue[d]
    BY <1>3 DEF RecvTake, ChanInv, TypeOK
<1>5. Len(queue'[c]) <= channels[c]
    <2>1. PICK q \in Seq(Thread), n \in Nat : q = queue[c] /\ n = channels[c]
        BY <1>3
    <2>2. q # << >> /\ Len(q) <= n => Len(Tail(q)) <= n
        OBVIOUS
    <2> QED  BY <1>3, <1>4, <2>1, <2>2 DEF Bounded
<1> QED  BY <1>1, <1>3, <1>4, <1>5 DEF Empty, Bounded

\* A channel is added: its queue is empty.
LEMMA CreatePushTable ==
    ASSUME ChanInv, Empty, Bounded, NEW t \in Thread, CreatePush(t)
    PROVE  Empty' /\ Bounded' /\ DOMAIN channels \subseteq DOMAIN channels'
<1>1. PICK cap \in Nat : channels' = Append(channels, cap)
    BY NativeCapacities DEF CreatePush
<1>2. queue' = queue /\ channels \in Seq(Nat)
    BY DEF CreatePush, ChanInv, TypeOK
<1>3. /\ DOMAIN channels \subseteq DOMAIN channels'
      /\ \A c \in DOMAIN channels : channels'[c] = channels[c]
      /\ \A c \in DOMAIN channels' : c \notin DOMAIN channels => channels'[c] = cap
    BY <1>1, <1>2
<1>4. Empty'
    BY <1>2, <1>3 DEF Empty
<1>5. ASSUME NEW c \in Handle, c \in DOMAIN channels', c \notin DOMAIN channels
      PROVE  Len(queue[c]) <= channels'[c]
    <2>1. queue[c] = << >> /\ channels'[c] \in Nat
        BY <1>3, <1>5 DEF Empty
    <2> QED  BY <2>1
<1>6. Bounded'
    BY <1>2, <1>3, <1>5 DEF Bounded
<1> QED  BY <1>3, <1>4, <1>6

\* What a step has to keep besides the types.
Kept == (\A u \in Thread : ThreadLocks(u)) /\ Empty /\ Bounded /\ \A c \in Handle : Balanced(c)

LEMMA ChanParts == ChanInv <=> TypeOK /\ Kept
BY LockParts DEF ChanInv, Kept, Bounded

\* A step of threads that are neither in a call on a channel nor in the table.
LEMMA PlainStep ==
    ASSUME ChanInv, UNCHANGED <<arg, chanVars>>,
           \A u \in Thread : \/ pc'[u] = pc[u]
                             \/ /\ pc[u] \notin Looking \cup SendPlace \cup RecvPlace
                                /\ pc'[u] \notin Looking \cup SendPlace \cup RecvPlace
    PROVE  Kept'
<1>1. Empty /\ Bounded /\ \A c \in Handle : Balanced(c)
    BY ChanParts DEF Kept
<1>2. UNCHANGED <<arg, channelsLock, rxLock, channels, queue, sends, recvs, taken>>
    BY DEF chanVars
<1>3. \A u \in Thread : ThreadLocks(u)'
    <2>1. "recv" \in RecvPlace
        BY DEF RecvPlace
    <2> QED  BY <1>2, <2>1, PlainLocks
<1>4. Empty' /\ Bounded'
    BY <1>1, <1>2, TableStays
<1>5. \A c \in Handle : Balanced(c)'
    BY <1>1, <1>2, QuietBalance
<1> QED  BY <1>3, <1>4, <1>5 DEF Kept

\* The steps outside the channels.  A spawned thread was not born yet, so it
\* is in no call.
LEMMA OutsideSteps ==
    ASSUME ChanInv, HandlesKept, NEW t \in Thread,
           CallCreate(t) \/ CallSpawn(t) \/ Return(t) \/ PushHandle(t) \/ MainEnd \/ JoinAll
    PROVE  Kept'
<1>0. pc \in [Thread -> Location] /\ Main \in Thread
    BY ThreadFacts DEF ChanInv, TypeOK
<1>1. {"unborn", "run", "create", "spawn", "done", "joinLock", "joining", "shutdown", "exited"}
         \cap (Looking \cup SendPlace \cup RecvPlace) = {}
    BY DEF Looking, SendPlace, RecvPlace
<1>2. UNCHANGED <<arg, chanVars>>
    BY DEF CallCreate, CallSpawn, Return, PushHandle, MainEnd, JoinAll, JoinLock, JoinOne,
           JoinDone, Shutdown
<1>3. CASE CallSpawn(t)
    <2>1. nthreads \in Nat /\ nthreads < MaxThreads
        BY <1>3 DEF CallSpawn, ChanInv, TypeOK
    <2>2. nthreads + 1 \in Thread /\ nthreads + 1 > nthreads
        BY <2>1, NativeBounds DEF Thread, Main
    <2>3. pc[nthreads + 1] = "unborn" /\ pc[t] = "run"
        BY <1>3, <2>2 DEF HandlesKept, CallSpawn, At
    <2>4. \A u \in Thread : \/ pc'[u] = pc[u]
                            \/ pc[u] \in {"unborn", "run"} /\ pc'[u] \in {"run", "spawn"}
        BY <1>0, <1>3, <2>2, <2>3 DEF CallSpawn
    <2> QED  BY <1>1, <1>2, <2>4, PlainStep
<1>4. CASE CallCreate(t) \/ Return(t) \/ PushHandle(t)
    <2>1. \A u \in Thread : \/ pc'[u] = pc[u]
                            \/ pc[u] \in {"run", "spawn"} /\ pc'[u] \in {"create", "done", "run"}
        BY <1>0, <1>4 DEF CallCreate, Return, PushHandle, At, Goto
    <2> QED  BY <1>1, <1>2, <2>1, PlainStep
<1>5. CASE MainEnd \/ JoinAll
    <2>1. \A u \in Thread : \/ pc'[u] = pc[u]
                            \/ /\ pc[u] \in {"run", "joinLock", "joining", "shutdown"}
                               /\ pc'[u] \in {"joinLock", "joining", "shutdown", "exited"}
        BY <1>0, <1>5 DEF MainEnd, JoinAll, JoinLock, JoinOne, JoinDone, Shutdown, At, Goto
    <2> QED  BY <1>1, <1>2, <2>1, PlainStep
<1> QED  BY <1>3, <1>4, <1>5

\* The steps on the table of channels.
LEMMA TableSteps ==
    ASSUME ChanInv, NEW t \in Thread,
           \/ CreateLock(t) \/ SendLock(t) \/ RecvLock(t)
           \/ CreatePush(t) \/ SendClone(t) \/ RecvClone(t)
    PROVE  Kept'
<1>0. /\ pc \in [Thread -> Location] /\ Empty /\ Bounded /\ \A c \in Handle : Balanced(c)
    BY ChanParts DEF ChanInv, TypeOK, Kept
<1>1. UNCHANGED <<arg, sends, recvs, taken, queue, rxLock>>
    BY DEF CreateLock, SendLock, RecvLock, LockChannels, CreatePush, SendClone, RecvClone
<1>2. PICK l, m : /\ pc[t] = l /\ pc' = [pc EXCEPT ![t] = m]
                  /\ <<l, m>> \in {<<"create", "creating">>, <<"sendLookup", "sendLooking">>,
                                   <<"recvLookup", "recvLooking">>, <<"creating", "run">>,
                                   <<"sendLooking", "send">>, <<"recvLooking", "recvRx">>}
    BY DEF CreateLock, SendLock, RecvLock, LockChannels, CreatePush, SendClone, RecvClone, At, Goto
<1>3. \A c \in Handle : Balanced(c)'
    <2>1. (l \in SendPlace <=> m \in SendPlace) /\ (l \in RecvPlace <=> m \in RecvPlace)
        BY <1>2 DEF SendPlace, RecvPlace
    <2>2. \A u \in Thread : /\ pc'[u] \in SendPlace <=> pc[u] \in SendPlace
                            /\ pc'[u] \in RecvPlace <=> pc[u] \in RecvPlace
        BY <1>0, <1>2, <2>1
    <2> QED  BY <1>0, <1>1, <2>2, QuietBalance
<1>4. CASE CreateLock(t) \/ SendLock(t) \/ RecvLock(t)
    <2>1. \A u \in Thread : ThreadLocks(u)'
        BY <1>4, LockChannelsLocks DEF CreateLock, SendLock, RecvLock, Looking
    <2>2. channels' = channels
        BY <1>4 DEF CreateLock, SendLock, RecvLock, LockChannels
    <2> QED  BY <1>0, <1>1, <1>3, <2>1, <2>2, TableStays DEF Kept
<1>5. CASE SendClone(t) \/ RecvClone(t)
    <2>1. channels' = channels /\ channelsLock' = Nobody
        BY <1>5 DEF SendClone, RecvClone
    <2>2. \/ pc[t] = "sendLooking" /\ pc' = [pc EXCEPT ![t] = "send"]
          \/ pc[t] = "recvLooking" /\ pc' = [pc EXCEPT ![t] = "recvRx"]
        BY <1>5 DEF SendClone, RecvClone, At, Goto
    <2>3. \A u \in Thread : ThreadLocks(u)'
        BY <1>1, <2>1, <2>2, UnlockChannelsLocks DEF Looking
    <2> QED  BY <1>0, <1>1, <1>3, <2>1, <2>3, TableStays DEF Kept
<1>6. CASE CreatePush(t)
    <2>1. channelsLock' = Nobody /\ pc[t] = "creating" /\ pc' = [pc EXCEPT ![t] = "run"]
        BY <1>6 DEF CreatePush, At, Goto
    <2>2. Empty' /\ Bounded' /\ DOMAIN channels \subseteq DOMAIN channels'
        BY <1>0, <1>6, CreatePushTable
    <2>3. \A u \in Thread : ThreadLocks(u)'
        BY <1>1, <2>1, <2>2, UnlockChannelsLocks DEF Looking
    <2> QED  BY <1>3, <2>2, <2>3 DEF Kept
<1> QED  BY <1>4, <1>5, <1>6

\* The steps of send and recv.
LEMMA CallSteps ==
    ASSUME ChanInv, NEW t \in Thread,
           \/ \E c \in DOMAIN channels : CallSend(t, c) \/ CallRecv(t, c)
           \/ SendPut(t) \/ RecvRxLock(t) \/ RecvTake(t)
           \/ \E u \in Thread : Rendezvous(t, u)
    PROVE  Kept'
<1>0. /\ pc \in [Thread -> Location] /\ Empty /\ Bounded /\ \A c \in Handle : Balanced(c)
    BY ChanParts DEF ChanInv, TypeOK, Kept
<1>1. ASSUME NEW c \in DOMAIN channels, CallSend(t, c) \/ CallRecv(t, c)
      PROVE  Kept'
    <2>1. UNCHANGED <<channels, queue>>
        BY <1>1 DEF CallSend, CallRecv
    <2>2. \A u \in Thread : ThreadLocks(u)'
        BY <1>1, CallLocks
    <2>3. \A d \in Handle : Balanced(d)'
        BY <1>1, CallSendBalance, CallRecvBalance
    <2> QED  BY <1>0, <2>1, <2>2, <2>3, TableStays DEF Kept
<1>2. CASE SendPut(t)
    <2>1. \A u \in Thread : \/ pc'[u] = pc[u]
                            \/ pc[u] = "send" /\ pc'[u] = "run"
        BY <1>0, <1>2 DEF SendPut, At, Goto
    <2>2. UNCHANGED <<arg, channelsLock, rxLock, channels>>
        BY <1>2 DEF SendPut
    <2>3. \A u \in Thread : ThreadLocks(u)'
        BY <2>1, <2>2, PlainLocks DEF Looking, SendPlace, RecvPlace
    <2> QED  BY <1>0, <1>2, <2>3, SendPutTable, SendPutBalance DEF Kept
<1>3. CASE RecvRxLock(t)
    <2>1. UNCHANGED <<arg, sends, recvs, taken, channels, queue>>
        BY <1>3 DEF RecvRxLock
    <2>2. pc[t] = "recvRx" /\ pc' = [pc EXCEPT ![t] = "recv"]
        BY <1>3 DEF RecvRxLock, At, Goto
    <2>3. \A u \in Thread : /\ pc'[u] \in SendPlace <=> pc[u] \in SendPlace
                            /\ pc'[u] \in RecvPlace <=> pc[u] \in RecvPlace
        BY <1>0, <2>2 DEF SendPlace, RecvPlace
    <2>4. \A c \in Handle : Balanced(c)'
        BY <1>0, <2>1, <2>3, QuietBalance
    <2>5. Empty' /\ Bounded'
        BY <1>0, <2>1, TableStays
    <2> QED  BY <1>3, <2>4, <2>5, RecvRxLockLocks DEF Kept
<1>4. CASE RecvTake(t)
    <2>1. /\ pc[t] = "recv" /\ pc'[t] = "run" /\ \A v \in Thread : v # t => pc'[v] = pc[v]
          /\ rxLock' = [rxLock EXCEPT ![arg[t]] = Nobody] /\ UNCHANGED <<arg, channelsLock, channels>>
        BY <1>0, <1>4 DEF RecvTake, At, Goto
    <2>2. \A v \in Thread : ThreadLocks(v)'
        BY <2>1, UnlockRxLocks
    <2> QED  BY <1>0, <1>4, <2>2, RecvTakeTable, RecvTakeBalance DEF Kept
<1>5. ASSUME NEW u \in Thread, Rendezvous(t, u)
      PROVE  Kept'
    <2>1. /\ pc[u] = "recv" /\ pc[t] = "send" /\ pc'[u] = "run" /\ pc'[t] = "run"
          /\ \A v \in Thread : v # t /\ v # u => pc'[v] = pc[v]
          /\ rxLock' = [rxLock EXCEPT ![arg[u]] = Nobody]
          /\ UNCHANGED <<arg, channelsLock, channels, queue>>
        BY <1>0, <1>5 DEF Rendezvous, At
    <2>2. \A v \in Thread : ThreadLocks(v)'
        BY <2>1, UnlockRxLocks
    <2>3. Empty' /\ Bounded'
        BY <1>0, <2>1, TableStays
    <2> QED  BY <1>5, <2>2, <2>3, RendezvousBalance DEF Kept
<1> QED  BY <1>1, <1>2, <1>3, <1>4, <1>5

\* Nothing was sent yet.
LEMMA ChanStart == Init => Kept
<1> SUFFICES ASSUME Init PROVE Kept
    OBVIOUS
<1>1. \A u \in Thread : pc[u] \in {"run", "unborn"}
    BY DEF Init
<1>2. \A u \in Thread : ThreadLocks(u)
    BY <1>1, ThreadFacts DEF Init, ThreadLocks, Looking, SendPlace, RecvPlace
<1>3. Empty /\ Bounded
    BY DEF Init, Empty, Bounded
<1>4. ASSUME NEW c \in Handle PROVE Balanced(c)
    <2>1. Sending(c) = {} /\ Receiving(c) = {}
        BY <1>1 DEF Sending, Receiving
    <2>2. Cardinality(Sending(c)) = 0 /\ Cardinality(Receiving(c)) = 0
        BY <2>1, FS_EmptySet
    <2>3. sends[c] = 0 /\ recvs[c] = 0 /\ taken[c] = 0 /\ Len(queue[c]) = 0
        BY DEF Init
    <2> QED  BY <2>2, <2>3 DEF Balanced
<1> QED  BY <1>2, <1>3, <1>4 DEF Kept

(* No value is lost or delivered twice, whatever the number of threads and *)
(* channels and however the calls interleave: a value is with its sender,  *)
(* in the channel or with a receiver, the channel keeps its capacity, and  *)
(* one receiver at a time is inside rx.recv.                               *)
THEOREM NativeValuesConserved == Spec => []ValuesConserved
<1>1. TypeOK /\ TypeOK' /\ HandlesKept /\ Kept /\ [Next]_vars => Kept'
    <2> SUFFICES ASSUME TypeOK, HandlesKept, Kept, [Next]_vars
                 PROVE  Kept'
        OBVIOUS
    <2>1. ChanInv
        BY ChanParts
    <2>2. CASE UNCHANGED vars
        BY <2>1, <2>2, PlainStep DEF vars
    <2>3. ASSUME NEW t \in Thread, Program(t) \/ Runtime(t)
          PROVE  Kept'
        BY <2>1, <2>3, OutsideSteps, TableSteps, CallSteps DEF Program, Runtime
    <2>4. CASE MainEnd \/ JoinAll
        BY <2>1, <2>4, OutsideSteps, ThreadFacts
    <2> QED  BY <2>2, <2>3, <2>4 DEF Next
<1>2. TypeOK /\ Kept => ValuesConserved
    BY ChanParts, Conserved
<1> QED  BY <1>1, <1>2, ChanStart, NativeTypeCorrect, MainWaitsForAll, PTL DEF Spec
================================================================================
