----------------------------- MODULE NativeRuntime -----------------------------
(***************************************************************************)
(* Concurrency of compiled programs: sydney_rt/src/channel.rs, called from *)
(* the code that irgen/emitter.go emits (emitSpawn, emitSend, emitReceive, *)
(* emitChannelConstructor and the end of main in mainWrapper).             *)
(*                                                                         *)
(* Every fiber is an OS thread.  Two global mutexes, CHANNELS and THREADS, *)
(* guard the table of channels and the list of join handles; each channel  *)
(* has a mutex rx that a receiver keeps while it waits for a value.        *)
(* std::sync (Mutex, mpsc::sync_channel) and std::thread are external.     *)
(* Programs are arbitrary: a thread in "run" may call any entry point.     *)
(***************************************************************************)
EXTENDS Integers, Sequences, FiniteSets

CONSTANTS MaxThreads,  \* bound on the threads a program spawns
          MaxChans,    \* bound on the channels it creates
          Capacities,  \* the buffer sizes it asks for
          MaxOps       \* bound on sends, and on receives, per channel

ASSUME NativeBounds == MaxThreads \in Nat /\ MaxChans \in Nat /\ MaxOps \in Nat
ASSUME NativeCapacities == Capacities \subseteq Nat

Main   == 0
Thread == Main .. MaxThreads
Handle == 1 .. MaxChans
Nobody == -1

VARIABLES
    pc,            \* where each thread is
    arg,           \* the channel of the send or receive it is in
    child,         \* the thread whose handle sydney_spawn has not pushed yet
    nthreads,      \* threads spawned so far
    channels,      \* CHANNELS: the capacity of every channel
    channelsLock,  \* the owner of the mutex CHANNELS
    rxLock,        \* the owner of ch.rx
    queue,         \* the values in the sync_channel
    threads,       \* THREADS: join handles
    threadsLock,   \* the owner of the mutex THREADS
    joining,       \* handles drained by sydney_join_all and not yet joined
    sends,         \* sends[c]: sends started on c
    recvs,         \* recvs[c]: receives started on c
    taken          \* taken[c]: values that reached a receiver of c

chanVars == <<channels, channelsLock, rxLock, queue, sends, recvs, taken>>
joinVars == <<threads, threadsLock, joining>>
vars == <<pc, arg, child, nthreads, chanVars, joinVars>>

Location == {"unborn", "run", "create", "creating",
             "sendLookup", "sendLooking", "send",
             "recvLookup", "recvLooking", "recvRx", "recv",
             "spawn", "joinLock", "joining", "shutdown", "exited", "done"}

Init ==
    /\ pc = [t \in Thread |-> IF t = Main THEN "run" ELSE "unborn"]
    /\ arg = [t \in Thread |-> 0]
    /\ child = [t \in Thread |-> Nobody]
    /\ nthreads = 0
    /\ channels = << >>
    /\ channelsLock = Nobody
    /\ rxLock = [c \in Handle |-> Nobody]
    /\ queue = [c \in Handle |-> << >>]
    /\ threads = << >>
    /\ threadsLock = Nobody
    /\ joining = << >>
    /\ sends = [c \in Handle |-> 0]
    /\ recvs = [c \in Handle |-> 0]
    /\ taken = [c \in Handle |-> 0]

Goto(t, l) == pc' = [pc EXCEPT ![t] = l]

\* The process runs until main returns.
Alive == pc[Main] # "exited"

At(t, l) == Alive /\ pc[t] = l

--------------------------------------------------------------------------------
(* The table of channels.                                                  *)

\* Some thread waits for CHANNELS at l and gets it.
LockChannels(t, l, m) ==
    /\ At(t, l)
    /\ channelsLock = Nobody
    /\ channelsLock' = t
    /\ Goto(t, m)
    /\ UNCHANGED <<arg, child, nthreads, channels, rxLock, queue, sends, recvs,
                   taken, joinVars>>

\* sydney_channel_create: the channel gets the next free index.  The bound on
\* the channels counts those being created.
Creating == {t \in Thread : pc[t] \in {"create", "creating"}}

CallCreate(t) ==
    /\ At(t, "run")
    /\ Len(channels) + Cardinality(Creating) < MaxChans
    /\ Goto(t, "create")
    /\ UNCHANGED <<arg, child, nthreads, chanVars, joinVars>>

CreateLock(t) == LockChannels(t, "create", "creating")

CreatePush(t) ==
    /\ At(t, "creating")
    /\ Len(channels) < MaxChans
    /\ \E cap \in Capacities : channels' = Append(channels, cap)
    /\ channelsLock' = Nobody
    /\ Goto(t, "run")
    /\ UNCHANGED <<arg, child, nthreads, rxLock, queue, sends, recvs, taken, joinVars>>

--------------------------------------------------------------------------------
(* sydney_channel_send: the sender is cloned under the lock and used       *)
(* outside it.                                                             *)

CallSend(t, c) ==
    /\ At(t, "run")
    /\ sends[c] < MaxOps
    /\ sends' = [sends EXCEPT ![c] = @ + 1]
    /\ arg' = [arg EXCEPT ![t] = c]
    /\ Goto(t, "sendLookup")
    /\ UNCHANGED <<child, nthreads, channels, channelsLock, rxLock, queue, recvs,
                   taken, joinVars>>

SendLock(t) == LockChannels(t, "sendLookup", "sendLooking")

\* Mutant: the value is sent while the guard is still alive.
MutSendClone(t) ==
    /\ At(t, "sendLooking")
    /\ Len(queue[arg[t]]) < channels[arg[t]]
    /\ queue' = [queue EXCEPT ![arg[t]] = Append(@, t)]
    /\ channelsLock' = Nobody
    /\ Goto(t, "run")
    /\ UNCHANGED <<arg, child, nthreads, channels, rxLock, sends, recvs, taken, joinVars>>

SendClone(t) ==
    /\ At(t, "sendLooking")
    /\ channelsLock' = Nobody
    /\ Goto(t, "send")
    /\ UNCHANGED <<arg, child, nthreads, channels, rxLock, queue, sends, recvs,
                   taken, joinVars>>

\* tx.send on a bounded channel: the value goes in when there is room.
SendPut(t) ==
    /\ At(t, "send")
    /\ Len(queue[arg[t]]) < channels[arg[t]]
    /\ queue' = [queue EXCEPT ![arg[t]] = Append(@, t)]
    /\ Goto(t, "run")
    /\ UNCHANGED <<arg, child, nthreads, channels, channelsLock, rxLock, sends,
                   recvs, taken, joinVars>>

--------------------------------------------------------------------------------
(* sydney_channel_recv: the channel is looked up under CHANNELS, its       *)
(* receiver used under its own mutex.                                      *)

CallRecv(t, c) ==
    /\ At(t, "run")
    /\ recvs[c] < MaxOps
    /\ recvs' = [recvs EXCEPT ![c] = @ + 1]
    /\ arg' = [arg EXCEPT ![t] = c]
    /\ Goto(t, "recvLookup")
    /\ UNCHANGED <<child, nthreads, channels, channelsLock, rxLock, queue, sends,
                   taken, joinVars>>

RecvLock(t) == LockChannels(t, "recvLookup", "recvLooking")

RecvClone(t) ==
    /\ At(t, "recvLooking")
    /\ channelsLock' = Nobody
    /\ Goto(t, "recvRx")
    /\ UNCHANGED <<arg, child, nthreads, channels, rxLock, queue, sends, recvs,
                   taken, joinVars>>

\* Mutant: the receiver is used without its mutex.
MutRecvRxLock(t) ==
    /\ At(t, "recvRx")
    /\ rxLock' = [rxLock EXCEPT ![arg[t]] = t]
    /\ Goto(t, "recv")
    /\ UNCHANGED <<arg, child, nthreads, channels, channelsLock, queue, sends,
                   recvs, taken, joinVars>>

RecvRxLock(t) ==
    /\ At(t, "recvRx")
    /\ rxLock[arg[t]] = Nobody
    /\ rxLock' = [rxLock EXCEPT ![arg[t]] = t]
    /\ Goto(t, "recv")
    /\ UNCHANGED <<arg, child, nthreads, channels, channelsLock, queue, sends,
                   recvs, taken, joinVars>>

\* Mutant: the guard of ch.rx is not dropped.
MutRecvTake(t) ==
    /\ At(t, "recv")
    /\ queue[arg[t]] # << >>
    /\ queue' = [queue EXCEPT ![arg[t]] = Tail(@)]
    /\ taken' = [taken EXCEPT ![arg[t]] = @ + 1]
    /\ Goto(t, "run")
    /\ UNCHANGED <<arg, child, nthreads, channels, channelsLock, rxLock, sends,
                   recvs, joinVars>>

\* rx.recv finds a value; the guard is dropped on return.
RecvTake(t) ==
    /\ At(t, "recv")
    /\ queue[arg[t]] # << >>
    /\ queue' = [queue EXCEPT ![arg[t]] = Tail(@)]
    /\ taken' = [taken EXCEPT ![arg[t]] = @ + 1]
    /\ rxLock' = [rxLock EXCEPT ![arg[t]] = Nobody]
    /\ Goto(t, "run")
    /\ UNCHANGED <<arg, child, nthreads, channels, channelsLock, sends, recvs, joinVars>>

\* A channel of capacity 0: a thread in tx.send and one in rx.recv meet.
Rendezvous(t, u) ==
    /\ At(t, "send") /\ At(u, "recv")
    /\ arg[t] = arg[u]
    /\ channels[arg[t]] = 0
    /\ taken' = [taken EXCEPT ![arg[u]] = @ + 1]
    /\ rxLock' = [rxLock EXCEPT ![arg[u]] = Nobody]
    /\ pc' = [pc EXCEPT ![t] = "run", ![u] = "run"]
    /\ UNCHANGED <<arg, child, nthreads, channels, channelsLock, queue, sends,
                   recvs, joinVars>>

--------------------------------------------------------------------------------
(* Threads                                                                 *)

\* sydney_spawn: thread::spawn starts the thread; its handle is pushed later.
CallSpawn(t) ==
    /\ At(t, "run")
    /\ nthreads < MaxThreads
    /\ nthreads' = nthreads + 1
    /\ child' = [child EXCEPT ![t] = nthreads + 1]
    /\ pc' = [pc EXCEPT ![t] = "spawn", ![nthreads + 1] = "run"]
    /\ UNCHANGED <<arg, chanVars, joinVars>>

\* THREADS.lock().unwrap().push(handle)
PushHandle(t) ==
    /\ At(t, "spawn")
    /\ threadsLock = Nobody
    /\ threads' = Append(threads, child[t])
    /\ child' = [child EXCEPT ![t] = Nobody]
    /\ Goto(t, "run")
    /\ UNCHANGED <<arg, nthreads, chanVars, threadsLock, joining>>

\* The spawned function returns.
Return(t) ==
    /\ At(t, "run")
    /\ t # Main
    /\ Goto(t, "done")
    /\ UNCHANGED <<arg, child, nthreads, chanVars, joinVars>>

\* The main program is at its end and calls sydney_join_all.
MainEnd ==
    /\ At(Main, "run")
    /\ Goto(Main, "joinLock")
    /\ UNCHANGED <<arg, child, nthreads, chanVars, joinVars>>

\* Mutant: the handles are taken out and the mutex is given back.
MutJoinLock ==
    /\ At(Main, "joinLock")
    /\ threadsLock = Nobody
    /\ joining' = threads
    /\ threads' = << >>
    /\ Goto(Main, "joining")
    /\ UNCHANGED <<arg, child, nthreads, chanVars, threadsLock>>

\* sydney_join_all keeps THREADS while it drains and joins.
JoinLock ==
    /\ At(Main, "joinLock")
    /\ threadsLock = Nobody
    /\ threadsLock' = Main
    /\ joining' = threads
    /\ threads' = << >>
    /\ Goto(Main, "joining")
    /\ UNCHANGED <<arg, child, nthreads, chanVars>>

JoinOne ==
    /\ At(Main, "joining")
    /\ joining # << >>
    /\ pc[Head(joining)] = "done"
    /\ joining' = Tail(joining)
    /\ UNCHANGED <<pc, arg, child, nthreads, chanVars, threads, threadsLock>>

JoinDone ==
    /\ At(Main, "joining")
    /\ joining = << >>
    /\ threadsLock' = Nobody
    /\ Goto(Main, "shutdown")
    /\ UNCHANGED <<arg, child, nthreads, chanVars, threads, joining>>

\* sydney_gc_shutdown and the return from main, which ends the process.
Shutdown ==
    /\ At(Main, "shutdown")
    /\ Goto(Main, "exited")
    /\ UNCHANGED <<arg, child, nthreads, chanVars, joinVars>>

--------------------------------------------------------------------------------
\* What the program decides to do next.
Program(t) ==
    \/ CallCreate(t)
    \/ \E c \in DOMAIN channels : CallSend(t, c) \/ CallRecv(t, c)
    \/ CallSpawn(t) \/ Return(t)

\* What the runtime does for a thread that is inside it.
Runtime(t) ==
    \/ CreateLock(t) \/ CreatePush(t)
    \/ SendLock(t) \/ SendClone(t) \/ SendPut(t)
    \/ RecvLock(t) \/ RecvClone(t) \/ RecvRxLock(t) \/ RecvTake(t)
    \/ \E u \in Thread : Rendezvous(t, u)
    \/ PushHandle(t)

JoinAll == JoinLock \/ JoinOne \/ JoinDone \/ Shutdown

Next == (\E t \in Thread : Program(t) \/ Runtime(t)) \/ MainEnd \/ JoinAll

Spec == Init /\ [][Next]_vars

\* The operating system runs every thread, so a call into the runtime goes on
\* when it can.  Nothing is assumed of the program.
FairSpec ==
    /\ Spec
    /\ \A t \in Thread : WF_vars(Runtime(t))
    /\ WF_vars(JoinAll)

--------------------------------------------------------------------------------
(* Properties                                                              *)

(* Types; a thread in sydney_spawn has a handle in its hand.               *)
TypeOK ==
    /\ pc \in [Thread -> Location]
    /\ arg \in [Thread -> 0 .. MaxChans]
    /\ child \in [Thread -> Thread \cup {Nobody}]
    /\ \A t \in Thread : pc[t] = "spawn" => child[t] \in Thread
    /\ nthreads \in 0 .. MaxThreads
    /\ channels \in Seq(Nat) /\ Len(channels) <= MaxChans
    /\ channelsLock \in Thread \cup {Nobody}
    /\ rxLock \in [Handle -> Thread \cup {Nobody}]
    /\ queue \in [Handle -> Seq(Thread)]
    /\ threads \in Seq(Thread)
    /\ threadsLock \in {Main, Nobody}
    /\ joining \in Seq(Thread)
    /\ sends \in [Handle -> Nat] /\ recvs \in [Handle -> Nat] /\ taken \in [Handle -> Nat]

\* The spawned threads that have not returned.
Live == {t \in 1 .. nthreads : pc[t] # "done"}

In(t, s) == \E i \in DOMAIN s : s[i] = t

(* main passes sydney_join_all, and shuts the heap down, only when every   *)
(* spawned thread has returned: also the ones spawned by other threads     *)
(* while main was already joining.  (sydney_spawn, sydney_join_all)        *)
AllJoined == pc[Main] \in {"shutdown", "exited"} => Live = {}

\* A thread whose handle somebody holds: the list, main, or its spawner.
Held(t) ==
    \/ In(t, threads) \/ In(t, joining)
    \/ \E u \in Thread : u < t /\ child[u] = t /\ pc[u] = "spawn"

(* The reason for AllJoined: the handle of a live thread is never lost     *)
(* between thread::spawn and the push, and while main joins, the list is   *)
(* empty and nobody can add to it.                                         *)
HandlesKept ==
    /\ \A t \in 1 .. nthreads : t \in Live => Held(t)
    /\ \A t \in Thread : pc[t] = "unborn" <=> t > nthreads
    /\ pc[Main] \in {"joining", "shutdown", "exited"} => threads = << >>
    /\ pc[Main] # "joining" => joining = << >>
    /\ (threadsLock = Main) <=> (pc[Main] = "joining")
    /\ pc[Main] # "done"

\* The threads inside sydney_channel_send and sydney_channel_recv on c.
Sending(c) == {t \in Thread : pc[t] \in {"sendLookup", "sendLooking", "send"} /\ arg[t] = c}
Receiving(c) ==
    {t \in Thread : pc[t] \in {"recvLookup", "recvLooking", "recvRx", "recv"} /\ arg[t] = c}

(* However threads and locks interleave, no value is lost or delivered     *)
(* twice: a value whose send was called is with its sender, in the channel *)
(* or with a receiver, and a receive that was called waits or has one      *)
(* value.  The channel never holds more than its capacity, and at most one *)
(* thread at a time is inside rx.recv.  (sydney_channel_send and _recv)    *)
ValuesConserved ==
    \A c \in Handle :
        /\ sends[c] = taken[c] + Len(queue[c]) + Cardinality(Sending(c))
        /\ recvs[c] = taken[c] + Cardinality(Receiving(c))
        /\ c \in DOMAIN channels => Len(queue[c]) <= channels[c]
        /\ \A t, u \in Receiving(c) : pc[t] = "recv" /\ pc[u] = "recv" => t = u

(* The reasons for ValuesConserved: CHANNELS and ch.rx are held exactly    *)
(* inside their blocks, a thread works on a channel that exists, and a     *)
(* channel that does not exist yet is empty.                               *)
LocksHeld ==
    /\ \A t \in Thread :
          /\ channelsLock = t <=> pc[t] \in {"creating", "sendLooking", "recvLooking"}
          /\ \A c \in Handle : rxLock[c] = t <=> pc[t] = "recv" /\ arg[t] = c
          /\ pc[t] \in {"sendLookup", "sendLooking", "send", "recvLookup", "recvLooking",
                        "recvRx", "recv"} => arg[t] \in DOMAIN channels
    /\ \A c \in Handle : c \notin DOMAIN channels => queue[c] = << >>

(* A thread inside send or recv, which may wait there for ever, does not   *)
(* keep the table of channels locked: every lookup and every create gets   *)
(* through.  (the inner blocks of sydney_channel_send and _recv)           *)
LookupsProceed ==
    \A t \in Thread : pc[t] \in {"create", "sendLookup", "recvLookup"}
        ~> pc[t] \notin {"create", "sendLookup", "recvLookup"}

\* A value is on offer on c: buffered, or held by a sender in the handshake.
Offered(c) == queue[c] # << >> \/ \E t \in Thread : pc[t] = "send" /\ arg[t] = c
Wanted(c) == \E t \in Thread : pc[t] \in {"recvRx", "recv"} /\ arg[t] = c

(* A value on offer and a thread that wants one come together, although    *)
(* receivers queue up behind the one that holds ch.rx.                     *)
ValuesReachReceivers ==
    \A c \in Handle : \A n \in 0 .. MaxOps :
        (c \in DOMAIN channels /\ taken[c] = n /\ Offered(c) /\ Wanted(c))
            ~> (taken[c] > n \/ ~Alive)
================================================================================
